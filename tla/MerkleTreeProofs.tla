-------------------------- MODULE MerkleTreeProofs --------------------------
(***************************************************************************)
(* Proofs that the two incremental trees compute the root of the complete  *)
(* tree over their leaves, for every depth, hash function and order of     *)
(* updates.                                                                *)
(*                                                                         *)
(* A recursive function is the CHOOSE of a solution of its equation: each  *)
(* is first shown to have one, by induction on the height up to which one  *)
(* exists, and is then used by that equation.                              *)
(***************************************************************************)
EXTENDS MerkleTree, WellFoundedInduction, TLAPS

(* Every non-empty set of natural numbers has a least element. *)
LEMMA LeastNat ==
  ASSUME NEW T, T \subseteq Nat, T # {}
  PROVE  \E x \in T : \A y \in T : x <= y
<1> DEFINE R == OpToRel(<, Nat)
<1>1. IsWellFoundedOn(R, Nat)
  BY NatLessThanWellFounded, Zenon
<1>2. \A x, y \in Nat : y < x => <<y, x>> \in R
  BY SMT DEF OpToRel
<1> HIDE DEF R
<1>3. PICK x \in T : \A y \in T : ~(<<y, x>> \in R)
  BY <1>1, WFMin, Zenon
<1>4. ASSUME NEW y \in T PROVE x <= y
  <2>1. x \in Nat /\ y \in Nat
    BY Zenon
  <2>2. ~(y < x)
    BY <1>2, <1>3, <2>1, Zenon
  <2> QED BY <2>1, <2>2
<1> QED BY <1>4, Zenon

\* Induction up to a number, over the set of the numbers for which a fact holds.
LEMMA InductionUpTo ==
  ASSUME NEW n \in Nat, NEW T, 0 \in T,
         \A k \in 1 .. n : k - 1 \in T => k \in T
  PROVE  \A k \in 0 .. n : k \in T
<1> DEFINE F == {k \in 0 .. n : k \notin T}
<1> SUFFICES ASSUME F # {} PROVE FALSE
  BY Zenon
<1>1. PICK k \in F : \A j \in F : k <= j
  <2>1. F \subseteq Nat
    OBVIOUS
  <2> HIDE DEF F
  <2> QED BY <2>1, LeastNat, Zenon
<1>2. k \in 1 .. n /\ k - 1 \in 0 .. n /\ k - 1 < k
  OBVIOUS
<1> QED BY <1>1, <1>2

\* Powers of two.
LEMMA Pow2At ==
  \A h \in 0 .. Depth : Pow2[h] = IF h = 0 THEN 1 ELSE 2 * Pow2[h - 1]
<1> DEFINE G(k, g) == [h \in 0 .. k |-> IF h = 0 THEN 1 ELSE 2 * g[h - 1]]
           C == {k \in 0 .. Depth : \E g : g = G(k, g)}
<1>1. 0 \in C
  <2>1. [h \in 0 .. 0 |-> 1] = G(0, [h \in 0 .. 0 |-> 1])
    OBVIOUS
  <2>2. 0 \in 0 .. Depth
    BY TreeAssumption
  <2> QED BY <2>1, <2>2, Zenon
<1>2. ASSUME NEW k \in 1 .. Depth, k - 1 \in C PROVE k \in C
  <2>1. PICK g : g = G(k - 1, g)
    BY <1>2, Zenon
  <2> DEFINE f == [h \in 0 .. k |-> IF h = k THEN 2 * g[k - 1] ELSE g[h]]
  <2>2. \A h \in 0 .. k : f[h] = IF h = 0 THEN 1 ELSE 2 * f[h - 1]
    BY <2>1
  <2>3. f = G(k, f)
    BY <2>2, Zenon
  <2>4. k \in 0 .. Depth
    OBVIOUS
  <2> HIDE DEF f, G
  <2> QED BY <2>3, <2>4, Zenon
<1>3. Depth \in C
  <2> HIDE DEF C
  <2> QED BY <1>1, <1>2, InductionUpTo, TreeAssumption
<1>4. \E g : g = G(Depth, g)
  BY <1>3, Zenon
<1>5. Pow2 = CHOOSE g : g = G(Depth, g)
  BY Zenon DEF Pow2
<1>6. Pow2 = G(Depth, Pow2)
  BY <1>4, <1>5, Zenon
<1> QED BY <1>6, Zenon

\* Default values.
LEMMA DefaultAtAt ==
  \A h \in 0 .. Depth :
    DefaultAt[h] = IF h = 0 THEN Default
    ELSE Hash(DefaultAt[h - 1], DefaultAt[h - 1])
<1> DEFINE a == Default
           b(h, v) == Hash(v, v)
           G(k, g) == [h \in 0 .. k |-> IF h = 0 THEN a ELSE b(h, g[h - 1])]
           C == {k \in 0 .. Depth : \E g : g = G(k, g)}
<1>1. DefaultAt = CHOOSE g : g = G(Depth, g)
  BY Zenon DEF DefaultAt
<1> HIDE DEF a, b
<1>2. 0 \in C
  <2>1. [h \in 0 .. 0 |-> a] = G(0, [h \in 0 .. 0 |-> a])
    OBVIOUS
  <2>2. 0 \in 0 .. Depth
    BY TreeAssumption
  <2> QED BY <2>1, <2>2, Zenon
<1>3. ASSUME NEW k \in 1 .. Depth, k - 1 \in C PROVE k \in C
  <2>1. PICK g : g = G(k - 1, g)
    BY <1>3, Zenon
  <2> DEFINE f == [h \in 0 .. k |-> IF h = k THEN b(k, g[k - 1]) ELSE g[h]]
  <2>2. \A h \in 0 .. k : f[h] = IF h = 0 THEN a ELSE b(h, f[h - 1])
    BY <2>1
  <2>3. f = G(k, f)
    BY <2>2, Zenon
  <2>4. k \in 0 .. Depth
    OBVIOUS
  <2> HIDE DEF f, G
  <2> QED BY <2>3, <2>4
<1>4. Depth \in C
  <2> HIDE DEF C
  <2> QED BY <1>2, <1>3, InductionUpTo, TreeAssumption
<1>5. PICK g : g = G(Depth, g)
  BY <1>4, Zenon
<1>6. DefaultAt = G(Depth, DefaultAt)
  BY <1>1, <1>5, Zenon
<1>7. \A h \in 0 .. Depth : DefaultAt[h] = IF h = 0 THEN a ELSE b(h, DefaultAt[h - 1])
  BY <1>6, Zenon
<1> QED BY <1>7, Zenon DEF a, b

\* The nodes of the complete tree.
LEMMA MerkleNodesAt ==
  ASSUME NEW leaves
  PROVE  \A h \in 0 .. Depth :
           MerkleNodes(leaves)[h] = IF h = 0 THEN [i \in 0 .. Size(0) - 1 |-> IF i < Len(leaves) THEN leaves[i + 1] ELSE Default]
           ELSE [i \in 0 .. Size(h) - 1 |-> Hash(MerkleNodes(leaves)[h - 1][2 * i], MerkleNodes(leaves)[h - 1][2 * i + 1])]
<1> DEFINE a == [i \in 0 .. Size(0) - 1 |-> IF i < Len(leaves) THEN leaves[i + 1] ELSE Default]
           b(h, v) == [i \in 0 .. Size(h) - 1 |-> Hash(v[2 * i], v[2 * i + 1])]
           G(k, g) == [h \in 0 .. k |-> IF h = 0 THEN a ELSE b(h, g[h - 1])]
           C == {k \in 0 .. Depth : \E g : g = G(k, g)}
<1>1. MerkleNodes(leaves) = CHOOSE g : g = G(Depth, g)
  BY DEF MerkleNodes
<1> HIDE DEF a, b
<1>2. 0 \in C
  <2>1. [h \in 0 .. 0 |-> a] = G(0, [h \in 0 .. 0 |-> a])
    OBVIOUS
  <2>2. 0 \in 0 .. Depth
    BY TreeAssumption
  <2> QED BY <2>1, <2>2, Zenon
<1>3. ASSUME NEW k \in 1 .. Depth, k - 1 \in C PROVE k \in C
  <2>1. PICK g : g = G(k - 1, g)
    BY <1>3
  <2> DEFINE f == [h \in 0 .. k |-> IF h = k THEN b(k, g[k - 1]) ELSE g[h]]
  <2>2. \A h \in 0 .. k : f[h] = IF h = 0 THEN a ELSE b(h, f[h - 1])
    BY <2>1
  <2>3. f = G(k, f)
    BY <2>2
  <2>4. k \in 0 .. Depth
    OBVIOUS
  <2> HIDE DEF f, G
  <2> QED BY <2>3, <2>4
<1>4. Depth \in C
  <2> HIDE DEF C
  <2> QED BY <1>2, <1>3, InductionUpTo, TreeAssumption
<1>5. PICK g : g = G(Depth, g)
  BY <1>4
<1>6. MerkleNodes(leaves) = G(Depth, MerkleNodes(leaves))
  BY <1>1, <1>5, Zenon
<1>7. \A h \in 0 .. Depth : MerkleNodes(leaves)[h] = IF h = 0 THEN a ELSE b(h, MerkleNodes(leaves)[h - 1])
  BY <1>6, Zenon
<1> QED BY <1>7, Zenon DEF a, b

\* The layers that the contract recomputes.
LEMMA RecomputeAt ==
  ASSUME NEW ns, NEW n, NEW new
  PROVE  \A h \in 0 .. Depth :
           RecomputeUpTo(ns, n, new)[h] = IF h = 0 THEN [ns |-> ns, start |-> n - new, end |-> n]
           ELSE [ns |-> RecomputeParentLayer(RecomputeUpTo(ns, n, new)[h - 1].ns, Size(h - 1), RecomputeUpTo(ns, n, new)[h - 1].start, RecomputeUpTo(ns, n, new)[h - 1].end),
            start |-> RecomputeUpTo(ns, n, new)[h - 1].start \div 2, end |-> (RecomputeUpTo(ns, n, new)[h - 1].end + 1) \div 2]
<1> DEFINE a == [ns |-> ns, start |-> n - new, end |-> n]
           b(h, v) == [ns |-> RecomputeParentLayer(v.ns, Size(h - 1), v.start, v.end),
            start |-> v.start \div 2, end |-> (v.end + 1) \div 2]
           G(k, g) == [h \in 0 .. k |-> IF h = 0 THEN a ELSE b(h, g[h - 1])]
           C == {k \in 0 .. Depth : \E g : g = G(k, g)}
<1>1. RecomputeUpTo(ns, n, new) = CHOOSE g : g = G(Depth, g)
  BY Zenon DEF RecomputeUpTo
<1> HIDE DEF a, b
<1>2. 0 \in C
  <2>1. [h \in 0 .. 0 |-> a] = G(0, [h \in 0 .. 0 |-> a])
    OBVIOUS
  <2>2. 0 \in 0 .. Depth
    BY TreeAssumption
  <2> QED BY <2>1, <2>2, Zenon
<1>3. ASSUME NEW k \in 1 .. Depth, k - 1 \in C PROVE k \in C
  <2>1. PICK g : g = G(k - 1, g)
    BY <1>3
  <2> DEFINE f == [h \in 0 .. k |-> IF h = k THEN b(k, g[k - 1]) ELSE g[h]]
  <2>2. \A h \in 0 .. k : f[h] = IF h = 0 THEN a ELSE b(h, f[h - 1])
    BY <2>1
  <2>3. f = G(k, f)
    BY <2>2
  <2>4. k \in 0 .. Depth
    OBVIOUS
  <2> HIDE DEF f, G
  <2> QED BY <2>3, <2>4
<1>4. Depth \in C
  <2> HIDE DEF C
  <2> QED BY <1>2, <1>3, InductionUpTo, TreeAssumption
<1>5. PICK g : g = G(Depth, g)
  BY <1>4
<1>6. RecomputeUpTo(ns, n, new) = G(Depth, RecomputeUpTo(ns, n, new))
  BY <1>1, <1>5, Zenon
<1>7. \A h \in 0 .. Depth : RecomputeUpTo(ns, n, new)[h] = IF h = 0 THEN a ELSE b(h, RecomputeUpTo(ns, n, new)[h - 1])
  BY <1>6, Zenon
<1> QED BY <1>7, Zenon DEF a, b

\* The layers that the client recomputes.
LEMMA RecomputeLayersAt ==
  ASSUME NEW ls, NEW new
  PROVE  \A h \in 0 .. Depth :
           RecomputeLayersUpTo(ls, new)[h] = IF h = 0 THEN [layer |-> ls[Depth], start |-> Len(ls[Depth]) - new, end |-> Len(ls[Depth])]
           ELSE [layer |-> RecomputeLayer(RecomputeLayersUpTo(ls, new)[h - 1].layer, RecomputeLayersUpTo(ls, new)[h - 1].start, RecomputeLayersUpTo(ls, new)[h - 1].end, DefaultAt[h - 1], ls[Depth - h]),
            start |-> RecomputeLayersUpTo(ls, new)[h - 1].start \div 2, end |-> (RecomputeLayersUpTo(ls, new)[h - 1].end + 1) \div 2]
<1> DEFINE a == [layer |-> ls[Depth], start |-> Len(ls[Depth]) - new, end |-> Len(ls[Depth])]
           b(h, v) == [layer |-> RecomputeLayer(v.layer, v.start, v.end, DefaultAt[h - 1], ls[Depth - h]),
            start |-> v.start \div 2, end |-> (v.end + 1) \div 2]
           G(k, g) == [h \in 0 .. k |-> IF h = 0 THEN a ELSE b(h, g[h - 1])]
           C == {k \in 0 .. Depth : \E g : g = G(k, g)}
<1>1. RecomputeLayersUpTo(ls, new) = CHOOSE g : g = G(Depth, g)
  BY Zenon DEF RecomputeLayersUpTo
<1> HIDE DEF a, b
<1>2. 0 \in C
  <2>1. [h \in 0 .. 0 |-> a] = G(0, [h \in 0 .. 0 |-> a])
    OBVIOUS
  <2>2. 0 \in 0 .. Depth
    BY TreeAssumption
  <2> QED BY <2>1, <2>2, Zenon
<1>3. ASSUME NEW k \in 1 .. Depth, k - 1 \in C PROVE k \in C
  <2>1. PICK g : g = G(k - 1, g)
    BY <1>3
  <2> DEFINE f == [h \in 0 .. k |-> IF h = k THEN b(k, g[k - 1]) ELSE g[h]]
  <2>2. \A h \in 0 .. k : f[h] = IF h = 0 THEN a ELSE b(h, f[h - 1])
    BY <2>1
  <2>3. f = G(k, f)
    BY <2>2
  <2>4. k \in 0 .. Depth
    OBVIOUS
  <2> HIDE DEF f, G
  <2> QED BY <2>3, <2>4
<1>4. Depth \in C
  <2> HIDE DEF C
  <2> QED BY <1>2, <1>3, InductionUpTo, TreeAssumption
<1>5. PICK g : g = G(Depth, g)
  BY <1>4
<1>6. RecomputeLayersUpTo(ls, new) = G(Depth, RecomputeLayersUpTo(ls, new))
  BY <1>1, <1>5, Zenon
<1>7. \A h \in 0 .. Depth : RecomputeLayersUpTo(ls, new)[h] = IF h = 0 THEN a ELSE b(h, RecomputeLayersUpTo(ls, new)[h - 1])
  BY <1>6, Zenon
<1> QED BY <1>7, Zenon DEF a, b

\* The same, for the layers under a name.
LEMMA LayersAt ==
  ASSUME NEW ls, NEW new, NEW U, U = RecomputeLayersUpTo(ls, new)
  PROVE  \A d \in 0 .. Depth :
           U[d] = IF d = 0 THEN [layer |-> ls[Depth], start |-> Len(ls[Depth]) - new,
                                 end |-> Len(ls[Depth])]
                  ELSE [layer |-> RecomputeLayer(U[d - 1].layer, U[d - 1].start, U[d - 1].end,
                                                 DefaultAt[d - 1], ls[Depth - d]),
                        start |-> U[d - 1].start \div 2, end |-> (U[d - 1].end + 1) \div 2]
  BY RecomputeLayersAt, Zenon

\* The digests of a path.
LEMMA PathDigestsAt ==
  ASSUME NEW leaf, NEW address, NEW path
  PROVE  \A h \in 0 .. Depth :
           PathDigests(leaf, address, path)[h] = IF h = 0 THEN leaf
           ELSE IF (address \div Pow2[h - 1]) % 2 = 1 THEN Hash(path[h - 1], PathDigests(leaf, address, path)[h - 1]) ELSE Hash(PathDigests(leaf, address, path)[h - 1], path[h - 1])
<1> DEFINE a == leaf
           b(h, v) == IF (address \div Pow2[h - 1]) % 2 = 1 THEN Hash(path[h - 1], v) ELSE Hash(v, path[h - 1])
           G(k, g) == [h \in 0 .. k |-> IF h = 0 THEN a ELSE b(h, g[h - 1])]
           C == {k \in 0 .. Depth : \E g : g = G(k, g)}
<1>1. PathDigests(leaf, address, path) = CHOOSE g : g = G(Depth, g)
  BY Zenon DEF PathDigests
<1> HIDE DEF a, b
<1>2. 0 \in C
  <2>1. [h \in 0 .. 0 |-> a] = G(0, [h \in 0 .. 0 |-> a])
    OBVIOUS
  <2>2. 0 \in 0 .. Depth
    BY TreeAssumption
  <2> QED BY <2>1, <2>2, Zenon
<1>3. ASSUME NEW k \in 1 .. Depth, k - 1 \in C PROVE k \in C
  <2>1. PICK g : g = G(k - 1, g)
    BY <1>3
  <2> DEFINE f == [h \in 0 .. k |-> IF h = k THEN b(k, g[k - 1]) ELSE g[h]]
  <2>2. \A h \in 0 .. k : f[h] = IF h = 0 THEN a ELSE b(h, f[h - 1])
    BY <2>1
  <2>3. f = G(k, f)
    BY <2>2
  <2>4. k \in 0 .. Depth
    OBVIOUS
  <2> HIDE DEF f, G
  <2> QED BY <2>3, <2>4
<1>4. Depth \in C
  <2> HIDE DEF C
  <2> QED BY <1>2, <1>3, InductionUpTo, TreeAssumption
<1>5. PICK g : g = G(Depth, g)
  BY <1>4
<1>6. PathDigests(leaf, address, path) = G(Depth, PathDigests(leaf, address, path))
  BY <1>1, <1>5, Zenon
<1>7. \A h \in 0 .. Depth : PathDigests(leaf, address, path)[h] = IF h = 0 THEN a ELSE b(h, PathDigests(leaf, address, path)[h - 1])
  BY <1>6, Zenon
<1> QED BY <1>7, Zenon DEF a, b
-----------------------------------------------------------------------------
(* Up(n, h) nodes of layer h are above some of the first n leaves, and     *)
(* Down(n, h) of them above no other leaf.                                 *)
Down(n, h) == n \div Pow2[h]
Up(n, h) == Down(n + Pow2[h] - 1, h)

\* Powers of two are positive.
LEMMA Pow2Type == \A h \in 0 .. Depth : Pow2[h] \in Nat \ {0}
<1> DEFINE C == {h \in 0 .. Depth : Pow2[h] \in Nat \ {0}}
<1>1. 0 \in C
  BY Pow2At, TreeAssumption
<1>2. ASSUME NEW h \in 1 .. Depth, h - 1 \in C PROVE h \in C
  <2>1. Pow2[h] = 2 * Pow2[h - 1] /\ Pow2[h - 1] \in Nat \ {0} /\ h \in 0 .. Depth
    BY <1>2, Pow2At
  <2> QED BY <2>1
<1> HIDE DEF C
<1>3. \A h \in 0 .. Depth : h \in C
  BY <1>1, <1>2, InductionUpTo, TreeAssumption, Zenon
<1> QED BY <1>3, Zenon DEF C

\* The sizes of the layers: halved from layer to layer, down to one node.
LEMMA Sizes ==
  /\ Size(Depth) = 1 /\ Size(0) = MaxLeaves
  /\ \A h \in 0 .. Depth : Size(h) \in Nat \ {0} /\ Size(h) <= MaxLeaves
  /\ \A h \in 1 .. Depth : Size(h - 1) = 2 * Size(h)
<1>0. Depth \in Nat \ {0}
  BY TreeAssumption, Zenon
<1>1. Size(Depth) = 1 /\ Size(0) = MaxLeaves
  <2>1. Depth - Depth = 0 /\ Depth - 0 = Depth /\ 0 \in 0 .. Depth
    BY <1>0
  <2> QED BY <2>1, Pow2At, Zenon DEF Size, MaxLeaves
<1>2. \A h \in 0 .. Depth : Size(h) \in Nat \ {0}
  BY <1>0, Pow2Type DEF Size
<1>3. \A h \in 1 .. Depth : Size(h - 1) = 2 * Size(h)
  <2> TAKE h \in 1 .. Depth
  <2>1. Depth - (h - 1) \in 0 .. Depth /\ Depth - (h - 1) # 0 /\ (Depth - (h - 1)) - 1 = Depth - h
    BY <1>0
  <2> QED BY <2>1, Pow2At, Zenon DEF Size
<1>4. \A h \in 0 .. Depth : Size(h) <= MaxLeaves
  <2> DEFINE C == {h \in 0 .. Depth : Size(h) <= MaxLeaves}
  <2>1. 0 \in C
    BY <1>0, <1>1, <1>2
  <2>2. ASSUME NEW h \in 1 .. Depth, h - 1 \in C PROVE h \in C
    <3>1. Size(h - 1) <= MaxLeaves /\ Size(h - 1) = 2 * Size(h) /\ h \in 0 .. Depth
      BY <1>3, <2>2
    <3>2. Size(h) \in Nat /\ MaxLeaves \in Nat
      BY <1>0, <1>1, <1>2
    <3> QED BY <3>1, <3>2
  <2> HIDE DEF C
  <2>3. \A h \in 0 .. Depth : h \in C
    BY <1>0, <2>1, <2>2, InductionUpTo, Zenon
  <2> QED BY <2>3, Zenon DEF C
<1> QED BY <1>1, <1>2, <1>3, <1>4, Zenon

\* How the counts go from layer to layer.
LEMMA Counts ==
  /\ \A n \in Nat : Down(n, 0) = n /\ Up(n, 0) = n
  /\ \A n \in Nat, h \in 1 .. Depth :
       Down(n, h) = Down(n, h - 1) \div 2 /\ Up(n, h) = (Up(n, h - 1) + 1) \div 2
  /\ \A n \in Nat, h \in 0 .. Depth :
       /\ Down(n, h) \in Nat /\ Up(n, h) \in Nat
       /\ Down(n, h) <= Up(n, h)
       /\ \A m \in Nat : n <= m => Up(n, h) <= Up(m, h)
<1>1. \A n \in Nat, q \in Nat \ {0} :
        /\ n \div (2 * q) = (n \div q) \div 2
        /\ (n + (2 * q) - 1) \div (2 * q) = (((n + q - 1) \div q) + 1) \div 2
  <2> TAKE n \in Nat, q \in Nat \ {0}
  <2>1. \A m \in Nat : m \div (2 * q) = (m \div q) \div 2
    OBVIOUS
  <2>2. ((n + q - 1) \div q) + 1 = (n + q - 1 + q) \div q
    OBVIOUS
  <2>3. n + (2 * q) - 1 \in Nat /\ n + (2 * q) - 1 = n + q - 1 + q
    OBVIOUS
  <2> QED BY <2>1, <2>2, <2>3, Zenon
<1>2. \A n, m \in Nat, q \in Nat \ {0} :
        /\ n \div q \in Nat
        /\ n + q - 1 \in Nat
        /\ n <= m => n \div q <= m \div q
  OBVIOUS
<1>3. \A h \in 0 .. Depth : Pow2[h] \in Nat \ {0}
  BY Pow2Type, Zenon
<1>4. \A n \in Nat : Down(n, 0) = n /\ Up(n, 0) = n
  <2>1. Pow2[0] = 1
    BY Pow2At, TreeAssumption
  <2> QED BY <2>1 DEF Up, Down
<1>5. ASSUME NEW n \in Nat, NEW h \in 1 .. Depth
      PROVE  Down(n, h) = Down(n, h - 1) \div 2 /\ Up(n, h) = (Up(n, h - 1) + 1) \div 2
  <2>0. h \in 0 .. Depth /\ h - 1 \in 0 .. Depth /\ h # 0
    BY TreeAssumption
  <2>1. Pow2[h] = 2 * Pow2[h - 1] /\ Pow2[h - 1] \in Nat \ {0}
    BY <1>3, <2>0, Pow2At, Zenon
  <2> QED BY <1>1, <2>1, Zenon DEF Up, Down
<1>6. ASSUME NEW n \in Nat, NEW h \in 0 .. Depth
      PROVE  /\ Down(n, h) \in Nat /\ Up(n, h) \in Nat
             /\ Down(n, h) <= Up(n, h)
             /\ \A m \in Nat : n <= m => Up(n, h) <= Up(m, h)
  <2> DEFINE q == Pow2[h]
  <2>1. q \in Nat \ {0}
    BY <1>3, Zenon
  <2> HIDE DEF q
  <2>2. n + q - 1 \in Nat /\ n <= n + q - 1
    BY <2>1
  <2>3. n \div q \in Nat /\ (n + q - 1) \div q \in Nat /\ n \div q <= (n + q - 1) \div q
    BY <1>2, <2>1, <2>2, Zenon
  <2>4. ASSUME NEW m \in Nat, n <= m PROVE (n + q - 1) \div q <= (m + q - 1) \div q
    <3>1. m + q - 1 \in Nat /\ n + q - 1 <= m + q - 1
      BY <2>1, <2>4
    <3> QED BY <1>2, <2>1, <2>2, <3>1, Zenon
  <2> QED BY <2>3, <2>4, Zenon DEF Up, Down, q
<1> QED BY <1>4, <1>5, <1>6, Zenon

\* A full or partial tree has no more nodes in a layer than the layer has places.
LEMMA UpFits ==
  ASSUME NEW n \in 0 .. MaxLeaves
  PROVE  \A h \in 0 .. Depth : Up(n, h) <= Size(h)
<1> DEFINE C == {h \in 0 .. Depth : Up(n, h) <= Size(h)}
<1>0. Depth \in Nat /\ n \in Nat /\ MaxLeaves \in Nat
  BY Sizes, TreeAssumption
<1>1. 0 \in C
  BY <1>0, Counts, Sizes
<1>2. ASSUME NEW h \in 1 .. Depth, h - 1 \in C PROVE h \in C
  <2>1. /\ Up(n, h) = (Up(n, h - 1) + 1) \div 2 /\ Up(n, h - 1) <= Size(h - 1)
        /\ Size(h - 1) = 2 * Size(h)
    BY <1>0, <1>2, Counts, Sizes, Zenon
  <2>2. h \in 0 .. Depth /\ h - 1 \in 0 .. Depth
    BY <1>0
  <2>3. Up(n, h - 1) \in Nat /\ Size(h) \in Nat
    BY <1>0, <2>2, Counts, Sizes, Zenon
  <2> QED BY <2>1, <2>2, <2>3
<1> HIDE DEF C
<1>3. \A h \in 0 .. Depth : h \in C
  BY <1>0, <1>1, <1>2, InductionUpTo, Zenon
<1> QED BY <1>3, Zenon DEF C
-----------------------------------------------------------------------------
(* The node i of layer h in the complete tree over a list of leaves. *)
Ref(leaves, h, i) == MerkleNodes(leaves)[h][i]

\* The nodes of the complete tree, layer by layer.
LEMMA RefAt ==
  ASSUME NEW leaves, NEW h \in 0 .. Depth, NEW i \in 0 .. Size(h) - 1
  PROVE  /\ h = 0 => Ref(leaves, h, i) = IF i < Len(leaves) THEN leaves[i + 1] ELSE Default
         /\ h # 0 => Ref(leaves, h, i) =
                       Hash(Ref(leaves, h - 1, 2 * i), Ref(leaves, h - 1, 2 * i + 1))
<1> DEFINE g == MerkleNodes(leaves)
<1>1. g[h] = IF h = 0 THEN [j \in 0 .. Size(0) - 1 |-> IF j < Len(leaves) THEN leaves[j + 1] ELSE Default]
             ELSE [j \in 0 .. Size(h) - 1 |-> Hash(g[h - 1][2 * j], g[h - 1][2 * j + 1])]
  BY MerkleNodesAt, Zenon
<1> HIDE DEF g
<1>2. /\ h = 0 => g[h][i] = IF i < Len(leaves) THEN leaves[i + 1] ELSE Default
      /\ h # 0 => g[h][i] = Hash(g[h - 1][2 * i], g[h - 1][2 * i + 1])
  BY <1>1, Zenon
<1> QED BY <1>2, Zenon DEF Ref, g

\* Both children of a node are nodes.
LEMMA Children ==
  ASSUME NEW h \in 1 .. Depth, NEW i \in 0 .. Size(h) - 1
  PROVE  2 * i \in 0 .. Size(h - 1) - 1 /\ 2 * i + 1 \in 0 .. Size(h - 1) - 1
<1>1. Size(h - 1) = 2 * Size(h) /\ Size(h) \in Nat
  <2>1. h \in 0 .. Depth
    BY TreeAssumption
  <2> QED BY <2>1, Sizes, Zenon
<1> QED BY <1>1

\* Nodes above no leaf have the default value of their layer.
LEMMA RefDefault ==
  ASSUME NEW leaves, Len(leaves) \in Nat
  PROVE  \A h \in 0 .. Depth : \A i \in 0 .. Size(h) - 1 :
           Up(Len(leaves), h) <= i => Ref(leaves, h, i) = DefaultAt[h]
<1> DEFINE n == Len(leaves)
           P(h) == \A i \in 0 .. Size(h) - 1 : Up(n, h) <= i => Ref(leaves, h, i) = DefaultAt[h]
           C == {h \in 0 .. Depth : P(h)}
<1>0. Depth \in Nat /\ n \in Nat /\ 0 \in 0 .. Depth
  BY TreeAssumption
<1>1. 0 \in C
  <2> SUFFICES ASSUME NEW i \in 0 .. Size(0) - 1, Up(n, 0) <= i
               PROVE  Ref(leaves, 0, i) = DefaultAt[0]
    BY <1>0, Zenon
  <2>1. Up(n, 0) = n /\ DefaultAt[0] = Default /\ Size(0) \in Nat
    BY <1>0, Counts, DefaultAtAt, Sizes, Zenon
  <2>2. Ref(leaves, 0, i) = IF i < n THEN leaves[i + 1] ELSE Default
    BY <1>0, RefAt, Zenon
  <2>3. ~(i < n)
    BY <1>0, <2>1
  <2> QED BY <2>1, <2>2, <2>3, Zenon
<1>2. ASSUME NEW h \in 1 .. Depth, h - 1 \in C PROVE h \in C
  <2> SUFFICES ASSUME NEW i \in 0 .. Size(h) - 1, Up(n, h) <= i
               PROVE  Ref(leaves, h, i) = DefaultAt[h]
    BY <1>0
  <2>1. h \in 0 .. Depth /\ h # 0 /\ h - 1 \in 0 .. Depth
    BY <1>0
  <2>2. /\ DefaultAt[h] = Hash(DefaultAt[h - 1], DefaultAt[h - 1])
        /\ Ref(leaves, h, i) = Hash(Ref(leaves, h - 1, 2 * i), Ref(leaves, h - 1, 2 * i + 1))
    BY <2>1, DefaultAtAt, RefAt, Zenon
  <2>3. /\ Up(n, h) = (Up(n, h - 1) + 1) \div 2 /\ Up(n, h - 1) \in Nat /\ Size(h) \in Nat
    BY <1>0, <2>1, Counts, Sizes, Zenon
  <2>4. Up(n, h - 1) <= 2 * i /\ Up(n, h - 1) <= 2 * i + 1
    BY <2>3
  <2>5. 2 * i \in 0 .. Size(h - 1) - 1 /\ 2 * i + 1 \in 0 .. Size(h - 1) - 1
    BY Children, Zenon
  <2>6. Ref(leaves, h - 1, 2 * i) = DefaultAt[h - 1] /\ Ref(leaves, h - 1, 2 * i + 1) = DefaultAt[h - 1]
    BY <1>2, <2>4, <2>5, Zenon
  <2> QED BY <2>2, <2>6, Zenon
<1> HIDE DEF C
<1>3. \A h \in 0 .. Depth : h \in C
  BY <1>0, <1>1, <1>2, InductionUpTo, Zenon
<1> QED BY <1>3, Zenon DEF C

\* Nodes above the first m leaves only depend on nothing else.
LEMMA RefSame ==
  ASSUME NEW xs, NEW ys, NEW m \in Nat, Len(xs) \in Nat, Len(ys) \in Nat,
         m <= Len(xs), m <= Len(ys), \A i \in 1 .. m : xs[i] = ys[i]
  PROVE  \A h \in 0 .. Depth : \A i \in 0 .. Size(h) - 1 :
           i < Down(m, h) => Ref(xs, h, i) = Ref(ys, h, i)
<1> DEFINE P(h) == \A i \in 0 .. Size(h) - 1 : i < Down(m, h) => Ref(xs, h, i) = Ref(ys, h, i)
           C == {h \in 0 .. Depth : P(h)}
<1>0. Depth \in Nat /\ 0 \in 0 .. Depth
  BY TreeAssumption
<1>1. 0 \in C
  <2> SUFFICES ASSUME NEW i \in 0 .. Size(0) - 1, i < Down(m, 0)
               PROVE  Ref(xs, 0, i) = Ref(ys, 0, i)
    BY <1>0, Zenon
  <2>1. Down(m, 0) = m /\ Size(0) \in Nat
    BY <1>0, Counts, Sizes, Zenon
  <2>2. /\ Ref(xs, 0, i) = IF i < Len(xs) THEN xs[i + 1] ELSE Default
        /\ Ref(ys, 0, i) = IF i < Len(ys) THEN ys[i + 1] ELSE Default
    BY <1>0, RefAt, Zenon
  <2>3. i < Len(xs) /\ i < Len(ys) /\ i + 1 \in 1 .. m
    BY <2>1
  <2> QED BY <2>2, <2>3, Zenon
<1>2. ASSUME NEW h \in 1 .. Depth, h - 1 \in C PROVE h \in C
  <2> SUFFICES ASSUME NEW i \in 0 .. Size(h) - 1, i < Down(m, h)
               PROVE  Ref(xs, h, i) = Ref(ys, h, i)
    BY <1>0
  <2>1. h \in 0 .. Depth /\ h # 0 /\ h - 1 \in 0 .. Depth
    BY <1>0
  <2>2. /\ Ref(xs, h, i) = Hash(Ref(xs, h - 1, 2 * i), Ref(xs, h - 1, 2 * i + 1))
        /\ Ref(ys, h, i) = Hash(Ref(ys, h - 1, 2 * i), Ref(ys, h - 1, 2 * i + 1))
    BY <2>1, RefAt, Zenon
  <2>3. Down(m, h) = Down(m, h - 1) \div 2 /\ Down(m, h - 1) \in Nat /\ Size(h) \in Nat
    BY <1>0, <2>1, Counts, Sizes, Zenon
  <2>4. 2 * i < Down(m, h - 1) /\ 2 * i + 1 < Down(m, h - 1)
    BY <2>3
  <2>5. 2 * i \in 0 .. Size(h - 1) - 1 /\ 2 * i + 1 \in 0 .. Size(h - 1) - 1
    BY Children, Zenon
  <2>6. /\ Ref(xs, h - 1, 2 * i) = Ref(ys, h - 1, 2 * i)
        /\ Ref(xs, h - 1, 2 * i + 1) = Ref(ys, h - 1, 2 * i + 1)
    BY <1>2, <2>4, <2>5, Zenon
  <2> QED BY <2>2, <2>6, Zenon
<1> HIDE DEF C
<1>3. \A h \in 0 .. Depth : h \in C
  BY <1>0, <1>1, <1>2, InductionUpTo, Zenon
<1> QED BY <1>3, Zenon DEF C
-----------------------------------------------------------------------------
(* The contract: a layer of the array agrees with the complete tree in the *)
(* nodes that are above some leaf, and in its last entry.                  *)
Slots == 0 .. 2 * MaxLeaves - 2

\* The nodes that only cover old leaves stay when leaves are added.
LEMMA RefKept ==
  ASSUME NEW old, NEW leaves, NEW h \in 0 .. Depth, Len(old) \in Nat, Len(leaves) \in Nat,
         Len(old) <= Len(leaves), \A i \in 1 .. Len(old) : old[i] = leaves[i]
  PROVE  \A i \in 0 .. Size(h) - 1 : i < Down(Len(old), h) => Ref(old, h, i) = Ref(leaves, h, i)
  BY RefSame

Slot(h, i) == Size(h) - 1 + i

GoodLayer(ns, h, leaves) ==
  \A i \in 0 .. Size(h) - 1 :
    i < Up(Len(leaves), h) \/ i = Size(h) - 1 => ns[Slot(h, i)] = Ref(leaves, h, i)

\* A layer has at least twice the size of every layer above it.
LEMMA SizesApart ==
  ASSUME NEW g \in 0 .. Depth, NEW h \in 0 .. Depth, g < h
  PROVE  2 * Size(h) <= Size(g)
<1> DEFINE C == {k \in 0 .. Depth : k > g => 2 * Size(k) <= Size(g)}
<1>0. Depth \in Nat
  BY TreeAssumption, Zenon
<1>1. 0 \in C
  BY <1>0
<1>2. ASSUME NEW k \in 1 .. Depth, k - 1 \in C PROVE k \in C
  <2>1. k \in 0 .. Depth /\ k - 1 \in 0 .. Depth
    BY <1>0
  <2>2. Size(k - 1) = 2 * Size(k) /\ Size(k) \in Nat /\ Size(k - 1) \in Nat /\ Size(g) \in Nat
    BY <2>1, Sizes, Zenon
  <2>3. k > g => k - 1 = g \/ k - 1 > g
    BY <2>1
  <2>4. k - 1 > g => 2 * Size(k - 1) <= Size(g)
    BY <1>2, Zenon
  <2> QED BY <2>1, <2>2, <2>3, <2>4
<1> HIDE DEF C
<1>3. \A k \in 0 .. Depth : k \in C
  BY <1>0, <1>1, <1>2, InductionUpTo, Zenon
<1> QED BY <1>3, Zenon DEF C

\* The slots of a layer are slots, and no slot is in two layers.
LEMMA SlotsOfLayers ==
  ASSUME NEW g \in 0 .. Depth, NEW i \in 0 .. Size(g) - 1
  PROVE  /\ Slot(g, i) \in Slots
         /\ \A h \in 0 .. Depth : h # g =>
              ~(Size(h) - 1 <= Slot(g, i) /\ Slot(g, i) < 2 * Size(h) - 1)
<1>1. Size(g) \in Nat \ {0} /\ MaxLeaves \in Nat /\ Size(g) <= MaxLeaves
  BY Sizes, TreeAssumption
<1>2. Slot(g, i) \in Slots
  BY <1>1 DEF Slot, Slots
<1>3. ASSUME NEW h \in 0 .. Depth, h # g
      PROVE  ~(Size(h) - 1 <= Slot(g, i) /\ Slot(g, i) < 2 * Size(h) - 1)
  <2>1. Size(h) \in Nat \ {0}
    BY Sizes, Zenon
  <2>2. h < g \/ g < h
    BY <1>3, TreeAssumption
  <2>3. 2 * Size(h) <= Size(g) \/ 2 * Size(g) <= Size(h)
    BY <2>2, SizesApart, Zenon
  <2> QED BY <1>1, <2>1, <2>3 DEF Slot
<1> QED BY <1>2, <1>3, Zenon

(* What the nodes of layer h are after their recomputation for the children *)
(* from start to end.                                                        *)
ParentsOf(ns, h, start, end, new) ==
  \A i \in 0 .. Size(h) - 1 :
    /\ 2 * i + 1 = end =>
         new[Slot(h, i)] = Hash(ns[Slot(h - 1, 2 * i)], ns[Slot(h - 1, Size(h - 1) - 1)])
    /\ start \div 2 <= i /\ 2 * i + 1 < end =>
         new[Slot(h, i)] = Hash(ns[Slot(h - 1, 2 * i)], ns[Slot(h - 1, 2 * i + 1)])
    /\ i < start \div 2 /\ 2 * i + 1 < end => new[Slot(h, i)] = ns[Slot(h, i)]
    /\ end <= 2 * i => new[Slot(h, i)] = ns[Slot(h, i)]

\* What recomputing a layer writes.
LEMMA ParentLayer ==
  ASSUME NEW ns, DOMAIN ns = Slots, NEW h \in 1 .. Depth, NEW start \in Nat, NEW end \in Nat,
         end <= Size(h - 1), NEW new, new = RecomputeParentLayer(ns, Size(h - 1), start, end)
  PROVE  /\ DOMAIN new = Slots
         /\ \A j \in Slots : ~(Size(h) - 1 <= j /\ j < 2 * Size(h) - 1) => new[j] = ns[j]
         /\ ParentsOf(ns, h, start, end, new)
<1> DEFINE s == Size(h)
           first == 2 * s - 1
           rend == first + (start - (start % 2))
           odd == end % 2 = 1
           left0 == IF odd THEN first + end - 1 ELSE first + end
           Pair(p) == LET left == 2 * p + 1 IN
             IF odd /\ left = left0 THEN Hash(ns[left], ns[2 * first])
             ELSE IF rend <= left /\ left < left0 THEN Hash(ns[left], ns[left + 1])
             ELSE ns[p]
<1>1. Size(h - 1) = 2 * s /\ s \in Nat \ {0} /\ s <= MaxLeaves /\ MaxLeaves \in Nat
  <2>1. h \in 0 .. Depth /\ 0 \in 0 .. Depth
    BY TreeAssumption
  <2> QED BY <2>1, Sizes, Zenon
<1>2. (2 * s) \div 2 = s
  BY <1>1
<1>3. new = [j \in DOMAIN ns |-> IF s - 1 <= j /\ j < first THEN Pair(j) ELSE ns[j]]
  BY <1>1, <1>2, Zenon DEF RecomputeParentLayer
<1>4. DOMAIN new = Slots /\ \A j \in Slots : new[j] = IF s - 1 <= j /\ j < first THEN Pair(j) ELSE ns[j]
  <2> HIDE DEF Pair, first, s
  <2> QED BY <1>3, Zenon
<1>5. \A j \in Slots : ~(s - 1 <= j /\ j < 2 * s - 1) => new[j] = ns[j]
  <2> HIDE DEF Pair, s
  <2> QED BY <1>4, Zenon
<1>6. ASSUME NEW i \in 0 .. s - 1
      PROVE  /\ 2 * i + 1 = end =>
                  new[s - 1 + i] = Hash(ns[2 * s - 1 + 2 * i], ns[2 * s - 1 + (2 * s - 1)])
             /\ start \div 2 <= i /\ 2 * i + 1 < end =>
                  new[s - 1 + i] = Hash(ns[2 * s - 1 + 2 * i], ns[2 * s - 1 + (2 * i + 1)])
             /\ i < start \div 2 /\ 2 * i + 1 < end => new[s - 1 + i] = ns[s - 1 + i]
             /\ end <= 2 * i => new[s - 1 + i] = ns[s - 1 + i]
  <2>1. s - 1 + i \in Slots /\ s - 1 <= s - 1 + i /\ s - 1 + i < first
    BY <1>1 DEF Slots
  <2>2. new[s - 1 + i] = Pair(s - 1 + i)
    <3> HIDE DEF Pair, first, s
    <3> QED BY <1>4, <2>1, Zenon
  <2> DEFINE left == 2 * (s - 1 + i) + 1
  <2>3. /\ left = 2 * s - 1 + 2 * i /\ left + 1 = 2 * s - 1 + (2 * i + 1)
        /\ 2 * first = 2 * s - 1 + (2 * s - 1)
    BY <1>1
  <2> HIDE DEF s
  <2>4. (odd /\ left = left0) <=> 2 * i + 1 = end
    BY <1>1
  <2>5. (rend <= left /\ left < left0) <=> (start \div 2 <= i /\ 2 * i + 1 < end)
    BY <1>1
  <2>6. Pair(s - 1 + i) = IF 2 * i + 1 = end THEN Hash(ns[left], ns[2 * first])
                          ELSE IF start \div 2 <= i /\ 2 * i + 1 < end THEN Hash(ns[left], ns[left + 1])
                          ELSE ns[s - 1 + i]
    <3> HIDE DEF odd, left0, rend, first
    <3> QED BY <2>4, <2>5, Zenon
  <2> HIDE DEF Pair, left, first
  <2>7. /\ 2 * i + 1 = end => Pair(s - 1 + i) = Hash(ns[left], ns[2 * first])
        /\ start \div 2 <= i /\ 2 * i + 1 < end => Pair(s - 1 + i) = Hash(ns[left], ns[left + 1])
        /\ i < start \div 2 /\ 2 * i + 1 < end => Pair(s - 1 + i) = ns[s - 1 + i]
        /\ end <= 2 * i => Pair(s - 1 + i) = ns[s - 1 + i]
    BY <1>1, <2>6
  <2> QED BY <2>2, <2>3, <2>7, Zenon
<1> QED BY <1>1, <1>4, <1>5, <1>6, Zenon DEF Slot, s, ParentsOf

\* The same for one node.
LEMMA ParentNode ==
  ASSUME NEW ns, DOMAIN ns = Slots, NEW h \in 1 .. Depth, NEW start \in Nat, NEW end \in Nat,
         end <= Size(h - 1), NEW new, new = RecomputeParentLayer(ns, Size(h - 1), start, end),
         NEW i \in 0 .. Size(h) - 1, NEW last, last = Size(h - 1) - 1
  PROVE  /\ 2 * i + 1 = end =>
              new[Slot(h, i)] = Hash(ns[Slot(h - 1, 2 * i)], ns[Slot(h - 1, last)])
         /\ start \div 2 <= i /\ 2 * i + 1 < end =>
              new[Slot(h, i)] = Hash(ns[Slot(h - 1, 2 * i)], ns[Slot(h - 1, 2 * i + 1)])
         /\ i < start \div 2 /\ 2 * i + 1 < end => new[Slot(h, i)] = ns[Slot(h, i)]
         /\ end <= 2 * i => new[Slot(h, i)] = ns[Slot(h, i)]
<1>1. ParentsOf(ns, h, start, end, new)
  BY ParentLayer
<1> QED BY <1>1, Zenon DEF ParentsOf

(* Recomputing the parents of a layer that is right for the new leaves     *)
(* makes their layer right, if it was so for the old leaves, the first of  *)
(* the new ones.                                                           *)
LEMMA ParentIsGood ==
  ASSUME NEW ns, DOMAIN ns = Slots, NEW h \in 1 .. Depth,
         NEW old, NEW leaves, Len(old) \in Nat, Len(leaves) \in 0 .. MaxLeaves,
         Len(old) <= Len(leaves), \A i \in 1 .. Len(old) : old[i] = leaves[i],
         NEW start \in Nat, start \div 2 = Down(Len(old), h),
         GoodLayer(ns, h - 1, leaves), GoodLayer(ns, h, old)
  PROVE  GoodLayer(RecomputeParentLayer(ns, Size(h - 1), start, Up(Len(leaves), h - 1)), h, leaves)
<1> DEFINE n == Len(leaves)
           c == Len(old)
           end == Up(n, h - 1)
           new == RecomputeParentLayer(ns, Size(h - 1), start, end)
           s == Size(h)
<1>0. h \in 0 .. Depth /\ h - 1 \in 0 .. Depth /\ h # 0 /\ MaxLeaves \in Nat /\ n \in Nat /\ c \in Nat
  BY Sizes, TreeAssumption
<1>1. s \in Nat \ {0} /\ Size(h - 1) = 2 * s
  BY <1>0, Sizes, Zenon
<1>2. /\ end \in Nat /\ end <= 2 * s /\ Up(n, h) = (end + 1) \div 2
      /\ Up(c, h) \in Nat /\ Up(c, h) <= Up(n, h) /\ Down(c, h) <= Up(c, h) /\ Down(c, h) \in Nat
  BY <1>0, <1>1, Counts, UpFits
<1> SUFFICES ASSUME NEW i \in 0 .. s - 1, i < Up(n, h) \/ i = s - 1
             PROVE  new[Slot(h, i)] = Ref(leaves, h, i)
  BY Zenon DEF GoodLayer
<1>3. /\ 2 * i + 1 = end =>
           new[Slot(h, i)] = Hash(ns[Slot(h - 1, 2 * i)], ns[Slot(h - 1, 2 * s - 1)])
      /\ start \div 2 <= i /\ 2 * i + 1 < end =>
           new[Slot(h, i)] = Hash(ns[Slot(h - 1, 2 * i)], ns[Slot(h - 1, 2 * i + 1)])
      /\ i < start \div 2 /\ 2 * i + 1 < end => new[Slot(h, i)] = ns[Slot(h, i)]
      /\ end <= 2 * i => new[Slot(h, i)] = ns[Slot(h, i)]
  <2>1. end <= Size(h - 1)
    BY <1>1, <1>2, Zenon
  <2> HIDE DEF end
  <2>2. i \in 0 .. Size(h) - 1 /\ end \in Nat /\ 2 * s - 1 = Size(h - 1) - 1
    BY <1>1, <1>2, Zenon
  <2>3. new = RecomputeParentLayer(ns, Size(h - 1), start, end)
    BY Zenon
  <2> HIDE DEF new, n, c, s
  <2> QED BY <2>1, <2>2, <2>3, ParentNode, SMTT(30)
<1> HIDE DEF new
<1>4. 2 * i \in 0 .. Size(h - 1) - 1 /\ 2 * i + 1 \in 0 .. Size(h - 1) - 1
  BY Children, Zenon
<1>5. Ref(leaves, h, i) = Hash(Ref(leaves, h - 1, 2 * i), Ref(leaves, h - 1, 2 * i + 1))
  BY <1>0, RefAt, Zenon
<1> HIDE DEF end, s
<1>6. CASE 2 * i + 1 = end
  <2>1. ns[Slot(h - 1, 2 * i)] = Ref(leaves, h - 1, 2 * i)
    BY <1>4, <1>6 DEF GoodLayer, end
  <2>2. 2 * s - 1 \in 0 .. Size(h - 1) - 1 /\ 2 * s - 1 = Size(h - 1) - 1
    BY <1>1
  <2>3. ns[Slot(h - 1, 2 * s - 1)] = Ref(leaves, h - 1, 2 * s - 1)
    BY <2>2, Zenon DEF GoodLayer
  <2>4. end <= 2 * i + 1 /\ end <= 2 * s - 1
    BY <1>1, <1>6
  <2>5. /\ Ref(leaves, h - 1, 2 * i + 1) = DefaultAt[h - 1]
        /\ Ref(leaves, h - 1, 2 * s - 1) = DefaultAt[h - 1]
    BY <1>0, <1>4, <2>2, <2>4, RefDefault, Zenon DEF end
  <2> QED BY <1>3, <1>5, <1>6, <2>1, <2>3, <2>5, Zenon
<1>7. CASE start \div 2 <= i /\ 2 * i + 1 < end
  <2>1. 2 * i < end
    BY <1>1, <1>2, <1>7
  <2>2. /\ ns[Slot(h - 1, 2 * i)] = Ref(leaves, h - 1, 2 * i)
        /\ ns[Slot(h - 1, 2 * i + 1)] = Ref(leaves, h - 1, 2 * i + 1)
    BY <1>4, <1>7, <2>1, Zenon DEF GoodLayer, end
  <2> QED BY <1>3, <1>5, <1>7, <2>2, Zenon
<1>8. CASE i < start \div 2 /\ 2 * i + 1 < end
  <2>1. i < Down(c, h) /\ i < Up(c, h)
    BY <1>1, <1>2, <1>8
  <2>2. ns[Slot(h, i)] = Ref(old, h, i)
    BY <2>1, Zenon DEF GoodLayer, s
  <2>3. Ref(old, h, i) = Ref(leaves, h, i)
    BY <1>0, <2>1, RefSame DEF s
  <2> QED BY <1>3, <1>8, <2>2, <2>3, Zenon
<1>9. CASE end <= 2 * i
  <2>1. Up(n, h) <= i /\ Up(c, h) <= i /\ i = s - 1
    BY <1>1, <1>2, <1>9
  <2>2. ns[Slot(h, i)] = Ref(old, h, i)
    BY <2>1, Zenon DEF GoodLayer, s
  <2>3. Ref(old, h, i) = DefaultAt[h] /\ Ref(leaves, h, i) = DefaultAt[h]
    BY <1>0, <2>1, RefDefault, Zenon DEF s
  <2> QED BY <1>3, <1>9, <2>2, <2>3, Zenon
<1> QED BY <1>1, <1>2, <1>6, <1>7, <1>8, <1>9

(* _recomputeRoot writes no leaf. *)
LEMMA LeavesKept ==
  ASSUME NEW ns, DOMAIN ns = Slots, NEW n \in 0 .. MaxLeaves, NEW k \in Nat, n - k \in Nat,
         NEW after, after = RecomputeRoot(ns, n, k)
  PROVE  DOMAIN after = Slots /\ \A i \in 0 .. MaxLeaves - 1 : after[MaxLeaves - 1 + i] = ns[MaxLeaves - 1 + i]
<1> DEFINE L == RecomputeUpTo(ns, n, k)
           P(d) == /\ L[d].start \in Nat /\ L[d].end = Up(n, d)
                   /\ DOMAIN L[d].ns = Slots
                   /\ \A i \in 0 .. Size(0) - 1 : L[d].ns[Slot(0, i)] = ns[Slot(0, i)]
           C == {d \in 0 .. Depth : P(d)}
<1>0. Depth \in Nat /\ 0 \in 0 .. Depth /\ Depth \in 0 .. Depth /\ n \in Nat /\ MaxLeaves \in Nat
  BY Sizes, TreeAssumption
<1>1. ASSUME NEW d \in 0 .. Depth
      PROVE  L[d] = IF d = 0 THEN [ns |-> ns, start |-> n - k, end |-> n]
                    ELSE [ns |-> RecomputeParentLayer(L[d - 1].ns, Size(d - 1),
                                                      L[d - 1].start, L[d - 1].end),
                          start |-> L[d - 1].start \div 2, end |-> (L[d - 1].end + 1) \div 2]
  BY RecomputeAt
<1> HIDE DEF L
<1>2. 0 \in C
  <2>1. L[0].ns = ns /\ L[0].start = n - k /\ L[0].end = n
    <3>1. L[0] = [ns |-> ns, start |-> n - k, end |-> n]
      BY <1>0, <1>1, Zenon
    <3> HIDE DEF L
    <3> QED BY <3>1
  <2>2. Up(n, 0) = n
    BY <1>0, Counts, Zenon
  <2> QED BY <1>0, <2>1, <2>2, Zenon
<1>3. ASSUME NEW d \in 1 .. Depth, d - 1 \in C PROVE d \in C
  <2> DEFINE o == L[d - 1]
             new == RecomputeParentLayer(o.ns, Size(d - 1), o.start, o.end)
  <2>0. d \in 0 .. Depth /\ d - 1 \in 0 .. Depth /\ d # 0
    BY <1>0
  <2>1. P(d - 1)
    BY <1>3, Zenon
  <2>2. L[d].ns = new /\ L[d].start = o.start \div 2 /\ L[d].end = (o.end + 1) \div 2
    <3>1. L[d] = [ns |-> new, start |-> o.start \div 2, end |-> (o.end + 1) \div 2]
      BY <1>1, <2>0, Zenon
    <3> HIDE DEF new, o
    <3> QED BY <3>1
  <2>3. L[d].start \in Nat /\ L[d].end = Up(n, d)
    <3>1. o.start \in Nat /\ o.end = Up(n, d - 1)
      BY <2>1, Zenon
    <3>2. Up(n, d) = (Up(n, d - 1) + 1) \div 2
      BY <1>0, Counts, Zenon
    <3> HIDE DEF o
    <3> QED BY <2>2, <3>1, <3>2
  <2>4. o.start \in Nat /\ o.end \in Nat /\ o.end <= Size(d - 1) /\ DOMAIN o.ns = Slots
    BY <1>0, <2>0, <2>1, Counts, UpFits
  <2>5. /\ DOMAIN new = Slots
        /\ \A j \in Slots : ~(Size(d) - 1 <= j /\ j < 2 * Size(d) - 1) => new[j] = o.ns[j]
    <3>1. new = RecomputeParentLayer(o.ns, Size(d - 1), o.start, o.end)
      BY Zenon
    <3> HIDE DEF new
    <3> QED BY <2>4, <3>1, ParentLayer, SMTT(30)
  <2> HIDE DEF new, o
  <2>6. \A i \in 0 .. Size(0) - 1 : new[Slot(0, i)] = o.ns[Slot(0, i)]
    BY <1>0, <2>0, <2>5, SlotsOfLayers, Zenon
  <2>7. \A i \in 0 .. Size(0) - 1 : new[Slot(0, i)] = ns[Slot(0, i)]
    BY <2>1, <2>6, Zenon DEF o
  <2> QED BY <2>0, <2>2, <2>3, <2>5, <2>7, Zenon
<1>4. Depth \in C
  <2> HIDE DEF C
  <2> QED BY <1>0, <1>2, <1>3, InductionUpTo, Zenon
<1>5. RecomputeRoot(ns, n, k) = L[Depth].ns
  BY Zenon DEF RecomputeRoot, L
<1>6. Size(0) = MaxLeaves
  BY Sizes, Zenon
<1> QED BY <1>4, <1>5, <1>6, Zenon DEF Slot

\* A node left of the first pair that is recomputed.
LEMMA BelowHalf ==
  ASSUME NEW s \in Nat, NEW e \in Nat, NEW i \in Nat, s <= e, i < s \div 2
  PROVE  2 * i + 1 # e /\ ~(s \div 2 <= i)
  OBVIOUS

(* _recomputeRoot after new leaves: every layer is right for all leaves.   *)
LEMMA RootRecomputed ==
  ASSUME NEW ns, DOMAIN ns = Slots,
         NEW old, NEW leaves, Len(old) \in Nat, Len(leaves) \in 0 .. MaxLeaves,
         Len(old) <= Len(leaves), \A i \in 1 .. Len(old) : old[i] = leaves[i],
         NEW k \in Nat, Len(leaves) - k \in Nat,
         \A h \in 1 .. Depth : Down(Len(leaves) - k, h) = Down(Len(old), h),
         GoodLayer(ns, 0, leaves), \A h \in 1 .. Depth : GoodLayer(ns, h, old)
  PROVE  \A h \in 0 .. Depth : GoodLayer(RecomputeRoot(ns, Len(leaves), k), h, leaves)
<1> DEFINE n == Len(leaves)
           L == RecomputeUpTo(ns, n, k)
           P(d) == /\ L[d].start = Down(n - k, d) /\ L[d].end = Up(n, d)
                   /\ DOMAIN L[d].ns = Slots
                   /\ \A h \in 0 .. Depth : h <= d => GoodLayer(L[d].ns, h, leaves)
                   /\ \A h \in 0 .. Depth : h > d => GoodLayer(L[d].ns, h, old)
           C == {d \in 0 .. Depth : P(d)}
<1>0. Depth \in Nat /\ 0 \in 0 .. Depth /\ Depth \in 0 .. Depth /\ n \in Nat /\ MaxLeaves \in Nat
  BY Sizes, TreeAssumption
<1>1. ASSUME NEW d \in 0 .. Depth
      PROVE  L[d] = IF d = 0 THEN [ns |-> ns, start |-> n - k, end |-> n]
                    ELSE [ns |-> RecomputeParentLayer(L[d - 1].ns, Size(d - 1),
                                                      L[d - 1].start, L[d - 1].end),
                          start |-> L[d - 1].start \div 2, end |-> (L[d - 1].end + 1) \div 2]
  <2> HIDE DEF n
  <2> QED BY RecomputeAt
<1> HIDE DEF L
<1>2. 0 \in C
  <2>1. L[0].ns = ns /\ L[0].start = n - k /\ L[0].end = n
    <3>1. L[0] = [ns |-> ns, start |-> n - k, end |-> n]
      BY <1>0, <1>1, Zenon
    <3> HIDE DEF L
    <3> QED BY <3>1
  <2>2. Down(n - k, 0) = n - k /\ Up(n, 0) = n
    BY <1>0, Counts, Zenon
  <2>3. \A h \in 0 .. Depth : (h <= 0 => h = 0) /\ (h > 0 => h \in 1 .. Depth)
    BY <1>0
  <2> QED BY <1>0, <2>1, <2>2, <2>3, Zenon
<1>3. ASSUME NEW d \in 1 .. Depth, d - 1 \in C PROVE d \in C
  <2> DEFINE o == L[d - 1]
             new == RecomputeParentLayer(o.ns, Size(d - 1), o.start, o.end)
  <2>0. d \in 0 .. Depth /\ d - 1 \in 0 .. Depth /\ d # 0
    BY <1>0
  <2>1. P(d - 1)
    BY <1>3, Zenon
  <2>2. L[d].ns = new /\ L[d].start = o.start \div 2 /\ L[d].end = (o.end + 1) \div 2
    <3>1. L[d] = [ns |-> new, start |-> o.start \div 2, end |-> (o.end + 1) \div 2]
      BY <1>1, <2>0, Zenon
    <3> HIDE DEF new, o
    <3> QED BY <3>1
  <2>3. L[d].start = Down(n - k, d) /\ L[d].end = Up(n, d)
    <3>1. o.start = Down(n - k, d - 1) /\ o.end = Up(n, d - 1)
      BY <2>0, <2>1, Zenon
    <3>2. Down(n - k, d) = Down(n - k, d - 1) \div 2 /\ Up(n, d) = (Up(n, d - 1) + 1) \div 2
      BY <1>0, Counts, Zenon
    <3> QED BY <2>2, <3>1, <3>2, Zenon
  <2>4. o.start \in Nat /\ o.end \in Nat /\ o.end <= Size(d - 1) /\ o.end = Up(n, d - 1)
    BY <1>0, <2>0, <2>1, Counts, UpFits
  <2>5. o.start \div 2 = Down(Len(old), d)
    BY <1>0, <2>0, <2>2, <2>3, Zenon
  <2>6. GoodLayer(o.ns, d - 1, leaves) /\ GoodLayer(o.ns, d, old) /\ DOMAIN o.ns = Slots
    BY <1>0, <2>0, <2>1
  <2>7. GoodLayer(new, d, leaves)
    BY <2>4, <2>5, <2>6, ParentIsGood, Zenon
  <2>8. /\ DOMAIN new = Slots
        /\ \A j \in Slots : ~(Size(d) - 1 <= j /\ j < 2 * Size(d) - 1) => new[j] = o.ns[j]
    <3>1. new = RecomputeParentLayer(o.ns, Size(d - 1), o.start, o.end)
      BY Zenon
    <3> HIDE DEF new, o
    <3> QED BY <2>4, <2>6, <3>1, ParentLayer, SMTT(30)
  <2> HIDE DEF new, o
  <2>9. ASSUME NEW h \in 0 .. Depth, h # d
        PROVE  \A i \in 0 .. Size(h) - 1 : new[Slot(h, i)] = o.ns[Slot(h, i)]
    BY <2>0, <2>8, <2>9, SlotsOfLayers, Zenon
  <2>10. ASSUME NEW h \in 0 .. Depth, h # d, NEW xs, GoodLayer(o.ns, h, xs)
         PROVE  GoodLayer(new, h, xs)
    BY <2>9, <2>10, Zenon DEF GoodLayer
  <2>11. \A h \in 0 .. Depth : h <= d => GoodLayer(new, h, leaves)
    <3> TAKE h \in 0 .. Depth
    <3>1. h <= d => h = d \/ h <= d - 1
      BY <1>0
    <3>2. h <= d - 1 => h # d /\ GoodLayer(o.ns, h, leaves)
      BY <1>0, <2>1 DEF o
    <3> QED BY <2>7, <2>10, <3>1, <3>2, Zenon
  <2>12. \A h \in 0 .. Depth : h > d => GoodLayer(new, h, old)
    <3> TAKE h \in 0 .. Depth
    <3>1. h > d => h > d - 1 /\ h # d
      BY <1>0
    <3> QED BY <2>1, <2>10, <3>1, Zenon DEF o
  <2> QED BY <2>0, <2>2, <2>3, <2>8, <2>11, <2>12, Zenon
<1>4. Depth \in C
  <2> HIDE DEF C
  <2> QED BY <1>0, <1>2, <1>3, InductionUpTo, Zenon
<1>5. RecomputeRoot(ns, n, k) = L[Depth].ns
  BY Zenon DEF RecomputeRoot, L
<1>6. \A h \in 0 .. Depth : h <= Depth
  BY <1>0
<1> QED BY <1>4, <1>5, <1>6, Zenon

(* The first n leaves of the array, and of a list. *)
First(ns, n) == [i \in 1 .. n |-> ns[MaxLeaves - 2 + i]]

Prefix(xs, n) == [i \in 1 .. n |-> xs[i]]

\* They have the length they should.
LEMMA FirstLen ==
  ASSUME NEW n \in Nat, NEW ns
  PROVE  /\ Len(First(ns, n)) = n /\ \A i \in 1 .. n : First(ns, n)[i] = ns[MaxLeaves - 2 + i]
         /\ Len(Prefix(ns, n)) = n /\ \A i \in 1 .. n : Prefix(ns, n)[i] = ns[i]
  BY DEF First, Prefix

\* Leaf i of a tree is in slot i of the lowest layer.
LEMMA LeafSlot ==
  /\ MaxLeaves \in Nat /\ MaxLeaves % 2 = 0 /\ MaxLeaves > 0
  /\ \A i \in 0 .. MaxLeaves - 1 : Slot(0, i) = MaxLeaves - 1 + i /\ Slot(0, i) \in Slots
<1>1. Size(0) = MaxLeaves /\ Size(0) = 2 * Size(1) /\ Size(1) \in Nat \ {0}
  <2>1. 1 \in 1 .. Depth /\ 1 \in 0 .. Depth /\ 1 - 1 = 0
    BY TreeAssumption
  <2> QED BY <2>1, Sizes, Zenon
<1> QED BY <1>1 DEF Slot, Slots

\* When the lowest layer is right.
LEMMA GoodLeaves ==
  ASSUME NEW ns, NEW leaves, Len(leaves) \in 0 .. MaxLeaves,
         \A i \in 1 .. Len(leaves) : ns[MaxLeaves - 2 + i] = leaves[i],
         Len(leaves) < MaxLeaves => ns[2 * MaxLeaves - 2] = Default
  PROVE  GoodLayer(ns, 0, leaves)
<1> DEFINE n == Len(leaves)
<1>1. 0 \in 0 .. Depth /\ Size(0) = MaxLeaves /\ n \in Nat /\ MaxLeaves \in Nat
  BY Sizes, LeafSlot, TreeAssumption
<1>2. Up(n, 0) = n
  BY <1>1, Counts, Zenon
<1> SUFFICES ASSUME NEW i \in 0 .. MaxLeaves - 1, i < n \/ i = MaxLeaves - 1
             PROVE  ns[Slot(0, i)] = Ref(leaves, 0, i)
  BY <1>1, <1>2, Zenon DEF GoodLayer
<1>3. Ref(leaves, 0, i) = IF i < n THEN leaves[i + 1] ELSE Default
  BY <1>1, RefAt, Zenon
<1>4. Slot(0, i) = MaxLeaves - 1 + i
  BY LeafSlot, Zenon
<1>5. CASE i < n
  <2>1. i + 1 \in 1 .. n /\ MaxLeaves - 2 + (i + 1) = MaxLeaves - 1 + i
    BY <1>1, <1>5
  <2> QED BY <1>3, <1>4, <1>5, <2>1, Zenon
<1>6. CASE ~(i < n)
  <2>1. i = MaxLeaves - 1 /\ MaxLeaves - 1 + i = 2 * MaxLeaves - 2 /\ n < MaxLeaves
    BY <1>1, <1>6
  <2> QED BY <1>3, <1>4, <1>6, <2>1, Zenon
<1> QED BY <1>5, <1>6, Zenon

\* What the lowest layer says when it is right.
LEMMA LastLeaf ==
  ASSUME NEW ns, NEW leaves, Len(leaves) \in Nat, Len(leaves) < MaxLeaves, GoodLayer(ns, 0, leaves)
  PROVE  ns[2 * MaxLeaves - 2] = Default
<1> DEFINE i == MaxLeaves - 1
<1>1. 0 \in 0 .. Depth /\ Size(0) = MaxLeaves /\ MaxLeaves \in Nat /\ i \in 0 .. MaxLeaves - 1
  BY Sizes, LeafSlot, TreeAssumption
<1>2. Slot(0, i) = 2 * MaxLeaves - 2 /\ ~(i < Len(leaves))
  BY <1>1, LeafSlot
<1>3. ns[Slot(0, i)] = Ref(leaves, 0, i)
  BY <1>1, Zenon DEF GoodLayer
<1>4. Ref(leaves, 0, i) = IF i < Len(leaves) THEN leaves[i + 1] ELSE Default
  BY <1>1, RefAt, Zenon
<1> QED BY <1>2, <1>3, <1>4, Zenon

(* Either a leaf is stale for ever, as its parent will not be recomputed,  *)
(* or the array is right for all leaves but perhaps the last one, a stale  *)
(* left child.                                                             *)
ContractInv ==
  /\ numLeaves \in 0 .. MaxLeaves
  /\ DOMAIN nodes = Slots
  /\ stale \subseteq 0 .. numLeaves - 1
  /\ \/ \E p \in stale : p < numLeaves - (numLeaves % 2)
     \/ \E c \in {numLeaves, numLeaves - (numLeaves % 2)} :
          /\ stale = c .. numLeaves - 1
          /\ \A h \in 0 .. Depth : GoodLayer(nodes, h, First(nodes, c))

\* The array that the constructor leaves is that of an empty tree.
LEMMA ContractInit == Init => ContractInv
<1> SUFFICES ASSUME Init PROVE ContractInv
  BY Zenon
<1>0. Depth \in Nat /\ 0 \in 0 .. Depth /\ MaxLeaves \in Nat
  BY LeafSlot, TreeAssumption
<1>1. nodes = InitialNodes /\ numLeaves = 0 /\ stale = {}
  BY Zenon DEF Init
<1>2. DOMAIN nodes = Slots
  BY <1>1, Zenon DEF InitialNodes, Slots
<1>3. ASSUME NEW h \in 0 .. Depth
      PROVE  GoodLayer(nodes, h, First(nodes, 0))
  <2>1. Size(h) \in Nat \ {0} /\ Up(0, h) = 0 /\ Len(First(nodes, 0)) = 0
    <3>1. Pow2[h] \in Nat \ {0}
      BY Pow2Type, Zenon
    <3>2. (0 + Pow2[h] - 1) \div Pow2[h] = 0
      BY <3>1
    <3> QED BY <3>2, Sizes, FirstLen, Zenon DEF Up, Down
  <2> DEFINE i == Size(h) - 1
             slot == 2 * Size(h) - 2
             hs == {g \in 0 .. Depth : slot = 2 * Size(g) - 2}
  <2>2. i \in 0 .. Size(h) - 1 /\ Slot(h, i) = slot /\ slot \in Slots
    BY <2>1, SlotsOfLayers DEF Slot
  <2>3. Ref(First(nodes, 0), h, i) = DefaultAt[h]
    BY <2>1, <2>2, RefDefault
  <2>4. hs = {h}
    <3>1. ASSUME NEW g \in 0 .. Depth, g # h PROVE slot # 2 * Size(g) - 2
      <4>1. g < h \/ h < g
        BY <1>0, <3>1
      <4>2. 2 * Size(h) <= Size(g) \/ 2 * Size(g) <= Size(h)
        BY <4>1, SizesApart, Zenon
      <4>3. Size(g) \in Nat \ {0}
        BY Sizes, Zenon
      <4> QED BY <2>1, <4>2, <4>3
    <3> QED BY <3>1, Zenon
  <2>5. nodes[slot] = DefaultAt[h]
    <3>1. nodes[slot] = IF hs = {} THEN Default ELSE DefaultAt[CHOOSE g \in hs : TRUE]
      BY <1>1, <2>2, Zenon DEF InitialNodes, Slots
    <3> HIDE DEF hs
    <3> QED BY <2>4, <3>1, Zenon
  <2>6. \A j \in 0 .. Size(h) - 1 : ~(j < 0)
    BY <2>1
  <2> HIDE DEF i, slot
  <2> QED BY <2>1, <2>2, <2>3, <2>5, <2>6, Zenon DEF GoodLayer, i
<1>4. stale = 0 .. numLeaves - 1 /\ 0 = numLeaves /\ numLeaves \in 0 .. MaxLeaves
  BY <1>0, <1>1
<1> QED BY <1>1, <1>2, <1>3, <1>4, Zenon DEF ContractInv

\* A layer stays right when its slots do not change.
LEMMA LayerKept ==
  ASSUME NEW ns, NEW new, NEW h \in 0 .. Depth, NEW leaves, GoodLayer(ns, h, leaves),
         \A i \in 0 .. Size(h) - 1 :
           i < Up(Len(leaves), h) \/ i = Size(h) - 1 => new[Slot(h, i)] = ns[Slot(h, i)]
  PROVE  GoodLayer(new, h, leaves)
  BY Zenon DEF GoodLayer

\* A slot of a leaf is in no higher layer.
LEMMA HigherLayers ==
  ASSUME NEW h \in 1 .. Depth, NEW i \in 0 .. Size(h) - 1
  PROVE  Slot(h, i) \in Slots /\ Slot(h, i) < MaxLeaves - 1
<1>1. h \in 0 .. Depth /\ 0 \in 0 .. Depth /\ 0 < h /\ Size(0) = MaxLeaves
  BY Sizes, TreeAssumption
<1>2. 2 * Size(h) <= MaxLeaves /\ Size(h) \in Nat /\ MaxLeaves \in Nat
  BY <1>1, Sizes, SizesApart, LeafSlot, Zenon
<1>3. Slot(h, i) \in Slots
  BY <1>1, SlotsOfLayers, Zenon
<1> QED BY <1>2, <1>3 DEF Slot

(* The leaves that a mix call writes, before it recomputes the root. *)
Written(batch) ==
  [i \in DOMAIN nodes |->
     LET k == i - (MaxLeaves - 1 + numLeaves) IN
       IF k \in 0 .. NumOut - 1 THEN batch[k + 1] ELSE nodes[i]]

\* They follow the leaves there are, and nothing else changes.
LEMMA WrittenLeaves ==
  ASSUME DOMAIN nodes = Slots, numLeaves \in Nat, numLeaves + NumOut <= MaxLeaves, NEW batch
  PROVE  /\ DOMAIN Written(batch) = Slots
         /\ \A j \in Slots : j < MaxLeaves - 1 + numLeaves => Written(batch)[j] = nodes[j]
         /\ \A j \in Slots : j >= MaxLeaves - 1 + numLeaves + NumOut => Written(batch)[j] = nodes[j]
         /\ \A i \in 1 .. NumOut : Written(batch)[MaxLeaves - 2 + (numLeaves + i)] = batch[i]
<1>0. MaxLeaves \in Nat /\ NumOut \in Nat
  BY LeafSlot, TreeAssumption, Zenon
<1> DEFINE at(j) == j - (MaxLeaves - 1 + numLeaves)
<1>1. DOMAIN Written(batch) = Slots
  BY Zenon DEF Written
<1>2. \A j \in Slots : Written(batch)[j] = IF at(j) \in 0 .. NumOut - 1 THEN batch[at(j) + 1] ELSE nodes[j]
  BY Zenon DEF Written
<1>3. \A j \in Slots : j \in Nat
  BY <1>0 DEF Slots
<1>4. \A j \in Slots : /\ j < MaxLeaves - 1 + numLeaves => at(j) \notin 0 .. NumOut - 1
                       /\ j >= MaxLeaves - 1 + numLeaves + NumOut => at(j) \notin 0 .. NumOut - 1
  BY <1>0, <1>3
<1>5. ASSUME NEW i \in 1 .. NumOut
      PROVE  LET j == MaxLeaves - 2 + (numLeaves + i)
             IN  j \in Slots /\ at(j) \in 0 .. NumOut - 1 /\ at(j) + 1 = i
  BY <1>0 DEF Slots
<1> HIDE DEF at
<1> QED BY <1>1, <1>2, <1>4, <1>5, Zenon

\* What a mix call does to the array.
LEMMA MixedNodes ==
  ASSUME ContractInv, NEW batch, Mix(batch)
  PROVE  /\ numLeaves' = numLeaves + NumOut /\ numLeaves' \in 0 .. MaxLeaves
         /\ DOMAIN nodes' = Slots
         /\ \A i \in 1 .. numLeaves : nodes'[MaxLeaves - 2 + i] = nodes[MaxLeaves - 2 + i]
         /\ \A i \in 1 .. NumOut : nodes'[MaxLeaves - 2 + (numLeaves + i)] = batch[i]
         /\ ~(\E p \in stale : p < numLeaves - (numLeaves % 2)) =>
              \A h \in 0 .. Depth : GoodLayer(nodes', h, First(nodes', numLeaves'))
<1> DEFINE n == numLeaves
           w == Written(batch)
           m == n + NumOut
<1>0. /\ MaxLeaves \in Nat /\ MaxLeaves > 0 /\ NumOut \in Nat \ {0} /\ n \in 0 .. MaxLeaves /\ n \in Nat
      /\ DOMAIN nodes = Slots
  BY LeafSlot, TreeAssumption DEF ContractInv
<1>1. nodes' = RecomputeRoot(w, m, NumOut) /\ numLeaves' = m /\ m <= MaxLeaves
  BY Zenon DEF Mix, Written
<1>2. /\ DOMAIN w = Slots
      /\ \A j \in Slots : j < MaxLeaves - 1 + n => w[j] = nodes[j]
      /\ \A j \in Slots : j >= MaxLeaves - 1 + n + NumOut => w[j] = nodes[j]
      /\ \A i \in 1 .. NumOut : w[MaxLeaves - 2 + (n + i)] = batch[i]
  BY <1>0, <1>1, WrittenLeaves, Zenon
<1> HIDE DEF w
<1>3. \A i \in 1 .. n : w[MaxLeaves - 2 + i] = nodes[MaxLeaves - 2 + i]
  <2>1. \A i \in 1 .. n : MaxLeaves - 2 + i \in Slots /\ MaxLeaves - 2 + i < MaxLeaves - 1 + n
    BY <1>0 DEF Slots
  <2> QED BY <1>2, <2>1, Zenon
<1>4. /\ DOMAIN nodes' = Slots
      /\ \A i \in 0 .. MaxLeaves - 1 : nodes'[MaxLeaves - 1 + i] = w[MaxLeaves - 1 + i]
  <2>1. m \in 0 .. MaxLeaves /\ m - NumOut \in Nat
    BY <1>0, <1>1
  <2> HIDE DEF m
  <2>2. nodes' = RecomputeRoot(w, m, NumOut) /\ DOMAIN w = Slots /\ NumOut \in Nat
    BY <1>0, <1>1, <1>2, Zenon
  <2> QED BY <2>1, <2>2, LeavesKept
<1>5. \A i \in 1 .. m : nodes'[MaxLeaves - 2 + i] = w[MaxLeaves - 2 + i]
  <2>1. \A i \in 1 .. m : i - 1 \in 0 .. MaxLeaves - 1 /\ MaxLeaves - 1 + (i - 1) = MaxLeaves - 2 + i
    BY <1>0, <1>1
  <2> QED BY <1>4, <2>1, Zenon
<1>6. ASSUME ~(\E p \in stale : p < n - (n % 2)), NEW h \in 0 .. Depth
      PROVE  GoodLayer(nodes', h, First(nodes', m))
  <2>1. PICK c \in {n, n - (n % 2)} : \A g \in 0 .. Depth : GoodLayer(nodes, g, First(nodes, c))
    BY <1>6, Zenon DEF ContractInv
  <2>2. c \in Nat /\ c <= n /\ c <= m /\ m \in 0 .. MaxLeaves /\ m \in Nat /\ m - NumOut = n
    BY <1>0, <1>1
  <2> DEFINE old == First(nodes, c)
             new == First(w, m)
  <2>3. /\ Len(old) = c /\ \A i \in 1 .. c : old[i] = nodes[MaxLeaves - 2 + i]
        /\ Len(new) = m /\ \A i \in 1 .. m : new[i] = w[MaxLeaves - 2 + i]
    BY <2>2, FirstLen
  <2>4. First(nodes', m) = new
    BY <1>5, Zenon DEF First
  <2> HIDE DEF old, new, m
  <2>5. \A i \in 1 .. c : old[i] = new[i]
    <3> TAKE i \in 1 .. c
    <3>1. i \in 1 .. n /\ i \in 1 .. m
      BY <1>0, <2>2
    <3> QED BY <1>3, <2>3, <3>1, Zenon
  <2>6. \A g \in 1 .. Depth : GoodLayer(w, g, old)
    <3> TAKE g \in 1 .. Depth
    <3>1. g \in 0 .. Depth
      BY TreeAssumption
    <3>2. GoodLayer(nodes, g, old)
      BY <2>1, <3>1, Zenon DEF old
    <3>3. \A i \in 0 .. Size(g) - 1 : w[Slot(g, i)] = nodes[Slot(g, i)]
      <4> TAKE i \in 0 .. Size(g) - 1
      <4>1. Slot(g, i) \in Slots /\ Slot(g, i) < MaxLeaves - 1
        BY HigherLayers, Zenon
      <4>2. Slot(g, i) < MaxLeaves - 1 + n
        BY <1>0, <4>1 DEF Slots
      <4> QED BY <1>2, <4>1, <4>2, Zenon
    <3> QED BY <3>1, <3>2, <3>3, LayerKept, Zenon
  <2>7. GoodLayer(w, 0, new)
    <3>1. ASSUME m < MaxLeaves PROVE w[2 * MaxLeaves - 2] = Default
      <4>1. GoodLayer(nodes, 0, old) /\ Len(old) \in Nat /\ Len(old) < MaxLeaves
        BY <1>0, <2>1, <2>2, <2>3, <3>1, TreeAssumption DEF old
      <4>2. nodes[2 * MaxLeaves - 2] = Default
        BY <4>1, LastLeaf, Zenon
      <4>3. 2 * MaxLeaves - 2 \in Slots /\ 2 * MaxLeaves - 2 >= MaxLeaves - 1 + n + NumOut
        BY <1>0, <2>2, <3>1 DEF Slots, m
      <4> QED BY <1>2, <4>2, <4>3, Zenon
    <3> QED BY <2>2, <2>3, <3>1, GoodLeaves, Zenon
  <2>8. \A g \in 1 .. Depth : Down(m - NumOut, g) = Down(Len(old), g)
    <3> TAKE g \in 1 .. Depth
    <3>1. CASE c = n
      BY <2>2, <2>3, <3>1, Zenon
    <3>2. CASE c = n - (n % 2)
      <4> DEFINE q == Pow2[g - 1]
      <4>1. Pow2[g] = 2 * q /\ q \in Nat \ {0}
        <5>1. g \in 0 .. Depth /\ g - 1 \in 0 .. Depth /\ g # 0
          BY TreeAssumption
        <5> QED BY <5>1, Pow2At, Pow2Type, Zenon
      <4> HIDE DEF q
      <4>2. c \div 2 = n \div 2
        BY <2>2, <3>2
      <4>3. \A x \in Nat : x \div (2 * q) = (x \div 2) \div q
        BY <4>1
      <4>4. c \div (2 * q) = n \div (2 * q)
        BY <1>0, <2>2, <4>2, <4>3, Zenon
      <4> QED BY <2>2, <2>3, <4>1, <4>4, Zenon DEF Down
    <3> QED BY <2>1, <3>1, <3>2, Zenon
  <2>9. \A g \in 0 .. Depth : GoodLayer(RecomputeRoot(w, Len(new), NumOut), g, new)
    <3>1. /\ Len(old) \in Nat /\ Len(new) \in 0 .. MaxLeaves /\ Len(old) <= Len(new)
          /\ NumOut \in Nat /\ Len(new) - NumOut \in Nat
          /\ \A i \in 1 .. Len(old) : old[i] = new[i]
          /\ \A g \in 1 .. Depth : Down(Len(new) - NumOut, g) = Down(Len(old), g)
      BY <1>0, <2>2, <2>3, <2>5, <2>8, Zenon
    <3> QED BY <1>2, <2>6, <2>7, <3>1, RootRecomputed, Zenon
  <2> QED BY <1>1, <2>3, <2>4, <2>9, Zenon DEF m
<1>7. /\ \A i \in 1 .. n : nodes'[MaxLeaves - 2 + i] = nodes[MaxLeaves - 2 + i]
      /\ \A i \in 1 .. NumOut : nodes'[MaxLeaves - 2 + (n + i)] = batch[i]
  <2>1. (\A i \in 1 .. n : i \in 1 .. m) /\ \A i \in 1 .. NumOut : n + i \in 1 .. m
    BY <1>0
  <2> QED BY <1>2, <1>3, <1>5, <2>1, Zenon
<1>8. numLeaves' \in 0 .. MaxLeaves
  BY <1>0, <1>1
<1> QED BY <1>1, <1>4, <1>6, <1>7, <1>8, Zenon

\* A mix call keeps the invariant.
LEMMA MixKeepsContractInv ==
  ASSUME ContractInv, NEW batch, Mix(batch)
  PROVE  ContractInv'
<1> DEFINE n == numLeaves
           m == numLeaves'
           Lasting == \E p \in stale : p < n - (n % 2)
<1>1. /\ m = n + NumOut /\ m \in 0 .. MaxLeaves /\ DOMAIN nodes' = Slots
      /\ ~Lasting => \A h \in 0 .. Depth : GoodLayer(nodes', h, First(nodes', m))
  BY MixedNodes, Zenon
<1>2. stale' = {p \in stale : p < n - (n % 2)}
  BY Zenon DEF Mix
<1>3. n \in Nat /\ m \in Nat /\ NumOut \in Nat \ {0} /\ stale \subseteq 0 .. n - 1
  BY <1>1, TreeAssumption, LeafSlot DEF ContractInv
<1> HIDE DEF m
<1>4. stale' \subseteq 0 .. m - 1
  <2>1. n <= m /\ stale' \subseteq stale
    BY <1>1, <1>2, <1>3
  <2> QED BY <1>3, <2>1
<1>5. CASE Lasting
  <2>1. PICK p \in stale : p < n - (n % 2)
    BY <1>5, Zenon
  <2>2. p \in stale'
    BY <1>2, <2>1, Zenon
  <2>3. p < m - (m % 2)
    <3>1. m \in Nat /\ n < m /\ p \in Nat
      BY <1>1, <1>3, <2>1
    <3>2. n - (n % 2) <= m - (m % 2)
      BY <1>3, <3>1
    <3>3. n - (n % 2) \in Nat /\ m - (m % 2) \in Nat
      BY <1>3
    <3> QED BY <2>1, <3>1, <3>2, <3>3
  <2> QED BY <1>1, <1>4, <2>2, <2>3, Zenon DEF ContractInv, m
<1>6. CASE ~Lasting
  <2>1. stale' = {}
    BY <1>2, <1>6, Zenon
  <2>2. m .. m - 1 = {}
    BY <1>3
  <2> QED BY <1>1, <1>4, <1>6, <2>1, <2>2, Zenon DEF ContractInv, m
<1> QED BY <1>5, <1>6, Zenon

\* So does a leaf that is inserted without recomputing anything.
LEMMA InsertKeepsContractInv ==
  ASSUME ContractInv, NEW leaf, DirectInsert(leaf)
  PROVE  ContractInv'
<1> DEFINE n == numLeaves
           slot == MaxLeaves - 1 + n
<1>1. /\ n < MaxLeaves /\ nodes' = [nodes EXCEPT ![slot] = leaf] /\ numLeaves' = n + 1
      /\ stale' = stale \cup {n}
  BY Zenon DEF DirectInsert, InsertLeaf
<1>2. n \in Nat /\ DOMAIN nodes = Slots /\ stale \subseteq 0 .. n - 1
  BY LeafSlot DEF ContractInv
<1>3. MaxLeaves \in Nat /\ MaxLeaves % 2 = 0 /\ slot \in Slots
  BY <1>1, <1>2, LeafSlot DEF Slots
<1>4. DOMAIN nodes' = Slots /\ \A j \in Slots : j # slot => nodes'[j] = nodes[j]
  BY <1>1, <1>2, Zenon
<1>5. numLeaves' \in 0 .. MaxLeaves /\ stale' \subseteq 0 .. numLeaves' - 1
  BY <1>1, <1>2, <1>3
<1>6. CASE \E p \in stale : p < n - (n % 2)
  <2>1. PICK p \in stale : p < n - (n % 2)
    BY <1>6, Zenon
  <2>2. p \in stale' /\ p < numLeaves' - (numLeaves' % 2)
    BY <1>1, <1>2, <2>1
  <2> QED BY <1>4, <1>5, <2>2, Zenon DEF ContractInv
<1>7. CASE n % 2 = 1
  <2>1. n \in stale' /\ n < numLeaves' - (numLeaves' % 2)
    BY <1>1, <1>2, <1>7
  <2> QED BY <1>4, <1>5, <2>1, Zenon DEF ContractInv
<1>8. CASE n % 2 = 0 /\ ~ \E p \in stale : p < n - (n % 2)
  <2>1. n - (n % 2) = n
    BY <1>2, <1>8
  <2>2. stale = n .. n - 1 /\ \A h \in 0 .. Depth : GoodLayer(nodes, h, First(nodes, n))
    BY <1>8, <2>1, Zenon DEF ContractInv
  <2>3. numLeaves' - (numLeaves' % 2) = n /\ stale' = n .. numLeaves' - 1
    BY <1>1, <1>2, <1>8, <2>2
  <2>4. First(nodes', n) = First(nodes, n)
    <3>1. \A i \in 1 .. n : MaxLeaves - 2 + i \in Slots /\ MaxLeaves - 2 + i # slot
      BY <1>1, <1>2, <1>3 DEF Slots
    <3> QED BY <1>4, <3>1, Zenon DEF First
  <2>5. ASSUME NEW h \in 0 .. Depth PROVE GoodLayer(nodes', h, First(nodes, n))
    <3>1. ASSUME NEW i \in 0 .. Size(h) - 1, i < Up(n, h) \/ i = Size(h) - 1
          PROVE  Slot(h, i) \in Slots /\ Slot(h, i) # slot
      <4>1. CASE h = 0
        <5>1. Size(0) = MaxLeaves /\ Up(n, 0) = n
          BY <1>2, Counts, Sizes, Zenon
        <5>2. Slot(0, i) = MaxLeaves - 1 + i /\ Slot(0, i) \in Slots
          BY <4>1, <5>1, LeafSlot, Zenon
        <5> QED BY <1>1, <1>2, <1>3, <1>8, <3>1, <4>1, <5>1, <5>2
      <4>2. CASE h # 0
        <5>1. h \in 1 .. Depth
          BY <4>2, TreeAssumption
        <5>2. Slot(h, i) \in Slots /\ Slot(h, i) < MaxLeaves - 1
          BY <5>1, HigherLayers, Zenon
        <5> QED BY <1>2, <1>3, <5>2 DEF Slots
      <4> QED BY <4>1, <4>2, Zenon
    <3>2. Len(First(nodes, n)) = n
      BY <1>2, FirstLen, Zenon
    <3> QED BY <1>4, <2>2, <3>1, <3>2, LayerKept, Zenon
  <2>6. n \in {numLeaves', numLeaves' - (numLeaves' % 2)}
    BY <2>3, Zenon
  <2> QED BY <1>4, <1>5, <2>3, <2>4, <2>5, <2>6, Zenon DEF ContractInv
<1>9. n % 2 \in {0, 1}
  BY <1>2
<1> QED BY <1>6, <1>7, <1>8, <1>9, Zenon

\* The client does not write the contract's tree.
LEMMA ContractInductive == ContractInv /\ [Next]_vars => ContractInv'
<1> SUFFICES ASSUME ContractInv, [Next]_vars PROVE ContractInv'
  BY Zenon
<1>1. ASSUME UNCHANGED contractVars PROVE ContractInv'
  BY <1>1, Zenon DEF ContractInv, contractVars
<1>2. (ClientInsert \/ ClientRecompute \/ UNCHANGED vars) => UNCHANGED contractVars
  BY Zenon DEF ClientInsert, ClientRecompute, vars
<1> QED BY <1>1, <1>2, MixKeepsContractInv, InsertKeepsContractInv, Zenon DEF Next

\* When no leaf is stale, the root is that of all leaves.
LEMMA ContractRoot == ContractInv => ContractRootCorrect
<1> SUFFICES ASSUME ContractInv, stale = {} PROVE nodes[0] = MerkleRoot(ContractLeaves)
  BY Zenon DEF ContractRootCorrect
<1>1. numLeaves \in Nat /\ Depth \in 0 .. Depth
  BY LeafSlot, TreeAssumption DEF ContractInv
<1>2. PICK c \in {numLeaves, numLeaves - (numLeaves % 2)} :
        c .. numLeaves - 1 = {} /\ \A h \in 0 .. Depth : GoodLayer(nodes, h, First(nodes, c))
  BY Zenon DEF ContractInv
<1>3. c = numLeaves
  BY <1>1, <1>2
<1>4. First(nodes, c) = ContractLeaves
  BY <1>3, Zenon DEF First, ContractLeaves
<1>5. Size(Depth) = 1 /\ Slot(Depth, 0) = 0 /\ 0 \in 0 .. Size(Depth) - 1 /\ 0 = Size(Depth) - 1
  BY Sizes DEF Slot
<1>6. nodes[0] = Ref(ContractLeaves, Depth, 0)
  BY <1>1, <1>2, <1>4, <1>5, Zenon DEF GoodLayer
<1> QED BY <1>6, Zenon DEF Ref, MerkleRoot

(* The contract's incremental root is the root of the complete tree over   *)
(* all its leaves, whenever every leaf was covered by a recomputation      *)
(* (AbstractMerkleTree.sol: insert, _recomputeRoot,                        *)
(* _recomputeParentLayer), for every depth, hash function and number of    *)
(* outputs, mixed with leaves inserted directly.                           *)
THEOREM ContractRootIsRight == Spec => []ContractRootCorrect
  BY ContractInit, ContractInductive, ContractRoot, PTL DEF Spec
-----------------------------------------------------------------------------
(* The client: a layer holds the nodes above its leaves, and nothing else; *)
(* the layer of the root always holds one.                                 *)
Count(leaves, h) == IF h = Depth THEN 1 ELSE Up(Len(leaves), h)

LayerOf(leaves, h) == [j \in 1 .. Count(leaves, h) |-> Ref(leaves, h, j - 1)]

\* How many nodes a layer holds.
LEMMA Counted ==
  ASSUME NEW leaves, Len(leaves) \in 0 .. MaxLeaves, NEW h \in 0 .. Depth
  PROVE  /\ Count(leaves, h) \in 0 .. Size(h) /\ Up(Len(leaves), h) <= Count(leaves, h)
         /\ Len(leaves) > 0 => Count(leaves, h) = Up(Len(leaves), h)
         /\ Len(LayerOf(leaves, h)) = Count(leaves, h)
<1> DEFINE n == Len(leaves)
           u == Up(n, h)
<1>0. n \in Nat /\ n <= MaxLeaves /\ MaxLeaves \in Nat
  BY LeafSlot
<1>1. u \in Nat /\ u <= Size(h) /\ Size(h) \in Nat \ {0}
  BY <1>0, Counts, UpFits, Sizes, Zenon
<1>2. h = Depth => Size(h) = 1
  BY Sizes, Zenon
<1>3. n > 0 => u > 0
  <2> DEFINE q == Pow2[h]
  <2>1. q \in Nat \ {0}
    BY Pow2Type, Zenon
  <2> HIDE DEF q
  <2>2. n > 0 => (n + q - 1) \div q > 0
    BY <1>0, <2>1
  <2> QED BY <2>2, Zenon DEF Up, Down, q
<1> HIDE DEF n, u
<1>4. /\ Count(leaves, h) \in 0 .. Size(h) /\ u <= Count(leaves, h)
      /\ n > 0 => Count(leaves, h) = u
  BY <1>0, <1>1, <1>2, <1>3 DEF Count, u, n
<1>5. Len(LayerOf(leaves, h)) = Count(leaves, h)
  <2>1. Count(leaves, h) \in Nat
    BY <1>1, <1>4
  <2> QED BY <2>1 DEF LayerOf
<1> QED BY <1>4, <1>5, Zenon DEF u, n

(* _recompute_layer makes the parent layer of the new leaves from that of  *)
(* the old ones, if the child layer is that of the new leaves.             *)
LEMMA LayerRecomputed ==
  ASSUME NEW h \in 1 .. Depth, NEW old, NEW leaves, Len(old) \in Nat,
         Len(leaves) \in 0 .. MaxLeaves, Len(leaves) > 0,
         Len(old) <= Len(leaves), \A i \in 1 .. Len(old) : old[i] = leaves[i],
         NEW start, start = Down(Len(old), h - 1)
  PROVE  RecomputeLayer(LayerOf(leaves, h - 1), start, Up(Len(leaves), h - 1),
                        DefaultAt[h - 1], LayerOf(old, h)) = LayerOf(leaves, h)
<1> DEFINE n == Len(leaves)
           c == Len(old)
           child == LayerOf(leaves, h - 1)
           parent == LayerOf(old, h)
           end == Up(n, h - 1)
           default == DefaultAt[h - 1]
           rend == (start \div 2) * 2
           odd == end % 2 = 1
           left0 == IF odd THEN end - 1 ELSE end
           Prev(j) == IF j <= Len(parent) THEN parent[j] ELSE Default
           newLength == (end + 1) \div 2
           length == IF newLength < Len(parent) THEN Len(parent) ELSE newLength
           Node(j) == LET left == 2 * (j - 1) IN
             IF odd /\ left = left0 THEN Hash(child[left + 1], default)
             ELSE IF rend <= left /\ left < left0 THEN Hash(child[left + 1], child[left + 2])
             ELSE Prev(j)
<1>0. /\ h \in 0 .. Depth /\ h - 1 \in 0 .. Depth /\ h # 0 /\ h - 1 # Depth
      /\ MaxLeaves \in Nat /\ n \in Nat /\ c \in Nat /\ c \in 0 .. MaxLeaves
  BY LeafSlot, TreeAssumption
<1>1. RecomputeLayer(child, start, end, default, parent) = [j \in 1 .. length |-> Node(j)]
  BY Zenon DEF RecomputeLayer
<1>2. /\ end \in Nat /\ Up(n, h) = newLength /\ start \in Nat /\ start \div 2 = Down(c, h)
      /\ Up(c, h) \in Nat /\ Down(c, h) <= Up(c, h) /\ Up(c, h) <= Up(n, h) /\ Down(c, h) \in Nat
  BY <1>0, Counts, Zenon
<1>05. \A m \in 0 .. Size(h) - 1 : m < Down(c, h) => Ref(old, h, m) = Ref(leaves, h, m)
  BY <1>0, RefKept, Zenon
<1>25. start <= end
  <2>1. start <= Up(c, h - 1) /\ Up(c, h - 1) <= end /\ Up(c, h - 1) \in Nat
    BY <1>0, Counts, Zenon
  <2> QED BY <1>2, <2>1
<1>3. /\ Count(leaves, h) = newLength /\ newLength \in 0 .. Size(h) /\ newLength > 0
      /\ Count(leaves, h - 1) = end
  <2>1. Count(leaves, h) = Up(n, h) /\ Count(leaves, h) \in 0 .. Size(h) /\ Count(leaves, h - 1) = end
    BY <1>0, Counted, Zenon
  <2>2. newLength > 0
    <3>1. end > 0
      <4> DEFINE q == Pow2[h - 1]
      <4>1. q \in Nat \ {0}
        BY <1>0, Pow2Type, Zenon
      <4> HIDE DEF q
      <4>2. (n + q - 1) \div q > 0
        BY <1>0, <4>1
      <4> QED BY <4>2, Zenon DEF Up, Down, q
    <3> QED BY <1>2, <3>1
  <2> QED BY <1>2, <2>1, <2>2, Zenon
<1>4. Len(parent) = Count(old, h) /\ Up(c, h) <= Len(parent) /\ Len(parent) <= newLength /\ Len(parent) \in Nat
  <2>1. Count(old, h) \in 0 .. Size(h) /\ Up(c, h) <= Count(old, h) /\ Len(parent) = Count(old, h)
    BY <1>0, Counted, Zenon
  <2>2. Size(h) \in Nat
    BY <1>0, Sizes, Zenon
  <2>3. Count(old, h) <= newLength
    BY <1>2, <1>3 DEF Count
  <2> QED BY <2>1, <2>2, <2>3
<1>5. length = newLength
  BY <1>2, <1>4
<1>6. ASSUME NEW j \in 1 .. newLength PROVE Node(j) = Ref(leaves, h, j - 1)
  <2> DEFINE i == j - 1
  <2>1. i \in 0 .. Size(h) - 1 /\ i < newLength /\ 2 * (j - 1) = 2 * i /\ j = i + 1 /\ i \in Nat
    <3>1. Size(h) \in Nat
      BY <1>0, Sizes, Zenon
    <3>2. newLength \in 0 .. Size(h)
      BY <1>3, Zenon
    <3> HIDE DEF newLength
    <3> QED BY <3>1, <3>2
  <2> HIDE DEF i
  <2>2. 2 * i \in 0 .. Size(h - 1) - 1 /\ 2 * i + 1 \in 0 .. Size(h - 1) - 1
    BY <2>1, Children, Zenon
  <2>3. Ref(leaves, h, i) = Hash(Ref(leaves, h - 1, 2 * i), Ref(leaves, h - 1, 2 * i + 1))
    BY <1>0, <2>1, RefAt, Zenon
  <2>4. \A l \in 1 .. end : child[l] = Ref(leaves, h - 1, l - 1)
    BY <1>3, Zenon DEF LayerOf
  <2> HIDE DEF child, end, parent
  <2>45. end \in Nat /\ start \in Nat /\ i \in Nat
    BY <1>2, <2>1, Zenon
  <2>5. (odd /\ 2 * i = left0) <=> 2 * i + 1 = end
    BY <2>45
  <2>6. (rend <= 2 * i /\ 2 * i < left0) <=> (start \div 2 <= i /\ 2 * i + 1 < end)
    <3>1. rend <= 2 * i <=> start \div 2 <= i
      <4>1. start \div 2 \in Nat
        BY <2>45
      <4> DEFINE half == start \div 2
      <4> HIDE DEF half
      <4>2. half \in Nat => (half * 2 <= 2 * i <=> half <= i)
        BY <2>45
      <4> QED BY <4>1, <4>2, Zenon DEF half
    <3>2. 2 * i < left0 <=> 2 * i + 1 < end
      BY <2>45
    <3> QED BY <3>1, <3>2, Zenon
  <2>7. Node(j) = IF 2 * i + 1 = end THEN Hash(child[2 * i + 1], default)
                  ELSE IF start \div 2 <= i /\ 2 * i + 1 < end
                       THEN Hash(child[2 * i + 1], child[2 * i + 2])
                  ELSE Prev(j)
    <3> HIDE DEF odd, left0, rend
    <3> QED BY <2>1, <2>5, <2>6, Zenon
  <2> HIDE DEF Node
  <2>8. CASE 2 * i + 1 = end
    <3>1. child[2 * i + 1] = Ref(leaves, h - 1, 2 * i)
      <4>1. 2 * i + 1 \in 1 .. end /\ (2 * i + 1) - 1 = 2 * i
        BY <1>2, <2>1, <2>8
      <4> QED BY <2>4, <4>1, Zenon
    <3>2. Ref(leaves, h - 1, 2 * i + 1) = default
      <4>1. end <= 2 * i + 1
        BY <1>2, <2>8
      <4> QED BY <1>0, <2>2, <4>1, RefDefault, Zenon DEF end
    <3> QED BY <2>3, <2>7, <2>8, <3>1, <3>2, Zenon DEF i
  <2>9. CASE start \div 2 <= i /\ 2 * i + 1 < end
    <3>1. /\ 2 * i + 1 \in 1 .. end /\ (2 * i + 1) - 1 = 2 * i
          /\ 2 * i + 2 \in 1 .. end /\ (2 * i + 2) - 1 = 2 * i + 1 /\ 2 * i + 1 # end
      BY <1>2, <2>1, <2>9
    <3>2. /\ child[2 * i + 1] = Ref(leaves, h - 1, 2 * i)
          /\ child[2 * i + 2] = Ref(leaves, h - 1, 2 * i + 1)
      BY <2>4, <3>1, Zenon
    <3> QED BY <2>3, <2>7, <2>9, <3>1, <3>2, Zenon DEF i
  <2>10. CASE i < start \div 2
    <3>1. 2 * i + 1 # end /\ ~(start \div 2 <= i)
      BY <1>25, <2>45, <2>10, BelowHalf, Zenon
    <3>2. i < Down(c, h) /\ j \in 1 .. Len(parent) /\ j <= Len(parent)
      <4>1. i < Down(c, h) /\ Down(c, h) <= Up(c, h) /\ Up(c, h) <= Len(parent)
        BY <1>2, <1>4, <2>10, Zenon
      <4>2. Down(c, h) \in Nat /\ Up(c, h) \in Nat /\ Len(parent) \in Nat
        BY <1>2, <1>4, Zenon
      <4> QED BY <2>1, <4>1, <4>2
    <3>3. parent[j] = Ref(old, h, j - 1)
      BY <1>4, <3>2, Zenon DEF LayerOf, parent
    <3>4. Ref(old, h, i) = Ref(leaves, h, i)
      BY <1>05, <2>1, <3>2, Zenon
    <3> QED BY <2>7, <3>1, <3>2, <3>3, <3>4, Zenon DEF i
  <2> QED BY <1>2, <2>1, <2>8, <2>9, <2>10
<1> HIDE DEF Node, newLength, length
<1> QED BY <1>1, <1>3, <1>5, <1>6, Zenon DEF LayerOf

\* The leaves themselves are the lowest layer.
LEMMA LowestLayer ==
  ASSUME NEW leaves, Len(leaves) \in 0 .. MaxLeaves, leaves = Prefix(leaves, Len(leaves))
  PROVE  LayerOf(leaves, 0) = leaves
<1> DEFINE n == Len(leaves)
<1>1. 0 \in 0 .. Depth /\ 0 # Depth /\ n \in Nat /\ Size(0) = MaxLeaves /\ MaxLeaves \in Nat
  BY LeafSlot, Sizes, TreeAssumption
<1>2. Count(leaves, 0) = n
  BY <1>1, Counts, Zenon DEF Count
<1>3. ASSUME NEW j \in 1 .. n PROVE Ref(leaves, 0, j - 1) = leaves[j]
  <2>1. j - 1 \in 0 .. Size(0) - 1 /\ j - 1 < n /\ (j - 1) + 1 = j
    BY <1>1
  <2> QED BY <1>1, <2>1, RefAt
<1> HIDE DEF n
<1>4. LayerOf(leaves, 0) = [j \in 1 .. n |-> leaves[j]]
  BY <1>2, <1>3, Zenon DEF LayerOf
<1> QED BY <1>4, Zenon DEF Prefix, n

(* recompute_root: all layers of the new leaves, from those of the old.    *)
LEMMA LayersRecomputed ==
  ASSUME NEW ls, NEW old, NEW leaves, Len(old) \in Nat,
         Len(leaves) \in 0 .. MaxLeaves, Len(leaves) > 0,
         Len(old) <= Len(leaves), \A i \in 1 .. Len(old) : old[i] = leaves[i],
         leaves = Prefix(leaves, Len(leaves)), ls[Depth] = leaves,
         \A h \in 1 .. Depth : ls[Depth - h] = LayerOf(old, h)
  PROVE  RecomputeLayers(ls, Len(leaves) - Len(old)) = [l \in 0 .. Depth |-> LayerOf(leaves, Depth - l)]
<1> DEFINE n == Len(leaves)
           c == Len(old)
           k == n - c
           U == RecomputeLayersUpTo(ls, k)
           P(d) == /\ U[d].start = Down(c, d) /\ U[d].end = Up(n, d)
                   /\ U[d].layer = LayerOf(leaves, d)
           C == {d \in 0 .. Depth : P(d)}
<1>0. Depth \in Nat /\ 0 \in 0 .. Depth /\ n \in Nat /\ MaxLeaves \in Nat /\ n - k = c /\ c \in Nat
  BY LeafSlot, TreeAssumption
<1>1. ASSUME NEW d \in 0 .. Depth
      PROVE  U[d] = IF d = 0 THEN [layer |-> ls[Depth], start |-> Len(ls[Depth]) - k,
                                   end |-> Len(ls[Depth])]
                    ELSE [layer |-> RecomputeLayer(U[d - 1].layer, U[d - 1].start, U[d - 1].end,
                                                   DefaultAt[d - 1], ls[Depth - d]),
                          start |-> U[d - 1].start \div 2, end |-> (U[d - 1].end + 1) \div 2]
  <2>1. U = RecomputeLayersUpTo(ls, k)
    BY Zenon
  <2> HIDE DEF k, U
  <2> QED BY <2>1, LayersAt
<1> HIDE DEF U
<1>2. 0 \in C
  <2>1. U[0].layer = leaves /\ U[0].start = c /\ U[0].end = n
    <3>1. U[0] = [layer |-> leaves, start |-> n - k, end |-> n]
      BY <1>0, <1>1, Zenon
    <3>2. n - k = c
      BY <1>0, Zenon
    <3> HIDE DEF k, n, c
    <3>3. U[0].layer = leaves /\ U[0].start = n - k /\ U[0].end = n
      BY <3>1
    <3> QED BY <3>2, <3>3, Zenon
  <2>2. Down(c, 0) = c /\ Up(n, 0) = n
    BY <1>0, Counts, Zenon
  <2>3. LayerOf(leaves, 0) = leaves
    BY LowestLayer, Zenon
  <2> QED BY <1>0, <2>1, <2>2, <2>3, Zenon
<1>3. ASSUME NEW d \in 1 .. Depth, d - 1 \in C PROVE d \in C
  <2> DEFINE o == U[d - 1]
             new == RecomputeLayer(o.layer, o.start, o.end, DefaultAt[d - 1], ls[Depth - d])
  <2>0. d \in 0 .. Depth /\ d - 1 \in 0 .. Depth /\ d # 0
    BY <1>0
  <2>1. P(d - 1)
    BY <1>3, Zenon
  <2>2. U[d].layer = new /\ U[d].start = o.start \div 2 /\ U[d].end = (o.end + 1) \div 2
    <3>1. U[d] = [layer |-> new, start |-> o.start \div 2, end |-> (o.end + 1) \div 2]
      BY <1>1, <2>0, Zenon
    <3> HIDE DEF new, o
    <3> QED BY <3>1
  <2>3. U[d].start = Down(c, d) /\ U[d].end = Up(n, d)
    <3>1. Down(c, d) = Down(c, d - 1) \div 2 /\ Up(n, d) = (Up(n, d - 1) + 1) \div 2
      BY <1>0, Counts, Zenon
    <3> QED BY <2>1, <2>2, <3>1, Zenon
  <2>4. new = RecomputeLayer(LayerOf(leaves, d - 1), Down(c, d - 1), Up(n, d - 1), DefaultAt[d - 1],
                             LayerOf(old, d))
    BY <2>1, Zenon
  <2> HIDE DEF new
  <2>5. new = LayerOf(leaves, d)
    BY <2>4, LayerRecomputed
  <2> QED BY <2>0, <2>2, <2>3, <2>5, Zenon
<1>4. \A d \in 0 .. Depth : U[d].layer = LayerOf(leaves, d)
  <2> HIDE DEF C
  <2>1. \A d \in 0 .. Depth : d \in C
    BY <1>0, <1>2, <1>3, InductionUpTo, Zenon
  <2> QED BY <2>1, Zenon DEF C
<1>5. RecomputeLayers(ls, k) = [l \in 0 .. Depth |-> U[Depth - l].layer]
  BY Zenon DEF RecomputeLayers, U
<1>6. \A l \in 0 .. Depth : Depth - l \in 0 .. Depth
  BY <1>0
<1> QED BY <1>4, <1>5, <1>6, Zenon

(* What is announced: as long as all leaves are, they are those of the     *)
(* array, and the roots are those of the leaves announced with them.       *)
EmitInv ==
  /\ emitted \in Seq(Leaves) /\ Len(emitted) <= numLeaves
  /\ DOMAIN roots = 0 .. MaxLeaves
  /\ Len(emitted) = numLeaves =>
       /\ stale = {}
       /\ \A i \in 1 .. numLeaves : nodes[MaxLeaves - 2 + i] = emitted[i]
       /\ \A m \in 0 .. MaxLeaves :
            IF m <= numLeaves THEN roots[m] \subseteq {MerkleRoot(Prefix(emitted, m))}
            ELSE roots[m] = {}

Known == Len(layers[Depth])

\* The leaves that the client's root accounts for.
Hashed == Prefix(layers[Depth], Known - newLeaves)

ClientInv ==
  /\ DOMAIN layers = 0 .. Depth
  /\ Known \in 0 .. Len(emitted) /\ newLeaves \in 0 .. Known
  /\ layers[Depth] = Prefix(emitted, Known)
  /\ \A h \in 1 .. Depth : layers[Depth - h] = LayerOf(Hashed, h)

TreeInv == ContractInv /\ EmitInv /\ ClientInv

\* Prefixes of a list and of the list that continues it.
LEMMA Prefixes ==
  ASSUME NEW xs \in Seq(Leaves)
  PROVE  /\ Prefix(xs, Len(xs)) = xs
         /\ \A n \in 0 .. Len(xs) : Prefix(xs, n) \in Seq(Leaves) /\ Len(Prefix(xs, n)) = n
         /\ \A ys \in Seq(Leaves), n \in 0 .. Len(xs) : Prefix(xs \o ys, n) = Prefix(xs, n)
         /\ \A n \in 0 .. Len(xs) - 1 : Append(Prefix(xs, n), xs[n + 1]) = Prefix(xs, n + 1)
         /\ \A n \in 0 .. Len(xs), m \in 0 .. Len(xs) : n <= m => Prefix(Prefix(xs, m), n) = Prefix(xs, n)
<1>1. Prefix(xs, Len(xs)) = xs
  BY DEF Prefix
<1>2. ASSUME NEW n \in 0 .. Len(xs)
      PROVE  Prefix(xs, n) \in Seq(Leaves) /\ Len(Prefix(xs, n)) = n
  <2>1. n \in Nat /\ \A i \in 1 .. n : xs[i] \in Leaves
    OBVIOUS
  <2>2. Prefix(xs, n) \in [1 .. n -> Leaves]
    BY <2>1, Zenon DEF Prefix
  <2> QED BY <2>1, <2>2
<1>3. ASSUME NEW ys \in Seq(Leaves), NEW n \in 0 .. Len(xs)
      PROVE  Prefix(xs \o ys, n) = Prefix(xs, n)
  <2>1. \A i \in 1 .. n : (xs \o ys)[i] = xs[i]
    OBVIOUS
  <2> QED BY <2>1, Zenon DEF Prefix
<1>4. ASSUME NEW n \in 0 .. Len(xs) - 1
      PROVE  Append(Prefix(xs, n), xs[n + 1]) = Prefix(xs, n + 1)
  <2>1. /\ Prefix(xs, n) \in Seq(Leaves) /\ Len(Prefix(xs, n)) = n
        /\ Prefix(xs, n + 1) \in Seq(Leaves) /\ Len(Prefix(xs, n + 1)) = n + 1
    BY <1>2
  <2>2. xs[n + 1] \in Leaves /\ n \in Nat
    OBVIOUS
  <2> DEFINE a == Append(Prefix(xs, n), xs[n + 1])
  <2>3. a \in Seq(Leaves) /\ Len(a) = n + 1 /\ a[n + 1] = xs[n + 1]
        /\ \A i \in 1 .. n : a[i] = Prefix(xs, n)[i]
    BY <2>1, <2>2
  <2> HIDE DEF a
  <2>4. \A i \in 1 .. n + 1 : a[i] = Prefix(xs, n + 1)[i]
    BY <2>2, <2>3 DEF Prefix
  <2>5. a = Prefix(xs, n + 1)
    BY <2>1, <2>2, <2>3, <2>4
  <2> QED BY <2>5, Zenon DEF a
<1>5. ASSUME NEW n \in 0 .. Len(xs), NEW m \in 0 .. Len(xs), n <= m
      PROVE  Prefix(Prefix(xs, m), n) = Prefix(xs, n)
  <2>1. \A i \in 1 .. n : i \in 1 .. m
    BY <1>5
  <2> QED BY <2>1, Zenon DEF Prefix
<1> QED BY <1>1, <1>2, <1>3, <1>4, <1>5, Zenon

\* Nothing is announced at first, and the client's tree is empty.
LEMMA TreeInit == Init => TreeInv
<1> SUFFICES ASSUME Init PROVE TreeInv
  OBVIOUS
<1>0. Depth \in Nat \ {0} /\ 0 \in 0 .. Depth /\ Depth \in 0 .. Depth /\ MaxLeaves \in Nat
  BY LeafSlot, TreeAssumption
<1>1. ContractInv
  BY ContractInit, Zenon
<1>2. /\ numLeaves = 0 /\ stale = {} /\ emitted = <<>> /\ layers = EmptyLayers /\ newLeaves = 0
      /\ roots = [n \in 0 .. MaxLeaves |-> IF n = 0 THEN {nodes[0]} ELSE {}]
  BY Zenon DEF Init
<1>3. Prefix(<<>>, 0) = <<>> /\ <<>> \in Seq(Leaves) /\ Len(<<>>) = 0
  BY DEF Prefix
<1>4. ContractLeaves = <<>>
  BY <1>2 DEF ContractLeaves
<1>5. nodes[0] = MerkleRoot(<<>>)
  BY <1>1, <1>2, <1>4, ContractRoot, Zenon DEF ContractRootCorrect
<1>6. EmitInv
  <2>1. /\ DOMAIN roots = 0 .. MaxLeaves /\ roots[0] = {nodes[0]}
        /\ \A m \in 0 .. MaxLeaves : m # 0 => roots[m] = {}
    BY <1>0, <1>2
  <2>2. \A m \in 0 .. MaxLeaves : IF m <= 0 THEN roots[m] \subseteq {MerkleRoot(Prefix(emitted, m))}
                                  ELSE roots[m] = {}
    <3> TAKE m \in 0 .. MaxLeaves
    <3>1. m <= 0 <=> m = 0
      BY <1>0
    <3> QED BY <1>2, <1>3, <1>5, <2>1, <3>1, Zenon
  <2> QED BY <1>2, <1>3, <2>1, <2>2 DEF EmitInv
<1>7. layers[Depth] = <<>> /\ DOMAIN layers = 0 .. Depth
  BY <1>0, <1>2, Zenon DEF EmptyLayers
<1>8. Known = 0 /\ Hashed = <<>>
  <2>1. Known = 0 /\ Known - newLeaves = 0
    BY <1>2, <1>3, <1>7 DEF Known
  <2> QED BY <1>3, <1>7, <2>1, Zenon DEF Hashed
<1>9. ASSUME NEW h \in 1 .. Depth PROVE layers[Depth - h] = LayerOf(<<>>, h)
  <2>1. h \in 0 .. Depth /\ Depth - h \in 0 .. Depth /\ (Depth - h = 0 <=> h = Depth)
    BY <1>0
  <2>2. layers[Depth - h] = IF h = Depth THEN <<DefaultAt[Depth]>> ELSE <<>>
    BY <1>2, <2>1, Zenon DEF EmptyLayers
  <2>3. Up(0, h) = 0
    <3>1. Pow2[h] \in Nat \ {0}
      BY <2>1, Pow2Type, Zenon
    <3>2. (0 + Pow2[h] - 1) \div Pow2[h] = 0
      BY <3>1
    <3> QED BY <3>2, Zenon DEF Up, Down
  <2>4. CASE h = Depth
    <3>1. Size(Depth) = 1 /\ 0 \in 0 .. Size(Depth) - 1
      BY Sizes
    <3>2. Ref(<<>>, Depth, 0) = DefaultAt[Depth]
      BY <1>0, <1>3, <2>3, <2>4, <3>1, RefDefault
    <3>3. LayerOf(<<>>, h) = [j \in 1 .. 1 |-> Ref(<<>>, Depth, j - 1)]
      BY <2>4, Zenon DEF LayerOf, Count
    <3> QED BY <2>2, <2>4, <3>2, <3>3
  <2>5. CASE h # Depth
    <3>1. Count(<<>>, h) = 0
      BY <1>3, <2>3, <2>5, Zenon DEF Count
    <3> QED BY <2>2, <2>5, <3>1 DEF LayerOf
  <2> QED BY <2>4, <2>5, Zenon
<1>10. ClientInv
  <2>1. layers[Depth] = Prefix(emitted, Known)
    BY <1>2, <1>3, <1>7, <1>8, Zenon
  <2>2. Known \in 0 .. Len(emitted) /\ newLeaves \in 0 .. Known
    BY <1>2, <1>3, <1>8
  <2> QED BY <1>7, <1>8, <1>9, <2>1, <2>2, Zenon DEF ClientInv
<1> QED BY <1>1, <1>6, <1>10, Zenon DEF TreeInv

\* A mix call announces its leaves, and the root with them.
LEMMA MixKeepsEmitInv ==
  ASSUME TreeInv, NEW batch \in [1 .. NumOut -> Leaves], Mix(batch)
  PROVE  EmitInv'
<1> DEFINE n == numLeaves
           m == n + NumOut
           e == emitted \o batch
<1>0. /\ NumOut \in Nat \ {0} /\ n \in Nat /\ MaxLeaves \in Nat
      /\ emitted \in Seq(Leaves) /\ Len(emitted) <= n /\ DOMAIN roots = 0 .. MaxLeaves
  BY LeafSlot, TreeAssumption DEF TreeInv, ContractInv, EmitInv
<1>1. /\ numLeaves' = m /\ m \in 0 .. MaxLeaves
      /\ \A i \in 1 .. n : nodes'[MaxLeaves - 2 + i] = nodes[MaxLeaves - 2 + i]
      /\ \A i \in 1 .. NumOut : nodes'[MaxLeaves - 2 + (n + i)] = batch[i]
  BY MixedNodes, Zenon DEF TreeInv
<1>2. /\ emitted' = e /\ roots' = [roots EXCEPT ![m] = {nodes'[0]}]
      /\ stale' = {p \in stale : p < n - (n % 2)}
  BY <1>1, Zenon DEF Mix
<1>3. batch \in Seq(Leaves) /\ Len(batch) = NumOut
  BY <1>0
<1>4. e \in Seq(Leaves) /\ Len(e) = Len(emitted) + NumOut
  BY <1>0, <1>3
<1>5. Len(e) <= m /\ DOMAIN roots' = 0 .. MaxLeaves
  BY <1>0, <1>2, <1>4
<1>6. ASSUME Len(e) = m
      PROVE  /\ stale' = {}
             /\ \A i \in 1 .. m : nodes'[MaxLeaves - 2 + i] = e[i]
             /\ \A r \in 0 .. MaxLeaves :
                  IF r <= m THEN roots'[r] \subseteq {MerkleRoot(Prefix(e, r))} ELSE roots'[r] = {}
  <2>1. Len(emitted) = n
    BY <1>0, <1>4, <1>6
  <2>2. /\ stale = {}
        /\ \A i \in 1 .. n : nodes[MaxLeaves - 2 + i] = emitted[i]
        /\ \A r \in 0 .. MaxLeaves :
             IF r <= n THEN roots[r] \subseteq {MerkleRoot(Prefix(emitted, r))} ELSE roots[r] = {}
    BY <2>1, Zenon DEF TreeInv, EmitInv
  <2>3. stale' = {}
    BY <1>2, <2>2, Zenon
  <2>4. \A i \in 1 .. m : nodes'[MaxLeaves - 2 + i] = e[i]
    <3> TAKE i \in 1 .. m
    <3>1. CASE i \in 1 .. n
      <4>1. e[i] = emitted[i]
        BY <1>0, <1>3, <2>1, <3>1
      <4> QED BY <1>1, <2>2, <3>1, <4>1, Zenon
    <3>2. CASE i \notin 1 .. n
      <4>1. i - n \in 1 .. NumOut /\ n + (i - n) = i
        BY <1>0, <3>2
      <4>2. e[i] = batch[i - n]
        BY <1>0, <1>3, <2>1, <3>2
      <4> QED BY <1>1, <4>1, <4>2, Zenon
    <3> QED BY <3>1, <3>2, Zenon
  <2>5. ContractInv' /\ ContractLeaves' = e
    <3>1. ContractInv'
      BY MixKeepsContractInv, Zenon DEF TreeInv
    <3>2. ContractLeaves' = [i \in 1 .. m |-> nodes'[MaxLeaves - 2 + i]]
      BY <1>1, Zenon DEF ContractLeaves
    <3> HIDE DEF m, e
    <3>3. e = [i \in 1 .. m |-> e[i]]
      BY <1>4, <1>6, Prefixes, Zenon DEF Prefix
    <3> QED BY <2>4, <3>1, <3>2, <3>3, Zenon
  <2>6. nodes'[0] = MerkleRoot(e)
    <3>1. ContractInv' => ContractRootCorrect'
      BY ContractRoot, PTL
    <3> QED BY <2>3, <2>5, <3>1, Zenon DEF ContractRootCorrect
  <2> HIDE DEF e
  <2>7. ASSUME NEW r \in 0 .. MaxLeaves
        PROVE  IF r <= m THEN roots'[r] \subseteq {MerkleRoot(Prefix(e, r))} ELSE roots'[r] = {}
    <3>1. CASE r = m
      <4>1. Prefix(e, r) = e
        BY <1>4, <1>6, <3>1, Prefixes, Zenon
      <4>2. roots'[r] = {nodes'[0]}
        BY <1>0, <1>1, <1>2, <3>1, Zenon
      <4> QED BY <1>0, <2>6, <3>1, <4>1, <4>2
    <3>2. CASE r # m /\ r <= n
      <4>1. roots'[r] = roots[r] /\ r <= m /\ r \in 0 .. Len(emitted)
        BY <1>0, <1>2, <2>1, <3>2
      <4>2. Prefix(e, r) = Prefix(emitted, r)
        BY <1>0, <1>3, <4>1, Prefixes DEF e
      <4> QED BY <2>2, <3>2, <4>1, <4>2, Zenon
    <3>3. CASE r # m /\ ~(r <= n)
      <4>1. roots'[r] = roots[r]
        BY <1>0, <1>2, <3>3, Zenon
      <4>2. roots[r] = {}
        BY <2>2, <3>3, Zenon
      <4> QED BY <4>1, <4>2, Zenon
    <3> QED BY <3>1, <3>2, <3>3, Zenon
  <2> QED BY <2>3, <2>4, <2>7, Zenon
<1> HIDE DEF e, m
<1> QED BY <1>1, <1>2, <1>4, <1>5, <1>6, Zenon DEF EmitInv

\* The part of the invariant that the client's steps do not touch.
LEMMA EmitInductive == TreeInv /\ [Next]_vars => EmitInv'
<1> SUFFICES ASSUME TreeInv, [Next]_vars PROVE EmitInv'
  BY Zenon
<1>1. ASSUME UNCHANGED contractVars PROVE EmitInv'
  BY <1>1, Zenon DEF TreeInv, EmitInv, contractVars
<1>2. (ClientInsert \/ ClientRecompute \/ UNCHANGED vars) => UNCHANGED contractVars
  BY DEF ClientInsert, ClientRecompute, vars
<1>3. ASSUME NEW leaf \in Leaves, DirectInsert(leaf) PROVE EmitInv'
  <2>1. numLeaves' = numLeaves + 1 /\ UNCHANGED <<emitted, roots>>
    BY <1>3, Zenon DEF DirectInsert
  <2>2. numLeaves \in Nat /\ emitted \in Seq(Leaves) /\ Len(emitted) <= numLeaves
    BY LeafSlot DEF TreeInv, ContractInv, EmitInv
  <2>3. Len(emitted) <= numLeaves + 1 /\ Len(emitted) # numLeaves + 1
    BY <2>2
  <2> QED BY <2>1, <2>2, <2>3, Zenon DEF TreeInv, EmitInv
<1> QED BY <1>1, <1>2, <1>3, MixKeepsEmitInv, Zenon DEF Next

\* What is known of the sizes.
LEMMA KnownType ==
  ASSUME TreeInv
  PROVE  /\ Known \in Nat /\ newLeaves \in Nat /\ Known - newLeaves \in 0 .. Known
         /\ Known <= Len(emitted) /\ Known \in 0 .. MaxLeaves /\ Len(emitted) \in Nat
         /\ layers[Depth] \in Seq(Leaves) /\ Known = Len(layers[Depth])
         /\ Len(Hashed) = Known - newLeaves
         /\ \A i \in 1 .. Len(Hashed) : Hashed[i] = layers[Depth][i]
         /\ newLeaves = 0 => Hashed = layers[Depth]
<1>1. /\ emitted \in Seq(Leaves) /\ Len(emitted) <= numLeaves /\ numLeaves \in 0 .. MaxLeaves
      /\ Known \in 0 .. Len(emitted) /\ newLeaves \in 0 .. Known /\ MaxLeaves \in Nat
  BY LeafSlot, Zenon DEF TreeInv, ContractInv, EmitInv, ClientInv
<1>2. /\ Known \in Nat /\ newLeaves \in Nat /\ Known - newLeaves \in 0 .. Known
      /\ Known <= Len(emitted) /\ Known \in 0 .. MaxLeaves /\ Len(emitted) \in Nat
  BY <1>1
<1>3. layers[Depth] \in Seq(Leaves) /\ Known = Len(layers[Depth])
  BY <1>1, Prefixes, Zenon DEF TreeInv, ClientInv, Known
<1>4. Len(Hashed) = Known - newLeaves /\ \A i \in 1 .. Known - newLeaves : Hashed[i] = layers[Depth][i]
  <2>1. Known - newLeaves \in Nat
    BY <1>2
  <2> QED BY <2>1, FirstLen, Zenon DEF Hashed
<1>5. newLeaves = 0 => Hashed = layers[Depth]
  <2>1. newLeaves = 0 => Known - newLeaves = Len(layers[Depth])
    BY <1>2, <1>3
  <2> QED BY <1>3, <2>1, Prefixes, Zenon DEF Hashed
<1> QED BY <1>2, <1>3, <1>4, <1>5, Zenon

\* The client takes the next leaf.
LEMMA ClientInsertKeepsClientInv ==
  ASSUME TreeInv, ClientInsert
  PROVE  ClientInv'
<1> DEFINE c == Known - newLeaves
<1>0. Depth \in Nat \ {0} /\ Depth \in 0 .. Depth /\ DOMAIN layers = 0 .. Depth
  BY TreeAssumption DEF TreeInv, ClientInv
<1>1. /\ Known < Len(emitted) /\ newLeaves' = newLeaves + 1 /\ emitted' = emitted
      /\ layers' = [layers EXCEPT ![Depth] = Append(layers[Depth], emitted[Known + 1])]
  BY Zenon DEF ClientInsert, Known, contractVars
<1>2. /\ Known \in Nat /\ newLeaves \in Nat /\ c \in 0 .. Known /\ Len(emitted) \in Nat
      /\ emitted \in Seq(Leaves) /\ layers[Depth] = Prefix(emitted, Known)
  BY KnownType, Zenon DEF TreeInv, EmitInv, ClientInv
<1>3. /\ DOMAIN layers' = 0 .. Depth
      /\ \A l \in 0 .. Depth : l # Depth => layers'[l] = layers[l]
      /\ layers'[Depth] = Append(layers[Depth], emitted[Known + 1])
  BY <1>0, <1>1, Zenon
<1>4. layers'[Depth] = Prefix(emitted, Known + 1)
  <2>1. Known \in 0 .. Len(emitted) - 1
    BY <1>1, <1>2
  <2> QED BY <1>2, <1>3, <2>1, Prefixes
<1>5. Known' = Known + 1
  <2>1. Known + 1 \in 0 .. Len(emitted)
    BY <1>1, <1>2
  <2>2. Len(layers'[Depth]) = Known + 1
    BY <1>2, <1>4, <2>1, Prefixes
  <2> QED BY <2>2, Zenon DEF Known
<1>6. Known' - newLeaves' = c
  BY <1>1, <1>2, <1>5
<1>7. Hashed' = Hashed
  <2>1. Hashed' = Prefix(layers'[Depth], c)
    BY <1>6, Zenon DEF Hashed
  <2>2. /\ c \in 0 .. Len(emitted) /\ Known \in 0 .. Len(emitted) /\ Known + 1 \in 0 .. Len(emitted)
        /\ c <= Known /\ c <= Known + 1
    BY <1>1, <1>2
  <2> HIDE DEF c
  <2>3. Prefix(layers'[Depth], c) = Prefix(emitted, c) /\ Prefix(layers[Depth], c) = Prefix(emitted, c)
    BY <1>2, <1>4, <2>2, Prefixes
  <2> QED BY <2>1, <2>3, Zenon DEF Hashed, c
<1>8. \A h \in 1 .. Depth : layers'[Depth - h] = LayerOf(Hashed', h)
  <2> TAKE h \in 1 .. Depth
  <2>1. Depth - h \in 0 .. Depth /\ Depth - h # Depth
    BY <1>0
  <2>2. layers[Depth - h] = LayerOf(Hashed, h)
    BY Zenon DEF TreeInv, ClientInv
  <2> QED BY <1>3, <1>7, <2>1, <2>2, Zenon
<1>9. Known' \in 0 .. Len(emitted') /\ newLeaves' \in 0 .. Known'
  BY <1>1, <1>2, <1>5
<1> QED BY <1>1, <1>3, <1>4, <1>5, <1>8, <1>9, Zenon DEF ClientInv

\* The client recomputes its root.
LEMMA ClientRecomputeKeepsClientInv ==
  ASSUME TreeInv, ClientRecompute
  PROVE  ClientInv'
<1> DEFINE leaves == layers[Depth]
           n == Known
           c == Known - newLeaves
<1>0. Depth \in Nat \ {0} /\ Depth \in 0 .. Depth
  BY TreeAssumption
<1>1. newLeaves > 0 /\ layers' = RecomputeLayers(layers, newLeaves) /\ newLeaves' = 0 /\ emitted' = emitted
  BY Zenon DEF ClientRecompute, contractVars
<1>2. /\ n \in Nat /\ newLeaves \in Nat /\ c \in 0 .. n /\ n \in 0 .. MaxLeaves /\ n <= Len(emitted)
      /\ leaves \in Seq(Leaves) /\ n = Len(leaves)
      /\ Len(Hashed) = c /\ \A i \in 1 .. Len(Hashed) : Hashed[i] = leaves[i]
  BY KnownType, Zenon
<1>3. n > 0 /\ n - c = newLeaves /\ c <= n /\ c \in Nat
  BY <1>1, <1>2
<1>4. leaves = Prefix(leaves, Len(leaves))
  BY <1>2, Prefixes, Zenon
<1>5. \A h \in 1 .. Depth : layers[Depth - h] = LayerOf(Hashed, h)
  BY Zenon DEF TreeInv, ClientInv
<1>6. layers' = [l \in 0 .. Depth |-> LayerOf(leaves, Depth - l)]
  <2>1. /\ Len(Hashed) \in Nat /\ Len(leaves) \in 0 .. MaxLeaves /\ Len(leaves) > 0
        /\ Len(Hashed) <= Len(leaves) /\ Len(leaves) - Len(Hashed) = newLeaves
    BY <1>2, <1>3, Zenon
  <2>2. layers[Depth] = leaves
    BY Zenon
  <2>3. \A i \in 1 .. Len(Hashed) : Hashed[i] = leaves[i]
    BY <1>2, Zenon
  <2> HIDE DEF leaves
  <2>4. RecomputeLayers(layers, Len(leaves) - Len(Hashed)) = [l \in 0 .. Depth |-> LayerOf(leaves, Depth - l)]
    BY <1>4, <1>5, <2>1, <2>2, <2>3, LayersRecomputed
  <2> QED BY <1>1, <2>1, <2>4, Zenon
<1>7. DOMAIN layers' = 0 .. Depth /\ \A h \in 0 .. Depth : layers'[Depth - h] = LayerOf(leaves, h)
  <2>1. \A h \in 0 .. Depth : Depth - h \in 0 .. Depth /\ Depth - (Depth - h) = h
    BY <1>0
  <2> HIDE DEF leaves
  <2> QED BY <1>6, <2>1, Zenon
<1>8. layers'[Depth] = leaves
  <2>1. 0 \in 0 .. Depth /\ Depth - 0 = Depth
    BY <1>0
  <2>2. LayerOf(leaves, 0) = leaves
    BY <1>2, <1>4, LowestLayer, Zenon
  <2> QED BY <1>7, <2>1, <2>2, Zenon
<1>9. Known' = n /\ Known' - newLeaves' = n
  BY <1>1, <1>2, <1>8 DEF Known
<1>10. Hashed' = leaves
  BY <1>2, <1>4, <1>8, <1>9, Zenon DEF Hashed
<1>11. \A h \in 1 .. Depth : layers'[Depth - h] = LayerOf(Hashed', h)
  <2>1. \A h \in 1 .. Depth : h \in 0 .. Depth
    BY <1>0
  <2> QED BY <1>7, <1>10, <2>1, Zenon
<1>12. layers'[Depth] = Prefix(emitted', Known')
  BY <1>1, <1>8, <1>9, Zenon DEF TreeInv, ClientInv
<1>13. Known' \in 0 .. Len(emitted') /\ newLeaves' \in 0 .. Known'
  BY <1>1, <1>2, <1>9
<1> QED BY <1>7, <1>11, <1>12, <1>13, Zenon DEF ClientInv

\* All of the invariant is inductive.
LEMMA TreeInductive == TreeInv /\ [Next]_vars => TreeInv'
<1> SUFFICES ASSUME TreeInv, [Next]_vars PROVE TreeInv'
  OBVIOUS
<1>1. ContractInv' /\ EmitInv'
  BY ContractInductive, EmitInductive, Zenon DEF TreeInv
<1>2. ASSUME UNCHANGED clientVars,
             emitted' = emitted \/ \E batch \in [1 .. NumOut -> Leaves] : emitted' = emitted \o batch
      PROVE  ClientInv'
  <2>1. /\ Known' = Known /\ newLeaves' = newLeaves /\ layers' = layers /\ Hashed' = Hashed
    BY <1>2, Zenon DEF clientVars, Known, Hashed
  <2>2. /\ emitted \in Seq(Leaves) /\ Known \in 0 .. Len(emitted)
    BY Zenon DEF TreeInv, EmitInv, ClientInv
  <2>3. Len(emitted) <= Len(emitted') /\ Len(emitted') \in Nat /\ Prefix(emitted', Known) = Prefix(emitted, Known)
    <3>1. CASE emitted' = emitted
      BY <2>2, <3>1
    <3>2. ASSUME NEW batch \in [1 .. NumOut -> Leaves], emitted' = emitted \o batch
          PROVE  Len(emitted) <= Len(emitted') /\ Len(emitted') \in Nat
                 /\ Prefix(emitted', Known) = Prefix(emitted, Known)
      <4>1. batch \in Seq(Leaves)
        BY TreeAssumption
      <4>2. Prefix(emitted \o batch, Known) = Prefix(emitted, Known)
        BY <2>2, <4>1, Prefixes, Zenon
      <4> QED BY <2>2, <3>2, <4>1, <4>2
    <3> QED BY <1>2, <3>1, <3>2, Zenon
  <2>4. Known' \in 0 .. Len(emitted') /\ newLeaves' \in 0 .. Known'
    BY <2>1, <2>2, <2>3 DEF TreeInv, ClientInv
  <2> QED BY <2>1, <2>3, <2>4, Zenon DEF TreeInv, ClientInv
<1>3. ASSUME NEW batch \in [1 .. NumOut -> Leaves], Mix(batch) PROVE ClientInv'
  BY <1>2, <1>3, Zenon DEF Mix
<1>4. ASSUME NEW leaf \in Leaves, DirectInsert(leaf) PROVE ClientInv'
  BY <1>2, <1>4, Zenon DEF DirectInsert
<1>5. ASSUME UNCHANGED vars PROVE ClientInv'
  <2>1. emitted' = emitted /\ UNCHANGED clientVars
    BY <1>5, Zenon DEF vars, contractVars
  <2> QED BY <1>2, <2>1, Zenon
<1>6. ClientInv'
  BY <1>3, <1>4, <1>5, ClientInsertKeepsClientInv, ClientRecomputeKeepsClientInv, Zenon DEF Next
<1> QED BY <1>1, <1>6, Zenon DEF TreeInv

\* It holds in every behaviour.
LEMMA TreeInvariant == Spec => []TreeInv
  BY TreeInit, TreeInductive, PTL DEF Spec

\* The client's root in terms of the leaves it knows.
LEMMA ClientRoot ==
  TreeInv => ClientRootMatches /\ (newLeaves = 0 => layers[0] = <<MerkleRoot(layers[Depth])>>)
<1> SUFFICES ASSUME TreeInv, newLeaves = 0
             PROVE  LET n == Len(layers[Depth]) IN
                    /\ layers[0] = <<MerkleRoot(layers[Depth])>>
                    /\ Len(emitted) = numLeaves => roots[n] \subseteq {layers[0][1]}
  BY Zenon DEF ClientRootMatches
<1> DEFINE leaves == layers[Depth]
<1>1. Depth \in 1 .. Depth /\ Depth - Depth = 0
  BY TreeAssumption
<1>2. Hashed = leaves /\ Known = Len(leaves) /\ Known \in 0 .. MaxLeaves /\ Known <= Len(emitted)
  BY KnownType, Zenon
<1>3. layers[0] = LayerOf(leaves, Depth)
  BY <1>1, <1>2, Zenon DEF TreeInv, ClientInv
<1>4. LayerOf(leaves, Depth) = [j \in 1 .. 1 |-> Ref(leaves, Depth, j - 1)]
  BY Zenon DEF LayerOf, Count
<1>5. MerkleRoot(leaves) = Ref(leaves, Depth, 0)
  BY Zenon DEF MerkleRoot, Ref
<1>6. layers[0] = <<MerkleRoot(leaves)>>
  <2> HIDE DEF leaves
  <2> QED BY <1>3, <1>4, <1>5
<1>7. ASSUME Len(emitted) = numLeaves PROVE roots[Known] \subseteq {MerkleRoot(leaves)}
  <2>1. leaves = Prefix(emitted, Known)
    BY Zenon DEF TreeInv, ClientInv
  <2>2. Known <= numLeaves
    BY <1>2, <1>7, Zenon
  <2> QED BY <1>2, <1>7, <2>1, <2>2, Zenon DEF TreeInv, EmitInv
<1> QED BY <1>2, <1>6, <1>7

(* However a client batches the leaves it learns (merkle_tree.py: insert,  *)
(* recompute_root), its root is the root of the complete tree over them,   *)
(* and the root that the contract announced with the last of them.         *)
THEOREM ClientRootIsRight == Spec => []ClientRootMatches
  BY ClientRoot, TreeInvariant, PTL

\* The nodes a client reads, stored or default, are those of the complete tree.
LEMMA NodesRead ==
  ASSUME TreeInv, newLeaves = 0, NEW d \in 0 .. Depth, NEW j \in 0 .. Size(d) - 1
  PROVE  GetNode(d, j) = Ref(layers[Depth], d, j)
<1> DEFINE leaves == layers[Depth]
           n == Len(leaves)
<1>1. leaves \in Seq(Leaves) /\ Hashed = leaves /\ n \in 0 .. MaxLeaves /\ n \in Nat
  BY KnownType, Zenon
<1>2. layers[Depth - d] = LayerOf(leaves, d)
  <2>1. CASE d = 0
    <3>1. Depth - d = Depth
      BY <2>1, TreeAssumption
    <3>2. leaves = Prefix(leaves, Len(leaves))
      BY <1>1, Prefixes, Zenon
    <3>3. LayerOf(leaves, 0) = leaves
      BY <1>1, <3>2, LowestLayer, Zenon
    <3> QED BY <2>1, <3>1, <3>3, Zenon
  <2>2. CASE d # 0
    <3>1. d \in 1 .. Depth
      BY <2>2, TreeAssumption
    <3> QED BY <1>1, <3>1, Zenon DEF TreeInv, ClientInv
  <2> QED BY <2>1, <2>2, Zenon
<1> HIDE DEF leaves
<1>3. /\ Len(LayerOf(leaves, d)) = Count(leaves, d) /\ Count(leaves, d) \in Nat
      /\ Up(n, d) \in Nat /\ Up(n, d) <= Count(leaves, d) /\ Size(d) \in Nat
  BY <1>1, Counted, Counts, Sizes
<1>4. CASE j < Count(leaves, d)
  <2>1. j + 1 \in 1 .. Count(leaves, d) /\ (j + 1) - 1 = j
    BY <1>3, <1>4
  <2>2. LayerOf(leaves, d)[j + 1] = Ref(leaves, d, j)
    BY <2>1, Zenon DEF LayerOf
  <2> QED BY <1>2, <1>3, <1>4, <2>2, Zenon DEF GetNode, leaves
<1>5. CASE ~(j < Count(leaves, d))
  <2>1. Up(n, d) <= j
    BY <1>3, <1>5
  <2>2. Ref(leaves, d, j) = DefaultAt[d]
    BY <1>1, <2>1, RefDefault, Zenon
  <2> QED BY <1>2, <1>3, <1>5, <2>2, Zenon DEF GetNode, leaves
<1> QED BY <1>4, <1>5, Zenon

\* Step by step the circuit computes the nodes above the leaf.
LEMMA PathFollowsTree ==
  ASSUME TreeInv, newLeaves = 0, NEW a \in 0 .. Len(layers[Depth]) - 1
  PROVE  PathRoot(layers[Depth][a + 1], a, ComputeMerklePath(a)) = Ref(layers[Depth], Depth, 0)
<1> DEFINE leaves == layers[Depth]
           path == ComputeMerklePath(a)
           g == PathDigests(leaves[a + 1], a, path)
           P(d) == Down(a, d) \in 0 .. Size(d) - 1 /\ g[d] = Ref(leaves, d, Down(a, d))
           C == {d \in 0 .. Depth : P(d)}
<1>0. /\ Depth \in Nat /\ 0 \in 0 .. Depth /\ Depth \in 0 .. Depth
      /\ Len(leaves) \in 0 .. MaxLeaves /\ a \in Nat /\ a < Len(leaves) /\ a \in 0 .. MaxLeaves - 1
  BY KnownType, TreeAssumption, LeafSlot
<1>1. \A d \in 0 .. Depth : g[d] = IF d = 0 THEN leaves[a + 1]
                                   ELSE IF (a \div Pow2[d - 1]) % 2 = 1 THEN Hash(path[d - 1], g[d - 1])
                                   ELSE Hash(g[d - 1], path[d - 1])
  <2> HIDE DEF leaves, path
  <2> QED BY PathDigestsAt
<1>2. \A d \in 0 .. Depth - 1 :
        path[d] = IF Down(a, d) % 2 = 1 THEN GetNode(d, Down(a, d) - 1) ELSE GetNode(d, Down(a, d) + 1)
  BY Zenon DEF ComputeMerklePath, Down
<1>3. \A d \in 0 .. Depth : \A j \in 0 .. Size(d) - 1 : GetNode(d, j) = Ref(leaves, d, j)
  BY NodesRead, Zenon
<1> HIDE DEF leaves, path, g
<1>4. 0 \in C
  <2>1. Down(a, 0) = a /\ Size(0) = MaxLeaves
    BY <1>0, Counts, Sizes, Zenon
  <2>2. Ref(leaves, 0, a) = leaves[a + 1]
    BY <1>0, <2>1, RefAt, Zenon
  <2> QED BY <1>0, <1>1, <2>1, <2>2, Zenon
<1>5. ASSUME NEW d \in 1 .. Depth, d - 1 \in C PROVE d \in C
  <2> DEFINE x == Down(a, d - 1)
             y == Down(a, d)
  <2>1. /\ d \in 0 .. Depth /\ d # 0 /\ d - 1 \in 0 .. Depth /\ d - 1 \in 0 .. Depth - 1
    BY <1>0
  <2>2. x \in 0 .. Size(d - 1) - 1 /\ g[d - 1] = Ref(leaves, d - 1, x)
    BY <1>5, Zenon
  <2>3. y = x \div 2 /\ Size(d - 1) = 2 * Size(d) /\ Size(d) \in Nat /\ Size(d - 1) \in Nat
    BY <1>0, <2>1, Counts, Sizes, Zenon
  <2>4. g[d] = IF x % 2 = 1 THEN Hash(path[d - 1], g[d - 1]) ELSE Hash(g[d - 1], path[d - 1])
    BY <1>1, <2>1, Zenon DEF Down
  <2>5. path[d - 1] = IF x % 2 = 1 THEN GetNode(d - 1, x - 1) ELSE GetNode(d - 1, x + 1)
    BY <1>2, <2>1, Zenon
  <2> HIDE DEF x, y
  <2>6. y \in 0 .. Size(d) - 1
    BY <2>2, <2>3, SMTT(30)
  <2>7. Ref(leaves, d, y) = Hash(Ref(leaves, d - 1, 2 * y), Ref(leaves, d - 1, 2 * y + 1))
    BY <2>1, <2>6, RefAt, Zenon
  <2>8. CASE x % 2 = 1
    <3>1. 2 * y = x - 1 /\ 2 * y + 1 = x /\ x - 1 \in 0 .. Size(d - 1) - 1
      BY <2>2, <2>3, <2>8, SMTT(30)
    <3>2. path[d - 1] = Ref(leaves, d - 1, x - 1)
      BY <1>3, <2>1, <2>5, <2>8, <3>1, Zenon
    <3> QED BY <2>1, <2>2, <2>4, <2>6, <2>7, <2>8, <3>1, <3>2 DEF y
  <2>9. CASE x % 2 # 1
    <3>1. 2 * y = x /\ 2 * y + 1 = x + 1 /\ x + 1 \in 0 .. Size(d - 1) - 1
      BY <2>2, <2>3, <2>9
    <3>2. path[d - 1] = Ref(leaves, d - 1, x + 1)
      BY <1>3, <2>1, <2>5, <2>9, <3>1, Zenon
    <3> QED BY <2>1, <2>2, <2>4, <2>6, <2>7, <2>9, <3>1, <3>2 DEF y
  <2> QED BY <2>8, <2>9, Zenon
<1>6. Depth \in C
  <2> HIDE DEF C
  <2> QED BY <1>0, <1>4, <1>5, InductionUpTo, Zenon
<1>7. Down(a, Depth) = 0 /\ g[Depth] = Ref(leaves, Depth, Down(a, Depth))
  BY <1>6, Sizes
<1> QED BY <1>7, Zenon DEF PathRoot, g, path, leaves

(* The path that a client computes for a leaf it has (compute_merkle_path) *)
(* leads the circuit (merkle_path_compute) from the leaf to the client's   *)
(* root, which a spending proof names.                                     *)
THEOREM PathsLeadToRoot == Spec => []PathsAuthenticate
<1>1. TreeInv => PathsAuthenticate
  <2> SUFFICES ASSUME TreeInv, newLeaves = 0, NEW a \in 0 .. Len(layers[Depth]) - 1
               PROVE  PathRoot(layers[Depth][a + 1], a, ComputeMerklePath(a)) = layers[0][1]
    BY Zenon DEF PathsAuthenticate
  <2>1. layers[0] = <<MerkleRoot(layers[Depth])>>
    BY ClientRoot, Zenon
  <2>2. MerkleRoot(layers[Depth]) = Ref(layers[Depth], Depth, 0)
    BY Zenon DEF MerkleRoot, Ref
  <2> QED BY <2>1, <2>2, PathFollowsTree
<1> QED BY <1>1, TreeInvariant, PTL

LEMMA Foo1 == 1 + 1 = 2
OBVIOUS
LEMMA Foo2 == 1 + 1 = 2
BY Sizes
LEMMA Foo3 == ASSUME TreeInv PROVE TreeInv
BY Zenon DEF TreeInv
LEMMA Foo4 == ASSUME NEW a \in Nat, NEW b \in Nat, a < b PROVE a <= b /\ a \div 2 <= b
OBVIOUS
=============================================================================
