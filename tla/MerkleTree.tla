------------------------------ MODULE MerkleTree ------------------------------
(***************************************************************************)
(* The commitment tree, in its two incremental implementations: the flat   *)
(* array of the contract (AbstractMerkleTree.sol) and the list of layers   *)
(* of the client (merkle_tree.py).  The contract appends NumOut leaves per *)
(* mix call and recomputes the nodes they affect; a client replays the     *)
(* leaves it learns from events, and recomputes when it chooses.           *)
(*                                                                         *)
(* The hash function is a parameter; a slot never written holds the        *)
(* default leaf, as storage is zero and _DEFAULT_LEAF_VALUE is 0x0.        *)
(***************************************************************************)
EXTENDS Integers, Sequences, FiniteSets

CONSTANTS Depth,        \* _DEPTH
          NumOut,       \* _JSOUT, the leaves a mix call appends
          Leaves,       \* the commitments that may be appended
          Default,      \* _DEFAULT_LEAF_VALUE, ZERO_ENTRY
          Hash(_, _),   \* _hash
          MaxStale      \* bound on the leaves no root accounts for

ASSUME TreeAssumption ==
  /\ Depth \in Nat \ {0} /\ NumOut \in Nat \ {0} /\ MaxStale \in Nat

VARIABLES
  nodes,       \* AbstractMerkleTree._nodes
  numLeaves,   \* AbstractMerkleTree._numLeaves
  stale,       \* ghost: leaves inserted that no recomputation has covered
  emitted,     \* the leaves announced in LogMix events
  roots,       \* the root announced with them, by number of leaves
  layers,      \* MerkleTreeData.layers, from the root down
  newLeaves    \* MerkleTree.num_new_leaves

contractVars == <<nodes, numLeaves, stale, emitted, roots>>
clientVars == <<layers, newLeaves>>
vars == <<contractVars, clientVars>>

(* 2 ** h *)
Pow2[h \in 0 .. Depth] == IF h = 0 THEN 1 ELSE 2 * Pow2[h - 1]

(* _MAX_NUM_LEAVES *)
MaxLeaves == Pow2[Depth]

(* The layer_size of the layer h levels above the leaves. *)
Size(h) == Pow2[Depth - h]

(* The default value of the layer h levels above the leaves. *)
DefaultAt[h \in 0 .. Depth] ==
  IF h = 0 THEN Default ELSE Hash(DefaultAt[h - 1], DefaultAt[h - 1])
-----------------------------------------------------------------------------
(* _initializeTree: the last entry of each layer holds its default value. *)
InitialNodes ==
  [i \in 0 .. 2 * MaxLeaves - 2 |->
     LET hs == {h \in 0 .. Depth : i = 2 * Size(h) - 2}
     IN  IF hs = {} THEN Default ELSE DefaultAt[CHOOSE h \in hs : TRUE]]

(* insert *)
InsertLeaf(ns, n, leaf) == [ns EXCEPT ![MaxLeaves - 1 + n] = leaf]

\* Mutant: the start is not rounded down to a left child.
RecomputeParentLayer_NoRound(ns, size, start, end) ==
  LET first == size - 1
      rend == first + start
      odd == end % 2 = 1
      left0 == IF odd THEN first + end - 1 ELSE first + end
      Pair(p) == LET left == 2 * p + 1 IN
        IF odd /\ left = left0 THEN Hash(ns[left], ns[2 * first])
        ELSE IF rend <= left /\ left < left0 THEN Hash(ns[left], ns[left + 1])
        ELSE ns[p]
  IN  [i \in DOMAIN ns |->
         IF (size \div 2) - 1 <= i /\ i < first THEN Pair(i) ELSE ns[i]]

(* _recomputeParentLayer: the parents of the children [start, end[ of a    *)
(* layer of the given size.  A left child that has no right sibling yet is *)
(* paired with the last entry of its layer.                                *)
RecomputeParentLayer(ns, size, start, end) ==
  LET first == size - 1
      rend == first + (start - (start % 2))
      odd == end % 2 = 1
      left0 == IF odd THEN first + end - 1 ELSE first + end
      Pair(p) == LET left == 2 * p + 1 IN
        IF odd /\ left = left0 THEN Hash(ns[left], ns[2 * first])
        ELSE IF rend <= left /\ left < left0 THEN Hash(ns[left], ns[left + 1])
        ELSE ns[p]
  IN  [i \in DOMAIN ns |->
         IF (size \div 2) - 1 <= i /\ i < first THEN Pair(i) ELSE ns[i]]

(* _recomputeRoot: layer by layer, from the leaves to the root. *)
RecomputeUpTo(ns, n, k) ==
  LET layer[d \in 0 .. Depth] ==
        IF d = 0 THEN [ns |-> ns, start |-> n - k, end |-> n]
        ELSE LET c == layer[d - 1] IN
               [ns |-> RecomputeParentLayer(c.ns, Size(d - 1), c.start, c.end),
                start |-> c.start \div 2,
                end |-> (c.end + 1) \div 2]
  IN  layer

RecomputeRoot(ns, n, k) == RecomputeUpTo(ns, n, k)[Depth].ns
-----------------------------------------------------------------------------
(* The part of a mix call that concerns the tree. *)
Mix(batch) ==
  /\ numLeaves + NumOut <= MaxLeaves
  /\ LET written == [i \in DOMAIN nodes |->
                       LET k == i - (MaxLeaves - 1 + numLeaves) IN
                         IF k \in 0 .. NumOut - 1 THEN batch[k + 1]
                         ELSE nodes[i]]
     IN  nodes' = RecomputeRoot(written, numLeaves + NumOut, NumOut)
  /\ numLeaves' = numLeaves + NumOut
  /\ stale' = {p \in stale : p < numLeaves - (numLeaves % 2)}
  /\ emitted' = emitted \o batch
  /\ roots' = [roots EXCEPT ![numLeaves'] = {nodes'[0]}]
  /\ UNCHANGED clientVars

(* insert is public: a leaf can be appended without recomputing the root.  *)
(* The next mix call recomputes its parent only if it is the left sibling  *)
(* of the first leaf of that call.                                         *)
DirectInsert(leaf) ==
  /\ numLeaves < MaxLeaves
  /\ Cardinality(stale) < MaxStale
  /\ nodes' = InsertLeaf(nodes, numLeaves, leaf)
  /\ numLeaves' = numLeaves + 1
  /\ stale' = stale \cup {numLeaves}
  /\ UNCHANGED <<emitted, roots, clientVars>>
-----------------------------------------------------------------------------
(* _empty_data_with_depth *)
EmptyLayers ==
  [l \in 0 .. Depth |-> IF l = 0 THEN <<DefaultAt[Depth]>> ELSE <<>>]

\* Mutant: the default leaf stands for the default of every layer.
RecomputeLayer_LeafDefault(child, start, end, default, parent) ==
  LET rend == (start \div 2) * 2
      odd == end % 2 = 1
      left0 == IF odd THEN end - 1 ELSE end
      Old(j) == IF j <= Len(parent) THEN parent[j] ELSE Default
      newLength == (end + 1) \div 2
      length == IF newLength < Len(parent) THEN Len(parent) ELSE newLength
  IN  [j \in 1 .. length |->
         LET left == 2 * (j - 1) IN
           IF odd /\ left = left0 THEN Hash(child[left + 1], Default)
           ELSE IF rend <= left /\ left < left0
                THEN Hash(child[left + 1], child[left + 2])
           ELSE Old(j)]

(* _recompute_layer: the parent layer is first extended with zeros. *)
RecomputeLayer(child, start, end, default, parent) ==
  LET rend == (start \div 2) * 2
      odd == end % 2 = 1
      left0 == IF odd THEN end - 1 ELSE end
      Old(j) == IF j <= Len(parent) THEN parent[j] ELSE Default
      newLength == (end + 1) \div 2
      length == IF newLength < Len(parent) THEN Len(parent) ELSE newLength
  IN  [j \in 1 .. length |->
         LET left == 2 * (j - 1) IN
           IF odd /\ left = left0 THEN Hash(child[left + 1], default)
           ELSE IF rend <= left /\ left < left0
                THEN Hash(child[left + 1], child[left + 2])
           ELSE Old(j)]

(* recompute_root, from the leaves (layer Depth) up to the root (layer 0). *)
RecomputeLayersUpTo(ls, k) ==
  LET size == Len(ls[Depth])
      up[d \in 0 .. Depth] ==
        IF d = 0 THEN [layer |-> ls[Depth], start |-> size - k, end |-> size]
        ELSE LET c == up[d - 1] IN
               [layer |-> RecomputeLayer(c.layer, c.start, c.end,
                            DefaultAt[d - 1], ls[Depth - d]),
                start |-> c.start \div 2,
                end |-> (c.end + 1) \div 2]
  IN  up

RecomputeLayers(ls, k) ==
  [l \in 0 .. Depth |-> RecomputeLayersUpTo(ls, k)[Depth - l].layer]

(* The client learns of the next leaf from an event. *)
ClientInsert ==
  LET n == Len(layers[Depth]) IN
    /\ n < Len(emitted)
    /\ layers' = [layers EXCEPT ![Depth] = Append(@, emitted[n + 1])]
    /\ newLeaves' = newLeaves + 1
    /\ UNCHANGED contractVars

ClientRecompute ==
  /\ newLeaves > 0
  /\ layers' = RecomputeLayers(layers, newLeaves)
  /\ newLeaves' = 0
  /\ UNCHANGED contractVars
-----------------------------------------------------------------------------
(* get_node, with layer 0 the leaves; the default beyond what is stored. *)
GetNode(layer, j) ==
  LET stored == layers[Depth - layer] IN
    IF j < Len(stored) THEN stored[j + 1] ELSE DefaultAt[layer]

\* Mutant: the address is not halved from layer to layer.
ComputeMerklePath_FlatAddress(address) ==
  [d \in 0 .. Depth - 1 |->
     IF address % 2 = 1 THEN GetNode(d, address - 1)
     ELSE GetNode(d, address + 1)]

(* compute_merkle_path: the sibling at each layer. *)
ComputeMerklePath(address) ==
  [d \in 0 .. Depth - 1 |->
     LET a == address \div Pow2[d] IN
       IF a % 2 = 1 THEN GetNode(d, a - 1) ELSE GetNode(d, a + 1)]

(* merkle_path_compute, the circuit's side: the address bit of a layer     *)
(* selects on which side the path element stands (merkle_path_selector).   *)
PathDigests(leaf, address, path) ==
  LET digest[d \in 0 .. Depth] ==
        IF d = 0 THEN leaf
        ELSE IF (address \div Pow2[d - 1]) % 2 = 1
             THEN Hash(path[d - 1], digest[d - 1])
             ELSE Hash(digest[d - 1], path[d - 1])
  IN  digest

PathRoot(leaf, address, path) == PathDigests(leaf, address, path)[Depth]
-----------------------------------------------------------------------------
Init ==
  /\ nodes = InitialNodes /\ numLeaves = 0 /\ stale = {}
  /\ emitted = <<>>
  /\ roots = [n \in 0 .. MaxLeaves |-> IF n = 0 THEN {nodes[0]} ELSE {}]
  /\ layers = EmptyLayers /\ newLeaves = 0

Next ==
  \/ \E batch \in [1 .. NumOut -> Leaves] : Mix(batch)
  \/ \E leaf \in Leaves : DirectInsert(leaf)
  \/ ClientInsert
  \/ ClientRecompute

Spec == Init /\ [][Next]_vars
-----------------------------------------------------------------------------
(* The reference: the root of the complete tree over a list of leaves,     *)
(* with default leaves where there are none.                               *)
MerkleNodes(leaves) ==
  LET node[h \in 0 .. Depth] ==
        [i \in 0 .. Size(h) - 1 |->
           IF h > 0 THEN Hash(node[h - 1][2 * i], node[h - 1][2 * i + 1])
           ELSE IF i < Len(leaves) THEN leaves[i + 1] ELSE Default]
  IN  node

MerkleRoot(leaves) == MerkleNodes(leaves)[Depth][0]

ContractLeaves == [i \in 1 .. numLeaves |-> nodes[MaxLeaves - 2 + i]]

(* When every leaf has been covered by a recomputation (in particular if   *)
(* all came from mix calls), the contract's root is the root of all its    *)
(* leaves, although only the nodes above the new leaves were recomputed    *)
(* and the last entry of a layer is both its default and a node.           *)
ContractRootCorrect == stale = {} => nodes[0] = MerkleRoot(ContractLeaves)

(* However the client batches its updates, its root is the root of the     *)
(* leaves it has; if all leaves came from mix calls it is, at the end of   *)
(* each, the root announced then, which the client asserts after a sync    *)
(* (cli/utils.py:330).                                                     *)
ClientRootMatches ==
  newLeaves = 0 =>
    LET n == Len(layers[Depth]) IN
      /\ layers[0] = <<MerkleRoot(layers[Depth])>>
      /\ Len(emitted) = numLeaves => roots[n] \subseteq {layers[0][1]}

(* The path a client computes for any leaf it has leads the circuit from   *)
(* that leaf to the client's root.                                         *)
PathsAuthenticate ==
  newLeaves = 0 =>
    \A a \in 0 .. Len(layers[Depth]) - 1 :
      PathRoot(layers[Depth][a + 1], a, ComputeMerklePath(a)) = layers[0][1]
=============================================================================
