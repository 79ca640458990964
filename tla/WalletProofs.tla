----------------------------- MODULE WalletProofs -----------------------------
(***************************************************************************)
(* Proofs about the wallet, for every batch size, every number of inputs   *)
(* and outputs, every chain and every number of crashes.                   *)
(***************************************************************************)
EXTENDS Wallet, FiniteSetTheorems, TLAPS

(* Every non-empty set of natural numbers has a least element. *)
LEMMA LeastNat ==
  ASSUME NEW T, T \subseteq Nat, T # {}
  PROVE  \E x \in T : \A y \in T : x <= y
<1> DEFINE R == OpToRel(<, Nat)
<1>1. IsWellFoundedOn(R, Nat)
  BY NatLessThanWellFounded, Zenon
<1>2. \A x, y \in Nat : y < x => <<y, x>> \in R
  BY SMT DEF OpToRel
<1> HIDE DEF R
<1>3. PICK x \in T : \A y \in T : ~(<<y, x>> \in R)
  BY <1>1, WFMin, Zenon
<1>4. ASSUME NEW y \in T PROVE x <= y
  <2>1. x \in Nat /\ y \in Nat
    BY Zenon
  <2>2. ~(y < x)
    BY <1>2, <1>3, <2>1, Zenon
  <2> QED BY <2>1, <2>2
<1> QED BY <1>4, Zenon

(* The least element is the one that Min chooses. *)
LEMMA MinIsLeast ==
  ASSUME NEW T, T \subseteq Nat, T # {}
  PROVE  Min(T) \in T /\ \A y \in T : Min(T) <= y
  BY LeastNat, Zenon DEF Min

(* A chain as the mixer's events make it: a block without an event has     *)
(* nothing of ours, and an event spends notes of earlier blocks that were  *)
(* not spent before.                                                       *)
Blocks == [event : BOOLEAN, insert : BOOLEAN, mine : SUBSET (1 .. NumOut),
           spends : SUBSET Nat]

ChainInv ==
  /\ chain \in Seq(Blocks)
  /\ \A b \in 1 .. Len(chain) :
       /\ ~chain[b].event => chain[b].mine = {} /\ chain[b].spends = {}
       /\ chain[b].spends \subseteq MineUpTo(b - 1) \ SpentUpTo(b - 1)

(* Where a synchronisation is in the range of blocks it has fixed. *)
RangeInv ==
  /\ next \in Nat \ {0} /\ next <= Len(chain) + 1
  /\ wpc \in {"fetch", "receive"} =>
       /\ start \in Nat \ {0} /\ end \in Nat
       /\ start <= end + 1 /\ end <= Len(chain)
  /\ wpc = "receive" =>
       /\ queue # {} /\ pos \in 0 .. NumOut
       /\ queue \subseteq {b \in 1 .. start - 1 : chain[b].event}
       /\ \A b \in Current .. start - 1 : chain[b].event => b \in queue

(* The notes of ours in files, here or in the spent directory. *)
Held == {f.note : f \in notes \cup spent}

(* The leaves of ours among the first k outputs of block b. *)
MineSoFar(b, k) == {Leaf(b, i) : i \in {i \in chain[b].mine : i <= k}}

(* Which notes are in files at each point of a synchronisation. *)
HeldInv ==
  /\ \A s \in stateFile \ {Torn} :
       /\ s[1] \in Nat \ {0} /\ s[1] <= Len(chain) + 1
       /\ MineUpTo(s[1] - 1) \subseteq Held
  /\ wpc # "off" => MineUpTo(next - 1) \subseteq Held
  /\ wpc = "fetch" => MineUpTo(start - 1) \subseteq Held
  /\ wpc = "receive" =>
       MineUpTo(Current - 1) \cup MineSoFar(Current, pos) \subseteq Held

LossInv == ChainInv /\ RangeInv /\ HeldInv
-----------------------------------------------------------------------------
(* The wallet as it is when the events of the first b blocks have been     *)
(* processed, and nothing else has happened.                               *)
Files(s) == {[note |-> n, addr |-> n] : n \in s}

Exact(b) ==
  /\ map = MineUpTo(b) \ SpentUpTo(b)
  /\ notes = Files(map)
  /\ spent = Files(MineUpTo(b) \ map)
  /\ InOrder(tree, Leaves(b))
  /\ nextAddr = Leaves(b)

(* The same in the middle of the event of block b: the first pos outputs   *)
(* are received, and when all are, some of its nullifiers are marked.      *)
ExactAt(b) ==
  LET received == MineUpTo(b - 1) \cup MineSoFar(b, pos)
  IN  /\ map \subseteq received \ SpentUpTo(b - 1)
      /\ received \ SpentUpTo(b - 1) \subseteq map \cup chain[b].spends
      /\ pos < NumOut => map = received \ SpentUpTo(b - 1)
      /\ notes = Files(map)
      /\ spent = Files(received \ map)
      /\ InOrder(tree, Leaves(b - 1) + pos)
      /\ nextAddr = Leaves(b - 1) + pos

StateSaved == stateFile = {<<next, map>>} \/ (stateFile = {} /\ next = 1 /\ map = {})
TreeSaved == treeFile = {<<tree>>} \/ (treeFile = {} /\ tree = <<>>)

(* What an Open would find. *)
FilesExact ==
  \E nx \in 1 .. Len(chain) + 1 :
    LET m == MineUpTo(nx - 1) \ SpentUpTo(nx - 1)
        t == [k \in 1 .. Leaves(nx - 1) |-> k - 1]
    IN  /\ stateFile = {<<nx, m>>} \/ (stateFile = {} /\ nx = 1)
        /\ treeFile = {<<t>>} \/ (treeFile = {} /\ t = <<>>)
        /\ notes = Files(m)
        /\ spent = Files(MineUpTo(nx - 1) \ m)

(* The leaves under the root that was emitted last. *)
RootAt(b) == \A r \in root : r.mixed = Leaves(b) /\ r.direct \subseteq Inserted(b)

(* As long as there has been no crash. *)
SyncInv ==
  /\ wpc = "off" => FilesExact
  /\ wpc \in {"ready", "failed"} => Exact(next - 1) /\ StateSaved /\ TreeSaved
  /\ wpc = "fetch" =>
       /\ Exact(start - 1)
       /\ RootAt(start - 1) /\ (root = {} => TreeSaved)
  /\ wpc = "receive" =>
       /\ ExactAt(Current)
       /\ root = {} /\ pos = 0 => TreeSaved
  /\ wpc = "state" =>
       /\ Exact(next - 1)
       /\ RootAt(next - 1) /\ (root = {} => TreeSaved)
  /\ wpc \in {"tree", "leaves"} =>
       /\ Exact(next - 1) /\ StateSaved
       /\ RootAt(next - 1)
  /\ wpc = "check" =>
       /\ Exact(next - 1) /\ StateSaved /\ TreeSaved
       /\ RootAt(next - 1)
  /\ wpc = "failed" => Inserted(next - 1) # {}

WalletInv == LossInv /\ crashes \in Nat /\ (crashes = 0 => SyncInv)
-----------------------------------------------------------------------------
(* Nothing that is defined from a part of the chain changes when blocks    *)
(* are added to it.                                                        *)
LEMMA PastFixed ==
  ASSUME NEW b \in Nat, \A c \in 1 .. b : chain'[c] = chain[c]
  PROVE  /\ Leaves(b)' = Leaves(b)
         /\ MineUpTo(b)' = MineUpTo(b)
         /\ SpentUpTo(b)' = SpentUpTo(b)
         /\ Inserted(b)' = Inserted(b)
         /\ b > 0 => \A k : MineSoFar(b, k)' = MineSoFar(b, k)
<1>1. ASSUME NEW c \in 0 .. b PROVE Leaves(c)' = Leaves(c)
  <2>1. {d \in 1 .. c : chain[d].event}' = {d \in 1 .. c : chain[d].event}
    OBVIOUS
  <2> QED BY <2>1, Zenon DEF Leaves
<1>2. ASSUME NEW c \in 1 .. b PROVE Mine(c)' = Mine(c)
  BY <1>1 DEF Mine, Leaf
<1>3. SpentUpTo(b)' = SpentUpTo(b)
  BY Zenon DEF SpentUpTo
<1>4. MineUpTo(b)' = MineUpTo(b)
  BY <1>2, Zenon DEF MineUpTo
<1>5. Inserted(b)' = Inserted(b)
  BY Zenon DEF Inserted
<1>6. ASSUME b > 0, NEW k PROVE MineSoFar(b, k)' = MineSoFar(b, k)
  BY <1>1, <1>6 DEF MineSoFar, Leaf
<1> QED BY <1>1, <1>3, <1>4, <1>5, <1>6

\* An unchanged chain.
LEMMA SameChain ==
  ASSUME chain' = chain
  PROVE  /\ \A b : /\ Leaves(b)' = Leaves(b) /\ MineUpTo(b)' = MineUpTo(b)
                   /\ SpentUpTo(b)' = SpentUpTo(b) /\ Inserted(b)' = Inserted(b)
         /\ \A b, k : MineSoFar(b, k)' = MineSoFar(b, k) /\ Leaf(b, k)' = Leaf(b, k)
<1>1. \A b : Leaves(b)' = Leaves(b)
  BY Zenon DEF Leaves
<1>2. \A b : SpentUpTo(b)' = SpentUpTo(b)
  BY Zenon DEF SpentUpTo
<1>3. \A b : Mine(b)' = Mine(b)
  BY <1>1, Zenon DEF Mine, Leaf
<1>4. \A b : MineUpTo(b)' = MineUpTo(b)
  BY <1>3, Zenon DEF MineUpTo
<1>5. \A b, k : MineSoFar(b, k)' = MineSoFar(b, k) /\ Leaf(b, k)' = Leaf(b, k)
  BY <1>1, Zenon DEF MineSoFar, Leaf
<1>6. \A b : Inserted(b)' = Inserted(b)
  BY Zenon DEF Inserted
<1> QED BY <1>1, <1>2, <1>4, <1>5, <1>6, Zenon

\* Later blocks have no fewer direct inserts before them.
LEMMA InsertedMonotonic ==
  ASSUME NEW a \in Nat, NEW b \in Nat, a <= b
  PROVE  Inserted(a) \subseteq Inserted(b)
<1>1. 1 .. a \subseteq 1 .. b
  OBVIOUS
<1> QED BY <1>1, Zenon DEF Inserted

\* The number of leaves is a number, and grows by NumOut with each event.
LEMMA LeavesCount ==
  ASSUME ChainInv, NEW b \in 0 .. Len(chain)
  PROVE  /\ Leaves(b) \in Nat
         /\ b = 0 => Leaves(b) = 0
         /\ b > 0 => Leaves(b) = Leaves(b - 1) + IF chain[b].event THEN NumOut ELSE 0
<1> DEFINE E(c) == {d \in 1 .. c : chain[d].event}
<1>1. ASSUME NEW c \in Nat PROVE IsFiniteSet(E(c)) /\ Cardinality(E(c)) \in Nat
  <2>1. E(c) \subseteq 1 .. c
    BY Zenon
  <2>2. IsFiniteSet(1 .. c)
    BY FS_Interval
  <2> HIDE DEF E
  <2> QED BY <2>1, <2>2, FS_Subset, FS_CardinalityType, Zenon
<1>2. NumOut \in Nat
  BY WalletAssumption, Zenon
<1>3. b \in Nat
  OBVIOUS
<1>4. Leaves(b) = NumOut * Cardinality(E(b)) /\ Leaves(b - 1) = NumOut * Cardinality(E(b - 1))
  BY Zenon DEF Leaves
<1>5. b = 0 => Cardinality(E(b)) = 0
  <2>1. b = 0 => E(b) = {}
    OBVIOUS
  <2> HIDE DEF E
  <2> QED BY <2>1, FS_EmptySet, Zenon
<1>6. ASSUME b > 0, chain[b].event PROVE Cardinality(E(b)) = Cardinality(E(b - 1)) + 1
  <2>1. E(b) = E(b - 1) \cup {b} /\ b \notin E(b - 1) /\ b - 1 \in Nat
    BY <1>6
  <2> HIDE DEF E
  <2> QED BY <1>1, <2>1, FS_AddElement, Zenon
<1>7. ASSUME b > 0, ~chain[b].event PROVE Cardinality(E(b)) = Cardinality(E(b - 1))
  <2>1. E(b) = E(b - 1)
    BY <1>7
  <2> HIDE DEF E
  <2> QED BY <2>1, Zenon
<1>8. Cardinality(E(b)) \in Nat /\ (b > 0 => Cardinality(E(b - 1)) \in Nat)
  <2> HIDE DEF E
  <2> QED BY <1>1, <1>3
<1> HIDE DEF E
<1>9. Leaves(b) \in Nat
  BY <1>2, <1>4, <1>8
<1>10. b = 0 => Leaves(b) = 0
  BY <1>2, <1>4, <1>5
<1>11. ASSUME b > 0, chain[b].event PROVE Leaves(b) = Leaves(b - 1) + NumOut
  BY <1>2, <1>4, <1>6, <1>8, <1>11
<1>12. ASSUME b > 0, ~chain[b].event PROVE Leaves(b) = Leaves(b - 1) + 0
  BY <1>2, <1>4, <1>7, <1>8, <1>12
<1> QED BY <1>9, <1>10, <1>11, <1>12, Zenon

\* Later blocks have no fewer leaves before them.
LEMMA LeavesMonotonic ==
  ASSUME ChainInv, NEW a \in 0 .. Len(chain), NEW b \in a .. Len(chain)
  PROVE  Leaves(a) <= Leaves(b)
<1> DEFINE E(c) == {d \in 1 .. c : chain[d].event}
<1>1. E(a) \subseteq E(b) /\ E(b) \subseteq 1 .. b /\ b \in Nat
  OBVIOUS
<1>2. Leaves(a) = NumOut * Cardinality(E(a)) /\ Leaves(b) = NumOut * Cardinality(E(b))
  BY Zenon DEF Leaves
<1> HIDE DEF E
<1>3. IsFiniteSet(E(b))
  <2>1. IsFiniteSet(1 .. b)
    BY FS_Interval
  <2> QED BY <1>1, <2>1, FS_Subset, Zenon
<1>4. IsFiniteSet(E(a)) /\ Cardinality(E(a)) <= Cardinality(E(b))
  BY <1>1, <1>3, FS_Subset, Zenon
<1>5. Cardinality(E(a)) \in Nat /\ Cardinality(E(b)) \in Nat /\ NumOut \in Nat
  BY <1>3, <1>4, FS_CardinalityType, WalletAssumption, Zenon
<1>6. \A k, m, n \in Nat : m <= n => k * m <= k * n
  OBVIOUS
<1> QED BY <1>2, <1>4, <1>5, <1>6, Zenon

\* The leaves of a block are those between the counts before and after it.
LEMMA LeafIsBetween ==
  ASSUME ChainInv, NEW b \in 1 .. Len(chain), chain[b].event, NEW i \in 1 .. NumOut
  PROVE  /\ Leaf(b, i) = Leaves(b - 1) + i - 1
         /\ Leaf(b, i) \in Nat /\ Leaves(b - 1) <= Leaf(b, i) /\ Leaf(b, i) < Leaves(b)
<1>1. /\ Leaves(b) = Leaves(b - 1) + NumOut
      /\ Leaves(b) \in Nat /\ Leaves(b - 1) \in Nat /\ NumOut \in Nat
  <2>1. b - 1 \in 0 .. Len(chain) /\ b \in 0 .. Len(chain) /\ b > 0
    BY DEF ChainInv
  <2> QED BY <2>1, LeavesCount, WalletAssumption, Zenon
<1> QED BY <1>1 DEF Leaf

\* Unions over the blocks, one block at a time.
LEMMA UpToNext ==
  ASSUME NEW b \in Nat
  PROVE  /\ MineUpTo(b + 1) = MineUpTo(b) \cup Mine(b + 1)
         /\ SpentUpTo(b + 1) = SpentUpTo(b) \cup chain[b + 1].spends
         /\ MineUpTo(0) = {} /\ SpentUpTo(0) = {}
<1>1. 1 .. b + 1 = (1 .. b) \cup {b + 1} /\ 1 .. 0 = {}
  OBVIOUS
<1>2. MineUpTo(b + 1) = MineUpTo(b) \cup Mine(b + 1) /\ MineUpTo(0) = {}
  BY <1>1, Zenon DEF MineUpTo
<1>3. SpentUpTo(b + 1) = SpentUpTo(b) \cup chain[b + 1].spends /\ SpentUpTo(0) = {}
  BY <1>1, Zenon DEF SpentUpTo
<1> QED BY <1>2, <1>3, Zenon

\* A block without an event has no notes of ours.
LEMMA BlockOf ==
  ASSUME ChainInv, NEW b \in 1 .. Len(chain)
  PROVE  /\ chain[b] \in Blocks
         /\ chain[b].mine \subseteq 1 .. NumOut /\ chain[b].event \in BOOLEAN
         /\ ~chain[b].event => Mine(b) = {} /\ chain[b].spends = {}
<1>1. chain[b] \in Blocks
  BY DEF ChainInv
<1>2. ~chain[b].event => chain[b].mine = {} /\ chain[b].spends = {}
  BY Zenon DEF ChainInv
<1>3. chain[b].mine = {} => Mine(b) = {}
  BY Zenon DEF Mine
<1>4. chain[b].mine \subseteq 1 .. NumOut /\ chain[b].event \in BOOLEAN
  BY <1>1, Zenon DEF Blocks
<1> QED BY <1>1, <1>2, <1>3, <1>4, Zenon

\* Blocks without events change nothing.
LEMMA QuietBlocks ==
  ASSUME ChainInv, NEW a \in 0 .. Len(chain), NEW b \in a .. Len(chain),
         \A c \in a + 1 .. b : ~chain[c].event
  PROVE  MineUpTo(b) = MineUpTo(a) /\ SpentUpTo(b) = SpentUpTo(a) /\ Leaves(b) = Leaves(a)
<1>1. /\ 1 .. a \subseteq 1 .. b
      /\ \A c \in (1 .. b) \ (1 .. a) : c \in a + 1 .. b /\ c \in 1 .. Len(chain)
  OBVIOUS
<1>2. \A c \in (1 .. b) \ (1 .. a) :
        ~chain[c].event /\ Mine(c) = {} /\ chain[c].spends = {}
  BY <1>1, BlockOf, Zenon
<1>3. MineUpTo(b) = MineUpTo(a)
  BY <1>1, <1>2, Zenon DEF MineUpTo
<1>4. SpentUpTo(b) = SpentUpTo(a)
  BY <1>1, <1>2, Zenon DEF SpentUpTo
<1>5. {d \in 1 .. b : chain[d].event} = {d \in 1 .. a : chain[d].event}
  BY <1>1, <1>2, Zenon
<1> QED BY <1>3, <1>4, <1>5, Zenon DEF Leaves

\* Our notes are leaves of the blocks so far.
LEMMA MineBelow ==
  ASSUME ChainInv, NEW b \in 0 .. Len(chain), NEW n \in MineUpTo(b)
  PROVE  n \in Nat /\ n < Leaves(b)
<1>1. PICK c \in 1 .. b : n \in Mine(c)
  BY Zenon DEF MineUpTo
<1>2. PICK i \in chain[c].mine : n = Leaf(c, i)
  BY <1>1, Zenon DEF Mine
<1>3. c \in 1 .. Len(chain) /\ c \in 0 .. Len(chain) /\ b \in c .. Len(chain)
  BY DEF ChainInv
<1>4. chain[c].event /\ i \in 1 .. NumOut
  BY <1>1, <1>2, <1>3, BlockOf, Zenon
<1>5. n \in Nat /\ n < Leaves(c)
  BY <1>2, <1>3, <1>4, LeafIsBetween, Zenon
<1>6. Leaves(c) <= Leaves(b) /\ Leaves(c) \in Nat /\ Leaves(b) \in Nat
  BY <1>3, LeavesMonotonic, LeavesCount, Zenon
<1> QED BY <1>5, <1>6

\* Only our notes are spent.
LEMMA SpentAreMine ==
  ASSUME ChainInv, NEW b \in 0 .. Len(chain)
  PROVE  SpentUpTo(b) \subseteq MineUpTo(b)
<1> SUFFICES ASSUME NEW n \in SpentUpTo(b) PROVE n \in MineUpTo(b)
  BY Zenon
<1>1. PICK c \in 1 .. b : n \in chain[c].spends
  BY Zenon DEF SpentUpTo
<1>2. c \in 1 .. Len(chain) /\ 1 .. c - 1 \subseteq 1 .. b
  BY DEF ChainInv
<1>3. n \in MineUpTo(c - 1)
  BY <1>1, <1>2, Zenon DEF ChainInv
<1> QED BY <1>2, <1>3, Zenon DEF MineUpTo
-----------------------------------------------------------------------------
\* The event that is being processed.
LEMMA CurrentIsFirst ==
  ASSUME ChainInv, RangeInv, wpc = "receive"
  PROVE  /\ Current \in queue /\ \A b \in queue : Current <= b
         /\ Current \in 1 .. start - 1 /\ Current \in 1 .. Len(chain)
         /\ chain[Current].event /\ start - 1 \in Current .. Len(chain)
<1>1. /\ queue \subseteq 1 .. start - 1 /\ queue # {} /\ \A b \in queue : chain[b].event
      /\ start \in Nat /\ end \in Nat /\ start <= end + 1 /\ end <= Len(chain)
      /\ Len(chain) \in Nat
  BY DEF RangeInv, ChainInv
<1>2. queue \subseteq Nat
  BY <1>1
<1>3. Current \in queue /\ \A b \in queue : Current <= b
  BY <1>1, <1>2, MinIsLeast, Zenon DEF Current
<1> QED BY <1>1, <1>3

\* A new block leaves the invariant.
LEMMA NewBlockKeepsLossInv ==
  ASSUME LossInv, NewBlock
  PROVE  LossInv'
<1> DEFINE n == Len(chain)
<1>1. ChainInv /\ RangeInv /\ HeldInv
  BY Zenon DEF LossInv
<1>2. PICK blk : /\ chain' = Append(chain, blk) /\ blk.spends \subseteq MineUpTo(n) \ SpentUpTo(n)
                 /\ blk \in Blocks
                 /\ ~blk.event => blk.mine = {} /\ blk.spends = {}
  <2>1. \A S \in SUBSET (MineUpTo(n) \ SpentUpTo(n)) : S \in SUBSET Nat
    <3>1. n \in 0 .. Len(chain)
      BY <1>1 DEF ChainInv
    <3> QED BY <1>1, <3>1, MineBelow, Zenon
  <2>2. \/ \E insert \in BOOLEAN :
             chain' = Append(chain, [event |-> FALSE, insert |-> insert, mine |-> {}, spends |-> {}])
        \/ \E mine \in SUBSET (1 .. NumOut),
              spends \in SUBSET (MineUpTo(n) \ SpentUpTo(n)) :
             chain' = Append(chain, [event |-> TRUE, insert |-> FALSE, mine |-> mine, spends |-> spends])
    BY Zenon DEF NewBlock
  <2>3. CASE \E insert \in BOOLEAN :
               chain' = Append(chain, [event |-> FALSE, insert |-> insert, mine |-> {}, spends |-> {}])
    <3>0. PICK insert \in BOOLEAN :
            chain' = Append(chain, [event |-> FALSE, insert |-> insert, mine |-> {}, spends |-> {}])
      BY <2>3, Zenon
    <3> DEFINE e == [event |-> FALSE, insert |-> insert, mine |-> {}, spends |-> {}]
    <3>1. e \in Blocks /\ e.mine = {} /\ e.spends = {}
      BY Zenon DEF Blocks
    <3> HIDE DEF e
    <3>2. e.spends \subseteq MineUpTo(n) \ SpentUpTo(n) /\ chain' = Append(chain, e)
      BY <3>0, <3>1, Zenon DEF e
    <3> QED BY <3>1, <3>2, Zenon
  <2>4. CASE \E mine \in SUBSET (1 .. NumOut),
                spends \in SUBSET (MineUpTo(n) \ SpentUpTo(n)) :
               chain' = Append(chain, [event |-> TRUE, insert |-> FALSE, mine |-> mine, spends |-> spends])
    <3>1. PICK mine \in SUBSET (1 .. NumOut),
               spends \in SUBSET (MineUpTo(n) \ SpentUpTo(n)) :
            chain' = Append(chain, [event |-> TRUE, insert |-> FALSE, mine |-> mine, spends |-> spends])
      BY <2>4, Zenon
    <3> DEFINE e == [event |-> TRUE, insert |-> FALSE, mine |-> mine, spends |-> spends]
    <3>2. e \in Blocks /\ e.spends = spends /\ e.event
      BY <2>1, Zenon DEF Blocks
    <3>3. chain' = Append(chain, e)
      BY <3>1, Zenon
    <3> HIDE DEF e
    <3> QED BY <3>2, <3>3, Zenon
  <2> QED BY <2>2, <2>3, <2>4, Zenon
<1>3. /\ n \in Nat /\ Len(chain') = n + 1 /\ chain' \in Seq(Blocks)
      /\ \A c \in 1 .. n : chain'[c] = chain[c]
      /\ chain'[n + 1] = blk
  BY <1>1, <1>2 DEF ChainInv
<1>4. \A b \in 0 .. n : /\ MineUpTo(b)' = MineUpTo(b) /\ SpentUpTo(b)' = SpentUpTo(b)
                        /\ b > 0 => \A k : MineSoFar(b, k)' = MineSoFar(b, k)
  BY <1>3, PastFixed
<1>5. UNCHANGED <<wpc, memVars, fileVars, crashes>>
  BY Zenon DEF NewBlock
<1> HIDE DEF n
<1>6. ChainInv'
  <2> SUFFICES ASSUME NEW b \in 1 .. n + 1
               PROVE  /\ ~chain'[b].event => chain'[b].mine = {} /\ chain'[b].spends = {}
                      /\ chain'[b].spends \subseteq MineUpTo(b - 1)' \ SpentUpTo(b - 1)'
    BY <1>3, Zenon DEF ChainInv
  <2>1. CASE b = n + 1
    <3>1. b - 1 = n /\ b - 1 \in 0 .. n
      BY <1>3, <2>1
    <3>2. MineUpTo(b - 1)' = MineUpTo(b - 1) /\ SpentUpTo(b - 1)' = SpentUpTo(b - 1)
      BY <1>4, <3>1, Zenon
    <3> QED BY <1>2, <1>3, <2>1, <3>1, <3>2, Zenon
  <2>2. CASE b \in 1 .. n
    <3>1. MineUpTo(b - 1)' = MineUpTo(b - 1) /\ SpentUpTo(b - 1)' = SpentUpTo(b - 1)
      BY <1>3, <1>4, <2>2
    <3> QED BY <1>1, <1>3, <2>2, <3>1, Zenon DEF ChainInv, n
  <2> QED BY <1>3, <2>1, <2>2
<1>7. Current' = Current /\ Held' = Held
  BY <1>5, Zenon DEF Current, Held, memVars, fileVars
<1>8. RangeInv'
  <2>1. /\ next' = next /\ start' = start /\ end' = end /\ pos' = pos /\ queue' = queue
        /\ wpc' = wpc
    BY <1>5, Zenon DEF memVars
  <2>2. wpc = "receive" => 1 .. start - 1 \subseteq 1 .. n /\ Current .. start - 1 \subseteq 1 .. n
    BY <1>1, <1>3, CurrentIsFirst DEF n
  <2>3. Len(chain)' = n + 1 /\ Len(chain) = n
    BY <1>3, Zenon DEF n
  <2>4. /\ next \in Nat \ {0} /\ next <= n + 1
        /\ wpc \in {"fetch", "receive"} =>
             start \in Nat \ {0} /\ end \in Nat /\ start <= end + 1 /\ end <= n
        /\ wpc = "receive" =>
             /\ queue # {} /\ pos \in 0 .. NumOut
             /\ queue \subseteq {b \in 1 .. start - 1 : chain[b].event}
             /\ \A b \in Current .. start - 1 : chain[b].event => b \in queue
    BY <1>1, <2>3, Zenon DEF RangeInv
  <2>5. next <= (n + 1) + 1 /\ (wpc \in {"fetch", "receive"} => end <= n + 1)
    BY <1>3, <2>4
  <2>6. wpc = "receive" => /\ queue \subseteq {b \in 1 .. start - 1 : chain'[b].event}
                           /\ \A b \in Current .. start - 1 : chain'[b].event => b \in queue
    BY <1>3, <2>2, <2>4, Zenon
  <2> QED BY <1>7, <2>1, <2>3, <2>4, <2>5, <2>6, Zenon DEF RangeInv
<1>9. HeldInv'
  <2>1. next' = next /\ start' = start /\ wpc' = wpc /\ stateFile' = stateFile /\ pos' = pos
    BY <1>5, Zenon DEF memVars, fileVars
  <2>2. ASSUME NEW t \in stateFile' \ {Torn}
        PROVE  /\ t[1] \in Nat \ {0} /\ t[1] <= Len(chain)' + 1
               /\ MineUpTo(t[1] - 1)' \subseteq Held'
    <3>1. t[1] \in Nat \ {0} /\ t[1] <= n + 1 /\ MineUpTo(t[1] - 1) \subseteq Held
      BY <1>1, <2>1, Zenon DEF HeldInv, n
    <3>2. t[1] - 1 \in 0 .. n
      BY <1>3, <3>1
    <3> QED BY <1>3, <1>4, <1>7, <3>1, <3>2
  <2>3. wpc # "off" => MineUpTo(next - 1)' \subseteq Held'
    <3>1. next - 1 \in 0 .. n
      BY <1>1, <1>3 DEF RangeInv, n
    <3> QED BY <1>1, <1>4, <1>7, <2>1, <3>1, Zenon DEF HeldInv
  <2>4. wpc = "fetch" => MineUpTo(start - 1)' \subseteq Held'
    <3>1. wpc = "fetch" => start - 1 \in 0 .. n
      BY <1>1, <1>3 DEF RangeInv, n
    <3> QED BY <1>1, <1>4, <1>7, <2>1, <3>1, Zenon DEF HeldInv
  <2>5. wpc = "receive" =>
          (MineUpTo(Current - 1) \cup MineSoFar(Current, pos))' \subseteq Held'
    <3>1. wpc = "receive" => Current - 1 \in 0 .. n /\ Current \in 1 .. n
      BY <1>1, <1>3, CurrentIsFirst DEF n
    <3> QED BY <1>1, <1>4, <1>7, <2>1, <3>1 DEF HeldInv
  <2> QED BY <2>1, <2>2, <2>3, <2>4, <2>5, Zenon DEF HeldInv
<1> QED BY <1>6, <1>8, <1>9, Zenon DEF LossInv

\* A step that leaves the chain alone leaves ChainInv.
LEMMA ChainKept ==
  ASSUME ChainInv, chain' = chain
  PROVE  ChainInv'
<1>1. \A b : MineUpTo(b)' = MineUpTo(b) /\ SpentUpTo(b)' = SpentUpTo(b)
  BY SameChain, Zenon
<1> QED BY <1>1, Zenon DEF ChainInv

\* A batch is fetched: the blocks before its first event are quiet.
LEMMA FetchedBatch ==
  ASSUME ChainInv, RangeInv, Fetch
  PROVE  /\ RangeInv'
         /\ start - 1 \in 0 .. Len(chain) /\ pos' = 0 /\ chain' = chain
         /\ wpc' = "fetch" =>
              /\ start' - 1 \in start - 1 .. Len(chain)
              /\ \A c \in start .. start' - 1 : ~chain[c].event
         /\ wpc' # "fetch" =>
              /\ wpc' = "receive"
              /\ Current' \in 1 .. Len(chain) /\ Current' - 1 \in start - 1 .. Len(chain)
              /\ \A c \in start .. Current' - 1 : ~chain[c].event
<1> DEFINE to == IF start + BatchSize - 1 < end THEN start + BatchSize - 1 ELSE end
<1>1. /\ queue' = {c \in start .. to : chain[c].event} /\ start' = to + 1
      /\ start <= end /\ pos' = 0
      /\ wpc' = IF queue' = {} THEN "fetch" ELSE "receive"
      /\ next' = next /\ end' = end /\ chain' = chain
  BY Zenon DEF Fetch
<1>2. /\ start \in Nat \ {0} /\ end \in Nat /\ end <= Len(chain) /\ Len(chain) \in Nat
      /\ next \in Nat \ {0} /\ next <= Len(chain) + 1
  BY DEF RangeInv, ChainInv, Fetch
<1>3. to \in start .. end /\ NumOut \in Nat
  BY <1>1, <1>2, WalletAssumption
<1> HIDE DEF to
<1>4. start' \in Nat \ {0} /\ start' <= end + 1 /\ start' - 1 = to
  BY <1>1, <1>2, <1>3
<1>5. CASE queue' = {}
  <2>1. wpc' = "fetch" /\ \A c \in start .. to : ~chain[c].event
    BY <1>1, <1>5, Zenon
  <2>2. RangeInv'
    BY <1>1, <1>2, <1>4, <2>1, Zenon DEF RangeInv
  <2> QED BY <1>1, <1>2, <1>3, <1>4, <2>1, <2>2
<1>6. CASE queue' # {}
  <2>1. wpc' = "receive"
    BY <1>1, <1>6, Zenon
  <2>2. queue' \subseteq Nat
    BY <1>1, <1>2
  <2> DEFINE cur == Current'
  <2>3. cur \in queue' /\ \A c \in queue' : cur <= c
    BY <1>6, <2>2, MinIsLeast, Zenon DEF Current
  <2> HIDE DEF cur
  <2>4. cur \in start .. to
    BY <1>1, <2>3, Zenon
  <2>7. start \in Int /\ to \in Int /\ cur \in Int /\ start <= cur /\ cur <= to
    BY <1>2, <1>3, <2>4
  <2>5. \A c \in start .. cur - 1 : ~chain[c].event
    <3> SUFFICES ASSUME NEW c \in start .. cur - 1, chain[c].event PROVE FALSE
      BY Zenon
    <3>1. c \in start .. to /\ ~(cur <= c)
      BY <2>7
    <3> QED BY <1>1, <2>3, <3>1, Zenon
  <2>6. RangeInv'
    <3>1. queue' \subseteq {c \in 1 .. start' - 1 : chain'[c].event}
      BY <1>1, <1>2, <1>3, <1>4
    <3>2. \A c \in cur .. start' - 1 : chain'[c].event => c \in queue'
      BY <1>1, <1>2, <1>3, <1>4, <2>4
    <3>3. pos' \in 0 .. NumOut
      BY <1>1, <1>3
    <3>4. next' \in Nat \ {0} /\ next' <= Len(chain') + 1
      BY <1>1, <1>2, Zenon
    <3>5. start' <= end' + 1 /\ end' <= Len(chain') /\ end' \in Nat
      BY <1>1, <1>2, <1>4, Zenon
    <3> QED BY <1>4, <1>6, <2>1, <3>1, <3>2, <3>3, <3>4, <3>5, Zenon DEF RangeInv, cur
  <2>8. start - 1 \in 0 .. Len(chain)
    BY <1>1, <1>2
  <2>9. cur \in 1 .. Len(chain) /\ cur - 1 \in start - 1 .. Len(chain)
    <3>1. to <= Len(chain) /\ Len(chain) \in Int /\ start >= 1
      BY <1>2, <1>3
    <3> QED BY <2>7, <3>1
  <2> QED BY <1>1, <2>1, <2>5, <2>6, <2>8, <2>9, Zenon DEF cur
<1> QED BY <1>5, <1>6, Zenon

\* The next event, or the end of the batch: what is between is quiet.
LEMMA EventDone ==
  ASSUME ChainInv, RangeInv, NextEvent
  PROVE  /\ RangeInv'
         /\ Current \in 1 .. Len(chain) /\ pos' = 0 /\ chain' = chain
         /\ wpc' = "fetch" =>
              /\ start' - 1 \in Current .. Len(chain)
              /\ \A c \in Current + 1 .. start' - 1 : ~chain[c].event
         /\ wpc' # "fetch" =>
              /\ wpc' = "receive"
              /\ Current' \in 1 .. Len(chain) /\ Current' - 1 \in Current .. Len(chain)
              /\ \A c \in Current + 1 .. Current' - 1 : ~chain[c].event
<1>1. /\ wpc = "receive" /\ queue' = queue \ {Current} /\ pos' = 0
      /\ wpc' = IF queue' = {} THEN "fetch" ELSE "receive"
      /\ next' = next /\ start' = start /\ end' = end /\ chain' = chain
  BY Zenon DEF NextEvent
<1>2. /\ start \in Nat \ {0} /\ end \in Nat /\ start <= end + 1 /\ end <= Len(chain)
      /\ Len(chain) \in Nat /\ next \in Nat \ {0} /\ next <= Len(chain) + 1
      /\ queue \subseteq {c \in 1 .. start - 1 : chain[c].event}
      /\ \A c \in Current .. start - 1 : chain[c].event => c \in queue
  BY <1>1 DEF RangeInv, ChainInv
<1>3. /\ Current \in queue /\ \A c \in queue : Current <= c
      /\ Current \in 1 .. start - 1 /\ Current \in 1 .. Len(chain)
      /\ start - 1 \in Current .. Len(chain)
  BY <1>1, CurrentIsFirst, Zenon
<1>4. NumOut \in Nat
  BY WalletAssumption, Zenon
<1>5. ASSUME NEW c \in Current + 1 .. start - 1, chain[c].event PROVE c \in queue'
  BY <1>1, <1>2, <1>3, <1>5
<1>6. CASE queue' = {}
  <2>1. wpc' = "fetch" /\ \A c \in Current + 1 .. start - 1 : ~chain[c].event
    BY <1>1, <1>5, <1>6, Zenon
  <2>2. RangeInv'
    BY <1>1, <1>2, <2>1, Zenon DEF RangeInv
  <2> QED BY <1>1, <1>3, <2>1, <2>2, Zenon
<1>7. CASE queue' # {}
  <2>1. wpc' = "receive"
    BY <1>1, <1>7, Zenon
  <2>2. queue' \subseteq Nat
    <3>1. 1 .. start - 1 \subseteq Nat
      BY <1>2
    <3> QED BY <1>1, <1>2, <3>1, Zenon
  <2> DEFINE cur == Current'
  <2>3. cur \in queue' /\ \A c \in queue' : cur <= c
    BY <1>7, <2>2, MinIsLeast, Zenon DEF Current
  <2> HIDE DEF cur
  <2>4. cur \in Current + 1 .. start - 1
    <3>1. cur \in queue /\ cur # Current
      BY <1>1, <2>3, Zenon
    <3>2. cur \in 1 .. start - 1 /\ Current <= cur
      BY <1>2, <1>3, <3>1, Zenon
    <3>3. start \in Int /\ Current \in Int
      BY <1>2, <1>3
    <3> QED BY <3>1, <3>2, <3>3
  <2>7. /\ start \in Int /\ cur \in Int /\ Current \in Int
        /\ 1 <= Current /\ Current + 1 <= cur /\ cur <= start - 1
    BY <1>2, <1>3, <2>4
  <2>5. \A c \in Current + 1 .. cur - 1 : ~chain[c].event
    <3> SUFFICES ASSUME NEW c \in Current + 1 .. cur - 1, chain[c].event PROVE FALSE
      BY Zenon
    <3>1. c \in Current + 1 .. start - 1 /\ ~(cur <= c)
      BY <2>7
    <3> QED BY <1>5, <2>3, <3>1, Zenon
  <2>6. RangeInv'
    <3>1. queue' \subseteq {c \in 1 .. start' - 1 : chain'[c].event}
      BY <1>1, <1>2, Zenon
    <3>2. \A c \in cur .. start' - 1 : chain'[c].event => c \in queue'
      <4>1. \A c \in cur .. start - 1 : c \in Current + 1 .. start - 1
        BY <2>7
      <4> QED BY <1>1, <1>5, <4>1, Zenon
    <3>3. pos' \in 0 .. NumOut
      BY <1>1, <1>4
    <3>4. next' \in Nat \ {0} /\ next' <= Len(chain') + 1
      BY <1>1, <1>2, Zenon
    <3>5. start' \in Nat \ {0} /\ start' <= end' + 1 /\ end' <= Len(chain') /\ end' \in Nat
      BY <1>1, <1>2, Zenon
    <3> QED BY <1>7, <2>1, <3>1, <3>2, <3>3, <3>4, <3>5, Zenon DEF RangeInv, cur
  <2>8. cur \in 1 .. Len(chain) /\ cur - 1 \in Current .. Len(chain)
    <3>1. start - 1 <= Len(chain) /\ Len(chain) \in Int
      BY <1>2
    <3> QED BY <2>7, <3>1
  <2> QED BY <1>1, <1>3, <2>1, <2>5, <2>6, <2>8, Zenon DEF cur
<1> QED BY <1>6, <1>7, Zenon

\* No output of an event has been processed at its beginning, all at its end.
LEMMA SoFarEnds ==
  ASSUME ChainInv, NEW b \in 1 .. Len(chain)
  PROVE  MineSoFar(b, 0) = {} /\ MineSoFar(b, NumOut) = Mine(b)
<1>1. chain[b].mine \subseteq 1 .. NumOut
  BY BlockOf, Zenon
<1>2. /\ {i \in chain[b].mine : i <= 0} = {}
      /\ {i \in chain[b].mine : i <= NumOut} = chain[b].mine
  BY <1>1, WalletAssumption
<1> QED BY <1>2, Zenon DEF MineSoFar, Mine

\* The events of block b complete those before it.
LEMMA UpToThis ==
  ASSUME ChainInv, NEW b \in 1 .. Len(chain)
  PROVE  /\ b - 1 \in 0 .. Len(chain)
         /\ MineUpTo(b) = MineUpTo(b - 1) \cup Mine(b)
         /\ SpentUpTo(b) = SpentUpTo(b - 1) \cup chain[b].spends
<1>1. b - 1 \in Nat /\ (b - 1) + 1 = b /\ b - 1 \in 0 .. Len(chain)
  BY DEF ChainInv
<1> DEFINE a == b - 1
<1>2. a \in Nat /\ a + 1 = b
  BY <1>1, Zenon
<1> HIDE DEF a
<1>3. MineUpTo(b) = MineUpTo(a) \cup Mine(b) /\ SpentUpTo(b) = SpentUpTo(a) \cup chain[b].spends
  BY <1>2, UpToNext, Zenon
<1> QED BY <1>1, <1>3, Zenon DEF a

\* Every step keeps the ranges.
LEMMA RangeKept ==
  ASSUME LossInv, Next, ~NewBlock
  PROVE  RangeInv' /\ chain' = chain
<1>1. ChainInv /\ RangeInv /\ HeldInv
  BY Zenon DEF LossInv
<1>2. Len(chain) \in Nat /\ next \in Nat \ {0} /\ next <= Len(chain) + 1
  BY <1>1 DEF ChainInv, RangeInv
<1>3. CASE Open
  <2>1. next' = 1 \/ \E t \in stateFile \ {Torn} : next' = t[1]
    BY <1>3, Zenon DEF Open
  <2>2. next' \in Nat \ {0} /\ next' <= Len(chain) + 1
    BY <1>1, <1>2, <2>1 DEF HeldInv
  <2> QED BY <1>3, <2>2, Zenon DEF Open, RangeInv
<1>4. CASE Sync
  BY <1>2, <1>4 DEF Sync, RangeInv
<1>5. CASE Fetch
  BY <1>1, <1>5, FetchedBatch, Zenon
<1>6. CASE Receive
  <2>1. /\ wpc' = wpc /\ next' = next /\ start' = start /\ end' = end /\ queue' = queue
        /\ pos' = pos + 1 /\ pos < NumOut /\ wpc = "receive" /\ chain' = chain
        /\ Current' = Current
    BY <1>6, Zenon DEF Receive, Current
  <2>2. pos \in 0 .. NumOut /\ NumOut \in Nat
    BY <1>1, <2>1, WalletAssumption, Zenon DEF RangeInv
  <2>3. pos' \in 0 .. NumOut
    BY <2>1, <2>2
  <2> QED BY <1>1, <2>1, <2>3, Zenon DEF RangeInv
<1>7. CASE MarkSpent
  <2>1. /\ wpc' \in {wpc, "failed"} /\ next' = next /\ start' = start /\ end' = end
        /\ queue' = queue /\ pos' = pos /\ chain' = chain /\ Current' = Current
    BY <1>7, Zenon DEF MarkSpent, Current
  <2> QED BY <1>1, <2>1, Zenon DEF RangeInv
<1>8. CASE NextEvent
  BY <1>1, <1>8, EventDone, Zenon
<1>9. CASE OpenState
  <2>1. end \in Nat /\ end <= Len(chain)
    BY <1>1, <1>9, Zenon DEF OpenState, RangeInv
  <2> QED BY <1>2, <1>9, <2>1 DEF OpenState, RangeInv
<1>10. CASE WriteState \/ OpenTree \/ WriteTree \/ Check
  <2>1. wpc' \notin {"fetch", "receive"} /\ next' = next /\ chain' = chain
    BY <1>10, Zenon DEF WriteState, OpenTree, WriteTree, Check, memVars
  <2> QED BY <1>2, <2>1, Zenon DEF RangeInv
<1>11. CASE Exit \/ Crash
  <2>1. wpc' = "off" /\ next' = 1 /\ chain' = chain
    BY <1>11, Zenon DEF Exit, Crash, Forget
  <2> QED BY <1>2, <2>1 DEF RangeInv
<1> QED BY <1>3, <1>4, <1>5, <1>6, <1>7, <1>8, <1>9, <1>10, <1>11, Zenon DEF Next, SyncStep

\* No step takes a note out of the files.
LEMMA HeldGrows ==
  ASSUME Next
  PROVE  Held \subseteq Held'
<1>1. CASE Receive
  BY <1>1, Zenon DEF Receive, Held
<1>2. CASE MarkSpent
  <2>1. notes' \cup spent' = notes \cup spent
    BY <1>2, Zenon DEF MarkSpent, NoteFiles
  <2> QED BY <2>1, Zenon DEF Held
<1>3. CASE notes' = notes /\ spent' = spent
  BY <1>3, Zenon DEF Held
<1>4. CASE NewBlock \/ Open \/ Sync \/ Fetch \/ NextEvent
  <2>1. notes' = notes /\ spent' = spent
    BY <1>4, Zenon DEF NewBlock, Open, Sync, Fetch, NextEvent, fileVars
  <2> QED BY <1>3, <2>1, Zenon
<1>5. CASE OpenState \/ WriteState \/ OpenTree \/ WriteTree \/ Check
  <2>1. notes' = notes /\ spent' = spent
    BY <1>5, Zenon DEF OpenState, WriteState, OpenTree, WriteTree, Check, fileVars
  <2> QED BY <1>3, <2>1
<1>6. CASE Exit \/ Crash
  <2>1. notes' = notes /\ spent' = spent
    BY <1>6, Zenon DEF Exit, Crash, Forget, fileVars
  <2> QED BY <1>3, <2>1
<1> QED BY <1>1, <1>2, <1>4, <1>5, <1>6, Zenon DEF Next, SyncStep

\* Every step keeps the notes of the blocks that were processed in files.
LEMMA HeldKept ==
  ASSUME LossInv, Next, ~NewBlock
  PROVE  HeldInv'
<1>1. ChainInv /\ RangeInv /\ HeldInv
  BY DEF LossInv
<1>2. RangeInv' /\ chain' = chain /\ Held \subseteq Held'
  BY RangeKept, HeldGrows, Zenon
<1>3. \A c : MineUpTo(c)' = MineUpTo(c) /\ \A k : MineSoFar(c, k)' = MineSoFar(c, k)
  BY <1>2, SameChain, Zenon
<1>4. Len(chain) \in Nat /\ next \in Nat \ {0} /\ next <= Len(chain) + 1 /\ MineUpTo(0) = {}
  BY <1>1, UpToNext DEF ChainInv, RangeInv
<1> DEFINE Saved == \A t \in stateFile \ {Torn} :
                      /\ t[1] \in Nat \ {0} /\ t[1] <= Len(chain) + 1
                      /\ MineUpTo(t[1] - 1) \subseteq Held
           Loaded == wpc # "off" => MineUpTo(next - 1) \subseteq Held
           Fetched == wpc = "fetch" => MineUpTo(start - 1) \subseteq Held
           Received == wpc = "receive" =>
                         MineUpTo(Current - 1) \cup MineSoFar(Current, pos) \subseteq Held
<1>5. HeldInv' = (Saved /\ Loaded /\ Fetched /\ Received)' /\ Saved /\ Loaded /\ Fetched /\ Received
  BY <1>1, Zenon DEF HeldInv
<1>6. ASSUME stateFile' = stateFile \/ stateFile' = {Torn} PROVE Saved'
  BY <1>2, <1>3, <1>5, <1>6, Zenon
<1>7. ASSUME next' = next, wpc # "off" PROVE Loaded'
  BY <1>2, <1>3, <1>5, <1>7, Zenon
<1>8. CASE Open
  <2>1. wpc' = "ready" /\ stateFile' = stateFile
    BY <1>8, Zenon DEF Open, fileVars
  <2>2. next' = 1 \/ \E t \in stateFile \ {Torn} : next' = t[1]
    BY <1>8, Zenon DEF Open
  <2>3. MineUpTo(next' - 1) \subseteq Held
    BY <1>4, <1>5, <2>2
  <2>4. Loaded'
    BY <1>2, <1>3, <2>3, Zenon
  <2> QED BY <1>5, <1>6, <2>1, <2>4, Zenon
<1>9. CASE Sync
  <2>1. wpc' = "fetch" /\ wpc = "ready" /\ stateFile' = stateFile /\ next' = next /\ start' = next
    BY <1>9, Zenon DEF Sync, fileVars
  <2>2. Fetched'
    BY <1>2, <1>3, <1>5, <2>1, Zenon
  <2> QED BY <1>5, <1>6, <1>7, <2>1, <2>2, Zenon
<1>10. CASE Fetch
  <2>1. wpc = "fetch" /\ stateFile' = stateFile /\ next' = next /\ pos' = 0
    BY <1>10, Zenon DEF Fetch, fileVars
  <2>4. (start - 1) + 1 = start
    BY <1>1, <2>1 DEF RangeInv
  <2>2. Fetched'
    <3>1. ASSUME wpc' = "fetch" PROVE MineUpTo(start' - 1) = MineUpTo(start - 1)
      <4> DEFINE a == start - 1
                 c == start' - 1
      <4>1. a \in 0 .. Len(chain) /\ c \in a .. Len(chain) /\ \A d \in a + 1 .. c : ~chain[d].event
        BY <1>1, <1>10, <2>4, <3>1, FetchedBatch, Zenon
      <4> HIDE DEF a, c
      <4>2. MineUpTo(c) = MineUpTo(a)
        BY <1>1, <4>1, QuietBlocks, Zenon
      <4> QED BY <4>2, Zenon DEF a, c
    <3> QED BY <1>2, <1>3, <1>5, <2>1, <3>1, Zenon
  <2>3. Received'
    <3>1. ASSUME wpc' = "receive"
          PROVE  MineUpTo(Current' - 1) = MineUpTo(start - 1) /\ MineSoFar(Current', 0) = {}
      <4> DEFINE a == start - 1
                 c == Current' - 1
                 cur == Current'
      <4>1. /\ a \in 0 .. Len(chain) /\ c \in a .. Len(chain) /\ \A d \in a + 1 .. c : ~chain[d].event
            /\ cur \in 1 .. Len(chain)
        BY <1>1, <1>10, <2>4, <3>1, FetchedBatch, Zenon
      <4> HIDE DEF a, c, cur
      <4>2. MineUpTo(c) = MineUpTo(a)
        BY <1>1, <4>1, QuietBlocks, Zenon
      <4>3. MineSoFar(cur, 0) = {}
        BY <1>1, <4>1, SoFarEnds, Zenon
      <4> QED BY <4>2, <4>3, Zenon DEF a, c, cur
    <3> QED BY <1>2, <1>3, <1>5, <2>1, <3>1, Zenon
  <2> QED BY <1>5, <1>6, <1>7, <2>1, <2>2, <2>3, Zenon
<1>11. CASE Receive
  <2>1. /\ wpc = "receive" /\ wpc' = wpc /\ stateFile' = stateFile /\ next' = next /\ pos' = pos + 1
        /\ queue' = queue
    BY <1>11, Zenon DEF Receive
  <2>5. Current' = Current
    BY <2>1, Zenon DEF Current
  <2>6. ASSUME Leaf(Current, pos + 1) \in Mine(Current)
        PROVE  Leaf(Current, pos + 1) \in Held'
    <3> DEFINE file == [note |-> Leaf(Current, pos + 1), addr |-> nextAddr]
    <3>1. file \in notes'
      BY <1>11, <2>6, Zenon DEF Receive
    <3>2. file.note = Leaf(Current, pos + 1)
      BY Zenon
    <3> HIDE DEF file
    <3> QED BY <3>1, <3>2, Zenon DEF Held
  <2>2. pos \in Nat
    BY <1>1, <2>1 DEF RangeInv
  <2>3. MineSoFar(Current, pos + 1) \subseteq Held'
    <3> SUFFICES ASSUME NEW i \in chain[Current].mine, i <= pos + 1
                 PROVE  Leaf(Current, i) \in Held'
      BY Zenon DEF MineSoFar
    <3>1. i \in Int
      BY <1>1, <2>1, CurrentIsFirst, BlockOf
    <3>2. CASE i <= pos
      <4>1. Leaf(Current, i) \in MineSoFar(Current, pos)
        BY <3>2, Zenon DEF MineSoFar
      <4> QED BY <1>2, <1>5, <2>1, <4>1, Zenon
    <3>3. CASE i = pos + 1
      BY <2>6, <3>3, Zenon DEF Mine
    <3> QED BY <2>2, <3>1, <3>2, <3>3
  <2>4. Received'
    BY <1>2, <1>3, <1>5, <2>1, <2>3, <2>5, Zenon
  <2> QED BY <1>5, <1>6, <1>7, <2>1, <2>4, Zenon
<1>12. CASE MarkSpent
  <2>1. /\ wpc = "receive" /\ wpc' \in {wpc, "failed"} /\ stateFile' = stateFile /\ next' = next
        /\ pos' = pos /\ Current' = Current
    BY <1>12, Zenon DEF MarkSpent, Current
  <2>2. Received'
    BY <1>2, <1>3, <1>5, <2>1, Zenon
  <2> QED BY <1>5, <1>6, <1>7, <2>1, <2>2, Zenon
<1>13. CASE NextEvent
  <2>1. /\ wpc = "receive" /\ stateFile' = stateFile /\ next' = next /\ pos = NumOut /\ pos' = 0
    BY <1>13, Zenon DEF NextEvent, fileVars
  <2>2. MineUpTo(Current) \subseteq Held
    <3> DEFINE cur == Current
    <3>1. cur \in 1 .. Len(chain)
      BY <1>1, <2>1, CurrentIsFirst, Zenon
    <3>2. MineUpTo(cur - 1) \cup MineSoFar(cur, NumOut) \subseteq Held
      BY <1>5, <2>1, Zenon
    <3> HIDE DEF cur
    <3>3. MineUpTo(cur) = MineUpTo(cur - 1) \cup Mine(cur) /\ MineSoFar(cur, NumOut) = Mine(cur)
      BY <1>1, <3>1, UpToThis, SoFarEnds, Zenon
    <3>4. MineUpTo(cur) \subseteq Held
      BY <3>2, <3>3, Zenon
    <3> QED BY <3>4, Zenon DEF cur
  <2>3. Fetched'
    <3>1. ASSUME wpc' = "fetch" PROVE MineUpTo(start' - 1) = MineUpTo(Current)
      <4> DEFINE a == Current
                 c == start' - 1
      <4>1. a \in 0 .. Len(chain) /\ c \in a .. Len(chain) /\ \A d \in a + 1 .. c : ~chain[d].event
        BY <1>1, <1>13, <3>1, EventDone
      <4> HIDE DEF a, c
      <4>2. MineUpTo(c) = MineUpTo(a)
        BY <1>1, <4>1, QuietBlocks
      <4> QED BY <4>2, Zenon DEF a, c
    <3> QED BY <1>2, <1>3, <2>2, <3>1, Zenon
  <2>4. Received'
    <3>1. ASSUME wpc' = "receive"
          PROVE  MineUpTo(Current' - 1) = MineUpTo(Current) /\ MineSoFar(Current', 0) = {}
      <4> DEFINE a == Current
                 c == Current' - 1
                 cur == Current'
      <4>1. /\ a \in 0 .. Len(chain) /\ c \in a .. Len(chain) /\ \A d \in a + 1 .. c : ~chain[d].event
            /\ cur \in 1 .. Len(chain)
        BY <1>1, <1>13, <3>1, EventDone
      <4> HIDE DEF a, c, cur
      <4>2. MineUpTo(c) = MineUpTo(a)
        BY <1>1, <4>1, QuietBlocks
      <4>3. MineSoFar(cur, 0) = {}
        BY <1>1, <4>1, SoFarEnds
      <4> QED BY <4>2, <4>3, Zenon DEF a, c, cur
    <3> QED BY <1>2, <1>3, <2>1, <2>2, <3>1, Zenon
  <2> QED BY <1>5, <1>6, <1>7, <2>1, <2>3, <2>4, Zenon
<1>14. CASE OpenState
  <2>1. /\ wpc = "fetch" /\ wpc' = "state" /\ stateFile' = {Torn} /\ next' = end + 1 /\ end < start
    BY <1>14, Zenon DEF OpenState
  <2>2. next' - 1 = start - 1
    BY <1>1, <2>1 DEF RangeInv
  <2>3. Loaded'
    BY <1>2, <1>3, <1>5, <2>1, <2>2, Zenon
  <2> QED BY <1>5, <1>6, <2>1, <2>3, Zenon
<1>15. CASE WriteState
  <2>1. /\ wpc = "state" /\ wpc' \in {"check", "tree"} /\ stateFile' = {<<next, map>>} /\ next' = next
    BY <1>15, Zenon DEF WriteState, memVars
  <2>2. MineUpTo(next - 1) \subseteq Held
    BY <1>5, <2>1, Zenon
  <2>3. Saved'
    BY <1>2, <1>3, <1>4, <2>1, <2>2
  <2> QED BY <1>5, <1>7, <2>1, <2>3, Zenon
<1>16. CASE OpenTree \/ WriteTree \/ Check
  <2>1. /\ wpc # "off" /\ wpc' \notin {"fetch", "receive"} /\ stateFile' = stateFile /\ next' = next
    BY <1>16, Zenon DEF OpenTree, WriteTree, Check, memVars, fileVars
  <2> QED BY <1>5, <1>6, <1>7, <2>1, Zenon
<1>17. CASE Exit \/ Crash
  <2>1. wpc' = "off" /\ stateFile' = stateFile
    BY <1>17, Zenon DEF Exit, Crash, Forget, fileVars
  <2> QED BY <1>5, <1>6, <2>1, Zenon
<1> QED BY <1>8, <1>9, <1>10, <1>11, <1>12, <1>13, <1>14, <1>15, <1>16, <1>17, Zenon DEF Next, SyncStep

\* An empty chain and no files satisfy the invariant.
LEMMA LossInit == Init => LossInv
<1> SUFFICES ASSUME Init PROVE LossInv
  BY Zenon
<1>1. chain = <<>> /\ Len(chain) = 0 /\ chain \in Seq(Blocks)
  BY DEF Init
<1>2. ChainInv
  BY <1>1 DEF ChainInv
<1>3. RangeInv
  BY <1>1 DEF Init, RangeInv
<1>4. HeldInv
  BY Zenon DEF Init, HeldInv
<1> QED BY <1>2, <1>3, <1>4, Zenon DEF LossInv

\* Every step, a crash among them, keeps it.
LEMMA LossInductive == LossInv /\ [Next]_vars => LossInv'
<1> SUFFICES ASSUME LossInv, [Next]_vars PROVE LossInv'
  BY Zenon
<1>1. CASE NewBlock
  BY <1>1, NewBlockKeepsLossInv, Zenon
<1>2. CASE Next /\ ~NewBlock
  <2>1. RangeInv' /\ chain' = chain /\ HeldInv'
    BY <1>2, RangeKept, HeldKept, Zenon
  <2>2. ChainInv'
    BY <2>1, ChainKept, Zenon DEF LossInv
  <2> QED BY <2>1, <2>2, Zenon DEF LossInv
<1>3. CASE UNCHANGED vars
  <2>1. chain' = chain /\ UNCHANGED <<wpc, memVars, fileVars>>
    BY <1>3, Zenon DEF vars
  <2>2. ChainInv'
    BY <2>1, ChainKept, Zenon DEF LossInv
  <2>3. Current' = Current /\ Held' = Held
    BY <2>1, Zenon DEF Current, Held, memVars, fileVars
  <2>4. RangeInv'
    BY <2>1, <2>3, Zenon DEF LossInv, RangeInv, memVars
  <2>5. HeldInv'
    <3>1. \A c : MineUpTo(c)' = MineUpTo(c) /\ \A k : MineSoFar(c, k)' = MineSoFar(c, k)
      BY <2>1, SameChain, Zenon
    <3> QED BY <2>1, <2>3, <3>1, Zenon DEF LossInv, HeldInv, memVars, fileVars
  <2> QED BY <2>2, <2>4, <2>5, Zenon DEF LossInv
<1> QED BY <1>1, <1>2, <1>3, Zenon

(* Whatever crashes there were, and in whichever of the writes of          *)
(* update_and_save_state, every note of ours in the blocks that the state  *)
(* file claims is in a note file: receive_notes (wallet.py) writes notes   *)
(* before the state that covers them.                                      *)
THEOREM NotesNeverLost == Spec => []NoNoteLost
<1>1. LossInv => NoNoteLost
  <2> SUFFICES ASSUME LossInv, NEW t \in stateFile \ {Torn}, NEW n \in MineUpTo(t[1] - 1)
               PROVE  \E f \in notes \cup spent : f.note = n
    BY Zenon DEF NoNoteLost
  <2>1. n \in Held
    BY Zenon DEF LossInv, HeldInv
  <2> QED BY <2>1, Zenon DEF Held
<1> QED BY <1>1, LossInit, LossInductive, PTL DEF Spec
-----------------------------------------------------------------------------
\* A tree in order, and one leaf more.
LEMMA InOrderAppend ==
  ASSUME NEW t, NEW n \in Nat, InOrder(t, n)
  PROVE  InOrder(Append(t, n), n + 1) /\ Len(t) = n
<1>1. t = [k \in 1 .. n |-> k - 1]
  BY Zenon DEF InOrder
<1>2. t \in Seq(Int) /\ Len(t) = n
  BY <1>1
<1>3. /\ Append(t, n) \in Seq(Int) /\ Len(Append(t, n)) = n + 1
      /\ \A k \in 1 .. n + 1 : Append(t, n)[k] = k - 1
  BY <1>1, <1>2
<1> DEFINE u == Append(t, n)
           m == n + 1
<1> HIDE DEF u, m
<1>4. u \in [1 .. m -> Int] /\ \A k \in 1 .. m : u[k] = k - 1
  <2>1. u \in Seq(Int) /\ Len(u) = m /\ \A k \in 1 .. m : u[k] = k - 1
    BY <1>3, Zenon DEF u, m
  <2> QED BY <2>1
<1>5. u = [k \in 1 .. m |-> k - 1]
  BY <1>4, Zenon
<1> QED BY <1>2, <1>5, Zenon DEF InOrder, u, m

\* The output after the first k is ours, or is not.
LEMMA SoFarNext ==
  ASSUME ChainInv, NEW b \in 1 .. Len(chain), chain[b].event, NEW k \in Nat, k < NumOut
  PROVE  /\ Leaf(b, k + 1) \in Mine(b) =>
              MineSoFar(b, k + 1) = MineSoFar(b, k) \cup {Leaf(b, k + 1)}
         /\ Leaf(b, k + 1) \notin Mine(b) => MineSoFar(b, k + 1) = MineSoFar(b, k)
<1>1. chain[b].mine \subseteq 1 .. NumOut /\ NumOut \in Nat /\ k + 1 \in 1 .. NumOut
  BY BlockOf, WalletAssumption
<1>2. \A i \in 1 .. NumOut : Leaf(b, i) = Leaves(b - 1) + i - 1
  BY LeafIsBetween, Zenon
<1>3. Leaves(b - 1) \in Nat
  <2>1. b - 1 \in 0 .. Len(chain)
    BY UpToThis, Zenon
  <2> QED BY <2>1, LeavesCount, Zenon
<1>4. \A i \in chain[b].mine : Leaf(b, i) = Leaf(b, k + 1) => i = k + 1
  <2> SUFFICES ASSUME NEW i \in chain[b].mine, Leaf(b, i) = Leaf(b, k + 1) PROVE i = k + 1
    BY Zenon
  <2>1. i \in 1 .. NumOut
    BY <1>1, Zenon
  <2>2. Leaves(b - 1) + i - 1 = Leaves(b - 1) + (k + 1) - 1
    BY <1>1, <1>2, <2>1, Zenon
  <2> QED BY <1>1, <1>3, <2>1, <2>2
<1>5. Leaf(b, k + 1) \in Mine(b) => k + 1 \in chain[b].mine
  BY <1>4, Zenon DEF Mine
<1>6. k + 1 \in chain[b].mine => Leaf(b, k + 1) \in Mine(b)
  BY Zenon DEF Mine
<1>7. \A i \in chain[b].mine : i <= k + 1 <=> (i <= k \/ i = k + 1)
  BY <1>1
<1>8. k + 1 \in chain[b].mine =>
        MineSoFar(b, k + 1) = MineSoFar(b, k) \cup {Leaf(b, k + 1)}
  BY <1>7, Zenon DEF MineSoFar
<1>9. k + 1 \notin chain[b].mine => MineSoFar(b, k + 1) = MineSoFar(b, k)
  BY <1>7, Zenon DEF MineSoFar
<1> QED BY <1>5, <1>6, <1>8, <1>9, Zenon

\* Files of one note more or less.
LEMMA FilesFacts ==
  ASSUME NEW S, NEW n
  PROVE  /\ Files(S \cup {n}) = Files(S) \cup {[note |-> n, addr |-> n]}
         /\ n \in S =>
              /\ {f \in Files(S) : f.note = n} = {[note |-> n, addr |-> n]}
              /\ Files(S \ {n}) = Files(S) \ {[note |-> n, addr |-> n]}
  BY DEF Files

\* Exact and ExactAt depend on the chain and on what they name only.
LEMMA ExactKept ==
  ASSUME chain' = chain, UNCHANGED <<map, notes, spent, tree, nextAddr>>
  PROVE  /\ \A b : Exact(b) => Exact(b)'
         /\ pos' = pos => \A b : ExactAt(b) => ExactAt(b)'
<1>1. /\ \A b : /\ Leaves(b)' = Leaves(b) /\ MineUpTo(b)' = MineUpTo(b)
                /\ SpentUpTo(b)' = SpentUpTo(b)
      /\ \A b, k : MineSoFar(b, k)' = MineSoFar(b, k)
  BY SameChain, Zenon
<1>2. \A b : Exact(b) => Exact(b)'
  BY <1>1, Zenon DEF Exact
<1>3. pos' = pos => \A b : ExactAt(b) => ExactAt(b)'
  BY <1>1, Zenon DEF ExactAt
<1> QED BY <1>2, <1>3, Zenon

\* Quiet blocks make no difference.
LEMMA ExactOverQuiet ==
  ASSUME ChainInv, NEW a \in 0 .. Len(chain), NEW b \in a .. Len(chain),
         \A c \in a + 1 .. b : ~chain[c].event, Exact(a)
  PROVE  Exact(b) /\ Leaves(b) = Leaves(a)
  BY QuietBlocks, Zenon DEF Exact

\* At the beginning of an event everything before it is processed.
LEMMA ExactBegins ==
  ASSUME ChainInv, NEW b \in 1 .. Len(chain), Exact(b - 1), chain' = chain, pos' = 0,
         UNCHANGED <<map, notes, spent, tree, nextAddr>>
  PROVE  ExactAt(b)'
<1> DEFINE a == b - 1
<1>1. MineSoFar(b, 0) = {}
  BY SoFarEnds, Zenon
<1>2. a \in 0 .. Len(chain)
  BY UpToThis, Zenon
<1> HIDE DEF a
<1>3. Leaves(a) \in Nat
  BY <1>2, LeavesCount, Zenon
<1>4. /\ Leaves(a)' = Leaves(a) /\ MineUpTo(a)' = MineUpTo(a) /\ SpentUpTo(a)' = SpentUpTo(a)
      /\ MineSoFar(b, 0)' = MineSoFar(b, 0)
  BY SameChain, Zenon
<1>5. Leaves(a)' + pos' = Leaves(a)
  BY <1>3, <1>4
<1>6. MineSoFar(b, pos)' = {}
  BY <1>1, SameChain, Zenon
<1>7. MineUpTo(a)' \cup MineSoFar(b, pos)' = MineUpTo(a)
  BY <1>4, <1>6, Zenon
<1>8. Exact(a)
  BY Zenon DEF a
<1> QED BY <1>4, <1>5, <1>7, <1>8, Zenon DEF Exact, ExactAt, a

\* A new block makes no difference to a wallet that has not seen it.
LEMMA NewBlockKeepsSyncInv ==
  ASSUME LossInv, SyncInv, NewBlock
  PROVE  SyncInv'
<1> DEFINE n == Len(chain)
<1>1. ChainInv /\ RangeInv
  BY Zenon DEF LossInv
<1>2. UNCHANGED <<wpc, next, map, tree, nextAddr, start, end, queue, pos, root,
                  stateFile, treeFile, notes, spent>>
  BY Zenon DEF NewBlock, memVars, fileVars
<1>3. n \in Nat /\ Len(chain') = n + 1 /\ \A c \in 1 .. n : chain'[c] = chain[c]
  <2>1. \E blk : chain' = Append(chain, blk)
    BY Zenon DEF NewBlock
  <2>2. chain \in Seq(Blocks)
    BY <1>1, Zenon DEF ChainInv
  <2>3. \A blk : /\ Len(Append(chain, blk)) = Len(chain) + 1
                 /\ \A c \in 1 .. Len(chain) : Append(chain, blk)[c] = chain[c]
    BY <2>2
  <2> QED BY <2>1, <2>2, <2>3
<1>15. n \in Nat
  BY <1>1 DEF ChainInv
<1> HIDE DEF n
<1>16. \A b \in 1 .. n : b - 1 \in 0 .. n /\ b \in 0 .. n /\ b > 0
  BY <1>15
<1>4. \A b \in 0 .. n : /\ Leaves(b)' = Leaves(b) /\ MineUpTo(b)' = MineUpTo(b)
                        /\ SpentUpTo(b)' = SpentUpTo(b) /\ Inserted(b)' = Inserted(b)
                        /\ b > 0 => \A k : MineSoFar(b, k)' = MineSoFar(b, k)
  <2>1. ASSUME NEW b \in 0 .. n PROVE b \in Nat /\ \A c \in 1 .. b : chain'[c] = chain[c]
    BY <1>3
  <2> QED BY <2>1, PastFixed, Zenon
<1>5. \A b \in 0 .. n : Exact(b) => Exact(b)'
  BY <1>2, <1>4, Zenon DEF Exact
<1>6. \A b \in 1 .. n : ExactAt(b) => ExactAt(b)'
  <2> SUFFICES ASSUME NEW b \in 1 .. n, ExactAt(b) PROVE ExactAt(b)'
    BY Zenon
  <2> DEFINE a == b - 1
  <2>1. a \in 0 .. n /\ b \in 0 .. n /\ b > 0
    BY <1>16, Zenon
  <2> HIDE DEF a
  <2>2. /\ Leaves(a)' = Leaves(a) /\ MineUpTo(a)' = MineUpTo(a) /\ SpentUpTo(a)' = SpentUpTo(a)
        /\ \A k : MineSoFar(b, k)' = MineSoFar(b, k)
        /\ chain'[b] = chain[b]
    BY <1>3, <1>4, <2>1, Zenon
  <2> QED BY <1>2, <2>2, Zenon DEF ExactAt, a
<1>7. next - 1 \in 0 .. n
  BY <1>1, <1>3 DEF RangeInv, n
<1>8. wpc = "fetch" => start - 1 \in 0 .. n
  BY <1>1, <1>3 DEF RangeInv, n
<1>9. wpc = "receive" => Current \in 1 .. n /\ Current' = Current
  BY <1>1, <1>2, CurrentIsFirst, Zenon DEF Current, n
<1>10. FilesExact => FilesExact'
  <2> SUFFICES ASSUME FilesExact PROVE FilesExact'
    BY Zenon
  <2> DEFINE At(nx) ==
        LET m == MineUpTo(nx - 1) \ SpentUpTo(nx - 1)
            t == [k \in 1 .. Leaves(nx - 1) |-> k - 1]
        IN  /\ stateFile = {<<nx, m>>} \/ (stateFile = {} /\ nx = 1)
            /\ treeFile = {<<t>>} \/ (treeFile = {} /\ t = <<>>)
            /\ notes = Files(m)
            /\ spent = Files(MineUpTo(nx - 1) \ m)
  <2>1. PICK nx \in 1 .. n + 1 : At(nx)
    BY Zenon DEF FilesExact, n
  <2>2. nx - 1 \in 0 .. n /\ nx \in 1 .. Len(chain') + 1
    BY <1>3
  <2>3. /\ Leaves(nx - 1)' = Leaves(nx - 1) /\ MineUpTo(nx - 1)' = MineUpTo(nx - 1)
        /\ SpentUpTo(nx - 1)' = SpentUpTo(nx - 1)
    BY <1>4, <2>2, Zenon
  <2>4. At(nx)'
    BY <1>2, <2>1, <2>3, Zenon
  <2> QED BY <2>2, <2>4, Zenon DEF FilesExact
<1>11. StateSaved' = StateSaved /\ TreeSaved' = TreeSaved
  BY <1>2, Zenon DEF StateSaved, TreeSaved
<1>12. /\ Exact(next - 1) => Exact(next - 1)'
       /\ Leaves(next - 1)' = Leaves(next - 1)
       /\ Inserted(next - 1)' = Inserted(next - 1)
  BY <1>2, <1>4, <1>5, <1>7, Zenon
<1>13. wpc = "fetch" => /\ Exact(start - 1) => Exact(start - 1)'
                        /\ Leaves(start - 1)' = Leaves(start - 1)
                        /\ Inserted(start - 1)' = Inserted(start - 1)
  BY <1>2, <1>4, <1>5, <1>8, Zenon
<1>14. wpc = "receive" => (ExactAt(Current) => ExactAt(Current)')
  BY <1>6, <1>9, Zenon
<1> QED BY <1>2, <1>10, <1>11, <1>12, <1>13, <1>14, Zenon DEF SyncInv, RootAt

\* Opening a wallet that was closed.
LEMMA OpenKeepsSyncInv ==
  ASSUME LossInv, SyncInv, Open
  PROVE  SyncInv'
<1>1. ChainInv /\ FilesExact /\ wpc' = "ready" /\ chain' = chain
      /\ UNCHANGED <<stateFile, treeFile, notes, spent>>
  BY Zenon DEF LossInv, SyncInv, Open, fileVars
<1>2. PICK nx \in 1 .. Len(chain) + 1 :
        LET m == MineUpTo(nx - 1) \ SpentUpTo(nx - 1)
            t == [k \in 1 .. Leaves(nx - 1) |-> k - 1]
        IN  /\ stateFile = {<<nx, m>>} \/ (stateFile = {} /\ nx = 1)
            /\ treeFile = {<<t>>} \/ (treeFile = {} /\ t = <<>>)
            /\ notes = Files(m)
            /\ spent = Files(MineUpTo(nx - 1) \ m)
  BY <1>1, Zenon DEF FilesExact
<1> DEFINE a == nx - 1
           m == MineUpTo(a) \ SpentUpTo(a)
           t == [k \in 1 .. Leaves(a) |-> k - 1]
<1>3. a \in 0 .. Len(chain) /\ nx - 1 = a /\ (nx = 1 => a = 0)
  BY <1>1 DEF ChainInv
<1> HIDE DEF a
<1>4. Leaves(a) \in Nat /\ (a = 0 => m = {})
  <2>1. MineUpTo(0) = {}
    BY UpToNext, Zenon
  <2> QED BY <1>1, <1>3, <2>1, LeavesCount, Zenon
<1>5. InOrder(t, Leaves(a)) /\ Len(t) = Leaves(a)
  BY <1>4 DEF InOrder
<1>6. /\ stateFile = {<<nx, m>>} \/ (stateFile = {} /\ nx = 1)
      /\ treeFile = {<<t>>} \/ (treeFile = {} /\ t = <<>>)
      /\ notes = Files(m)
      /\ spent = Files(MineUpTo(a) \ m)
  BY <1>2, <1>3, Zenon
<1> HIDE DEF m, t
<1>7. next' = nx /\ map' = m
  <2>1. CASE stateFile = {}
    BY <1>3, <1>4, <1>6, <2>1, Zenon DEF Open
  <2>2. CASE stateFile = {<<nx, m>>}
    <3>1. stateFile # {}
      BY <2>2, Zenon
    <3>2. PICK x \in stateFile : next' = x[1] /\ map' = x[2]
      BY <3>1, Zenon DEF Open
    <3>3. x = <<nx, m>>
      BY <2>2, Zenon
    <3> QED BY <3>2, <3>3, Zenon
  <2> QED BY <1>6, <2>1, <2>2, Zenon
<1>8. tree' = t /\ nextAddr' = Leaves(a)
  <2>1. tree' = t
    <3>1. CASE treeFile = {}
      BY <1>6, <3>1, Zenon DEF Open
    <3>2. CASE treeFile = {<<t>>}
      <4>1. treeFile # {}
        BY <3>2, Zenon
      <4>2. PICK x \in treeFile : tree' = x[1]
        BY <4>1, Zenon DEF Open
      <4>3. x = <<t>>
        BY <3>2, Zenon
      <4> QED BY <4>2, <4>3, Zenon
    <3> QED BY <1>6, <3>1, <3>2, Zenon
  <2> QED BY <1>5, <2>1, Zenon DEF Open
<1>9. StateSaved' /\ TreeSaved'
  <2>1. StateSaved'
    <3>1. stateFile = {} => m = {} /\ nx = 1
      BY <1>3, <1>4, <1>6, Zenon
    <3> QED BY <1>1, <1>6, <1>7, <3>1, Zenon DEF StateSaved
  <2> QED BY <1>1, <1>6, <1>8, <2>1, Zenon DEF TreeSaved
<1>10. Exact(next - 1)'
  <2>1. \A c : /\ Leaves(c)' = Leaves(c) /\ MineUpTo(c)' = MineUpTo(c)
               /\ SpentUpTo(c)' = SpentUpTo(c)
    BY <1>1, SameChain, Zenon
  <2>2. /\ map' = MineUpTo(a) \ SpentUpTo(a) /\ notes' = Files(map')
        /\ spent' = Files(MineUpTo(a) \ map') /\ InOrder(tree', Leaves(a))
        /\ nextAddr' = Leaves(a) /\ next' - 1 = a
    BY <1>1, <1>3, <1>5, <1>6, <1>7, <1>8, Zenon DEF m
  <2> QED BY <2>1, <2>2, Zenon DEF Exact, InOrder, Files
<1> QED BY <1>1, <1>9, <1>10, Zenon DEF SyncInv

\* The blocks of a batch before its first event are processed when it begins.
LEMMA FetchKeepsSyncInv ==
  ASSUME LossInv, SyncInv, Fetch
  PROVE  SyncInv'
<1>1. ChainInv /\ RangeInv
  BY DEF LossInv
<1>2. /\ wpc = "fetch" /\ chain' = chain /\ pos' = 0
      /\ UNCHANGED <<map, notes, spent, tree, nextAddr, root, treeFile>>
  BY Zenon DEF Fetch, fileVars
<1>3. /\ Exact(start - 1) /\ RootAt(start - 1)
      /\ root = {} => TreeSaved
  BY <1>2, Zenon DEF SyncInv
<1>4. root' = {} => TreeSaved'
  BY <1>2, <1>3, Zenon DEF TreeSaved
<1>5. \A c : Leaves(c)' = Leaves(c) /\ Inserted(c)' = Inserted(c)
  BY <1>2, SameChain, Zenon
<1> DEFINE a == start - 1
<1>6. a \in 0 .. Len(chain) /\ a + 1 = start
  BY <1>1, <1>2, FetchedBatch DEF RangeInv
<1>7. CASE wpc' = "fetch"
  <2> DEFINE c == start' - 1
  <2>1. c \in a .. Len(chain) /\ \A d \in a + 1 .. c : ~chain[d].event
    BY <1>1, <1>6, <1>7, FetchedBatch, Zenon
  <2> HIDE DEF a, c
  <2>2. Exact(c) /\ Leaves(c) = Leaves(a)
    BY <1>1, <1>3, <1>6, <2>1, ExactOverQuiet, Zenon DEF a
  <2>3. Exact(start - 1)'
    BY <1>2, <2>2, ExactKept, Zenon DEF c
  <2>4. Inserted(a) \subseteq Inserted(c)
    <3>1. a \in Nat /\ c \in Nat /\ a <= c
      BY <1>6, <2>1
    <3> QED BY <3>1, InsertedMonotonic, Zenon
  <2>5. RootAt(start - 1)'
    BY <1>2, <1>3, <1>5, <2>2, <2>4, Zenon DEF a, c, RootAt
  <2> QED BY <1>4, <1>7, <2>3, <2>5, Zenon DEF SyncInv
<1>8. CASE wpc' # "fetch"
  <2> DEFINE c == Current' - 1
             cur == Current'
  <2>1. /\ c \in a .. Len(chain) /\ \A d \in a + 1 .. c : ~chain[d].event
        /\ cur \in 1 .. Len(chain) /\ cur - 1 = c /\ wpc' = "receive"
    BY <1>1, <1>6, <1>8, FetchedBatch, Zenon
  <2> HIDE DEF a, c, cur
  <2>2. Exact(c)
    BY <1>1, <1>3, <1>6, <2>1, ExactOverQuiet, Zenon DEF a
  <2>3. \A d \in 1 .. Len(chain) : Exact(d - 1) => ExactAt(d)'
    BY <1>1, <1>2, ExactBegins, Zenon
  <2>4. Current' \in 1 .. Len(chain) /\ Exact(Current' - 1)
    BY <2>1, <2>2, Zenon DEF cur
  <2>5. ExactAt(Current)'
    BY <2>3, <2>4, Zenon
  <2> QED BY <1>4, <2>1, <2>5, Zenon DEF SyncInv
<1> QED BY <1>7, <1>8, Zenon

\* One more output of the event.
LEMMA ReceiveKeepsSyncInv ==
  ASSUME LossInv, SyncInv, Receive
  PROVE  SyncInv'
<1> DEFINE cur == Current
           a == Current - 1
           leaf == Leaf(cur, pos + 1)
           past == SpentUpTo(a)
           received == MineUpTo(a) \cup MineSoFar(cur, pos)
           received2 == MineUpTo(a) \cup MineSoFar(cur, pos + 1)
<1>1. ChainInv /\ RangeInv
  BY DEF LossInv
<1>2. /\ wpc = "receive" /\ wpc' = wpc /\ pos < NumOut /\ pos' = pos + 1
      /\ chain' = chain /\ queue' = queue /\ nextAddr' = nextAddr + 1
      /\ spent' = spent
  BY Zenon DEF Receive
<1>3. cur \in 1 .. Len(chain) /\ chain[cur].event /\ pos \in Nat
  BY <1>1, <1>2, CurrentIsFirst DEF RangeInv
<1>4. a \in 0 .. Len(chain)
  BY <1>1, <1>3, UpToThis, Zenon
<1>5. /\ map = received \ past /\ notes = Files(map) /\ spent = Files(received \ map)
      /\ InOrder(tree, Leaves(a) + pos) /\ nextAddr = Leaves(a) + pos
  BY <1>2, Zenon DEF SyncInv, ExactAt
<1>6. Leaves(a) \in Nat
  <2> HIDE DEF a
  <2> QED BY <1>1, <1>4, LeavesCount, Zenon
<1>7. leaf = Leaves(a) + pos /\ leaf \in Nat /\ Leaves(a) <= leaf
  <2>1. pos + 1 \in 1 .. NumOut
    BY <1>2, <1>3, WalletAssumption
  <2>2. leaf = Leaves(a) + (pos + 1) - 1
    BY <1>1, <1>3, <2>1, LeafIsBetween, Zenon
  <2> HIDE DEF leaf, a
  <2> QED BY <1>3, <1>6, <2>2
<1>8. leaf \notin past
  <2> HIDE DEF leaf, a
  <2>1. \A n \in past : n \in Nat /\ n < Leaves(a)
    BY <1>1, <1>4, SpentAreMine, MineBelow, Zenon
  <2> HIDE DEF past
  <2> QED BY <1>6, <1>7, <2>1
<1>9. /\ tree' = Append(tree, leaf)
      /\ \/ /\ leaf \in Mine(cur)
            /\ notes' = notes \cup {[note |-> leaf, addr |-> nextAddr]}
            /\ map' = map \cup {leaf}
         \/ /\ leaf \notin Mine(cur)
            /\ notes' = notes /\ map' = map
  BY Zenon DEF Receive
<1>10. InOrder(tree', leaf + 1) /\ nextAddr' = Leaves(a) + pos'
  <2>1. InOrder(tree, leaf) /\ tree' = Append(tree, leaf)
    BY <1>5, <1>7, <1>9, Zenon
  <2> HIDE DEF leaf, a
  <2>2. InOrder(tree', leaf + 1)
    BY <1>7, <2>1, InOrderAppend, Zenon
  <2> QED BY <1>2, <1>3, <1>5, <1>6, <2>2
<1>11. /\ leaf \in Mine(cur) => received2 = received \cup {leaf}
       /\ leaf \notin Mine(cur) => received2 = received
  <2>1. /\ leaf \in Mine(cur) => MineSoFar(cur, pos + 1) = MineSoFar(cur, pos) \cup {leaf}
        /\ leaf \notin Mine(cur) => MineSoFar(cur, pos + 1) = MineSoFar(cur, pos)
    <3> HIDE DEF cur
    <3> QED BY <1>1, <1>2, <1>3, SoFarNext, Zenon
  <2> HIDE DEF leaf, a, cur
  <2> QED BY <2>1, Zenon
<1> HIDE DEF leaf, past, received, received2
<1>12. /\ map' = received2 \ past /\ notes' = Files(map') /\ spent' = Files(received2 \ map')
  <2>1. CASE leaf \in Mine(cur)
    <3>1. map' = map \cup {leaf} /\ notes' = notes \cup {[note |-> leaf, addr |-> leaf]}
      BY <1>5, <1>7, <1>9, <2>1, Zenon
    <3>2. map' = received2 \ past /\ received2 \ map' = received \ map
      BY <1>5, <1>8, <1>11, <2>1, <3>1, Zenon
    <3>3. Files(map \cup {leaf}) = Files(map) \cup {[note |-> leaf, addr |-> leaf]}
      BY FilesFacts, Zenon
    <3>4. notes' = Files(map')
      BY <1>5, <3>1, <3>3, Zenon
    <3>5. spent' = Files(received2 \ map')
      BY <1>2, <1>5, <3>2, Zenon
    <3> QED BY <3>2, <3>4, <3>5, Zenon
  <2>2. CASE leaf \notin Mine(cur)
    BY <1>2, <1>5, <1>9, <1>11, <2>2, Zenon
  <2> QED BY <2>1, <2>2, Zenon
<1>13. leaf + 1 = Leaves(a) + pos'
  BY <1>2, <1>3, <1>6, <1>7
<1>14. ExactAt(Current)'
  <2>1. Current' = Current
    BY <1>2, Zenon DEF Current
  <2>2. \A c : /\ Leaves(c)' = Leaves(c) /\ MineUpTo(c)' = MineUpTo(c)
               /\ SpentUpTo(c)' = SpentUpTo(c) /\ \A k : MineSoFar(c, k)' = MineSoFar(c, k)
    BY <1>2, SameChain, Zenon
  <2>3. /\ map' = (MineUpTo(Current - 1) \cup MineSoFar(Current, pos'))
                    \ SpentUpTo(Current - 1)
        /\ notes' = Files(map')
        /\ spent' = Files((MineUpTo(Current - 1) \cup MineSoFar(Current, pos')) \ map')
        /\ InOrder(tree', Leaves(Current - 1) + pos')
        /\ nextAddr' = Leaves(Current - 1) + pos'
    BY <1>2, <1>10, <1>12, <1>13, Zenon DEF received2, past
  <2>4. \A S, T, U : S = T => S \subseteq T /\ T \subseteq S \cup U
    BY Zenon
  <2> QED BY <2>1, <2>2, <2>3, <2>4, Zenon DEF ExactAt, InOrder, Files
<1>15. pos' # 0
  BY <1>2, <1>3
<1> QED BY <1>2, <1>14, <1>15, Zenon DEF SyncInv

\* A note that an event spends has one file, which is moved.
LEMMA MarkSpentKeepsSyncInv ==
  ASSUME LossInv, SyncInv, MarkSpent
  PROVE  SyncInv'
<1> DEFINE cur == Current
           past == SpentUpTo(cur - 1)
           received == MineUpTo(cur - 1) \cup MineSoFar(cur, pos)
           file(n) == [note |-> n, addr |-> n]
<1>1. /\ wpc = "receive" /\ pos = NumOut /\ pos' = pos /\ root' = root /\ treeFile' = treeFile
      /\ chain' = chain /\ queue' = queue /\ nextAddr' = nextAddr /\ tree' = tree
  BY Zenon DEF MarkSpent
<1>2. /\ map \subseteq received \ past /\ received \ past \subseteq map \cup chain[cur].spends
      /\ notes = Files(map) /\ spent = Files(received \ map)
      /\ InOrder(tree, Leaves(cur - 1) + pos) /\ nextAddr = Leaves(cur - 1) + pos
  BY <1>1, Zenon DEF SyncInv, ExactAt
<1>3. PICK n \in chain[cur].spends \cap map :
        \/ /\ Cardinality(NoteFiles(n)) = 1
           /\ notes' = notes \ NoteFiles(n)
           /\ spent' = spent \cup NoteFiles(n)
           /\ map' = map \ {n}
           /\ UNCHANGED wpc
        \/ Cardinality(NoteFiles(n)) # 1
  BY Zenon DEF MarkSpent
<1>4. NoteFiles(n) = {file(n)}
  <2>1. {f \in Files(map) : f.note = n} = {file(n)}
    BY <1>3, FilesFacts, Zenon
  <2> QED BY <1>2, <2>1, Zenon DEF NoteFiles
<1>5. Cardinality(NoteFiles(n)) = 1
  BY <1>4, FS_Singleton, Zenon
<1>6. notes' = notes \ {file(n)} /\ spent' = spent \cup {file(n)} /\ map' = map \ {n} /\ wpc' = wpc
  BY <1>3, <1>4, <1>5, Zenon
<1> HIDE DEF past, received
<1>7. /\ map' \subseteq received \ past /\ received \ past \subseteq map' \cup chain[cur].spends
      /\ received \ map' = (received \ map) \cup {n}
  BY <1>2, <1>3, <1>6, Zenon
<1>8. notes' = Files(map')
  <2>1. Files(map \ {n}) = Files(map) \ {file(n)}
    BY <1>3, FilesFacts, Zenon
  <2> QED BY <1>2, <1>6, <2>1, Zenon
<1>9. spent' = Files(received \ map')
  <2>1. Files((received \ map) \cup {n}) = Files(received \ map) \cup {file(n)}
    BY FilesFacts, Zenon
  <2> QED BY <1>2, <1>6, <1>7, <2>1, Zenon
<1>10. ExactAt(Current)'
  <2>1. Current' = Current
    BY <1>1, Zenon DEF Current
  <2>2. \A c : /\ Leaves(c)' = Leaves(c) /\ MineUpTo(c)' = MineUpTo(c)
               /\ SpentUpTo(c)' = SpentUpTo(c) /\ \A k : MineSoFar(c, k)' = MineSoFar(c, k)
    BY <1>1, SameChain, Zenon
  <2>3. ~(pos' < NumOut)
    BY <1>1, WalletAssumption
  <2>4. (MineUpTo(Current - 1) \cup MineSoFar(Current, pos))' = received
        /\ SpentUpTo(Current - 1)' = past
    BY <1>1, <2>1, <2>2, Zenon DEF received, past
  <2>5. InOrder(tree, Leaves(Current - 1) + pos)' /\ nextAddr' = (Leaves(Current - 1) + pos)'
    BY <1>1, <1>2, <2>1, <2>2, Zenon DEF InOrder
  <2>6. chain'[Current'] = chain[cur]
    BY <1>1, <2>1, Zenon
  <2> QED BY <1>7, <1>8, <1>9, <2>3, <2>4, <2>5, <2>6, Zenon DEF ExactAt, Files
<1>11. root' = {} /\ pos' = 0 => TreeSaved'
  BY <1>1, Zenon DEF SyncInv, TreeSaved
<1> QED BY <1>1, <1>6, <1>10, <1>11, Zenon DEF SyncInv

\* The end of an event.
LEMMA NextEventKeepsSyncInv ==
  ASSUME LossInv, SyncInv, NextEvent
  PROVE  SyncInv'
<1> DEFINE cur == Current
           a == Current - 1
<1>1. ChainInv /\ RangeInv
  BY DEF LossInv
<1>2. /\ wpc = "receive" /\ chain' = chain /\ pos = NumOut /\ pos' = 0
      /\ UNCHANGED <<map, notes, spent, tree, nextAddr>>
      /\ root' = {[mixed |-> Leaves(cur), direct |-> Inserted(cur)]} /\ chain[cur].spends \cap map = {}
  BY Zenon DEF NextEvent, fileVars
<1>3. cur \in 1 .. Len(chain) /\ chain[cur].event /\ cur \in 0 .. Len(chain) /\ cur > 0
  BY <1>1, <1>2, CurrentIsFirst DEF ChainInv
<1>4. /\ map \subseteq (MineUpTo(a) \cup MineSoFar(cur, NumOut)) \ SpentUpTo(a)
      /\ (MineUpTo(a) \cup MineSoFar(cur, NumOut)) \ SpentUpTo(a) \subseteq map \cup chain[cur].spends
      /\ notes = Files(map) /\ spent = Files((MineUpTo(a) \cup MineSoFar(cur, NumOut)) \ map)
      /\ InOrder(tree, Leaves(a) + NumOut) /\ nextAddr = Leaves(a) + NumOut
  BY <1>2, Zenon DEF SyncInv, ExactAt
<1>5. /\ MineSoFar(cur, NumOut) = Mine(cur) /\ MineUpTo(cur) = MineUpTo(a) \cup Mine(cur)
      /\ SpentUpTo(cur) = SpentUpTo(a) \cup chain[cur].spends
      /\ Leaves(cur) = Leaves(a) + NumOut
  <2> HIDE DEF cur
  <2>1. /\ MineSoFar(cur, NumOut) = Mine(cur) /\ MineUpTo(cur) = MineUpTo(cur - 1) \cup Mine(cur)
        /\ SpentUpTo(cur) = SpentUpTo(cur - 1) \cup chain[cur].spends
    BY <1>1, <1>3, SoFarEnds, UpToThis, Zenon
  <2>2. Leaves(cur) = Leaves(cur - 1) + NumOut
    BY <1>1, <1>3, LeavesCount, Zenon
  <2> QED BY <2>1, <2>2, Zenon DEF cur
<1>6. Exact(cur)
  <2> HIDE DEF cur, a
  <2>1. map = MineUpTo(cur) \ SpentUpTo(cur)
    BY <1>2, <1>4, <1>5, Zenon
  <2> QED BY <1>4, <1>5, <2>1, Zenon DEF Exact
<1>7. \A c : Leaves(c)' = Leaves(c) /\ Inserted(c)' = Inserted(c)
  BY <1>2, SameChain, Zenon
<1>8. CASE wpc' = "fetch"
  <2> DEFINE c == start' - 1
  <2>1. c \in cur .. Len(chain) /\ \A d \in cur + 1 .. c : ~chain[d].event
    BY <1>1, <1>8, EventDone, Zenon
  <2> HIDE DEF cur, c
  <2>2. Exact(c) /\ Leaves(c) = Leaves(cur)
    BY <1>1, <1>3, <1>6, <2>1, ExactOverQuiet, Zenon
  <2>3. Exact(start - 1)'
    BY <1>2, <2>2, ExactKept, Zenon DEF c
  <2>4. Inserted(cur) \subseteq Inserted(c)
    <3>1. cur \in Nat /\ c \in Nat /\ cur <= c
      BY <1>3, <2>1
    <3> QED BY <3>1, InsertedMonotonic, Zenon
  <2>5. \A r \in root' : r.mixed = Leaves(cur) /\ r.direct = Inserted(cur)
    <3>1. \A x, y : \A r \in {[mixed |-> x, direct |-> y]} : r.mixed = x /\ r.direct = y
      OBVIOUS
    <3> QED BY <1>2, <3>1, Zenon
  <2>6. RootAt(start - 1)'
    BY <1>7, <2>2, <2>4, <2>5, Zenon DEF c, RootAt
  <2>7. root' # {}
    BY <1>2, Zenon
  <2> QED BY <1>8, <2>3, <2>6, <2>7, Zenon DEF SyncInv
<1>9. CASE wpc' # "fetch"
  <2> DEFINE c == Current' - 1
             new == Current'
  <2>1. /\ c \in cur .. Len(chain) /\ \A d \in cur + 1 .. c : ~chain[d].event
        /\ new \in 1 .. Len(chain) /\ new - 1 = c /\ wpc' = "receive"
    BY <1>1, <1>9, EventDone, Zenon
  <2> HIDE DEF cur, c, new
  <2>2. Exact(c)
    BY <1>1, <1>3, <1>6, <2>1, ExactOverQuiet, Zenon
  <2>3. \A d \in 1 .. Len(chain) : Exact(d - 1) => ExactAt(d)'
    BY <1>1, <1>2, ExactBegins, Zenon
  <2>4. Current' \in 1 .. Len(chain) /\ Exact(Current' - 1)
    BY <2>1, <2>2, Zenon DEF new
  <2>5. ExactAt(Current)'
    BY <2>3, <2>4, Zenon
  <2> QED BY <1>2, <2>1, <2>5, Zenon DEF SyncInv
<1> QED BY <1>8, <1>9

\* The steps that only save or check.
LEMMA SavingKeepsSyncInv ==
  ASSUME LossInv, SyncInv,
         Sync \/ OpenState \/ WriteState \/ OpenTree \/ WriteTree \/ Check
  PROVE  SyncInv'
<1>1. RangeInv
  BY Zenon DEF LossInv
<1>2. chain' = chain /\ UNCHANGED <<map, notes, spent, tree, nextAddr>>
  BY Zenon DEF Sync, OpenState, WriteState, OpenTree, WriteTree, Check, memVars, fileVars
<1>3. /\ \A b : Exact(b) => Exact(b)'
      /\ \A b : Leaves(b)' = Leaves(b) /\ Inserted(b)' = Inserted(b)
  BY <1>2, ExactKept, SameChain, Zenon
<1>4. CASE Sync
  <2>1. /\ wpc = "ready" /\ wpc' = "fetch" /\ start' = next /\ root' = {} /\ treeFile' = treeFile
    BY <1>4, Zenon DEF Sync, fileVars
  <2>2. Exact(next - 1) /\ TreeSaved
    BY <2>1, Zenon DEF SyncInv
  <2>3. TreeSaved'
    BY <1>2, <2>1, <2>2, Zenon DEF TreeSaved
  <2>4. Exact(start - 1)'
    BY <1>3, <2>1, <2>2, Zenon
  <2>5. RootAt(start - 1)'
    BY <2>1, Zenon DEF RootAt
  <2> QED BY <2>1, <2>3, <2>4, <2>5, Zenon DEF SyncInv
<1>5. CASE OpenState
  <2>1. /\ wpc = "fetch" /\ wpc' = "state" /\ next' = end + 1 /\ end < start /\ root' = root
        /\ treeFile' = treeFile
    BY <1>5, Zenon DEF OpenState
  <2>2. next' - 1 = start - 1
    BY <1>1, <2>1 DEF RangeInv
  <2>3. Exact(start - 1) /\ RootAt(start - 1) /\ (root = {} => TreeSaved)
    BY <2>1, Zenon DEF SyncInv
  <2>4. root' = {} => TreeSaved'
    BY <1>2, <2>1, <2>3, Zenon DEF TreeSaved
  <2>5. Exact(next - 1)' /\ RootAt(next - 1)'
    BY <1>3, <2>1, <2>2, <2>3, Zenon DEF RootAt
  <2> QED BY <2>1, <2>4, <2>5, Zenon DEF SyncInv
<1>6. CASE WriteState
  <2>1. /\ wpc = "state" /\ wpc' = (IF root = {} THEN "check" ELSE "tree") /\ next' = next
        /\ root' = root /\ treeFile' = treeFile /\ stateFile' = {<<next, map>>}
    BY <1>6, Zenon DEF WriteState, memVars
  <2>2. Exact(next - 1) /\ RootAt(next - 1) /\ (root = {} => TreeSaved)
    BY <2>1, Zenon DEF SyncInv
  <2>3. StateSaved' /\ (root' = {} => TreeSaved')
    BY <1>2, <2>1, <2>2, Zenon DEF StateSaved, TreeSaved
  <2>4. Exact(next - 1)' /\ RootAt(next - 1)'
    BY <1>3, <2>1, <2>2, Zenon DEF RootAt
  <2> QED BY <2>1, <2>3, <2>4, Zenon DEF SyncInv
<1>7. CASE OpenTree \/ WriteTree
  <2>1. /\ wpc \in {"tree", "leaves"} /\ next' = next /\ root' = root /\ stateFile' = stateFile
        /\ wpc' = "leaves" \/ (wpc' = "check" /\ treeFile' = {<<tree>>})
    BY <1>7, Zenon DEF OpenTree, WriteTree, memVars
  <2>2. Exact(next - 1) /\ StateSaved /\ RootAt(next - 1)
    BY <2>1, Zenon DEF SyncInv
  <2>3. StateSaved' /\ (wpc' = "check" => TreeSaved')
    BY <1>2, <2>1, <2>2, Zenon DEF StateSaved, TreeSaved
  <2>4. Exact(next - 1)' /\ RootAt(next - 1)'
    BY <1>3, <2>1, <2>2, Zenon DEF RootAt
  <2> QED BY <2>1, <2>3, <2>4, Zenon DEF SyncInv
<1>8. CASE Check
  <2>1. /\ wpc = "check" /\ next' = next /\ UNCHANGED <<stateFile, treeFile>>
        /\ wpc' = IF \A r \in root : SameRoot(r) THEN "ready" ELSE "failed"
    BY <1>8, Zenon DEF Check, memVars, fileVars
  <2>2. Exact(next - 1) /\ StateSaved /\ TreeSaved /\ RootAt(next - 1)
    BY <2>1, Zenon DEF SyncInv
  <2>3. wpc' \in {"ready", "failed"}
    BY <2>1, Zenon
  <2>4. StateSaved' /\ TreeSaved'
    BY <1>2, <2>1, <2>2, Zenon DEF StateSaved, TreeSaved
  <2>5. Exact(next - 1)'
    BY <1>3, <2>1, <2>2, Zenon
  <2>6. ASSUME wpc' = "failed" PROVE Inserted(next - 1)' # {}
    <3>1. PICK r \in root : ~SameRoot(r)
      BY <2>1, <2>6, Zenon
    <3>2. InOrder(tree, r.mixed)
      BY <2>2, Zenon DEF Exact, RootAt
    <3>3. r.direct # {} /\ r.direct \subseteq Inserted(next - 1)
      BY <2>2, <3>1, <3>2, Zenon DEF SameRoot, RootAt
    <3> QED BY <1>3, <2>1, <3>3, Zenon
  <2> QED BY <2>3, <2>4, <2>5, <2>6, Zenon DEF SyncInv
<1> QED BY <1>4, <1>5, <1>6, <1>7, <1>8, Zenon

\* Closing the wallet.
LEMMA ExitKeepsSyncInv ==
  ASSUME LossInv, SyncInv, Exit
  PROVE  SyncInv'
<1> DEFINE a == next - 1
           m == MineUpTo(a) \ SpentUpTo(a)
           t == [k \in 1 .. Leaves(a) |-> k - 1]
<1>1. RangeInv /\ ChainInv
  BY Zenon DEF LossInv
<1>2. wpc \in {"ready", "failed"} /\ wpc' = "off" /\ chain' = chain /\ UNCHANGED <<stateFile, treeFile, notes, spent>>
  BY Zenon DEF Exit, Forget, SyncInv, fileVars
<1>3. Exact(next - 1) /\ StateSaved /\ TreeSaved
  BY <1>2, Zenon DEF SyncInv
<1>4. map = m /\ tree = t /\ notes = Files(m) /\ spent = Files(MineUpTo(a) \ m)
  BY <1>3, Zenon DEF Exact, InOrder
<1>5. next \in 1 .. Len(chain) + 1
  BY <1>1 DEF RangeInv, ChainInv
<1>6. /\ stateFile = {<<next, m>>} \/ (stateFile = {} /\ next = 1)
      /\ treeFile = {<<t>>} \/ (treeFile = {} /\ t = <<>>)
  BY <1>3, <1>4, Zenon DEF StateSaved, TreeSaved
<1>7. \A b : /\ Leaves(b)' = Leaves(b) /\ MineUpTo(b)' = MineUpTo(b)
             /\ SpentUpTo(b)' = SpentUpTo(b)
  BY <1>2, SameChain, Zenon
<1>8. \A S : Files(S)' = Files(S)
  BY Zenon DEF Files
<1> DEFINE At(nx) ==
      LET mm == MineUpTo(nx - 1) \ SpentUpTo(nx - 1)
          tt == [k \in 1 .. Leaves(nx - 1) |-> k - 1]
      IN  /\ stateFile = {<<nx, mm>>} \/ (stateFile = {} /\ nx = 1)
          /\ treeFile = {<<tt>>} \/ (treeFile = {} /\ tt = <<>>)
          /\ notes = Files(mm)
          /\ spent = Files(MineUpTo(nx - 1) \ mm)
<1>9. At(next)
  BY <1>4, <1>6, Zenon
<1>10. PICK nx \in 1 .. Len(chain) + 1 : At(nx)
  <2> HIDE DEF At
  <2> QED BY <1>5, <1>9, Zenon
<1>11. At(nx)'
  BY <1>2, <1>7, <1>8, <1>10, Zenon
<1>12. FilesExact'
  BY <1>2, <1>10, <1>11, Zenon DEF FilesExact
<1> QED BY <1>2, <1>12, Zenon DEF SyncInv

\* All of the invariant, from the beginning.
LEMMA WalletInit == Init => WalletInv
<1> SUFFICES ASSUME Init PROVE WalletInv
  OBVIOUS
<1>1. LossInv
  BY LossInit, Zenon
<1>2. MineUpTo(0) = {} /\ Leaves(0) = 0
  <2>1. 0 \in Nat /\ ChainInv /\ 0 \in 0 .. Len(chain)
    BY <1>1 DEF LossInv, ChainInv
  <2>2. MineUpTo(0) = {}
    BY <2>1, UpToNext, Zenon
  <2>3. Leaves(0) = 0
    BY <2>1, LeavesCount, Zenon
  <2> QED BY <2>2, <2>3, Zenon
<1>3. FilesExact
  <2>1. /\ 1 \in 1 .. Len(chain) + 1 /\ 1 - 1 = 0
    BY <1>1 DEF LossInv, ChainInv
  <2>2. stateFile = {} /\ treeFile = {} /\ notes = {} /\ spent = {}
    BY Zenon DEF Init
  <2>3. [k \in 1 .. 0 |-> k - 1] = <<>>
    OBVIOUS
  <2>4. Files({} \ SpentUpTo(0)) = {} /\ \A S : Files({} \ S) = {}
    BY Zenon DEF Files
  <2> QED BY <1>2, <2>1, <2>2, <2>3, <2>4, Zenon DEF FilesExact
<1>4. wpc = "off" /\ crashes = 0
  BY Zenon DEF Init
<1> QED BY <1>1, <1>3, <1>4, Zenon DEF WalletInv, SyncInv

\* And in every step.
LEMMA WalletInductive == WalletInv /\ [Next]_vars => WalletInv'
<1> SUFFICES ASSUME WalletInv, [Next]_vars PROVE WalletInv'
  OBVIOUS
<1>0. LossInv /\ crashes \in Nat
  BY Zenon DEF WalletInv
<1>1. LossInv /\ crashes \in Nat /\ LossInv'
  BY <1>0, LossInductive, Zenon
<1>2. crashes' = crashes \/ Crash
  BY Zenon DEF vars, Next, SyncStep, NewBlock, Open, Sync, Fetch, Receive, MarkSpent, NextEvent,
         OpenState, WriteState, OpenTree, WriteTree, Check, Exit
<1>3. Crash => crashes' = crashes + 1
  BY Zenon DEF Crash
<1>4. crashes' \in Nat /\ (crashes' = 0 => crashes = 0 /\ ~Crash)
  BY <1>1, <1>2, <1>3
<1>5. ASSUME SyncInv, ~Crash PROVE SyncInv'
  <2>1. CASE NewBlock
    BY <1>0, <1>5, <2>1, NewBlockKeepsSyncInv, Zenon
  <2>2. CASE Open
    BY <1>1, <1>5, <2>2, OpenKeepsSyncInv, Zenon
  <2>3. CASE Fetch
    BY <1>1, <1>5, <2>3, FetchKeepsSyncInv
  <2>4. CASE Receive
    BY <1>1, <1>5, <2>4, ReceiveKeepsSyncInv
  <2>5. CASE MarkSpent
    BY <1>1, <1>5, <2>5, MarkSpentKeepsSyncInv
  <2>6. CASE NextEvent
    BY <1>1, <1>5, <2>6, NextEventKeepsSyncInv
  <2>7. CASE Sync \/ OpenState \/ WriteState \/ OpenTree \/ WriteTree \/ Check
    BY <1>1, <1>5, <2>7, SavingKeepsSyncInv, Zenon
  <2>8. CASE Exit
    BY <1>1, <1>5, <2>8, ExitKeepsSyncInv
  <2>9. CASE UNCHANGED vars
    <3>1. /\ chain' = chain /\ UNCHANGED <<map, notes, spent, tree, nextAddr>>
          /\ UNCHANGED <<wpc, next, start, end, queue, pos, root, stateFile, treeFile>>
      BY <2>9, Zenon DEF vars, memVars, fileVars
    <3>2. /\ \A b : Exact(b) => Exact(b)'
          /\ \A b : ExactAt(b) => ExactAt(b)'
          /\ \A b : Leaves(b)' = Leaves(b) /\ Inserted(b)' = Inserted(b)
      BY <3>1, ExactKept, SameChain, Zenon
    <3>3. Current' = Current /\ StateSaved' = StateSaved /\ TreeSaved' = TreeSaved
      BY <3>1, Zenon DEF Current, StateSaved, TreeSaved
    <3>4. FilesExact => FilesExact'
      <4>1. \A b : /\ Leaves(b)' = Leaves(b) /\ MineUpTo(b)' = MineUpTo(b)
                   /\ SpentUpTo(b)' = SpentUpTo(b)
        BY <3>1, SameChain, Zenon
      <4> QED BY <3>1, <4>1, Zenon DEF FilesExact, Files
    <3>5. next' - 1 = next - 1 /\ start' - 1 = start - 1
      BY <3>1, Zenon
    <3>6. /\ Exact(next - 1) => Exact(next - 1)'
          /\ Exact(start - 1) => Exact(start - 1)'
          /\ ExactAt(Current) => ExactAt(Current)'
          /\ Leaves(next - 1)' = Leaves(next - 1) /\ Leaves(start - 1)' = Leaves(start - 1)
          /\ Inserted(next - 1)' = Inserted(next - 1) /\ Inserted(start - 1)' = Inserted(start - 1)
      BY <3>2, <3>3, <3>5, Zenon
    <3> QED BY <1>5, <3>1, <3>3, <3>4, <3>6, Zenon DEF SyncInv, RootAt
  <2> QED BY <1>5, <2>1, <2>2, <2>3, <2>4, <2>5, <2>6, <2>7, <2>8, <2>9, Zenon DEF Next, SyncStep
<1> QED BY <1>1, <1>4, <1>5, Zenon DEF WalletInv

\* The invariant holds in every behaviour.
LEMMA WalletInvariant == Spec => []WalletInv
  BY WalletInit, WalletInductive, PTL DEF Spec

(* A wallet that never crashed is exact whenever it is open: do_sync        *)
(* (cli/utils.py), receive_notes and mark_nullifiers_used (wallet.py) record *)
(* every note of ours once, with the number of event outputs before it as   *)
(* its address, and move exactly the spent ones.  A direct insert into the  *)
(* contract's tree shifts the contract's addresses, not the wallet's files. *)
THEOREM SyncedIsExact == Spec => []SyncedWalletExact
<1>1. WalletInv => SyncedWalletExact
  <2> SUFFICES ASSUME WalletInv, wpc = "ready", crashes = 0
               PROVE  LET b == next - 1 IN
                      /\ notes = {[note |-> n, addr |-> n] : n \in MineUpTo(b) \ SpentUpTo(b)}
                      /\ spent = {[note |-> n, addr |-> n] : n \in MineUpTo(b) \cap SpentUpTo(b)}
                      /\ map = MineUpTo(b) \ SpentUpTo(b)
                      /\ InOrder(tree, Leaves(b))
    BY Zenon DEF SyncedWalletExact
  <2>1. Exact(next - 1)
    BY Zenon DEF WalletInv, SyncInv
  <2>2. map = MineUpTo(next - 1) \ SpentUpTo(next - 1)
    BY <2>1, Zenon DEF Exact
  <2>3. MineUpTo(next - 1) \ map = MineUpTo(next - 1) \cap SpentUpTo(next - 1)
    BY <2>2, Zenon
  <2> QED BY <2>1, <2>2, <2>3, Zenon DEF Exact, Files
<1> QED BY <1>1, WalletInvariant, PTL

(* Without a crash, the assertion new_merkle_root == our_merkle_root of    *)
(* do_sync fails exactly when something was inserted directly into the     *)
(* contract's tree before the last event, and a wallet none of whose       *)
(* blocks has a direct insert fails in nothing.                            *)
AssertionUnlessDisturbed ==
  crashes = 0 =>
    /\ wpc = "check" => \A r \in root : SameRoot(r) <=> r.direct = {}
    /\ Inserted(next - 1) = {} => RootAssertion /\ wpc # "failed"

(* A synchronisation fails the assertion (cli/utils.py:330) only after a   *)
(* crash, or after a direct insert in the blocks it has covered.  The      *)
(* violation that TLC finds without direct inserts needs the crash.        *)
THEOREM AssertionNeedsDisturbance == Spec => []AssertionUnlessDisturbed
<1>1. WalletInv => AssertionUnlessDisturbed
  <2> SUFFICES ASSUME WalletInv, crashes = 0
               PROVE  /\ wpc = "check" => \A r \in root : SameRoot(r) <=> r.direct = {}
                      /\ Inserted(next - 1) = {} => RootAssertion /\ wpc # "failed"
    BY Zenon DEF AssertionUnlessDisturbed
  <2>1. wpc = "check" => \A r \in root : InOrder(tree, r.mixed) /\ r.direct \subseteq Inserted(next - 1)
    BY Zenon DEF WalletInv, SyncInv, Exact, RootAt
  <2>2. wpc = "failed" => Inserted(next - 1) # {}
    BY Zenon DEF WalletInv, SyncInv
  <2>3. wpc = "check" => \A r \in root : SameRoot(r) <=> r.direct = {}
    BY <2>1, Zenon DEF SameRoot
  <2>4. Inserted(next - 1) = {} => RootAssertion
    BY <2>1, <2>3, Zenon DEF RootAssertion
  <2> QED BY <2>2, <2>3, <2>4, Zenon
<1> QED BY <1>1, WalletInvariant, PTL
=============================================================================
