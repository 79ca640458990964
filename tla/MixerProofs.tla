----------------------------- MODULE MixerProofs -----------------------------
(***************************************************************************)
(* Proofs about the mixer, for every number of inputs and outputs, every   *)
(* tree size and every set of owners, keys and phis.                       *)
(***************************************************************************)
EXTENDS Mixer, FiniteSetTheorems, TLAPS

(* What keeps rhos apart: the h_sig inside the rho of a leaf that a mix    *)
(* made contains a word that the contract has recorded, so a later call,   *)
(* whose words are new, has another h_sig.                                 *)
RhoInv ==
  \A l \in tree :
    l.mixed => /\ \E phi, hsig, i : l.note.rho = Rho(phi, hsig, i)
               /\ l.note.rho[2][1][1] \in nullifiers

(* What keeps spends apart, as long as words are canonical: the word of a  *)
(* spent note's nullifier is recorded.                                     *)
SpendInv ==
  lifts = 0 => \A s \in spends : Word(s.note, FALSE) \in nullifiers

MixerInv ==
  lifts \in Nat /\ RhoInv /\ SpendInv /\ RhosDistinct /\ NoDoubleSpend

\* An empty mixer satisfies the invariant.
LEMMA MixerInit == Init => MixerInv
<1> SUFFICES ASSUME Init PROVE MixerInv
  BY Zenon
<1>1. lifts \in Nat
  BY DEF Init
<1> QED BY <1>1, Zenon DEF Init, MixerInv, RhoInv, SpendInv, RhosDistinct,
                     NoDoubleSpend

(* A call refers to inputs by position, and the first one exists. *)
LEMMA FirstInput == 1 \in Inputs
  BY MixerAssumption DEF Inputs

(* The first word of an accepted call is inside its h_sig and new. *)
LEMMA AcceptedHSig ==
  ASSUME NEW call, Accepts(call)
  PROVE  /\ call.hsig[1][1] = Nullifiers(call)[1]
         /\ call.hsig[1][1] \notin nullifiers
  <1>1. Nullifiers(call)[1] \notin nullifiers
    BY FirstInput, Zenon DEF Accepts, FreshNullifiers, Nullifiers
  <1>2. call.hsig[1] = Nullifiers(call)
    BY DEF Accepts, HSigMatches, HSig
  <1> QED BY <1>1, <1>2, Zenon

(* An accepted call reveals new words, one per input. *)
LEMMA AcceptedWords ==
  ASSUME NEW call, Accepts(call), NEW i \in Inputs, NEW j \in Inputs
  PROVE  /\ Nullifiers(call)[i] \notin nullifiers
         /\ Nullifiers(call)[i] = Nullifiers(call)[j] => i = j
  <1> DEFINE nfs == Nullifiers(call)
  <1>2. DOMAIN nfs = Inputs
    BY Zenon DEF Nullifiers
  <1>3. \A k \in Inputs :
          nfs[k] \notin nullifiers \cup {nfs[m] : m \in 1 .. k - 1}
    BY <1>2, Zenon DEF Accepts, FreshNullifiers
  <1>4. i \in 1 .. NumIn /\ j \in 1 .. NumIn /\ NumIn \in Nat
    BY MixerAssumption, Zenon DEF Inputs
  <1>5. nfs[i] = nfs[j] => ~(i < j) /\ ~(j < i)
    <2>1. ASSUME i < j PROVE nfs[i] # nfs[j]
      <3>1. i \in 1 .. j - 1 BY <1>4, <2>1
      <3> QED BY <3>1, <1>3, Zenon
    <2>2. ASSUME j < i PROVE nfs[i] # nfs[j]
      <3>1. j \in 1 .. i - 1 BY <1>4, <2>2
      <3> QED BY <3>1, <1>3, Zenon
    <2> QED BY <2>1, <2>2, Zenon
  <1> HIDE DEF nfs
  <1> QED BY <1>3, <1>4, <1>5 DEF nfs

(* If its inputs are canonical, the words are those of the notes it spends. *)
LEMMA CanonicalWords ==
  ASSUME NEW call, call.lifted = {}, NEW i \in Inputs
  PROVE  Nullifiers(call)[i] = Word(call.ins[i], FALSE)
  <1>1. (i \in call.lifted) = FALSE
    OBVIOUS
  <1>2. Nullifiers(call)[i] = Word(call.ins[i], i \in call.lifted)
    BY Zenon DEF Nullifiers
  <1> QED BY <1>1, <1>2, Zenon

(* Then they are new, and the notes are different. *)
LEMMA AcceptedNullifiers ==
  ASSUME NEW call, Accepts(call), call.lifted = {}, NEW i \in Inputs,
         NEW j \in Inputs
  PROVE  /\ Word(call.ins[i], FALSE) \notin nullifiers
         /\ call.ins[i] = call.ins[j] => i = j
  <1>1. /\ Nullifiers(call)[i] = Word(call.ins[i], FALSE)
        /\ Nullifiers(call)[j] = Word(call.ins[j], FALSE)
    BY CanonicalWords, Zenon
  <1>2. /\ Nullifiers(call)[i] \notin nullifiers
        /\ Nullifiers(call)[i] = Nullifiers(call)[j] => i = j
    BY AcceptedWords, Zenon
  <1> QED BY <1>1, <1>2, Zenon

(* What a call leaves behind. *)
NewLeaf(call, i) == [addr |-> LeafAddress(i), note |-> Commitment(call, i),
                     mixed |-> TRUE]
NewLeaves(call) == {NewLeaf(call, i) : i \in Outputs}
NewSpend(call, i) == [mix |-> numLeaves, pos |-> i, note |-> call.ins[i],
                      foreign |-> call.ins[i] \in Foreign]

(* A count that did not grow from zero was zero, and the call canonical. *)
LEMMA LiftsAfter ==
  ASSUME lifts \in Nat, NEW call, Mix(call)
  PROVE  /\ lifts' \in Nat
         /\ lifts' = 0 => lifts = 0 /\ call.lifted = {}
  <1>1. lifts' = IF call.lifted = {} THEN lifts ELSE lifts + 1
    BY Zenon DEF Mix
  <1>2. CASE call.lifted = {}
    BY <1>1, <1>2, Zenon
  <1>3. CASE call.lifted # {}
    <2>1. lifts' = lifts + 1
      BY <1>1, <1>3, Zenon
    <2> QED BY <2>1
  <1> QED BY <1>2, <1>3, Zenon

(* Every call keeps the invariant. *)
LEMMA MixKeepsInv ==
  ASSUME MixerInv, NEW call, Mix(call)
  PROVE  MixerInv'
  <1> DEFINE new == NewLeaves(call)
             spent == {NewSpend(call, i) : i \in Inputs}
  <1>1. /\ Accepts(call)
        /\ tree' = tree \cup new
        /\ spends' = spends \cup spent
        /\ nullifiers \subseteq nullifiers'
        /\ \A i \in Inputs : Nullifiers(call)[i] \in nullifiers'
    BY Zenon DEF Mix, NewLeaves, NewLeaf, NewSpend
  <1>2. \A l \in new : \E i \in Outputs :
          /\ l = NewLeaf(call, i)
          /\ l.note.rho = Rho(call.phi, call.hsig, i)
    BY DEF NewLeaves, NewLeaf, Commitment
  <1>3. \A s \in spent : \E i \in Inputs :
          /\ s = NewSpend(call, i)
          /\ s.note = call.ins[i]
    BY DEF NewSpend
  <1>4. /\ call.hsig[1][1] \notin nullifiers
        /\ call.hsig[1][1] \in nullifiers'
    BY <1>1, AcceptedHSig, FirstInput, Zenon
  <1>5. \A l \in new : /\ \E phi, hsig, i : l.note.rho = Rho(phi, hsig, i)
                       /\ l.note.rho[2] = call.hsig
    BY <1>2 DEF Rho
  <1>0. lifts' \in Nat /\ (lifts' = 0 => lifts = 0 /\ call.lifted = {})
    BY LiftsAfter, Zenon DEF MixerInv
  <1> HIDE DEF new, spent
  <1>6. RhoInv'
    BY <1>1, <1>4, <1>5, Zenon DEF MixerInv, RhoInv
  <1>7. SpendInv'
    <2> SUFFICES ASSUME lifts' = 0, NEW s \in spends'
                 PROVE  Word(s.note, FALSE) \in nullifiers'
      BY Zenon DEF SpendInv, Word, Nullifier
    <2>1. CASE s \in spends
      BY <1>0, <1>1, <2>1, Zenon DEF MixerInv, SpendInv
    <2>2. CASE s \in spent
      <3>1. PICK i \in Inputs : s.note = call.ins[i]
        BY <1>3, <2>2, Zenon
      <3>2. Nullifiers(call)[i] = Word(call.ins[i], FALSE)
        BY <1>0, CanonicalWords, Zenon
      <3> QED BY <1>1, <3>1, <3>2, Zenon
    <2> QED BY <1>1, <2>1, <2>2, Zenon
  <1>8. RhosDistinct'
    <2>1. ASSUME NEW k \in new, NEW l \in new, k.note.rho = l.note.rho
          PROVE  k = l
      <3>1. PICK i \in Outputs : k = NewLeaf(call, i) /\ k.note.rho = Rho(call.phi, call.hsig, i)
        BY <1>2, Zenon
      <3>2. PICK j \in Outputs : l = NewLeaf(call, j) /\ l.note.rho = Rho(call.phi, call.hsig, j)
        BY <1>2, Zenon
      <3>3. i = j
        BY <2>1, <3>1, <3>2 DEF Rho
      <3> QED BY <3>1, <3>2, <3>3, Zenon
    <2>2. ASSUME NEW k \in tree, k.mixed, NEW l \in new
          PROVE  k.note.rho # l.note.rho
      BY <1>4, <1>5, <2>2, Zenon DEF MixerInv, RhoInv
    <2> QED BY <1>1, <2>1, <2>2, Zenon DEF MixerInv, RhosDistinct
  <1>9. NoDoubleSpend'
    <2> SUFFICES ASSUME lifts' = 0 PROVE (\A s, t \in spends : s.note = t.note => s = t)'
      BY Zenon DEF NoDoubleSpend
    <2>0. lifts = 0 /\ call.lifted = {}
      BY <1>0, Zenon
    <2>1. ASSUME NEW s \in spent, NEW t \in spent, s.note = t.note
          PROVE  s = t
      BY <1>1, <1>3, <2>0, <2>1, AcceptedNullifiers, Zenon
    <2>2. ASSUME NEW s \in spends, NEW t \in spent
          PROVE  s.note # t.note
      BY <1>1, <1>3, <2>0, AcceptedNullifiers, Zenon DEF MixerInv, SpendInv
    <2> QED BY <1>1, <2>0, <2>1, <2>2, Zenon DEF MixerInv, NoDoubleSpend
  <1> QED BY <1>0, <1>6, <1>7, <1>8, <1>9, Zenon DEF MixerInv

(* A leaf inserted directly is none that a mix made. *)
LEMMA InsertKeepsInv ==
  ASSUME MixerInv, NEW note, Insert(note)
  PROVE  MixerInv'
  <1>1. \A l \in tree' : l.mixed => l \in tree
    BY DEF Insert
  <1>2. nullifiers' = nullifiers /\ spends' = spends /\ lifts' = lifts
    BY Zenon DEF Insert
  <1>3. RhoInv'
    BY <1>1, <1>2, Zenon DEF MixerInv, RhoInv
  <1>4. SpendInv' /\ NoDoubleSpend'
    BY <1>2, Zenon DEF MixerInv, SpendInv, NoDoubleSpend
  <1>5. RhosDistinct'
    BY <1>1, Zenon DEF MixerInv, RhosDistinct
  <1> QED BY <1>2, <1>3, <1>4, <1>5, Zenon DEF MixerInv

\* Every step keeps the invariant.
LEMMA MixerInductive == MixerInv /\ [Next]_vars => MixerInv'
  <1> SUFFICES ASSUME MixerInv, [Next]_vars PROVE MixerInv'
    BY Zenon
  <1>1. ASSUME NEW call, Mix(call) PROVE MixerInv'
    BY <1>1, MixKeepsInv, Zenon
  <1>2. ASSUME NEW note, Insert(note) PROVE MixerInv'
    BY <1>2, InsertKeepsInv, Zenon
  <1>3. CASE Pay
    BY <1>3, Zenon DEF Pay, MixerInv, RhoInv, SpendInv, RhosDistinct,
                NoDoubleSpend
  <1>4. CASE UNCHANGED vars
    BY <1>4, Zenon DEF vars, MixerInv, RhoInv, SpendInv, RhosDistinct,
                NoDoubleSpend
  <1> QED BY <1>1, <1>2, <1>3, <1>4, Zenon DEF Next, MixAny, InsertAny

\* The invariant holds in every behaviour.
LEMMA MixerInvariant == Spec => []MixerInv
  BY MixerInit, MixerInductive, PTL DEF Spec

(* The rhos of the notes that mixes make are distinct: the check of h_sig  *)
(* against the nullifier words (AbstractMixer.sol:398-407), each recorded  *)
(* once, makes every output note's nullifier its own.  It needs no         *)
(* assumption on the words, nor on what is inserted directly.              *)
THEOREM RhosAreDistinct == Spec => []RhosDistinct
  <1>1. MixerInv => RhosDistinct BY Zenon DEF MixerInv
  <1> QED BY <1>1, MixerInvariant, PTL

(* As long as public inputs are canonical, no note is spent twice, by one  *)
(* call or by two, whatever leaves are inserted for it.                    *)
THEOREM NotesSpentOnce == Spec => []NoDoubleSpend
  <1>1. MixerInv => NoDoubleSpend BY Zenon DEF MixerInv
  <1> QED BY <1>1, MixerInvariant, PTL
-----------------------------------------------------------------------------
(* Facts about finite sets and about sums over them (SumFunctionOnSet of   *)
(* the module Functions), by a minimal counterexample, which exists as     *)
(* strict inclusion is well founded on finite sets.                        *)
(* Every non-empty collection of finite sets has a minimal one. *)
LEMMA MinimalFinite ==
  ASSUME NEW C, NEW S \in C, IsFiniteSet(S)
  PROVE  \E T \in C : IsFiniteSet(T) /\ \A U \in C : U \subseteq T => U = T
<1> DEFINE D == {T \in C : T \subseteq S /\ IsFiniteSet(T)}
<1>1. D \subseteq FiniteSubsetsOf(S) /\ D # {}
  BY Zenon DEF FiniteSubsetsOf
<1>2. IsWellFoundedOn(StrictSubsetOrdering(S), FiniteSubsetsOf(S))
  BY FS_StrictSubsetOrderingWellFounded, Zenon
<1>3. PICK T \in D : \A U \in D : ~(<<U, T>> \in StrictSubsetOrdering(S))
  BY <1>1, <1>2, WFMin, Zenon
<1>4. ASSUME NEW U \in C, U \subseteq T PROVE U = T
  <2>1. IsFiniteSet(U)
    BY <1>3, <1>4, FS_Subset, Zenon
  <2>2. U \in D
    BY <1>3, <1>4, <2>1, Zenon
  <2>3. <<U, T>> \in (SUBSET S) \X (SUBSET S)
    BY <1>3, <1>4, Zenon
  <2>4. <<U, T>> \notin StrictSubsetOrdering(S)
    BY <1>3, <2>2, Zenon
  <2> QED BY <1>4, <2>3, <2>4, Zenon DEF StrictSubsetOrdering
<1> QED BY <1>3, <1>4, Zenon

(* The recursion inside a sum: g has the sum of f over every part of S,    *)
(* taking out one element at a time.                                       *)
Pick(s) == CHOOSE x \in s : TRUE
PartSums(f, S, g) ==
  g = [s \in SUBSET S |-> IF s = {} THEN 0 ELSE f[Pick(s)] + g[s \ {Pick(s)}]]

\* The sum over S is the value at S of such a g.
LEMMA SumUnfolds ==
  ASSUME NEW f, NEW S
  PROVE  SumFunctionOnSet(f, S) = (CHOOSE g : PartSums(f, S, g))[S]
  BY Zenon DEF SumFunctionOnSet, FoldFunctionOnSet, MapThenFoldSet, PartSums, Pick

\* The element that is taken out is there.
LEMMA PickIn == \A s : s # {} => Pick(s) \in s
  BY Zenon DEF Pick

\* The recursion at one part.
LEMMA PartSumsAt ==
  ASSUME NEW f, NEW S, NEW g, PartSums(f, S, g), NEW T \in SUBSET S
  PROVE  g[T] = IF T = {} THEN 0 ELSE f[Pick(T)] + g[T \ {Pick(T)}]
<1> DEFINE E(s) == IF s = {} THEN 0 ELSE f[Pick(s)] + g[s \ {Pick(s)}]
<1>1. g = [s \in SUBSET S |-> E(s)]
  BY Zenon DEF PartSums
<1> HIDE DEF E
<1>2. g[T] = E(T)
  BY <1>1, Zenon
<1> QED BY <1>2, Zenon DEF E

\* The sums of the parts do not depend on the whole.
LEMMA PartSumsUnique ==
  ASSUME NEW f, NEW S, NEW T, NEW g, NEW h, PartSums(f, S, g), PartSums(f, T, h),
         NEW U \in (SUBSET S) \cap (SUBSET T), IsFiniteSet(U)
  PROVE  g[U] = h[U]
<1> DEFINE C == {V \in (SUBSET S) \cap (SUBSET T) : g[V] # h[V]}
<1> SUFFICES ASSUME U \in C PROVE FALSE
  BY Zenon
<1>1. PICK V \in C : IsFiniteSet(V) /\ \A W \in C : W \subseteq V => W = V
  <2> HIDE DEF C
  <2> QED BY MinimalFinite
<1>2. V \in SUBSET S /\ V \in SUBSET T /\ g[V] # h[V]
  BY <1>1, Zenon
<1>3. /\ g[V] = (IF V = {} THEN 0 ELSE f[Pick(V)] + g[V \ {Pick(V)}])
      /\ h[V] = (IF V = {} THEN 0 ELSE f[Pick(V)] + h[V \ {Pick(V)}])
  BY <1>2, PartSumsAt
<1>4. V # {}
  BY <1>2, <1>3, Zenon
<1> DEFINE W == V \ {Pick(V)}
<1>5. W \subseteq V /\ W # V /\ W \in (SUBSET S) \cap (SUBSET T)
  BY <1>2, <1>4, PickIn, Zenon
<1>6. W \notin C
  <2> HIDE DEF C, W
  <2> QED BY <1>1, <1>5, Zenon
<1>7. g[W] = h[W]
  <2> HIDE DEF W
  <2> QED BY <1>5, <1>6, Zenon
<1> QED BY <1>2, <1>3, <1>4, <1>7, Zenon

\* The recursion defines the sums of a finite set.
LEMMA PartSumsExist ==
  ASSUME NEW f, NEW S, IsFiniteSet(S)
  PROVE  \E g : PartSums(f, S, g)
<1> DEFINE C == {T \in SUBSET S : ~ \E g : PartSums(f, T, g)}
<1> SUFFICES ASSUME S \in C PROVE FALSE
  BY Zenon
<1>1. PICK T \in C : IsFiniteSet(T) /\ \A U \in C : U \subseteq T => U = T
  <2> HIDE DEF C
  <2> QED BY MinimalFinite
<1> DEFINE G(U) == CHOOSE g : PartSums(f, U, g)
           E(s) == IF s = {} THEN 0 ELSE f[Pick(s)] + G(s \ {Pick(s)})[s \ {Pick(s)}]
           h == [s \in SUBSET T |-> E(s)]
<1>2. ASSUME NEW U \in SUBSET T, U # T PROVE PartSums(f, U, G(U)) /\ IsFiniteSet(U)
  <2>1. \E g : PartSums(f, U, g)
    BY <1>1, <1>2, Zenon
  <2>2. IsFiniteSet(U)
    BY <1>1, FS_Subset, Zenon
  <2> QED BY <2>1, <2>2, Zenon
<1>3. \A s \in SUBSET T : h[s] = E(s)
  <2> HIDE DEF E
  <2> QED BY Zenon
<1> HIDE DEF G, h
<1>4. ASSUME NEW U \in SUBSET T, U # T PROVE h[U] = G(U)[U]
  <2>1. PartSums(f, U, G(U))
    BY <1>2, <1>4, Zenon
  <2>2. G(U)[U] = IF U = {} THEN 0 ELSE f[Pick(U)] + G(U)[U \ {Pick(U)}]
    BY <2>1, PartSumsAt
  <2>3. ASSUME U # {} PROVE G(U)[U \ {Pick(U)}] = G(U \ {Pick(U)})[U \ {Pick(U)}]
    <3> DEFINE V == U \ {Pick(U)}
    <3>1. V \in SUBSET T /\ V # T /\ V \in (SUBSET U) \cap (SUBSET V)
      BY <1>4, <2>3, PickIn, Zenon
    <3> HIDE DEF V
    <3>2. PartSums(f, V, G(V)) /\ IsFiniteSet(V)
      BY <1>2, <3>1, Zenon
    <3>3. G(U)[V] = G(V)[V]
      BY <2>1, <3>1, <3>2, PartSumsUnique
    <3> QED BY <3>3, Zenon DEF V
  <2> QED BY <1>3, <2>2, <2>3, Zenon
<1>5. ASSUME NEW s \in SUBSET T PROVE h[s] = IF s = {} THEN 0 ELSE f[Pick(s)] + h[s \ {Pick(s)}]
  <2>1. CASE s = {}
    BY <1>3, <2>1, Zenon
  <2>2. CASE s # {}
    <3> DEFINE V == s \ {Pick(s)}
    <3>1. V \in SUBSET T /\ V # T
      BY <2>2, PickIn, Zenon
    <3>2. h[s] = f[Pick(s)] + G(V)[V]
      BY <1>3, <2>2, Zenon
    <3>3. h[V] = G(V)[V]
      <4> HIDE DEF V
      <4> QED BY <1>4, <3>1, Zenon
    <3> QED BY <2>2, <3>2, <3>3, Zenon
  <2> QED BY <2>1, <2>2, Zenon
<1>6. h = [s \in SUBSET T |-> h[s]]
  <2> HIDE DEF E
  <2> QED BY Zenon DEF h
<1>7. PartSums(f, T, h)
  BY <1>5, <1>6, Zenon DEF PartSums
<1> QED BY <1>1, <1>7, Zenon
-----------------------------------------------------------------------------
\* The sum over a part is the part's sum, whatever the whole.
LEMMA SumIsPartSum ==
  ASSUME NEW f, NEW S, IsFiniteSet(S), NEW g, PartSums(f, S, g), NEW T \in SUBSET S
  PROVE  SumFunctionOnSet(f, T) = g[T]
<1> DEFINE h == CHOOSE h : PartSums(f, T, h)
<1>1. IsFiniteSet(T)
  BY FS_Subset, Zenon
<1>2. PartSums(f, T, h)
  BY <1>1, PartSumsExist, Zenon
<1>3. SumFunctionOnSet(f, T) = h[T]
  BY SumUnfolds, Zenon
<1> HIDE DEF h
<1>4. h[T] = g[T]
  BY <1>1, <1>2, PartSumsUnique
<1> QED BY <1>3, <1>4, Zenon

\* Nothing sums to nothing.
LEMMA SumEmpty == \A f : SumFunctionOnSet(f, {}) = 0
<1> TAKE f
<1>1. PICK g : PartSums(f, {}, g)
  BY FS_EmptySet, PartSumsExist, Zenon
<1>2. g[{}] = 0
  BY <1>1, PartSumsAt, Zenon
<1>3. SumFunctionOnSet(f, {}) = g[{}]
  BY <1>1, FS_EmptySet, SumIsPartSum, Zenon
<1> QED BY <1>2, <1>3, Zenon

\* One element is taken out, the one the recursion picks.
LEMMA SumPick ==
  ASSUME NEW f, NEW S, IsFiniteSet(S), S # {}
  PROVE  SumFunctionOnSet(f, S) = f[Pick(S)] + SumFunctionOnSet(f, S \ {Pick(S)})
<1>1. PICK g : PartSums(f, S, g)
  BY PartSumsExist, Zenon
<1>2. g[S] = f[Pick(S)] + g[S \ {Pick(S)}]
  BY <1>1, PartSumsAt
<1>3. g[S] = SumFunctionOnSet(f, S)
  BY <1>1, SumIsPartSum
<1>4. g[S \ {Pick(S)}] = SumFunctionOnSet(f, S \ {Pick(S)})
  BY <1>1, SumIsPartSum
<1> QED BY <1>2, <1>3, <1>4, Zenon

\* A sum of integers is an integer.
LEMMA SumType ==
  ASSUME NEW f, NEW S, IsFiniteSet(S), \A x \in S : f[x] \in Int
  PROVE  SumFunctionOnSet(f, S) \in Int
<1> DEFINE C == {T \in SUBSET S : SumFunctionOnSet(f, T) \notin Int}
<1> SUFFICES ASSUME S \in C PROVE FALSE
  BY Zenon
<1>1. PICK T \in C : IsFiniteSet(T) /\ \A U \in C : U \subseteq T => U = T
  <2> HIDE DEF C
  <2> QED BY MinimalFinite
<1>2. T \in SUBSET S /\ SumFunctionOnSet(f, T) \notin Int
  BY <1>1, Zenon
<1>3. T # {}
  BY <1>2, SumEmpty
<1> DEFINE U == T \ {Pick(T)}
<1>4. U \in SUBSET S /\ U \subseteq T /\ U # T /\ Pick(T) \in S
  BY <1>2, <1>3, PickIn, Zenon
<1>5. SumFunctionOnSet(f, T) = f[Pick(T)] + SumFunctionOnSet(f, U)
  BY <1>1, <1>3, SumPick, Zenon
<1> HIDE DEF U
<1>6. SumFunctionOnSet(f, U) \in Int
  BY <1>1, <1>4, Zenon
<1> QED BY <1>2, <1>4, <1>5, <1>6

\* Any element can be taken out.
LEMMA SumRemove ==
  ASSUME NEW f, NEW S, IsFiniteSet(S), \A x \in S : f[x] \in Int, NEW a \in S
  PROVE  SumFunctionOnSet(f, S) = f[a] + SumFunctionOnSet(f, S \ {a})
<1> DEFINE Sum(T) == SumFunctionOnSet(f, T)
           C == {T \in SUBSET S : \E x \in T : Sum(T) # f[x] + Sum(T \ {x})}
<1> SUFFICES ASSUME S \in C PROVE FALSE
  BY Zenon
<1>1. PICK T \in C : IsFiniteSet(T) /\ \A U \in C : U \subseteq T => U = T
  <2> HIDE DEF C
  <2> QED BY MinimalFinite
<1>2. T \in SUBSET S
  BY <1>1, Zenon
<1>3. PICK x \in T : Sum(T) # f[x] + Sum(T \ {x})
  BY <1>1, Zenon
<1> DEFINE p == Pick(T)
           U == T \ {p}
<1>4. p \in T
  BY <1>3, PickIn, Zenon
<1>5. Sum(T) = f[p] + Sum(U)
  BY <1>1, <1>3, SumPick, Zenon
<1>6. \A V \in SUBSET T : Sum(V) \in Int
  <2> TAKE V \in SUBSET T
  <2>1. IsFiniteSet(V) /\ \A y \in V : f[y] \in Int
    BY <1>1, <1>2, FS_Subset, Zenon
  <2> QED BY <2>1, SumType, Zenon
<1> HIDE DEF p, Sum
<1>7. x # p
  BY <1>3, <1>5, Zenon
<1>8. Sum(U) = f[x] + Sum(U \ {x})
  <2>1. U \in SUBSET S /\ U \subseteq T /\ U # T /\ x \in U
    BY <1>2, <1>4, <1>7, Zenon
  <2>2. U \notin C
    <3> HIDE DEF C, U
    <3> QED BY <1>1, <2>1, Zenon
  <2> HIDE DEF U
  <2> QED BY <2>1, <2>2, Zenon
<1>9. Sum(T \ {x}) = f[p] + Sum(U \ {x})
  <2> DEFINE V == T \ {x}
  <2>1. V \in SUBSET S /\ V \subseteq T /\ V # T /\ p \in V
    BY <1>2, <1>4, <1>7, Zenon
  <2>2. V \notin C
    <3> HIDE DEF C, V
    <3> QED BY <1>1, <2>1, Zenon
  <2>3. V \ {p} = U \ {x}
    BY Zenon
  <2> HIDE DEF V, U
  <2>4. Sum(V) = f[p] + Sum(V \ {p})
    BY <2>1, <2>2, Zenon
  <2> QED BY <2>3, <2>4, Zenon DEF V
<1>10. Sum(U \ {x}) \in Int /\ f[x] \in Int /\ f[p] \in Int
  BY <1>2, <1>4, <1>6, Zenon
<1> HIDE DEF U
<1> QED BY <1>3, <1>5, <1>8, <1>9, <1>10

\* Any new element can be put in.
LEMMA SumAdd ==
  ASSUME NEW f, NEW S, IsFiniteSet(S), NEW a, a \notin S, \A x \in S \cup {a} : f[x] \in Int
  PROVE  SumFunctionOnSet(f, S \cup {a}) = f[a] + SumFunctionOnSet(f, S)
<1> DEFINE T == S \cup {a}
<1>1. IsFiniteSet(T) /\ a \in T /\ T \ {a} = S
  BY FS_AddElement, Zenon
<1> HIDE DEF T
<1>2. SumFunctionOnSet(f, T) = f[a] + SumFunctionOnSet(f, T \ {a})
  BY <1>1, SumRemove DEF T
<1> QED BY <1>1, <1>2, Zenon DEF T

\* An element more leaves a set finite.
LEMMA FiniteAdd == \A S, x : IsFiniteSet(S) => IsFiniteSet(S \cup {x})
  BY FS_AddElement, Zenon

(* The map h, on the part J of I, goes once to every element of T, to a    *)
(* term of f that is the same as that of g; the other terms of g are zero. *)
SameTerms(g, I, f, T, J, h) ==
  /\ J \subseteq I
  /\ \A i \in I : g[i] \in Int
  /\ \A i \in I \ J : g[i] = 0
  /\ \A i \in J : h[i] \in T /\ f[h[i]] = g[i]
  /\ \A i, j \in J : h[i] = h[j] => i = j
  /\ \A t \in T : \E i \in J : t = h[i]

\* The same terms have the same sum.
LEMMA SumImage ==
  ASSUME NEW I, IsFiniteSet(I), NEW J, NEW T, NEW f, NEW g, NEW h, SameTerms(g, I, f, T, J, h)
  PROVE  IsFiniteSet(T) /\ SumFunctionOnSet(f, T) = SumFunctionOnSet(g, I)
<1> USE DEF SameTerms
<1> DEFINE Img(K) == {h[i] : i \in K \cap J}
           P(K) == IsFiniteSet(Img(K)) /\ SumFunctionOnSet(f, Img(K)) = SumFunctionOnSet(g, K)
           C == {K \in SUBSET I : ~P(K)}
<1>1. T = Img(I)
  OBVIOUS
<1> SUFFICES ASSUME I \in C PROVE FALSE
  BY <1>1, Zenon
<1>2. PICK K \in C : IsFiniteSet(K) /\ \A U \in C : U \subseteq K => U = K
  <2> HIDE DEF C
  <2> QED BY MinimalFinite
<1>3. K \in SUBSET I /\ ~P(K)
  BY <1>2, Zenon
<1>4. K # {}
  <2>1. Img({}) = {}
    BY Zenon
  <2>2. P({})
    BY <2>1, SumEmpty, FS_EmptySet, Zenon
  <2> QED BY <1>3, <2>2, Zenon
<1>5. PICK x \in K : TRUE
  BY <1>4, Zenon
<1> DEFINE L == K \ {x}
<1>6. L \in SUBSET I /\ L \subseteq K /\ L # K /\ K = L \cup {x} /\ x \notin L /\ x \in I
  BY <1>3, <1>5, Zenon
<1>7. P(L) /\ IsFiniteSet(L)
  <2>1. IsFiniteSet(L)
    BY <1>2, FS_RemoveElement, Zenon
  <2> HIDE DEF L, P
  <2> QED BY <1>2, <1>6, <2>1, Zenon
<1>8. SumFunctionOnSet(g, K) = g[x] + SumFunctionOnSet(g, L)
  BY <1>2, <1>3, <1>5, SumRemove
<1>9. SumFunctionOnSet(g, L) \in Int
  BY <1>6, <1>7, SumType, Zenon
<1> HIDE DEF L
<1>10. CASE x \notin J
  <2>1. Img(K) = Img(L)
    BY <1>6, <1>10
  <2>2. g[x] = 0
    BY <1>6, <1>10, Zenon
  <2> HIDE DEF Img
  <2> QED BY <1>3, <1>7, <1>8, <1>9, <2>1, <2>2
<1>11. CASE x \in J
  <2>1. Img(K) = Img(L) \cup {h[x]}
    BY <1>6, <1>11
  <2>2. h[x] \notin Img(L)
    BY <1>6, <1>11
  <2>3. \A y \in Img(L) \cup {h[x]} : f[y] \in Int
    BY <1>6, <1>11
  <2>4. f[h[x]] = g[x]
    BY <1>11, Zenon
  <2> HIDE DEF Img
  <2>5. IsFiniteSet(Img(L))
    BY <1>7, Zenon
  <2>6. SumFunctionOnSet(f, Img(K)) = f[h[x]] + SumFunctionOnSet(f, Img(L))
    BY <2>1, <2>2, <2>3, <2>5, SumAdd
  <2>7. IsFiniteSet(Img(L) \cup {h[x]})
    BY <2>5, FiniteAdd, Zenon
  <2> QED BY <1>3, <1>7, <1>8, <2>1, <2>4, <2>6, <2>7, Zenon
<1> QED BY <1>10, <1>11, Zenon

\* A sum depends on the terms only.
LEMMA SumSame ==
  ASSUME NEW S, IsFiniteSet(S), NEW f, NEW g, \A x \in S : f[x] \in Int /\ f[x] = g[x]
  PROVE  SumFunctionOnSet(f, S) = SumFunctionOnSet(g, S)
<1>1. SameTerms(f, S, g, S, S, [x \in S |-> x])
  BY Zenon DEF SameTerms
<1> QED BY <1>1, SumImage

\* The sum over two parts is the sum of their sums.
LEMMA SumUnion ==
  ASSUME NEW S, IsFiniteSet(S), NEW T, IsFiniteSet(T), S \cap T = {},
         NEW f, \A x \in S \cup T : f[x] \in Int
  PROVE  SumFunctionOnSet(f, S \cup T) = SumFunctionOnSet(f, S) + SumFunctionOnSet(f, T)
<1> DEFINE P(U) == SumFunctionOnSet(f, S \cup U) = SumFunctionOnSet(f, S) + SumFunctionOnSet(f, U)
           C == {U \in SUBSET T : ~P(U)}
<1> SUFFICES ASSUME T \in C PROVE FALSE
  BY Zenon
<1>1. PICK U \in C : IsFiniteSet(U) /\ \A V \in C : V \subseteq U => V = U
  <2> HIDE DEF C
  <2> QED BY MinimalFinite
<1>2. U \in SUBSET T /\ ~P(U)
  BY <1>1, Zenon
<1>3. SumFunctionOnSet(f, S) \in Int
  BY SumType, Zenon
<1>4. U # {}
  <2>1. S \cup {} = S
    BY Zenon
  <2> QED BY <1>2, <1>3, <2>1, SumEmpty
<1>5. PICK x \in U : TRUE
  BY <1>4, Zenon
<1> DEFINE V == U \ {x}
<1>6. V \in SUBSET T /\ V \subseteq U /\ V # U /\ x \notin V /\ x \in T /\ x \notin S /\ U = V \cup {x}
  BY <1>2, <1>5, Zenon
<1> HIDE DEF V
<1>7. IsFiniteSet(V) /\ IsFiniteSet(S \cup V)
  BY <1>1, <1>6, FS_Subset, FS_Union, Zenon
<1>8. P(V)
  <2> HIDE DEF P
  <2> QED BY <1>1, <1>6, Zenon
<1>9. SumFunctionOnSet(f, U) = f[x] + SumFunctionOnSet(f, V)
  BY <1>6, <1>7, SumAdd, Zenon
<1>10. SumFunctionOnSet(f, S \cup U) = f[x] + SumFunctionOnSet(f, S \cup V)
  <2>1. S \cup U = (S \cup V) \cup {x} /\ x \notin S \cup V
    BY <1>6, Zenon
  <2>2. \A y \in (S \cup V) \cup {x} : f[y] \in Int
    BY <1>6, Zenon
  <2> DEFINE W == S \cup V
  <2> HIDE DEF W
  <2>3. SumFunctionOnSet(f, W \cup {x}) = f[x] + SumFunctionOnSet(f, W)
    BY <1>7, <2>1, <2>2, SumAdd, Zenon DEF W
  <2> QED BY <2>1, <2>3, Zenon DEF W
<1>11. SumFunctionOnSet(f, V) \in Int /\ f[x] \in Int
  BY <1>6, <1>7, SumType, Zenon
<1> QED BY <1>2, <1>3, <1>8, <1>9, <1>10, <1>11

\* A sum of natural numbers is one.
LEMMA SumNat ==
  ASSUME NEW f, NEW S, IsFiniteSet(S), \A x \in S : f[x] \in Nat
  PROVE  SumFunctionOnSet(f, S) \in Nat
<1> DEFINE C == {T \in SUBSET S : SumFunctionOnSet(f, T) \notin Nat}
<1> SUFFICES ASSUME S \in C PROVE FALSE
  BY Zenon
<1>1. PICK T \in C : IsFiniteSet(T) /\ \A U \in C : U \subseteq T => U = T
  <2> HIDE DEF C
  <2> QED BY MinimalFinite
<1>2. T \in SUBSET S /\ SumFunctionOnSet(f, T) \notin Nat
  BY <1>1, Zenon
<1>3. T # {}
  BY <1>2, SumEmpty
<1> DEFINE U == T \ {Pick(T)}
<1>4. U \in SUBSET S /\ U \subseteq T /\ U # T /\ Pick(T) \in S
  BY <1>2, <1>3, PickIn, Zenon
<1>5. SumFunctionOnSet(f, T) = f[Pick(T)] + SumFunctionOnSet(f, U)
  BY <1>1, <1>3, SumPick, Zenon
<1> HIDE DEF U
<1>6. SumFunctionOnSet(f, U) \in Nat
  BY <1>1, <1>4, Zenon
<1> QED BY <1>2, <1>4, <1>5, <1>6

\* A part of a set of natural numbers sums to no more than the whole.
LEMMA SumPart ==
  ASSUME NEW f, NEW T, IsFiniteSet(T), \A x \in T : f[x] \in Nat, NEW S \in SUBSET T
  PROVE  /\ SumFunctionOnSet(f, S) \in Nat /\ SumFunctionOnSet(f, T) \in Nat
         /\ SumFunctionOnSet(f, S) <= SumFunctionOnSet(f, T)
<1> DEFINE R == T \ S
<1>1. IsFiniteSet(S) /\ IsFiniteSet(R)
  BY FS_Subset, Zenon
<1>2. S \cup R = T /\ S \cap R = {}
  BY Zenon
<1>3. /\ SumFunctionOnSet(f, S) \in Nat /\ SumFunctionOnSet(f, R) \in Nat
      /\ SumFunctionOnSet(f, T) \in Nat
  BY <1>1, <1>2, SumNat, Zenon
<1>4. \A x \in S \cup R : f[x] \in Int
  BY <1>2
<1> HIDE DEF R
<1>5. SumFunctionOnSet(f, S \cup R) = SumFunctionOnSet(f, S) + SumFunctionOnSet(f, R)
  BY <1>1, <1>2, <1>4, SumUnion, Zenon
<1>6. SumFunctionOnSet(f, T) = SumFunctionOnSet(f, S) + SumFunctionOnSet(f, R)
  BY <1>2, <1>5, Zenon
<1> QED BY <1>3, <1>6

\* The sum of a sequence is its head plus the sum of its tail.
LEMMA SumTail ==
  ASSUME NEW s \in Seq(Int), s # <<>>
  PROVE  SumFunction(s) = Head(s) + SumFunction(Tail(s))
<1> DEFINE n == Len(s)
           I == 1 .. n - 1
           T == 2 .. n
           h == [i \in I |-> i + 1]
<1>1. n \in Nat /\ n # 0 /\ DOMAIN s = 1 .. n /\ DOMAIN Tail(s) = I
  OBVIOUS
<1>2. 1 .. n = T \cup {1} /\ 1 \notin T
  BY <1>1
<1>3. IsFiniteSet(1 .. n) /\ IsFiniteSet(I)
  BY <1>1, FS_Interval
<1>4. SumFunctionOnSet(s, 1 .. n) = s[1] + SumFunctionOnSet(s, T)
  <2> DEFINE R == 1 .. n
  <2>1. R \ {1} = T /\ 1 \in R /\ \A i \in R : s[i] \in Int
    BY <1>1
  <2>2. IsFiniteSet(R)
    BY <1>3, Zenon
  <2> HIDE DEF R, T
  <2>3. SumFunctionOnSet(s, R) = s[1] + SumFunctionOnSet(s, R \ {1})
    BY <2>1, <2>2, SumRemove
  <2> QED BY <2>1, <2>3, Zenon DEF R
<1>5. SameTerms(Tail(s), I, s, T, I, h)
  <2>1. \A i \in I : i \in Nat /\ i + 1 \in 1 .. n /\ Tail(s)[i] = s[i + 1] /\ s[i + 1] \in Int
    BY <1>1
  <2>2. \A i \in I : h[i] \in T /\ s[h[i]] = Tail(s)[i]
    BY <1>1, <2>1
  <2>3. \A i, j \in I : h[i] = h[j] => i = j
    BY <2>1
  <2>4. \A t \in T : t - 1 \in I /\ t = h[t - 1]
    BY <1>1
  <2>5. \A t \in T : \E i \in I : t = h[i]
    BY <2>4, Zenon
  <2> QED BY <2>1, <2>2, <2>3, <2>5, Zenon DEF SameTerms
<1> HIDE DEF n, I, T, h
<1>6. SumFunctionOnSet(s, T) = SumFunctionOnSet(Tail(s), I)
  BY <1>3, <1>5, SumImage
<1> QED BY <1>1, <1>4, <1>6 DEF SumFunction, n

-----------------------------------------------------------------------------
(* For the balance: what is summed is finite and numbers. *)
LeafInv == IsFiniteSet(tree) /\ \A l \in tree : l.note.value \in Nat

FundsInv ==
  /\ useToken \in BOOLEAN
  /\ ether \in Int /\ tokens \in Int /\ due \in Seq(Int)

BalanceInv == MixerInv /\ LeafInv /\ FundsInv /\ Solvent

(* What Next asks of the contract. *)
CallOK(call) ==
  /\ call.ins = [i \in Inputs |-> call.ins[i]]
  /\ \A i \in Inputs : call.ins[i].value \in Nat
  /\ call.outs = [i \in Outputs |-> call.outs[i]]
  /\ \A i \in Outputs : call.outs[i].value \in Nat
  /\ call.vin \in Nat /\ call.vout \in Nat /\ call.value \in Nat

(* A call that the balance is about: canonical, and what it spends has     *)
(* been made by mixes or has no value.                                     *)
Regular(call) ==
  /\ call.lifted = {}
  /\ \A i \in Inputs : call.ins[i].value > 0 => call.ins[i] \notin Foreign

(* The leaves whose value goes into a call. *)
SpentLeaves(call) ==
  {l \in Unspent :
     \E i \in Inputs : call.ins[i].value > 0 /\ call.ins[i] = l.note}

(* What a regular call spends is made by a mix and unspent. *)
LEMMA InputsMade ==
  ASSUME NEW call, Accepts(call), Regular(call), NEW i \in Inputs,
         call.ins[i].value > 0
  PROVE  \E l \in Unspent : l.note = call.ins[i]
<1>1. call.ins[i] \in NotesAt(call.root)
  BY Zenon DEF Accepts, JoinSplit
<1>2. call.ins[i] \in {l.note : l \in tree}
  BY <1>1, Zenon DEF NotesAt
<1>3. call.ins[i] \in Made
  BY <1>2, Zenon DEF Regular, Foreign
<1>4. PICK l \in tree : l.mixed /\ l.note = call.ins[i]
  BY <1>3, Zenon DEF Made
<1>5. Word(call.ins[i], FALSE) \notin nullifiers
  BY AcceptedNullifiers, Zenon DEF Regular
<1> QED BY <1>4, <1>5, Zenon DEF Unspent

\* What a regular call spends is what its inputs are worth.
LEMMA SpentWorth ==
  ASSUME BalanceInv, NEW call, CallOK(call), Accepts(call), Regular(call),
         NEW W, \A l \in tree : W[l] = l.note.value
  PROVE  /\ SumFunctionOnSet(W, SpentLeaves(call)) = Total(call.ins)
         /\ Total(call.ins) \in Int
<1> DEFINE g == [i \in DOMAIN call.ins |-> call.ins[i].value]
           J == {i \in Inputs : call.ins[i].value > 0}
           h == [i \in J |-> CHOOSE l \in Unspent : l.note = call.ins[i]]
<1>1. DOMAIN call.ins = Inputs
  BY Zenon DEF CallOK
<1>2. \A i \in Inputs : g[i] = call.ins[i].value /\ g[i] \in Nat
  BY <1>1, Zenon DEF CallOK
<1>3. \A i \in Inputs \ J : g[i] = 0
  BY <1>2
<1>4. \A i \in J : h[i] \in Unspent /\ h[i].note = call.ins[i]
  BY InputsMade, Zenon
<1>0. Unspent \subseteq tree
  BY Zenon DEF Unspent
<1> HIDE DEF g, h
<1>5. \A i \in J : h[i] \in SpentLeaves(call) /\ W[h[i]] = g[i]
  BY <1>0, <1>2, <1>4, Zenon DEF SpentLeaves
<1>6. \A i, j \in J : h[i] = h[j] => i = j
  <2> SUFFICES ASSUME NEW i \in J, NEW j \in J, h[i] = h[j] PROVE i = j
    BY Zenon
  <2>1. call.ins[i] = call.ins[j] /\ call.lifted = {}
    BY <1>4, Zenon DEF Regular
  <2> QED BY <2>1, AcceptedNullifiers, Zenon
<1>7. \A l \in SpentLeaves(call) : \E i \in J : l = h[i]
  <2> SUFFICES ASSUME NEW l \in SpentLeaves(call) PROVE \E i \in J : l = h[i]
    BY Zenon
  <2>1. l \in tree /\ l.mixed
    BY Zenon DEF SpentLeaves, Unspent
  <2>2. PICK i \in J : call.ins[i] = l.note
    BY Zenon DEF SpentLeaves
  <2>3. h[i] \in tree /\ h[i].mixed /\ h[i].note = l.note
    BY <1>4, <2>2, Zenon DEF Unspent
  <2>4. h[i] = l
    BY <2>1, <2>3, Zenon DEF BalanceInv, MixerInv, RhosDistinct
  <2> QED BY <2>2, <2>4, Zenon
<1>8. SameTerms(g, Inputs, W, SpentLeaves(call), J, h)
  <2>1. \A i \in Inputs : g[i] \in Int
    BY <1>2
  <2> QED BY <1>3, <1>5, <1>6, <1>7, <2>1, Zenon DEF SameTerms
<1>9. IsFiniteSet(Inputs)
  BY MixerAssumption, FS_Interval DEF Inputs
<1>10. Total(call.ins) = SumFunctionOnSet(g, Inputs)
  BY <1>1, Zenon DEF Total, SumFunction, g
<1>11. SumFunctionOnSet(g, Inputs) \in Int
  BY <1>2, <1>9, SumType
<1> QED BY <1>8, <1>9, <1>10, <1>11, SumImage

\* The leaves a call appends are worth what its outputs are.
LEMMA NewWorth ==
  ASSUME NEW call, CallOK(call),
         NEW W, \A l \in NewLeaves(call) : W[l] = l.note.value
  PROVE  /\ IsFiniteSet(NewLeaves(call))
         /\ SumFunctionOnSet(W, NewLeaves(call)) = Total(call.outs)
         /\ Total(call.outs) \in Int
<1> DEFINE g == [i \in DOMAIN call.outs |-> call.outs[i].value]
           h == [i \in Outputs |-> NewLeaf(call, i)]
<1>1. DOMAIN call.outs = Outputs
  BY Zenon DEF CallOK
<1>2. \A i \in Outputs : g[i] = call.outs[i].value /\ g[i] \in Nat
  BY <1>1, Zenon DEF CallOK
<1>3. \A i \in Outputs : h[i] \in NewLeaves(call) /\ h[i].note.value = g[i]
  BY <1>2, Zenon DEF NewLeaves, NewLeaf, Commitment
<1>4. \A i, j \in Outputs : h[i] = h[j] => i = j
  BY Zenon DEF NewLeaf, Commitment, Rho
<1>5. \A l \in NewLeaves(call) : \E i \in Outputs : l = h[i]
  BY Zenon DEF NewLeaves
<1> HIDE DEF h
<1>6. SameTerms(g, Outputs, W, NewLeaves(call), Outputs, h)
  <2> HIDE DEF g
  <2> QED BY <1>2, <1>3, <1>4, <1>5 DEF SameTerms
<1>7. IsFiniteSet(Outputs)
  BY MixerAssumption, FS_Interval DEF Outputs
<1>8. Total(call.outs) = SumFunctionOnSet(g, Outputs)
  BY <1>1, Zenon DEF Total, SumFunction
<1> HIDE DEF g
<1>9. SumFunctionOnSet(g, Outputs) \in Int
  BY <1>2, <1>7, SumType
<1> QED BY <1>6, <1>7, <1>8, <1>9, SumImage

\* A call appends finitely many leaves, with values that are numbers.
LEMMA LeavesAfter ==
  ASSUME LeafInv, NEW call, CallOK(call), Mix(call)
  PROVE  tree' = tree \cup NewLeaves(call) /\ LeafInv'
<1>1. tree' = tree \cup NewLeaves(call)
  BY Zenon DEF Mix, NewLeaves, NewLeaf
<1>2. \A l \in NewLeaves(call) : l.note.value \in Nat
  BY DEF NewLeaves, NewLeaf, Commitment, CallOK
<1> DEFINE W == [l \in NewLeaves(call) |-> l.note.value]
<1>3. \A l \in NewLeaves(call) : W[l] = l.note.value
  BY Zenon
<1> HIDE DEF W
<1>4. IsFiniteSet(NewLeaves(call)) /\ IsFiniteSet(tree)
  BY <1>3, NewWorth, Zenon DEF LeafInv
<1>5. IsFiniteSet(tree \cup NewLeaves(call))
  BY <1>4, FS_Union, Zenon
<1> QED BY <1>1, <1>2, <1>5, Zenon DEF LeafInv

(* The unspent leaves after a call are new, or were unspent and their      *)
(* value did not go into the call.                                         *)
LEMMA UnspentAfter ==
  ASSUME BalanceInv, NEW call, CallOK(call), Mix(call), Regular(call)
  PROVE  /\ Unspent' \subseteq (Unspent \ SpentLeaves(call)) \cup NewLeaves(call)
         /\ Unspent \cap NewLeaves(call) = {}
<1>1. /\ Accepts(call)
      /\ nullifiers \subseteq nullifiers'
      /\ \A i \in Inputs : Nullifiers(call)[i] \in nullifiers'
  BY Zenon DEF Mix
<1>2. tree' = tree \cup NewLeaves(call)
  BY LeavesAfter, Zenon DEF BalanceInv
<1>3. call.hsig[1][1] \notin nullifiers
  BY <1>1, AcceptedHSig, Zenon
<1>4. \A l \in NewLeaves(call) : l.note.rho[2][1][1] = call.hsig[1][1]
  BY DEF NewLeaves, NewLeaf, Commitment, Rho
<1>5. \A l \in Unspent : l \in tree /\ l.note.rho[2][1][1] \in nullifiers
  BY Zenon DEF BalanceInv, MixerInv, RhoInv, Unspent
<1>6. Unspent \cap NewLeaves(call) = {}
  BY <1>3, <1>4, <1>5, Zenon
<1>7. ASSUME NEW l \in tree, l.mixed, Word(l.note, FALSE) \notin nullifiers'
      PROVE  l \in Unspent \ SpentLeaves(call)
  <2>1. l \in Unspent
    BY <1>1, <1>7, Zenon DEF Unspent
  <2>2. \A i \in Inputs : call.ins[i] # l.note
    BY <1>1, <1>7, CanonicalWords, Zenon DEF Regular
  <2> QED BY <2>1, <2>2, Zenon DEF SpentLeaves
<1>8. \A l \in Unspent' : l \in tree' /\ l.mixed /\ Word(l.note, FALSE) \notin nullifiers'
  BY Zenon DEF Unspent, Word, Nullifier
<1> QED BY <1>2, <1>6, <1>7, <1>8, Zenon

\* A regular call adds at most vpub_in - vpub_out to what unspent notes are worth.
LEMMA WorthAfter ==
  ASSUME BalanceInv, NEW call, CallOK(call), Mix(call), Regular(call)
  PROVE  LET worth == SumFunction([l \in Unspent |-> l.note.value])
         IN  /\ worth \in Int /\ worth' \in Int
             /\ worth' <= worth + call.vin - call.vout
<1> DEFINE worth == SumFunction([l \in Unspent |-> l.note.value])
           W == [l \in tree \cup NewLeaves(call) |-> l.note.value]
           kept == Unspent \ SpentLeaves(call)
           most == kept \cup NewLeaves(call)
           Sum(S) == SumFunctionOnSet(W, S)
<1>1. /\ Unspent' \subseteq most
      /\ Unspent \cap NewLeaves(call) = {}
  BY UnspentAfter, Zenon
<1>2. Accepts(call) /\ tree' = tree \cup NewLeaves(call) /\ LeafInv'
  BY LeavesAfter, Zenon DEF Mix, BalanceInv
<1>3. \A l \in tree \cup NewLeaves(call) : W[l] = l.note.value /\ W[l] \in Nat
  BY <1>2, Zenon DEF LeafInv
<1>4. Unspent \subseteq tree /\ kept \subseteq tree /\ SpentLeaves(call) \subseteq Unspent
  BY Zenon DEF Unspent, SpentLeaves
<1> HIDE DEF W
<1>5. IsFiniteSet(tree) /\ IsFiniteSet(NewLeaves(call))
  BY <1>3, NewWorth, Zenon DEF BalanceInv, LeafInv
<1>6. /\ IsFiniteSet(Unspent) /\ IsFiniteSet(kept) /\ IsFiniteSet(SpentLeaves(call))
      /\ IsFiniteSet(most)
  BY <1>4, <1>5, FS_Subset, FS_Union, Zenon
<1>7. Sum(SpentLeaves(call)) = Total(call.ins) /\ Total(call.ins) \in Int
  BY <1>2, <1>3, SpentWorth, Zenon
<1>8. Sum(NewLeaves(call)) = Total(call.outs) /\ Total(call.outs) \in Int
  BY <1>3, NewWorth, Zenon
<1>9. Sum(Unspent) = Sum(kept) + Sum(SpentLeaves(call))
  <2>1. kept \cup SpentLeaves(call) = Unspent /\ kept \cap SpentLeaves(call) = {}
    BY <1>4, Zenon
  <2>2. \A l \in kept \cup SpentLeaves(call) : W[l] \in Int
    BY <1>3, <1>4
  <2> HIDE DEF kept
  <2> QED BY <1>6, <2>1, <2>2, SumUnion, Zenon
<1>10. Sum(most) = Sum(kept) + Sum(NewLeaves(call))
  <2>1. kept \cap NewLeaves(call) = {} /\ \A l \in kept \cup NewLeaves(call) : W[l] \in Int
    BY <1>1, <1>3, <1>4
  <2> HIDE DEF kept
  <2> QED BY <1>5, <1>6, <2>1, SumUnion, Zenon
<1>11. Sum(kept) \in Int
  BY <1>3, <1>4, <1>6, SumType
<1>12. worth = Sum(Unspent)
  <2> DEFINE v == [l \in Unspent |-> l.note.value]
  <2>1. DOMAIN v = Unspent /\ \A l \in Unspent : v[l] \in Int /\ v[l] = W[l]
    BY <1>3, <1>4
  <2> HIDE DEF v
  <2>2. SumFunctionOnSet(v, Unspent) = Sum(Unspent)
    BY <1>6, <2>1, SumSame, Zenon
  <2> QED BY <2>1, <2>2, Zenon DEF SumFunction, v
<1>0. most \subseteq tree \cup NewLeaves(call)
  BY <1>4, Zenon
<1> HIDE DEF most
<1>13. worth' = Sum(Unspent')
  <2> DEFINE v == [l \in Unspent' |-> l.note.value]
  <2>1. Unspent' \subseteq tree \cup NewLeaves(call) /\ IsFiniteSet(Unspent')
    BY <1>0, <1>1, <1>6, FS_Subset, Zenon
  <2>2. DOMAIN v = Unspent' /\ \A l \in Unspent' : v[l] \in Int /\ v[l] = W[l]
    BY <1>3, <2>1
  <2>3. worth' = SumFunction(v)
    BY Zenon
  <2> HIDE DEF v
  <2>4. SumFunctionOnSet(v, Unspent') = Sum(Unspent')
    BY <2>1, <2>2, SumSame, Zenon
  <2> QED BY <2>2, <2>3, <2>4, Zenon DEF SumFunction
<1>14. Sum(Unspent') \in Nat /\ Sum(most) \in Nat /\ Sum(Unspent') <= Sum(most)
  <2>1. \A l \in most : W[l] \in Nat
    BY <1>0, <1>3, Zenon
  <2> QED BY <1>1, <1>6, <2>1, SumPart, Zenon
<1>15. call.vin + Total(call.ins) = call.vout + Total(call.outs)
  <2>1. Proven(call) = {<<call.vin, call.vout>>}
    BY Zenon DEF Proven, Regular
  <2>2. \E v \in Proven(call) : v[1] + Total(call.ins) = v[2] + Total(call.outs)
    BY <1>2, Zenon DEF Accepts, JoinSplit, Balanced
  <2> QED BY <2>1, <2>2
<1>16. call.vin \in Nat /\ call.vout \in Nat
  BY Zenon DEF CallOK
<1> HIDE DEF worth, Sum, kept
<1>17. worth \in Int /\ worth' \in Int /\ worth' <= worth + call.vin - call.vout
  BY <1>7, <1>8, <1>9, <1>10, <1>11, <1>12, <1>13, <1>14, <1>15, <1>16
<1> QED BY <1>17, Zenon DEF worth

(* Putting a value before a sequence of integers. *)
LEMMA ConsFacts ==
  ASSUME NEW v \in Int, NEW s \in Seq(Int)
  PROVE  /\ <<v>> \o s \in Seq(Int) /\ <<v>> \o s # <<>>
         /\ Head(<<v>> \o s) = v /\ Tail(<<v>> \o s) = s
OBVIOUS

(* The empty sequence is neutral. *)
LEMMA NilFacts ==
  ASSUME NEW s \in Seq(Int)
  PROVE  <<>> \o s = s /\ s \o <<>> = s
OBVIOUS

\* Sums of payments are integers.
LEMMA DuesAreInt ==
  ASSUME NEW s \in Seq(Int)
  PROVE  SumFunction(s) \in Int
<1>1. IsFiniteSet(DOMAIN s) /\ \A i \in DOMAIN s : s[i] \in Int
  BY FS_Interval
<1> QED BY <1>1, SumType, Zenon DEF SumFunction

\* So is the worth of the unspent leaves.
LEMMA UnspentIsInt ==
  ASSUME LeafInv
  PROVE  SumFunction([l \in Unspent |-> l.note.value]) \in Int
<1> DEFINE f == [l \in Unspent |-> l.note.value]
<1>1. Unspent \subseteq tree
  BY Zenon DEF Unspent
<1>2. IsFiniteSet(Unspent)
  BY <1>1, FS_Subset, Zenon DEF LeafInv
<1>3. DOMAIN f = Unspent /\ \A l \in Unspent : f[l] \in Int
  BY <1>1 DEF LeafInv
<1> HIDE DEF f
<1>4. SumFunction(f) \in Int
  BY <1>2, <1>3, SumType, Zenon DEF SumFunction
<1> QED BY <1>4, Zenon DEF f

(* A call changes what the contract holds, less what it has yet to pay, by *)
(* vpub_in - vpub_out.                                                     *)
LEMMA FundsAfter ==
  ASSUME FundsInv, NEW call, CallOK(call), PublicValues(call), useToken' = useToken
  PROVE  LET held == IF useToken THEN tokens ELSE ether
             owed == IF useToken THEN 0 ELSE SumFunction(due)
         IN  FundsInv' /\ held' - owed' = held - owed + call.vin - call.vout
<1> DEFINE back == call.vin = 0 /\ call.value > 0
           out == call.vout > 0 /\ ~useToken
           now == ether + call.value
<1>1. call.vin \in Nat /\ call.vout \in Nat /\ call.value \in Nat
  BY Zenon DEF CallOK
<1>2. ether \in Int /\ tokens \in Int /\ due \in Seq(Int) /\ useToken \in BOOLEAN
  BY Zenon DEF FundsInv
<1>3. SumFunction(due) \in Int
  BY <1>2, DuesAreInt, Zenon
<1>4. SumFunction(<<call.vout>> \o due) = call.vout + SumFunction(due)
  <2> DEFINE s == <<call.vout>> \o due
  <2>1. s \in Seq(Int) /\ s # <<>> /\ Head(s) = call.vout /\ Tail(s) = due
    BY <1>1, <1>2, SMTT(30)
  <2> HIDE DEF s
  <2>2. SumFunction(s) = Head(s) + SumFunction(Tail(s))
    BY <2>1, SumTail, Zenon
  <2> QED BY <2>1, <2>2, Zenon DEF s
<1>5. /\ call.vin > 0 /\ ~useToken => call.value = call.vin
      /\ IF Payments(call) = <<>> THEN ether' = now /\ UNCHANGED due
         ELSE /\ ether' = now - Head(Payments(call))
              /\ due' = Tail(Payments(call)) \o due
      /\ IF useToken THEN tokens' = tokens + call.vin - call.vout ELSE UNCHANGED tokens
  BY Zenon DEF PublicValues, PaysIn
<1> DEFINE rest == IF out THEN <<call.vout>> ELSE <<>>
<1>6. /\ rest \in Seq(Int) /\ <<>> \in Seq(Int) /\ <<call.vout>> \in Seq(Int)
      /\ Payments(call) = (IF back THEN <<call.value>> ELSE <<>>) \o rest
  <2>1. /\ <<>> \in Seq(Int) /\ <<call.vout>> \in Seq(Int)
    BY <1>1
  <2> QED BY <2>1, Zenon DEF Payments
<1>7. <<call.vout>> = <<call.vout>> \o <<>>
  BY <1>6, NilFacts, Zenon
<1>8. \/ ~back /\ ~out /\ ether' = now /\ due' = due
      \/ back /\ ~out /\ ether' = now - call.value /\ due' = due
      \/ ~back /\ out /\ ether' = now - call.vout /\ due' = due
      \/ back /\ out /\ ether' = now - call.value /\ due' = <<call.vout>> \o due
  <2> HIDE DEF back, out, now
  <2>1. CASE ~back /\ ~out
    <3>1. Payments(call) = <<>>
      BY <1>6, <2>1, NilFacts, Zenon
    <3> QED BY <1>5, <2>1, <3>1, Zenon
  <2>2. CASE back
    <3> HIDE DEF rest
    <3>1. /\ Payments(call) # <<>>
          /\ Head(Payments(call)) = call.value /\ Tail(Payments(call)) = rest
      <4>1. Payments(call) = <<call.value>> \o rest
        BY <1>6, <2>2, Zenon
      <4>2. call.value \in Int
        BY <1>1
      <4> QED BY <1>6, <4>1, <4>2, ConsFacts, Zenon
    <3>2. ether' = now - call.value /\ due' = rest \o due
      BY <1>5, <3>1, Zenon
    <3>3. CASE out
      BY <2>2, <3>2, <3>3, Zenon DEF rest
    <3>4. CASE ~out
      BY <1>2, <2>2, <3>2, <3>4, NilFacts, Zenon DEF rest
    <3> QED BY <3>3, <3>4, Zenon
  <2>3. CASE ~back /\ out
    <3>1. /\ Payments(call) # <<>>
          /\ Head(Payments(call)) = call.vout /\ Tail(Payments(call)) = <<>>
      <4>1. Payments(call) = <<call.vout>> \o <<>>
        BY <1>6, <1>7, <2>3, NilFacts, Zenon
      <4>2. call.vout \in Int
        BY <1>1
      <4> QED BY <1>6, <4>1, <4>2, ConsFacts, Zenon
    <3>2. ether' = now - call.vout /\ due' = <<>> \o due
      BY <1>5, <3>1, Zenon
    <3> QED BY <1>2, <2>3, <3>2, NilFacts, Zenon
  <2> QED BY <2>1, <2>2, <2>3, Zenon
<1>9. FundsInv'
  <2>1. ether' \in Int
    BY <1>1, <1>2, <1>8
  <2>3. due' \in Seq(Int)
    <3>1. call.vout \in Int
      BY <1>1
    <3>2. due' = due \/ due' = <<call.vout>> \o due
      BY <1>8, Zenon
    <3> QED BY <1>2, <3>1, <3>2, ConsFacts, Zenon
  <2>2. tokens' \in Int
    BY <1>1, <1>2, <1>5, SMTT(30)
  <2> QED BY <1>2, <2>1, <2>2, <2>3, Zenon DEF FundsInv
<1>10. CASE useToken
  BY <1>1, <1>2, <1>5, <1>9, <1>10
<1>11. CASE ~useToken
  <2> DEFINE owing == SumFunction(due)
  <2>1. \/ ether' - owing' = now - owing /\ ~back /\ ~out
        \/ ether' - owing' = now - call.value - owing /\ back /\ ~out
        \/ ether' - owing' = now - call.vout - owing /\ ~back /\ out
        \/ ether' - owing' = now - call.value - (call.vout + owing) /\ back /\ out
    <3>1. \/ ~back /\ ~out /\ ether' = now /\ owing' = owing
          \/ back /\ ~out /\ ether' = now - call.value /\ owing' = owing
          \/ ~back /\ out /\ ether' = now - call.vout /\ owing' = owing
          \/ back /\ out /\ ether' = now - call.value /\ owing' = call.vout + owing
      <4> HIDE DEF back, out, now
      <4> QED BY <1>4, <1>8, Zenon
    <3> HIDE DEF owing
    <3> QED BY <3>1, Zenon
  <2> HIDE DEF owing
  <2>2. owing \in Int
    BY <1>3, Zenon DEF owing
  <2>3. ether' - owing' = ether - owing + call.vin - call.vout
    <3>1. call.vin > 0 => call.value = call.vin
      BY <1>5, <1>11, Zenon
    <3>2. ether \in Int
      BY <1>2, Zenon
    <3> QED BY <1>1, <1>11, <2>1, <2>2, <3>1, <3>2
  <2> QED BY <1>9, <1>11, <2>3, Zenon DEF owing
<1> QED BY <1>10, <1>11, Zenon

\* An empty mixer is solvent.
LEMMA BalanceInit == Init => BalanceInv
<1> SUFFICES ASSUME Init PROVE BalanceInv
  BY Zenon
<1>1. MixerInv
  BY MixerInit, Zenon
<1>2. LeafInv
  BY FS_EmptySet, Zenon DEF Init, LeafInv
<1>3. FundsInv
  BY DEF Init, FundsInv
<1>4. ASSUME NEW f, DOMAIN f = {} PROVE SumFunction(f) = 0
  BY <1>4, SumEmpty, Zenon DEF SumFunction
<1>5. SumFunction(due) = 0
  <2>1. due = <<>> /\ DOMAIN <<>> = {}
    BY DEF Init
  <2> QED BY <1>4, <2>1, Zenon
<1>6. SumFunction([l \in Unspent |-> l.note.value]) = 0
  <2> DEFINE f == [l \in Unspent |-> l.note.value]
  <2>1. DOMAIN f = {}
    BY Zenon DEF Init, Unspent
  <2> HIDE DEF f
  <2>2. SumFunction(f) = 0
    BY <1>4, <2>1, Zenon
  <2> QED BY <2>2, Zenon DEF f
<1>7. Solvent
  BY <1>5, <1>6 DEF Init, Solvent
<1> QED BY <1>1, <1>2, <1>3, <1>7, Zenon DEF BalanceInv

\* Whether the balance is about a state shows in what was spent.
LEMMA RegularBefore ==
  ASSUME MixerInv, NEW call, Mix(call), lifts' = 0, NoForeignSpent'
  PROVE  lifts = 0 /\ NoForeignSpent /\ Regular(call)
<1>1. lifts = 0 /\ call.lifted = {}
  BY LiftsAfter, Zenon DEF MixerInv
<1>2. spends' = spends \cup {NewSpend(call, i) : i \in Inputs}
  BY Zenon DEF Mix, NewSpend
<1>3. \A s \in spends' : s.note.value > 0 => ~s.foreign
  BY Zenon DEF NoForeignSpent
<1>4. NoForeignSpent
  BY <1>2, <1>3, Zenon DEF NoForeignSpent
<1>5. \A i \in Inputs : /\ NewSpend(call, i) \in spends'
                        /\ NewSpend(call, i).note = call.ins[i]
                        /\ NewSpend(call, i).foreign = (call.ins[i] \in Foreign)
  BY <1>2, Zenon DEF NewSpend
<1>6. \A i \in Inputs : call.ins[i].value > 0 => call.ins[i] \notin Foreign
  BY <1>3, <1>5, Zenon
<1> QED BY <1>1, <1>4, <1>6, Zenon DEF Regular

(* What is held and owed changes by vin - vout, what notes are worth by no *)
(* more.                                                                   *)
LEMMA Margin ==
  ASSUME NEW h \in Int, NEW w \in Int, NEW o \in Int, NEW vin \in Nat, NEW vout \in Nat,
         NEW h1 \in Int, NEW w1 \in Int, NEW o1 \in Int,
         h >= w + o, w1 <= w + vin - vout, h1 - o1 = h - o + vin - vout
  PROVE  h1 >= w1 + o1
OBVIOUS

\* A call keeps the balance.
LEMMA MixKeepsBalance ==
  ASSUME BalanceInv, NEW call, CallOK(call), Mix(call)
  PROVE  BalanceInv'
<1> DEFINE held == IF useToken THEN tokens ELSE ether
           owed == IF useToken THEN 0 ELSE SumFunction(due)
           worth == SumFunction([l \in Unspent |-> l.note.value])
<1>1. MixerInv'
  BY MixKeepsInv, Zenon DEF BalanceInv
<1>2. LeafInv'
  BY LeavesAfter, Zenon DEF BalanceInv
<1>3. PublicValues(call) /\ useToken' = useToken
  BY Zenon DEF Mix
<1>4. FundsInv' /\ held' - owed' = held - owed + call.vin - call.vout
  BY <1>3, FundsAfter, Zenon DEF BalanceInv
<1>5. Solvent'
  <2> SUFFICES ASSUME lifts' = 0, NoForeignSpent' PROVE held' >= worth' + owed'
    BY Zenon DEF Solvent
  <2>1. lifts = 0 /\ NoForeignSpent /\ Regular(call)
    BY RegularBefore, Zenon DEF BalanceInv
  <2>2. worth \in Int /\ worth' \in Int /\ worth' <= worth + call.vin - call.vout
    BY <2>1, WorthAfter, Zenon
  <2>3. held >= worth + owed
    BY <2>1, Zenon DEF BalanceInv, Solvent
  <2>4. held \in Int /\ held' \in Int
    BY <1>3, <1>4, Zenon DEF BalanceInv, FundsInv
  <2>5. due \in Seq(Int) /\ due' \in Seq(Int)
    BY <1>4, Zenon DEF BalanceInv, FundsInv
  <2>6. owed \in Int /\ owed' \in Int
    <3>1. SumFunction(due) \in Int /\ SumFunction(due') \in Int
      BY <2>5, DuesAreInt, Zenon
    <3> QED BY <1>3, <3>1
  <2>7. call.vin \in Nat /\ call.vout \in Nat
    BY Zenon DEF CallOK
  <2>8. held' - owed' = held - owed + call.vin - call.vout
    BY <1>4, Zenon
  <2> HIDE DEF held, owed, worth
  <2> QED BY <2>2, <2>3, <2>4, <2>6, <2>7, <2>8, Margin, Zenon
<1> QED BY <1>1, <1>2, <1>4, <1>5, Zenon DEF BalanceInv

\* So does a leaf that is inserted directly: it is not counted.
LEMMA InsertKeepsBalance ==
  ASSUME BalanceInv, NEW note, note.value \in Nat, Insert(note)
  PROVE  BalanceInv'
<1> DEFINE leaf == [addr |-> numLeaves, note |-> note, mixed |-> FALSE]
<1>1. MixerInv'
  BY InsertKeepsInv, Zenon DEF BalanceInv
<1>2. tree' = tree \cup {leaf}
  BY Zenon DEF Insert
<1>3. leaf.note = note /\ ~leaf.mixed
  BY Zenon
<1> HIDE DEF leaf
<1>4. LeafInv'
  <2>1. IsFiniteSet(tree \cup {leaf})
    BY FiniteAdd, Zenon DEF BalanceInv, LeafInv
  <2> QED BY <1>2, <1>3, <2>1, Zenon DEF BalanceInv, LeafInv
<1>5. Unspent' = Unspent
  <2>1. nullifiers' = nullifiers
    BY Zenon DEF Insert
  <2> QED BY <1>2, <1>3, <2>1, Zenon DEF Unspent, Word, Nullifier
<1>6. /\ useToken' = useToken /\ ether' = ether /\ tokens' = tokens
      /\ due' = due /\ spends' = spends /\ lifts' = lifts
  BY Zenon DEF Insert
<1>7. FundsInv' /\ Solvent'
  BY <1>5, <1>6, Zenon DEF BalanceInv, FundsInv, Solvent, NoForeignSpent
<1> QED BY <1>1, <1>4, <1>7, Zenon DEF BalanceInv

\* A payment that a call still owed keeps the balance.
LEMMA PayKeepsBalance ==
  ASSUME BalanceInv, Pay
  PROVE  BalanceInv'
<1> DEFINE held == IF useToken THEN tokens ELSE ether
           owed == IF useToken THEN 0 ELSE SumFunction(due)
           worth == SumFunction([l \in Unspent |-> l.note.value])
<1>1. MixerInv'
  BY Zenon DEF BalanceInv, Pay, MixerInv, RhoInv, SpendInv, RhosDistinct,
         NoDoubleSpend
<1>2. LeafInv'
  BY Zenon DEF BalanceInv, Pay, LeafInv
<1>3. /\ due \in Seq(Int) /\ due # <<>> /\ ether \in Int /\ useToken \in BOOLEAN
      /\ ether' = ether - Head(due) /\ due' = Tail(due)
      /\ useToken' = useToken /\ tokens' = tokens /\ worth' = worth
      /\ lifts' = lifts /\ spends' = spends
  BY Zenon DEF BalanceInv, FundsInv, Pay, Unspent
<1>4. Head(due) \in Int /\ Tail(due) \in Seq(Int)
  BY <1>3
<1>5. FundsInv'
  BY <1>3, <1>4 DEF BalanceInv, FundsInv
<1>6. SumFunction(due) = Head(due) + SumFunction(Tail(due))
  BY <1>3, SumTail, Zenon
<1>7. SumFunction(Tail(due)) \in Int
  BY <1>4, DuesAreInt, Zenon
<1>8. Solvent'
  <2> SUFFICES ASSUME lifts' = 0, NoForeignSpent' PROVE held' >= worth' + owed'
    BY Zenon DEF Solvent
  <2>1. held >= worth + owed
    BY <1>3, Zenon DEF BalanceInv, Solvent, NoForeignSpent
  <2>2. CASE useToken
    <3>1. held' = held /\ owed' = owed
      BY <1>3, <2>2, Zenon
    <3> QED BY <1>3, <2>1, <3>1, Zenon
  <2>3. CASE ~useToken
    <3>1. ether >= worth + SumFunction(due)
      BY <2>1, <2>3, Zenon
    <3>2. worth \in Int
      BY UnspentIsInt, Zenon DEF BalanceInv
    <3>3. held' = ether' /\ owed' = SumFunction(Tail(due))
      BY <1>3, <2>3, Zenon
    <3> HIDE DEF worth, held, owed
    <3> QED BY <1>3, <1>4, <1>6, <1>7, <3>1, <3>2, <3>3, SMTT(30)
  <2> QED BY <2>2, <2>3, Zenon
<1> QED BY <1>1, <1>2, <1>5, <1>8, Zenon DEF BalanceInv

\* The notes that Next knows have values that are numbers.
LEMMA NotesAreOK ==
  ASSUME LeafInv
  PROVE  /\ \A note \in Made : note.value \in Nat
         /\ \A i : \A note \in InputNotes(i) : note.value \in Nat
         /\ \A o, i : NewNote(o, 1, i).value \in Nat
<1>1. \A l \in tree : l.note.value \in Nat
  BY Zenon DEF LeafInv
<1>2. 0 \in Nat /\ 1 \in Nat
  OBVIOUS
<1>3. \A o, i : NewNote(o, 0, i).value \in Nat /\ NewNote(o, 1, i).value \in Nat
  BY <1>2, Zenon DEF NewNote
<1>4. \A o, l : EmptyNote(o, l).value \in Nat
  BY <1>2, Zenon DEF EmptyNote
<1>5. \A note \in Made : note.value \in Nat
  BY <1>1, Zenon DEF Made
<1>6. ASSUME NEW i, NEW note \in InputNotes(i) PROVE note.value \in Nat
  <2>1. \/ note \in {l.note : l \in tree}
        \/ \E o \in Owners, v \in {0, 1} : note = NewNote(o, v, i)
        \/ \E o \in Owners, l \in tree : note = EmptyNote(o, l)
    BY DEF InputNotes
  <2> QED BY <1>1, <1>3, <1>4, <2>1, Zenon
<1> QED BY <1>3, <1>5, <1>6, Zenon

\* Every call of Next has the form the lemmas assume.
LEMMA CallsAreOK ==
  ASSUME LeafInv,
         NEW open \in Openings, NEW root \in roots, NEW outs \in OutputLists,
         NEW vin \in Values, NEW vout \in Values, NEW value \in Values,
         NEW phi \in Phis,
         NEW call, call = Call(open, root, outs, vin, vout, value, phi)
  PROVE  CallOK(call)
<1>1. /\ call.ins = open.ins /\ call.outs = outs /\ call.vin = vin
      /\ call.value = value /\ call.vout \in Values
  BY Zenon DEF Call
<1>2. PICK ins \in InputLists : open.ins = ins
  <2>1. PICK list \in InputLists : \E lifted : open \in OpeningsWith(list, lifted)
    <3> HIDE DEF OpeningsWith
    <3> QED BY DEF Openings
  <2>2. PICK lifted : open \in OpeningsWith(list, lifted)
    BY <2>1, Zenon
  <2>3. PICK hsigs : open \in [ins : {list}, lifted : {lifted}, vk : Vks, hsig : hsigs]
    BY <2>2, Zenon DEF OpeningsWith
  <2>4. open.ins = list
    BY <2>3, Zenon
  <2> QED BY <2>4, Zenon
<1>3. ins = [i \in Inputs |-> ins[i]] /\ \A i \in Inputs : ins[i] \in InputNotes(i)
  BY Zenon DEF InputLists
<1>4. \A i \in Inputs : ins[i].value \in Nat
  BY <1>3, NotesAreOK, Zenon
<1>5. /\ outs = [i \in Outputs |-> outs[i]]
      /\ \A i \in Outputs : outs[i] \in [owner : Owners, value : Values]
  BY Zenon DEF OutputLists
<1>6. Values \subseteq Nat
  BY MixerAssumption DEF Values
<1>7. \A i \in Outputs : outs[i].value \in Nat
  BY <1>5, <1>6, Zenon
<1> QED BY <1>1, <1>2, <1>3, <1>4, <1>5, <1>6, <1>7, Zenon DEF CallOK

\* Every step keeps the balance.
LEMMA BalanceInductive == BalanceInv /\ [Next]_vars => BalanceInv'
<1> SUFFICES ASSUME BalanceInv, [Next]_vars PROVE BalanceInv'
  BY Zenon
<1>1. ASSUME NEW open \in Openings, NEW root \in roots, NEW outs \in OutputLists,
             NEW vin \in Values, NEW vout \in Values, NEW value \in Values,
             NEW phi \in Phis,
             Mix(Call(open, root, outs, vin, vout, value, phi))
      PROVE  BalanceInv'
  <2>1. PICK call : call = Call(open, root, outs, vin, vout, value, phi)
    BY Zenon
  <2>2. CallOK(call)
    BY <2>1, CallsAreOK, Zenon DEF BalanceInv
  <2>3. Mix(call)
    BY <1>1, <2>1, Zenon
  <2> QED BY <2>2, <2>3, MixKeepsBalance, Zenon
<1>2. CASE Pay
  BY <1>2, PayKeepsBalance, Zenon
<1>3. CASE UNCHANGED vars
  BY <1>3, Zenon DEF vars, BalanceInv, MixerInv, RhoInv, SpendInv, RhosDistinct,
              NoDoubleSpend, LeafInv, FundsInv, Solvent, NoForeignSpent, Unspent
<1>4. CASE MixAny
  <2>1. PICK open \in Openings, outs \in OutputLists, vin \in Values,
             vout \in Values, root \in roots, value \in Values, phi \in Phis :
               Mix(Call(open, root, outs, vin, vout, value, phi))
    BY <1>4, Zenon DEF MixAny
  <2> QED BY <1>1, <2>1, Zenon
<1>5. CASE InsertAny
  <2>1. PICK note : /\ note \in Made \/ \E o \in Owners : note = NewNote(o, 1, 0)
                    /\ Insert(note)
    BY <1>5, Zenon DEF InsertAny
  <2>2. note.value \in Nat
    BY <2>1, NotesAreOK, Zenon DEF BalanceInv
  <2> QED BY <2>1, <2>2, InsertKeepsBalance, Zenon
<1> QED BY <1>2, <1>3, <1>4, <1>5, Zenon DEF Next

(* As long as public inputs are canonical and no note is spent that only a *)
(* direct insert put into the tree, the contract holds what the unspent    *)
(* notes made by mixes are worth and what executing calls still pay, for   *)
(* every number of inputs and outputs, every depth of nested calls and     *)
(* whatever roots, h_sigs and notes the callers choose:                    *)
(* _processPublicValues (AbstractMixer.sol) moves exactly the difference   *)
(* that the statement allows, and what a call spends had not been spent.   *)
THEOREM MixerSolvent == Spec => []Solvent
<1>1. BalanceInv => Solvent
  BY Zenon DEF BalanceInv
<1> QED BY <1>1, BalanceInit, BalanceInductive, PTL DEF Spec
=============================================================================
