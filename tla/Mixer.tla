-------------------------------- MODULE Mixer --------------------------------
(***************************************************************************)
(* The mixer contract (AbstractMixer.sol) together with the statement its  *)
(* zero-knowledge proofs establish (libzeth/circuits/joinsplit.tcc,        *)
(* notes/note.tcc) and the values the client derives (mixer_client.py).    *)
(*                                                                         *)
(* Hashes, commitments and pseudo-random functions are symbolic: a value   *)
(* is the tuple of what it was computed from.  So a commitment is its      *)
(* note, the nullifier of a note is <<owner, rho>>, h_sig is               *)
(* <<nullifiers, vk>> and the rho of the i-th output is <<phi, h_sig, i>>. *)
(* A Merkle root commits to the leaves below an address (MerkleTree), and  *)
(* is represented by that address.                                         *)
(*                                                                         *)
(* A call is described by what its proof was made from.  It may have been  *)
(* made at any earlier time: the statement refers to a root, not to the    *)
(* current state.  A call that fails a require leaves no trace.            *)
(*                                                                         *)
(* The proof fixes the public inputs as field elements, the contract reads *)
(* them as 256-bit words, and it does not compare them with the order of   *)
(* the field.  A call therefore says which of its public inputs are not    *)
(* canonical (the input's number, or 0 for the residual bits): the word    *)
(* the contract reads there is another one than the statement's.  What     *)
(* depends on canonical inputs is said so by its property.                 *)
(*                                                                         *)
(* The function insert of the tree is public.  A leaf appended by it comes *)
(* with no event and no root, and the next mix hashes it into the tree     *)
(* only when it is the left sibling of the first leaf of that mix          *)
(* (MerkleTree models the nodes).                                          *)
(***************************************************************************)
EXTENDS Integers, Sequences, FiniteSetsExt

CONSTANTS NumIn, NumOut,  \* _JSIN, _JSOUT
          MaxLeaves,      \* _MAX_NUM_LEAVES
          MaxValue,       \* largest value of ZETH_V_SIZE bits
          Owners,         \* ownership keys
          Phis, Vks,      \* values of phi, one-time signature keys
          LiftSets,       \* which public inputs of a call are not canonical
          MaxLifts,       \* bound on calls with inputs that are not
          MaxInserts,     \* bound on direct calls of insert
          MaxDue          \* bound on payments under way (nested calls)

ASSUME MixerAssumption ==
  /\ NumIn \in Nat \ {0} /\ NumOut \in Nat \ {0}
  /\ MaxLeaves \in Nat /\ MaxValue \in Nat \ {0}
  /\ MaxDue \in Nat /\ MaxInserts \in Nat /\ MaxLifts \in Nat

VARIABLES
  useToken,    \* is _token # address(0)?
  tree,        \* the leaves: records of address, note, and whether a mix
               \* appended it
  numLeaves,   \* _numLeaves
  roots,       \* _roots
  nullifiers,  \* _nullifiers, a set of words
  ether,       \* Ether held by the contract, in units
  tokens,      \* tokens held by the contract, in units
  due,         \* stack of Ether payments that executing calls still make
  spends,      \* ghost: the notes spent, with call and position, and
               \* whether insert, and no mix, had appended the note
  lifts        \* ghost: number of calls with inputs that are not canonical

vars == <<useToken, tree, numLeaves, roots, nullifiers, ether, tokens, due,
          spends, lifts>>

Inputs == 1 .. NumIn
Outputs == 1 .. NumOut
Values == 0 .. MaxValue

Total(notes) == SumFunction([i \in DOMAIN notes |-> notes[i].value])
-----------------------------------------------------------------------------
(* compute_nullifier, compute_h_sig and _compute_rho_i *)
Nullifier(note) == <<note.owner, note.rho>>
HSig(nfs, vk) == <<nfs, vk>>
Rho(phi, hsig, i) == <<phi, hsig, i>>

(* _assembleNullifier: the word of a nullifier, or the other one with the  *)
(* same field element.                                                     *)
Word(note, lifted) == [nf |-> Nullifier(note), lifted |-> lifted]
Nullifiers(call) == [i \in Inputs |-> Word(call.ins[i], i \in call.lifted)]

Commitment(call, i) == [owner |-> call.outs[i].owner,
                        value |-> call.outs[i].value,
                        rho |-> Rho(call.phi, call.hsig, i)]

(* The leaves that roots commit to: mix recomputes the parents of what it  *)
(* appends, which covers a leaf inserted just before it at an even         *)
(* address, and no other inserted leaf.                                    *)
Hashed(l) ==
  l.mixed \/ /\ l.addr % 2 = 0
             /\ \E k \in tree : k.mixed /\ k.addr = l.addr + 1

(* The notes a root commits to. *)
NotesAt(root) == {l.note : l \in {l \in tree : l.addr < root /\ Hashed(l)}}

(* The values vpub_in and vpub_out the statement may be about: those the   *)
(* contract reads, if the residual bits are canonical.                     *)
Proven(call) == IF 0 \in call.lifted THEN Values \X Values
                ELSE {<<call.vin, call.vout>>}

Balanced(call) ==
  {v \in Proven(call) : /\ v[1] + Total(call.ins) = v[2] + Total(call.outs)
                        /\ v[1] + Total(call.ins) <= MaxValue} # {}

\* Mutant: the Merkle path of an input is not checked against the root.
JoinSplit_NoMembership(call) == Balanced(call)

(* joinsplit_gadget: every input of non-zero value is in the tree, and the *)
(* values balance without exceeding 64 bits.  Of an input without value    *)
(* nothing is asked but that its nullifier is computed as above.  That the *)
(* rhos and commitments are the ones defined above is part of the          *)
(* statement too.                                                          *)
JoinSplit(call) ==
  /\ \A i \in Inputs :
       call.ins[i].value > 0 => call.ins[i] \in NotesAt(call.root)
  /\ Balanced(call)
-----------------------------------------------------------------------------
\* Mutant: all nullifiers are looked up before any is recorded.
FreshNullifiers_LateMark(nfs) == \A i \in DOMAIN nfs : nfs[i] \notin nullifiers

(* The loop over the nullifiers looks each one up and records it before it *)
(* goes on to the next.                                                    *)
FreshNullifiers(nfs) ==
  \A i \in DOMAIN nfs :
    nfs[i] \notin nullifiers \cup {nfs[j] : j \in 1 .. i - 1}

\* Mutant: h_sig is not recomputed from the nullifiers and the key.
HSigMatches_Any(call) == TRUE

HSigMatches(call) == call.hsig = HSig(Nullifiers(call), call.vk)

(* _checkMkrootNullifiersHsigAppendNullifiersState, signature and proof. *)
Accepts(call) ==
  /\ call.root \in roots
  /\ FreshNullifiers(Nullifiers(call))
  /\ HSigMatches(call)
  /\ JoinSplit(call)

(* The payments in Ether a call makes, in order: Ether sent without a      *)
(* vpub_in goes back, then vpub_out is paid.                               *)
Payments(call) ==
  (IF call.vin = 0 /\ call.value > 0 THEN <<call.value>> ELSE <<>>)
    \o (IF call.vout > 0 /\ ~useToken THEN <<call.vout>> ELSE <<>>)

PaysIn(call) == call.vin > 0 /\ ~useToken => call.value = call.vin

(* _processPublicValues.  Ether leaves the contract by calls to the        *)
(* sender, and the sender may call the contract again before it returns:   *)
(* the first payment is made at once, the others are pushed on due.  Token *)
(* transfers either succeed or revert.                                     *)
PublicValues(call) ==
  /\ PaysIn(call)
  /\ LET held == ether + call.value
         payments == Payments(call)
     IN  IF payments = <<>> THEN ether' = held /\ UNCHANGED due
         ELSE /\ Head(payments) <= held
              /\ ether' = held - Head(payments)
              /\ due' = Tail(payments) \o due
  /\ IF useToken
     THEN /\ call.vout <= tokens + call.vin
          /\ tokens' = tokens + call.vin - call.vout
     ELSE UNCHANGED tokens

(* insert: the address of the i-th leaf a call appends. *)
LeafAddress(i) == numLeaves + i - 1

(* The notes that mixes have put into the tree, and those that only direct *)
(* calls of insert have.                                                   *)
Made == {l.note : l \in {l \in tree : l.mixed}}
Foreign == {l.note : l \in tree} \ Made

(* mix: the call is checked, the commitments are appended and their root   *)
(* recorded, the event is emitted and the public values are moved.  A call *)
(* of dispatch by the permitted dispatcher, which has verified the proof   *)
(* itself, does the same.                                                  *)
Mix(call) ==
  /\ Accepts(call)
  /\ numLeaves + NumOut <= MaxLeaves
  /\ nullifiers' = nullifiers \cup {Nullifiers(call)[i] : i \in Inputs}
  /\ tree' = tree \cup {[addr |-> LeafAddress(i), note |-> Commitment(call, i),
                         mixed |-> TRUE] : i \in Outputs}
  /\ numLeaves' = numLeaves + NumOut
  /\ roots' = roots \cup {numLeaves'}
  /\ spends' = spends \cup {[mix |-> numLeaves, pos |-> i,
                             note |-> call.ins[i],
                             foreign |-> call.ins[i] \in Foreign] :
                              i \in Inputs}
  /\ lifts' = IF call.lifted = {} THEN lifts ELSE lifts + 1
  /\ PublicValues(call)
  /\ UNCHANGED useToken

(* insert, called directly with a commitment to a note. *)
Insert(note) ==
  /\ numLeaves < MaxLeaves
  /\ tree' = tree \cup {[addr |-> numLeaves, note |-> note, mixed |-> FALSE]}
  /\ numLeaves' = numLeaves + 1
  /\ UNCHANGED <<useToken, roots, nullifiers, ether, tokens, due, spends,
                 lifts>>

(* The callee of the previous payment has returned.  A payment that the    *)
(* contract cannot cover would revert the whole call.                      *)
Pay ==
  /\ due # <<>>
  /\ Head(due) <= ether
  /\ ether' = ether - Head(due)
  /\ due' = Tail(due)
  /\ UNCHANGED <<useToken, tree, numLeaves, roots, nullifiers, tokens,
                 spends, lifts>>
-----------------------------------------------------------------------------
(* What may be asked of the contract.  A note with a rho that no leaf has, *)
(* and a note of no value with the rho of a leaf.                          *)
NewNote(owner, value, i) == [owner |-> owner, value |-> value,
                             rho |-> <<"new", numLeaves, i>>]
EmptyNote(owner, l) == [owner |-> owner, value |-> 0, rho |-> l.note.rho]

(* Inputs are leaves of the tree, new notes, or notes without value. *)
InputNotes(i) ==
  {l.note : l \in tree}
    \cup {NewNote(o, v, i) : o \in Owners, v \in {0, 1}}
    \cup {EmptyNote(o, l) : o \in Owners, l \in tree}

InputLists == {ins \in [Inputs -> UNION {InputNotes(i) : i \in Inputs}] :
                 \A i \in Inputs : ins[i] \in InputNotes(i)}

OutputLists == {outs \in [Outputs -> [owner : Owners, value : Values]] :
                  Total(outs) <= MaxValue}

(* An h_sig is computed from the call's words, or one used before. *)
HSigs(nfs) ==
  {HSig(nfs, vk) : vk \in Vks}
    \cup {l.note.rho[2] : l \in {l \in tree : l.mixed}}

(* The inputs, keys and h_sigs that pass: with the others a call leaves no *)
(* trace, whatever else it says.                                           *)
OpeningsWith(ins, lifted) ==
  LET nfs == Nullifiers([ins |-> ins, lifted |-> lifted])
  IN  {open \in [ins : {ins}, lifted : {lifted}, vk : Vks, hsig : HSigs(nfs)] :
         FreshNullifiers(nfs) /\ HSigMatches(open)}

Openings ==
  UNION {OpeningsWith(ins, lifted) :
           ins \in InputLists,
           lifted \in {{}} \cup IF lifts < MaxLifts THEN LiftSets ELSE {}}

Init ==
  /\ useToken \in BOOLEAN
  /\ tree = {} /\ numLeaves = 0 /\ roots = {0} /\ nullifiers = {}
  /\ ether = 0 /\ tokens = 0 /\ due = <<>> /\ spends = {}
  /\ lifts = 0

Call(open, root, outs, vin, vout, value, phi) ==
  [ins |-> open.ins, lifted |-> open.lifted, vk |-> open.vk,
   hsig |-> open.hsig, root |-> root, outs |-> outs, vin |-> vin,
   vout |-> vout, value |-> value, phi |-> phi]

MixAny ==
  /\ Len(due) < MaxDue
  /\ numLeaves + NumOut <= MaxLeaves
  /\ \E open \in Openings, outs \in OutputLists, vin \in Values :
       \E vout \in IF 0 \in open.lifted THEN Values
                   ELSE {vin + Total(open.ins) - Total(outs)} \cap Values :
         \E root \in roots, value \in Values, phi \in Phis :
           Mix(Call(open, root, outs, vin, vout, value, phi))

InsertAny ==
  /\ Cardinality({l \in tree : ~l.mixed}) < MaxInserts
  /\ \E note \in Made \cup {NewNote(o, 1, 0) : o \in Owners} : Insert(note)

Next == MixAny \/ InsertAny \/ Pay

Spec == Init /\ [][Next]_vars
-----------------------------------------------------------------------------
(* No two notes that mixes made have the same rho, whatever phi, keys,     *)
(* h_sig and words their makers chose, and whatever was inserted beside    *)
(* them.  A second note with the rho of a first would become unspendable   *)
(* when the first is spent: they share a nullifier.                        *)
RhosDistinct ==
  \A k, l \in tree :
    k.mixed /\ l.mixed /\ k.note.rho = l.note.rho => k = l

(* As long as all calls had canonical public inputs, no note is spent      *)
(* twice, neither by two calls, which may refer to different roots, nor as *)
(* two inputs of one call, nor by way of a second leaf inserted for it.    *)
NoDoubleSpend ==
  lifts = 0 => \A s, t \in spends : s.note = t.note => s = t

(* As long as all calls had canonical public inputs and no note that only  *)
(* a direct call of insert put into the tree was spent, the contract holds *)
(* at least the value of the unspent notes that mixes made, plus what      *)
(* calls in progress have yet to pay, even when a receiver of Ether calls  *)
(* the contract again before it has paid: every owner of such a note could *)
(* withdraw.  (It holds more when the nullifier of a note with value was   *)
(* given away for an input without value.)                                 *)
Unspent == {l \in tree : l.mixed /\ Word(l.note, FALSE) \notin nullifiers}
NoForeignSpent == \A s \in spends : s.note.value > 0 => ~s.foreign
Solvent ==
  LET held == IF useToken THEN tokens ELSE ether
      owed == IF useToken THEN 0 ELSE SumFunction(due)
  IN  lifts = 0 /\ NoForeignSpent
        => held >= SumFunction([l \in Unspent |-> l.note.value]) + owed
=============================================================================
