----------------------------- MODULE PublicData -----------------------------
(***************************************************************************)
(* The public data of a mix: how the circuit balances the values, packs    *)
(* digests and public values into field elements                           *)
(* (libzeth/circuits/joinsplit.tcc, circuit_wrapper.tcc, core/bits.tcc),   *)
(* how the client hashes them (mimc.py, input_hasher.py), and how the      *)
(* contract hashes and unpacks them (AbstractMixer.sol, LibMiMC.sol).      *)
(*                                                                         *)
(* A digest has as many bits as a word; a field element of a pairing       *)
(* parameter record pp holds pp.capacity of them, and the bits that do not *)
(* fit share the residual element with the two public values.              *)
(***************************************************************************)
EXTENDS EvmWords, Bitwise

CONSTANTS
    DigestBits,   \* bits of a digest and of a word (256)
    ValueBits,    \* bits of a public value (ZETH_V_SIZE, 64)
    MimcRounds,   \* rounds of MiMC (65 and 62)
    HashIV        \* DEFAULT_IV_UINT256

ASSUME PublicDataAssumption ==
    /\ DigestBits \in Nat /\ ValueBits \in Nat \ {0} /\ MimcRounds \in Nat \ {0}
    /\ 2 ^ DigestBits = WordMod /\ HashIV \in 0..(WordMod - 1)

JSIN == 2
JSOUT == 2
NumInputs == 1 + JSOUT + (1 + 2 * JSIN) + 1

----------------------------------------------------------------------------
(* Balance.  A value is a sequence of bits, high order first.               *)

Bits(v) == [i \in 1..ValueBits |-> (v \div 2 ^ (ValueBits - i)) % 2]

(* bits_add: the ripple-carry sum and the carry that is left.               *)
bits_add(as, bs) ==
    LET step(acc, k) ==
            LET a == as[ValueBits + 1 - k]
                b == bs[ValueBits + 1 - k]
                r == (a + acc.carry) % 2
            IN  [bits  |-> <<(r + b) % 2>> \o acc.bits,
                 carry |-> IF (acc.carry = 1 /\ a = 1) \/ (r = 1 /\ b = 1) THEN 1 ELSE 0]
    IN  Accumulate(step, [bits |-> <<>>, carry |-> 0], [k \in 1..ValueBits |-> k])

SumBits(v, notes) ==
    Accumulate(LAMBDA acc, n : bits_add(acc, Bits(n)).bits, Bits(v), notes)

\* with_carry = true: the first partial sum that overflows throws.
SumOverflows(v, notes) ==
    \E k \in DOMAIN notes :
        bits_add(SumBits(v, SubSeq(notes, 1, k - 1)), Bits(notes[k])).carry = 1

Total(v, notes) == Accumulate(+, v, notes)

(* circuit_wrapper::prove up to the witness: the two exceptions.            *)
BalanceCheck(js) == SumBits(js.vin, js.ins) = SumBits(js.vout, js.outs)
LeftOverflows(js) == SumOverflows(js.vin, js.ins)

\* Mutant: the constraint compares the truncated totals.
BalanceConstraint_wrapped(js, pp) ==
    Total(js.vin, js.ins) % 2 ^ ValueBits = Total(js.vout, js.outs) % 2 ^ ValueBits

(* The constraints of the circuit on the values: both sides are equal in    *)
(* the field, and the left one is the value of ValueBits Boolean variables. *)
BalanceConstraint(js, pp) ==
    /\ Total(js.vin, js.ins) % pp.r = Total(js.vout, js.outs) % pp.r
    /\ Total(js.vin, js.ins) % pp.r < 2 ^ ValueBits

----------------------------------------------------------------------------
(* Packing, in the circuit.                                                 *)

FieldPart(d, pp) == d % 2 ^ pp.capacity
ResidualPart(d, pp) == d \div 2 ^ pp.capacity
ResidualBits(pp) == DigestBits - pp.capacity

\* Mutant: the nullifiers' residual bits come before those of the h_i.
PackResidual_nf_first(js, hsig, pp) ==
    LET sets == js.nfs \o js.his \o <<hsig>>
    IN  Accumulate(LAMBDA acc, i : acc + ResidualPart(sets[i], pp)
                     * 2 ^ (2 * ValueBits + (i - 1) * ResidualBits(pp)),
                 js.vout + js.vin * 2 ^ ValueBits, [i \in DOMAIN sets |-> i])

(* The residual element, low bits first: vpub_out, vpub_in, then the high   *)
(* bits of the h_i, of the nullifiers and of h_sig.                         *)
PackResidual(js, hsig, pp) ==
    LET sets == js.his \o js.nfs \o <<hsig>>
    IN  Accumulate(LAMBDA acc, i : acc + ResidualPart(sets[i], pp)
                     * 2 ^ (2 * ValueBits + (i - 1) * ResidualBits(pp)),
                 js.vout + js.vin * 2 ^ ValueBits, [i \in DOMAIN sets |-> i])

(* The public elements in the order the joinsplit gadget allocates them.    *)
PublicElements(js, hsig, pp) ==
    LET field(d) == FieldPart(d, pp)
    IN  <<js.root>> \o js.cms \o <<field(js.nfs[1]), field(js.nfs[2])>>
          \o <<field(hsig)>> \o <<field(js.his[1]), field(js.his[2])>>
          \o <<PackResidual(js, hsig, pp)>>

----------------------------------------------------------------------------
(* Hashing the public data.                                                 *)

(* Keccak-256, as it is iterated on the seed for the round constants.       *)
Keccak(w) == (w * 37 + 11) % WordMod
MimcSeed == 29

\* x^n modulo m
PowMod(x, n, m) ==
    LET pow[k \in 0..n] ==
            IF k = 0 THEN 1
            ELSE LET half == pow[k \div 2]
                     sq == (half * half) % m
                 IN  IF k % 2 = 0 THEN sq ELSE (sq * x) % m
    IN  pow[n]

(* generate_round_constants: zero, then the iterated hash of the seed.      *)
RoundConstants ==
    LET rc[k \in 1..MimcRounds] == IF k = 1 THEN MimcSeed ELSE Keccak(rc[k - 1])
    IN  [k \in 1..MimcRounds |-> IF k = 1 THEN 0 ELSE rc[k]]

mimc_round(message, key, rc, p) == PowMod((message + key + rc) % p, 17, p)

\* Mutant: the key is not added after the last round.
mimc_encrypt_no_key(message, ek, p) ==
    LET key == ek % p
    IN  Accumulate(LAMBDA a, rc : mimc_round(a, key, rc, p), message % p, RoundConstants)

(* MiMCBase.encrypt *)
mimc_encrypt(message, ek, p) ==
    LET key == ek % p
    IN  (Accumulate(LAMBDA a, rc : mimc_round(a, key, rc, p), message % p, RoundConstants)
            + key) % p

hash_int(x, y, p) == (mimc_encrypt(x, y, p) + x + y) % p

(* MiMCBase.hash, the tree hash, on two words.                              *)
mimc_hash(left, right, p) == hash_int(left % p, right % p, p)

(* InputHasher.hash.                                                        *)
InputHasher(values, p) ==
    hash_int(Accumulate(LAMBDA h, m : hash_int(h, m, p), HashIV % p, values),
             Len(values), p)

(* LibMiMC._hash_e17: 17th powers by squaring, words not reduced first.     *)
hash_e17(x, y, r) ==
    LET mul(u, v) == (u * v) % r
        power(a) == LET a2 == mul(a, a) a4 == mul(a2, a2) a8 == mul(a4, a4)
                    IN  mul(mul(a8, a8), a)
        round(st, k) == LET c == Keccak(st.c)
                        IN  [a |-> power((((st.a + c) % r) + y) % r), c |-> c]
        last == Accumulate(round, [a |-> power((x + y) % r), c |-> MimcSeed],
                         [k \in 1..(MimcRounds - 1) |-> k])
        out == (last.a + y) % r
    IN  (((out + x) % r) + y) % r

(* AbstractMixer._hashPublicProofData.                                      *)
hashPublicProofData(data, r) ==
    hash_e17(Accumulate(LAMBDA h, m : hash_e17(h, m, r), HashIV, data), NumInputs, r)

----------------------------------------------------------------------------
(* Unpacking, in the contract.  A word shifted left loses its high bits.    *)

extractBytes32(fieldElement, residual, set, pp) ==
    LET shift   == pp.capacity - 2 * ValueBits - set * ResidualBits(pp)
        shifted == (residual * 2 ^ shift) % 2 ^ DigestBits
    IN  fieldElement | ((shifted \div 2 ^ pp.capacity) * 2 ^ pp.capacity)

\* Solidity indices start at 0.
Slot(data, i) == data[i + 1]
ResidualSlot(data) == Slot(data, 1 + JSOUT + (1 + 2 * JSIN))

assembleNullifier(index, data, pp) ==
    extractBytes32(Slot(data, 1 + JSOUT + index), ResidualSlot(data), JSIN + index, pp)
assembleHsig(data, pp) ==
    extractBytes32(Slot(data, 1 + JSIN + JSOUT), ResidualSlot(data), 2 * JSIN, pp)
assemblePublicValues(data) ==
    [vout |-> ResidualSlot(data) % 2 ^ ValueBits,
     vin  |-> (ResidualSlot(data) \div 2 ^ ValueBits) % 2 ^ ValueBits]
assembleCommitments(data) == <<Slot(data, 1), Slot(data, 2)>>
=============================================================================
