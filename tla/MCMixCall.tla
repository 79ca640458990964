----------------------------- MODULE MCMixCall ------------------------------
(* Bytes of four bits, words of four of them; coordinates of 4 bytes        *)
(* (alt-bn128) and of 6 (bls12-377); digests of 16 bits in fields that hold *)
(* 15 and 14 of them; values of 2 bits.                                     *)
EXTENDS MixCall

\* The i-th coordinate of an object drawn from a seed.
Elem(pp, seed, i) ==
    IntToBytes((seed * 7919 + i * 104729) % IntFromBytes(pp.q), Len(pp.q))
G1(pp, seed, i) == G1Point(Elem(pp, seed, i), Elem(pp, seed, i + 1))
G2(pp, seed, i) == G1Point(<<Elem(pp, seed, i), Elem(pp, seed, i + 1)>>,
                           <<Elem(pp, seed, i + 2), Elem(pp, seed, i + 3)>>)

VkOf(snark, pp, s) ==
    IF snark = "GROTH16"
    THEN [alpha |-> G1(pp, s, 0), beta |-> G2(pp, s, 2), delta |-> G2(pp, s, 6),
          abc |-> <<G1(pp, s, 10), G1(pp, s, 12)>>]
    ELSE [a |-> G2(pp, s, 0), b |-> G1(pp, s, 4), c |-> G2(pp, s, 6), g |-> G2(pp, s, 10),
          gb1 |-> G1(pp, s, 14), gb2 |-> G2(pp, s, 16), z |-> G2(pp, s, 20),
          ic |-> <<G1(pp, s, 24), G1(pp, s, 26)>>]

ProofOf(snark, pp, s) ==
    IF snark = "GROTH16"
    THEN [a |-> G1(pp, s, 30), b |-> G2(pp, s, 32), c |-> G1(pp, s, 36)]
    ELSE [a |-> G1(pp, s, 30), a_p |-> G1(pp, s, 32), b |-> G2(pp, s, 34),
          b_p |-> G1(pp, s, 38), c |-> G1(pp, s, 40), c_p |-> G1(pp, s, 42),
          h |-> G1(pp, s, 44), k |-> G1(pp, s, 46)]

Pairing(name, r, q, cap) ==
    [name |-> name, r |-> r, q |-> q, capacity |-> cap,
     generator_g1 |-> G1([q |-> q], 9, 0), generator_g2 |-> G2([q |-> q], 9, 2)]
Alt == Pairing("alt-bn128", 32771, IntToBytes(65521, 4), 15)
Bls == Pairing("bls12-377", 16411, IntToBytes(16777213, 6), 14)

Call(snark, pp, seed, js, x, y, from, sender, dispatch) ==
    [snark |-> snark, pp |-> pp, vk |-> VkOf(snark, pp, seed),
     proof |-> ProofOf(snark, pp, seed), js |-> js,
     signer |-> gen_signing_keypair(x, y), eth_address |-> from, msg_sender |-> sender,
     dispatch |-> dispatch, ciphertexts |-> <<<<3, 1, 4, 1, 5>>, <<9, 2, 6, 5, 3>>>>]

Js(nf1, nf2, h1, h2, v) ==
    [root |-> 1234, cms |-> <<77, 16000>>, nfs |-> <<nf1, nf2>>, his |-> <<h1, h2>>,
     vin |-> v[1], vout |-> v[2], ins |-> <<v[3], v[4]>>, outs |-> <<v[5], v[6]>>]

Confs == {<<"GROTH16", Alt>>, <<"GROTH16", Bls>>, <<"PGHR13", Alt>>}
Edges == {0, 16383, 16384, 32768, 65535, 43690}
Quarter == 0..(2 ^ ValueBits - 1)

\* Digests at the edges of the fields, for every configuration.
DigestCalls ==
    {Call(c[1], c[2], 1, Js(nf1, nf2, h1, 65535 - nf2, <<2, 1, 1, 0, 0, 2>>),
          3, 5, 4000, 4000, nf1 = 0)
        : c \in Confs, nf1 \in Edges, nf2 \in Edges, h1 \in {0, 65535}}

\* Signing keys, senders and points.
SignerCalls ==
    {Call(c[1], c[2], seed, Js(40000, 20000, 60000, 3, <<1, 0, 0, 2, 3, 0>>),
          x, y, 4000, sender, seed = 0)
        : c \in Confs, seed \in {0, 2}, x \in 1..6, y \in 1..6, sender \in {4000, 17}}

\* Every choice of values, balanced or not.
ValueCalls ==
    {Call("GROTH16", Alt, 1, Js(40000, 20000, 60000, 3, <<vin, vout, i1, i2, o1, o2>>),
          2, 4, 4000, 4000, vout = 0)
        : vin \in Quarter, vout \in Quarter, i1 \in Quarter, i2 \in Quarter,
          o1 \in Quarter, o2 \in Quarter}

MCCalls == DigestCalls \cup SignerCalls \cup ValueCalls
=============================================================================
