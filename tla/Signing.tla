------------------------------ MODULE Signing -------------------------------
(***************************************************************************)
(* The one-time Schnorr signature of a mix (client/zeth/core/signing.py)   *)
(* and its check on chain (LibOTSchnorrVerifier.sol).  The curve is the    *)
(* cyclic group of order curve_order; Point(k) are the coordinates of k    *)
(* times the generator.  The field the coordinates live in is larger than  *)
(* the group, as on alt-bn128.                                             *)
(***************************************************************************)
EXTENDS EvmWords

CONSTANTS curve_order, field_modulus

ASSUME CurveAssumption ==
    /\ curve_order \in Nat \ {0, 1} /\ field_modulus \in Nat
    /\ curve_order < field_modulus /\ field_modulus <= WordMod

(* py_ecc and the EVM precompiles: FQ(n), scalar multiples of G1 and of a   *)
(* point, addition.                                                         *)
FQ(n) == n % field_modulus
Point(k) == <<k % curve_order, field_modulus - 1 - (k % curve_order)>>
Log(p) == p[1]
Multiply(p, n) == Point((Log(p) * (n % curve_order)) % curve_order)
Add(p, q) == Point(Log(p) + Log(q))

(* hashlib.sha256 and the sha256 precompile: one fixed function of the      *)
(* bytes and their order, as an integer of one word.  It mixes, but on      *)
(* words this small it is not free of collisions.                           *)
Sha256(bytes) ==
    LET h[i \in DOMAIN bytes, j \in DOMAIN bytes] ==
            IF i = j THEN bytes[i] + 7
            ELSE LET m == (i + j) \div 2
                 IN  (h[i, m] * 31 + h[m + 1, j] * 173 + 5) % WordMod
    IN  h[1, Len(bytes)]

(* gen_signing_keypair, from the two random scalars.  Zero scalars, which   *)
(* have no affine coordinates, are left out by the callers.                 *)
gen_signing_keypair(x, y) ==
    [sk |-> [psk |-> FQ(x % curve_order), ssk |-> <<FQ(y % curve_order), Point(y)>>],
     vk |-> [ppk |-> Point(x), spk |-> Point(y)]]

g1_to_bytes(p) == IntToBytes(p[1], WordBytes) \o IntToBytes(p[2], WordBytes)
vk_to_bytes(vk) == g1_to_bytes(vk.ppk) \o g1_to_bytes(vk.spk)

fq_to_hex(f) == IntToBytes(f, WordBytes)
fq_from_hex(h) == FQ(IntFromBytes(h))
g1_to_json_dict(p) == [x |-> fq_to_hex(p[1]), y |-> fq_to_hex(p[2])]
g1_from_json_dict(j) == <<fq_from_hex(j.x), fq_from_hex(j.y)>>

keypair_to_json(kp) ==
    [sk |-> [psk |-> fq_to_hex(kp.sk.psk), ssk_y |-> fq_to_hex(kp.sk.ssk[1]),
             ssk_y_g1 |-> g1_to_json_dict(kp.sk.ssk[2])],
     vk |-> [ppk |-> g1_to_json_dict(kp.vk.ppk), spk |-> g1_to_json_dict(kp.vk.spk)]]

keypair_from_json(j) ==
    [sk |-> [psk |-> fq_from_hex(j.sk.psk),
             ssk |-> <<fq_from_hex(j.sk.ssk_y), g1_from_json_dict(j.sk.ssk_y_g1)>>],
     vk |-> [ppk |-> g1_from_json_dict(j.vk.ppk), spk |-> g1_from_json_dict(j.vk.spk)]]

(* sign: sigma = y + H(Y || m) x, modulo the order of the group.            *)
sign(sk, m) ==
    LET challenge == Sha256(g1_to_bytes(sk.ssk[2]) \o m) % curve_order
    IN  (sk.ssk[1] + challenge * sk.psk) % curve_order

(* verify: sigma G = Y + H(Y || m) X.                                       *)
verify(vk, m, sigma) ==
    LET challenge == Sha256(g1_to_bytes(vk.spk) \o m) % curve_order
    IN  Point(FQ(sigma)) = Add(vk.spk, Multiply(vk.ppk, FQ(challenge)))

verification_key_as_mix_parameter(vk) ==
    <<vk.ppk[1], vk.ppk[2], vk.spk[1], vk.spk[2]>>
verification_key_from_mix_parameter(l) ==
    [ppk |-> <<FQ(l[1]), FQ(l[2])>>, spk |-> <<FQ(l[3]), FQ(l[4])>>]

(* LibOTSchnorrVerifier._verify on the four words of the key.  The hash is  *)
(* not reduced: the precompile multiplies by the whole word.                *)
OTSchnorr_verify(vk, sigma, hash) ==
    LET h == Sha256(message_to_bytes(<<vk[3], vk[4], hash>>))
    IN  Point(sigma) = Add(<<vk[3], vk[4]>>, Multiply(<<vk[1], vk[2]>>, h))
=============================================================================
