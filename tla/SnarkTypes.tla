----------------------------- MODULE SnarkTypes -----------------------------
(***************************************************************************)
(* Group elements, verification keys and proofs of the two SNARKs, and the *)
(* forms they take on their way from the prover to the contract: protobuf  *)
(* message, client object, JSON, EVM words (client/zeth/core/pairing.py,   *)
(* zksnark.py), and the slots the contracts read them back from            *)
(* (LibGroth16AltBN128.sol, LibGroth16BLS12_377.sol,                       *)
(* MixerPghr13AltBN128.sol, modelled from the layout their callers use).   *)
(*                                                                         *)
(* A coordinate in the base field is a byte string; one in an extension is *)
(* the list of its components.  Text produced by json.dumps is a record    *)
(* [json |-> value], so that forgetting to load or dump it shows.          *)
(***************************************************************************)
EXTENDS EvmWords

Dumps(v) == [json |-> v]
Loads(t) == t.json

MapSeq(Op(_), s) == [i \in DOMAIN s |-> Op(s[i])]

----------------------------------------------------------------------------
(* G1Point and G2Point.                                                     *)

G1Point(x, y) == [x_coord |-> x, y_coord |-> y]
point_to_json(p) == <<p.x_coord, p.y_coord>>
point_from_json(l) == G1Point(l[1], l[2])

g1_point_from_proto(p) == G1Point(Loads(p.x_coord), Loads(p.y_coord))
g1_point_to_proto(p) == G1Point(Dumps(p.x_coord), Dumps(p.y_coord))

\* The extension components travel as one JSON list per coordinate.
g2_point_from_proto(p) == G1Point(Loads(p.x_coord), Loads(p.y_coord))
g2_point_to_proto(p) == G1Point(Dumps(p.x_coord), Dumps(p.y_coord))

g1_point_to_contract_parameters(p) ==
    hex_list_to_uint256_list(<<p.x_coord, p.y_coord>>)

(* A coordinate of a G2 point is a list of field elements in both supported *)
(* pairings; the branches for coordinates that are single strings are never *)
(* taken and are left out.                                                  *)
g2_point_to_contract_parameters(p) ==
    hex_list_to_uint256_list(p.x_coord) \o hex_list_to_uint256_list(p.y_coord)

\* Mutant: both coordinates are negated.
g2_point_negate_both(p, pp) ==
    G1Point([i \in DOMAIN p.x_coord |-> field_element_negate(p.x_coord[i], pp.q)],
            [i \in DOMAIN p.y_coord |-> field_element_negate(p.y_coord[i], pp.q)])

g2_point_negate(p, pp) ==
    G1Point(p.x_coord,
            [i \in DOMAIN p.y_coord |-> field_element_negate(p.y_coord[i], pp.q)])

\* PairingParameters: the name, the two moduli and the generators.
pairing_parameters_to_proto(pp) ==
    [pp EXCEPT !.generator_g1 = g1_point_to_proto(@),
               !.generator_g2 = g2_point_to_proto(@)]
pairing_parameters_from_proto(pp) ==
    [pp EXCEPT !.generator_g1 = g1_point_from_proto(@),
               !.generator_g2 = g2_point_from_proto(@)]
pairing_to_json(pp) ==
    [pp EXCEPT !.generator_g1 = point_to_json(@), !.generator_g2 = point_to_json(@)]
pairing_from_json(j) ==
    [j EXCEPT !.generator_g1 = point_from_json(@), !.generator_g2 = point_from_json(@)]

----------------------------------------------------------------------------
(* Groth16.                                                                 *)

Groth16_vk_to_json(vk) ==
    [alpha |-> point_to_json(vk.alpha), beta |-> point_to_json(vk.beta),
     delta |-> point_to_json(vk.delta), ABC |-> MapSeq(point_to_json, vk.abc)]

\* Mutant: beta and delta are read from each other's key.
Groth16_vk_from_json_swapped(j) ==
    [alpha |-> point_from_json(j.alpha), beta |-> point_from_json(j.delta),
     delta |-> point_from_json(j.beta), abc |-> MapSeq(point_from_json, j.ABC)]

Groth16_vk_from_json(j) ==
    [alpha |-> point_from_json(j.alpha), beta |-> point_from_json(j.beta),
     delta |-> point_from_json(j.delta), abc |-> MapSeq(point_from_json, j.ABC)]

Groth16_vk_to_proto(vk) ==
    [alpha_g1 |-> g1_point_to_proto(vk.alpha), beta_g2 |-> g2_point_to_proto(vk.beta),
     delta_g2 |-> g2_point_to_proto(vk.delta),
     abc_g1 |-> Dumps(MapSeq(point_to_json, vk.abc))]

Groth16_vk_from_proto(p) ==
    [alpha |-> g1_point_from_proto(p.alpha_g1), beta |-> g2_point_from_proto(p.beta_g2),
     delta |-> g2_point_from_proto(p.delta_g2),
     abc |-> MapSeq(point_from_json, Loads(p.abc_g1))]

Groth16_vk_to_contract(vk, pp) ==
    g1_point_to_contract_parameters(vk.alpha)
        \o g2_point_to_contract_parameters(g2_point_negate(vk.beta, pp))
        \o g2_point_to_contract_parameters(g2_point_negate(vk.delta, pp))
        \o FlattenSeq(MapSeq(g1_point_to_contract_parameters, vk.abc))

Groth16_proof_to_json(p) ==
    [a |-> point_to_json(p.a), b |-> point_to_json(p.b), c |-> point_to_json(p.c)]
Groth16_proof_from_json(j) ==
    [a |-> point_from_json(j.a), b |-> point_from_json(j.b), c |-> point_from_json(j.c)]

Groth16_extended_proof_to_proto(e) ==
    [a |-> g1_point_to_proto(e.proof.a), b |-> g2_point_to_proto(e.proof.b),
     c |-> g1_point_to_proto(e.proof.c), inputs |-> Dumps(e.inputs)]

Groth16_extended_proof_from_proto(p) ==
    [proof |-> [a |-> g1_point_from_proto(p.a), b |-> g2_point_from_proto(p.b),
                c |-> g1_point_from_proto(p.c)],
     inputs |-> Loads(p.inputs)]

Groth16_proof_to_contract(p) ==
    g1_point_to_contract_parameters(p.a) \o g2_point_to_contract_parameters(p.b)
        \o g1_point_to_contract_parameters(p.c)

----------------------------------------------------------------------------
(* PGHR13.                                                                  *)

PGHR13_vk_to_json(vk) ==
    [a |-> point_to_json(vk.a), b |-> point_to_json(vk.b), c |-> point_to_json(vk.c),
     g |-> point_to_json(vk.g), gb1 |-> point_to_json(vk.gb1),
     gb2 |-> point_to_json(vk.gb2), z |-> point_to_json(vk.z),
     ic |-> MapSeq(point_to_json, vk.ic)]

PGHR13_vk_from_json(j) ==
    [a |-> point_from_json(j.a), b |-> point_from_json(j.b), c |-> point_from_json(j.c),
     g |-> point_from_json(j.g), gb1 |-> point_from_json(j.gb1),
     gb2 |-> point_from_json(j.gb2), z |-> point_from_json(j.z),
     ic |-> MapSeq(point_from_json, j.ic)]

\* The message the prover sends; the client's verification_key_to_proto raises
\* "not implemented".
PGHR13_vk_message(vk) ==
    [a |-> g2_point_to_proto(vk.a), b |-> g1_point_to_proto(vk.b),
     c |-> g2_point_to_proto(vk.c), gamma |-> g2_point_to_proto(vk.g),
     gamma_beta_g1 |-> g1_point_to_proto(vk.gb1),
     gamma_beta_g2 |-> g2_point_to_proto(vk.gb2), z |-> g2_point_to_proto(vk.z),
     ic |-> Dumps(MapSeq(point_to_json, vk.ic))]

PGHR13_vk_from_proto(p) ==
    [a |-> g2_point_from_proto(p.a), b |-> g1_point_from_proto(p.b),
     c |-> g2_point_from_proto(p.c), g |-> g2_point_from_proto(p.gamma),
     gb1 |-> g1_point_from_proto(p.gamma_beta_g1),
     gb2 |-> g2_point_from_proto(p.gamma_beta_g2), z |-> g2_point_from_proto(p.z),
     ic |-> MapSeq(point_from_json, Loads(p.ic))]

PGHR13_vk_to_contract(vk) ==
    g2_point_to_contract_parameters(vk.a) \o g1_point_to_contract_parameters(vk.b)
        \o g2_point_to_contract_parameters(vk.c) \o g2_point_to_contract_parameters(vk.g)
        \o g1_point_to_contract_parameters(vk.gb1)
        \o g2_point_to_contract_parameters(vk.gb2)
        \o g2_point_to_contract_parameters(vk.z)
        \o FlattenSeq(MapSeq(g1_point_to_contract_parameters, vk.ic))

PGHR13_proof_to_json(p) == [f \in DOMAIN p |-> point_to_json(p[f])]
PGHR13_proof_from_json(j) ==
    [a |-> point_from_json(j.a), a_p |-> point_from_json(j.a_p),
     b |-> point_from_json(j.b), b_p |-> point_from_json(j.b_p),
     c |-> point_from_json(j.c), c_p |-> point_from_json(j.c_p),
     h |-> point_from_json(j.h), k |-> point_from_json(j.k)]

PGHR13_extended_proof_to_proto(e) ==
    [f \in DOMAIN e.proof \cup {"inputs"} |->
        CASE f = "inputs" -> Dumps(e.inputs)
          [] f = "b" -> g2_point_to_proto(e.proof.b)
          [] OTHER -> g1_point_to_proto(e.proof[f])]

PGHR13_extended_proof_from_proto(p) ==
    [proof |-> [f \in DOMAIN p \ {"inputs"} |->
                   IF f = "b" THEN g2_point_from_proto(p.b)
                   ELSE g1_point_from_proto(p[f])],
     inputs |-> Loads(p.inputs)]

PGHR13_proof_to_contract(p) ==
    g1_point_to_contract_parameters(p.a) \o g1_point_to_contract_parameters(p.a_p)
        \o g2_point_to_contract_parameters(p.b)
        \o FlattenSeq(MapSeq(g1_point_to_contract_parameters,
                             <<p.b_p, p.c, p.c_p, p.h, p.k>>))
=============================================================================
