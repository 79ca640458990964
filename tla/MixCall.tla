------------------------------ MODULE MixCall -------------------------------
(***************************************************************************)
(* One mix on its way from the prover to the contract, through every form  *)
(* the client gives it.  The verification key is fetched, possibly saved   *)
(* and reloaded, and deployed; the prover balances the values and returns  *)
(* a proof with the packed public data; the client signs and builds        *)
(* MixParameters, possibly saves and reloads them with the signing keys,   *)
(* and calls mix, or leaves them to a dispatcher that calls dispatch       *)
(* (client/zeth/core/mixer_client.py, zksnark.py, signing.py; cli zeth_mix *)
(* dump options; AbstractMixer.sol).  Which nullifiers and roots the       *)
(* contract knows is the matter of Mixer.tla; here the contract only       *)
(* decodes, hashes and checks what it is sent.                             *)
(***************************************************************************)
EXTENDS SnarkTypes, Signing, PublicData

CONSTANTS
    Calls,       \* the calls a client may prepare, see CallType
    AddressBytes \* bytes of an Ethereum address, fewer than a word's

ASSUME CallsAssumption ==
    /\ AddressBytes \in 1..(WordBytes - 1)
    /\ \A c \in Calls :
         /\ c.snark \in {"GROTH16", "PGHR13"}
         /\ 2 ^ c.pp.capacity <= c.pp.r /\ c.pp.r < 2 ^ (c.pp.capacity + 1)
         /\ 2 * ValueBits + (1 + 2 * JSIN) * ResidualBits(c.pp) <= c.pp.capacity

VARIABLES
    call,    \* the chosen call: keys, proof, values and digests, sender
    config,  \* the prover's configuration: [form, val]
    key,     \* the verification key: [form, val]
    signer,  \* the one-time signing keys: [form, val]
    mix,     \* the mix itself: [form, val]
    outcome  \* "pending", an error of the prover or the contract's verdict

vars == <<call, config, key, signer, mix, outcome>>

Groth16 == call.snark = "GROTH16"

----------------------------------------------------------------------------
(* The contract's view: where each contract reads a point, in words.        *)

\* words of a coordinate, first slot of each point of the key, of the list of
\* input points, of each point of the proof, and the proof's length
LayoutGroth16AltBN128 ==
    [words |-> 1, list |-> 10, size |-> 8, vk |-> [alpha |-> 0, beta |-> 2, delta |-> 6],
     proof |-> [a |-> 0, b |-> 2, c |-> 6]]

LayoutGroth16BLS12_377 ==
    [words |-> 2, list |-> 20, size |-> 16, vk |-> [alpha |-> 0, beta |-> 4, delta |-> 12],
     proof |-> [a |-> 0, b |-> 4, c |-> 12]]

LayoutPghr13AltBN128 ==
    [words |-> 1, list |-> 24, size |-> 18,
     vk |-> [a |-> 0, b |-> 4, c |-> 6, g |-> 10, gb1 |-> 14, gb2 |-> 16, z |-> 20],
     proof |-> [a |-> 0, a_p |-> 2, b |-> 4, b_p |-> 8, c |-> 10, c_p |-> 12,
                h |-> 14, k |-> 16]]

\* get_contract_name: the contract deployed for the SNARK and the pairing.
Layout ==
    CASE ~Groth16 -> LayoutPghr13AltBN128
      [] Groth16 /\ call.pp.name = "alt-bn128" -> LayoutGroth16AltBN128
      [] OTHER -> LayoutGroth16BLS12_377

\* The integers of n consecutive coordinates, from a slot on.
ReadCoords(words, slot, n) ==
    [k \in 1..n |-> Accumulate(LAMBDA acc, w : acc * WordMod + w, 0,
                        SubSeq(words, slot + (k - 1) * Layout.words + 1,
                               slot + k * Layout.words))]

\* The components of the coordinates of a point: one each in G1, a list of
\* them in G2.
Components(p, inG2) == IF inG2 THEN p.x_coord \o p.y_coord ELSE <<p.x_coord, p.y_coord>>

\* The point read is the one with these components, or its negation: y
\* components that sum to q.
ReadsPoint(words, slot, comps) ==
    ReadCoords(words, slot, Len(comps)) = MapSeq(IntFromBytes, comps)
ReadsNegated(words, slot, comps) ==
    LET n == Len(comps)
        got == ReadCoords(words, slot, n)
    IN  \A k \in 1..n :
            IF k <= n \div 2 THEN got[k] = IntFromBytes(comps[k])
            ELSE (got[k] + IntFromBytes(comps[k])) % IntFromBytes(call.pp.q) = 0

KeyG2 == IF Groth16 THEN {"beta", "delta"} ELSE {"a", "c", "g", "gb2", "z"}
NegatedFields == IF Groth16 THEN {"beta", "delta"} ELSE {}
InputPoints(vk) == IF Groth16 THEN vk.abc ELSE vk.ic

\* numInputs as the verifiers derive it from the length of the key.
numInputs(words) == ((Len(words) - Layout.list) \div (2 * Layout.words)) - 1

ContractHasKey(words, vk) ==
    /\ \A f \in DOMAIN Layout.vk :
         LET comps == Components(vk[f], f \in KeyG2)
         IN  IF f \in NegatedFields THEN ReadsNegated(words, Layout.vk[f], comps)
             ELSE ReadsPoint(words, Layout.vk[f], comps)
    /\ \A i \in DOMAIN InputPoints(vk) :
         ReadsPoint(words, Layout.list + (i - 1) * 2 * Layout.words,
                    Components(InputPoints(vk)[i], FALSE))
    /\ numInputs(words) = Len(InputPoints(vk)) - 1

(* compute_h_sig = sha256(nf_1 || nf_2 || vk), at the client.               *)
compute_h_sig(nfs, vk) == Sha256(message_to_bytes(nfs) \o vk_to_bytes(vk))

\* What the circuit computes for this call: the public data and the hash of
\* them that is its primary input.
Witness == PublicElements(call.js, compute_h_sig(call.js.nfs, call.signer.vk), call.pp)
PrimaryInput == InputHasher(Witness, call.pp.r)

(* _verifyZkProof.  The pairing equation holds for the proof that was made  *)
(* of a satisfied circuit, for its key and its primary input.               *)
verifyZkProof(words, hash) ==
    /\ Groth16 => Len(words) = Layout.size
    /\ numInputs(key.val) = 1
    /\ hash < call.pp.r
    /\ ContractHasKey(key.val, call.vk)
    /\ \A f \in DOMAIN Layout.proof :
         ReadsPoint(words, Layout.proof[f], Components(call.proof[f], f = "b"))
    /\ BalanceConstraint(call.js, call.pp)
    /\ hash = PrimaryInput

----------------------------------------------------------------------------
(* The verification key.                                                    *)

Init ==
    /\ call \in Calls
    /\ config = [form |-> "proto",
                 val |-> [zksnark |-> call.snark,
                          pairing_parameters |-> pairing_parameters_to_proto(call.pp)]]
    /\ key = [form |-> "proto", val |-> IF Groth16 THEN Groth16_vk_to_proto(call.vk)
                                        ELSE PGHR13_vk_message(call.vk)]
    /\ signer = [form |-> "object", val |-> call.signer]
    /\ mix = [form |-> "none"]
    /\ outcome = "pending"

(* ProverClient.get_configuration: from the server, then through its file.  *)
FetchConfig ==
    /\ config.form = "proto"
    /\ config' = [form |-> "object",
                  val |-> [zksnark_name |-> config.val.zksnark,
                           pairing_parameters |->
                               pairing_parameters_from_proto(config.val.pairing_parameters)]]
    /\ UNCHANGED <<call, key, signer, mix, outcome>>

SaveConfig ==
    /\ config.form = "object" /\ key.form = "proto"
    /\ config' = [form |-> "json",
                  val |-> [config.val EXCEPT !.pairing_parameters = pairing_to_json(@)]]
    /\ UNCHANGED <<call, key, signer, mix, outcome>>

LoadConfig ==
    /\ config.form = "json"
    /\ config' = [form |-> "object",
                  val |-> [config.val EXCEPT !.pairing_parameters = pairing_from_json(@)]]
    /\ UNCHANGED <<call, key, signer, mix, outcome>>

(* ProverClient.get_verification_key.                                       *)
FetchKey ==
    /\ config.form = "object" /\ key.form = "proto"
    /\ key' = [form |-> "object",
               val |-> IF Groth16 THEN Groth16_vk_from_proto(key.val)
                       ELSE PGHR13_vk_from_proto(key.val)]
    /\ UNCHANGED <<call, config, signer, mix, outcome>>

(* verification_key_to_proto, which PGHR13 does not implement.              *)
SendKey ==
    /\ key.form = "object" /\ Groth16
    /\ key' = [form |-> "proto", val |-> Groth16_vk_to_proto(key.val)]
    /\ UNCHANGED <<call, config, signer, mix, outcome>>

SaveKey ==
    /\ key.form = "object"
    /\ key' = [form |-> "json",
               val |-> IF Groth16 THEN Groth16_vk_to_json(key.val)
                       ELSE PGHR13_vk_to_json(key.val)]
    /\ UNCHANGED <<call, config, signer, mix, outcome>>

LoadKey ==
    /\ key.form = "json"
    /\ key' = [form |-> "object",
               val |-> IF Groth16 THEN Groth16_vk_from_json(key.val)
                       ELSE PGHR13_vk_from_json(key.val)]
    /\ UNCHANGED <<call, config, signer, mix, outcome>>

(* MixerClient.deploy: the key becomes constructor arguments.               *)
Deploy ==
    /\ key.form = "object"
    /\ key' = [form |-> "contract",
               val |-> IF Groth16 THEN Groth16_vk_to_contract(key.val, config.val.pairing_parameters)
                       ELSE PGHR13_vk_to_contract(key.val)]
    /\ UNCHANGED <<call, config, signer, mix, outcome>>

----------------------------------------------------------------------------
(* Proof and signature.                                                     *)

\* SigningKeyPair.to_json_dict / from_json_dict, before the keys are used.
SaveSigner ==
    /\ mix.form = "none" /\ key.form = "contract" /\ signer.form = "object"
    /\ signer' = [form |-> "json", val |-> keypair_to_json(signer.val)]
    /\ UNCHANGED <<call, config, key, mix, outcome>>

LoadSigner ==
    /\ signer.form = "json"
    /\ signer' = [form |-> "object", val |-> keypair_from_json(signer.val)]
    /\ UNCHANGED <<call, config, key, mix, outcome>>

(* circuit_wrapper::prove behind the Prove call of the server: two refusals *)
(* or a reply.  The satisfiability of the witness is not consulted.         *)
Prove ==
    /\ mix.form = "none" /\ key.form = "contract" /\ signer.form = "object"
    /\ outcome = "pending"
    /\ \/ /\ ~BalanceCheck(call.js)
          /\ outcome' = "invalid joinsplit balance"
          /\ UNCHANGED mix
       \/ /\ BalanceCheck(call.js) /\ LeftOverflows(call.js)
          /\ outcome' = "overflow"
          /\ UNCHANGED mix
       \/ /\ BalanceCheck(call.js) /\ ~LeftOverflows(call.js)
          /\ LET ext == [proof |-> call.proof,
                         inputs |-> <<IntToBytes(PrimaryInput, WordBytes)>>]
             IN  mix' = [form |-> "reply",
                         val |-> [extended_proof |->
                                    IF Groth16 THEN Groth16_extended_proof_to_proto(ext)
                                    ELSE PGHR13_extended_proof_to_proto(ext),
                                  public_data |-> [i \in DOMAIN Witness |->
                                    IntToBytes(Witness[i], WordBytes)]]]
          /\ UNCHANGED outcome
    /\ UNCHANGED <<call, config, key, signer>>

\* ProverClient.get_proof, on the reply.
get_proof(reply) ==
    [extended_proof |->
        IF Groth16 THEN Groth16_extended_proof_from_proto(reply.extended_proof)
        ELSE PGHR13_extended_proof_from_proto(reply.extended_proof),
     public_data |-> MapSeq(IntFromBytes, reply.public_data)]

proof_to_contract_parameters(p) ==
    IF Groth16 THEN Groth16_proof_to_contract(p) ELSE PGHR13_proof_to_contract(p)

\* Mutant: the proof is signed for a dispatch call too.
joinsplit_sign_with_proof(got) ==
    sign(signer.val.sk,
         IntToBytes(Sha256(extend_word(IntToBytes(call.eth_address, AddressBytes))
             \o call.ciphertexts[1] \o call.ciphertexts[2]
             \o message_to_bytes(proof_to_contract_parameters(got.extended_proof.proof))
             \o message_to_bytes(got.public_data)), WordBytes))

(* joinsplit_sign: sender, ciphertexts, proof unless it is for dispatch,    *)
(* public data.                                                             *)
joinsplit_sign(got) ==
    sign(signer.val.sk,
         IntToBytes(Sha256(extend_word(IntToBytes(call.eth_address, AddressBytes))
             \o call.ciphertexts[1] \o call.ciphertexts[2]
             \o (IF call.dispatch THEN <<>> ELSE
                 message_to_bytes(proof_to_contract_parameters(got.extended_proof.proof)))
             \o message_to_bytes(got.public_data)), WordBytes))

(* create_mix_parameters_from_proof.                                        *)
CreateMixParameters ==
    /\ mix.form = "reply"
    /\ LET got == get_proof(mix.val)
       IN  mix' = [form |-> "object",
                   val |-> [extended_proof |-> got.extended_proof,
                            public_data |-> got.public_data,
                            signature_vk |-> signer.val.vk,
                            signature |-> joinsplit_sign(got),
                            ciphertexts |-> call.ciphertexts]]
    /\ UNCHANGED <<call, config, key, signer, outcome>>

\* ExtendedProof.to_json_dict and from_json_dict.
extended_proof_to_json(e) ==
    [proof |-> IF Groth16 THEN Groth16_proof_to_json(e.proof) ELSE PGHR13_proof_to_json(e.proof),
     inputs |-> e.inputs]
extended_proof_from_json(j) ==
    [proof |-> IF Groth16 THEN Groth16_proof_from_json(j.proof)
               ELSE PGHR13_proof_from_json(j.proof),
     inputs |-> j.inputs]

(* MixParameters.to_json_dict and from_json_dict: integers as text, the     *)
(* verification key as its four mix parameters.                             *)
MixParameters_to_json(mp) ==
    [mp EXCEPT !.extended_proof = extended_proof_to_json(@),
               !.public_data = [i \in DOMAIN @ |-> IntToBytes(@[i], WordBytes)],
               !.signature_vk = verification_key_as_mix_parameter(@)]
MixParameters_from_json(j) ==
    [j EXCEPT !.extended_proof = extended_proof_from_json(@),
              !.public_data = MapSeq(IntFromBytes, @),
              !.signature_vk = verification_key_from_mix_parameter(@)]

SaveMix ==
    /\ mix.form = "object"
    /\ mix' = [form |-> "json", val |-> MixParameters_to_json(mix.val)]
    /\ UNCHANGED <<call, config, key, signer, outcome>>

LoadMix ==
    /\ mix.form = "json"
    /\ mix' = [form |-> "object", val |-> MixParameters_from_json(mix.val)]
    /\ UNCHANGED <<call, config, key, signer, outcome>>

----------------------------------------------------------------------------
(* The call.                                                                *)

\* mix_parameters_to_contract_arguments, mix_parameters_to_dispatch_parameters
Arguments ==
    [proof |-> IF call.dispatch THEN <<>>
               ELSE proof_to_contract_parameters(mix.val.extended_proof.proof),
     vk |-> verification_key_as_mix_parameter(mix.val.signature_vk),
     sigma |-> mix.val.signature,
     inputs |-> mix.val.public_data,
     ciphertexts |-> mix.val.ciphertexts]

Nullifiers(data) == <<assembleNullifier(0, data, call.pp), assembleNullifier(1, data, call.pp)>>

\* sha256(abi.encodePacked(nfs, vk)) against the h_sig of the public data
HsigMatches(args) ==
    Sha256(message_to_bytes(Nullifiers(args.inputs)) \o message_to_bytes(args.vk))
        = assembleHsig(args.inputs, call.pp)

\* sha256(abi.encodePacked(sender, ciphertexts, proof, inputs)); dispatch has
\* no proof to pack.
hashToBeSigned(args, sender) ==
    Sha256(IntToBytes(sender, WordBytes) \o args.ciphertexts[1] \o args.ciphertexts[2]
           \o message_to_bytes(args.proof) \o message_to_bytes(args.inputs))

(* AbstractMixer.mix and dispatch, up to the state they keep, in the order  *)
(* of their checks.  The dispatcher verifies the proof before it calls      *)
(* dispatch, which compares its primary input with the hash of the data.    *)
Verdict(args) ==
    LET hash == hashPublicProofData(args.inputs, call.pp.r)
        nested == MapSeq(IntFromBytes, mix.val.extended_proof.inputs)
    IN  CASE call.dispatch /\ ~BalanceConstraint(call.js, call.pp) -> "invalid proof"
          [] call.dispatch /\ nested # <<hash>> -> "public data differs"
          [] ~HsigMatches(args) -> "invalid hsig"
          [] ~OTSchnorr_verify(args.vk, args.sigma, hashToBeSigned(args, call.msg_sender))
             -> "invalid signature"
          [] ~call.dispatch /\ ~verifyZkProof(args.proof, hash) -> "invalid proof"
          [] OTHER -> "accepted"

CallContract ==
    /\ mix.form = "object" /\ outcome = "pending"
    /\ outcome' = Verdict(Arguments)
    /\ mix' = [form |-> "called",
               val |-> [nfs |-> Nullifiers(Arguments.inputs),
                        cms |-> assembleCommitments(Arguments.inputs),
                        values |-> assemblePublicValues(Arguments.inputs)]]
    /\ UNCHANGED <<call, config, key, signer>>

Next ==
    \/ FetchConfig \/ SaveConfig \/ LoadConfig
    \/ FetchKey \/ SendKey \/ SaveKey \/ LoadKey \/ Deploy
    \/ SaveSigner \/ LoadSigner \/ Prove \/ CreateMixParameters
    \/ SaveMix \/ LoadMix \/ CallContract

Spec == Init /\ [][Next]_vars

----------------------------------------------------------------------------
(* Properties.                                                              *)

\* The two sides of the joinsplit are the same amount, and it fits.
Balanced ==
    /\ Total(call.js.vin, call.js.ins) = Total(call.js.vout, call.js.outs)
    /\ Total(call.js.vin, call.js.ins) < 2 ^ ValueBits

(* Whatever sequence of saves, loads and protobuf messages the key, the     *)
(* signing keys and the mix parameters go through, the client has the       *)
(* objects it started with: no field is lost, swapped or re-encoded         *)
(* (to_json_dict / from_json_dict, *_to_proto / *_from_proto).              *)
ConversionsLossless ==
    /\ config.form = "object" =>
         config.val = [zksnark_name |-> call.snark, pairing_parameters |-> call.pp]
    /\ key.form = "object" => key.val = call.vk
    /\ signer.form = "object" => signer.val = call.signer
    /\ mix.form = "object" =>
         /\ mix.val.extended_proof.proof = call.proof
         /\ mix.val.public_data = Witness
         /\ mix.val.signature_vk = call.signer.vk

(* The client's MiMC hash of two words is the contract's, on words that are *)
(* reduced and words that are not: the Merkle trees kept by both sides hash *)
(* alike (MiMCBase.hash, LibMiMC._hash_e17).                                *)
TreeHashesAgree ==
    config.form = "proto" =>
      \A x, y \in {call.js.nfs[1], call.js.nfs[2], call.js.his[1], call.js.his[2]} :
        mimc_hash(x, y, call.pp.r) = hash_e17(x, y, call.pp.r)

(* Each verifier contract finds every point of the deployed key in the slot *)
(* where it reads it, beta and delta of Groth16 negated, and derives the    *)
(* right number of inputs, for coordinates of one word and of one and a     *)
(* half (verification_key_to_contract_parameters).                          *)
KeyReadAsProved == key.form = "contract" => ContractHasKey(key.val, call.vk)

(* A balanced mix that is sent by the address it was signed for is accepted *)
(* by the contract, through mix or dispatch: the proof is where the         *)
(* verifier looks for it, the two MiMC hashes of the public data agree,     *)
(* h_sig is rebuilt to the bit, and the signature is over the same bytes.   *)
(* The client's own verify accepts the signature too, against the message   *)
(* the contract rebuilds.                                                   *)
HonestCallAccepted ==
    /\ mix.form = "object" =>
         verify(mix.val.signature_vk,
                IntToBytes(hashToBeSigned(Arguments, call.eth_address), WordBytes),
                mix.val.signature)
    /\ mix.form = "called" /\ Balanced /\ call.eth_address = call.msg_sender
         => outcome = "accepted"

(* Values are never made by wrapping: the prover refuses or the verifier    *)
(* rejects every joinsplit whose totals differ or do not fit in a value,    *)
(* although prove compares totals that wrap and then ignores whether its    *)
(* witness satisfies the circuit; and it refuses no balanced one.           *)
BalanceExact ==
    /\ outcome = "accepted" => Balanced
    /\ outcome \in {"invalid joinsplit balance", "overflow"} => ~Balanced

(* The contract unpacks exactly what the circuit packed: the public values, *)
(* the nullifiers with their residual bits, and the commitments             *)
(* (_assembleNullifier, _assemblePublicValues).                             *)
ContractReadsPublicData ==
    mix.form = "called" =>
        mix.val = [nfs |-> call.js.nfs, cms |-> call.js.cms,
                   values |-> [vin |-> call.js.vin, vout |-> call.js.vout]]
=============================================================================
