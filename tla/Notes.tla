------------------------------- MODULE Notes --------------------------------
(***************************************************************************)
(* Addresses, notes and their encryption (client/zeth/core/ownership.py,   *)
(* zeth_address.py, proto_utils.py, encryption.py and the derivations of   *)
(* mixer_client.py).  Hashes and ciphers are symbolic: a digest is the     *)
(* tuple of what was hashed, a ciphertext names the key it is under.  A    *)
(* byte string of fixed-length parts is the sequence of its parts.         *)
(***************************************************************************)
EXTENDS Naturals, Sequences

----------------------------------------------------------------------------
(* Ownership keys.  Of a_sk only the first 252 bits count.                  *)

derive_a_pk(a_sk) == <<"1100", a_sk.first252>>
compute_nullifier(note, a_sk) == <<"1110", a_sk.first252, note.rho>>
compute_rho_i(phi, hsig, i) == <<"0", i, "10", phi, hsig>>
compute_commitment(note) == <<note.trap_r, note.apk, note.rho, note.value>>
compute_h_sig(nfs, vk) == <<nfs, vk>>

(* x25519: both sides of an exchange compute the same secret.               *)
get_encryption_public_key(sk) == [public |-> sk]
exchange(sk, pk) == {sk, pk.public}

(* ZethAddress: addr_pk = (a_pk, k_pk) and addr_sk = (a_sk, k_sk), in two   *)
(* files, "<a_pk>:<k_pk>" and a JSON object.                                *)
generate_zeth_address(a_sk, k_sk) ==
    [addr_pk |-> [a_pk |-> derive_a_pk(a_sk), k_pk |-> get_encryption_public_key(k_sk)],
     addr_sk |-> [a_sk |-> a_sk, k_sk |-> k_sk]]

public_address_as_text(addr) == <<addr.a_pk, addr.k_pk>>
public_address_parse(text) == [a_pk |-> text[1], k_pk |-> text[2]]

load_zeth_address(secret, text) ==
    [addr_pk |-> public_address_parse(text), addr_sk |-> secret]

----------------------------------------------------------------------------
(* Notes as bytes: apk, value, rho and trap_r at fixed offsets.             *)

zeth_note_to_bytes(note) == <<note.apk>> \o <<note.value>> \o <<note.rho>> \o <<note.trap_r>>

zeth_note_from_bytes(bytes) ==
    [apk |-> bytes[1], value |-> bytes[2], rho |-> bytes[3], trap_r |-> bytes[4]]

----------------------------------------------------------------------------
(* The encryption of a note to a public key.                                *)

\* Mutant: the shared secret is left out of the hash.
kdf_without_secret(eph_pk, shared) ==
    [sym |-> <<"sym", eph_pk>>, mac |-> <<"mac", eph_pk>>]

(* _kdf: hash of the tag, the ephemeral key and the shared secret, in two   *)
(* halves.                                                                  *)
kdf(eph_pk, shared) ==
    [sym |-> <<"sym", eph_pk, shared>>, mac |-> <<"mac", eph_pk, shared>>]

encrypt(message, pk_receiver, eph_sk) ==
    LET eph_pk == get_encryption_public_key(eph_sk)
        keys == kdf(eph_pk, exchange(eph_sk, pk_receiver))
        ct == [under |-> keys.sym, text |-> message]
    IN  [eph_pk |-> eph_pk, ct |-> ct, tag |-> [under |-> keys.mac, of |-> ct]]

\* The message, or nothing when mac.verify raises InvalidSignature.
decrypt(encrypted, sk_receiver) ==
    LET keys == kdf(encrypted.eph_pk, exchange(sk_receiver, encrypted.eph_pk))
    IN  IF encrypted.tag # [under |-> keys.mac, of |-> encrypted.ct] THEN {}
        ELSE {encrypted.ct.text}

(* receive_note: the note in an output event that this key can decrypt, if  *)
(* its commitment is the one emitted (_check_note).                         *)
receive_note(out_ev, k_sk) ==
    {note \in {zeth_note_from_bytes(m) : m \in decrypt(out_ev.ciphertext, k_sk)} :
        compute_commitment(note) = out_ev.commitment}
=============================================================================
