------------------------------ MODULE EvmWords ------------------------------
(***************************************************************************)
(* The byte strings, integers and EVM words that every value of a mix      *)
(* travels through (client/zeth/core/utils.py, and the negation of         *)
(* pairing.py).  A hex string, with or without its "0x", is the sequence   *)
(* of the bytes it spells; a byte is 0..Base-1 and an EVM word holds       *)
(* WordBytes of them.  Both are parameters, so that TLC meets the case     *)
(* that matters: coordinates of one word (alt-bn128) and coordinates of    *)
(* one word and a half (bls12-377).                                        *)
(***************************************************************************)
EXTENDS Integers, Sequences, SequencesExt

CONSTANTS Base, WordBytes

ASSUME WordsAssumption == Base \in Nat \ {0, 1} /\ WordBytes \in Nat \ {0}

\* FoldLeft for long computations: every intermediate value is computed once,
\* before it is passed on.
Accumulate(op(_, _), base, seq) ==
    LET acc[k \in 0..Len(seq)] ==
            IF k = 0 THEN base
            ELSE LET prev == acc[k - 1] IN [v \in {prev} |-> op(v, seq[k])][prev]
    IN  acc[Len(seq)]

\* One EVM word is an integer below WordMod.
WordMod == Base ^ WordBytes

(* int.from_bytes(.., 'big') and int_and_bytelen_from_hex. *)
IntFromBytes(s) == Accumulate(LAMBDA acc, b : acc * Base + b, 0, s)

(* value.to_bytes(n, 'big') and int_to_hex; defined for value < Base^n. *)
IntToBytes(value, n) == [i \in 1..n |-> (value \div Base ^ (n - i)) % Base]

(* extend_32bytes, hex_extend_32bytes: zeros on the left up to a word. *)
extend_word(s) == [i \in 1..(WordBytes - Len(s)) |-> 0] \o s

(* The words of a byte string: the first one takes what does not fill a     *)
(* word.                                                                    *)
hex_to_uint256_list(s) ==
    LET rest  == (Len(s) - 1) \div WordBytes
        first == Len(s) - rest * WordBytes
        end(k) == first + (k - 1) * WordBytes
    IN  [k \in 1..(rest + 1) |->
            IntFromBytes(SubSeq(s, IF k = 1 THEN 1 ELSE end(k - 1) + 1, end(k)))]

(* hex_list_to_uint256_list: the words of a list of hex strings in order.   *)
hex_list_to_uint256_list(strs) ==
    FlattenSeq([i \in DOMAIN strs |-> hex_to_uint256_list(strs[i])])

(* message_to_bytes: every integer of a list written on one word.           *)
message_to_bytes(ints) ==
    FlattenSeq([i \in DOMAIN ints |-> extend_word(IntToBytes(ints[i], WordBytes))])

(* field_element_negate: mod - (value % mod), on the bytes of mod.  Zero    *)
(* becomes mod itself, which is not a reduced field element.                *)
field_element_negate(value, mod) ==
    IntToBytes(IntFromBytes(mod) - (IntFromBytes(value) % IntFromBytes(mod)),
               Len(mod))
=============================================================================
