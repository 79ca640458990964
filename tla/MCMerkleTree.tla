----------------------------- MODULE MCMerkleTree -----------------------------
(* Instances of MerkleTree for TLC.  Hashes are terms: the default leaf is  *)
(* the empty tuple, a leaf a tuple of one, and a hash the pair of its       *)
(* arguments, so that two different terms have different hashes.            *)
EXTENDS MerkleTree

TermLeaves == {<<"a">>, <<"b">>}
TermDefault == <<>>
TermHash(left, right) == <<left, right>>
=============================================================================
