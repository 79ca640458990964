----------------------------- MODULE MpcCeremony -----------------------------
(***************************************************************************)
(* What a coordinator that neither crashes nor overruns a time slot        *)
(* promises: contributors take turns in the order of the list, each adds   *)
(* at most one contribution to the chain and only during its own turn, and *)
(* the output published at the end is the whole chain.                     *)
(***************************************************************************)
EXTENDS Naturals, Sequences

CONSTANT N       \* number of contributors

VARIABLES turn,    \* whose turn it is; N when the ceremony is over
          chain,   \* the contributors whose contributions were accepted
          output   \* {} or the chain that was published

ceremonyVars == <<turn, chain, output>>

Init == turn = 0 /\ chain = <<>> /\ output = {}

Accept ==
  /\ turn < N
  /\ \A i \in DOMAIN chain : chain[i] < turn
  /\ chain' = Append(chain, turn)
  /\ UNCHANGED <<turn, output>>

(* The turn ends, after a contribution or because its time is over. *)
NextTurn ==
  /\ turn < N
  /\ turn' = turn + 1
  /\ UNCHANGED <<chain, output>>

Publish ==
  /\ turn = N
  /\ output = {} /\ chain # <<>>
  /\ output' = {chain}
  /\ UNCHANGED <<turn, chain>>

Next == Accept \/ NextTurn \/ Publish

Spec == Init /\ [][Next]_ceremonyVars
=============================================================================
