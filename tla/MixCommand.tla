----------------------------- MODULE MixCommand -----------------------------
(***************************************************************************)
(* Mix commands that run at the same time, from the wallets of their users *)
(* to the wallets of the recipients (cli/zeth_mix.py, the joinsplit and    *)
(* deposit methods of core/mixer_client.py, prover_client.py, the Prove    *)
(* call of the prover server, send_contract_call in core/contracts.py, the *)
(* pending transactions of the Ethereum node and the mixer's checks).      *)
(*                                                                         *)
(* Three things are shared: the prover's configuration file of a user's    *)
(* working directory, the one protoboard of the prover server, and the     *)
(* nonces of an Ethereum account.  A file is a set: {} when it does not    *)
(* exist.  Synchronising a wallet is one step here (Wallet has the steps), *)
(* and so is the mixer's call (Mixer and MixCall have its checks).         *)
(*                                                                         *)
(* A note is known by its trap_r, which is random and never repeats:       *)
(* <<c, i>> for the i-th output of command c, <<0, i>> for notes that were *)
(* in the tree at the start.  Accounts have the Ether, and have approved   *)
(* the tokens, that their commands pay.                                    *)
(***************************************************************************)
EXTENDS Notes, Integers, FiniteSets, Functions

CONSTANTS
    Users,       \* owners of wallets, as positive integers
    Commands,    \* the commands, as positive integers
    Scenarios,   \* initial choices: [args, useToken, config], see Init
    Genesis,     \* notes in the tree at the start: [owner, value]
    Unit,        \* ZETH_PUBLIC_UNIT_VALUE, in wei
    Mantissa,    \* bits of a float's significand
    ValueBits,   \* bits of a value (PUBLIC_VALUE_LENGTH)
    MaxCrashes   \* bound on the commands that are killed

ASSUME MixCommandAssumption ==
    /\ Users \subseteq Nat \ {0} /\ Commands \subseteq Nat \ {0}
    /\ Unit \in Nat \ {0} /\ Mantissa \in Nat \ {0} /\ ValueBits \in Nat /\ MaxCrashes \in Nat
    /\ \A i \in DOMAIN Genesis : Genesis[i].owner \in Users

\* An output is for one user, or for the address of the command's own user.
ASSUME ScenarioAssumption ==
    \A s \in Scenarios : \A c \in Commands :
        /\ s.args[c].user \in Users
        /\ s.args[c].vin \in Nat /\ s.args[c].vout \in Nat
        /\ s.args[c].ins \in Seq(Nat \X Nat)
        /\ s.args[c].outs \in Seq([to : {{}} \cup {{u} : u \in Users}, value : Nat])

VARIABLES
    args,        \* what each command was asked to do
    useToken,    \* is the mixer's asset a token?
    pc,          \* where each command is
    client,      \* which of its two ProverClients a command is using
    configFile,  \* prover_config_file of each user: {}, {Torn} or {Config}
    writers,     \* commands whose open configuration file is still linked
    request,     \* ProofInputs and signing key of a command, once made
    board,       \* requests the prover server is working on
    overlap,     \* requests that worked on the board during this one
    sent,        \* the parameters of the transaction, once broadcast
    status,      \* of the transaction
    nonce,       \* of the transaction
    count,       \* mined transactions of each account
    events,      \* LogMix events
    ether,       \* wei held by the mixer
    tokens,      \* token units held by the mixer, in wei
    wallets,     \* of each user: events processed and note files
    crashes,
    disturbed    \* ghost: commands that met one of the races named below

commandVars == <<args, useToken, client, configFile, writers>>
proverVars == <<request, board, overlap>>
chainVars == <<sent, status, nonce, count, events, ether, tokens>>
vars == <<commandVars, proverVars, chainVars, pc, wallets, crashes, disturbed>>

JS_INPUTS == 2
JS_OUTPUTS == 2
Torn == "torn"
Config == "config"

Address(u) == generate_zeth_address([first252 |-> u], <<u, 0>>)
ASk(u) == Address(u).addr_sk.a_sk

----------------------------------------------------------------------------
(* Amounts.                                                                 *)

\* a / b rounded to an integer, ties to even
RoundDiv(a, b) ==
    LET q == a \div b
        r == a % b
    IN  IF 2 * r < b \/ (2 * r = b /\ q % 2 = 0) THEN q ELSE q + 1

\* int(wei / Unit) with a significand of so many bits: the quotient m * 2^e,
\* rounded to the nearest m, then truncated.
FloatUnits(wei, bits) ==
    LET num(e) == IF e < 0 THEN wei * 2 ^ (-e) ELSE wei
        den(e) == IF e < 0 THEN Unit ELSE Unit * 2 ^ e
        exponent == {e \in (-ValueBits)..ValueBits :
                       den(e) * 2 ^ (bits - 1) <= num(e) /\ num(e) < den(e) * 2 ^ bits}
        units(m, e) == IF e < 0 THEN m \div 2 ^ (-e) ELSE m * 2 ^ e
    IN  IF wei = 0 THEN 0
        ELSE CHOOSE u \in {units(RoundDiv(num(e), den(e)), e) : e \in exponent} : TRUE

\* Mutant: a float of half the precision.
to_zeth_units_single(wei) == FloatUnits(wei, Mantissa \div 2)

to_zeth_units(wei) == FloatUnits(wei, Mantissa)
from_zeth_units(units) == units * Unit

Values(notes) == [i \in DOMAIN notes |-> notes[i].value]
Amounts(outs) == [i \in DOMAIN outs |-> outs[i].value]

----------------------------------------------------------------------------
(* The configuration of the prover: every ProverClient looks for the file,  *)
(* and asks the server when there is none or it does not parse.             *)

Sharing(c) == {d \in Commands : args[d].user = args[c].user}
File(c) == configFile[args[c].user]
SetFile(c, f) == configFile' = [configFile EXCEPT ![args[c].user] = f]
Go(c, where) == pc' = [pc EXCEPT ![c] = where]

\* The command has two: its own, and the one open_wallet creates.
Configured(c) ==
    IF client[c] = 1
    THEN client' = [client EXCEPT ![c] = 2] /\ Go(c, "config")
    ELSE Go(c, "wallet") /\ UNCHANGED client

(* mix: "too many inputs", "too many outputs", then the first client.  A    *)
(* caller of joinsplit has a client with the configuration in memory.       *)
Start(c) ==
    /\ pc[c] = "start"
    /\ \/ /\ Len(args[c].ins) <= JS_INPUTS /\ Len(args[c].outs) <= JS_OUTPUTS
          /\ Go(c, IF args[c].command = "mix" THEN "config" ELSE "wallet")
       \/ /\ ~(Len(args[c].ins) <= JS_INPUTS /\ Len(args[c].outs) <= JS_OUTPUTS)
          /\ Go(c, "failed")
    /\ UNCHANGED <<commandVars, proverVars, chainVars, wallets, crashes, disturbed>>

FindConfig(c) ==
    /\ pc[c] = "config"
    /\ Go(c, IF File(c) = {} THEN "fetch" ELSE "read")
    /\ UNCHANGED <<commandVars, proverVars, chainVars, wallets, crashes, disturbed>>

\* Mutant: the exception is not handled.
ReadConfig_Raises(c) ==
    /\ pc[c] = "read"
    /\ \/ File(c) = {Config} /\ Configured(c)
       \/ File(c) # {Config} /\ Go(c, "failed") /\ UNCHANGED client
    /\ UNCHANGED <<args, useToken, configFile, writers, proverVars, chainVars, wallets,
                   crashes, disturbed>>

(* Opening a file that is gone and parsing a torn one both raise, and lead  *)
(* to the handler that unlinks it.                                          *)
ReadConfig(c) ==
    /\ pc[c] = "read"
    /\ \/ File(c) = {Config} /\ Configured(c)
       \/ File(c) # {Config} /\ Go(c, "unlink") /\ UNCHANGED client
    /\ UNCHANGED <<args, useToken, configFile, writers, proverVars, chainVars, wallets,
                   crashes, disturbed>>

\* unlink raises when another command was faster, and the command dies.
UnlinkConfig(c) ==
    /\ pc[c] = "unlink"
    /\ \/ /\ File(c) # {} /\ SetFile(c, {})
          /\ writers' = writers \ Sharing(c)
          /\ disturbed' = disturbed \cup
               {d \in Sharing(c) \ {c} : pc[d] \in {"read", "unlink"}}
          /\ Go(c, "fetch")
       \/ /\ File(c) = {} /\ Go(c, "failed")
          /\ UNCHANGED <<configFile, writers, disturbed>>
    /\ UNCHANGED <<args, useToken, client, proverVars, chainVars, wallets, crashes>>

\* GetConfiguration is answered; the file is opened, which truncates it.
FetchConfig(c) ==
    /\ pc[c] = "fetch"
    /\ SetFile(c, {Torn})
    /\ writers' = writers \cup {c}
    /\ Go(c, "write")
    /\ UNCHANGED <<args, useToken, client, proverVars, chainVars, wallets, crashes, disturbed>>

\* A file that was unlinked in the meantime is written to no effect.
WriteConfig(c) ==
    /\ pc[c] = "write"
    /\ IF c \in writers THEN SetFile(c, {Config}) ELSE UNCHANGED configFile
    /\ writers' = writers \ {c}
    /\ Configured(c)
    /\ UNCHANGED <<args, useToken, proverVars, chainVars, wallets, crashes, disturbed>>

----------------------------------------------------------------------------
(* From the wallet to the prover's inputs.                                  *)

\* parse_output: a value alone is for the address of the user.
parse_output(c, spec) ==
    [address |-> public_address_parse(public_address_as_text(
                     Address(IF spec.to = {} THEN args[c].user
                             ELSE CHOOSE u \in spec.to : TRUE).addr_pk)),
     value |-> spec.value]

\* deposit without outputs: the whole amount is for the depositor.
Asked(c) ==
    IF args[c].command = "deposit" /\ args[c].outs = <<>>
    THEN <<[to |-> {args[c].user}, value |-> args[c].vin]>>
    ELSE args[c].outs
Outputs(c) == [i \in DOMAIN Asked(c) |-> parse_output(c, Asked(c)[i])]

\* wallet.find_note, which raises when there is no such file.
find_note(c, id) == {n \in wallets[args[c].user].notes : n.trap_r = id}
Missing(c) == \E i \in DOMAIN args[c].ins : find_note(c, args[c].ins[i]) = {}
Inputs(c) == [i \in DOMAIN args[c].ins |-> CHOOSE n \in find_note(c, args[c].ins[i]) : TRUE]

(* MixCallDescription: inputs are padded with zero notes of the sender,     *)
(* outputs with zero notes to an encryption key that nobody keeps.          *)
get_dummy_input(c, i) ==
    [apk |-> Address(args[c].user).addr_pk.a_pk, value |-> 0,
     rho |-> <<"dummy", c, i>>, trap_r |-> <<c, i + JS_OUTPUTS>>]
PadInputs(c) ==
    Inputs(c) \o [i \in 1..(JS_INPUTS - Len(Inputs(c))) |-> get_dummy_input(c, i)]
PadOutputs(c) ==
    Outputs(c) \o
    [i \in 1..(JS_OUTPUTS - Len(Outputs(c))) |->
        [address |-> [a_pk |-> Address(args[c].user).addr_pk.a_pk,
                      k_pk |-> get_encryption_public_key(<<c, 9>>)], value |-> 0]]

\* _create_api_zeth_notes; phi is fresh: c itself.
create_api_zeth_notes(c, hsig, outs) ==
    [i \in 1..JS_OUTPUTS |->
        [apk |-> outs[i].address.a_pk, value |-> to_zeth_units(outs[i].value),
         rho |-> compute_rho_i(c, hsig, i), trap_r |-> <<c, i>>]]

(* create_prover_inputs.  The signing key is fresh too: c itself.  The root *)
(* and the Merkle paths are those of the wallet's tree, that is, of the     *)
(* events it has processed.                                                 *)
create_prover_inputs(c) ==
    LET keys == load_zeth_address(Address(args[c].user).addr_sk,
                                  public_address_as_text(Address(args[c].user).addr_pk))
        ins == PadInputs(c)
        outs == PadOutputs(c)
        nfs == [i \in 1..JS_INPUTS |-> compute_nullifier(ins[i], keys.addr_sk.a_sk)]
        hsig == compute_h_sig(nfs, c)
    IN  [root |-> wallets[args[c].user].synced,
         ins |-> ins,
         nfs |-> nfs,
         hsig |-> hsig,
         outs |-> create_api_zeth_notes(c, hsig, outs),
         k_pks |-> [i \in 1..JS_OUTPUTS |-> outs[i].address.k_pk],
         vin |-> to_zeth_units(args[c].vin),
         vout |-> to_zeth_units(args[c].vout)]

\* "input and output value mismatch" of the command; joinsplit has no such test.
ValuesMatch(c) ==
    args[c].command = "mix" =>
        args[c].vin + from_zeth_units(SumFunction(Values(Inputs(c))))
            = args[c].vout + SumFunction(Amounts(Outputs(c)))

\* int64_to_bytes raises.
TooLarge(c) ==
    \E wei \in {args[c].vin, args[c].vout} \cup Range(Amounts(Outputs(c))) :
        to_zeth_units(wei) >= 2 ^ ValueBits

CanBuild(c) == ~Missing(c) /\ ValuesMatch(c) /\ ~TooLarge(c)

OpenWallet(c) ==
    /\ pc[c] = "wallet"
    /\ \/ /\ CanBuild(c)
          /\ request' = [request EXCEPT ![c] = {create_prover_inputs(c)}]
          /\ Go(c, "request")
       \/ /\ ~CanBuild(c)
          /\ Go(c, "failed")
          /\ UNCHANGED request
    /\ UNCHANGED <<commandVars, board, overlap, chainVars, wallets, crashes, disturbed>>

----------------------------------------------------------------------------
(* The prover server.                                                       *)

Request(c) == CHOOSE r \in request[c] : TRUE
Left(c) == Request(c).vin + SumFunction(Values(Request(c).ins))
Right(c) == Request(c).vout + SumFunction(Values(Request(c).outs))

(* prove: the balance is tested on sums that drop their carry, then the     *)
(* witness is written to the board, on which other requests may be at work  *)
(* (gRPC runs each call on a thread of its own, and nothing locks it).      *)
ProveStarts(c) ==
    /\ pc[c] = "request"
    /\ \/ /\ Left(c) % 2 ^ ValueBits = Right(c) % 2 ^ ValueBits
          /\ board' = board \cup {c}
          /\ overlap' = [d \in Commands |->
                            overlap[d] \cup (IF d = c THEN board ELSE IF d \in board THEN {c} ELSE {})]
          /\ Go(c, "proving")
       \/ /\ Left(c) % 2 ^ ValueBits # Right(c) % 2 ^ ValueBits
          /\ Go(c, "failed")
          /\ UNCHANGED <<board, overlap>>
    /\ UNCHANGED <<commandVars, request, chainVars, wallets, crashes, disturbed>>

(* Writing the witness raises when the left side overflows, and the call is *)
(* answered with that error.  The answer to a command that was killed is    *)
(* lost.                                                                    *)
ProveEnds(c) ==
    /\ c \in board
    /\ board' = board \ {c}
    /\ Go(c, IF pc[c] # "proving" THEN pc[c]
             ELSE IF Left(c) < 2 ^ ValueBits THEN "send" ELSE "failed")
    /\ disturbed' = IF overlap[c] = {} THEN disturbed ELSE disturbed \cup {c}
    /\ UNCHANGED <<commandVars, request, overlap, chainVars, wallets, crashes>>

----------------------------------------------------------------------------
(* The mixer.                                                               *)

Genesis_note(i) ==
    [apk |-> Address(Genesis[i].owner).addr_pk.a_pk, value |-> Genesis[i].value,
     rho |-> <<"genesis", i>>, trap_r |-> <<0, i>>]

\* Commitments in the tree after so many events.
Tree(root) ==
    {compute_commitment(Genesis_note(i)) : i \in DOMAIN Genesis} \cup
    UNION {{events[j].outs[i].commitment : i \in 1..JS_OUTPUTS} : j \in 1..root}
Nullifiers == UNION {Range(events[j].nfs) : j \in DOMAIN events}

(* The assignment that is proved.  generate_r1cs_witness writes the secrets *)
(* of a request to the board one after the other and computes nullifiers,   *)
(* rhos and commitments from what the board holds by then, so that with     *)
(* several requests at work each part may be any one's.  Of an input, "key" *)
(* is its a_sk and rho, "coin" its value, trap_r and Merkle path; of an     *)
(* output, "to" is its a_pk and trap_r, "amount" its value.                 *)
InputsFrom(S) == [root : S, key : [1..JS_INPUTS -> S], coin : [1..JS_INPUTS -> S]]
OutputsFrom(S) ==
    [values : S, hsig : S, phi : S, to : [1..JS_OUTPUTS -> S], amount : [1..JS_OUTPUTS -> S]]

SpentNote(in, i) ==
    LET key == Request(in.key[i]).ins[i]
        coin == Request(in.coin[i]).ins[i]
    IN  [apk |-> key.apk, value |-> coin.value, rho |-> key.rho, trap_r |-> coin.trap_r]
MadeNote(out, i) ==
    LET to == Request(out.to[i]).outs[i]
    IN  [apk |-> to.apk, value |-> Request(out.amount[i]).outs[i].value,
         rho |-> compute_rho_i(out.phi, Request(out.hsig).hsig, i), trap_r |-> to.trap_r]

\* input_note_gadget: a note with a value is in the tree.
InTree(in) ==
    \A i \in 1..JS_INPUTS :
        SpentNote(in, i).value > 0 =>
            /\ Request(in.coin[i]).root = Request(in.root).root
            /\ compute_commitment(SpentNote(in, i)) \in Tree(Request(in.root).root)

\* joinsplit_gadget: the values balance.
Balanced(in, out) ==
    LET left == Request(out.values).vin + Request(in.coin[1]).ins[1].value
                                        + Request(in.coin[2]).ins[2].value
        right == Request(out.values).vout + Request(out.amount[1]).outs[1].value
                                          + Request(out.amount[2]).outs[2].value
    IN  left = right /\ left < 2 ^ ValueBits

Satisfying(S) ==
    {p \in {in \in InputsFrom(S) : InTree(in)} \X OutputsFrom(S) : Balanced(p[1], p[2])}

PublicData(in, out) ==
    [root |-> Request(in.root).root,
     nf1 |-> Request(in.key[1]).nfs[1], nf2 |-> Request(in.key[2]).nfs[2],
     cm1 |-> compute_commitment(MadeNote(out, 1)), cm2 |-> compute_commitment(MadeNote(out, 2)),
     hsig |-> Request(out.hsig).hsig,
     values |-> <<Request(out.values).vin, Request(out.values).vout>>]

(* What c may have got: the public data of an assignment that satisfies the *)
(* circuit with a proof of it; or a proof that does not verify, because its *)
(* assignment satisfies nothing (is_satisfied is only printed) or is not    *)
(* the one the data was copied from.                                        *)
Answers(c) == {PublicData(p[1], p[2]) : p \in Satisfying({c} \cup overlap[c])}
Spoiled(c) == overlap[c] # {} \/ Satisfying({c}) = {}

\* mix: tx_value of the command; joinsplit: tx_value or v_in, where zero is false.
TxValue(c) ==
    IF args[c].command = "mix" THEN (IF useToken THEN 0 ELSE args[c].vin)
    ELSE IF args[c].tx_value # 0 THEN args[c].tx_value ELSE args[c].vin

\* Mutant: h_sig is not compared.
RootNullifiersHsigOk_anyHsig(c, data) ==
    /\ data.root <= Len(events)
    /\ data.nf1 \notin Nullifiers /\ data.nf2 \notin Nullifiers /\ data.nf1 # data.nf2

\* _checkMkrootNullifiersHsigAppendNullifiersState; vk is the signing key of c.
RootNullifiersHsigOk(c, data) ==
    /\ data.root <= Len(events)
    /\ data.nf1 \notin Nullifiers /\ data.nf2 \notin Nullifiers /\ data.nf1 # data.nf2
    /\ data.hsig = compute_h_sig(<<data.nf1, data.nf2>>, c)

\* Mutant: the Ether sent is not compared with the public value.
PaymentOk_any(c, data) == TRUE

\* "Wrong msg.value" of _processPublicValues.
PaymentOk(c, data) ==
    data.values[1] > 0 /\ ~useToken => TxValue(c) = from_zeth_units(data.values[1])

(* The signature is by c over what c sends, and so it is always accepted;   *)
(* the proof is one that verifies (Refused has the others).                 *)
Accepts(c, data) == RootNullifiersHsigOk(c, data) /\ PaymentOk(c, data)

\* _processPublicValues: Ether that comes with no public value is returned.
Keep(c, data) ==
    LET in == from_zeth_units(data.values[1])
        out == from_zeth_units(data.values[2])
        kept == IF data.values[1] > 0 THEN TxValue(c) ELSE 0
    IN  IF useToken THEN tokens' = tokens + in - out /\ ether' = ether + kept
        ELSE ether' = ether + kept - out /\ UNCHANGED tokens

----------------------------------------------------------------------------
(* Sending the transaction.                                                 *)

Pending(account) == {d \in Commands : status[d] = "pending" /\ args[d].account = account}

\* encrypt_notes: each note to the encryption key of its own output.
encrypt_notes(c) ==
    [i \in 1..JS_OUTPUTS |->
        encrypt(zeth_note_to_bytes(Request(c).outs[i]), Request(c).k_pks[i], <<c, i>>)]

(* The parameters are made (create_mix_parameters_from_proof), and a dry    *)
(* run stops.  With a local key the nonce is the number of transactions     *)
(* mined so far.                                                            *)
ReadNonce(c) ==
    /\ pc[c] = "send"
    /\ \/ /\ args[c].dry_run /\ Go(c, "done") /\ UNCHANGED nonce
       \/ /\ ~args[c].dry_run /\ Go(c, "broadcast")
          /\ nonce' = [nonce EXCEPT ![c] = count[args[c].account]]
    /\ UNCHANGED <<commandVars, proverVars, sent, status, count, events, ether, tokens, wallets,
                   crashes, disturbed>>

(* The node: a hosted account gets the next free nonce.                     *)
NextNonce(c) ==
    IF args[c].hosted
    THEN CHOOSE n \in count[args[c].account]..(count[args[c].account] + Cardinality(Commands)) :
           /\ \A d \in Pending(args[c].account) : nonce[d] # n
           /\ \A k \in count[args[c].account]..(n - 1) :
                \E d \in Pending(args[c].account) : nonce[d] = k
    ELSE nonce[c]
Rivals(c) == {d \in Pending(args[c].account) : nonce[d] = NextNonce(c)}

\* The gas of a call that would revert cannot be estimated, and the send raises.
Refused(c) ==
    /\ pc[c] = "broadcast"
    /\ ~(~Spoiled(c) /\ \A data \in Answers(c) : Accepts(c, data))
    /\ Go(c, "failed")
    /\ UNCHANGED <<commandVars, proverVars, chainVars, wallets, crashes, disturbed>>

\* "nonce too low", or a pending transaction with the nonce that is kept.
NonceTaken(c) ==
    /\ pc[c] = "broadcast"
    /\ NextNonce(c) < count[args[c].account] \/ Rivals(c) # {}
    /\ {data \in Answers(c) : Accepts(c, data)} # {}
    /\ disturbed' = disturbed \cup {c}
    /\ Go(c, "failed")
    /\ UNCHANGED <<commandVars, proverVars, chainVars, wallets, crashes>>

\* The transaction is pending, in the place of one with the same nonce if any.
Broadcast(c) ==
    /\ pc[c] = "broadcast"
    /\ NextNonce(c) >= count[args[c].account]
    /\ \E data \in Answers(c) :
         /\ Accepts(c, data)
         /\ sent' = [sent EXCEPT ![c] = {[data |-> data, ciphertexts |-> encrypt_notes(c)]}]
    /\ nonce' = [nonce EXCEPT ![c] = NextNonce(c)]
    /\ status' = [d \in Commands |-> IF d = c THEN "pending"
                                     ELSE IF d \in Rivals(c) THEN "dropped" ELSE status[d]]
    /\ disturbed' = disturbed \cup Rivals(c)
    /\ Go(c, "done")
    /\ UNCHANGED <<commandVars, proverVars, count, events, ether, tokens, wallets, crashes>>

(* A transaction is mined in the order of its account's nonces.             *)
Mine(c) ==
    /\ status[c] = "pending"
    /\ nonce[c] = count[args[c].account]
    /\ count' = [count EXCEPT ![args[c].account] = @ + 1]
    /\ LET tx == CHOOSE t \in sent[c] : TRUE
           data == tx.data
       IN  \/ /\ Accepts(c, data)
              /\ status' = [status EXCEPT ![c] = "ok"]
              /\ Keep(c, data)
              /\ events' = Append(events,
                   [cmd |-> c, nfs |-> <<data.nf1, data.nf2>>,
                    outs |-> <<[commitment |-> data.cm1, ciphertext |-> tx.ciphertexts[1]],
                               [commitment |-> data.cm2, ciphertext |-> tx.ciphertexts[2]]>>])
           \/ /\ ~Accepts(c, data)
              /\ status' = [status EXCEPT ![c] = "reverted"]
              /\ UNCHANGED <<events, ether, tokens>>
    /\ UNCHANGED <<commandVars, proverVars, sent, nonce, pc, wallets, crashes, disturbed>>

----------------------------------------------------------------------------
(* do_sync, for the events since the last one: notes that the user's key    *)
(* decrypts are added, then notes with a nullifier of the event are moved.  *)
Received(u, ev) ==
    UNION {receive_note(ev.outs[i], Address(u).addr_sk.k_sk) : i \in 1..JS_OUTPUTS}
NotesAfter(u, new) ==
    LET after[k \in 0..Len(new)] ==
            IF k = 0 THEN wallets[u].notes
            ELSE {n \in after[k - 1] \cup Received(u, new[k]) :
                    compute_nullifier(n, ASk(u)) \notin Range(new[k].nfs)}
    IN  after
Sync(u) ==
    LET new == SubSeq(events, wallets[u].synced + 1, Len(events))
    IN  /\ new # <<>>
        /\ wallets' = [wallets EXCEPT ![u] =
             [synced |-> Len(events), notes |-> NotesAfter(u, new)[Len(new)]]]
        /\ UNCHANGED <<commandVars, proverVars, chainVars, pc, crashes, disturbed>>

\* A command is killed; a configuration file it had open stays torn.
Crash(c) ==
    /\ crashes < MaxCrashes
    /\ pc[c] \notin {"start", "failed", "done"}
    /\ crashes' = crashes + 1
    /\ writers' = writers \ {c}
    /\ disturbed' = disturbed \cup {c}
    /\ Go(c, "failed")
    /\ UNCHANGED <<args, useToken, client, configFile, proverVars, chainVars, wallets>>

----------------------------------------------------------------------------
GenesisSum == SumFunction([i \in DOMAIN Genesis |-> Genesis[i].value])

Init ==
    /\ \E s \in Scenarios :
         /\ args = s.args
         /\ useToken = s.useToken
         /\ configFile = [u \in Users |-> s.config]
    /\ pc = [c \in Commands |-> IF args[c].command = "none" THEN "done" ELSE "start"]
    /\ client = [c \in Commands |-> 1]
    /\ writers = {}
    /\ request = [c \in Commands |-> {}]
    /\ board = {}
    /\ overlap = [c \in Commands |-> {}]
    /\ sent = [c \in Commands |-> {}]
    /\ status = [c \in Commands |-> "none"]
    /\ nonce = [c \in Commands |-> 0]
    /\ count = [a \in {args[c].account : c \in Commands} |-> 0]
    /\ events = <<>>
    /\ ether = IF useToken THEN 0 ELSE from_zeth_units(GenesisSum)
    /\ tokens = IF useToken THEN from_zeth_units(GenesisSum) ELSE 0
    /\ wallets = [u \in Users |->
                    [synced |-> 0,
                     notes |-> {Genesis_note(i) : i \in {j \in DOMAIN Genesis : Genesis[j].owner = u}}]]
    /\ crashes = 0
    /\ disturbed = {}

Step(c) ==
    \/ Start(c) \/ FindConfig(c) \/ ReadConfig(c) \/ UnlinkConfig(c) \/ FetchConfig(c)
    \/ WriteConfig(c) \/ OpenWallet(c) \/ ProveStarts(c) \/ ReadNonce(c)
    \/ Refused(c) \/ NonceTaken(c) \/ Broadcast(c)

Next ==
    \/ \E c \in Commands : Step(c) \/ ProveEnds(c) \/ Mine(c) \/ Crash(c)
    \/ \E u \in Users : Sync(u)

Spec == Init /\ [][Next]_vars

(* A command that runs takes its steps, the prover finishes every request,  *)
(* and the chain goes on to mine what is pending.  Nothing is assumed of a  *)
(* command once its request has shared the board.                           *)
FairSpec ==
    /\ Spec
    /\ \A c \in Commands :
         WF_vars(overlap[c] = {} /\ Step(c)) /\ WF_vars(ProveEnds(c)) /\ WF_vars(Mine(c))

----------------------------------------------------------------------------
(* What the mixer emitted for a mined command is what that command asked    *)
(* for.  The nullifiers are always its own, whatever other requests the     *)
(* prover was working on at the time: h_sig ties them to the command's      *)
(* signing key.  The commitments are its own when no other request was on   *)
(* the board with it (the board is shared, and nothing ties the commitments *)
(* to h_sig but the rhos in them).                                          *)
MinedAsAsked ==
    \A j \in DOMAIN events :
        LET c == events[j].cmd
        IN  /\ events[j].nfs = Request(c).nfs
            /\ overlap[c] = {} =>
                 \A i \in 1..JS_OUTPUTS :
                     events[j].outs[i].commitment = compute_commitment(Request(c).outs[i])

(* Amounts go through a float on their way to Zeth units.  As long as they  *)
(* fit its significand, every note made by a mined command that had the     *)
(* board to itself is worth the wei asked for to within one unit, and       *)
(* exactly when that is whole units.                                        *)
PaidAsAsked ==
    \A j \in DOMAIN events : overlap[events[j].cmd] = {} =>
        \A i \in DOMAIN Asked(events[j].cmd) :
            LET wei == Asked(events[j].cmd)[i].value
                paid == from_zeth_units(events[j].outs[i].commitment[4])
            IN  wei < from_zeth_units(2 ^ Mantissa) =>
                    /\ paid - wei < Unit /\ wei - paid < Unit
                    /\ wei % Unit = 0 => paid = wei

(* The mixer holds, in its asset, what the notes not yet spent are worth,   *)
(* whatever amounts were truncated on the way, whatever Ether the commands  *)
(* sent and whatever the prover's board mixed; and no more than that while  *)
(* no mined command shared the board.  Commands of zeth_mix leave no Ether  *)
(* in the mixer of a token.                                                 *)
Backed ==
    LET unspent == {cm \in Tree(Len(events)) : <<"1110", cm[2][2], cm[3]>> \notin Nullifiers}
        worth == from_zeth_units(SumFunction([cm \in unspent |-> cm[4]]))
        held == IF useToken THEN tokens ELSE ether
    IN  /\ held >= worth
        /\ (\A j \in DOMAIN events : overlap[events[j].cmd] = {}) => held = worth
        /\ useToken /\ (\A c \in Commands : args[c].command \in {"mix", "none"}) => ether = 0

(* A wallet has exactly the notes that the mined commands its user has seen *)
(* sent to that user and that none of them spent, across padding,           *)
(* derivation, encryption and the answers of the prover.  Sent means that   *)
(* the commitment the mixer emitted is that of the note that was asked for, *)
(* which is so of every command that had the board to itself                *)
(* (MinedAsAsked); the recipient drops any other.                           *)
Emitted(j, i) ==
    events[j].outs[i].commitment = compute_commitment(Request(events[j].cmd).outs[i])
WalletsExact ==
    \A u \in Users :
        LET seen == 1..wallets[u].synced
            is_for(c, spec) == u \in spec.to \/ (spec.to = {} /\ args[c].user = u)
            spent == UNION {Range(args[events[j].cmd].ins) : j \in seen}
            sentTo == {<<0, i>> : i \in {k \in DOMAIN Genesis : Genesis[k].owner = u}} \cup
                UNION {{<<events[j].cmd, i>> :
                          i \in {k \in DOMAIN Asked(events[j].cmd) :
                                   is_for(events[j].cmd, Asked(events[j].cmd)[k]) /\ Emitted(j, k)}} :
                       j \in seen}
        IN  {n.trap_r : n \in wallets[u].notes} = sentTo \ spent

\* Asked to do something possible: notes of its own that nobody else spends,
\* whole units that balance and fit, and the right payment.
Possible(c) ==
    LET a == args[c]
        amounts == {a.vin, a.vout} \cup Range(Amounts(Asked(c)))
        notes == Range(a.ins)
        total == a.vin + from_zeth_units(SumFunction([id \in notes |-> Genesis[id[2]].value]))
    IN  /\ a.command # "none" /\ ~a.dry_run
        /\ Len(a.ins) <= JS_INPUTS /\ Len(a.outs) <= JS_OUTPUTS
        /\ \A id \in notes : id[1] = 0 /\ Genesis[id[2]].owner = a.user
        /\ Cardinality(notes) = Len(a.ins)
        /\ \A d \in Commands \ {c} : notes \cap Range(args[d].ins) = {}
        /\ \A wei \in amounts : wei % Unit = 0 /\ wei < from_zeth_units(2 ^ Mantissa)
        /\ total = a.vout + SumFunction(Amounts(Asked(c))) /\ total < from_zeth_units(2 ^ ValueBits)
        /\ useToken \/ TxValue(c) = a.vin

(* A command that asks for something possible is mined, unless it is killed *)
(* or meets one of the races this module names: the configuration file      *)
(* unlinked under it, the prover's board shared with another request, or    *)
(* its nonce taken by another transaction of the account.                   *)
PossibleIsMined ==
    \A c \in Commands : Possible(c) ~> (status[c] = "ok" \/ c \in disturbed)
=============================================================================
