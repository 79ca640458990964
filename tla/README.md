# Zeth: TLA+ models and proofs

This directory holds TLA+ models of Zeth, a Zerocash-style private payment
system on Ethereum, the TLC configurations that check them, and the TLAPS proofs
of their main properties.  Paths below are relative to the repository root
(`src/` in `PROJECT.json`).

## 1. The system and its parts

| Part | Code | What it does |
|---|---|---|
| Coordinator server | `mpc/coordinator/server.py`, `server_state.py` | Runs a multi-party computation for the SNARK parameters: one contributor per time slot, one upload processed at a time. |
| Phase-1 handler | `phase1_contribution_handler.py`, `powersoftau_command.py` | Verifies powers-of-tau contributions and keeps the challenge, transcript and output files. |
| Phase-2 handler | `phase2_contribution_handler.py`, `mpc_command.py`, `mpc_tools/mpc_phase2` | The same for the circuit-specific phase. |
| Interval timer | `interval.py` | The thread that ticks the server. |
| Contributor client | `client.py`, `contribute.py` | Waits for its turn, downloads the challenge, uploads a response. |
| Phase-2 transcript | `libzeth/mpc/groth16/phase2.tcc` | The hash-chained list of contributions. |
| Merkle tree | `zeth_contracts/contracts/AbstractMerkleTree.sol`, `client/zeth/core/merkle_tree.py` | Commitment tree, kept by the contract and mirrored by wallets. |
| Mixer contract | `AbstractMixer.sol` | Checks a joinsplit, records nullifiers and commitments, moves public value. |
| Mixer client | `client/zeth/core/mixer_client.py`, `cli/zeth_mix.py` | Builds joinsplits and mix calls, signs, encrypts and sends them. |
| Prover client | `client/zeth/core/prover_client.py` | Asks the prover server for its configuration, its key and proofs. |
| Encodings | `client/zeth/core/zksnark.py`, `pairing.py`, `utils.py`, `signing.py`, `AbstractMixer.sol` | Keys, proofs, public data and signatures between prover, client, files and contract. |
| Notes and addresses | `ownership.py`, `zeth_address.py`, `encryption.py`, `proto_utils.py` | Keys of a user and the encryption of a note to them. |
| Wallet | `client/zeth/core/wallet.py`, `cli/utils.py` | Finds received notes and marks spent ones while syncing from the chain. |
| Prover server | `prover_server/prover_server.cpp`, `libzeth/circuits/circuit_wrapper.tcc` | Serves proofs over gRPC. |
| Joinsplit circuit | `libzeth/circuits/*.tcc` | The statement proved. |

How they interact: the coordinator (server, timer, one handler) runs the two
phases of the parameter ceremony with contributors over HTTPS.  The resulting
keys are used by the prover server and the verifier inside the mixer contract.
A client asks the prover server for a proof of the joinsplit statement, sends it
to the contract in a `mix` call, and every wallet follows the contract's events
to find its notes and to mirror the Merkle tree.

The hazards this code is exposed to, each at the line where it bites and with
the properties that watch over it, are listed in `PROJECT.json`.

## 2. Modules

| Module | Models | State | Actions |
|---|---|---|---|
| `MpcServer` | `server.py`, `server_state.py` | the server's fields, its lock, a program counter per thread, the state file | one per step of `_update_state`/`_on_contribution` in each thread, requests, processing, crash, restart, passing of a deadline |
| `MpcCeremony` | what the coordinator promises | slot, chain of contributions, output | a slot ends with or without a contribution; the output is published |
| `MpcPhase1`, `MpcPhase2` | the handlers and the exchange with contributors, composed with `MpcServer` | the handler's files | one per file operation |
| `Interval` | `interval.py` | flag, condition owner, clock | one per step of the thread and of `stop` |
| `MerkleTree` | both Merkle trees and the circuit's path computation | nodes of the contract, layers of the client | `Mix`, a direct `insert`, client insertions and recomputation |
| `Mixer` | `AbstractMixer.sol`, the joinsplit statement, the client's construction of calls | tree, roots, nullifiers, balances, payments under way | `Mix`, a direct `Insert`, `Pay` |
| `Wallet` | `wallet.py`, `do_sync`, `get_event_logs` | chain, process, state/tree/note files | one per effect on the file system, crash |
| `EvmWords` | `utils.py`: bytes, integers, EVM words | none (operators) | |
| `SnarkTypes` | `pairing.py`, `zksnark.py`: points, keys, proofs and their forms | none (operators) | |
| `Signing` | `signing.py`, `LibOTSchnorrVerifier.sol` | none (operators) | |
| `PublicData` | packing in `joinsplit.tcc`, `bits_add`, the MiMC hashes, unpacking in `AbstractMixer.sol` | none (operators) | |
| `MixCall` | one mix from the prover's reply to the contract's verdict, through every form in between | configuration, key, signing keys, mix, each with its form | fetch, save, load and deploy the key; prove; build, save and load the parameters; call `mix` or `dispatch` |
| `Notes` | `ownership.py`, `zeth_address.py`, `encryption.py`, `proto_utils.py`, derivations of `mixer_client.py` | none (operators) | |
| `MixCommand` | commands of `zeth_mix` (and `deposit`) that run at the same time, with `prover_client.py`, the prover server, `send_contract_call`, the mixer and the recipients' wallets | per command: where it is, its request and transaction; shared: configuration files, protoboard, nonces, events, balances, wallets | one per step of a command, prover, mining, synchronising, crash |
| `MpcServerProofs`, `MpcPhase1Proofs`, `MpcPhase2Proofs` | proofs about the coordinator; the last two build on the first | | |
| `MerkleTreeProofs`, `MixerProofs`, `WalletProofs` | proofs about `MerkleTree`, `Mixer` and `Wallet` | | |
| `MixCommandProofs`, `MixCommandSyncProofs` | proofs about `MixCommand`; the second builds on the first | | |
| `MC*` | instances for TLC | | |

Conventions.  A file is a set with at most one element, `{}` when it does not
exist; a file that was opened for writing and not yet written is *torn*.  Hashes
and commitments are injective terms, except in `MixCall`, which computes with
small numbers.  Definitions named `X_Something` before a
definition `X` are deliberate faults, used to show that a property can fail.

### Coordinator

`MpcServer` has the threads `main` (constructor), `http` (one WSGI worker),
`tick` (the `Interval` callback) and `proc` (the processing thread).  Reading
and writing `next_contributor_index` are separate steps, so are truncating and
writing the state file.  A handler call is a pair of interface variables
(`ppc`, `cpc`); alone, `MpcServer` lets the handler return whatever it may,
`MpcPhase1` and `MpcPhase2` replace that by the real handler.  Time is reduced to
"the deadline has passed"; `SlowProcessing` says whether that can happen while an
upload is handled.  Two pairs of operations are one step: testing
`have_all_contributions` and storing the deadline, and testing and setting
`handler_finalized`.  Notification e-mails and `Server.stop` are left out.  The
constructor looks for the state file in the working directory and
`_write_state_file` writes it to `server_dir`; the model has one file, which is
the case for the default `--path` of the commands.  With another path a restart
would not find it and would begin with the first slot.

In `MpcPhase1` and `MpcPhase2` a challenge is the sequence of contributors it
accumulates and a response is its author, its base and whether it is correct.
Each command of the external tools is one step except
`mpc_phase2_verify_contribution`, whose source is here and which has three.
What `powersoftau verify` says about a transcript that goes on after the counted
rounds is not visible in this repository; with `LenientVerify` it may say
either.  `OutputKept` is limited to one crash: with a second one a phase-1
ceremony can be started over.  `ImplementsCeremony` says that, until a crash,
every step of server and handler is a step of `MpcCeremony` or leaves it alone
(`INSTANCE MpcCeremony` under the mapping given in each module).

### Mixer and Merkle tree

`Mixer!Mix` covers `mix` and `dispatch`, which differ in who verified the proof.
A proof is accepted exactly when the relation `JoinSplit` holds.  The payments of
`_processPublicValues` hand control to the receiver; they are queued in `due` and
made later by `Pay`, with other calls in between, which includes every re-entrant
call.  `Next` offers combinations of inputs (leaves of the tree, new notes, and
notes without value that carry the rho of a leaf), key and h_sig that the
contract's tests of nullifiers and h_sig let pass (`Openings`; the others revert
and leave no trace), with every root, output, public value and phi of the
instance; `Accepts` then decides.  One-time signatures, the h_i tags and the
packing of inputs into field elements are in `MixCall`, the wei/unit scale is in
`MixCommand`.

Two things outside the client's use of the contract are in the model, and the
properties say where they matter.

* *Public inputs that are not canonical.*  A proof is about field elements, the
  contract works with the 256-bit words it was sent and does not compare them
  with the field's order.  A call has a set `lifted` of inputs whose word is not
  the canonical one; `lifts` counts such calls.  `NoDoubleSpend` and `Solvent`
  are stated for as long as there was none, `RhosDistinct` needs no such
  condition.  The client of this repository sends canonical words
  (`ContractReadsPublicData` of `MixCall`).
* *Direct calls of `insert`*, which is public.  The leaf comes without event and
  root, and `Hashed` says when a later `mix` hashes it into a root.
  `RhosDistinct` and `Solvent` are about the notes that mixes made, and `Solvent`
  is stated for as long as no note of value was spent that only a direct insert
  had put into the tree.  `NoDoubleSpend` covers inserted leaves.

`MerkleTree` runs the contract's array and the client's layers side by side on
terms, so equal roots mean equal trees.  Powers of two, the sizes of layers and the
reference tree are recursive functions with bounded domains, as the proofs need
them.

### One call: encodings

`MixCall` computes with real bytes at reduced sizes: a byte has `Base` values, a
word `WordBytes` bytes, a field element holds fewer bits than a digest, and the
coordinates of the second curve take a word and a half, as those of BLS12-377
do.  Every conversion of the client is an operator with the name of the function
it stands for, and the contract's side reads words by position.  Three things
stand for what is out of reach: `Sha256` is a fixed small mixing function, which
both sides share and which is not free of collisions; the signature's curve is a
cyclic group of order `curve_order`; and a pairing check holds exactly for the
proof, key and input it was made for.

### Commands

`MixCommand` follows a command through its two prover clients, the wallet, the
prover and the node.  Amounts are real: a unit is `Unit` wei and a float has
`Mantissa` bits, so that conversions round where `to_zeth_units` does.

* *Configuration file.*  Opening for writing truncates; a file that does not
  parse is unlinked; a writer whose file was unlinked writes to no effect.  The
  second of two commands to unlink dies.
* *Prover.*  The gRPC server runs each `Prove` on its own thread and all share
  one protoboard without a lock.  A call's assignment is put together of parts of
  the requests that overlapped it: root, and per input the key and rho, and the
  value, trapdoor and path; public values, h_sig, phi, and per output the
  recipient and the amount (`InputsFrom`, `OutputsFrom`).  The answer is the
  public data of any such assignment that satisfies the circuit (`Satisfying`),
  with a proof of it; or, when requests overlapped or nothing satisfies it, a
  proof that does not verify (`Spoiled`).
* *Node.*  With a local key the nonce is the number of mined transactions, read
  one step before the broadcast; a transaction with the nonce of a pending one
  replaces it or is refused.  A hosted account gets the next free nonce.  A call
  that would revert is refused when its gas is estimated, and may still revert
  when it is mined after another.  The node itself is external code.
* *Ghost.*  `disturbed` collects the commands that met one of the races above or
  were killed; `PossibleIsMined` excepts exactly those.

Synchronising and the mixer's call are single steps here (`NotesAfter` goes
through the new events in order, adding what the key decrypts and removing what
the event nullifies): `Wallet`, `Mixer` and
`MixCall` have their insides.

### Wallet

A note is named by its number among the outputs of all events; the address the
wallet records is its own count of leaves, and the two agree only if nothing went
wrong.  A block may also hold a direct call of `insert`, of which the wallet sees
nothing: an emitted root is the number of outputs below it and the blocks with
direct inserts before it, and it is the root of the wallet's tree (`SameRoot`)
when there are none of the latter and the tree has all the outputs in order.
Writing one
note file is one step (only its name matters to the properties), the state and
tree files are truncated and written in two.  A block has at most one event; the
events of a batch that are still to be processed are the set `queue` of their
blocks, taken in increasing order (`Current`).

## 3. Runs

| Run | Instance | Shows |
|---|---|---|
| `server` | 3 contributors, 2 crashes, `SlowProcessing` off | mutual exclusion, one thread at a time ends a slot, uploads in their own slot, at most one slot repeated per crash, and that the ceremony ends |
| `server_own_slot` | 2 contributors, `SlowProcessing` on | violation: one contribution ends two slots |
| `phase1` | 2 contributors, 1 crash | refinement of the ceremony until the crash, order of contributions, outputs kept, completion published |
| `phase1_restart` | 1 crash | violation: the constructor's assertions fail after a crash between two renames |
| `phase2` | 2 contributors, 2 crashes | as `phase1`, and that what is published is consistent after any crash |
| `interval` | period 2, 7 time units | ticks neither early nor lost; `stop` returns once it has the condition |
| `merkle` | depth 3, 2 leaves per mix, 1 direct insert | both trees compute the reference root, paths authenticate |
| `mixer` | 2 inputs, 1 output, 3 leaves, values 0..2, Ether and token, 1 call with an input that is not canonical, 1 direct insert | distinct rhos; with canonical inputs no double spend; solvency unless an inserted note was spent |
| `wallet` | 3 blocks, 2 outputs, batches of 2, 1 crash, 1 direct insert | exact files without a crash, no note lost with one, the wallet catches up |
| `wallet_root` | 2 blocks, 1 crash, no direct insert | violation: the root assertion fails after a crash between two saves |
| `mix_call` | 16-bit words, fields of 14 and 15 bits, 2-bit values, three pairs of SNARK and curve; digests at the edges, all signing keys, all values | conversions lose nothing, key and proof are where the contracts read them, circuit and contract agree on the public data, both MiMC hashes agree, an honest call is accepted, nothing unbalanced is |
| `mix_command` | 2 users, 3 notes, single commands on Ether and token mixers and pairs of commands, 1 crash, with a good, a missing and a torn configuration file, units of 5 wei, 4-bit floats, 6-bit values | a mined command has its own nullifiers, and its own commitments if it had the prover to itself; amounts are exact while they fit a float, the mixer stays backed, wallets hold exactly what was sent to them, possible commands are mined unless disturbed |

Why the bounds suffice.  Three contributors give a first, a middle and a last
slot, and two crashes a crash during recovery.  Two contributors are enough for
the handlers, where only "first", "later" and "last" differ.  Depth 3 filled
completely has odd and even ends in every layer and the full tree; three leaves
allow a deposit, a spend, and an attempt to spend again, or an inserted leaf at
an even address, the mix that hashes it and one that spends it.  Three blocks in batches
of two put a seam, an event and a missing event anywhere, and let a note be
received, spent and synchronised in the same or in different rounds.  The widths
of `mix_call` keep every inequality of the real ones (capacity below the digest,
residual bits and both values in one element, coordinates of one word and of
more) and let all values be enumerated, carries and overflows included.  The
commands of `mix_command` have amounts below, at and above each limit (a
fraction of a unit, the float's precision, the width of a value, the sum's
width), and its pairs share a directory, a note, an account, or are
chained; two commands are enough for every race the module has, since each is
between two.

Deadlock checking is off where the system may stop: a finished ceremony, a torn
file that prevents a restart, a full tree, exhausted bounds, a stopped timer.

Fairness.  Threads of a running process go on (weak fairness per thread step),
calls of the handler return, and the clock advances; strong fairness of the
deadline stands for a clock that does not wait for an idle server.  Contributors
and crashes have none.  The wallet's owner opens the wallet and synchronises it
again and again; strong fairness because the wallet may be closed in between.  A
command whose root assertion failed ends (weak fairness of `Exit` after a
failure).  In `MixCommand` a running command whose request has not shared the
board takes its steps, the prover ends every request and the chain mines what is
pending (weak fairness each); nothing is assumed of a command after it shared the
board, of synchronising and of crashes.  `CeremonyEnds` rests on `SlowProcessing` being off; with it
on, the tick thread may also advance past a slot in use, which `server_own_slot`
shows.

Behaviour the models reach that no run states as a property, because no line of
the repository promises the contrary: `Interval.stop` waits for ever when it is called
during a callback after the first round (the thread owns the condition there, and
ends without releasing it); a phase-2 server that crashed between the rename of
the first contribution and the end of its slot has a next challenge with
contributor 0, for which `get_current_challenge_file` raises until the slot ends;
a command whose request met another's on the prover may be mined with commitments
to notes that are not the ones it encrypts, which the recipient drops; a direct
`insert` makes the root assertion of every later synchronisation with an event
fail, after the wallet was saved; a `deposit` to a token mixer with a
`tx_value` of zero also sends the amount in Ether, which the mixer keeps
(`mixer_client.py:377`); a command that comes second in unlinking a torn
configuration file dies.

## 4. Proofs

`MpcServerProofs` proves, for any number of contributors and crashes and with
`SlowProcessing` on or off,

* `ServerTypeCorrect`: `TypeOK` is invariant (it is inductive by itself);
* `RequestsExcludeProcessing`: no request runs beside the processing thread.
  The inductive invariant `ExclusionInv` adds which points each thread can be at
  (`ThreadInv`) and that the lock is held exactly inside the callbacks and
  `processing` is set exactly while the thread exists (`LockInv`).

Under the hypothesis `~SlowProcessing` (no deadline passes between the deadline
test of a request and the end of the processing it starts; the run
`server_own_slot` shows what happens otherwise) it also proves

* `OneThreadAdvances` and `UploadsInOwnSlot`.  `SlotInv` carries the reason: the
  request that launched the processing thread has seen a deadline that is not
  over, and none is over until the thread ends, so neither the tick nor a request
  gets past its deadline test;
* `RestartsRepeatOneSlot`: the state file is at most one slot behind.  `FileInv`
  says by which thread the missing slot is being saved, or that it is the last
  one, whose `on_completed` raised; `MemoryInv` says that what a thread has read
  or serialised is still current, which holds because it advances alone.

The modules about the handlers build on `ServerInv`, which adds that a call of
the handler is open only while its caller waits.  Lemmas `ThreadIsSlotStep` and
`UploadIsSlotStep` say once what any step of the server means for slots and
calls, and the handlers' proofs use only that.  For any number of contributors
and crashes, still without overrun slots, `MpcPhase1Proofs` proves

* `ContributionsKeepOrder`: contributions enter the challenge in list order even
  when slots are repeated.  By `OrderInv` no contributor in the challenge comes
  after the slot of the state file, so a restart cannot go back behind one;
* `SavedCompletionHasOutput`: a state file that says the MPC is complete goes with
  an output.  By `CompleteInv` a thread that is about to save the end has seen
  `on_completed` return;
* `Phase1ImplementsCeremony`: until a crash every step is a step of `MpcCeremony`
  or a stutter (`TurnInv`: the chain holds contributors of earlier slots, and the
  current one only between the rename and the end of its slot);
* `PublishedOutputIsKept`: if the server crashes once, a published output is not
  replaced.  Until the crash the counter is the length of the transcript and is
  what its file holds (`CountInv`).  The output moves away with the transcript, or
  leaves a transcript without a challenge, with which the handler refuses to
  start; so by `KeptInv` a later run counts more contributions than its new
  transcript can ever have, and `on_completed` raises (`OutdatedIsInvalid`), or it
  is the run that published, which calls `on_completed` once;

and `MpcPhase2Proofs` proves

* `PublishedFilesMatch`: what is moved into place is what was validated
  (`FinalInv`), as the two methods of the handler never run at the same time
  (lemma `CallsExclude`);
* `ContributionsCountedAreKept`: by `HandlerInv` the uploader is the last of the
  chain from the rename until the call returns;
* `CoordinatorImplementsCeremony`: the refinement, as for phase 1.

`MixerProofs` proves, for any tree size, number of inputs and outputs, values and
keys,

* `RhosAreDistinct`: no two notes that mixes made have the same rho, whatever
  words the contract read and whatever was inserted.  `RhoInv` says that the rho
  of every such note comes from an h_sig over words one of which is marked; a new
  call's words are unmarked, so its rhos are new;
* `NotesSpentOnce`: by `SpendInv`, as long as inputs were canonical the word of
  every spent note's nullifier is marked;
* `MixerSolvent`: under the conditions of `Solvent` the contract holds at least
  what the unspent notes made by mixes are worth plus what executing calls have
  yet to pay, through re-entrant calls of any depth.  `BalanceInv` adds that the
  summed sets are finite and their values numbers.  A call the property is about
  (`Regular`) takes its inputs out of the unspent leaves (`InputsMade`,
  `SpentWorth`) and adds its outputs, perhaps losing a leaf whose nullifier was
  given away for an input without value (`UnspentAfter`), and the statement's
  balance equation does the rest (`WorthAfter`, `FundsAfter`).  The sums are
  handled by the lemmas `SumAdd`, `SumUnion`, `SumPart`, `SumImage` and `SumTail`,
  proved for `SumFunctionOnSet` by a minimal counterexample.

`MerkleTreeProofs` proves, for any depth, number of outputs, default value and
hash function,

* `ContractRootIsRight`: the contract's partial recomputation leaves the root of
  the complete tree over all its leaves, up to a full tree.  `ContractInv` says
  that every layer of the array agrees with the reference tree over the leaves
  that recomputations have covered (`GoodLayer`), or that a directly inserted leaf
  lies before the last pair and has not been covered.  One layer is lemma by
  lemma reduced to counting: `Down` and `Up` are the numbers of full and of begun
  subtrees of a height;
* `ClientRootIsRight`: however a client batches its leaves, its root is that of
  the complete tree over them and the one the contract announced with the last of
  them.  `EmitInv` says what the contract announced; `ClientInv` that every layer
  of the client is the corresponding layer of the reference tree over the leaves
  it has hashed;
* `PathsLeadToRoot`: the path computed for any leaf leads the circuit from the
  leaf to that root.

`WalletProofs` proves, for any chain, batch size and number of crashes,

* `NotesNeverLost`: the state file claims no block with a note of ours that is in
  no note file.  `LossInv` follows a synchronisation through its range of blocks
  and says which notes are in files at each of its points: a note is written
  before any state that covers it;
* `SyncedIsExact`: without a crash a synchronised wallet has exactly the unspent
  notes, the spent notes and the outputs of the blocks behind it, direct inserts
  or not (these shift the contract's addresses, not the wallet's).  `SyncInv` says
  the same in the middle of an event, between two blocks, between two saves, and
  of the files that the next process would open;
* `AssertionNeedsDisturbance`: without a crash the root assertion of `do_sync`
  holds exactly when no leaf was inserted directly before the event it looks at,
  and without direct inserts no synchronisation ends in an exception.  So the
  violation that the run `wallet_root` finds is due to the crash alone, and a
  direct insert is the only other cause.

`MixCommandProofs` proves, for any number of commands, users and crashes,

* `MinedIsAsked`: the event of a mined command carries the nullifiers of its own
  request, although the prover may answer with any mixture of overlapping
  requests, and its own commitments if no request overlapped it (`MinedAsAsked`).
  The argument is lemma `AcceptedIsOwn`: an answer has the h_sig of some request
  (`Known`), an h_sig names the nullifiers and the signing key of its request, and
  the mixer compares it with the nullifiers it was sent and the key of the
  sender.  `MinedInv` adds what this needs: requests are made once, before they
  are on the board, and what was sent is an answer.

`MixCommandSyncProofs` proves, in the same generality and from lemmas about notes
of which the first half is in `MixCommandProofs`,

* `WalletsAreExact`: a wallet holds exactly the notes that the mined commands its
  user has seen sent to that user and that none of them spent (`WalletsExact`);
  a note counts as sent when the emitted commitment is that of the note asked for.
  The invariant `NoteInv` says that a command is mined at most once (`OnceInv`),
  that a request spends notes its user had been sent and dummies of its own, and
  makes outputs whose rho and trapdoor name the command (`MadeInv`), that the
  ciphertexts sent and emitted are those of the request (`ChainInv`), and that
  each wallet has what was delivered to its user and not nullified up to where it
  is (`WalletsInv`).  From it: a ciphertext opens for its recipient alone and to
  the note that was sent (`DecryptIs`, `ReceivedIs`); two delivered notes differ
  in their nullifiers (`NotesDiffer`); an emitted note was not nullified before
  (`EmittedUnspent`), so that removing notes event by event misses none
  (`SyncedNotes`).

Induction over data is by minimal counterexamples: the library proves that `<` on
the naturals and strict inclusion on finite sets are well founded, from which
`LeastNat`, `InductionUpTo` and `MinimalFinite` follow without a parameter that is
an operator.  A recursive function is the `CHOOSE` of a solution of its equation;
that there is one is shown first, by induction on how far one exists (`Pow2At`,
`NotesAfterAt`), and the equation is used from then on.  `LeastNat` and
`InductionUpTo` are stated in each module that uses them.

The theorems rest on the assumptions named in the modules (`ServerAssumption`,
`MixerAssumption`, `TreeAssumption`, `WalletAssumption`, `MixCommandAssumption`,
and, for `WalletsAreExact` only, `ScenarioAssumption`, which is the form of the
arguments), which TLC evaluates, on `~SlowProcessing` where a theorem says so,
and on hashes being injective.

Only model-checked, and why:

* all liveness properties, which the prover cannot do;
* `PaidAsAsked`: the rounding of `to_zeth_units` is defined with `2 ^ n` and a
  choice of exponent, of which the provers know nothing;
* `Backed`: the sum over the unspent notes behaves as in `MixerSolvent`, but the
  values added to it come out of `to_zeth_units`, and that these are numbers at
  all rests on the same choice of exponent;
* `MixCall`: its properties compare conversions of bytes, bits and words by
  positional arithmetic over recursive operators;
* the timer, one short thread whose interesting cases the instance has.

## 5. Not modelled

* Group, field and pairing arithmetic, the inner workings of hash functions,
  ciphers and curves, and the constraint systems of the gadgets: stateless, and
  over domains TLC cannot enumerate.
* The C++ serialization layers and the wrappers of libsnark, generated protobuf
  code, Solidity's gas.
* In the coordinator: e-mail, certificates, `Server.stop`, the contributor's
  waiting and retry loops, `phase2_prepare`; the phase-2 tools the server does
  not run.
* Two processes on one wallet directory, the example token contracts, contract
  compilation, and command-line tools that only parse arguments.
* The test programs under `client/test_commands`, `debug` and `scripts`.

`PROJECT.json` lists every part with the reason.

## 6. Plan

1. The phase-2 transcript as a hash chain; `phase2_prepare`; the contributor's
   waiting and retry loops.
2. Word-level operators of the hash gadgets against reference definitions.
3. Proofs: bounds on `to_zeth_units`, from which `PaidAsAsked` would follow and
   `Backed` with the sums of `MixerProofs`.
