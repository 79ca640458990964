-------------------------------- MODULE Wallet --------------------------------
(***************************************************************************)
(* A wallet (client/zeth/core/wallet.py) that follows the mixer's events   *)
(* (do_sync in cli/utils.py, get_event_logs in core/contracts.py), one     *)
(* step per effect on the file system, and the crash of its process        *)
(* between any two of them.                                                *)
(*                                                                         *)
(* The chain is a sequence of blocks, each with a mix event, with a call   *)
(* of the contract's public insert, which puts a leaf into its tree and    *)
(* emits nothing, or with neither.  A note is identified by its number     *)
(* among the outputs of all events, which stands for its commitment and    *)
(* its nullifier; the address the wallet records for it is the wallet's    *)
(* own count of leaves.  The contract's address is the same number as long *)
(* as nothing was inserted directly.  A file is a set with at most one     *)
(* element: {} when it does not exist, {Torn} when it was opened for       *)
(* writing and not yet written.                                            *)
(***************************************************************************)
EXTENDS Integers, Sequences, FiniteSetsExt

CONSTANTS NumIn,       \* nullifiers per mix event
          NumOut,      \* outputs per mix event
          BatchSize,   \* SYNC_BLOCKS_PER_BATCH
          MaxBlocks,   \* bound on the chain
          MaxInserts,  \* bound on the direct inserts
          MaxCrashes   \* bound on the number of crashes

ASSUME WalletAssumption ==
  /\ NumIn \in Nat /\ NumOut \in Nat \ {0} /\ BatchSize \in Nat \ {0}
  /\ MaxBlocks \in Nat /\ MaxInserts \in Nat /\ MaxCrashes \in Nat

VARIABLES
  chain,       \* the blocks: event, direct insert, our outputs, our spent notes
  wpc,         \* where the wallet's process is
  next,        \* WalletState.next_block
  map,         \* WalletState.nullifier_map, as the notes it knows
  tree,        \* the leaves of Wallet.merkle_tree
  nextAddr,    \* Wallet.next_addr
  start, end,  \* start_block and end_block of get_event_logs
  queue,       \* the blocks of the batch whose events are not processed
  pos,         \* outputs or nullifiers of the current event processed
  root,        \* new_merkle_root of the last event, as the leaves under it
  stateFile,   \* state_<username>
  treeFile,    \* MERKLE_TREE_FILE
  notes,       \* note files: note and recorded address
  spent,       \* note files in the spent directory
  crashes      \* number of crashes so far

memVars == <<next, map, tree, nextAddr, start, end, queue, pos, root>>
fileVars == <<stateFile, treeFile, notes, spent>>
vars == <<chain, wpc, memVars, fileVars, crashes>>

Torn == <<>>

(* The outputs of the events up to block b, the i-th output of its event,  *)
(* the notes that are ours and the direct inserts.                         *)
Leaves(b) == NumOut * Cardinality({c \in 1 .. b : chain[c].event})
Leaf(b, i) == Leaves(b) - NumOut + i - 1
Mine(b) == {Leaf(b, i) : i \in chain[b].mine}
MineUpTo(b) == UNION {Mine(c) : c \in 1 .. b}
SpentUpTo(b) == UNION {chain[c].spends : c \in 1 .. b}
Inserted(b) == {c \in 1 .. b : chain[c].insert}
-----------------------------------------------------------------------------
(* A block: with a mix event that may spend notes of ours, with a direct   *)
(* insert, or with neither.                                                *)
NewBlock ==
  /\ Len(chain) < MaxBlocks
  /\ \/ \E insert \in BOOLEAN :
          /\ insert => Cardinality(Inserted(Len(chain))) < MaxInserts
          /\ chain' = Append(chain, [event |-> FALSE, insert |-> insert,
                                     mine |-> {}, spends |-> {}])
     \/ \E mine \in SUBSET (1 .. NumOut),
           spends \in SUBSET (MineUpTo(Len(chain)) \ SpentUpTo(Len(chain))) :
          /\ Cardinality(spends) <= NumIn
          /\ chain' = Append(chain, [event |-> TRUE, insert |-> FALSE,
                                     mine |-> mine, spends |-> spends])
  /\ UNCHANGED <<wpc, memVars, fileVars, crashes>>

(* Wallet.__init__: the state and the tree, or their defaults.  A torn     *)
(* file does not parse.                                                    *)
Open ==
  /\ wpc = "off"
  /\ Torn \notin stateFile /\ Torn \notin treeFile
  /\ IF stateFile = {} THEN next' = 1 /\ map' = {}
     ELSE \E s \in stateFile : next' = s[1] /\ map' = s[2]
  /\ \/ treeFile = {} /\ tree' = <<>>
     \/ \E t \in treeFile : tree' = t[1]
  /\ nextAddr' = Len(tree')
  /\ wpc' = "ready"
  /\ UNCHANGED <<chain, start, end, queue, pos, root, fileVars, crashes>>

\* Mutant: the newest block is left for later.
Sync_NotLast ==
  /\ wpc = "ready"
  /\ next < Len(chain)
  /\ start' = next /\ end' = Len(chain)
  /\ root' = {}
  /\ wpc' = "fetch"
  /\ UNCHANGED <<chain, next, map, tree, nextAddr, queue, pos, fileVars,
                 crashes>>

(* _do_sync: the range is fixed before the first event is fetched. *)
Sync ==
  /\ wpc = "ready"
  /\ next <= Len(chain)
  /\ start' = next /\ end' = Len(chain)
  /\ root' = {}
  /\ wpc' = "fetch"
  /\ UNCHANGED <<chain, next, map, tree, nextAddr, queue, pos, fileVars,
                 crashes>>

(* get_event_logs: the events of the next BatchSize blocks. *)
Fetch ==
  /\ wpc = "fetch" /\ start <= end
  /\ LET to_block == IF start + BatchSize - 1 < end
                     THEN start + BatchSize - 1 ELSE end
     IN  /\ queue' = {b \in start .. to_block : chain[b].event}
         /\ start' = to_block + 1
  /\ pos' = 0
  /\ wpc' = IF queue' = {} THEN "fetch" ELSE "receive"
  /\ UNCHANGED <<chain, next, map, tree, nextAddr, end, root, fileVars,
                 crashes>>

(* The events of a batch are processed in the order of their blocks. *)
Current == Min(queue)

\* Mutant: addresses count our notes only.
Receive_CountsOurs ==
  /\ wpc = "receive" /\ pos < NumOut
  /\ LET leaf == Leaf(Current, pos + 1) IN
       /\ tree' = Append(tree, leaf)
       /\ \/ /\ leaf \in Mine(Current)
             /\ notes' = notes \cup {[note |-> leaf, addr |-> nextAddr]}
             /\ map' = map \cup {leaf}
          \/ /\ leaf \notin Mine(Current)
             /\ UNCHANGED <<notes, map>>
  /\ nextAddr' = Cardinality(notes' \cup spent)
  /\ pos' = pos + 1
  /\ UNCHANGED <<chain, wpc, next, start, end, queue, root, stateFile,
                 treeFile, spent, crashes>>

(* receive_notes, one output: every commitment enters the tree, and a note *)
(* of ours is written to its file and its nullifier remembered.            *)
Receive ==
  /\ wpc = "receive" /\ pos < NumOut
  /\ LET leaf == Leaf(Current, pos + 1) IN
       /\ tree' = Append(tree, leaf)
       /\ \/ /\ leaf \in Mine(Current)
             /\ notes' = notes \cup {[note |-> leaf, addr |-> nextAddr]}
             /\ map' = map \cup {leaf}
          \/ /\ leaf \notin Mine(Current)
             /\ UNCHANGED <<notes, map>>
  /\ nextAddr' = nextAddr + 1
  /\ pos' = pos + 1
  /\ UNCHANGED <<chain, wpc, next, start, end, queue, root, stateFile,
                 treeFile, spent, crashes>>

(* _find_note_file: the candidates. *)
NoteFiles(n) == {f \in notes : f.note = n}

(* mark_nullifiers_used, one nullifier of ours.  _mark_note_spent moves    *)
(* the file if it is the only candidate; otherwise it raises.              *)
MarkSpent ==
  /\ wpc = "receive" /\ pos = NumOut
  /\ \E n \in chain[Current].spends \cap map :
       \/ /\ Cardinality(NoteFiles(n)) = 1
          /\ notes' = notes \ NoteFiles(n)
          /\ spent' = spent \cup NoteFiles(n)
          /\ map' = map \ {n}
          /\ UNCHANGED wpc
       \/ /\ Cardinality(NoteFiles(n)) # 1
          /\ wpc' = "failed"
          /\ UNCHANGED <<notes, spent, map>>
  /\ UNCHANGED <<chain, next, tree, nextAddr, start, end, queue, pos, root,
                 stateFile, treeFile, crashes>>

(* The next event, when every nullifier of this one was looked at. *)
NextEvent ==
  /\ wpc = "receive" /\ pos = NumOut
  /\ chain[Current].spends \cap map = {}
  /\ root' = {[mixed |-> Leaves(Current), direct |-> Inserted(Current)]}
  /\ queue' = queue \ {Current}
  /\ pos' = 0
  /\ wpc' = IF queue' = {} THEN "fetch" ELSE "receive"
  /\ UNCHANGED <<chain, next, map, tree, nextAddr, start, end, fileVars,
                 crashes>>

\* Mutant: the height is read again after the events were fetched.
OpenState_Reread ==
  /\ wpc = "fetch" /\ end < start
  /\ next' = Len(chain) + 1
  /\ stateFile' = {Torn}
  /\ wpc' = "state"
  /\ UNCHANGED <<chain, map, tree, nextAddr, start, end, queue, pos, root,
                 treeFile, notes, spent, crashes>>

(* update_and_save_state: the state, then the tree if it changed. *)
OpenState ==
  /\ wpc = "fetch" /\ end < start
  /\ next' = end + 1
  /\ stateFile' = {Torn}
  /\ wpc' = "state"
  /\ UNCHANGED <<chain, map, tree, nextAddr, start, end, queue, pos, root,
                 treeFile, notes, spent, crashes>>

WriteState ==
  /\ wpc = "state"
  /\ stateFile' = {<<next, map>>}
  /\ wpc' = IF root = {} THEN "check" ELSE "tree"
  /\ UNCHANGED <<chain, memVars, treeFile, notes, spent, crashes>>

OpenTree ==
  /\ wpc = "tree"
  /\ treeFile' = {Torn}
  /\ wpc' = "leaves"
  /\ UNCHANGED <<chain, memVars, stateFile, notes, spent, crashes>>

WriteTree ==
  /\ wpc = "leaves"
  /\ treeFile' = {<<tree>>}
  /\ wpc' = "check"
  /\ UNCHANGED <<chain, memVars, stateFile, notes, spent, crashes>>

(* assert new_merkle_root == our_merkle_root: the wallet's tree has all    *)
(* the outputs in order, and the contract's has nothing between them.      *)
InOrder(t, n) == t = [k \in 1 .. n |-> k - 1]

SameRoot(r) == r.direct = {} /\ InOrder(tree, r.mixed)

Check ==
  /\ wpc = "check"
  /\ wpc' = IF \A r \in root : SameRoot(r) THEN "ready" ELSE "failed"
  /\ UNCHANGED <<chain, memVars, fileVars, crashes>>

(* The command ends; or the process dies where it is. *)
Forget ==
  /\ wpc' = "off"
  /\ next' = 1 /\ map' = {} /\ tree' = <<>> /\ nextAddr' = 0
  /\ start' = 1 /\ end' = 0 /\ queue' = {} /\ pos' = 0 /\ root' = {}
  /\ UNCHANGED <<chain, fileVars>>

Exit == wpc \in {"ready", "failed"} /\ Forget /\ UNCHANGED crashes

Crash ==
  /\ wpc \notin {"off", "ready", "failed"}
  /\ crashes < MaxCrashes
  /\ crashes' = crashes + 1
  /\ Forget
-----------------------------------------------------------------------------
Init ==
  /\ chain = <<>> /\ wpc = "off" /\ crashes = 0
  /\ next = 1 /\ map = {} /\ tree = <<>> /\ nextAddr = 0
  /\ start = 1 /\ end = 0 /\ queue = {} /\ pos = 0 /\ root = {}
  /\ stateFile = {} /\ treeFile = {} /\ notes = {} /\ spent = {}

SyncStep ==
  \/ Fetch \/ Receive \/ MarkSpent \/ NextEvent
  \/ OpenState \/ WriteState \/ OpenTree \/ WriteTree \/ Check

Next == NewBlock \/ Open \/ Sync \/ SyncStep \/ Exit \/ Crash

Spec == Init /\ [][Next]_vars

(* A process that runs goes on, one that has raised ends, and the owner    *)
(* keeps opening the wallet and synchronising it.                          *)
FairSpec ==
  /\ Spec
  /\ WF_vars(SyncStep) /\ WF_vars(wpc = "failed" /\ Exit)
  /\ WF_vars(Open) /\ SF_vars(Sync)
-----------------------------------------------------------------------------
(* A wallet that is open and never crashed is exact: one file per unspent  *)
(* note of ours, one in the spent directory per spent note, the nullifiers *)
(* of exactly the unspent ones, and as address of a note the number of     *)
(* outputs before it, which is its address in the contract's tree unless   *)
(* something was inserted there directly before it.  Synchronisations that *)
(* failed the root assertion do not change this.                           *)
SyncedWalletExact ==
  wpc = "ready" /\ crashes = 0 =>
    LET b == next - 1
        Files(s) == {[note |-> n, addr |-> n] : n \in s}
    IN  /\ notes = Files(MineUpTo(b) \ SpentUpTo(b))
        /\ spent = Files(MineUpTo(b) \cap SpentUpTo(b))
        /\ map = MineUpTo(b) \ SpentUpTo(b)
        /\ InOrder(tree, Leaves(b))

(* Whatever crashes there were, the state file never claims blocks whose   *)
(* notes are not in a file: no note is lost, though its recorded address   *)
(* may be wrong.                                                           *)
NoNoteLost ==
  \A s \in stateFile \ {Torn} :
    \A n \in MineUpTo(s[1] - 1) : \E f \in notes \cup spent : f.note = n

(* Unless the process crashes, the wallet catches up with every block; a   *)
(* direct insert makes the root assertion fail, not the synchronisation.   *)
CatchesUp ==
  \A b \in 1 .. MaxBlocks :
    (Len(chain) >= b) ~> (crashes > 0 \/ (wpc = "ready" /\ next > b))

(* When a synchronisation has saved its files, the root of the wallet's    *)
(* tree is the one the contract emitted last: the assertion                *)
(* "new_merkle_root == our_merkle_root" (cli/utils.py:330) holds.          *)
RootAssertion == wpc = "check" => \A r \in root : SameRoot(r)
=============================================================================
