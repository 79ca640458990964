-------------------------- MODULE MixCommandProofs --------------------------
(***************************************************************************)
(* Proof that what is mined is what the command asked for: its nullifiers  *)
(* whatever the prover's shared board makes of requests that overlap, and  *)
(* its commitments when none overlapped, for any number of commands, users *)
(* and crashes; and the lemmas on notes, requests and wallets that         *)
(* MixCommandSyncProofs builds on.                                         *)
(***************************************************************************)
EXTENDS MixCommand, TLAPS

Preparing == {"start", "config", "read", "unlink", "fetch", "write", "wallet"}

\* What is known of a sequence's domain.
LEMMA SeqDomain ==
  ASSUME NEW S, NEW s \in Seq(S)
  PROVE  Len(s) \in Nat /\ DOMAIN s = 1..Len(s)
  OBVIOUS

(* The fields of the event a transaction with two outputs emits are the values it is built from. *)
LEMMA EventFields ==
  ASSUME NEW c, NEW nf1, NEW nf2, NEW cm1, NEW cm2, NEW x1, NEW x2,
         NEW e, e = [cmd |-> c, nfs |-> <<nf1, nf2>>,
                     outs |-> <<[commitment |-> cm1, ciphertext |-> x1],
                                [commitment |-> cm2, ciphertext |-> x2]>>]
  PROVE  /\ e.cmd = c /\ e.nfs = <<nf1, nf2>>
         /\ e.outs[1].commitment = cm1 /\ e.outs[1].ciphertext = x1
         /\ e.outs[2].commitment = cm2 /\ e.outs[2].ciphertext = x2
  BY Zenon

\* There are two inputs and two outputs.
LEMMA OneOrTwo == \A i \in 1..2 : i = 1 \/ i = 2
  OBVIOUS

\* Nothing but these maps is needed of the types.
Maps ==
    /\ request = [c \in Commands |-> request[c]]
    /\ overlap = [c \in Commands |-> overlap[c]]
    /\ sent = [c \in Commands |-> sent[c]]
    /\ status = [c \in Commands |-> status[c]]
    /\ pc = [c \in Commands |-> pc[c]]

(* A request is made once; its h_sig is the hash of its nullifiers and the  *)
(* key of its own command, and its notes have their rhos from that h_sig.   *)
OwnRhos(c, r) ==
    \A i \in 1..2 : r.outs[i] = [apk |-> r.outs[i].apk, value |-> r.outs[i].value,
                                 rho |-> compute_rho_i(c, r.hsig, i), trap_r |-> r.outs[i].trap_r]
RequestInv ==
    \A c \in Commands :
        /\ request[c] = {} \/ request[c] = {Request(c)}
        /\ request[c] # {} =>
             /\ Request(c).nfs = <<Request(c).nfs[1], Request(c).nfs[2]>>
             /\ Request(c).hsig = <<Request(c).nfs, c>>
             /\ OwnRhos(c, Request(c))
        /\ pc[c] \in Preparing => request[c] = {}
        /\ pc[c] \in {"request", "proving", "send", "broadcast"} => request[c] # {}

\* The board works, or has worked beside another, on requests that were made.
BoardInv ==
    /\ \A c \in board : c \in Commands /\ request[c] # {}
    /\ \A c \in Commands : \A d \in overlap[c] : d \in Commands /\ request[d] # {}

(* Data with a proof has the h_sig of some request, and the commitments of  *)
(* c's own when c had the board to itself.                                  *)
Known(c, data) ==
    /\ request[c] # {}
    /\ \E p \in Commands : request[p] # {} /\ data.hsig = Request(p).hsig
    /\ overlap[c] = {} => /\ data.cm1 = compute_commitment(Request(c).outs[1])
                          /\ data.cm2 = compute_commitment(Request(c).outs[2])

SentInv ==
    \A c \in Commands :
        /\ \A t \in sent[c] : Known(c, t.data)
        /\ status[c] = "pending" => sent[c] # {}

EventsInv ==
    /\ \E S : events \in Seq(S)
    /\ \A j \in DOMAIN events : events[j].cmd \in Commands /\ request[events[j].cmd] # {}

MinedInv == Maps /\ RequestInv /\ BoardInv /\ SentInv /\ EventsInv /\ MinedAsAsked

----------------------------------------------------------------------------
(* What the mixer accepts from command c has the nullifiers of c: h_sig     *)
(* names the signing key.                                                   *)
LEMMA AcceptedIsOwn ==
  ASSUME MinedInv, NEW c \in Commands, NEW data, Known(c, data), Accepts(c, data)
  PROVE  <<data.nf1, data.nf2>> = Request(c).nfs
<1>1. PICK p \in Commands : request[p] # {} /\ data.hsig = Request(p).hsig
  BY Zenon DEF Known
<1>2. data.hsig = <<Request(p).nfs, p>>
  BY <1>1, Zenon DEF MinedInv, RequestInv
<1>3. data.hsig = <<<<data.nf1, data.nf2>>, c>>
  BY Zenon DEF Accepts, RootNullifiersHsigOk, compute_h_sig
<1> DEFINE x == Request(p).nfs
           y == <<data.nf1, data.nf2>>
<1>4. <<x, p>> = <<y, c>>
  BY <1>2, <1>3, Zenon
<1> HIDE DEF x, y
<1>5. x = y /\ p = c
  BY <1>4, Zenon
<1> QED BY <1>5, Zenon DEF x, y

\* What was known of data stays known: requests stay, and overlaps only grow.
LEMMA KnownStays ==
  ASSUME NEW c \in Commands, NEW data, Known(c, data), overlap[c] \subseteq overlap'[c],
         \A d \in Commands : request[d] # {} => request'[d] = request[d]
  PROVE  Known(c, data)'
<1>1. \A d \in Commands : request[d] # {} => Request(d)' = Request(d)
  BY Zenon DEF Request
<1>2. overlap'[c] = {} => overlap[c] = {}
  BY Zenon
<1>3. PICK p \in Commands : request[p] # {} /\ data.hsig = Request(p).hsig
  BY Zenon DEF Known
<1>4. request'[p] # {} /\ data.hsig = Request(p)'.hsig
  BY <1>1, <1>3, Zenon
<1> QED BY <1>1, <1>2, <1>4, Zenon DEF Known

\* What holds of the events so far goes on to hold, likewise.
LEMMA EventsKept ==
  ASSUME MinedInv, events' = events,
         \A c \in Commands : request[c] # {} => request'[c] = request[c],
         \A c \in Commands : overlap[c] \subseteq overlap'[c]
  PROVE  EventsInv' /\ MinedAsAsked'
<1>1. EventsInv'
  BY Zenon DEF MinedInv, EventsInv
<1>2. ASSUME NEW j \in DOMAIN events PROVE Request(events[j].cmd)' = Request(events[j].cmd)
  <2>1. request'[events[j].cmd] = request[events[j].cmd]
    BY Zenon DEF MinedInv, EventsInv
  <2> QED BY <2>1, Zenon DEF Request
<1>3. ASSUME NEW j \in DOMAIN events, overlap'[events[j].cmd] = {} PROVE overlap[events[j].cmd] = {}
  <2>1. events[j].cmd \in Commands
    BY Zenon DEF MinedInv, EventsInv
  <2> QED BY <1>3, <2>1, Zenon
<1>4. \A j \in DOMAIN events :
        /\ events[j].nfs = Request(events[j].cmd).nfs
        /\ overlap[events[j].cmd] = {} =>
             \A i \in 1..JS_OUTPUTS :
                 events[j].outs[i].commitment = compute_commitment(Request(events[j].cmd).outs[i])
  BY Zenon DEF MinedInv, MinedAsAsked
<1>5. MinedAsAsked'
  BY <1>2, <1>3, <1>4 DEF MinedAsAsked
<1> QED BY <1>1, <1>5, Zenon

(* A step that only moves a command on, and perhaps takes requests off the  *)
(* board, keeps the invariant if it keeps to the order of the command.      *)
LEMMA MoveOn ==
  ASSUME MinedInv, NEW c \in Commands, NEW where, Go(c, where),
         UNCHANGED <<request, overlap, sent, status, events>>, board' \subseteq board,
         where \in Preparing => pc[c] \in Preparing,
         where \in {"request", "proving", "send", "broadcast"} => request[c] # {}
  PROVE  MinedInv'
<1>1. Maps'
  BY Zenon DEF MinedInv, Maps, Go
<1>2. \A d : Request(d)' = Request(d)
  BY Zenon DEF Request
<1>3. \A d \in Commands : pc'[d] = IF d = c THEN where ELSE pc[d]
  BY Zenon DEF MinedInv, Maps, Go
<1>4. RequestInv'
  BY <1>2, <1>3, Zenon DEF MinedInv, RequestInv, OwnRhos
<1>5. BoardInv'
  BY Zenon DEF MinedInv, BoardInv
<1>6. SentInv'
  BY KnownStays, Zenon DEF MinedInv, SentInv
<1>7. EventsInv' /\ MinedAsAsked'
  BY EventsKept, Zenon
<1> QED BY <1>1, <1>4, <1>5, <1>6, <1>7, Zenon DEF MinedInv

----------------------------------------------------------------------------
\* No request or event exists before the first command runs.
LEMMA MinedInit == Init => MinedInv
<1> SUFFICES ASSUME Init PROVE MinedInv
  BY Zenon
<1>1. Maps
  BY Zenon DEF Init, Maps
<1>2. RequestInv
  BY Zenon DEF Init, RequestInv, Preparing
<1>3. BoardInv
  BY Zenon DEF Init, BoardInv
<1>4. SentInv
  BY Zenon DEF Init, SentInv
<1>5. EventsInv /\ MinedAsAsked
  <2>1. events = <<>> /\ events \in Seq({})
    BY DEF Init
  <2> QED BY <2>1 DEF EventsInv, MinedAsAsked
<1> QED BY <1>1, <1>2, <1>3, <1>4, <1>5, Zenon DEF MinedInv

\* The nullifiers of a request, its h_sig and its notes.
LEMMA RequestShape ==
  ASSUME NEW c
  PROVE  LET r == create_prover_inputs(c)
         IN  r.nfs = <<r.nfs[1], r.nfs[2]>> /\ r.hsig = <<r.nfs, c>> /\ OwnRhos(c, r)
<1> DEFINE r == create_prover_inputs(c)
           nf(i) == compute_nullifier(PadInputs(c)[i],
                      load_zeth_address(Address(args[c].user).addr_sk,
                        public_address_as_text(Address(args[c].user).addr_pk)).addr_sk.a_sk)
<1>1. r.nfs = [i \in 1..2 |-> nf(i)] /\ r.outs = create_api_zeth_notes(c, r.hsig, PadOutputs(c))
  BY SMTT(30) DEF create_prover_inputs, JS_INPUTS
<1>2. r.hsig = <<r.nfs, c>>
  BY Zenon DEF create_prover_inputs, compute_h_sig
<1> HIDE DEF r, nf
<1>3. [i \in 1..2 |-> nf(i)] = <<nf(1), nf(2)>>
  OBVIOUS
<1>4. r.nfs = <<r.nfs[1], r.nfs[2]>>
  BY <1>1, <1>3, Zenon
<1>5. ASSUME NEW i \in 1..2
      PROVE  r.outs[i] = [apk |-> r.outs[i].apk, value |-> r.outs[i].value,
                          rho |-> compute_rho_i(c, r.hsig, i), trap_r |-> r.outs[i].trap_r]
  <2> DEFINE a == PadOutputs(c)[i].address.a_pk
             v == to_zeth_units(PadOutputs(c)[i].value)
             h == compute_rho_i(c, r.hsig, i)
             o == r.outs[i]
  <2>1. o = [apk |-> a, value |-> v, rho |-> h, trap_r |-> <<c, i>>]
    BY <1>1, Zenon DEF create_api_zeth_notes, JS_OUTPUTS
  <2> HIDE DEF a, v, h, o
  <2>2. o.apk = a /\ o.value = v /\ o.trap_r = <<c, i>>
    BY <2>1, Zenon
  <2> QED BY <2>1, <2>2, Zenon DEF o, h
<1> QED BY <1>2, <1>4, <1>5, Zenon DEF r, OwnRhos

\* The request is made: a fresh one, of a command that had none.
LEMMA OpenWalletPreserves ==
  ASSUME MinedInv, NEW c \in Commands, OpenWallet(c)
  PROVE  MinedInv'
<1> USE DEF Preparing
<1>1. CASE Go(c, "failed") /\ UNCHANGED request
  BY <1>1, MoveOn, Zenon DEF OpenWallet, chainVars
<1>2. CASE request' = [request EXCEPT ![c] = {create_prover_inputs(c)}] /\ Go(c, "request")
  <2> DEFINE r == create_prover_inputs(c)
  <2>1. r.nfs = <<r.nfs[1], r.nfs[2]>> /\ r.hsig = <<r.nfs, c>> /\ OwnRhos(c, r)
    BY RequestShape, Zenon
  <2> HIDE DEF r
  <2>2. UNCHANGED <<overlap, board, sent, status, events>>
    BY Zenon DEF OpenWallet, chainVars
  <2>3. Maps'
    BY <1>2, <2>2, Zenon DEF MinedInv, Maps, Go
  <2>4. request[c] = {} /\ \A d \in Commands : request'[d] = IF d = c THEN {r} ELSE request[d]
    BY <1>2, Zenon DEF MinedInv, Maps, RequestInv, OpenWallet, r
  <2>5. Request(c)' = r
    BY <2>4 DEF Request
  <2>6. \A d \in Commands \ {c} : request'[d] = request[d] /\ Request(d)' = Request(d)
    BY <2>4, Zenon DEF Request
  <2>7. \A d \in Commands : pc'[d] = IF d = c THEN "request" ELSE pc[d]
    BY <1>2, Zenon DEF MinedInv, Maps, Go
  <2>8. RequestInv'
    <3>1. request'[c] = {Request(c)'} /\ request'[c] # {}
      BY <2>4, <2>5, Zenon
    <3>2. ASSUME NEW d \in Commands
          PROVE  /\ request'[d] = {} \/ request'[d] = {Request(d)'}
                 /\ request'[d] # {} =>
                      /\ Request(d)'.nfs = <<Request(d)'.nfs[1], Request(d)'.nfs[2]>>
                      /\ Request(d)'.hsig = <<Request(d)'.nfs, d>>
                      /\ OwnRhos(d, Request(d)')
                 /\ pc'[d] \in Preparing => request'[d] = {}
                 /\ pc'[d] \in {"request", "proving", "send", "broadcast"} => request'[d] # {}
      <4>1. CASE d = c
        BY <2>1, <2>5, <2>7, <3>1, <4>1, Zenon
      <4>2. CASE d # c
        <5>1. request'[d] = request[d] /\ Request(d)' = Request(d) /\ pc'[d] = pc[d]
          BY <2>6, <2>7, <4>2, Zenon
        <5> QED BY <5>1, Zenon DEF MinedInv, RequestInv
      <4> QED BY <4>1, <4>2, Zenon
    <3> QED BY <3>2, Zenon DEF RequestInv, OwnRhos, compute_rho_i
  <2>9. \A d \in Commands : request[d] # {} => request'[d] = request[d] /\ request'[d] # {}
    BY <2>4, <2>6, Zenon
  <2>10. BoardInv'
    BY <2>2, <2>9, Zenon DEF MinedInv, BoardInv
  <2>11. SentInv'
    BY <2>2, <2>9, KnownStays, Zenon DEF MinedInv, SentInv
  <2>12. EventsInv' /\ MinedAsAsked'
    BY <2>2, <2>9, EventsKept, Zenon
  <2> QED BY <2>3, <2>8, <2>10, <2>11, <2>12, Zenon DEF MinedInv
<1> QED BY <1>1, <1>2, Zenon DEF OpenWallet

\* The requests at work on the board now overlap.
LEMMA ProveStartsPreserves ==
  ASSUME MinedInv, NEW c \in Commands, ProveStarts(c)
  PROVE  MinedInv'
<1> USE DEF Preparing
<1>1. CASE Go(c, "failed") /\ UNCHANGED <<board, overlap>>
  BY <1>1, MoveOn, Zenon DEF ProveStarts, chainVars
<1>2. CASE /\ board' = board \cup {c}
           /\ overlap' = [d \in Commands |->
                overlap[d] \cup (IF d = c THEN board ELSE IF d \in board THEN {c} ELSE {})]
           /\ Go(c, "proving")
  <2>1. UNCHANGED <<request, sent, status, events>>
    BY Zenon DEF ProveStarts, chainVars
  <2>2. Maps'
    BY <1>2, <2>1, Zenon DEF MinedInv, Maps, Go
  <2>3. \A d : Request(d)' = Request(d)
    BY <2>1, Zenon DEF Request
  <2>4. \A d \in Commands : /\ pc'[d] = IF d = c THEN "proving" ELSE pc[d]
                            /\ overlap[d] \subseteq overlap'[d]
                            /\ \A e \in overlap'[d] : e \in overlap[d] \/ e \in board \/ e = c
    BY <1>2, Zenon DEF MinedInv, Maps, Go
  <2>5. request[c] # {}
    BY Zenon DEF ProveStarts, MinedInv, RequestInv
  <2>6. RequestInv'
    BY <2>1, <2>3, <2>4, <2>5, Zenon DEF MinedInv, RequestInv, OwnRhos
  <2>7. BoardInv'
    <3>1. \A d \in board' : d \in Commands /\ request'[d] # {}
      BY <1>2, <2>1, <2>5, Zenon DEF MinedInv, BoardInv
    <3>2. \A d \in Commands : \A e \in overlap'[d] : e \in Commands /\ request'[e] # {}
      BY <2>1, <2>4, <2>5, Zenon DEF MinedInv, BoardInv
    <3> QED BY <3>1, <3>2, Zenon DEF BoardInv
  <2>8. SentInv'
    BY <2>1, <2>4, KnownStays, Zenon DEF MinedInv, SentInv
  <2>9. EventsInv' /\ MinedAsAsked'
    BY <2>1, <2>4, EventsKept, Zenon
  <2> QED BY <2>2, <2>6, <2>7, <2>8, <2>9, Zenon DEF MinedInv
<1> QED BY <1>1, <1>2, Zenon DEF ProveStarts

\* An output whose parts are all of one request is that request's own note.
LEMMA WholeNote ==
  ASSUME NEW c, OwnRhos(c, Request(c)), NEW out \in OutputsFrom({c}), NEW i \in 1..2
  PROVE  MadeNote(out, i) = Request(c).outs[i]
<1>1. out.phi = c /\ out.hsig = c /\ out.to[i] = c /\ out.amount[i] = c
  BY DEF OutputsFrom, JS_OUTPUTS
<1> DEFINE o == Request(c).outs[i]
           h == compute_rho_i(c, Request(c).hsig, i)
<1>2. MadeNote(out, i) = [apk |-> o.apk, value |-> o.value, rho |-> h, trap_r |-> o.trap_r]
  BY <1>1, Zenon DEF MadeNote
<1>3. o = [apk |-> o.apk, value |-> o.value, rho |-> h, trap_r |-> o.trap_r]
  BY Zenon DEF OwnRhos
<1> QED BY <1>2, <1>3, Zenon

\* What the prover answers is known: it is made of c and of requests that overlapped it.
LEMMA AnswerKnown ==
  ASSUME MinedInv, NEW c \in Commands, request[c] # {}, NEW data \in Answers(c)
  PROVE  Known(c, data)
<1> DEFINE S == {c} \cup overlap[c]
<1>1. PICK in \in InputsFrom(S), out \in OutputsFrom(S) : data = PublicData(in, out)
  BY DEF Answers, Satisfying
<1>2. out.hsig \in S
  BY DEF OutputsFrom
<1>3. /\ data.hsig = Request(out.hsig).hsig
      /\ data.cm1 = compute_commitment(MadeNote(out, 1))
      /\ data.cm2 = compute_commitment(MadeNote(out, 2))
  BY <1>1, Zenon DEF PublicData
<1>4. out.hsig \in Commands /\ request[out.hsig] # {}
  BY <1>2, Zenon DEF MinedInv, BoardInv
<1>5. ASSUME overlap[c] = {}
      PROVE  MadeNote(out, 1) = Request(c).outs[1] /\ MadeNote(out, 2) = Request(c).outs[2]
  <2>1. out \in OutputsFrom({c})
    <3>1. S = {c}
      BY <1>5, Zenon
    <3> QED BY <3>1, Zenon
  <2>2. OwnRhos(c, Request(c))
    BY Zenon DEF MinedInv, RequestInv
  <2>3. 1 \in 1..2 /\ 2 \in 1..2
    OBVIOUS
  <2> QED BY <2>1, <2>2, <2>3, WholeNote, Zenon
<1> QED BY <1>3, <1>4, <1>5, Zenon DEF Known

\* What is sent is an answer of the prover.
LEMMA BroadcastPreserves ==
  ASSUME MinedInv, NEW c \in Commands, Broadcast(c)
  PROVE  MinedInv'
<1> USE DEF Preparing
<1>1. PICK data \in Answers(c) :
        sent' = [sent EXCEPT ![c] = {[data |-> data, ciphertexts |-> encrypt_notes(c)]}]
  BY Zenon DEF Broadcast
<1>2. UNCHANGED <<request, board, overlap, events>> /\ Go(c, "done")
  BY Zenon DEF Broadcast, proverVars
<1>3. status' = [d \in Commands |-> IF d = c THEN "pending"
                                   ELSE IF d \in Rivals(c) THEN "dropped" ELSE status[d]]
  BY Zenon DEF Broadcast
<1>4. Known(c, data)
  <2>1. request[c] # {}
    BY Zenon DEF Broadcast, MinedInv, RequestInv
  <2> QED BY <2>1, AnswerKnown, Zenon
<1>5. Maps'
  BY <1>1, <1>2, <1>3, Zenon DEF MinedInv, Maps, Go
<1>6. \A d : Request(d)' = Request(d)
  BY <1>2, Zenon DEF Request
<1>7. \A d \in Commands : pc'[d] = IF d = c THEN "done" ELSE pc[d]
  BY <1>2, Zenon DEF MinedInv, Maps, Go
<1>8. RequestInv'
  BY <1>2, <1>6, <1>7, Zenon DEF MinedInv, RequestInv, OwnRhos
<1>9. BoardInv'
  BY <1>2, Zenon DEF MinedInv, BoardInv
<1>10. SentInv'
  <2>1. \A d \in Commands : \A a : Known(d, a) => Known(d, a)'
    BY <1>2, KnownStays, Zenon
  <2>2. \A t \in sent'[c] : t.data = data
    BY <1>1 DEF MinedInv, Maps
  <2>3. sent'[c] # {} /\ \A d \in Commands \ {c} : sent'[d] = sent[d]
    BY <1>1, Zenon DEF MinedInv, Maps
  <2>4. \A d \in Commands \ {c} : status'[d] = "pending" => status[d] = "pending"
    BY <1>3, Zenon
  <2>5. ASSUME NEW d \in Commands
        PROVE  (\A t \in sent'[d] : Known(d, t.data)') /\ (status'[d] = "pending" => sent'[d] # {})
    <3>1. CASE d = c
      BY <1>4, <2>1, <2>2, <2>3, <3>1, Zenon
    <3>2. CASE d # c
      BY <2>1, <2>3, <2>4, <3>2, Zenon DEF MinedInv, SentInv
    <3> QED BY <3>1, <3>2, Zenon
  <2> QED BY <2>5, Zenon DEF SentInv
<1>11. EventsInv' /\ MinedAsAsked'
  BY <1>2, EventsKept, Zenon
<1> QED BY <1>5, <1>8, <1>9, <1>10, <1>11, Zenon DEF MinedInv

(* The event of a transaction that is mined is made of the public data the  *)
(* mixer accepted, whose nullifiers are the command's own.                  *)
LEMMA MinePreserves ==
  ASSUME MinedInv, NEW c \in Commands, Mine(c)
  PROVE  MinedInv'
<1> DEFINE tx == CHOOSE t \in sent[c] : TRUE
           data == tx.data
           event == [cmd |-> c, nfs |-> <<data.nf1, data.nf2>>,
                     outs |-> <<[commitment |-> data.cm1, ciphertext |-> tx.ciphertexts[1]],
                                [commitment |-> data.cm2, ciphertext |-> tx.ciphertexts[2]]>>]
<1>1. UNCHANGED <<request, board, overlap, sent, pc>>
  BY Zenon DEF Mine, proverVars
<1>2. \/ UNCHANGED events
      \/ Accepts(c, data) /\ events' = Append(events, event)
  BY Zenon DEF Mine
<1>3. PICK w : w # "pending" /\ status' = [status EXCEPT ![c] = w]
  BY Zenon DEF Mine
<1>4. Known(c, data)
  BY Zenon DEF Mine, MinedInv, SentInv
<1> HIDE DEF tx
<1>5. Maps'
  BY <1>1, <1>3, Zenon DEF MinedInv, Maps
<1>6. \A d : Request(d)' = Request(d)
  BY <1>1, Zenon DEF Request
<1>7. RequestInv'
  BY <1>1, <1>6, Zenon DEF MinedInv, RequestInv, OwnRhos
<1>8. BoardInv'
  BY <1>1, Zenon DEF MinedInv, BoardInv
<1>9. SentInv'
  <2>1. \A d \in Commands : status'[d] = "pending" => status[d] = "pending"
    BY <1>3, Zenon DEF MinedInv, Maps
  <2> QED BY <1>1, <2>1, KnownStays, Zenon DEF MinedInv, SentInv
<1>10. EventsInv' /\ MinedAsAsked'
  <2>1. CASE UNCHANGED events
    BY <1>1, <2>1, EventsKept, Zenon
  <2>2. CASE Accepts(c, data) /\ events' = Append(events, event)
    <3>1. request[c] # {} /\ <<data.nf1, data.nf2>> = Request(c).nfs
      <4> HIDE DEF data
      <4> QED BY <1>4, <2>2, AcceptedIsOwn, Zenon DEF Known
    <3>2. /\ event.cmd = c
          /\ event.nfs = Request(c).nfs
          /\ overlap[c] = {} => \A i \in 1..JS_OUTPUTS :
               event.outs[i].commitment = compute_commitment(Request(c).outs[i])
      <4>1. /\ event.cmd = c /\ event.nfs = <<data.nf1, data.nf2>>
            /\ event.outs[1].commitment = data.cm1 /\ event.outs[2].commitment = data.cm2
        BY EventFields, Zenon
      <4> HIDE DEF data, event
      <4> QED BY <1>4, <3>1, <4>1, OneOrTwo, Zenon DEF JS_OUTPUTS, Known
    <3> HIDE DEF event
    <3>3. PICK S : events \in Seq(S)
      BY Zenon DEF MinedInv, EventsInv
    <3>4. events' \in Seq(S \cup {event})
      BY <2>2, <3>3
    <3>5. \A j \in DOMAIN events' : (j \in DOMAIN events /\ events'[j] = events[j]) \/ events'[j] = event
      BY <2>2, <3>3
    <3>6. EventsInv'
      BY <1>1, <3>1, <3>2, <3>4, <3>5, Zenon DEF MinedInv, EventsInv
    <3>7. ASSUME NEW j \in DOMAIN events', NEW d, d = events'[j].cmd
          PROVE  /\ events'[j].nfs = Request(d).nfs
                 /\ overlap[d] = {} => \A i \in 1..JS_OUTPUTS :
                      events'[j].outs[i].commitment = compute_commitment(Request(d).outs[i])
      <4>1. CASE events'[j] = event
        BY <3>2, <3>7, <4>1, Zenon
      <4>2. CASE j \in DOMAIN events /\ events'[j] = events[j]
        BY <3>7, <4>2, Zenon DEF MinedInv, MinedAsAsked
      <4> QED BY <3>5, <4>1, <4>2, Zenon
    <3>8. MinedAsAsked'
      BY <1>1, <1>6, <3>7, Zenon DEF MinedAsAsked, JS_OUTPUTS
    <3> QED BY <3>6, <3>8, Zenon
  <2> QED BY <1>2, <2>1, <2>2, Zenon
<1> QED BY <1>5, <1>7, <1>8, <1>9, <1>10, Zenon DEF MinedInv

\* Every step keeps the invariant.
LEMMA MinedInductive == MinedInv /\ [Next]_vars => MinedInv'
<1> SUFFICES ASSUME MinedInv, [Next]_vars PROVE MinedInv'
  BY Zenon
<1> USE DEF Preparing
<1>1. ASSUME NEW c \in Commands, Step(c) PROVE MinedInv'
  <2>1. CASE Start(c)
    BY <2>1, MoveOn, Zenon DEF Start, proverVars, chainVars
  <2>2. CASE FindConfig(c)
    BY <2>2, MoveOn, Zenon DEF FindConfig, proverVars, chainVars
  <2>3. CASE ReadConfig(c)
    BY <2>3, MoveOn, Zenon DEF ReadConfig, Configured, proverVars, chainVars
  <2>4. CASE UnlinkConfig(c)
    BY <2>4, MoveOn, Zenon DEF UnlinkConfig, proverVars, chainVars
  <2>5. CASE FetchConfig(c)
    BY <2>5, MoveOn, Zenon DEF FetchConfig, proverVars, chainVars
  <2>6. CASE WriteConfig(c)
    BY <2>6, MoveOn, Zenon DEF WriteConfig, Configured, proverVars, chainVars
  <2>7. CASE OpenWallet(c)
    BY <2>7, OpenWalletPreserves, Zenon
  <2>8. CASE ProveStarts(c)
    BY <2>8, ProveStartsPreserves, Zenon
  <2>9. CASE ReadNonce(c)
    <3>1. request[c] # {}
      BY <2>9, Zenon DEF ReadNonce, MinedInv, RequestInv
    <3> QED BY <2>9, <3>1, MoveOn, Zenon DEF ReadNonce, proverVars
  <2>10. CASE Refused(c)
    BY <2>10, MoveOn, Zenon DEF Refused, proverVars, chainVars
  <2>11. CASE NonceTaken(c)
    BY <2>11, MoveOn, Zenon DEF NonceTaken, proverVars, chainVars
  <2>12. CASE Broadcast(c)
    BY <2>12, BroadcastPreserves
  <2> QED BY <1>1, <2>1, <2>2, <2>3, <2>4, <2>5, <2>6, <2>7, <2>8, <2>9, <2>10, <2>11, <2>12, Zenon
          DEF Step
<1>2. ASSUME NEW c \in Commands, ProveEnds(c) PROVE MinedInv'
  <2>1. request[c] # {}
    BY <1>2, Zenon DEF ProveEnds, MinedInv, BoardInv
  <2>2. PICK w : Go(c, w) /\ (w = pc[c] \/ w = "send" \/ w = "failed")
    BY <1>2, Zenon DEF ProveEnds
  <2>3. UNCHANGED <<request, overlap, sent, status, events>> /\ board' \subseteq board
    BY <1>2, Zenon DEF ProveEnds, chainVars
  <2> QED BY <2>1, <2>2, <2>3, MoveOn, Zenon
<1>3. ASSUME NEW c \in Commands, Crash(c) PROVE MinedInv'
  BY <1>3, MoveOn, Zenon DEF Crash, proverVars, chainVars
<1>4. ASSUME UNCHANGED <<proverVars, chainVars, pc>> PROVE MinedInv'
  <2>1. UNCHANGED <<request, board, overlap, sent, status, events, pc>>
    BY <1>4, Zenon DEF proverVars, chainVars
  <2>2. \A d : Request(d)' = Request(d)
    BY <2>1, Zenon DEF Request
  <2>3. EventsInv' /\ MinedAsAsked'
    BY <2>1, EventsKept, Zenon
  <2>4. SentInv'
    BY <2>1, KnownStays, Zenon DEF MinedInv, SentInv
  <2> QED BY <2>1, <2>2, <2>3, <2>4, Zenon DEF MinedInv, Maps, RequestInv, OwnRhos, BoardInv
<1>5. CASE \E u \in Users : Sync(u)
  BY <1>4, <1>5, Zenon DEF Sync
<1>6. CASE UNCHANGED vars
  BY <1>4, <1>6, Zenon DEF vars
<1> QED BY <1>1, <1>2, <1>3, <1>5, <1>6, MinePreserves, Zenon DEF Next

\* It holds in every behaviour.
LEMMA MinedInvariant == Spec => []MinedInv
  BY MinedInit, MinedInductive, PTL DEF Spec

(* The event the mixer emits for a command carries the nullifiers of that   *)
(* command's own request, whatever the prover's shared board makes of the   *)
(* witnesses, and its commitments when no request overlapped it on the      *)
(* board (MinedAsAsked), for any number of commands, users and crashes.     *)
THEOREM MinedIsAsked == Spec => []MinedAsAsked
<1>1. MinedInv => MinedAsAsked
  BY Zenon DEF MinedInv
<1> QED BY <1>1, MinedInvariant, PTL

----------------------------------------------------------------------------
(* The notes of a user.  A command that runs has no transaction yet, its    *)
(* arguments passed the tests of Start, and it is mined at most once.       *)

Working == Preparing \cup {"request", "proving", "send", "broadcast"}
Fits(c) == Len(args[c].ins) <= 2 /\ Len(args[c].outs) <= 2

ArgsInv == \E s \in Scenarios : args = s.args

OnceInv ==
    /\ \A c \in Commands :
         /\ pc[c] \in Working => status[c] = "none" /\ sent[c] = {}
         /\ pc[c] \in Working \ {"start"} => Fits(c)
         /\ sent[c] # {} => request[c] # {}
    /\ \A j \in DOMAIN events : status[events[j].cmd] = "ok"
    /\ \A i, j \in DOMAIN events : events[i].cmd = events[j].cmd => i = j

\* Whom the outputs of a command are for.
OnlyOne(to) == CHOOSE u \in to : TRUE
Recipient(c, i) == IF Asked(c)[i].to = {} THEN args[c].user ELSE OnlyOne(Asked(c)[i].to)
OutputsFor(c, u) == {i \in DOMAIN Asked(c) : Recipient(c, i) = u}
Arrived(j, u) == {i \in OutputsFor(events[j].cmd, u) : Emitted(j, i)}

\* The notes that the first k events sent to u, and what they have spent.
Delivered(u, k) ==
    {Genesis_note(i) : i \in {g \in DOMAIN Genesis : Genesis[g].owner = u}} \cup
    UNION {{Request(events[j].cmd).outs[i] : i \in Arrived(j, u)} : j \in 1..k}
Nullified(k) == UNION {Range(events[j].nfs) : j \in 1..k}
NullifierOf(u, n) == <<"1110", u, n.rho>>
KeptNotes(u, notes, ev) ==
    {n \in notes \cup Received(u, ev) : NullifierOf(u, n) \notin Range(ev.nfs)}

(* A request spends notes that its user had been sent when it was made, and *)
(* dummy notes; its outputs carry its own number.                           *)
OutputOk(c, i) ==
    /\ Request(c).outs[i].trap_r = <<c, i>>
    /\ Request(c).outs[i].rho = <<"0", i, "10", c, Request(c).hsig>>
    /\ Request(c).outs[i].apk =
         <<"1100", IF i \in DOMAIN Asked(c) THEN Recipient(c, i) ELSE args[c].user>>
    /\ Request(c).outs[i] = [apk |-> Request(c).outs[i].apk, value |-> Request(c).outs[i].value,
                             rho |-> Request(c).outs[i].rho, trap_r |-> Request(c).outs[i].trap_r]
    /\ Request(c).k_pks[i] =
         [public |-> IF i \in DOMAIN Asked(c) THEN <<Recipient(c, i), 0>> ELSE <<c, 9>>]
InputOk(c, i) ==
    /\ Request(c).nfs[i] = NullifierOf(args[c].user, Request(c).ins[i])
    /\ IF i \in DOMAIN args[c].ins
       THEN /\ Request(c).ins[i] \in Delivered(args[c].user, Request(c).root)
            /\ Request(c).ins[i].trap_r = args[c].ins[i]
       ELSE /\ \E x \in 1..2 : Request(c).ins[i].rho = <<"dummy", c, x>>
            /\ Request(c).ins[i].value = 0
MadeBy(c) ==
    /\ Fits(c) /\ Request(c).root \in 0..Len(events)
    /\ \A i \in 1..2 : OutputOk(c, i) /\ InputOk(c, i)
MadeInv == \A c \in Commands : request[c] # {} => MadeBy(c)

\* What is sent with the proof, and what is emitted, are the notes of the request.
ChainInv ==
    /\ \A c \in Commands : \A t \in sent[c] : t.ciphertexts = encrypt_notes(c)
    /\ \A j \in DOMAIN events :
         /\ Request(events[j].cmd).root < j
         /\ \A i \in 1..2 : events[j].outs[i].ciphertext = encrypt_notes(events[j].cmd)[i]

\* A wallet has what was sent to its user and was not spent, up to where it is.
WalletsInv ==
    /\ wallets = [u \in Users |-> [synced |-> wallets[u].synced, notes |-> wallets[u].notes]]
    /\ \A u \in Users :
         /\ wallets[u].synced \in 0..Len(events)
         /\ wallets[u].notes = {n \in Delivered(u, wallets[u].synced) :
                                  NullifierOf(u, n) \notin Nullified(wallets[u].synced)}

NoteInv == ArgsInv /\ OnceInv /\ MadeInv /\ ChainInv /\ WalletsInv

\* The arguments of a command, and whom its outputs are for.
LEMMA ArgsType ==
  ASSUME ArgsInv, NEW c \in Commands
  PROVE  /\ args[c].user \in Users
         /\ args[c].ins \in Seq(Nat \X Nat)
         /\ Asked(c) \in Seq([to : {{}} \cup {{u} : u \in Users}, value : Nat])
         /\ Fits(c) => Len(Asked(c)) <= 2
<1> DEFINE Out == [to : {{}} \cup {{u} : u \in Users}, value : Nat]
<1>1. /\ args[c].user \in Users /\ args[c].ins \in Seq(Nat \X Nat)
      /\ args[c].outs \in Seq(Out) /\ args[c].vin \in Nat
  BY ScenarioAssumption, Zenon DEF ArgsInv
<1>2. [to |-> {args[c].user}, value |-> args[c].vin] \in Out
  BY <1>1, Zenon
<1> HIDE DEF Out
<1>3. <<[to |-> {args[c].user}, value |-> args[c].vin]>> \in Seq(Out)
  BY <1>2
<1>4. Asked(c) \in Seq(Out) /\ (Fits(c) => Len(Asked(c)) <= 2)
  BY <1>1, <1>3 DEF Asked, Fits
<1> QED BY <1>1, <1>4, Zenon DEF Out

\* The recipient of an output is one user.
LEMMA RecipientType ==
  ASSUME ArgsInv, NEW c \in Commands, NEW i \in DOMAIN Asked(c)
  PROVE  /\ Recipient(c, i) \in Users
         /\ \A u \in Users : Recipient(c, i) = u <=>
              u \in Asked(c)[i].to \/ (Asked(c)[i].to = {} /\ args[c].user = u)
<1> DEFINE Out == [to : {{}} \cup {{u} : u \in Users}, value : Nat]
<1>0. Asked(c) \in Seq(Out) /\ args[c].user \in Users
  BY ArgsType, Zenon
<1>1. Asked(c)[i] \in Out
  <2> HIDE DEF Out
  <2> QED BY <1>0
<1>2. Asked(c)[i].to = {} \/ \E u \in Users : Asked(c)[i].to = {u}
  BY <1>1, Zenon
<1> QED BY <1>0, <1>2, Zenon DEF Recipient, OnlyOne

\* Membership in the notes delivered.
LEMMA DeliveredIs ==
  ASSUME NEW u, NEW k, NEW n
  PROVE  n \in Delivered(u, k) <=>
           \/ \E g \in DOMAIN Genesis : Genesis[g].owner = u /\ n = Genesis_note(g)
           \/ \E j \in 1..k : \E i \in Arrived(j, u) : n = Request(events[j].cmd).outs[i]
  BY DEF Delivered

\* Membership in what is spent.
LEMMA NullifiedIs ==
  ASSUME MinedInv, NEW k \in 0..Len(events), NEW x
  PROVE  x \in Nullified(k) <=> \E j \in 1..k : \E i \in 1..2 : x = Request(events[j].cmd).nfs[i]
<1>1. PICK S : events \in Seq(S)
  BY Zenon DEF MinedInv, EventsInv
<1>2. ASSUME NEW j \in 1..k
      PROVE  x \in Range(events[j].nfs) <=> \E i \in 1..2 : x = Request(events[j].cmd).nfs[i]
  <2>1. j \in DOMAIN events
    BY <1>1
  <2> DEFINE r == Request(events[j].cmd)
  <2>2. events[j].nfs = r.nfs /\ r.nfs = <<r.nfs[1], r.nfs[2]>>
    BY <2>1, Zenon DEF MinedInv, MinedAsAsked, EventsInv, RequestInv
  <2> DEFINE a == r.nfs[1]
             b == r.nfs[2]
  <2>3. events[j].nfs = <<a, b>>
    BY <2>2, Zenon
  <2> HIDE DEF r
  <2>4. Range(<<a, b>>) = {a, b}
    <3> HIDE DEF a, b
    <3> QED BY DEF Range
  <2>5. \A y : (\E i \in 1..2 : y = r.nfs[i]) <=> y = a \/ y = b
    BY Z3
  <2> QED BY <2>3, <2>4, <2>5, Zenon DEF r
<1> QED BY <1>2, Zenon DEF Nullified

\* A later event of the chain only adds notes.
LEMMA DeliveredGrows ==
  ASSUME NEW u, NEW k \in Nat, NEW m \in Nat, k <= m
  PROVE  Delivered(u, k) \subseteq Delivered(u, m)
<1>1. \A j \in 1..k : j \in 1..m
  OBVIOUS
<1> QED BY <1>1, DeliveredIs

(* What was delivered and spent does not change when requests are not made  *)
(* again and events are only appended.                                      *)
LEMMA DeliveredStays ==
  ASSUME MinedInv, NEW u, NEW k \in 0..Len(events), args' = args,
         \A c \in Commands : request[c] # {} => request'[c] = request[c],
         \A j \in DOMAIN events : events'[j] = events[j]
  PROVE  Delivered(u, k)' = Delivered(u, k) /\ Nullified(k)' = Nullified(k)
<1>1. PICK S : events \in Seq(S)
  BY Zenon DEF MinedInv, EventsInv
<1>2. ASSUME NEW j \in 1..k
      PROVE  events'[j] = events[j] /\ Request(events[j].cmd)' = Request(events[j].cmd)
  <2>1. j \in DOMAIN events
    BY <1>1
  <2>2. events[j].cmd \in Commands /\ request[events[j].cmd] # {}
    BY <2>1, Zenon DEF MinedInv, EventsInv
  <2> QED BY <2>1, <2>2 DEF Request
<1>3. \A c : OutputsFor(c, u)' = OutputsFor(c, u)
  <2>1. \A c : Asked(c)' = Asked(c)
    BY Zenon DEF Asked
  <2> QED BY <2>1, Zenon DEF OutputsFor, Recipient
<1>4. ASSUME NEW j \in 1..k
      PROVE {Request(events[j].cmd).outs[i] : i \in Arrived(j, u)}' =
            {Request(events[j].cmd).outs[i] : i \in Arrived(j, u)}
  <2>1. events'[j] = events[j] /\ Request(events[j].cmd)' = Request(events[j].cmd)
    BY <1>2, Zenon
  <2>2. Arrived(j, u)' = Arrived(j, u)
    BY <1>3, <2>1, Zenon DEF Arrived, Emitted
  <2> QED BY <2>1, <2>2, Zenon
<1>5. Delivered(u, k)' = Delivered(u, k)
  <2> DEFINE T(j) == {Request(events[j].cmd).outs[i] : i \in Arrived(j, u)}
             G == {Genesis_note(i) : i \in {g \in DOMAIN Genesis : Genesis[g].owner = u}}
  <2>1. \A j \in 1..k : T(j)' = T(j)
    BY <1>4, Zenon
  <2>2. Delivered(u, k) = G \cup UNION {T(j) : j \in 1..k}
    BY Zenon DEF Delivered
  <2>3. Delivered(u, k)' = G' \cup UNION {T(j)' : j \in 1..k}
    BY Zenon DEF Delivered
  <2>4. G' = G
    BY Zenon DEF Genesis_note
  <2> HIDE DEF T, G
  <2> QED BY <2>1, <2>2, <2>3, <2>4, Zenon
<1>6. Nullified(k)' = Nullified(k)
  BY <1>2, Zenon DEF Nullified
<1> QED BY <1>5, <1>6, Zenon

\* Where a note that was delivered comes from.
FromGenesis(n, u) ==
    \E g \in DOMAIN Genesis :
        /\ Genesis[g].owner = u /\ n = Genesis_note(g)
        /\ n.trap_r = <<0, g>> /\ n.rho = <<"genesis", g>>
FromCommand(n, u, k) ==
    \E c \in Commands, i \in 1..2 :
        /\ \E j \in 1..k : j \in DOMAIN events /\ events[j].cmd = c /\ Emitted(j, i)
        /\ i \in OutputsFor(c, u) /\ n = Request(c).outs[i]
        /\ n.trap_r = <<c, i>> /\ n.rho = <<"0", i, "10", c, Request(c).hsig>>

\* The rhos and trapdoors of notes of different origin differ.
LEMMA Tuples ==
  /\ \A a, b, c, d : <<a, b>> = <<c, d>> => a = c /\ b = d
  /\ \A i, c, g, j, d, h : <<"0", i, "10", c, g>> = <<"0", j, "10", d, h>> => i = j /\ c = d
  /\ \A x, i, c, g : <<"genesis", x>> # <<"0", i, "10", c, g>>
  /\ \A c, x, g : <<"dummy", c, x>> # <<"genesis", g>>
  /\ \A c, x, i, d, g : <<"dummy", c, x>> # <<"0", i, "10", d, g>>
  BY Zenon

\* Every note that was delivered comes from one of them.
LEMMA Origin ==
  ASSUME MinedInv, ArgsInv, MadeInv, NEW u, NEW k \in 0..Len(events), NEW n \in Delivered(u, k)
  PROVE  FromGenesis(n, u) \/ FromCommand(n, u, k)
<1>1. PICK S : events \in Seq(S)
  BY Zenon DEF MinedInv, EventsInv
<1>2. ASSUME NEW g \in DOMAIN Genesis, n = Genesis_note(g)
      PROVE  n.trap_r = <<0, g>> /\ n.rho = <<"genesis", g>>
  BY <1>2, Zenon DEF Genesis_note
<1>3. ASSUME NEW j \in 1..k, NEW i \in Arrived(j, u), n = Request(events[j].cmd).outs[i]
      PROVE  /\ j \in DOMAIN events /\ events[j].cmd \in Commands /\ i \in 1..2
             /\ n.trap_r = <<events[j].cmd, i>>
             /\ n.rho = <<"0", i, "10", events[j].cmd, Request(events[j].cmd).hsig>>
  <2> DEFINE c == events[j].cmd
  <2>1. j \in DOMAIN events
    BY <1>1
  <2>2. c \in Commands /\ request[c] # {}
    BY <2>1, Zenon DEF MinedInv, EventsInv
  <2>3. Fits(c) /\ \A x \in 1..2 : OutputOk(c, x)
    BY <2>2, Zenon DEF MadeInv, MadeBy
  <2>4. i \in 1..2
    <3>1. i \in DOMAIN Asked(c)
      BY Zenon DEF OutputsFor, Arrived
    <3> DEFINE Out == [to : {{}} \cup {{v} : v \in Users}, value : Nat]
    <3>2. Asked(c) \in Seq(Out) /\ Len(Asked(c)) <= 2
      BY <2>2, <2>3, ArgsType, Zenon
    <3> HIDE DEF Out, c
    <3> QED BY <3>1, <3>2
  <2> QED BY <1>3, <2>1, <2>2, <2>3, <2>4, Zenon DEF OutputOk
<1>4. CASE \E g \in DOMAIN Genesis : Genesis[g].owner = u /\ n = Genesis_note(g)
  BY <1>2, <1>4, Zenon DEF FromGenesis
<1>5. CASE \E j \in 1..k : \E i \in Arrived(j, u) : n = Request(events[j].cmd).outs[i]
  <2>0. PICK j \in 1..k : \E i \in Arrived(j, u) : n = Request(events[j].cmd).outs[i]
    BY <1>5, Zenon
  <2>1. PICK i \in Arrived(j, u) : n = Request(events[j].cmd).outs[i]
    BY <2>0, Zenon
  <2>2. /\ j \in DOMAIN events /\ events[j].cmd \in Commands /\ i \in 1..2
        /\ n.trap_r = <<events[j].cmd, i>>
        /\ n.rho = <<"0", i, "10", events[j].cmd, Request(events[j].cmd).hsig>>
    BY <1>3, <2>1, Zenon
  <2>3. i \in OutputsFor(events[j].cmd, u) /\ Emitted(j, i)
    BY <2>1, Zenon DEF Arrived
  <2> QED BY <2>1, <2>2, <2>3, Zenon DEF FromCommand
<1>6. \/ \E g \in DOMAIN Genesis : Genesis[g].owner = u /\ n = Genesis_note(g)
      \/ \E j \in 1..k : \E i \in Arrived(j, u) : n = Request(events[j].cmd).outs[i]
  BY DeliveredIs
<1> QED BY <1>4, <1>5, <1>6, Zenon

\* Notes with the same trap_r, or with the same rho, are the same note of the same user.
LEMMA NotesDiffer ==
  ASSUME MinedInv, ArgsInv, MadeInv,
         NEW u, NEW k \in 0..Len(events), NEW n \in Delivered(u, k),
         NEW v, NEW m \in 0..Len(events), NEW p \in Delivered(v, m),
         n.trap_r = p.trap_r \/ n.rho = p.rho
  PROVE  n = p /\ u = v
<1>1. (FromGenesis(n, u) \/ FromCommand(n, u, k)) /\ (FromGenesis(p, v) \/ FromCommand(p, v, m))
  <2>1. FromGenesis(n, u) \/ FromCommand(n, u, k)
    BY Origin, Zenon
  <2>2. FromGenesis(p, v) \/ FromCommand(p, v, m)
    BY Origin, Zenon
  <2> QED BY <2>1, <2>2, Zenon
<1>2. CASE FromGenesis(n, u) /\ FromGenesis(p, v)
  <2>1. PICK g \in DOMAIN Genesis : /\ Genesis[g].owner = u /\ n = Genesis_note(g)
                                    /\ n.trap_r = <<0, g>> /\ n.rho = <<"genesis", g>>
    BY <1>2, Zenon DEF FromGenesis
  <2>2. PICK h \in DOMAIN Genesis : /\ Genesis[h].owner = v /\ p = Genesis_note(h)
                                    /\ p.trap_r = <<0, h>> /\ p.rho = <<"genesis", h>>
    BY <1>2, Zenon DEF FromGenesis
  <2>3. g = h
    BY <2>1, <2>2, Tuples
  <2> QED BY <2>1, <2>2, <2>3, Zenon
<1>3. ASSUME NEW x, NEW w, NEW y, NEW z, NEW l, FromGenesis(x, w), FromCommand(y, z, l)
      PROVE  x.trap_r # y.trap_r /\ x.rho # y.rho
  <2>1. PICK g : x.trap_r = <<0, g>> /\ x.rho = <<"genesis", g>>
    BY <1>3, Zenon DEF FromGenesis
  <2>2. PICK c \in Commands, i \in 1..2 : y.trap_r = <<c, i>> /\ y.rho = <<"0", i, "10", c, Request(c).hsig>>
    BY <1>3, Zenon DEF FromCommand
  <2>3. c # 0
    BY MixCommandAssumption, Zenon
  <2> QED BY <2>1, <2>2, <2>3, Tuples
<1>4. CASE FromCommand(n, u, k) /\ FromCommand(p, v, m)
  <2>1. PICK c \in Commands, i \in 1..2 :
          /\ i \in OutputsFor(c, u) /\ n = Request(c).outs[i]
          /\ n.trap_r = <<c, i>> /\ n.rho = <<"0", i, "10", c, Request(c).hsig>>
    BY <1>4, Zenon DEF FromCommand
  <2>2. PICK d \in Commands, j \in 1..2 :
          /\ j \in OutputsFor(d, v) /\ p = Request(d).outs[j]
          /\ p.trap_r = <<d, j>> /\ p.rho = <<"0", j, "10", d, Request(d).hsig>>
    BY <1>4, Zenon DEF FromCommand
  <2>3. c = d /\ i = j
    BY <2>1, <2>2, Tuples
  <2> QED BY <2>1, <2>2, <2>3, Zenon DEF OutputsFor
<1> QED BY <1>1, <1>2, <1>3, <1>4, Zenon

(* A note is not spent before it is emitted: a request spends what had been *)
(* emitted when it was made.                                                *)
LEMMA EmittedUnspent ==
  ASSUME MinedInv, ArgsInv, OnceInv, MadeInv, ChainInv,
         NEW u, NEW j \in DOMAIN events, NEW i \in 1..2
  PROVE  NullifierOf(u, Request(events[j].cmd).outs[i]) \notin Nullified(j)
<1> DEFINE c == events[j].cmd
           nf == NullifierOf(u, Request(c).outs[i])
<1>1. PICK S : events \in Seq(S)
  BY Zenon DEF MinedInv, EventsInv
<1>2. j \in 0..Len(events)
  BY <1>1
<1>3. c \in Commands /\ Request(c).outs[i].rho = <<"0", i, "10", c, Request(c).hsig>>
  BY Zenon DEF MinedInv, EventsInv, MadeInv, MadeBy, OutputOk
<1>4. ASSUME NEW m \in 1..j, NEW x \in 1..2, nf = Request(events[m].cmd).nfs[x] PROVE FALSE
  <2> DEFINE d == events[m].cmd
             e == Request(d).ins[x]
  <2>1. m \in DOMAIN events
    BY <1>1
  <2>2. d \in Commands /\ InputOk(d, x) /\ Request(d).root < m /\ Request(d).root \in 0..Len(events)
    BY <2>1, Zenon DEF MinedInv, EventsInv, MadeInv, MadeBy, ChainInv
  <2>3. nf = NullifierOf(args[d].user, e)
    BY <1>4, <2>2, Zenon DEF InputOk
  <2>4. e.rho = <<"0", i, "10", c, Request(c).hsig>>
    BY <1>3, <2>3, Zenon DEF NullifierOf
  <2>5. CASE x \notin DOMAIN args[d].ins
    <3>1. PICK y \in 1..2 : e.rho = <<"dummy", d, y>>
      BY <2>2, <2>5, Zenon DEF InputOk
    <3>2. <<"dummy", d, y>> = <<"0", i, "10", c, Request(c).hsig>>
      BY <2>4, <3>1, Zenon
    <3> HIDE DEF c, d, e, nf
    <3> QED BY <3>2, Tuples, Zenon
  <2>6. CASE x \in DOMAIN args[d].ins
    <3>1. e \in Delivered(args[d].user, Request(d).root)
      BY <2>2, <2>6, Zenon DEF InputOk
    <3> DEFINE v == args[d].user
               r == Request(d).root
    <3> HIDE DEF d, e, c, v, r
    <3>2. FromGenesis(e, v) \/ FromCommand(e, v, r)
      <4>1. e \in Delivered(v, r) /\ r \in 0..Len(events)
        BY <2>2, <3>1, Zenon DEF v, r
      <4> QED BY <4>1, Origin, Zenon
    <3>3. ~FromGenesis(e, v)
      BY <2>4, Tuples DEF FromGenesis
    <3>4. PICK k \in 1..r : k \in DOMAIN events /\ events[k].cmd = c
      BY <2>4, <3>2, <3>3, Tuples DEF FromCommand
    <3>5. k = j
      BY <3>4, Zenon DEF OnceInv, c
    <3> QED BY <2>2, <3>4, <3>5, <1>1 DEF r
  <2> QED BY <2>5, <2>6, Zenon
<1> HIDE DEF nf
<1> QED BY <1>2, <1>4, NullifiedIs DEF nf

\* One more part at the end of a byte string.
LEMMA OnePart ==
  ASSUME NEW S, NEW s \in Seq(S), NEW x \in S, NEW t, t = s \o <<x>>
  PROVE  /\ t \in Seq(S) /\ Len(t) = Len(s) + 1 /\ t[Len(s) + 1] = x
         /\ \A i \in 1..Len(s) : t[i] = s[i]
<1>1. <<x>> \in Seq(S) /\ Len(<<x>>) = 1 /\ <<x>>[1] = x
  OBVIOUS
<1> DEFINE y == <<x>>
<1> HIDE DEF y
<1>2. t = s \o y /\ y \in Seq(S) /\ Len(y) = 1 /\ y[1] = x /\ Len(s) \in Nat
  BY <1>1 DEF y
<1>3. t \in Seq(S) /\ Len(t) = Len(s) + 1
  BY <1>2
<1>4. \A i \in 1..Len(s) : t[i] = s[i]
  BY <1>2
<1>5. t[Len(s) + 1] = x
  BY <1>2
<1> QED BY <1>3, <1>4, <1>5, Zenon

\* What a note is after its bytes.
LEMMA NoteBytes ==
  ASSUME NEW n, n = [apk |-> n.apk, value |-> n.value, rho |-> n.rho, trap_r |-> n.trap_r]
  PROVE  zeth_note_from_bytes(zeth_note_to_bytes(n)) = n
<1> DEFINE S == {n.apk, n.value, n.rho, n.trap_r}
           a == <<n.apk>>
           ab == a \o <<n.value>>
           abc == ab \o <<n.rho>>
           abcd == abc \o <<n.trap_r>>
<1>1. /\ a \in Seq(S) /\ Len(a) = 1 /\ a[1] = n.apk
      /\ n.value \in S /\ n.rho \in S /\ n.trap_r \in S
  OBVIOUS
<1>2. zeth_note_to_bytes(n) = abcd
  BY Zenon DEF zeth_note_to_bytes
<1> HIDE DEF S, a
<1>20. ab = a \o <<n.value>>
  BY Zenon
<1>21. abc = ab \o <<n.rho>>
  BY Zenon
<1>22. abcd = abc \o <<n.trap_r>>
  BY Zenon
<1> HIDE DEF ab, abc, abcd
<1>3. ab \in Seq(S) /\ Len(ab) = Len(a) + 1 /\ ab[Len(a) + 1] = n.value /\ \A i \in 1..Len(a) : ab[i] = a[i]
  <2>1. a \in Seq(S) /\ n.value \in S
    BY <1>1, Zenon
  <2> QED BY <1>20, <2>1, OnePart
<1>4. abc \in Seq(S) /\ Len(abc) = Len(ab) + 1 /\ abc[Len(ab) + 1] = n.rho /\ \A i \in 1..Len(ab) : abc[i] = ab[i]
  <2>1. ab \in Seq(S) /\ n.rho \in S
    BY <1>1, <1>3, Zenon
  <2> QED BY <1>21, <2>1, OnePart
<1>5. abcd[Len(abc) + 1] = n.trap_r /\ \A i \in 1..Len(abc) : abcd[i] = abc[i]
  <2>1. abc \in Seq(S) /\ n.trap_r \in S
    BY <1>1, <1>4, Zenon
  <2> QED BY <1>22, <2>1, OnePart
<1>6. Len(ab) = 2 /\ Len(abc) = 3
  BY <1>1, <1>3, <1>4
<1>7. ab[1] = n.apk /\ ab[2] = n.value
  BY <1>1, <1>3
<1>8. abc[1] = n.apk /\ abc[2] = n.value /\ abc[3] = n.rho
  BY <1>4, <1>6, <1>7
<1>9. abcd[1] = n.apk /\ abcd[2] = n.value /\ abcd[3] = n.rho /\ abcd[4] = n.trap_r
  BY <1>5, <1>6, <1>8
<1> QED BY <1>2, <1>9, Zenon DEF zeth_note_from_bytes

(* A message is decrypted by the key it is encrypted to: the shared secret  *)
(* of the sender and the receiver names both.                               *)
LEMMA DecryptIs ==
  ASSUME NEW m, NEW pk, NEW eph, NEW sk, sk # eph
  PROVE  decrypt(encrypt(m, [public |-> pk], eph), sk) = IF sk = pk THEN {m} ELSE {}
<1> DEFINE E == encrypt(m, [public |-> pk], eph)
           ct == [under |-> <<"sym", [public |-> eph], {eph, pk}>>, text |-> m]
<1>1. E = [eph_pk |-> [public |-> eph], ct |-> ct,
           tag |-> [under |-> <<"mac", [public |-> eph], {eph, pk}>>, of |-> ct]]
  BY Zenon DEF encrypt, kdf, exchange, get_encryption_public_key
<1>2. decrypt(E, sk) =
        IF E.tag # [under |-> <<"mac", E.eph_pk, {sk, E.eph_pk.public}>>, of |-> E.ct] THEN {}
        ELSE {E.ct.text}
  BY Zenon DEF decrypt, kdf, exchange
<1> HIDE DEF E
<1>3. /\ E.eph_pk = [public |-> eph] /\ E.ct = ct /\ E.ct.text = m
      /\ E.tag = [under |-> <<"mac", [public |-> eph], {eph, pk}>>, of |-> ct]
  BY <1>1, Zenon
<1>4. {eph, pk} = {sk, eph} <=> sk = pk
  BY Zenon
<1> HIDE DEF ct
<1>5. E.tag = [under |-> <<"mac", E.eph_pk, {sk, E.eph_pk.public}>>, of |-> E.ct] <=> sk = pk
  <2>1. [under |-> <<"mac", E.eph_pk, {sk, E.eph_pk.public}>>, of |-> E.ct]
          = [under |-> <<"mac", [public |-> eph], {sk, eph}>>, of |-> ct]
    BY <1>3
  <2> DEFINE a == {eph, pk}
             b == {sk, eph}
  <2>2. a = b <=> sk = pk
    BY <1>4, Zenon
  <2> HIDE DEF a, b
  <2>3. [under |-> <<"mac", [public |-> eph], a>>, of |-> ct]
          = [under |-> <<"mac", [public |-> eph], b>>, of |-> ct] <=> a = b
    BY Zenon
  <2> QED BY <1>3, <2>1, <2>2, <2>3, Zenon DEF a, b
<1> QED BY <1>2, <1>3, <1>5, Zenon DEF E

(* The notes that a user receives from an event are those sent to that user *)
(* whose commitment was emitted.                                            *)
LEMMA ReceivedIs ==
  ASSUME MinedInv, ArgsInv, MadeInv, ChainInv, NEW u \in Users, NEW j \in DOMAIN events
  PROVE  Received(u, events[j])
           = {Request(events[j].cmd).outs[i] : i \in Arrived(j, u)}
<1> DEFINE c == events[j].cmd
           out(i) == Request(c).outs[i]
           key(i) == IF i \in DOMAIN Asked(c) THEN <<Recipient(c, i), 0>> ELSE <<c, 9>>
<1>1. c \in Commands /\ Fits(c) /\ request[c] # {}
  BY Zenon DEF MinedInv, EventsInv, MadeInv, MadeBy
<1>2. ASSUME NEW i \in 1..2
      PROVE  receive_note(events[j].outs[i], <<u, 0>>)
               = IF i \in Arrived(j, u) THEN {out(i)} ELSE {}
  <2>1. events[j].outs[i].ciphertext = encrypt(zeth_note_to_bytes(out(i)), [public |-> key(i)], <<c, i>>)
    <3>1. Request(c).k_pks[i] = [public |-> key(i)]
      BY <1>1, Zenon DEF MadeInv, MadeBy, OutputOk
    <3>2. events[j].outs[i].ciphertext = encrypt_notes(c)[i]
      BY Zenon DEF ChainInv
    <3> HIDE DEF key, c
    <3> QED BY <3>1, <3>2, Zenon DEF encrypt_notes, JS_OUTPUTS
  <2>2. i \in Arrived(j, u) <=>
          i \in OutputsFor(c, u) /\ events[j].outs[i].commitment = compute_commitment(out(i))
    BY Zenon DEF Arrived, Emitted
  <2>3. out(i) = [apk |-> out(i).apk, value |-> out(i).value, rho |-> out(i).rho, trap_r |-> out(i).trap_r]
    BY <1>1, Zenon DEF MadeInv, MadeBy, OutputOk
  <2>4. zeth_note_from_bytes(zeth_note_to_bytes(out(i))) = out(i)
    <3> DEFINE n == out(i)
    <3>1. n = [apk |-> n.apk, value |-> n.value, rho |-> n.rho, trap_r |-> n.trap_r]
      BY <2>3, Zenon
    <3> HIDE DEF n
    <3>2. zeth_note_from_bytes(zeth_note_to_bytes(n)) = n
      BY <3>1, NoteBytes, Zenon
    <3> QED BY <3>2, Zenon DEF n
  <2>5. <<u, 0>> # <<c, i>>
    OBVIOUS
  <2>6. <<u, 0>> = key(i) <=> i \in OutputsFor(c, u)
    <3>1. <<u, 0>> # <<c, 9>>
      OBVIOUS
    <3> QED BY <3>1, Zenon DEF OutputsFor
  <2> DEFINE b == zeth_note_to_bytes(out(i))
             E == events[j].outs[i].ciphertext
  <2>7. decrypt(E, <<u, 0>>) = IF i \in OutputsFor(c, u) THEN {b} ELSE {}
    <3> HIDE DEF key, out, c, b
    <3>1. decrypt(encrypt(b, [public |-> key(i)], <<c, i>>), <<u, 0>>) = IF <<u, 0>> = key(i) THEN {b} ELSE {}
      BY <2>5, DecryptIs, Zenon
    <3> QED BY <2>1, <2>6, <3>1, Zenon DEF b
  <2> HIDE DEF out, c, E
  <2> QED BY <2>2, <2>4, <2>7, Zenon DEF receive_note, E
<1>3. Address(u).addr_sk.k_sk = <<u, 0>>
  BY Zenon DEF Address, generate_zeth_address
<1>4. Arrived(j, u) \subseteq 1..2
  <2> DEFINE Out == [to : {{}} \cup {{v} : v \in Users}, value : Nat]
  <2>1. Asked(c) \in Seq(Out) /\ Len(Asked(c)) <= 2
    BY <1>1, ArgsType, Zenon
  <2>2. Arrived(j, u) \subseteq OutputsFor(c, u)
    BY Zenon DEF Arrived
  <2> HIDE DEF Out, c
  <2> QED BY <2>1, <2>2 DEF OutputsFor
<1>5. Received(u, events[j]) = UNION {receive_note(events[j].outs[i], <<u, 0>>) : i \in 1..2}
  BY <1>3, Zenon DEF Received, JS_OUTPUTS
<1> HIDE DEF out, c
<1>6. Received(u, events[j]) = {out(i) : i \in Arrived(j, u)}
  BY <1>2, <1>4, <1>5
<1> QED BY <1>6, Zenon DEF out, c

\* One more event: what it sends, and what it spends.
LEMMA OneEvent ==
  ASSUME MinedInv, NEW u, NEW j \in DOMAIN events
  PROVE  /\ Delivered(u, j) = Delivered(u, j - 1) \cup
              {Request(events[j].cmd).outs[i] : i \in Arrived(j, u)}
         /\ Nullified(j) = Nullified(j - 1) \cup Range(events[j].nfs)
<1>1. PICK S : events \in Seq(S)
  BY Zenon DEF MinedInv, EventsInv
<1>2. j \in Nat /\ j >= 1
  BY <1>1
<1> DEFINE R(x, n) == \E i \in Arrived(x, u) : n = Request(events[x].cmd).outs[i]
           T == {Request(events[j].cmd).outs[i] : i \in Arrived(j, u)}
           G(n) == \E g \in DOMAIN Genesis : Genesis[g].owner = u /\ n = Genesis_note(g)
           F(x, n) == n \in Range(events[x].nfs)
<1>3. ASSUME NEW k, NEW n PROVE n \in Delivered(u, k) <=> G(n) \/ \E x \in 1..k : R(x, n)
  BY DEF Delivered
<1>4. \A k, n : n \in Nullified(k) <=> \E x \in 1..k : F(x, n)
  BY Zenon DEF Nullified
<1>5. \A n : n \in T <=> R(j, n)
  BY Zenon
<1> HIDE DEF R, G, F, T
<1>6. /\ \A n : (\E x \in 1..j : R(x, n)) <=> (\E x \in 1..(j - 1) : R(x, n)) \/ R(j, n)
      /\ \A n : (\E x \in 1..j : F(x, n)) <=> (\E x \in 1..(j - 1) : F(x, n)) \/ F(j, n)
  <2>1. \A x : x \in 1..j <=> x \in 1..(j - 1) \/ x = j
    BY <1>2
  <2> QED BY <2>1, Zenon
<1>7. Delivered(u, j) = Delivered(u, j - 1) \cup T
  BY <1>3, <1>5, <1>6, Zenon
<1>8. \A n : n \in Nullified(j) <=> n \in Nullified(j - 1) \cup Range(events[j].nfs)
  BY <1>4, <1>6, Zenon DEF F
<1> QED BY <1>7, <1>8, Zenon DEF T

----------------------------------------------------------------------------
(* The invariant: requests are made once, events are appended.              *)

\* Requests that have been made stay, and events are only appended.
Onward ==
    /\ args' = args
    /\ \A c \in Commands : request[c] # {} => request'[c] = request[c]
    /\ \A j \in DOMAIN events : events'[j] = events[j]
    /\ Len(events) \in Nat /\ Len(events') \in Nat /\ Len(events) <= Len(events')

\* What the arguments say does not change.
LEMMA SameArgs ==
  ASSUME args' = args
  PROVE  /\ ArgsInv' = ArgsInv
         /\ \A c : Asked(c)' = Asked(c) /\ Fits(c)' = Fits(c)
         /\ \A c, i : Recipient(c, i)' = Recipient(c, i)
<1>1. \A c : Asked(c)' = Asked(c) /\ Fits(c)' = Fits(c)
  BY Zenon DEF Asked, Fits
<1>2. \A c, i : Recipient(c, i)' = Recipient(c, i)
  BY <1>1, Zenon DEF Recipient
<1>3. ArgsInv' = ArgsInv
  BY Zenon DEF ArgsInv
<1> QED BY <1>1, <1>2, <1>3, Zenon

\* A request that was made is the same, and so is what is sent for it.
LEMMA SameMade ==
  ASSUME Onward, NEW c \in Commands, request[c] # {}
  PROVE  Request(c)' = Request(c) /\ encrypt_notes(c)' = encrypt_notes(c)
<1>1. Request(c)' = Request(c)
  BY Zenon DEF Onward, Request
<1> QED BY <1>1, Zenon DEF encrypt_notes

\* A request stays as it was made.
LEMMA MadeStays ==
  ASSUME MinedInv, Onward, NEW c \in Commands, request[c] # {}, MadeBy(c)
  PROVE  MadeBy(c)'
<1>1. Request(c)' = Request(c)
  BY SameMade, Zenon
<1>2. args' = args /\ Fits(c)' = Fits(c) /\ Asked(c)' = Asked(c) /\ \A i : Recipient(c, i)' = Recipient(c, i)
  BY SameArgs, Zenon DEF Onward
<1>3. ASSUME NEW i \in 1..2 PROVE OutputOk(c, i)'
  <2>1. OutputOk(c, i)
    BY Zenon DEF MadeBy
  <2> QED BY <1>1, <1>2, <2>1, Zenon DEF OutputOk
<1>4. Request(c).root \in 0..Len(events)
  BY Zenon DEF MadeBy
<1>5. Delivered(args[c].user, Request(c).root)' = Delivered(args[c].user, Request(c).root)
  <2>1. PICK u, k : u = args[c].user /\ k = Request(c).root
    BY Zenon
  <2>2. k \in 0..Len(events)
    BY <1>4, <2>1, Zenon
  <2>3. Delivered(u, k)' = Delivered(u, k)
    BY <2>2, DeliveredStays, Zenon DEF Onward
  <2> QED BY <1>1, <1>2, <2>1, <2>3, Zenon
<1>6. \A i \in 1..2 : InputOk(c, i)'
  BY <1>1, <1>2, <1>5, Zenon DEF MadeBy, InputOk, NullifierOf
<1>7. Request(c).root \in 0..Len(events')
  BY <1>4 DEF Onward
<1> QED BY <1>1, <1>2, <1>3, <1>6, <1>7, Zenon DEF MadeBy

\* The wallets are as right as before.
LEMMA WalletsStay ==
  ASSUME MinedInv, WalletsInv, Onward, wallets' = wallets
  PROVE  WalletsInv'
<1>1. ASSUME NEW u \in Users
      PROVE  /\ wallets[u].synced \in 0..Len(events')
             /\ wallets[u].notes = {n \in Delivered(u, wallets[u].synced)' :
                                      NullifierOf(u, n) \notin Nullified(wallets[u].synced)'}
  <2>1. PICK k : k = wallets[u].synced
    BY Zenon
  <2>2. k \in 0..Len(events) /\ wallets[u].notes = {n \in Delivered(u, k) : NullifierOf(u, n) \notin Nullified(k)}
    BY <2>1, Zenon DEF WalletsInv
  <2>3. Delivered(u, k)' = Delivered(u, k) /\ Nullified(k)' = Nullified(k)
    BY <2>2, DeliveredStays, Zenon DEF Onward
  <2>4. k \in 0..Len(events')
    BY <2>2 DEF Onward
  <2>5. wallets'[u].synced = k
    BY <2>1, Zenon
  <2> QED BY <2>1, <2>2, <2>3, <2>4, <2>5, Zenon
<1>2. ASSUME NEW u, NEW n PROVE NullifierOf(u, n)' = NullifierOf(u, n)
  BY Zenon DEF NullifierOf
<1> QED BY <1>1, <1>2, Zenon DEF WalletsInv

\* What is sent and emitted is still that of the requests.
LEMMA ChainStays ==
  ASSUME MinedInv, OnceInv, ChainInv, Onward, sent' = sent, events' = events
  PROVE  ChainInv'
<1>1. ASSUME NEW c \in Commands, NEW t \in sent[c] PROVE t.ciphertexts = encrypt_notes(c)'
  <2>1. request[c] # {}
    BY Zenon DEF OnceInv
  <2>2. encrypt_notes(c)' = encrypt_notes(c)
    BY <2>1, SameMade, Zenon
  <2> QED BY <2>2, Zenon DEF ChainInv
<1>2. ASSUME NEW j \in DOMAIN events
      PROVE  /\ Request(events[j].cmd)'.root < j
             /\ \A i \in 1..2 : events[j].outs[i].ciphertext = encrypt_notes(events[j].cmd)'[i]
  <2>1. PICK c : c = events[j].cmd
    BY Zenon
  <2>2. c \in Commands /\ request[c] # {}
    BY <2>1, Zenon DEF MinedInv, EventsInv
  <2>3. Request(c)' = Request(c) /\ encrypt_notes(c)' = encrypt_notes(c)
    BY <2>2, SameMade, Zenon
  <2>4. Request(c).root < j /\ \A i \in 1..2 : events[j].outs[i].ciphertext = encrypt_notes(c)[i]
    BY <2>1, Zenon DEF ChainInv
  <2>5. events'[j].cmd = c
    BY <2>1, Zenon
  <2> QED BY <2>1, <2>3, <2>4, <2>5, Zenon
<1> QED BY <1>1, <1>2, Zenon DEF ChainInv

\* All but the arguments' part when a command goes on and makes no request.
LEMMA NotesMoveOn ==
  ASSUME MinedInv, NoteInv, NEW c \in Commands, NEW w, Go(c, w),
         w \in Working => pc[c] \in Working, w \in Working \ {"start"} => Fits(c),
         UNCHANGED <<args, request, sent, status, events, wallets>>
  PROVE  NoteInv'
<1>1. Onward
  BY DEF Onward, MinedInv, EventsInv
<1>2. ArgsInv' /\ \A d : Fits(d)' = Fits(d)
  BY SameArgs, Zenon DEF NoteInv
<1>3. MadeInv'
  BY <1>1, MadeStays, Zenon DEF NoteInv, MadeInv
<1>4. ChainInv' /\ WalletsInv'
  BY <1>1, ChainStays, WalletsStay, Zenon DEF NoteInv
<1>5. \A d \in Commands : pc'[d] = IF d = c THEN w ELSE pc[d]
  BY Zenon DEF Go, MinedInv, Maps
<1>6. OnceInv'
  <2>1. ASSUME NEW d \in Commands
        PROVE  /\ pc'[d] \in Working => status[d] = "none" /\ sent[d] = {}
               /\ pc'[d] \in Working \ {"start"} => Fits(d)
               /\ sent[d] # {} => request[d] # {}
    BY <1>5, Zenon DEF NoteInv, OnceInv
  <2> QED BY <1>2, <2>1, Zenon DEF NoteInv, OnceInv
<1> QED BY <1>2, <1>3, <1>4, <1>6, Zenon DEF NoteInv

\* A sequence that is padded to two elements.
LEMMA Padded ==
  ASSUME NEW n \in 0..2, NEW S, NEW s \in [1..n -> S], NEW t \in [1..(2 - n) -> S], NEW p, p = s \o t
  PROVE  \A i \in 1..2 : p[i] = IF i \in 1..n THEN s[i] ELSE t[i - n]
<1>1. n \in Nat /\ 2 - n \in Nat
  OBVIOUS
<1>2. s \in Seq(S) /\ Len(s) = n /\ t \in Seq(S) /\ Len(t) = 2 - n
  BY <1>1
<1>3. \A i \in 1..Len(s) : p[i] = s[i]
  BY <1>2
<1>4. \A i \in 1..Len(t) : p[Len(s) + i] = t[i]
  BY <1>2
<1>5. ASSUME NEW i \in 1..2, i \notin 1..n PROVE p[i] = t[i - n]
  <2>1. i - n \in 1..Len(t) /\ Len(s) + (i - n) = i
    BY <1>1, <1>2, <1>5
  <2> QED BY <1>4, <2>1, Zenon
<1> QED BY <1>2, <1>3, <1>5, Zenon

\* A map on the indices of a sequence is a sequence of the same length.
LEMMA MapLength ==
  ASSUME NEW S, NEW s \in Seq(S), NEW f, f = [i \in DOMAIN s |-> f[i]]
  PROVE  DOMAIN f = 1..Len(s) /\ Len(f) = Len(s) /\ Len(s) \in Nat
<1>1. f = [i \in 1..Len(s) |-> f[i]] /\ Len(s) \in Nat
  OBVIOUS
<1> DEFINE T == {f[i] : i \in 1..Len(s)}
<1>2. f \in [1..Len(s) -> T]
  BY <1>1, Zenon
<1> HIDE DEF T
<1> QED BY <1>1, <1>2

\* The inputs of the prover are the notes found in the wallet, and dummy notes.
LEMMA InputsPadded ==
  ASSUME ArgsInv, NEW c \in Commands, Fits(c), NEW i \in 1..2
  PROVE  PadInputs(c)[i] =
           IF i \in DOMAIN args[c].ins THEN CHOOSE n \in find_note(c, args[c].ins[i]) : TRUE
           ELSE get_dummy_input(c, i - Len(args[c].ins))
<1> DEFINE n == Len(args[c].ins)
           note(k) == CHOOSE x \in find_note(c, args[c].ins[k]) : TRUE
           f == Inputs(c)
           t == [k \in 1..(2 - n) |-> get_dummy_input(c, k)]
           S == {note(k) : k \in 1..n} \cup {get_dummy_input(c, k) : k \in 1..2}
<1>1. args[c].ins \in Seq(Nat \X Nat)
  BY ArgsType, Zenon
<1>2. f = [k \in DOMAIN args[c].ins |-> note(k)]
  BY Zenon DEF Inputs
<1> HIDE DEF note, f
<1>3. n \in 0..2 /\ DOMAIN args[c].ins = 1..n /\ Len(f) = n
  <2>1. f = [k \in DOMAIN args[c].ins |-> f[k]]
    BY <1>2, Zenon
  <2>2. Len(f) = n /\ n \in Nat
    BY <1>1, <2>1, MapLength, Zenon
  <2>3. n <= 2
    BY Zenon DEF Fits
  <2>4. DOMAIN args[c].ins = 1..n
    BY <1>1
  <2> HIDE DEF n
  <2>5. n \in 0..2
    BY <2>2, <2>3
  <2> QED BY <2>2, <2>4, <2>5, Zenon
<1>4. PadInputs(c) = f \o t
  BY <1>3, Zenon DEF PadInputs, JS_INPUTS, f
<1> HIDE DEF n
<1>5. f \in [1..n -> S] /\ t \in [1..(2 - n) -> S]
  <2>1. \A k \in 1..(2 - n) : k \in 1..2
    BY <1>3
  <2>2. f = [k \in 1..n |-> note(k)]
    BY <1>2, <1>3, Zenon
  <2>3. \A k \in 1..n : note(k) \in S
    BY Zenon
  <2>4. \A k \in 1..(2 - n) : get_dummy_input(c, k) \in S
    BY <2>1, Zenon
  <2> HIDE DEF S
  <2> QED BY <2>2, <2>3, <2>4, Zenon
<1> HIDE DEF S, t
<1>6. PadInputs(c)[i] = IF i \in 1..n THEN f[i] ELSE t[i - n]
  BY <1>3, <1>4, <1>5, Padded
<1>7. i \notin 1..n => t[i - n] = get_dummy_input(c, i - n)
  BY <1>3 DEF t
<1> QED BY <1>2, <1>3, <1>6, <1>7, Zenon DEF n, note

\* What an address says, as a text and back.
LEMMA AddressIs ==
  ASSUME NEW u
  PROVE  /\ Address(u).addr_pk = [a_pk |-> <<"1100", u>>, k_pk |-> [public |-> <<u, 0>>]]
         /\ Address(u).addr_sk.a_sk = [first252 |-> u]
         /\ public_address_parse(public_address_as_text(Address(u).addr_pk)) = Address(u).addr_pk
         /\ load_zeth_address(Address(u).addr_sk, public_address_as_text(Address(u).addr_pk)).addr_sk.a_sk
              = [first252 |-> u]
<1>1. /\ Address(u).addr_pk = [a_pk |-> <<"1100", u>>, k_pk |-> [public |-> <<u, 0>>]]
      /\ Address(u).addr_sk.a_sk = [first252 |-> u]
  BY Zenon DEF Address, generate_zeth_address, derive_a_pk, get_encryption_public_key
<1>2. public_address_parse(public_address_as_text(Address(u).addr_pk)) = Address(u).addr_pk
  BY <1>1, Zenon DEF public_address_parse, public_address_as_text
<1>3. load_zeth_address(Address(u).addr_sk, public_address_as_text(Address(u).addr_pk)).addr_sk
        = Address(u).addr_sk
  BY Zenon DEF load_zeth_address
<1> QED BY <1>1, <1>2, <1>3, Zenon

\* The outputs of the prover go to the recipients, or to a key nobody keeps.
LEMMA OutputsPadded ==
  ASSUME ArgsInv, NEW c \in Commands, Fits(c), NEW i \in 1..2
  PROVE  /\ PadOutputs(c)[i].address.a_pk =
              <<"1100", IF i \in DOMAIN Asked(c) THEN Recipient(c, i) ELSE args[c].user>>
         /\ PadOutputs(c)[i].address.k_pk =
              [public |-> IF i \in DOMAIN Asked(c) THEN <<Recipient(c, i), 0>> ELSE <<c, 9>>]
<1> DEFINE Out == [to : {{}} \cup {{u} : u \in Users}, value : Nat]
           n == Len(Asked(c))
           f == Outputs(c)
           dummy == [address |-> [a_pk |-> Address(args[c].user).addr_pk.a_pk,
                                  k_pk |-> get_encryption_public_key(<<c, 9>>)], value |-> 0]
           t == [k \in 1..(2 - n) |-> dummy]
           S == {f[k] : k \in 1..n} \cup {dummy}
<1>1. Asked(c) \in Seq(Out) /\ n <= 2
  BY ArgsType, Zenon
<1> HIDE DEF Out
<1>2. f = [k \in DOMAIN Asked(c) |-> parse_output(c, Asked(c)[k])]
  BY Zenon DEF Outputs
<1> HIDE DEF f
<1>3. n \in 0..2 /\ DOMAIN Asked(c) = 1..n /\ Len(f) = n
  <2>1. f = [k \in DOMAIN Asked(c) |-> f[k]]
    BY <1>2, Zenon
  <2>2. Len(f) = n /\ n \in Nat
    BY <1>1, <2>1, MapLength, Zenon
  <2>3. DOMAIN Asked(c) = 1..n
    BY <1>1
  <2> HIDE DEF n
  <2>4. n \in 0..2
    BY <1>1, <2>2
  <2> QED BY <2>2, <2>3, <2>4, Zenon
<1>4. PadOutputs(c) = f \o t
  BY <1>3, Zenon DEF PadOutputs, JS_OUTPUTS, f
<1> HIDE DEF n
<1>5. f \in [1..n -> S] /\ t \in [1..(2 - n) -> S]
  <2>1. f = [k \in 1..n |-> f[k]]
    BY <1>2, <1>3, Zenon
  <2>2. \A k \in 1..n : f[k] \in S
    BY Zenon
  <2>3. dummy \in S
    BY Zenon
  <2> HIDE DEF S, dummy
  <2> QED BY <2>1, <2>2, <2>3, Zenon
<1> HIDE DEF S, t, dummy
<1>6. PadOutputs(c)[i] = IF i \in 1..n THEN f[i] ELSE t[i - n]
  BY <1>3, <1>4, <1>5, Padded
<1>7. CASE i \notin 1..n
  <2>1. PadOutputs(c)[i] = dummy
    BY <1>3, <1>6, <1>7 DEF t
  <2>2. /\ dummy.address.a_pk = Address(args[c].user).addr_pk.a_pk
        /\ dummy.address.k_pk = [public |-> <<c, 9>>]
    BY Zenon DEF dummy, get_encryption_public_key
  <2>3. Address(args[c].user).addr_pk.a_pk = <<"1100", args[c].user>>
    <3>1. PICK u : u = args[c].user
      BY Zenon
    <3>2. Address(u).addr_pk = [a_pk |-> <<"1100", u>>, k_pk |-> [public |-> <<u, 0>>]]
      BY AddressIs, Zenon
    <3>3. Address(u).addr_pk.a_pk = <<"1100", u>>
      BY <3>2
    <3> QED BY <3>1, <3>3, Zenon
  <2> QED BY <1>3, <1>7, <2>1, <2>2, <2>3, Zenon
<1>8. CASE i \in 1..n
  <2>1. PadOutputs(c)[i] = parse_output(c, Asked(c)[i])
    BY <1>2, <1>3, <1>6, <1>8, Zenon
  <2> DEFINE u == Recipient(c, i)
             v == IF Asked(c)[i].to = {} THEN args[c].user ELSE CHOOSE x \in Asked(c)[i].to : TRUE
  <2>2. u = v
    BY Zenon DEF Recipient, OnlyOne
  <2>3. parse_output(c, Asked(c)[i]).address
          = public_address_parse(public_address_as_text(Address(v).addr_pk))
    BY Zenon DEF parse_output
  <2> HIDE DEF u, v
  <2>4. parse_output(c, Asked(c)[i]).address = [a_pk |-> <<"1100", u>>, k_pk |-> [public |-> <<u, 0>>]]
    BY <2>2, <2>3, AddressIs, Zenon
  <2>5. PadOutputs(c)[i].address.a_pk = <<"1100", u>> /\ PadOutputs(c)[i].address.k_pk = [public |-> <<u, 0>>]
    <3>1. PadOutputs(c)[i].address = [a_pk |-> <<"1100", u>>, k_pk |-> [public |-> <<u, 0>>]]
      BY <2>1, <2>4, Zenon
    <3>2. \A a, k : [a_pk |-> a, k_pk |-> k].a_pk = a /\ [a_pk |-> a, k_pk |-> k].k_pk = k
      BY Zenon
    <3> QED BY <3>1, <3>2
  <2> QED BY <1>3, <1>8, <2>5, Zenon DEF u
<1> QED BY <1>7, <1>8, Zenon

\* The fields of the request that the prover gets.
LEMMA RequestFields ==
  ASSUME NEW c, NEW r, r = create_prover_inputs(c), NEW i \in 1..2
  PROVE  /\ r.root = wallets[args[c].user].synced
         /\ r.ins[i] = PadInputs(c)[i]
         /\ r.nfs[i] = NullifierOf(args[c].user, PadInputs(c)[i])
         /\ r.outs[i] = [apk |-> PadOutputs(c)[i].address.a_pk,
                         value |-> to_zeth_units(PadOutputs(c)[i].value),
                         rho |-> <<"0", i, "10", c, r.hsig>>, trap_r |-> <<c, i>>]
         /\ r.k_pks[i] = PadOutputs(c)[i].address.k_pk
<1> DEFINE a_sk == load_zeth_address(Address(args[c].user).addr_sk,
                     public_address_as_text(Address(args[c].user).addr_pk)).addr_sk.a_sk
           nfs == [k \in 1..2 |-> compute_nullifier(PadInputs(c)[k], a_sk)]
           hsig == compute_h_sig(nfs, c)
<1>1. /\ r.root = wallets[args[c].user].synced /\ r.ins = PadInputs(c) /\ r.nfs = nfs /\ r.hsig = hsig
      /\ r.outs = create_api_zeth_notes(c, hsig, PadOutputs(c))
      /\ r.k_pks = [k \in 1..2 |-> PadOutputs(c)[k].address.k_pk]
  <2> DEFINE root == wallets[args[c].user].synced
             ins == PadInputs(c)
             outs == create_api_zeth_notes(c, hsig, PadOutputs(c))
             k_pks == [k \in 1..2 |-> PadOutputs(c)[k].address.k_pk]
             vin == to_zeth_units(args[c].vin)
             vout == to_zeth_units(args[c].vout)
  <2>1. r = [root |-> root, ins |-> ins, nfs |-> nfs, hsig |-> hsig, outs |-> outs, k_pks |-> k_pks,
             vin |-> vin, vout |-> vout]
    BY Zenon DEF create_prover_inputs, JS_INPUTS, JS_OUTPUTS
  <2> HIDE DEF root, ins, nfs, hsig, outs, k_pks, vin, vout
  <2>2. r.root = root /\ r.ins = ins /\ r.nfs = nfs /\ r.hsig = hsig /\ r.outs = outs /\ r.k_pks = k_pks
    BY <2>1
  <2> QED BY <2>2, Zenon DEF root, ins, outs, k_pks
<1>2. a_sk = [first252 |-> args[c].user]
  BY AddressIs, Zenon
<1> HIDE DEF a_sk
<1>3. r.nfs[i] = NullifierOf(args[c].user, PadInputs(c)[i])
  BY <1>1, <1>2, Zenon DEF compute_nullifier, NullifierOf
<1> HIDE DEF hsig, nfs
<1>4. r.outs[i] = [apk |-> PadOutputs(c)[i].address.a_pk,
                   value |-> to_zeth_units(PadOutputs(c)[i].value),
                   rho |-> <<"0", i, "10", c, r.hsig>>, trap_r |-> <<c, i>>]
  BY <1>1, Zenon DEF create_api_zeth_notes, compute_rho_i, JS_OUTPUTS
<1> QED BY <1>1, <1>3, <1>4, Zenon

(* create_prover_inputs: the notes that are found were delivered, the rest  *)
(* are dummy notes, and the outputs are for the recipients.                 *)
LEMMA RequestMade ==
  ASSUME MinedInv, NoteInv, NEW c \in Commands, Fits(c), ~Missing(c), NEW r, r = create_prover_inputs(c),
         Onward, Request(c)' = r
  PROVE  MadeBy(c)'
<1>1. PICK u : u = args[c].user
  BY Zenon
<1>2. PICK k : k = wallets[u].synced
  BY Zenon
<1>3. u \in Users /\ ArgsInv
  BY <1>1, ArgsType, Zenon DEF NoteInv
<1>4. /\ k \in 0..Len(events)
      /\ wallets[u].notes = {n \in Delivered(u, k) : NullifierOf(u, n) \notin Nullified(k)}
  BY <1>2, <1>3, Zenon DEF NoteInv, WalletsInv
<1>5. Delivered(u, k)' = Delivered(u, k)
  BY <1>4, DeliveredStays, Zenon DEF Onward
<1>6. /\ args' = args /\ Fits(c)' = Fits(c) /\ Asked(c)' = Asked(c)
      /\ \A i : Recipient(c, i)' = Recipient(c, i)
  BY SameArgs, Zenon DEF Onward
<1>r. ASSUME NEW i \in 1..2
      PROVE  /\ r.root = wallets[args[c].user].synced
             /\ r.ins[i] = PadInputs(c)[i]
             /\ r.nfs[i] = NullifierOf(args[c].user, PadInputs(c)[i])
             /\ r.outs[i] = [apk |-> PadOutputs(c)[i].address.a_pk,
                             value |-> to_zeth_units(PadOutputs(c)[i].value),
                             rho |-> <<"0", i, "10", c, r.hsig>>, trap_r |-> <<c, i>>]
             /\ r.k_pks[i] = PadOutputs(c)[i].address.k_pk
  BY RequestFields, Zenon
<1>7. r.root = k
  <2>1. 1 \in 1..2
    OBVIOUS
  <2> QED BY <1>1, <1>2, <1>r, <2>1, Zenon
<1>8. ASSUME NEW i \in 1..2 PROVE OutputOk(c, i)'
  <2>1. /\ r.outs[i] = [apk |-> PadOutputs(c)[i].address.a_pk,
                        value |-> to_zeth_units(PadOutputs(c)[i].value),
                        rho |-> <<"0", i, "10", c, r.hsig>>, trap_r |-> <<c, i>>]
        /\ r.k_pks[i] = PadOutputs(c)[i].address.k_pk
    BY <1>r, Zenon
  <2>2. /\ PadOutputs(c)[i].address.a_pk =
             <<"1100", IF i \in DOMAIN Asked(c) THEN Recipient(c, i) ELSE args[c].user>>
        /\ PadOutputs(c)[i].address.k_pk =
             [public |-> IF i \in DOMAIN Asked(c) THEN <<Recipient(c, i), 0>> ELSE <<c, 9>>]
    BY <1>3, OutputsPadded, Zenon
  <2> DEFINE a == PadOutputs(c)[i].address.a_pk
             v == to_zeth_units(PadOutputs(c)[i].value)
             o == r.outs[i]
             h == <<"0", i, "10", c, r.hsig>>
             id == <<c, i>>
  <2>3. o = [apk |-> a, value |-> v, rho |-> h, trap_r |-> id]
    BY <2>1, Zenon
  <2> HIDE DEF a, v, o, h, id
  <2>4. o.apk = a /\ o.value = v /\ o.rho = h /\ o.trap_r = id
    BY <2>3, Zenon
  <2>5. o = [apk |-> o.apk, value |-> o.value, rho |-> o.rho, trap_r |-> o.trap_r]
    BY <2>3, <2>4, Zenon
  <2> QED BY <1>6, <2>1, <2>2, <2>4, <2>5, Zenon DEF OutputOk, a, o, h, id
<1>9. ASSUME NEW i \in 1..2 PROVE InputOk(c, i)'
  <2>1. r.ins[i] = PadInputs(c)[i] /\ r.nfs[i] = NullifierOf(u, PadInputs(c)[i])
    BY <1>1, <1>r, Zenon
  <2>2. r.nfs[i] = NullifierOf(args[c].user, r.ins[i])
    BY <1>1, <2>1, Zenon
  <2>3. PadInputs(c)[i] =
           IF i \in DOMAIN args[c].ins THEN CHOOSE n \in find_note(c, args[c].ins[i]) : TRUE
           ELSE get_dummy_input(c, i - Len(args[c].ins))
    BY <1>3, InputsPadded, Zenon
  <2>4. CASE i \in DOMAIN args[c].ins
    <3>1. find_note(c, args[c].ins[i]) # {}
      BY <2>4, Zenon DEF Missing
    <3>2. r.ins[i] \in find_note(c, args[c].ins[i])
      BY <2>1, <2>3, <2>4, <3>1, Zenon
    <3>3. r.ins[i] \in wallets[u].notes /\ r.ins[i].trap_r = args[c].ins[i]
      BY <1>1, <3>2, Zenon DEF find_note
    <3>4. r.ins[i] \in Delivered(u, k)
      BY <1>4, <3>3, Zenon
    <3>5. Delivered(args[c].user, Request(c).root)' = Delivered(u, k)
      BY <1>1, <1>5, <1>6, <1>7, Zenon
    <3> QED BY <1>6, <2>2, <2>4, <3>3, <3>4, <3>5, Zenon DEF InputOk, NullifierOf
  <2>5. CASE i \notin DOMAIN args[c].ins
    <3> DEFINE n == Len(args[c].ins)
    <3>1. n \in Nat /\ DOMAIN args[c].ins = 1..n
      <4>1. args[c].ins \in Seq(Nat \X Nat)
        BY <1>3, ArgsType, Zenon
      <4> QED BY <4>1, SeqDomain, Zenon
    <3>2. i - n \in 1..2
      <4> HIDE DEF n
      <4> QED BY <2>5, <3>1
    <3>3. r.ins[i] = get_dummy_input(c, i - n)
      BY <2>1, <2>3, <2>5, Zenon
    <3>4. r.ins[i].rho = <<"dummy", c, i - n>> /\ r.ins[i].value = 0
      <4> HIDE DEF n
      <4> QED BY <3>3 DEF get_dummy_input
    <3>5. \E x \in 1..2 : r.ins[i].rho = <<"dummy", c, x>>
      BY <3>2, <3>4, Zenon
    <3> QED BY <1>6, <2>2, <2>5, <3>4, <3>5, Zenon DEF InputOk, NullifierOf
  <2> QED BY <2>4, <2>5, Zenon
<1>10. k \in 0..Len(events')
  <2>1. Len(events) \in Nat /\ Len(events') \in Nat /\ Len(events) <= Len(events')
    BY Zenon DEF Onward
  <2> QED BY <1>4, <2>1
<1> QED BY <1>6, <1>7, <1>8, <1>9, <1>10, Zenon DEF MadeBy

=============================================================================
