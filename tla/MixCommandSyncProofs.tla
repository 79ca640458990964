------------------------ MODULE MixCommandSyncProofs ------------------------
(***************************************************************************)
(* Proof that a wallet has exactly the notes that were sent to its user,   *)
(* by events with the commitment of the note that was asked for, and not   *)
(* spent, for any number of commands, users and crashes.  A wallet's sync  *)
(* goes through the events one by one, so that what it leaves is found by  *)
(* induction on their number.                                              *)
(***************************************************************************)
EXTENDS MixCommandProofs, WellFoundedInduction

\* The request is made.
LEMMA NotesOpenWallet ==
  ASSUME MinedInv, NoteInv, NEW c \in Commands, OpenWallet(c)
  PROVE  NoteInv'
<1>0. pc[c] \in Working \ {"start"} /\ request[c] = {} /\ UNCHANGED <<args, sent, status, events, wallets>>
  BY Zenon DEF OpenWallet, commandVars, chainVars, Working, Preparing, MinedInv, RequestInv
<1>1. Fits(c) /\ sent[c] = {}
  BY <1>0, Zenon DEF NoteInv, OnceInv
<1>2. CASE Go(c, "failed") /\ UNCHANGED request
  <2>1. "failed" \notin Working
    BY Zenon DEF Working, Preparing
  <2> QED BY <1>0, <1>2, <2>1, NotesMoveOn, Zenon
<1>3. CASE CanBuild(c) /\ request' = [request EXCEPT ![c] = {create_prover_inputs(c)}] /\ Go(c, "request")
  <2>1. PICK r : r = create_prover_inputs(c)
    BY Zenon
  <2>2. \A d \in Commands : request'[d] = IF d = c THEN {r} ELSE request[d]
    BY <1>3, <2>1, Zenon DEF MinedInv, Maps
  <2>3. Onward
    BY <1>0, <2>2 DEF Onward, MinedInv, EventsInv
  <2>4. Request(c)' = r
    BY <2>2 DEF Request
  <2>5. MadeBy(c)'
    BY <1>1, <1>3, <2>1, <2>3, <2>4, RequestMade, Zenon DEF CanBuild
  <2>6. MadeInv'
    <3>1. ASSUME NEW d \in Commands, request'[d] # {} PROVE MadeBy(d)'
      <4>1. CASE d = c
        BY <2>5, <4>1, Zenon
      <4>2. CASE d # c
        <5>1. request[d] # {} /\ MadeBy(d)
          BY <2>2, <3>1, <4>2, Zenon DEF NoteInv, MadeInv
        <5> QED BY <2>3, <5>1, MadeStays, Zenon
      <4> QED BY <4>1, <4>2, Zenon
    <3> QED BY <3>1, Zenon DEF MadeInv
  <2>7. ArgsInv' /\ \A d : Fits(d)' = Fits(d)
    BY <1>0, SameArgs, Zenon DEF NoteInv
  <2>8. ChainInv' /\ WalletsInv'
    BY <1>0, <2>3, ChainStays, WalletsStay, Zenon DEF NoteInv
  <2>9. \A d \in Commands : pc'[d] = IF d = c THEN "request" ELSE pc[d]
    BY <1>3, Zenon DEF Go, MinedInv, Maps
  <2>10. OnceInv'
    <3>1. ASSUME NEW d \in Commands
          PROVE  /\ pc'[d] \in Working => status[d] = "none" /\ sent[d] = {}
                 /\ pc'[d] \in Working \ {"start"} => Fits(d)
                 /\ sent[d] # {} => request'[d] # {}
      <4>1. CASE d = c
        BY <1>0, <1>1, <4>1, Zenon DEF NoteInv, OnceInv
      <4>2. CASE d # c
        BY <2>2, <2>9, <4>2, Zenon DEF NoteInv, OnceInv
      <4> QED BY <4>1, <4>2, Zenon
    <3> QED BY <1>0, <2>7, <3>1, Zenon DEF NoteInv, OnceInv
  <2> QED BY <2>6, <2>7, <2>8, <2>10, Zenon DEF NoteInv
<1> QED BY <1>2, <1>3, Zenon DEF OpenWallet

\* The transaction carries the notes of the request.
LEMMA NotesBroadcast ==
  ASSUME MinedInv, NoteInv, NEW c \in Commands, Broadcast(c)
  PROVE  NoteInv'
<1>0. pc[c] = "broadcast" /\ pc[c] \in Working /\ UNCHANGED <<args, request, events, wallets>>
  BY Zenon DEF Broadcast, commandVars, proverVars, Working
<1>1. status[c] = "none" /\ request[c] # {}
  <2>1. status[c] = "none"
    BY <1>0, Zenon DEF NoteInv, OnceInv
  <2>2. request[c] # {}
    BY <1>0, Zenon DEF MinedInv, RequestInv
  <2> QED BY <2>1, <2>2, Zenon
<1>2. PICK a : sent' = [sent EXCEPT ![c] = {[data |-> a, ciphertexts |-> encrypt_notes(c)]}]
  BY Zenon DEF Broadcast
<1>3. /\ \A d \in Commands \ {c} : sent'[d] = sent[d]
      /\ \A t \in sent'[c] : t.ciphertexts = encrypt_notes(c)
  BY <1>2 DEF MinedInv, Maps
<1>4. \A d \in Commands : status'[d] = IF d = c THEN "pending" ELSE IF d \in Rivals(c) THEN "dropped" ELSE status[d]
  BY Zenon DEF Broadcast
<1>5. \A d \in Rivals(c) : status[d] = "pending"
  BY Zenon DEF Rivals, Pending
<1>6. \A d \in Commands : pc'[d] = IF d = c THEN "done" ELSE pc[d]
  BY Zenon DEF Broadcast, Go, MinedInv, Maps
<1>7. Onward
  <2>1. Len(events) \in Nat
    BY SeqDomain, Zenon DEF MinedInv, EventsInv
  <2>2. Len(events) <= Len(events)
    BY <2>1
  <2> QED BY <1>0, <2>1, <2>2, Zenon DEF Onward
<1>8. ArgsInv' /\ \A d : Fits(d)' = Fits(d)
  BY <1>0, SameArgs, Zenon DEF NoteInv
<1>9. MadeInv'
  BY <1>0, <1>7, MadeStays, Zenon DEF NoteInv, MadeInv
<1>10. WalletsInv'
  BY <1>0, <1>7, WalletsStay, Zenon DEF NoteInv
<1>11. \A d \in Commands : encrypt_notes(d)' = encrypt_notes(d) /\ Request(d)' = Request(d)
  <2>1. \A d \in Commands : Request(d)' = Request(d)
    BY <1>0, Zenon DEF Request
  <2>2. ASSUME NEW d \in Commands PROVE encrypt_notes(d)' = encrypt_notes(d)
    <3>1. Request(d)' = Request(d)
      BY <2>1, Zenon
    <3> QED BY <3>1, Zenon DEF encrypt_notes
  <2> QED BY <2>1, <2>2, Zenon
<1>12. ChainInv'
  <2>1. \A d \in Commands : \A t \in sent'[d] : t.ciphertexts = encrypt_notes(d)'
    BY <1>3, <1>11, Zenon DEF NoteInv, ChainInv
  <2>2. \A j \in DOMAIN events : events[j].cmd \in Commands
    BY Zenon DEF MinedInv, EventsInv
  <2> QED BY <1>0, <1>11, <2>1, <2>2, Zenon DEF NoteInv, ChainInv
<1>13. OnceInv'
  <2>1. ASSUME NEW d \in Commands
        PROVE  /\ pc'[d] \in Working => status'[d] = "none" /\ sent'[d] = {}
               /\ pc'[d] \in Working \ {"start"} => Fits(d)
               /\ sent'[d] # {} => request[d] # {}
    <3>1. CASE d = c
      <4>1. "done" \notin Working
        BY Zenon DEF Working, Preparing
      <4> QED BY <1>1, <1>6, <3>1, <4>1, Zenon
    <3>2. CASE d # c
      <4>1. pc'[d] = pc[d] /\ sent'[d] = sent[d]
        BY <1>3, <1>6, <3>2, Zenon
      <4>2. status[d] = "none" => status'[d] = "none"
        BY <1>4, <1>5, <3>2, Zenon
      <4> QED BY <4>1, <4>2, Zenon DEF NoteInv, OnceInv
    <3> QED BY <3>1, <3>2, Zenon
  <2>2. \A j \in DOMAIN events : status'[events[j].cmd] = "ok"
    <3>1. \A j \in DOMAIN events : events[j].cmd \in Commands /\ status[events[j].cmd] = "ok"
      BY Zenon DEF MinedInv, EventsInv, NoteInv, OnceInv
    <3> QED BY <1>1, <1>4, <1>5, <3>1, Zenon
  <2> QED BY <1>0, <1>8, <2>1, <2>2, Zenon DEF NoteInv, OnceInv
<1> QED BY <1>8, <1>9, <1>10, <1>12, <1>13, Zenon DEF NoteInv

\* A transaction that is mined appends the notes of its request, or nothing.
LEMMA NotesMine ==
  ASSUME MinedInv, NoteInv, NEW c \in Commands, Mine(c)
  PROVE  NoteInv'
<1>1. status[c] = "pending" /\ UNCHANGED <<args, request, sent, pc, wallets>>
  BY Zenon DEF Mine, commandVars, proverVars
<1>2. sent[c] # {} /\ request[c] # {} /\ pc[c] \notin Working
  <2>1. sent[c] # {}
    BY <1>1, Zenon DEF MinedInv, SentInv
  <2>2. request[c] # {}
    BY <2>1, Zenon DEF NoteInv, OnceInv
  <2>3. pc[c] \notin Working
    BY <1>1, Zenon DEF NoteInv, OnceInv
  <2> QED BY <2>1, <2>2, <2>3, Zenon
<1>3. PICK tx : tx \in sent[c] /\ tx = CHOOSE t \in sent[c] : TRUE
  BY <1>2, Zenon
<1>4. PICK w, ev :
        /\ status' = [status EXCEPT ![c] = w]
        /\ ev.cmd = c /\ \A i \in 1..2 : ev.outs[i].ciphertext = tx.ciphertexts[i]
        /\ UNCHANGED events \/ (w = "ok" /\ events' = Append(events, ev))
  <2> DEFINE data == tx.data
             E == [cmd |-> c, nfs |-> <<data.nf1, data.nf2>>,
                   outs |-> <<[commitment |-> data.cm1, ciphertext |-> tx.ciphertexts[1]],
                              [commitment |-> data.cm2, ciphertext |-> tx.ciphertexts[2]]>>]
  <2>1. E.cmd = c /\ \A i \in 1..2 : E.outs[i].ciphertext = tx.ciphertexts[i]
    <3>1. /\ E.cmd = c /\ E.outs[1].ciphertext = tx.ciphertexts[1]
          /\ E.outs[2].ciphertext = tx.ciphertexts[2]
      BY EventFields, Zenon
    <3> HIDE DEF E
    <3> QED BY <3>1, OneOrTwo, Zenon
  <2>2. \/ status' = [status EXCEPT ![c] = "ok"] /\ events' = Append(events, E)
        \/ status' = [status EXCEPT ![c] = "reverted"] /\ UNCHANGED events
    BY <1>3, Zenon DEF Mine
  <2> HIDE DEF E
  <2>3. CASE status' = [status EXCEPT ![c] = "ok"] /\ events' = Append(events, E)
    BY <2>1, <2>3, Zenon
  <2>4. CASE status' = [status EXCEPT ![c] = "reverted"] /\ UNCHANGED events
    BY <2>1, <2>4, Zenon
  <2> QED BY <2>2, <2>3, <2>4, Zenon
<1>5. PICK S : events \in Seq(S)
  BY Zenon DEF MinedInv, EventsInv
<1>6. /\ \A j \in DOMAIN events : j \in DOMAIN events' /\ events'[j] = events[j]
      /\ \A j \in DOMAIN events' :
           j \in DOMAIN events \/ (w = "ok" /\ j = Len(events) + 1 /\ events'[j] = ev)
      /\ Len(events) \in Nat /\ Len(events') \in Nat /\ Len(events) <= Len(events')
  <2>1. CASE UNCHANGED events
    BY <1>5, <2>1
  <2>2. CASE w = "ok" /\ events' = Append(events, ev)
    BY <1>5, <2>2
  <2> QED BY <1>4, <2>1, <2>2, Zenon
<1>7. \A d \in Commands : status'[d] = IF d = c THEN w ELSE status[d]
  BY <1>4, Zenon DEF MinedInv, Maps
<1>8. Onward
  BY <1>1, <1>6, Zenon DEF Onward
<1>9. ArgsInv' /\ \A d : Fits(d)' = Fits(d)
  BY <1>1, SameArgs, Zenon DEF NoteInv
<1>10. MadeInv'
  BY <1>1, <1>8, MadeStays, Zenon DEF NoteInv, MadeInv
<1>11. WalletsInv'
  BY <1>1, <1>8, WalletsStay, Zenon DEF NoteInv
<1>12. \A j \in DOMAIN events : events[j].cmd \in Commands /\ events[j].cmd # c
  <2>1. \A j \in DOMAIN events : events[j].cmd \in Commands /\ status[events[j].cmd] = "ok"
    BY Zenon DEF MinedInv, EventsInv, NoteInv, OnceInv
  <2> QED BY <1>1, <2>1, Zenon
<1>13. \A d \in Commands : encrypt_notes(d)' = encrypt_notes(d) /\ Request(d)' = Request(d)
  <2>1. \A d \in Commands : Request(d)' = Request(d)
    BY <1>1, Zenon DEF Request
  <2>2. ASSUME NEW d \in Commands PROVE encrypt_notes(d)' = encrypt_notes(d)
    <3>1. Request(d)' = Request(d)
      BY <2>1
    <3> QED BY <3>1, Zenon DEF encrypt_notes
  <2> QED BY <2>1, <2>2
<1>14. ChainInv'
  <2>1. \A d \in Commands : \A t \in sent[d] : t.ciphertexts = encrypt_notes(d)'
    BY <1>13, Zenon DEF NoteInv, ChainInv
  <2>2. ASSUME NEW j \in DOMAIN events'
        PROVE  /\ Request(events[j].cmd)'.root < j
               /\ \A i \in 1..2 : events'[j].outs[i].ciphertext = encrypt_notes(events[j].cmd)'[i]
    <3>1. PICK d : d = events'[j].cmd
      BY Zenon
    <3>10. Request(events[j].cmd)' = Request(d)' /\ encrypt_notes(events[j].cmd)' = encrypt_notes(d)'
      BY <3>1, Zenon
    <3>2. CASE j \in DOMAIN events
      <4>1. d = events[j].cmd /\ d \in Commands /\ events'[j] = events[j]
        BY <1>6, <1>12, <3>1, <3>2, Zenon
      <4>2. Request(d).root < j /\ \A i \in 1..2 : events[j].outs[i].ciphertext = encrypt_notes(d)[i]
        BY <3>2, <4>1, Zenon DEF NoteInv, ChainInv
      <4> QED BY <1>13, <3>10, <4>1, <4>2, Zenon
    <3>3. CASE j = Len(events) + 1 /\ events'[j] = ev
      <4>1. d = c
        BY <1>4, <3>1, <3>3, Zenon
      <4>2. tx.ciphertexts = encrypt_notes(c)
        BY <1>3, Zenon DEF NoteInv, ChainInv
      <4>3. Request(c).root < j
        <5>1. Request(c).root \in 0..Len(events)
          BY <1>2, Zenon DEF NoteInv, MadeInv, MadeBy
        <5> QED BY <1>6, <3>3, <5>1
      <4> QED BY <1>4, <1>13, <3>10, <3>3, <4>1, <4>2, <4>3, Zenon
    <3> QED BY <1>6, <3>2, <3>3, Zenon
  <2> QED BY <1>1, <2>1, <2>2, Zenon DEF ChainInv
<1>15. OnceInv'
  <2>1. ASSUME NEW d \in Commands
        PROVE  /\ pc[d] \in Working => status'[d] = "none" /\ sent[d] = {}
               /\ pc[d] \in Working \ {"start"} => Fits(d)
               /\ sent[d] # {} => request[d] # {}
    <3>1. CASE d = c
      BY <1>2, <3>1, Zenon
    <3>2. CASE d # c
      BY <1>7, <3>2, Zenon DEF NoteInv, OnceInv
    <3> QED BY <3>1, <3>2, Zenon
  <2>2. ASSUME NEW j \in DOMAIN events' PROVE status'[events'[j].cmd] = "ok"
    <3>1. CASE j \in DOMAIN events
      <4>1. events'[j] = events[j] /\ events[j].cmd \in Commands /\ events[j].cmd # c
        BY <1>6, <1>12, <3>1, Zenon
      <4>2. status[events[j].cmd] = "ok"
        BY <3>1, Zenon DEF NoteInv, OnceInv
      <4> QED BY <1>7, <4>1, <4>2, Zenon
    <3>2. CASE w = "ok" /\ events'[j] = ev
      <4>1. events'[j].cmd = c
        BY <1>4, <3>2, Zenon
      <4> QED BY <1>7, <3>2, <4>1, Zenon
    <3> QED BY <1>6, <3>1, <3>2, Zenon
  <2>3. ASSUME NEW i \in DOMAIN events', NEW j \in DOMAIN events', events'[i].cmd = events'[j].cmd
        PROVE  i = j
    <3>1. CASE i \in DOMAIN events /\ j \in DOMAIN events
      BY <1>6, <2>3, <3>1, Zenon DEF NoteInv, OnceInv
    <3>2. ASSUME NEW x \in DOMAIN events, NEW y, events'[y] = ev PROVE events'[x].cmd # events'[y].cmd
      BY <1>4, <1>6, <1>12, <3>2, Zenon
    <3> QED BY <1>6, <2>3, <3>1, <3>2, Zenon
  <2> QED BY <1>1, <1>9, <2>1, <2>2, <2>3, Zenon DEF OnceInv
<1> QED BY <1>9, <1>10, <1>11, <1>14, <1>15, Zenon DEF NoteInv

\* At the start a wallet has the notes that were in the tree.
LEMMA NoteInit == Init => NoteInv
<1> SUFFICES ASSUME Init PROVE NoteInv
  BY Zenon
<1>1. ArgsInv
  BY Zenon DEF Init, ArgsInv
<1>2. events = <<>> /\ DOMAIN events = {} /\ Len(events) = 0
  <2>1. events = <<>>
    BY Zenon DEF Init
  <2>2. DOMAIN <<>> = {} /\ Len(<<>>) = 0
    OBVIOUS
  <2> QED BY <2>1, <2>2, Zenon
<1>3. \A c \in Commands : request[c] = {} /\ sent[c] = {} /\ status[c] = "none" /\ pc[c] \in {"done", "start"}
  BY Zenon DEF Init
<1>4. OnceInv
  <2>1. "done" \notin Working \ {"start"} /\ "start" \notin Working \ {"start"}
    BY Zenon DEF Working, Preparing
  <2> QED BY <1>2, <1>3, <2>1, Zenon DEF OnceInv
<1>5. MadeInv /\ ChainInv
  BY <1>2, <1>3, Zenon DEF MadeInv, ChainInv
<1>6. WalletsInv
  <2> DEFINE G(u) == {Genesis_note(i) : i \in {j \in DOMAIN Genesis : Genesis[j].owner = u}}
  <2>1. wallets = [u \in Users |-> [synced |-> 0, notes |-> G(u)]]
    BY Zenon DEF Init
  <2>2. \A u : Delivered(u, 0) = G(u) /\ Nullified(0) = {}
    <3>1. 1..0 = {}
      OBVIOUS
    <3> QED BY <3>1, Zenon DEF Delivered, Nullified
  <2> HIDE DEF G
  <2>3. \A u \in Users : wallets[u].synced = 0 /\ wallets[u].notes = G(u)
    BY <2>1, Zenon
  <2>4. wallets = [u \in Users |-> [synced |-> wallets[u].synced, notes |-> wallets[u].notes]]
    BY <2>1, <2>3, Zenon
  <2>5. 0 \in 0..Len(events)
    BY <1>2
  <2>6. ASSUME NEW u \in Users
        PROVE  wallets[u].notes = {n \in Delivered(u, wallets[u].synced) :
                                     NullifierOf(u, n) \notin Nullified(wallets[u].synced)}
    BY <2>2, <2>3, Zenon
  <2> QED BY <2>3, <2>4, <2>5, <2>6, Zenon DEF WalletsInv
<1> QED BY <1>1, <1>4, <1>5, <1>6, Zenon DEF NoteInv

----------------------------------------------------------------------------
(* What the notes of a wallet are, in terms of what the commands were asked. *)

\* A mined command, as the invariant knows it.
LEMMA MinedCommand ==
  ASSUME MinedInv, NoteInv, NEW k \in 0..Len(events), NEW j \in 1..k
  PROVE  /\ j \in DOMAIN events /\ events[j].cmd \in Commands
         /\ MadeBy(events[j].cmd) /\ Request(events[j].cmd).root \in 0..Len(events)
         /\ DOMAIN args[events[j].cmd].ins \subseteq 1..2
         /\ DOMAIN Asked(events[j].cmd) \subseteq 1..2
<1>1. PICK S : events \in Seq(S)
  BY Zenon DEF MinedInv, EventsInv
<1>2. j \in DOMAIN events
  BY <1>1
<1>3. PICK c : c = events[j].cmd
  BY Zenon
<1>4. c \in Commands /\ request[c] # {}
  BY <1>2, <1>3, Zenon DEF MinedInv, EventsInv
<1>5. MadeBy(c) /\ Fits(c) /\ Request(c).root \in 0..Len(events)
  BY <1>4, Zenon DEF NoteInv, MadeInv, MadeBy
<1> DEFINE Out == [to : {{}} \cup {{u} : u \in Users}, value : Nat]
           In == Nat \X Nat
<1>6. args[c].ins \in Seq(In) /\ Asked(c) \in Seq(Out) /\ Len(Asked(c)) <= 2
  BY <1>4, <1>5, ArgsType, Zenon DEF NoteInv
<1> HIDE DEF Out, In
<1>7. DOMAIN args[c].ins \subseteq 1..2
  BY <1>5, <1>6 DEF Fits
<1>8. DOMAIN Asked(c) \subseteq 1..2
  BY <1>6
<1> QED BY <1>2, <1>3, <1>4, <1>5, <1>7, <1>8, Zenon

\* The notes delivered are those that the commands sent to the user.
LEMMA DeliveredIsSent ==
  ASSUME MinedInv, NoteInv, NEW u \in Users, NEW k \in 0..Len(events), NEW t
  PROVE  (\E n \in Delivered(u, k) : n.trap_r = t) <=>
           \/ \E g \in DOMAIN Genesis : Genesis[g].owner = u /\ t = <<0, g>>
           \/ \E j \in 1..k : \E i \in DOMAIN Asked(events[j].cmd) :
                Recipient(events[j].cmd, i) = u /\ Emitted(j, i) /\ t = <<events[j].cmd, i>>
<1> DEFINE OfGenesis == \E g \in DOMAIN Genesis : Genesis[g].owner = u /\ t = <<0, g>>
           OfCommand == \E j \in 1..k : \E i \in DOMAIN Asked(events[j].cmd) :
                            Recipient(events[j].cmd, i) = u /\ Emitted(j, i) /\ t = <<events[j].cmd, i>>
<1>1. ASSUME NEW n \in Delivered(u, k), n.trap_r = t PROVE OfGenesis \/ OfCommand
  <2>0. ArgsInv /\ MadeInv
    BY Zenon DEF NoteInv
  <2>1. \/ \E g \in DOMAIN Genesis : Genesis[g].owner = u /\ n.trap_r = <<0, g>>
        \/ \E c \in Commands : \E i \in 1..2 :
             /\ \E j \in 1..k : j \in DOMAIN events /\ events[j].cmd = c /\ Emitted(j, i)
             /\ i \in OutputsFor(c, u) /\ n.trap_r = <<c, i>>
    <3>1. FromGenesis(n, u) \/ FromCommand(n, u, k)
      BY <2>0, Origin, Zenon
    <3> QED BY <3>1, Zenon DEF FromGenesis, FromCommand
  <2>2. CASE \E g \in DOMAIN Genesis : Genesis[g].owner = u /\ n.trap_r = <<0, g>>
    BY <1>1, <2>2, Zenon
  <2>3. ASSUME NEW c, NEW i, NEW j \in 1..k, events[j].cmd = c, Emitted(j, i),
               i \in OutputsFor(c, u), n.trap_r = <<c, i>>
        PROVE  OfCommand
    <3>1. i \in DOMAIN Asked(c) /\ Recipient(c, i) = u
      BY <2>3, Zenon DEF OutputsFor
    <3> QED BY <1>1, <2>3, <3>1, Zenon
  <2> HIDE DEF OfGenesis, OfCommand
  <2> QED BY <2>1, <2>2, <2>3, Zenon
<1>2. ASSUME NEW g \in DOMAIN Genesis, Genesis[g].owner = u, t = <<0, g>>
      PROVE  \E n \in Delivered(u, k) : n.trap_r = t
  <2>1. Genesis_note(g) \in Delivered(u, k)
    BY <1>2, DeliveredIs, Zenon
  <2>2. Genesis_note(g).trap_r = t
    BY <1>2, Zenon DEF Genesis_note
  <2> QED BY <2>1, <2>2, Zenon
<1>3. ASSUME NEW j \in 1..k, NEW i \in DOMAIN Asked(events[j].cmd),
             Recipient(events[j].cmd, i) = u, Emitted(j, i), t = <<events[j].cmd, i>>
      PROVE  \E n \in Delivered(u, k) : n.trap_r = t
  <2>1. i \in Arrived(j, u)
    BY <1>3, Zenon DEF OutputsFor, Arrived
  <2>2. Request(events[j].cmd).outs[i] \in Delivered(u, k)
    BY <2>1, DeliveredIs, Zenon
  <2>3. MadeBy(events[j].cmd) /\ i \in 1..2
    BY MinedCommand, Zenon
  <2>4. Request(events[j].cmd).outs[i].trap_r = t
    BY <1>3, <2>3, Zenon DEF MadeBy, OutputOk
  <2> QED BY <2>2, <2>4, Zenon
<1> QED BY <1>1, <1>2, <1>3, Zenon

\* A note that was delivered is no dummy note.
LEMMA NoDummy ==
  ASSUME MinedInv, NoteInv, NEW u, NEW k \in 0..Len(events), NEW n \in Delivered(u, k), NEW c, NEW x
  PROVE  n.rho # <<"dummy", c, x>>
<1>0. ArgsInv /\ MadeInv
  BY Zenon DEF NoteInv
<1>1. FromGenesis(n, u) \/ FromCommand(n, u, k)
  BY <1>0, Origin, Zenon
<1> QED BY <1>1, Tuples DEF FromGenesis, FromCommand

\* A note that was delivered is spent when a mined command was asked to spend it.
LEMMA SpentIsAsked ==
  ASSUME MinedInv, NoteInv, NEW u \in Users, NEW k \in 0..Len(events), NEW n \in Delivered(u, k)
  PROVE  NullifierOf(u, n) \in Nullified(k) <=>
           \E j \in 1..k : n.trap_r \in Range(args[events[j].cmd].ins)
<1>0. ArgsInv /\ MadeInv
  BY Zenon DEF NoteInv
<1>1. ASSUME NEW j \in 1..k, NEW i \in 1..2, NullifierOf(u, n) = Request(events[j].cmd).nfs[i]
      PROVE  n.trap_r \in Range(args[events[j].cmd].ins)
  <2>1. PICK c : c = events[j].cmd
    BY Zenon
  <2>2. MadeBy(c) /\ Request(c).root \in 0..Len(events)
    BY <2>1, MinedCommand, Zenon
  <2>3. PICK p : p = Request(c).ins[i]
    BY Zenon
  <2>4. InputOk(c, i) /\ Request(c).nfs[i] = NullifierOf(args[c].user, p)
    BY <2>2, <2>3, Zenon DEF MadeBy, InputOk
  <2>5. u = args[c].user /\ n.rho = p.rho
    <3>1. <<"1110", u, n.rho>> = <<"1110", args[c].user, p.rho>>
      BY <1>1, <2>1, <2>4, Zenon DEF NullifierOf
    <3> QED BY <3>1, Zenon
  <2>6. CASE i \in DOMAIN args[c].ins
    <3>1. p \in Delivered(args[c].user, Request(c).root) /\ p.trap_r = args[c].ins[i]
      BY <2>3, <2>4, <2>6, Zenon DEF InputOk
    <3>2. n = p
      BY <1>0, <2>2, <2>5, <3>1, NotesDiffer
    <3>3. n.trap_r = args[c].ins[i]
      BY <3>1, <3>2, Zenon
    <3> QED BY <2>1, <2>6, <3>3, Zenon DEF Range
  <2>7. CASE i \notin DOMAIN args[c].ins
    <3>1. PICK x : p.rho = <<"dummy", c, x>>
      BY <2>3, <2>4, <2>7, Zenon DEF InputOk
    <3> QED BY <2>5, <3>1, NoDummy, Zenon
  <2> QED BY <2>6, <2>7, Zenon
<1>2. ASSUME NEW j \in 1..k, n.trap_r \in Range(args[events[j].cmd].ins)
      PROVE  NullifierOf(u, n) \in Nullified(k)
  <2>1. PICK c : c = events[j].cmd
    BY Zenon
  <2>2. MadeBy(c) /\ Request(c).root \in 0..Len(events) /\ DOMAIN args[c].ins \subseteq 1..2
    BY <2>1, MinedCommand, Zenon
  <2>3. PICK i \in DOMAIN args[c].ins : n.trap_r = args[c].ins[i]
    BY <1>2, <2>1, Zenon DEF Range
  <2>4. i \in 1..2
    BY <2>2, <2>3, Zenon
  <2>5. PICK p : p = Request(c).ins[i]
    BY Zenon
  <2>6. /\ Request(c).nfs[i] = NullifierOf(args[c].user, p)
        /\ p \in Delivered(args[c].user, Request(c).root) /\ p.trap_r = args[c].ins[i]
    BY <2>2, <2>3, <2>4, <2>5, Zenon DEF MadeBy, InputOk
  <2>7. n = p /\ u = args[c].user
    BY <1>0, <2>2, <2>3, <2>6, NotesDiffer
  <2>8. NullifierOf(u, n) = Request(events[j].cmd).nfs[i]
    BY <2>1, <2>6, <2>7, Zenon
  <2> QED BY <2>4, <2>8, NullifiedIs, Zenon
<1>3. NullifierOf(u, n) \in Nullified(k) <=>
        \E j \in 1..k : \E i \in 1..2 : NullifierOf(u, n) = Request(events[j].cmd).nfs[i]
  BY NullifiedIs
<1> QED BY <1>1, <1>2, <1>3, Zenon

\* The wallets have what WalletsExact says.
LEMMA NotesAreExact == MinedInv /\ NoteInv => WalletsExact
<1> SUFFICES ASSUME MinedInv, NoteInv PROVE WalletsExact
  BY Zenon
<1> DEFINE seen(u) == 1..wallets[u].synced
           is_for(u, c, spec) == u \in spec.to \/ (spec.to = {} /\ args[c].user = u)
           spent(u) == UNION {Range(args[events[j].cmd].ins) : j \in seen(u)}
           sentTo(u) ==
             {<<0, i>> : i \in {g \in DOMAIN Genesis : Genesis[g].owner = u}} \cup
             UNION {{<<events[j].cmd, i>> :
                       i \in {g \in DOMAIN Asked(events[j].cmd) :
                                is_for(u, events[j].cmd, Asked(events[j].cmd)[g]) /\ Emitted(j, g)}} :
                    j \in seen(u)}
<1>1. ASSUME NEW u \in Users
      PROVE  {n.trap_r : n \in wallets[u].notes} = sentTo(u) \ spent(u)
  <2>1. PICK k : k = wallets[u].synced
    BY Zenon
  <2>2. /\ k \in 0..Len(events)
        /\ wallets[u].notes = {n \in Delivered(u, k) : NullifierOf(u, n) \notin Nullified(k)}
    BY <2>1, Zenon DEF NoteInv, WalletsInv
  <2>3. ASSUME NEW j \in 1..k, NEW i \in DOMAIN Asked(events[j].cmd)
        PROVE  Recipient(events[j].cmd, i) = u <=> is_for(u, events[j].cmd, Asked(events[j].cmd)[i])
    <3>1. events[j].cmd \in Commands /\ ArgsInv
      BY <2>2, MinedCommand, Zenon DEF NoteInv
    <3> QED BY <3>1, RecipientType, Zenon
  <2>4. ASSUME NEW t PROVE t \in sentTo(u) <=> \E n \in Delivered(u, k) : n.trap_r = t
    <3> DEFINE A == \E g \in DOMAIN Genesis : Genesis[g].owner = u /\ t = <<0, g>>
               B == \E j \in 1..k : \E i \in DOMAIN Asked(events[j].cmd) :
                      Recipient(events[j].cmd, i) = u /\ Emitted(j, i) /\ t = <<events[j].cmd, i>>
               C == \E j \in 1..k : \E i \in DOMAIN Asked(events[j].cmd) :
                      is_for(u, events[j].cmd, Asked(events[j].cmd)[i]) /\ Emitted(j, i) /\ t = <<events[j].cmd, i>>
    <3>1. B <=> C
      <4> HIDE DEF is_for
      <4> QED BY <2>3, Zenon
    <3>2. t \in sentTo(u) <=> A \/ C
      <4> HIDE DEF is_for
      <4> QED BY <2>1
    <3>3. (\E n \in Delivered(u, k) : n.trap_r = t) <=> A \/ B
      BY <2>2, DeliveredIsSent
    <3> HIDE DEF A, B, C, sentTo
    <3> QED BY <3>1, <3>2, <3>3, Zenon
  <2>5. ASSUME NEW n \in Delivered(u, k)
        PROVE  NullifierOf(u, n) \in Nullified(k) <=> n.trap_r \in spent(u)
    <3>1. NullifierOf(u, n) \in Nullified(k) <=>
            \E j \in 1..k : n.trap_r \in Range(args[events[j].cmd].ins)
      BY <2>2, SpentIsAsked, Zenon
    <3>2. n.trap_r \in spent(u) <=> \E j \in 1..k : n.trap_r \in Range(args[events[j].cmd].ins)
      BY <2>1, Zenon
    <3> HIDE DEF spent
    <3> QED BY <3>1, <3>2, Zenon
  <2> HIDE DEF sentTo, spent
  <2>6. ASSUME NEW n \in wallets[u].notes PROVE n.trap_r \in sentTo(u) \ spent(u)
    BY <2>2, <2>4, <2>5, Zenon
  <2>7. ASSUME NEW t \in sentTo(u) \ spent(u) PROVE \E n \in wallets[u].notes : n.trap_r = t
    BY <2>2, <2>4, <2>5, Zenon
  <2> QED BY <2>6, <2>7, Zenon
<1> QED BY <1>1, Zenon DEF WalletsExact

----------------------------------------------------------------------------
(* A synchronisation. *)

(* Every non-empty set of natural numbers has a least element. *)
LEMMA LeastNat ==
  ASSUME NEW T, T \subseteq Nat, T # {}
  PROVE  \E x \in T : \A y \in T : x <= y
<1> DEFINE R == OpToRel(<, Nat)
<1>1. IsWellFoundedOn(R, Nat)
  BY NatLessThanWellFounded, Zenon
<1>2. \A x, y \in Nat : y < x => <<y, x>> \in R
  BY SMT DEF OpToRel
<1> HIDE DEF R
<1>3. PICK x \in T : \A y \in T : ~(<<y, x>> \in R)
  BY <1>1, WFMin, Zenon
<1>4. ASSUME NEW y \in T PROVE x <= y
  <2>1. x \in Nat /\ y \in Nat
    BY Zenon
  <2>2. ~(y < x)
    BY <1>2, <1>3, <2>1, Zenon
  <2> QED BY <2>1, <2>2
<1> QED BY <1>4, Zenon

\* Induction up to a number, over the set of the numbers for which a fact holds.
LEMMA InductionUpTo ==
  ASSUME NEW n \in Nat, NEW T, 0 \in T,
         \A k \in 1 .. n : k - 1 \in T => k \in T
  PROVE  \A k \in 0 .. n : k \in T
<1> DEFINE F == {k \in 0 .. n : k \notin T}
<1> SUFFICES ASSUME F # {} PROVE FALSE
  BY Zenon
<1>1. PICK k \in F : \A j \in F : k <= j
  <2>1. F \subseteq Nat
    OBVIOUS
  <2> HIDE DEF F
  <2> QED BY <2>1, LeastNat, Zenon
<1>2. k \in 1 .. n /\ k - 1 \in 0 .. n /\ k - 1 < k
  OBVIOUS
<1> QED BY <1>1, <1>2

\* The notes after each event, as do_sync goes through them.
LEMMA NotesAfterAt ==
  ASSUME NEW u, NEW new, Len(new) \in Nat
  PROVE  \A k \in 0..Len(new) :
           NotesAfter(u, new)[k] =
             IF k = 0 THEN wallets[u].notes
             ELSE KeptNotes(u, NotesAfter(u, new)[k - 1], new[k])
<1> DEFINE N == Len(new)
           a == wallets[u].notes
           b(h, v) == {n \in v \cup Received(u, new[h]) :
                         compute_nullifier(n, ASk(u)) \notin Range(new[h].nfs)}
           after(h, v) == KeptNotes(u, v, new[h])
           G(k, g) == [h \in 0..k |-> IF h = 0 THEN a ELSE b(h, g[h - 1])]
           C == {k \in 0..N : \E g : g = G(k, g)}
<1>1. NotesAfter(u, new) = CHOOSE g : g = G(N, g)
  BY Zenon DEF NotesAfter
<1>8. \A h, v : b(h, v) = after(h, v)
  <2>1. \A n : compute_nullifier(n, ASk(u)) = NullifierOf(u, n)
    BY Zenon DEF compute_nullifier, ASk, Address, generate_zeth_address, NullifierOf
  <2> QED BY <2>1 DEF KeptNotes
<1> HIDE DEF a, b, N, after
<1>n. N \in Nat
  BY Zenon DEF N
<1>2. 0 \in C
  <2>1. [h \in 0..0 |-> a] = G(0, [h \in 0..0 |-> a])
    OBVIOUS
  <2>2. 0 \in 0..N
    BY <1>n
  <2> QED BY <2>1, <2>2, Zenon
<1>3. ASSUME NEW k \in 1..N, k - 1 \in C PROVE k \in C
  <2>1. PICK g : g = G(k - 1, g)
    BY <1>3, Zenon
  <2> DEFINE f == [h \in 0..k |-> IF h = k THEN b(k, g[k - 1]) ELSE g[h]]
  <2>2. \A h \in 0..k : f[h] = IF h = 0 THEN a ELSE b(h, f[h - 1])
    BY <2>1
  <2>3. f = G(k, f)
    BY <2>2, Zenon
  <2>4. k \in 0..N
    BY <1>n
  <2> HIDE DEF f, G
  <2> QED BY <2>3, <2>4, Zenon
<1>4. N \in C
  <2> HIDE DEF C
  <2> QED BY <1>n, <1>2, <1>3, InductionUpTo
<1>5. PICK g : g = G(N, g)
  BY <1>4, Zenon
<1>6. NotesAfter(u, new) = G(N, NotesAfter(u, new))
  BY <1>1, <1>5, Zenon
<1>7. \A k \in 0..N : NotesAfter(u, new)[k] = IF k = 0 THEN a ELSE b(k, NotesAfter(u, new)[k - 1])
  BY <1>6, Zenon
<1>9. \A k \in 0..N : NotesAfter(u, new)[k] = IF k = 0 THEN a ELSE after(k, NotesAfter(u, new)[k - 1])
  BY <1>7, <1>8, Zenon
<1> QED BY <1>9, Zenon DEF a, after, N

\* The events from a number on.
LEMMA EventsFrom ==
  ASSUME NEW S, NEW e \in Seq(S), NEW s \in 0..Len(e), NEW new, new = SubSeq(e, s + 1, Len(e))
  PROVE  /\ Len(new) = Len(e) - s /\ Len(new) \in Nat /\ s + Len(new) = Len(e)
         /\ \A k \in 1..Len(new) : new[k] = e[s + k] /\ s + k \in DOMAIN e
<1>1. Len(new) = Len(e) - s
  OBVIOUS
<1>2. \A k \in 1..(Len(e) - s) : new[k] = e[s + k]
  OBVIOUS
<1>3. Len(e) \in Nat /\ DOMAIN e = 1..Len(e)
  OBVIOUS
<1>4. /\ Len(e) - s \in Nat /\ s + (Len(e) - s) = Len(e)
      /\ \A k \in 1..(Len(e) - s) : s + k \in 1..Len(e)
  BY <1>3
<1> QED BY <1>1, <1>2, <1>3, <1>4, Zenon

(* do_sync leaves what was sent to the user and is not spent: a note of an  *)
(* event is not spent by an earlier one, so that moving the notes of each   *)
(* event in turn misses none.                                               *)
LEMMA SyncedNotes ==
  ASSUME MinedInv, NoteInv, NEW u \in Users,
         NEW new, new = SubSeq(events, wallets[u].synced + 1, Len(events)), new # <<>>
  PROVE  NotesAfter(u, new)[Len(new)]
           = {n \in Delivered(u, Len(events)) : NullifierOf(u, n) \notin Nullified(Len(events))}
<1> DEFINE s == wallets[u].synced
           N == Len(new)
           At(k) == {n \in Delivered(u, k) : NullifierOf(u, n) \notin Nullified(k)}
           C == {k \in 0..N : NotesAfter(u, new)[k] = At(s + k)}
<1>1. PICK S : events \in Seq(S)
  BY Zenon DEF MinedInv, EventsInv
<1>2. s \in 0..Len(events) /\ wallets[u].notes = At(s)
  BY Zenon DEF NoteInv, WalletsInv
<1>20. new = SubSeq(events, s + 1, Len(events))
  BY Zenon
<1> HIDE DEF s
<1>3. /\ N = Len(events) - s /\ N \in Nat /\ s + N = Len(events)
      /\ \A k \in 1..N : new[k] = events[s + k] /\ s + k \in DOMAIN events
  BY <1>1, <1>2, <1>20, EventsFrom, Zenon
<1>5. \A k \in 0..N :
        NotesAfter(u, new)[k] =
          IF k = 0 THEN wallets[u].notes
          ELSE KeptNotes(u, NotesAfter(u, new)[k - 1], new[k])
  <2>1. Len(new) \in Nat
    BY <1>3, Zenon
  <2> QED BY <2>1, NotesAfterAt, Zenon
<1> HIDE DEF N
<1>6. 0 \in C
  <2>1. s + 0 = s /\ 0 \in 0..N
    BY <1>2, <1>3
  <2> HIDE DEF At
  <2> QED BY <1>2, <1>5, <2>1, Zenon
<1>7. ASSUME NEW k \in 1..N, k - 1 \in C PROVE k \in C
  <2> DEFINE j == s + k
             R == {Request(events[j].cmd).outs[i] : i \in Arrived(j, u)}
             F == Range(events[j].nfs)
  <2>1. j \in DOMAIN events /\ new[k] = events[j] /\ s + (k - 1) = j - 1
    <3>1. s + (k - 1) = j - 1
      BY <1>2
    <3> QED BY <1>3, <3>1, Zenon
  <2> HIDE DEF j
  <2>2. Received(u, events[j]) = R
    BY <2>1, ReceivedIs, Zenon DEF NoteInv
  <2>3. /\ Delivered(u, j) = Delivered(u, j - 1) \cup R
        /\ Nullified(j) = Nullified(j - 1) \cup F
    BY <2>1, OneEvent, Zenon
  <2>4. \A n \in R : NullifierOf(u, n) \notin Nullified(j)
    <3>1. Arrived(j, u) \subseteq 1..2
      <4> DEFINE Out == [to : {{}} \cup {{v} : v \in Users}, value : Nat]
                 c == events[j].cmd
      <4>1. c \in Commands /\ Fits(c)
        BY <2>1, Zenon DEF NoteInv, MadeInv, MadeBy, MinedInv, EventsInv
      <4>2. Asked(c) \in Seq(Out) /\ Len(Asked(c)) <= 2
        BY <4>1, ArgsType, Zenon DEF NoteInv
      <4> HIDE DEF Out, c
      <4>3. OutputsFor(c, u) \subseteq 1..2
        BY <4>2 DEF OutputsFor
      <4> QED BY <4>3, Zenon DEF c, Arrived
    <3> QED BY <2>1, <3>1, EmittedUnspent, Zenon DEF NoteInv
  <2> HIDE DEF R, F
  <2>5. NotesAfter(u, new)[k - 1] = {n \in Delivered(u, j - 1) : NullifierOf(u, n) \notin Nullified(j - 1)}
    BY <1>7, <2>1, Zenon
  <2>6. NotesAfter(u, new)[k] = {n \in NotesAfter(u, new)[k - 1] \cup R : NullifierOf(u, n) \notin F}
    <3>1. k \in 0..N /\ k # 0
      BY <1>3
    <3>2. NotesAfter(u, new)[k] = KeptNotes(u, NotesAfter(u, new)[k - 1], new[k])
      BY <1>5, <3>1, Zenon
    <3> QED BY <2>1, <2>2, <3>2, Zenon DEF F, KeptNotes
  <2>7. NotesAfter(u, new)[k] = {n \in Delivered(u, j) : NullifierOf(u, n) \notin Nullified(j)}
    BY <2>3, <2>4, <2>5, <2>6, Zenon
  <2>8. k \in 0..N
    BY <1>3
  <2> QED BY <2>7, <2>8, Zenon DEF j
<1>8. N \in C
  <2> HIDE DEF C
  <2>1. \A k \in 0..N : k \in C
    BY <1>3, <1>6, <1>7, InductionUpTo, Zenon
  <2> QED BY <1>3, <2>1
<1> QED BY <1>3, <1>8, Zenon DEF N

\* A wallet that synchronises has what was delivered up to the last event.
LEMMA NotesSync ==
  ASSUME MinedInv, NoteInv, NEW u \in Users, Sync(u)
  PROVE  NoteInv'
<1>1. UNCHANGED <<args, request, sent, status, events, pc>>
  BY Zenon DEF Sync, commandVars, proverVars, chainVars
<1>2. PICK new : new = SubSeq(events, wallets[u].synced + 1, Len(events))
  BY Zenon
<1>3. /\ new # <<>>
      /\ wallets' = [wallets EXCEPT ![u] =
           [synced |-> Len(events), notes |-> NotesAfter(u, new)[Len(new)]]]
  BY <1>2, Zenon DEF Sync
<1>4. NotesAfter(u, new)[Len(new)]
        = {n \in Delivered(u, Len(events)) : NullifierOf(u, n) \notin Nullified(Len(events))}
  BY <1>2, <1>3, SyncedNotes, Zenon
<1>5. PICK N, k : N = NotesAfter(u, new)[Len(new)] /\ k = Len(events)
  BY Zenon
<1>6. k \in Nat /\ k = Len(events')
  BY <1>1, <1>5 DEF MinedInv, EventsInv
<1>7. wallets' = [v \in Users |-> IF v = u THEN [synced |-> k, notes |-> N] ELSE wallets[v]]
  <2>1. wallets = [v \in Users |-> wallets[v]]
    BY Zenon DEF NoteInv, WalletsInv
  <2> QED BY <1>3, <1>5, <2>1, Zenon
<1>8. Onward
  BY <1>1, <1>6 DEF Onward, MinedInv, EventsInv
<1>9. ArgsInv' /\ \A d : Fits(d)' = Fits(d)
  BY <1>1, SameArgs, Zenon DEF NoteInv
<1>10. MadeInv'
  BY <1>1, <1>8, MadeStays, Zenon DEF NoteInv, MadeInv
<1>11. ChainInv'
  BY <1>1, <1>8, ChainStays, Zenon DEF NoteInv
<1>12. OnceInv'
  BY <1>1, <1>9, Zenon DEF NoteInv, OnceInv
<1>13. ASSUME NEW v \in Users
       PROVE  /\ wallets'[v] = [synced |-> wallets'[v].synced, notes |-> wallets'[v].notes]
              /\ wallets'[v].synced \in 0..Len(events')
              /\ wallets'[v].notes = {n \in Delivered(v, wallets[v].synced)' :
                                        NullifierOf(v, n) \notin Nullified(wallets[v].synced)'}
  <2>1. PICK m : m = wallets'[v].synced
    BY Zenon
  <2>2. CASE v = u
    <3>1. wallets'[v] = [synced |-> k, notes |-> N]
      BY <1>7, <2>2, Zenon
    <3>2. m = k /\ wallets'[v].notes = N
      BY <2>1, <3>1
    <3>3. m \in 0..Len(events) /\ m \in 0..Len(events')
      BY <1>1, <1>6, <3>2
    <3>4. Delivered(u, m)' = Delivered(u, m) /\ Nullified(m)' = Nullified(m)
      BY <1>8, <3>3, DeliveredStays, Zenon DEF Onward
    <3>5. N = {n \in Delivered(u, m) : NullifierOf(u, n) \notin Nullified(m)}
      BY <1>4, <1>5, <3>2, Zenon
    <3>6. N = {n \in Delivered(v, m)' : NullifierOf(v, n) \notin Nullified(m)'}
      BY <2>2, <3>4, <3>5, Zenon
    <3>7. wallets'[v] = [synced |-> wallets'[v].synced, notes |-> wallets'[v].notes]
      BY <3>1, Zenon
    <3>8. Delivered(v, wallets[v].synced)' = Delivered(v, m)' /\ Nullified(wallets[v].synced)' = Nullified(m)'
      BY <2>1, Zenon
    <3> QED BY <2>1, <3>2, <3>3, <3>6, <3>7, <3>8, Zenon
  <2>3. CASE v # u
    <3>1. wallets'[v] = wallets[v]
      BY <1>7, <2>3, Zenon
    <3>2. /\ wallets[v] = [synced |-> wallets[v].synced, notes |-> wallets[v].notes]
          /\ wallets[v].synced \in 0..Len(events)
          /\ wallets[v].notes = {n \in Delivered(v, wallets[v].synced) :
                                   NullifierOf(v, n) \notin Nullified(wallets[v].synced)}
      <4>1. wallets = [x \in Users |-> [synced |-> wallets[x].synced, notes |-> wallets[x].notes]]
        BY Zenon DEF NoteInv, WalletsInv
      <4>2. wallets[v] = [synced |-> wallets[v].synced, notes |-> wallets[v].notes]
        BY <4>1, Zenon
      <4> QED BY <4>2, Zenon DEF NoteInv, WalletsInv
    <3>3. m = wallets[v].synced /\ m \in 0..Len(events)
      BY <2>1, <3>1, <3>2, Zenon
    <3>4. Delivered(v, m)' = Delivered(v, m) /\ Nullified(m)' = Nullified(m)
      BY <1>8, <3>3, DeliveredStays, Zenon DEF Onward
    <3>5. Delivered(v, wallets[v].synced)' = Delivered(v, m)' /\ Nullified(wallets[v].synced)' = Nullified(m)'
      BY <2>1, Zenon
    <3> QED BY <1>1, <3>1, <3>2, <3>3, <3>4, <3>5, Zenon
  <2> QED BY <2>2, <2>3, Zenon
<1>14. WalletsInv'
  <2>1. wallets' = [v \in Users |-> wallets'[v]]
    BY <1>7, Zenon
  <2>2. wallets' = [v \in Users |-> [synced |-> wallets'[v].synced, notes |-> wallets'[v].notes]]
    BY <1>13, <2>1, Zenon
  <2>3. ASSUME NEW v, NEW n PROVE NullifierOf(v, n)' = NullifierOf(v, n)
    BY Zenon DEF NullifierOf
  <2> QED BY <1>13, <2>2, <2>3, Zenon DEF WalletsInv
<1> QED BY <1>9, <1>10, <1>11, <1>12, <1>14, Zenon DEF NoteInv

\* Every step keeps the invariant.
LEMMA NoteInductive == MinedInv /\ NoteInv /\ [Next]_vars => NoteInv'
<1> SUFFICES ASSUME MinedInv, NoteInv, [Next]_vars PROVE NoteInv'
  BY Zenon
<1>0. \A c \in Commands : pc[c] \in Working \ {"start"} => Fits(c)
  BY Zenon DEF NoteInv, OnceInv
<1>1. ASSUME NEW c \in Commands, Step(c) PROVE NoteInv'
  <2> DEFINE Kept == UNCHANGED <<args, request, sent, status, events, wallets>>
  <2>1. CASE Start(c)
    <3>1. PICK w : Go(c, w) /\ (w \in Working => Fits(c)) /\ Kept /\ pc[c] \in Working
      BY <2>1, Zenon DEF Start, Fits, JS_INPUTS, JS_OUTPUTS, commandVars, proverVars, chainVars, Working, Preparing
    <3> QED BY <3>1, NotesMoveOn, Zenon
  <2>2. CASE FindConfig(c)
    <3>1. PICK w : Go(c, w) /\ Kept /\ pc[c] \in Working \ {"start"}
      BY <2>2 DEF FindConfig, commandVars, proverVars, chainVars, Working, Preparing
    <3> QED BY <1>0, <3>1, NotesMoveOn, Zenon
  <2>3. CASE ReadConfig(c)
    <3>1. PICK w : Go(c, w) /\ Kept /\ pc[c] \in Working \ {"start"}
      BY <2>3 DEF ReadConfig, Configured, proverVars, chainVars, Working, Preparing
    <3> QED BY <1>0, <3>1, NotesMoveOn, Zenon
  <2>4. CASE UnlinkConfig(c)
    <3>1. PICK w : Go(c, w) /\ Kept /\ pc[c] \in Working \ {"start"}
      BY <2>4, Zenon DEF UnlinkConfig, proverVars, chainVars, Working, Preparing
    <3> QED BY <1>0, <3>1, NotesMoveOn, Zenon
  <2>5. CASE FetchConfig(c)
    <3>1. PICK w : Go(c, w) /\ Kept /\ pc[c] \in Working \ {"start"}
      BY <2>5 DEF FetchConfig, proverVars, chainVars, Working, Preparing
    <3> QED BY <1>0, <3>1, NotesMoveOn, Zenon
  <2>6. CASE WriteConfig(c)
    <3>1. PICK w : Go(c, w) /\ Kept /\ pc[c] \in Working \ {"start"}
      BY <2>6, Zenon DEF WriteConfig, Configured, proverVars, chainVars, Working, Preparing
    <3> QED BY <1>0, <3>1, NotesMoveOn, Zenon
  <2>7. CASE OpenWallet(c)
    BY <2>7, NotesOpenWallet, Zenon
  <2>8. CASE ProveStarts(c)
    <3>1. PICK w : Go(c, w) /\ Kept /\ pc[c] \in Working \ {"start"}
      BY <2>8 DEF ProveStarts, commandVars, chainVars, Working
    <3> QED BY <1>0, <3>1, NotesMoveOn, Zenon
  <2>9. CASE ReadNonce(c)
    <3>1. PICK w : Go(c, w) /\ Kept /\ pc[c] \in Working \ {"start"}
      BY <2>9, Zenon DEF ReadNonce, commandVars, proverVars, Working
    <3> QED BY <1>0, <3>1, NotesMoveOn, Zenon
  <2>10. CASE Refused(c)
    <3>1. PICK w : Go(c, w) /\ Kept /\ pc[c] \in Working \ {"start"}
      BY <2>10 DEF Refused, commandVars, proverVars, chainVars, Working
    <3> QED BY <1>0, <3>1, NotesMoveOn, Zenon
  <2>11. CASE NonceTaken(c)
    <3>1. PICK w : Go(c, w) /\ Kept /\ pc[c] \in Working \ {"start"}
      BY <2>11, Zenon DEF NonceTaken, commandVars, proverVars, chainVars, Working
    <3> QED BY <1>0, <3>1, NotesMoveOn, Zenon
  <2>12. CASE Broadcast(c)
    BY <2>12, NotesBroadcast, Zenon
  <2> QED BY <1>1, <2>1, <2>2, <2>3, <2>4, <2>5, <2>6, <2>7, <2>8, <2>9, <2>10, <2>11, <2>12, Zenon
          DEF Step
<1>2. ASSUME NEW c \in Commands, ProveEnds(c) PROVE NoteInv'
  <2>1. PICK w : /\ Go(c, w) /\ (w # pc[c] => pc[c] = "proving")
                 /\ UNCHANGED <<args, request, sent, status, events, wallets>>
    BY <1>2, Zenon DEF ProveEnds, commandVars, chainVars
  <2>2. "proving" \in Working \ {"start"}
    BY Zenon DEF Working
  <2>3. (w \in Working => pc[c] \in Working) /\ (w \in Working \ {"start"} => Fits(c))
    BY <1>0, <2>1, <2>2, Zenon
  <2> QED BY <2>1, <2>3, NotesMoveOn, Zenon
<1>3. ASSUME NEW c \in Commands, Crash(c) PROVE NoteInv'
  <2>1. Go(c, "failed") /\ UNCHANGED <<args, request, sent, status, events, wallets>>
    BY <1>3, Zenon DEF Crash, proverVars, chainVars
  <2>2. "failed" \notin Working
    BY Zenon DEF Working, Preparing
  <2> QED BY <2>1, <2>2, NotesMoveOn, Zenon
<1>4. CASE UNCHANGED vars
  <2>1. UNCHANGED <<args, request, sent, status, events, wallets, pc>>
    BY <1>4, Zenon DEF vars, commandVars, proverVars, chainVars
  <2>2. Onward
    BY <2>1 DEF Onward, MinedInv, EventsInv
  <2>3. ArgsInv' /\ \A d : Fits(d)' = Fits(d)
    BY <2>1, SameArgs, Zenon DEF NoteInv
  <2>4. MadeInv'
    BY <2>1, <2>2, MadeStays, Zenon DEF NoteInv, MadeInv
  <2>5. ChainInv' /\ WalletsInv'
    BY <2>1, <2>2, ChainStays, WalletsStay, Zenon DEF NoteInv
  <2>6. OnceInv'
    BY <2>1, <2>3, Zenon DEF NoteInv, OnceInv
  <2> QED BY <2>3, <2>4, <2>5, <2>6, Zenon DEF NoteInv
<1>5. ASSUME NEW c \in Commands, Mine(c) PROVE NoteInv'
  BY <1>5, NotesMine, Zenon
<1>6. ASSUME NEW u \in Users, Sync(u) PROVE NoteInv'
  BY <1>6, NotesSync, Zenon
<1> QED BY <1>1, <1>2, <1>3, <1>4, <1>5, <1>6, Zenon DEF Next

(* A wallet has exactly the notes that the mined commands its user has seen *)
(* sent to that user and that none of them spent (WalletsExact), for any    *)
(* number of users, commands, crashes and notes at the start, and for every *)
(* order in which commands are prepared, proved, replaced, mined and seen.  *)
(* A note counts as sent when its commitment was emitted, as it is for      *)
(* every command that had the prover's board to itself (MinedIsAsked).      *)
THEOREM WalletsAreExact == Spec => []WalletsExact
<1>1. Spec => []NoteInv
  BY MinedInvariant, NoteInit, NoteInductive, PTL DEF Spec
<1> QED BY <1>1, MinedInvariant, NotesAreExact, PTL
=============================================================================
