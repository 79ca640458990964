--------------------------- MODULE MpcPhase1Proofs ---------------------------
(***************************************************************************)
(* Proofs about the coordinator with its phase-1 handler, for every number *)
(* of contributors and of crashes, if no slot is overrun.                  *)
(***************************************************************************)
EXTENDS MpcPhase1, MpcServerProofs

(* The handler is at work only inside a call. *)
CallInv ==
  /\ hpc # "idle" => ppc = "start"
  /\ fpc # "idle" => cpc = "start"

\* No call is open at first.
LEMMA CallInit == Phase1Init => CallInv
  BY Zenon DEF Phase1Init, CallInv

\* The handler answers the server as MpcServer lets it.
LEMMA Phase1Server ==
  ASSUME CallInv, [Phase1Next]_phase1Vars
  PROVE  [Next]_vars
<1> USE DEF Next, HttpStep, ProcStep
<1>1. CASE Phase1Start
  BY <1>1, Zenon DEF Phase1Start
<1>2. CASE Phase1Crash
  BY <1>2, Zenon DEF Phase1Crash
<1>3. CASE Download
  BY <1>3, Zenon DEF Download
<1>4. CASE Upload
  BY <1>4, Zenon DEF Upload
<1>5. CASE Phase1Cleanup
  BY <1>5, Zenon DEF Phase1Cleanup
<1>6. CASE OtherServerStep
  BY <1>6, ZenonT(30) DEF OtherServerStep
<1>7. CASE ProcessStep
  <2>1. CASE TakeResponse \/ AppendResponse \/ CountContribution \/ SaveCount
    BY <2>1, Zenon DEF TakeResponse, AppendResponse, CountContribution, SaveCount
  <2>2. CASE VerifyContribution
    BY <2>2, Zenon DEF VerifyContribution, HandlerReturns, vars, memVars, CallInv
  <2>3. CASE PromoteChallenge
    BY <2>3, Zenon DEF PromoteChallenge, HandlerReturns, CallInv
  <2> QED BY <1>7, <2>1, <2>2, <2>3, Zenon DEF ProcessStep
<1>8. CASE CompleteStep
  <2>1. CASE ValidateTranscript
    BY <2>1, ZenonT(30) DEF ValidateTranscript, HandlerReturns, vars, memVars
  <2>2. CASE PublishOutput
    BY <2>2, Zenon DEF PublishOutput, HandlerReturns, vars, memVars, CallInv
  <2>3. CASE PublishTranscript
    BY <2>3, Zenon DEF PublishTranscript, HandlerReturns, CallInv
  <2> QED BY <1>8, <2>1, <2>2, <2>3, Zenon DEF CompleteStep
<1>9. CASE UNCHANGED phase1Vars
  BY <1>9, Zenon DEF phase1Vars
<1> QED BY <1>1, <1>2, <1>3, <1>4, <1>5, <1>6, <1>7, <1>8, <1>9, Zenon DEF Phase1Next

\* What a step of the server alone means for slots and uploads.
LEMMA QuietSteps ==
  ASSUME ServerInv, Download \/ OtherServerStep
  PROVE  (SlotStep /\ UploadStep) \/ Elapse
<1>1. CASE Download
  BY <1>1, ThreadIsSlotStep, Zenon DEF Download, ThreadStep
<1>2. CASE OtherServerStep
  BY <1>2, ThreadIsSlotStep, ZenonT(30) DEF OtherServerStep, ThreadStep
<1> QED BY <1>1, <1>2, Zenon

\* The handler works inside the calls, and returns before they end.
LEMMA CallPreserved ==
  ASSUME ServerInv, CallInv, [Phase1Next]_phase1Vars
  PROVE  CallInv'
<1> USE DEF CallInv
<1>1. CASE Phase1Start
  BY <1>1, Zenon DEF Phase1Start, Start, callVars
<1>2. CASE Phase1Crash
  BY <1>2, Zenon DEF Phase1Crash
<1>3. CASE Download \/ OtherServerStep
  <2>1. UNCHANGED <<hpc, fpc>>
    BY <1>3, ZenonT(30) DEF Download, OtherServerStep, handlerVars
  <2>2. (ppc = "start" => ppc' = "start") /\ (cpc = "start" => cpc' = "start")
    BY <1>3, QuietSteps, Zenon DEF UploadStep, Elapse, callVars
  <2> QED BY <2>1, <2>2, Zenon
<1>4. CASE Upload \/ Phase1Cleanup
  BY <1>4, UploadIsSlotStep, Zenon DEF Upload, Phase1Cleanup, handlerVars
<1>5. CASE ProcessStep
  BY <1>5, Zenon DEF ProcessStep, TakeResponse, VerifyContribution, AppendResponse,
              CountContribution, SaveCount, PromoteChallenge, vars
<1>6. CASE CompleteStep
  BY <1>6, ZenonT(30) DEF CompleteStep, ValidateTranscript, PublishOutput,
              PublishTranscript, vars
<1>7. CASE UNCHANGED phase1Vars
  BY <1>7, Zenon DEF phase1Vars, vars, handlerVars
<1> QED BY <1>1, <1>2, <1>3, <1>4, <1>5, <1>6, <1>7, Zenon DEF Phase1Next
-----------------------------------------------------------------------------
(* What the files hold. *)
Response == [by : Contributors, base : Seq(Contributors), good : BOOLEAN]
AtMostOne(f) == \A x, y \in f : x = y

FilesOK ==
  /\ hpc \in {"idle", "verify", "append", "count", "save", "promote"}
  /\ fpc \in {"idle", "output", "transcript"}
  /\ upload \in SUBSET Response /\ response \in SUBSET Response
  /\ challenge \in SUBSET Seq(Contributors) /\ newChallenge \in SUBSET Seq(Contributors)
  /\ finalOutput \in SUBSET Seq(Contributors)
  /\ got \in [Contributors -> SUBSET Seq(Contributors)]
  /\ AtMostOne(upload) /\ AtMostOne(response)
  /\ AtMostOne(challenge) /\ AtMostOne(newChallenge) /\ AtMostOne(finalOutput)

(* The upload waits for the handler, which moves it; once it is verified   *)
(* the new challenge extends the current one by the uploader.              *)
HandlerInv ==
  /\ processing => \A r \in upload : r.by = uploader
  /\ pc["proc"] = "start" \/ (ppc = "start" /\ hpc = "idle") => upload # {}
  /\ hpc = "verify" => \E r \in response : r.by = uploader
  /\ hpc \in {"append", "count", "save", "promote"} =>
       challenge # {} /\ newChallenge = {Append(Content(challenge), uploader)}
  /\ fpc = "output" => transcript # {}

\* A file holds what it was found to hold.
LEMMA ContentOf ==
  ASSUME NEW f, NEW x \in f, AtMostOne(f)
  PROVE  Content(f) = x /\ f = {x}
  BY Zenon DEF Content, AtMostOne

\* The verified response is the uploader's.
LEMMA VerifyExtends ==
  ASSUME ServerInv, FilesOK, HandlerInv, VerifyContribution
  PROVE  \/ hpc' = "idle" /\ UNCHANGED newChallenge
         \/ /\ hpc' = "append" /\ challenge # {}
            /\ newChallenge' = {Append(Content(challenge), uploader)}
            /\ Append(Content(challenge), uploader) \in Seq(Contributors)
<1>1. PICK r \in response : r.by = uploader
  BY Zenon DEF VerifyContribution, HandlerInv
<1>2. Content(response) = r
  BY <1>1, ContentOf, Zenon DEF FilesOK
<1>3. uploader \in Contributors
  BY Zenon DEF ServerInv, SavedInv, AdvanceInv, ExclusionInv, TypeOK
<1>4. ASSUME NEW c \in challenge
      PROVE  Append(Content(challenge), uploader) \in Seq(Contributors)
  <2>1. AtMostOne(challenge) /\ c \in Seq(Contributors)
    BY <1>4, Zenon DEF FilesOK
  <2>2. Content(challenge) = c
    BY <1>4, <2>1, ContentOf, ZenonT(30)
  <2> QED BY <1>3, <2>1, <2>2
<1> QED BY <1>1, <1>2, <1>4, Zenon DEF VerifyContribution

\* Files keep their types.
LEMMA FilesPreserved ==
  ASSUME ServerInv, ServerInv', FilesOK, HandlerInv, [Phase1Next]_phase1Vars
  PROVE  FilesOK'
<1> USE DEF FilesOK
<1>1. CASE Phase1Start
  <2>1. challenge' = challenge \/ challenge' = {<<>>}
    BY <1>1, Zenon DEF Phase1Start
  <2>2. challenge' \in SUBSET Seq(Contributors) /\ AtMostOne(challenge')
    <3>1. <<>> \in Seq(Contributors)
      OBVIOUS
    <3>2. CASE challenge' = challenge
      BY <3>2, Zenon
    <3>3. CASE challenge' = {<<>>}
      BY <3>1, <3>3, ZenonT(30) DEF AtMostOne
    <3> QED BY <2>1, <3>2, <3>3, Zenon
  <2> QED BY <1>1, <2>2, Zenon DEF Phase1Start
<1>2. CASE Phase1Crash
  BY <1>2, Zenon DEF Phase1Crash, files
<1>3. CASE Download
  <2>1. PICK r \in req : got' = [got EXCEPT ![r.who] = challenge]
    BY <1>3, ZenonT(30) DEF Download
  <2>2. got' \in [Contributors -> SUBSET Seq(Contributors)]
    BY <2>1, ZenonT(30)
  <2> QED BY <1>3, <2>2, Zenon DEF Download, handlerVars, files
<1>4. CASE Upload
  <2>1. PICK r \in Responses(uploader') : upload' = {r}
    BY <1>4, Zenon DEF Upload
  <2>2. uploader' \in Contributors
    BY Zenon DEF ServerInv, SavedInv, AdvanceInv, ExclusionInv, TypeOK
  <2>3. got[uploader'] \in SUBSET Seq(Contributors) /\ <<>> \in Seq(Contributors)
    BY <2>2
  <2>4. \E c \in Seq(Contributors), b \in BOOLEAN : r = [by |-> uploader', base |-> c, good |-> b]
    BY <2>1, <2>3, Zenon DEF Responses
  <2>5. r \in Response
    BY <2>2, <2>4 DEF Response
  <2> QED BY <1>4, <2>1, <2>5, Zenon DEF Upload, handlerVars, files, AtMostOne
<1>5. CASE Phase1Cleanup
  BY <1>5, Zenon DEF Phase1Cleanup, handlerVars, files, AtMostOne
<1>6. CASE OtherServerStep
  BY <1>6, Zenon DEF OtherServerStep, handlerVars, files
<1>7. CASE VerifyContribution
  <2>1. newChallenge' \in SUBSET Seq(Contributors) /\ AtMostOne(newChallenge') /\ hpc' \in {"idle", "append"}
    BY <1>7, VerifyExtends, ZenonT(30) DEF AtMostOne
  <2> QED BY <1>7, <2>1, Zenon DEF VerifyContribution
<1>8. CASE TakeResponse
  BY <1>8, SMTT(30) DEF TakeResponse, AtMostOne
<1>11. CASE AppendResponse \/ CountContribution \/ SaveCount
  BY <1>11, SMTT(30) DEF AppendResponse, CountContribution, SaveCount
<1>12. CASE PromoteChallenge
  BY <1>12, SMTT(30) DEF PromoteChallenge, AtMostOne
<1>9. CASE CompleteStep
  <2>1. CASE ValidateTranscript
    BY <2>1, ZenonT(30) DEF ValidateTranscript, files
  <2>2. CASE PublishOutput \/ PublishTranscript
    BY <2>2, SMTT(30) DEF PublishOutput, PublishTranscript, AtMostOne
  <2> QED BY <1>9, <2>1, <2>2, Zenon DEF CompleteStep
<1>10. CASE UNCHANGED phase1Vars
  BY <1>10, Zenon DEF phase1Vars, handlerVars, files
<1> QED BY <1>1, <1>2, <1>3, <1>4, <1>5, <1>6, <1>7, <1>8, <1>9, <1>10, <1>11, <1>12, Zenon
        DEF Phase1Next, ProcessStep

\* Where a thread goes when _update_state returns or raises.
LEMMA UpdateLeaves ==
  \A t \in Threads : /\ AfterUpdate[t] \in {"launch", "idle", "body", "cleanup"}
                     /\ OnRaise[t] \in {"off", "dead", "idle", "cleanup"}
  BY DEF AfterUpdate, OnRaise, Threads

\* The relation of upload, challenge and uploader is kept by every step.
LEMMA HandlerPreserved ==
  ASSUME ServerInv, CallInv, FilesOK, HandlerInv, [Phase1Next]_phase1Vars
  PROVE  HandlerInv'
<1>1. ThreadInv /\ LockInv /\ CallsInv /\ uploader \in Contributors
  BY Zenon DEF ServerInv, SavedInv, AdvanceInv, ExclusionInv, TypeOK
<1>2. pc \in [Threads -> Updating \cup {"off", "launch", "run", "idle", "dead",
                    "body", "stream", "start", "handler", "cleanup"}]
  BY Zenon DEF ServerInv, SavedInv, AdvanceInv, ExclusionInv, TypeOK
<1>3. CASE Phase1Start
  <2>1. hpc = "idle" /\ fpc = "idle" /\ pc["proc"] = "off" /\ ppc = "idle" /\ ~processing
    BY <1>1, <1>3, CallsExclude, Zenon DEF Phase1Start, Start, CallInv, CallsInv, ThreadInv, LockInv,
       Threads, Updating
  <2>2. pc'["proc"] = "off"
    BY <1>2, <1>3, <2>1, Zenon DEF Phase1Start, Start, Goto, Threads
  <2> QED BY <1>3, <2>1, <2>2, Zenon DEF Phase1Start, Start, HandlerInv, callVars
<1>4. CASE Phase1Crash
  BY <1>4, Zenon DEF Phase1Crash, Crash, HandlerInv, Threads
<1>5. CASE Download \/ OtherServerStep
  <2>1. UNCHANGED <<hpc, fpc, upload, response, challenge, newChallenge, transcript>>
    BY <1>5, ZenonT(30) DEF Download, OtherServerStep, handlerVars, files
  <2>2. UNCHANGED <<processing, uploader>>
    BY <1>5, QuietSteps, Zenon DEF UploadStep, Elapse
  <2>3. pc'["proc"] = "start" \/ (ppc' = "start" /\ hpc = "idle") =>
          pc["proc"] = "start" \/ (ppc = "start" /\ hpc = "idle")
    <3>1. ASSUME NEW t \in Threads, UpdateStep(t)
          PROVE  ppc' = ppc /\ (pc'["proc"] = "start" => pc["proc"] = "start")
      <4>1. AfterUpdate[t] # "start" /\ OnRaise[t] # "start"
        BY UpdateLeaves, Zenon
      <4>2. ppc' = ppc
        BY <3>1, ZenonT(30) DEF UpdateStep, UpdateCheck, ReadIndex, WriteIndex, SetDeadline,
             Finalize, Completed, OpenState, FlushState, callVars
      <4>3. \E w : w # "start" /\ pc' = [pc EXCEPT ![t] = w]
        <5>1. CASE UpdateCheck(t) \/ ReadIndex(t) \/ WriteIndex(t) \/ SetDeadline(t)
          BY <4>1, <5>1, Zenon DEF UpdateCheck, ReadIndex, WriteIndex, SetDeadline, Return, Goto
        <5>2. CASE Finalize(t) \/ Completed(t) \/ OpenState(t) \/ FlushState(t)
          BY <4>1, <5>2, Zenon DEF Finalize, Completed, OpenState, FlushState, Return, Raise, Goto
        <5> QED BY <3>1, <5>1, <5>2, Zenon DEF UpdateStep
      <4>4. "proc" \in Threads
        BY Zenon DEF Threads
      <4>5. pc'["proc"] = "start" => pc["proc"] = "start"
        BY <1>2, <4>3, <4>4, Zenon
      <4> QED BY <4>2, <4>5, Zenon
    <3>2. CASE Launch \/ TickBegin \/ HttpRefuse \/ HttpStream \/ Elapse
      BY <1>2, <3>2, Zenon DEF Launch, TickBegin, HttpRefuse, HttpStream, Elapse, Goto, callVars, Threads
    <3>3. CASE ProcCall \/ ProcReturn
      BY <1>2, <3>3, Zenon DEF ProcCall, ProcReturn, Goto, Threads
    <3>4. CASE \E r \in Requests : HttpBegin(r)
      BY <1>2, <3>4, Zenon DEF HttpBegin, Goto, callVars, Threads
    <3>5. CASE HttpChallenge(TRUE)
      BY <1>2, <3>5, Zenon DEF HttpChallenge, Goto, callVars, Threads
    <3> QED BY <1>5, <3>1, <3>2, <3>3, <3>4, <3>5, ZenonT(30) DEF Download, OtherServerStep
  <2> QED BY <2>1, <2>2, <2>3, Zenon DEF HandlerInv
<1>6. CASE Upload
  <2>1. ppc = "idle" /\ ppc' = "idle"
    BY <1>6, UploadIsSlotStep, Zenon DEF Upload
  <2>2. hpc = "idle" /\ UNCHANGED <<hpc, fpc, transcript>>
    BY <1>6, <2>1, Zenon DEF CallInv, Upload, handlerVars, files
  <2>3. PICK r \in Responses(uploader') : upload' = {r}
    BY <1>6, Zenon DEF Upload
  <2>4. r.by = uploader'
    BY <2>3 DEF Responses
  <2> QED BY <2>1, <2>2, <2>3, <2>4, Zenon DEF HandlerInv
<1>7. CASE Phase1Cleanup
  <2>1. ppc = "idle" /\ ppc' = "idle"
    BY <1>7, UploadIsSlotStep, Zenon DEF Phase1Cleanup
  <2>2. hpc = "idle" /\ UNCHANGED <<hpc, fpc, transcript>> /\ upload' = {}
    BY <1>7, <2>1, Zenon DEF CallInv, Phase1Cleanup, handlerVars, files
  <2>3. pc'["proc"] = "off"
    BY <1>2, <1>7, Zenon DEF Phase1Cleanup, ProcCleanup, Goto, Threads
  <2> QED BY <2>1, <2>2, <2>3, Zenon DEF HandlerInv
<1>8. CASE ProcessStep
  <2>1. ppc = "start"
    BY <1>8, Zenon DEF ProcessStep, TakeResponse, VerifyContribution, AppendResponse,
                CountContribution, SaveCount, PromoteChallenge, CallInv
  <2>2. pc["proc"] = "handler" /\ processing /\ fpc = "idle"
    BY <1>1, <2>1, CallsExclude, Zenon DEF CallsInv, LockInv, CallInv
  <2>3. UNCHANGED <<pc, processing, uploader, fpc>>
    BY <1>8, ZenonT(30) DEF ProcessStep, TakeResponse, VerifyContribution, AppendResponse,
                CountContribution, SaveCount, PromoteChallenge, vars, memVars
  <2>4. CASE TakeResponse
    <3>1. upload # {} /\ \A r \in upload : r.by = uploader
      BY <2>1, <2>2, <2>4, SMTT(30) DEF TakeResponse, HandlerInv
    <3>2. hpc' = "verify" /\ response' = upload /\ upload' = {}
      BY <2>4, Zenon DEF TakeResponse
    <3>3. \E r \in response' : r.by = uploader'
      BY <2>3, <3>1, <3>2, ZenonT(30)
    <3> QED BY <2>2, <2>3, <3>2, <3>3, Zenon DEF HandlerInv
  <2>5. CASE VerifyContribution
    <3>1. UNCHANGED <<upload, challenge>> /\ (hpc' = "idle" => ppc' = "false")
      BY <2>5, Zenon DEF VerifyContribution
    <3> QED BY <2>2, <2>3, <2>5, <3>1, VerifyExtends, ZenonT(30) DEF HandlerInv
  <2>6. CASE AppendResponse \/ CountContribution \/ SaveCount
    <3>1. /\ hpc \in {"append", "count", "save"}
          /\ hpc' \in {"count", "save", "promote"}
      BY <2>6, Zenon DEF AppendResponse, CountContribution, SaveCount
    <3>2. UNCHANGED <<upload, challenge, newChallenge>>
      BY <2>6, Zenon DEF AppendResponse, CountContribution, SaveCount
    <3>3. challenge # {} /\ newChallenge = {Append(Content(challenge), uploader)}
      BY <3>1, Zenon DEF HandlerInv
    <3>4. \A r \in upload : r.by = uploader
      BY <2>2, Zenon DEF HandlerInv
    <3> QED BY <2>2, <2>3, <3>1, <3>2, <3>3, <3>4, Zenon DEF HandlerInv
  <2>7. CASE PromoteChallenge
    <3>1. hpc' = "idle" /\ ppc' = "true" /\ upload' = upload
      BY <2>7, Zenon DEF PromoteChallenge
    <3>2. \A r \in upload : r.by = uploader
      BY <2>2 DEF HandlerInv
    <3> QED BY <2>2, <2>3, <3>1, <3>2, Zenon DEF HandlerInv
  <2> QED BY <1>8, <2>4, <2>5, <2>6, <2>7, SMTT(30) DEF ProcessStep
<1>9. CASE CompleteStep
  <2>1. cpc = "start"
    BY <1>9, ZenonT(30) DEF CompleteStep, ValidateTranscript, PublishOutput, PublishTranscript, CallInv
  <2>2. hpc = "idle" /\ ppc = "idle"
    BY <2>1, CallsExclude, Zenon DEF CallInv
  <2>3. UNCHANGED <<pc, processing, uploader, hpc, ppc, upload>>
    BY <1>9, ZenonT(30) DEF CompleteStep, ValidateTranscript, PublishOutput, PublishTranscript, memVars
  <2>4. fpc' = "output" => transcript' # {}
    BY <1>9, ZenonT(30) DEF CompleteStep, ValidateTranscript, PublishOutput, PublishTranscript,
                Verdicts, files
  <2> QED BY <2>2, <2>3, <2>4, Zenon DEF HandlerInv
<1>10. CASE UNCHANGED phase1Vars
  BY <1>10, ZenonT(30) DEF phase1Vars, vars, handlerVars, files, HandlerInv
<1> QED BY <1>3, <1>4, <1>5, <1>6, <1>7, <1>8, <1>9, <1>10, Zenon DEF Phase1Next
-----------------------------------------------------------------------------
(* Contributors are in the challenge in order, none of them after the      *)
(* current slot, nor after the slot that a restart would resume.           *)
Sorted(c) == \A i, j \in DOMAIN c : i <= j => c[i] <= c[j]

OrderInv ==
  /\ ContributionsInOrder
  /\ stateFile = {} => pc["main"] \in {"off", "open"}
  /\ \A c \in challenge : \A i \in DOMAIN c :
       /\ stateFile # {}
       /\ pc["main"] # "off" => c[i] <= idx
       /\ \A s \in stateFile \ {Torn} : c[i] <= s.idx

\* The steps of the threads keep the order: slots only advance.
LEMMA SlotKeepsOrder ==
  ASSUME ServerInv, FilesOK, OrderInv, UNCHANGED <<challenge, finalOutput>>,
         SlotStep \/ Elapse
  PROVE  OrderInv'
<1>1. idx \in Nat /\ stateFile \in SUBSET (States \cup {Torn})
  BY Zenon DEF ServerInv, SavedInv, AdvanceInv, ExclusionInv, TypeOK
<1>2. \A c \in challenge : \A i \in DOMAIN c : c[i] \in Nat
  BY ServerAssumption DEF FilesOK, Contributors
<1>3. ContributionsInOrder'
  BY Zenon DEF OrderInv, ContributionsInOrder
<1>4. CASE SlotStep
  <2>1. ASSUME NEW c \in challenge, NEW i \in DOMAIN c
        PROVE  /\ stateFile' # {} /\ c[i] <= idx'
               /\ \A s \in stateFile' \ {Torn} : c[i] <= s.idx
    BY <1>1, <1>2, <1>4 DEF SlotStep, OrderInv
  <2>2. stateFile' = {} => pc'["main"] \in {"off", "open"}
    BY <1>4, Zenon DEF SlotStep, OrderInv
  <2> QED BY <1>3, <2>1, <2>2, Zenon DEF OrderInv
<1>5. CASE Elapse
  <2>1. \A s \in States \cup {Torn} : Passed(s).idx = s.idx /\ (s = Torn => Passed(s) = Torn)
    BY DEF Passed, States, Torn
  <2>2. UNCHANGED <<idx, pc>> /\ stateFile' = {Passed(s) : s \in stateFile}
    BY <1>5, Zenon DEF Elapse
  <2>3. \A s \in stateFile' \ {Torn} : \E r \in stateFile \ {Torn} : s.idx = r.idx
    BY <1>1, <2>1, <2>2, Zenon
  <2>4. stateFile' = {} <=> stateFile = {}
    BY <2>2, Zenon
  <2> QED BY <1>3, <2>2, <2>3, <2>4, Zenon DEF OrderInv
<1> QED BY <1>4, <1>5, Zenon

(* The rename that accepts a contribution adds the owner of the current    *)
(* slot, which the state file names too.                                   *)
LEMMA PromoteKeepsOrder ==
  ASSUME ServerInv, CallInv, FilesOK, HandlerInv, OrderInv, PromoteChallenge
  PROVE  OrderInv'
<1>1. ppc = "start" /\ pc["proc"] = "handler" /\ hpc = "promote"
  BY Zenon DEF PromoteChallenge, CallInv, ServerInv, CallsInv
<1>2. uploader = idx /\ idx \in Nat /\ uploader \in Contributors /\ pc["main"] = "run"
  BY <1>1, Zenon DEF ServerInv, SavedInv, AdvanceInv, SlotInv, UploadInOwnSlot, ExclusionInv,
              TypeOK, ThreadInv
<1>3. ~HaveAll(idx) /\ \A t \in Workers : pc[t] \notin Unsaved
  BY <1>1, <1>2, ServerAssumption
     DEF ServerInv, SavedInv, AdvanceInv, SlotInv, ExclusionInv, LockInv, Contributors,
         HaveAll, Workers, Unsaved, Updating
<1>4. \A s \in stateFile \ {Torn} : s.idx = idx
  BY <1>2, <1>3, Zenon DEF ServerInv, SavedInv, FileInv
<1>5. PICK c \in challenge : TRUE
  BY <1>1, Zenon DEF HandlerInv
<1>6. c \in Seq(Contributors) /\ Content(challenge) = c
  BY <1>5, ContentOf, Zenon DEF FilesOK
<1> DEFINE d == Append(c, idx)
<1>7. challenge' = {d}
  BY <1>1, <1>2, <1>6, Zenon DEF PromoteChallenge, HandlerInv
<1>8. \A i \in DOMAIN c : c[i] <= idx /\ c[i] \in Nat
  BY <1>2, <1>6, ServerAssumption DEF OrderInv, Contributors
<1>9. /\ DOMAIN c = 1 .. Len(c) /\ Len(c) \in Nat
      /\ DOMAIN d = 1 .. (Len(c) + 1) /\ d[Len(c) + 1] = idx
      /\ \A i \in 1 .. Len(c) : d[i] = c[i]
  BY <1>2, <1>6
<1>10. Sorted(c)
  BY <1>5, Zenon DEF OrderInv, ContributionsInOrder, Sorted
<1> HIDE DEF d
<1>11. Sorted(d) /\ \A i \in DOMAIN d : d[i] <= idx
  <2>1. \A i \in DOMAIN d : d[i] \in Nat /\ d[i] <= idx
    BY <1>2, <1>8, <1>9
  <2>2. ASSUME NEW i \in DOMAIN d, NEW j \in DOMAIN d, i <= j PROVE d[i] <= d[j]
    <3>1. CASE j = Len(c) + 1
      BY <1>9, <2>1, <3>1, Zenon
    <3>2. CASE j # Len(c) + 1
      BY <1>9, <1>10, <2>2, <3>2 DEF Sorted
    <3> QED BY <3>1, <3>2, Zenon
  <2> QED BY <2>1, <2>2, Zenon DEF Sorted
<1>12. UNCHANGED <<idx, pc, stateFile, finalOutput>>
  BY Zenon DEF PromoteChallenge, memVars
<1>13. ContributionsInOrder'
  BY <1>7, <1>11, <1>12, Zenon DEF OrderInv, ContributionsInOrder, Sorted
<1> QED BY <1>2, <1>4, <1>7, <1>11, <1>12, <1>13, Zenon DEF OrderInv

\* No step, and no crash, puts a contribution out of order.
LEMMA OrderPreserved ==
  ASSUME ServerInv, CallInv, FilesOK, HandlerInv, OrderInv, [Phase1Next]_phase1Vars
  PROVE  OrderInv'
<1>1. CASE Phase1Start
  <2>1. pc["main"] = "off" /\ UNCHANGED <<stateFile, finalOutput>>
    BY <1>1, Zenon DEF Phase1Start, Start
  <2>2. challenge' = challenge \/ challenge' = {<<>>}
    BY <1>1, Zenon DEF Phase1Start
  <2>3. \/ stateFile = {} /\ pc'["main"] = "open"
        \/ \E s \in stateFile \ {Torn} : idx' = s.idx
    BY <1>1, Zenon DEF Phase1Start, Start, Goto, Threads, ServerInv, SavedInv, AdvanceInv,
                ExclusionInv, TypeOK
  <2>4. DOMAIN <<>> = {}
    OBVIOUS
  <2>5. CASE challenge' = challenge
    BY <2>1, <2>3, <2>5, Zenon DEF OrderInv, ContributionsInOrder
  <2>6. CASE challenge' = {<<>>}
    BY <2>1, <2>3, <2>4, <2>6, Zenon DEF OrderInv, ContributionsInOrder
  <2> QED BY <2>2, <2>5, <2>6, Zenon
<1>2. CASE Phase1Crash
  BY <1>2, Zenon DEF Phase1Crash, Crash, files, OrderInv, ContributionsInOrder, Threads
<1>3. CASE Download \/ OtherServerStep
  <2>1. UNCHANGED <<challenge, finalOutput>>
    BY <1>3, ZenonT(30) DEF Download, OtherServerStep, files
  <2> QED BY <1>3, <2>1, QuietSteps, SlotKeepsOrder, Zenon
<1>4. CASE Upload \/ Phase1Cleanup
  <2>1. UNCHANGED <<challenge, finalOutput>>
    BY <1>4, Zenon DEF Upload, Phase1Cleanup, files
  <2> QED BY <1>4, <2>1, UploadIsSlotStep, SlotKeepsOrder, Zenon DEF Upload, Phase1Cleanup
<1>5. ASSUME UNCHANGED <<idx, pc, stateFile, challenge, finalOutput>> PROVE OrderInv'
  BY <1>5, SMTT(30) DEF OrderInv, ContributionsInOrder
<1>6. CASE TakeResponse \/ VerifyContribution \/ AppendResponse \/ CountContribution \/ SaveCount
  BY <1>5, <1>6, ZenonT(30) DEF TakeResponse, VerifyContribution, AppendResponse,
       CountContribution, SaveCount, vars, memVars
<1>7. CASE PromoteChallenge
  BY <1>7, PromoteKeepsOrder, Zenon
<1>8. CASE ValidateTranscript \/ PublishTranscript
  BY <1>5, <1>8, ZenonT(30) DEF ValidateTranscript, PublishTranscript, memVars, files
<1>9. CASE PublishOutput
  <2>1. /\ UNCHANGED <<idx, pc, stateFile>>
        /\ challenge' \subseteq challenge /\ finalOutput' \subseteq challenge \cup finalOutput
    BY <1>9, SMTT(30) DEF PublishOutput, memVars
  <2> QED BY <2>1, SMTT(30) DEF OrderInv, ContributionsInOrder
<1>10. CASE UNCHANGED phase1Vars
  BY <1>5, <1>10, SMTT(30) DEF phase1Vars, vars, files
<1> QED BY <1>1, <1>2, <1>3, <1>4, <1>6, <1>7, <1>8, <1>9, <1>10, Zenon
        DEF Phase1Next, ProcessStep, CompleteStep
-----------------------------------------------------------------------------
(* A thread that is about to save the end of the MPC has seen on_completed *)
(* return, and on_completed returns only after the output was moved.       *)
CompleteInv ==
  /\ CompleteImpliesOutput
  /\ finalized => HaveAll(idx)
  /\ \A t \in Threads :
       /\ pc[t] \in {"deadline", "finalize"} => ~finalized
       /\ pc[t] \in {"open", "flush"} /\ HaveAll(idx) => finalOutput # {}
  /\ cpc = "ok" \/ fpc = "transcript" => finalOutput # {}

\* The thread that ends the last slot saves only after on_completed.
LEMMA UpdateKeepsComplete ==
  ASSUME ServerInv, CompleteInv, NEW t \in Threads, UpdateStep(t),
         UNCHANGED <<fpc, finalOutput>>
  PROVE  CompleteInv'
<1>1. OneAdvancer
  BY AdvanceAlone, Zenon DEF ServerInv, SavedInv
<1>2. \A u \in Threads : pc[u] \in Updating \ {"check"} /\ pc[t] \in Updating \ {"check"} => u = t
  BY <1>1, Zenon DEF OneAdvancer, Advancing
<1>3. /\ pc \in [Threads -> Updating \cup {"off", "launch", "run", "idle", "dead",
                    "body", "stream", "start", "handler", "cleanup"}]
      /\ pc[t] = "write" => ~HaveAll(idx)
      /\ pc[t] = "flush" => buf[t].idx = idx
      /\ idx \in Nat /\ tmp \in [Threads -> Nat]
  BY SMTT(30) DEF ServerInv, SavedInv, AdvanceInv, ExclusionInv, TypeOK, MemoryInv
<1>12. AfterUpdate[t] \notin Updating /\ OnRaise[t] \notin Updating
  BY UpdateLeaves, Zenon DEF Updating
<1>13. ASSUME UNCHANGED <<idx, finalized, cpc, stateFile>>, NEW w, w \notin Updating \ {"read", "write"},
              pc' = [pc EXCEPT ![t] = w]
       PROVE  CompleteInv'
  <2>1. \A u \in Threads : pc'[u] \in {"deadline", "finalize", "open", "flush"} => pc'[u] = pc[u]
    BY <1>3, <1>13, Zenon DEF Updating
  <2>2. CompleteImpliesOutput'
    BY <1>13, Zenon DEF CompleteInv, CompleteImpliesOutput, HaveAll
  <2> QED BY <1>13, <2>1, <2>2, Zenon DEF CompleteInv, HaveAll
<1>4. CASE UpdateCheck(t)
  <2>1. \E w : w \notin Updating \ {"read", "write"} /\ pc' = [pc EXCEPT ![t] = w]
    <3>1. "read" \notin Updating \ {"read", "write"}
      BY Zenon
    <3> QED BY <1>4, <1>12, <3>1, Zenon DEF UpdateCheck, Return, Goto
  <2> QED BY <1>4, <1>13, <2>1, Zenon DEF UpdateCheck, memVars, callVars
<1>5. CASE ReadIndex(t)
  <2>1. "write" \notin Updating \ {"read", "write"}
    BY Zenon
  <2> QED BY <1>5, <1>13, <2>1, Zenon DEF ReadIndex, Goto, memVars, callVars
<1> USE <1>2, <1>3, ServerAssumption
        DEF CompleteInv, CompleteImpliesOutput, HaveAll, Goto, memVars, callVars, Updating
<1>6. CASE WriteIndex(t)
  BY <1>6, SMTT(30) DEF WriteIndex
<1>7. CASE SetDeadline(t)
  BY <1>7, SMTT(30) DEF SetDeadline
<1>8. CASE Finalize(t)
  BY <1>8, SMTT(30) DEF Finalize
<1>9. CASE Completed(t)
  BY <1>9, <1>12, SMTT(30) DEF Completed, Raise
<1>10. CASE OpenState(t)
  BY <1>10, SMTT(30) DEF OpenState
<1>11. CASE FlushState(t)
  BY <1>11, <1>12, SMTT(30) DEF FlushState, Return
<1> QED BY <1>4, <1>5, <1>6, <1>7, <1>8, <1>9, <1>10, <1>11, ZenonT(30) DEF UpdateStep

\* The other steps of the server save nothing.
LEMMA ServerKeepsComplete ==
  ASSUME ServerInv, CompleteInv, UNCHANGED <<fpc, finalOutput>>,
         ThreadStep \/ HttpAccept \/ ProcCleanup \/ Elapse
  PROVE  CompleteInv'
<1>1. CASE \E t \in Threads : UpdateStep(t)
  BY <1>1, UpdateKeepsComplete, Zenon
<1>2. /\ pc \in [Threads -> Updating \cup {"off", "launch", "run", "idle", "dead",
                    "body", "stream", "start", "handler", "cleanup"}]
      /\ stateFile \in SUBSET (States \cup {Torn})
  BY Zenon DEF ServerInv, SavedInv, AdvanceInv, ExclusionInv, TypeOK
<1>3. ASSUME UNCHANGED <<idx, finalized, cpc>>,
             \A s \in stateFile' \ {Torn} : \E r \in stateFile \ {Torn} : s.idx = r.idx,
             \A t \in Threads : pc'[t] \in {"deadline", "finalize", "open", "flush"} => pc'[t] = pc[t]
      PROVE  CompleteInv'
  BY <1>3, Zenon DEF CompleteInv, CompleteImpliesOutput, HaveAll
<1>4. CASE Launch
  BY <1>2, <1>3, <1>4, Zenon DEF Launch, memVars, callVars, Threads
<1>5. CASE TickBegin
  BY <1>2, <1>3, <1>5, Zenon DEF TickBegin, Goto, memVars, callVars, Threads
<1>6. CASE HttpRefuse \/ HttpStream
  BY <1>2, <1>3, <1>6, SMTT(30) DEF HttpRefuse, HttpStream, Goto, memVars, callVars, Threads
<1>7. CASE ProcCall \/ ProcReturn
  BY <1>2, <1>3, <1>7, Zenon DEF ProcCall, ProcReturn, Goto, memVars, callVars, Threads
<1>8. CASE \E r \in Requests : HttpBegin(r)
  BY <1>2, <1>3, <1>8, Zenon DEF HttpBegin, Goto, memVars, callVars, Threads
<1>9. CASE \E found \in BOOLEAN : HttpChallenge(found)
  BY <1>2, <1>3, <1>9, SMTT(30) DEF HttpChallenge, Goto, memVars, callVars, Threads
<1>10. CASE HttpAccept \/ ProcCleanup
  BY <1>2, <1>3, <1>10, Zenon DEF HttpAccept, ProcCleanup, Goto, memVars, callVars, Threads
<1>11. CASE Elapse
  <2>1. \A s \in States \cup {Torn} : Passed(s).idx = s.idx /\ (s = Torn => Passed(s) = Torn)
    BY SMTT(30) DEF Passed, States, Torn
  <2>2. UNCHANGED <<idx, finalized, cpc, pc>> /\ stateFile' = {Passed(s) : s \in stateFile}
    BY <1>11, ZenonT(30) DEF Elapse, callVars
  <2>3. \A s \in stateFile' \ {Torn} : \E r \in stateFile \ {Torn} : s.idx = r.idx
    BY <1>2, <2>1, <2>2
  <2> QED BY <1>3, <2>2, <2>3, Zenon
<1> QED BY <1>1, <1>4, <1>5, <1>6, <1>7, <1>8, <1>9, <1>10, <1>11, Zenon DEF ThreadStep

\* No step, and no crash, saves a completion without an output.
LEMMA CompletePreserved ==
  ASSUME ServerInv, CallInv, FilesOK, CompleteInv, [Phase1Next]_phase1Vars
  PROVE  CompleteInv'
<1>1. CASE Phase1Start
  <2>1. UNCHANGED <<stateFile, finalOutput, fpc, cpc>> /\ (finalized' => HaveAll(idx)')
    BY <1>1, ZenonT(30) DEF Phase1Start, Start, callVars, HaveAll
  <2>2. pc["main"] = "off" /\ pc["tick"] = "off" /\ pc["http"] = "off" /\ pc["proc"] = "off"
    BY <1>1, Zenon DEF Phase1Start, Start, ServerInv, SavedInv, AdvanceInv, ExclusionInv, ThreadInv
  <2>3. /\ pc'["main"] = "launch" \/ (pc'["main"] = "open" /\ idx' = 0)
        /\ \A t \in Workers : pc'[t] = "off"
    BY <1>1, <2>2 DEF Phase1Start, Start, Goto, Threads, Workers, ServerInv, SavedInv,
                      AdvanceInv, ExclusionInv, TypeOK
  <2>4. ASSUME NEW t \in Threads
        PROVE  /\ pc'[t] \notin {"deadline", "finalize", "flush"}
               /\ pc'[t] = "open" => ~HaveAll(idx)'
    BY <2>3, ServerAssumption DEF HaveAll, Threads, Workers
  <2>5. CompleteImpliesOutput'
    BY <2>1, Zenon DEF CompleteInv, CompleteImpliesOutput, HaveAll
  <2> QED BY <2>1, <2>4, <2>5, SMTT(30) DEF CompleteInv
<1>2. CASE Phase1Crash
  BY <1>2, Zenon DEF Phase1Crash, Crash, files, CompleteInv, CompleteImpliesOutput, HaveAll, Threads
<1>3. CASE Download \/ OtherServerStep
  <2>1. UNCHANGED <<fpc, finalOutput>>
    BY <1>3, ZenonT(30) DEF Download, OtherServerStep, files, handlerVars
  <2>2. ThreadStep \/ Elapse
    BY <1>3, ZenonT(30) DEF Download, OtherServerStep, ThreadStep
  <2> QED BY <2>1, <2>2, ServerKeepsComplete, Zenon
<1>4. CASE Upload \/ Phase1Cleanup
  BY <1>4, ServerKeepsComplete, Zenon DEF Upload, Phase1Cleanup, files, handlerVars
<1>5. ASSUME UNCHANGED <<idx, finalized, pc, stateFile>>,
             finalOutput # {} => finalOutput' # {},
             cpc' = "ok" \/ fpc' = "transcript" => finalOutput' # {}
      PROVE  CompleteInv'
  BY <1>5, SMTT(30) DEF CompleteInv, CompleteImpliesOutput, HaveAll
<1>6. CASE ProcessStep
  <2>1. UNCHANGED <<idx, finalized, pc, stateFile, cpc, fpc, finalOutput>>
    BY <1>6, ZenonT(30) DEF ProcessStep, TakeResponse, VerifyContribution, AppendResponse,
         CountContribution, SaveCount, PromoteChallenge, vars, memVars
  <2> QED BY <1>5, <2>1, Zenon DEF CompleteInv
<1>7. CASE ValidateTranscript
  <2>1. /\ UNCHANGED <<idx, finalized, pc, stateFile, finalOutput>>
        /\ cpc' \in {"start", "raise"} /\ fpc' \in {"idle", "output"}
    BY <1>7, ZenonT(30) DEF ValidateTranscript, memVars, files
  <2> QED BY <1>5, <2>1, Zenon
<1>8. CASE PublishOutput
  BY <1>5, <1>8, SMTT(30) DEF PublishOutput, memVars, CallInv
<1>9. CASE PublishTranscript
  <2>1. UNCHANGED <<idx, finalized, pc, stateFile, finalOutput>> /\ fpc = "transcript"
    BY <1>9, Zenon DEF PublishTranscript, memVars
  <2>2. finalOutput # {} /\ fpc' = "idle"
    BY <1>9, <2>1, Zenon DEF PublishTranscript, CompleteInv
  <2> QED BY <1>5, <2>1, <2>2, Zenon
<1>10. CASE UNCHANGED phase1Vars
  <2>1. UNCHANGED <<idx, finalized, pc, stateFile, cpc, fpc, finalOutput>>
    BY <1>10, Zenon DEF phase1Vars, vars, files, handlerVars
  <2> QED BY <1>5, <2>1 DEF CompleteInv
<1> QED BY <1>1, <1>2, <1>3, <1>4, <1>6, <1>7, <1>8, <1>9, <1>10, SMTT(30)
        DEF Phase1Next, CompleteStep
-----------------------------------------------------------------------------
(* Until a crash, contributors are in the chain in the order of their      *)
(* slots, the output is published once, after the last slot, and a         *)
(* transcript that holds a response goes with a challenge that does.       *)
TurnInv ==
  crashes = 0 =>
    /\ idx <= N
    /\ pc["main"] = "off" =>
         idx = 0 /\ stateFile = {} /\ challenge = {} /\ finalOutput = {}
    /\ finalOutput # {} => finalized /\ HaveAll(idx)
    /\ fpc = "output" \/ (cpc = "start" /\ fpc = "idle") => finalOutput = {}
    /\ \A i \in DOMAIN Chain : Chain[i] < idx \/ (Chain[i] = idx /\ Counting)
    /\ transcript = {} \/ hpc \in {"count", "save", "promote"} \/ <<>> \notin challenge

Phase1Inv ==
  /\ ServerInv /\ CallInv /\ FilesOK /\ HandlerInv
  /\ OrderInv /\ CompleteInv /\ TurnInv

\* Before the first start there is no file and no thread.
LEMMA Phase1InvInit == Phase1Init => Phase1Inv
<1> SUFFICES ASSUME Phase1Init PROVE Phase1Inv
  BY Zenon
<1> USE DEF Phase1Init
<1>1. ServerInv /\ CallInv
  BY ServerInvInit, CallInit, Zenon
<1>2. FilesOK
  BY Zenon DEF FilesOK, AtMostOne
<1>3. HandlerInv
  BY Zenon DEF HandlerInv, Init, Threads
<1>4. OrderInv
  BY Zenon DEF OrderInv, ContributionsInOrder, Init, Threads
<1>5. CompleteInv
  BY SMTT(30) DEF CompleteInv, CompleteImpliesOutput, Init, Threads
<1>6. TurnInv
  BY ServerAssumption DEF TurnInv, Chain, Init, HaveAll
<1> QED BY <1>1, <1>2, <1>3, <1>4, <1>5, <1>6, Zenon DEF Phase1Inv

\* The chain is a sequence of contributors, published or not.
LEMMA ChainIsSequence ==
  ASSUME FilesOK
  PROVE  Chain \in Seq(Contributors)
<1>1. ASSUME NEW c \in challenge PROVE Chain \in Seq(Contributors)
  BY <1>1, ContentOf, Zenon DEF Chain, FilesOK
<1>2. ASSUME NEW c \in finalOutput, challenge = {} PROVE Chain \in Seq(Contributors)
  BY <1>2, ContentOf DEF Chain, FilesOK
<1>3. CASE challenge = {} /\ finalOutput = {}
  BY <1>3 DEF Chain
<1> QED BY <1>1, <1>2, <1>3, Zenon

\* The rename that accepts a contribution adds the owner of the slot.
LEMMA PromoteAccepts ==
  ASSUME Phase1Inv, crashes = 0, PromoteChallenge
  PROVE  /\ idx < N /\ \A i \in DOMAIN Chain : Chain[i] < idx
         /\ Chain' = Append(Chain, idx) /\ challenge' = {Chain'} /\ Chain' # <<>>
         /\ UNCHANGED <<idx, finalOutput>> /\ finalOutput = {}
<1>1. ppc = "start" /\ pc["proc"] = "handler" /\ hpc = "promote"
  BY Zenon DEF PromoteChallenge, Phase1Inv, CallInv, ServerInv, CallsInv
<1>2. uploader = idx /\ uploader \in Contributors /\ idx \in Nat
  BY <1>1, Zenon DEF Phase1Inv, ServerInv, SavedInv, AdvanceInv, SlotInv, UploadInOwnSlot, ExclusionInv, TypeOK
<1>3. idx < N
  BY <1>2, ServerAssumption DEF Contributors
<1>4. finalOutput = {}
  BY <1>2, <1>3, ServerAssumption DEF Phase1Inv, TurnInv, HaveAll
<1>5. challenge # {} /\ newChallenge = {Append(Content(challenge), uploader)}
  BY <1>1, Zenon DEF Phase1Inv, HandlerInv
<1>6. Chain = Content(challenge)
  BY <1>5, Zenon DEF Chain
<1>7. \A i \in DOMAIN Chain : Chain[i] < idx
  BY <1>1, Zenon DEF Phase1Inv, TurnInv, Counting
<1>8. challenge' = {Append(Chain, idx)} /\ UNCHANGED <<idx, finalOutput>>
  BY <1>2, <1>5, <1>6, Zenon DEF PromoteChallenge, memVars
<1>9. Chain' = Append(Chain, idx)
  BY <1>8, ZenonT(30) DEF Chain, Content
<1>10. Append(Chain, idx) # <<>>
  <2>1. Chain \in Seq(Contributors)
    BY ChainIsSequence, Zenon DEF Phase1Inv
  <2>2. Len(Append(Chain, idx)) = Len(Chain) + 1 /\ Len(Chain) \in Nat
    BY <1>2, <2>1
  <2> QED BY <2>2
<1> QED BY <1>3, <1>4, <1>7, <1>8, <1>9, <1>10, Zenon

\* The rename that publishes the output leaves the chain as it is.
LEMMA PublishEnds ==
  ASSUME Phase1Inv, crashes = 0, PublishOutput, challenge # {}
  PROVE  /\ idx = N /\ finalOutput = {} /\ Chain # <<>>
         /\ finalOutput' = {Chain} /\ Chain' = Chain /\ UNCHANGED idx
<1>1. fpc = "output" /\ cpc = "start" /\ ppc = "idle" /\ hpc = "idle"
  BY CallsExclude, Zenon DEF PublishOutput, Phase1Inv, CallInv
<1>2. HaveAll(idx)
  BY <1>1, Zenon DEF Phase1Inv, CompleteInv, ServerInv, CallsInv
<1>3. idx \in Nat /\ idx <= N
  BY Zenon DEF Phase1Inv, TurnInv, ServerInv, SavedInv, AdvanceInv, ExclusionInv, TypeOK
<1>4. finalOutput = {}
  BY <1>1, Zenon DEF Phase1Inv, TurnInv
<1>5. PICK c \in challenge : TRUE
  BY Zenon
<1>6. challenge = {c} /\ Content(challenge) = c
  BY <1>5, ContentOf, Zenon DEF Phase1Inv, FilesOK
<1>7. c # <<>>
  BY <1>1, <1>5, Zenon DEF Phase1Inv, HandlerInv, TurnInv
<1>8. Chain = c
  BY <1>6, Zenon DEF Chain
<1>9. finalOutput' = {c} /\ challenge' = {} /\ UNCHANGED idx
  BY <1>6, Zenon DEF PublishOutput, memVars
<1>10. Chain' = c
  BY <1>9, Zenon DEF Chain, Content
<1> QED BY <1>2, <1>3, <1>4, <1>7, <1>8, <1>9, <1>10, ServerAssumption DEF HaveAll

(* A step of the server alone keeps the order, and moves the index only to *)
(* the next slot.                                                          *)
LEMMA ServerKeepsTurn ==
  ASSUME Phase1Inv, crashes' = 0,
         Phase1Start \/ Download \/ Upload \/ Phase1Cleanup \/ OtherServerStep
  PROVE  /\ TurnInv'
         /\ UNCHANGED <<Chain, finalOutput>>
         /\ idx' = idx \/ (idx < N /\ idx' = idx + 1)
<1>1. \A i \in DOMAIN Chain : Chain[i] \in Nat
  BY ChainIsSequence, ServerAssumption DEF Phase1Inv, Contributors
<1>2. TurnInv /\ idx \in Nat /\ N \in Nat
  BY ServerAssumption, Zenon DEF Phase1Inv, ServerInv, SavedInv, AdvanceInv, ExclusionInv, TypeOK
<1>3. CASE Phase1Start
  <2>1. pc["main"] = "off" /\ crashes = 0 /\ UNCHANGED <<hpc, fpc, cpc, finalOutput, transcript>>
    BY <1>3, Zenon DEF Phase1Start, Start, callVars
  <2>2. idx = 0 /\ stateFile = {} /\ challenge = {} /\ finalOutput = {}
    BY <1>2, <2>1, SMTT(30) DEF TurnInv
  <2>3. idx' = 0 /\ pc' = [pc EXCEPT !["main"] = "open"] /\ challenge' = {<<>>} /\ transcript = {}
    BY <1>3, <2>2, Zenon DEF Phase1Start, Start, Goto
  <2>4. pc'["main"] = "open"
    BY <2>3, Zenon DEF Phase1Inv, ServerInv, SavedInv, AdvanceInv, ExclusionInv, TypeOK, Threads
  <2>5. Chain = <<>> /\ Chain' = <<>>
    BY <2>2, <2>3, Zenon DEF Chain, Content
  <2> QED BY <1>2, <2>1, <2>2, <2>3, <2>4, <2>5, SMTT(30) DEF TurnInv
<1>4. CASE ~Phase1Start
  <2>1. UNCHANGED <<hpc, fpc, challenge, finalOutput, transcript>>
    BY <1>4, ZenonT(30) DEF Download, Upload, Phase1Cleanup, OtherServerStep, handlerVars, files
  <2>2. Chain' = Chain
    BY <2>1, Zenon DEF Chain
  <2>3. ASSUME SlotStep, crashes = 0 PROVE TurnInv'
    <3>1. idx' \in Nat /\ idx' <= N
      BY <1>2, <2>3 DEF SlotStep, TurnInv
    <3>2. finalOutput' # {} => finalized' /\ HaveAll(idx')
      BY <1>2, <2>1, <2>3 DEF SlotStep, TurnInv, HaveAll
    <3>3. fpc' = "output" \/ (cpc' = "start" /\ fpc' = "idle") => finalOutput' = {}
      BY <1>2, <2>1, <2>3, Zenon DEF SlotStep, TurnInv
    <3>4. ASSUME NEW i \in DOMAIN Chain
          PROVE  Chain[i] < idx' \/ (Chain[i] = idx' /\ Counting')
      BY <1>1, <1>2, <2>3 DEF SlotStep, TurnInv
    <3>5. transcript' = {} \/ hpc' \in {"count", "save", "promote"} \/ <<>> \notin challenge'
      BY <1>2, <2>1, <2>3, Zenon DEF TurnInv
    <3> QED BY <2>2, <2>3, <3>1, <3>2, <3>3, <3>4, <3>5, Zenon DEF SlotStep, TurnInv, HaveAll
  <2>4. CASE Upload \/ Phase1Cleanup
    <3>1. SlotStep /\ crashes = 0
      BY <2>4, UploadIsSlotStep, Zenon DEF Phase1Inv, Upload, Phase1Cleanup
    <3> QED BY <2>1, <2>2, <2>3, <3>1, Zenon DEF SlotStep
  <2>5. CASE (Download \/ OtherServerStep) /\ ~Elapse
    <3>1. SlotStep /\ crashes = 0
      BY <2>5, QuietSteps, Zenon DEF UploadStep, Phase1Inv
    <3> QED BY <2>1, <2>2, <2>3, <3>1 DEF SlotStep
  <2>6. CASE Elapse
    <3>1. /\ UNCHANGED <<idx, finalized, pc, crashes, ppc, cpc>>
          /\ stateFile = {} => stateFile' = {}
      BY <2>6, Zenon DEF Elapse, callVars
    <3> QED BY <1>2, <2>1, <2>2, <3>1, SMTT(30) DEF TurnInv, HaveAll, Counting
  <2> QED BY <1>4, <2>4, <2>5, <2>6, Zenon
<1> QED BY <1>3, <1>4, Zenon

(* Before a crash, a step of the handler accepts a contribution, publishes *)
(* the output, or does nothing the ceremony would notice.                  *)
LEMMA HandlerKeepsTurn ==
  ASSUME Phase1Inv, crashes = 0, ProcessStep \/ CompleteStep
  PROVE  /\ TurnInv'
         /\ PromoteChallenge \/ (PublishOutput /\ challenge # {}) \/ UNCHANGED <<idx, Chain, finalOutput>>
<1>1. TurnInv /\ CallInv /\ HandlerInv /\ idx \in Nat
  BY Zenon DEF Phase1Inv, ServerInv, SavedInv, AdvanceInv, ExclusionInv, TypeOK
<1>2. CASE PromoteChallenge
  <2>1. ppc' = "true" /\ hpc' = "idle" /\ UNCHANGED <<crashes, pc, cpc, fpc, finalized, transcript>>
    BY <1>2, Zenon DEF PromoteChallenge, memVars
  <2>2. pc["main"] # "off"
    BY <1>2, Zenon DEF PromoteChallenge, Phase1Inv, CallInv, CallsInv, ServerInv, SavedInv, AdvanceInv,
                ExclusionInv, ThreadInv
  <2>3. \A i \in DOMAIN Chain' : Chain'[i] < idx \/ Chain'[i] = idx
    <3>1. Chain \in Seq(Contributors)
      BY ChainIsSequence, Zenon DEF Phase1Inv
    <3> QED BY <1>1, <1>2, <3>1, PromoteAccepts
  <2>4. <<>> \notin challenge'
    BY <1>2, PromoteAccepts, Zenon
  <2> QED BY <1>1, <1>2, <2>1, <2>2, <2>3, <2>4, PromoteAccepts, Zenon DEF TurnInv, Counting
<1>3. CASE PublishOutput /\ challenge # {}
  <2>1. /\ fpc' = "transcript" /\ challenge' = {}
        /\ UNCHANGED <<crashes, pc, ppc, cpc, finalized, hpc, transcript>>
    BY <1>3, Zenon DEF PublishOutput, memVars
  <2>2. finalized /\ pc["main"] # "off"
    BY <1>3, Zenon DEF PublishOutput, Phase1Inv, CallInv, CallsInv, ServerInv, SavedInv, AdvanceInv,
                ExclusionInv, ThreadInv, Threads, Updating
  <2>3. HaveAll(idx)'
    BY <1>3, PublishEnds, ServerAssumption DEF HaveAll
  <2>4. idx' <= N /\ Chain' = Chain /\ idx' = idx
    BY <1>3, PublishEnds, ServerAssumption
  <2> QED BY <1>1, <1>3, <2>1, <2>2, <2>3, <2>4, Zenon DEF TurnInv, Counting
<1>4. ASSUME UNCHANGED <<crashes, idx, pc, finalized, stateFile, challenge, finalOutput>>,
             ppc = "true" => ppc' = "true",
             fpc' = "output" \/ (cpc' = "start" /\ fpc' = "idle") => finalOutput = {},
             transcript' = {} \/ hpc' \in {"count", "save", "promote"} \/ <<>> \notin challenge
      PROVE  TurnInv' /\ UNCHANGED <<idx, Chain, finalOutput>>
  <2>1. Chain' = Chain
    BY <1>4, SMTT(30) DEF Chain
  <2> QED BY <1>1, <1>4, <2>1, SMTT(30) DEF TurnInv, HaveAll, Counting
<1>5. CASE TakeResponse \/ VerifyContribution \/ AppendResponse \/ CountContribution \/ SaveCount
  <2>1. UNCHANGED <<crashes, idx, pc, cpc, fpc, finalized, stateFile, challenge, finalOutput>>
    BY <1>5, ZenonT(30) DEF TakeResponse, VerifyContribution, AppendResponse,
                CountContribution, SaveCount, vars, memVars
  <2>2. ppc = "start"
    BY <1>1, <1>5, ZenonT(30) DEF TakeResponse, VerifyContribution, AppendResponse,
                CountContribution, SaveCount, CallInv
  <2>3. transcript' = {} \/ hpc' \in {"count", "save", "promote"} \/ <<>> \notin challenge
    <3>1. CASE TakeResponse
      BY <1>1, <3>1, SMTT(30) DEF TakeResponse, TurnInv
    <3>3. CASE VerifyContribution
      BY <1>1, <3>3, SMTT(30) DEF VerifyContribution, TurnInv
    <3>2. CASE AppendResponse \/ CountContribution \/ SaveCount
      BY <3>2, SMTT(30) DEF AppendResponse, CountContribution, SaveCount
    <3> QED BY <1>5, <3>1, <3>2, <3>3, Zenon
  <2> QED BY <1>1, <1>4, <2>1, <2>2, <2>3, Zenon DEF TurnInv
<1>6. CASE ValidateTranscript
  <2>1. /\ UNCHANGED <<crashes, idx, pc, ppc, hpc, finalized, stateFile, challenge, finalOutput, transcript>>
        /\ cpc = "start" /\ fpc = "idle"
    BY <1>6, ZenonT(30) DEF ValidateTranscript, memVars, files
  <2> QED BY <1>1, <1>4, <2>1, Zenon DEF TurnInv
<1>7. CASE PublishTranscript
  BY <1>4, <1>7, SMTT(30) DEF PublishTranscript, memVars
<1>8. CASE PublishOutput /\ challenge = {}
  BY <1>1, <1>4, <1>8, Zenon DEF PublishOutput, memVars
<1> QED BY <1>2, <1>3, <1>5, <1>6, <1>7, <1>8, <1>4, Zenon DEF ProcessStep, CompleteStep

(* One step of the coordinator keeps the invariant and is, before a crash, *)
(* a step of the ceremony.                                                 *)
LEMMA Phase1Step ==
  ASSUME ~SlowProcessing, Phase1Inv, [Phase1Next]_phase1Vars
  PROVE  Phase1Inv' /\ [crashes' > 0 \/ Ceremony!Next]_<<idx, Chain, finalOutput>>
<1>1. ServerInv'
  <2>1. [Next]_vars
    BY Phase1Server, Zenon DEF Phase1Inv
  <2> QED BY <2>1, ServerInvInductive, Zenon DEF Phase1Inv
<1>0. ServerInv /\ CallInv /\ FilesOK /\ HandlerInv /\ OrderInv /\ CompleteInv
  BY Zenon DEF Phase1Inv
<1>2. CallInv' /\ FilesOK' /\ HandlerInv' /\ OrderInv' /\ CompleteInv'
  <2>1. CallInv' /\ FilesOK'
    BY <1>0, <1>1, CallPreserved, FilesPreserved, Zenon
  <2>2. HandlerInv' /\ OrderInv' /\ CompleteInv'
    BY <1>0, <1>1, HandlerPreserved, OrderPreserved, CompletePreserved, Zenon
  <2> QED BY <2>1, <2>2, Zenon
<1>3. crashes \in Nat /\ crashes' \in Nat /\ idx \in Nat
  <2>1. TypeOK /\ TypeOK'
    BY <1>0, <1>1, Zenon DEF ServerInv, SavedInv, AdvanceInv, ExclusionInv
  <2> QED BY <2>1 DEF TypeOK
<1>4. CASE crashes' # 0
  <2>1. TurnInv'
    BY <1>4, Zenon DEF TurnInv
  <2>2. crashes' > 0
    BY <1>3, <1>4
  <2> QED BY <1>1, <1>2, <2>1, <2>2, Zenon DEF Phase1Inv
<1>5. CASE crashes' = 0
  <2>1. CASE Phase1Start \/ Download \/ Upload \/ Phase1Cleanup \/ OtherServerStep
    BY <1>1, <1>2, <1>5, <2>1, ServerKeepsTurn, Zenon DEF Phase1Inv, Ceremony!Next, Ceremony!NextTurn
  <2>2. CASE Phase1Crash
    BY <1>3, <1>5, <2>2 DEF Phase1Crash, Crash
  <2>3. CASE ProcessStep \/ CompleteStep
    <3>1. crashes = 0
      BY <1>5, <2>3, ZenonT(30) DEF ProcessStep, CompleteStep, TakeResponse, VerifyContribution,
           AppendResponse, CountContribution, SaveCount, PromoteChallenge, ValidateTranscript,
           PublishOutput, PublishTranscript, vars
    <3>2. Phase1Inv'
      BY <1>1, <1>2, <2>3, <3>1, HandlerKeepsTurn, Zenon DEF Phase1Inv
    <3>3. CASE PromoteChallenge
      BY <3>1, <3>2, <3>3, PromoteAccepts, Zenon DEF Ceremony!Next, Ceremony!Accept
    <3>4. CASE PublishOutput /\ challenge # {}
      BY <3>1, <3>2, <3>4, PublishEnds, Zenon DEF Ceremony!Next, Ceremony!Publish
    <3>5. CASE UNCHANGED <<idx, Chain, finalOutput>>
      BY <3>2, <3>5, Zenon
    <3> QED BY <2>3, <3>1, <3>3, <3>4, <3>5, HandlerKeepsTurn, SMTT(30)
  <2>4. CASE UNCHANGED phase1Vars
    <3>1. UNCHANGED <<crashes, idx, pc, ppc, cpc, finalized, stateFile, fpc, hpc, challenge,
                      transcript, finalOutput>>
      BY <2>4, Zenon DEF phase1Vars, vars, handlerVars, files
    <3>2. Chain' = Chain
      BY <3>1, Zenon DEF Chain
    <3>3. TurnInv'
      BY <3>1, <3>2, Zenon DEF Phase1Inv, TurnInv, HaveAll, Counting
    <3> QED BY <1>1, <1>2, <3>1, <3>2, <3>3, Zenon DEF Phase1Inv
  <2> QED BY <2>1, <2>2, <2>3, <2>4, Zenon DEF Phase1Next
<1> QED BY <1>4, <1>5, Zenon
-----------------------------------------------------------------------------
(* Whatever slots are repeated after crashes, contributions enter the      *)
(* challenge in the order of the contributor list (ContributionsInOrder).  *)
THEOREM ContributionsKeepOrder ==
  ASSUME ~SlowProcessing
  PROVE  Phase1Spec => []ContributionsInOrder
<1>1. Phase1Inv /\ [Phase1Next]_phase1Vars => Phase1Inv'
  BY Phase1Step, Zenon
<1>2. Phase1Inv => ContributionsInOrder
  BY Zenon DEF Phase1Inv, OrderInv
<1> QED BY <1>1, <1>2, Phase1InvInit, PTL DEF Phase1Spec

(* A state file that says the MPC is complete goes with an output          *)
(* (CompleteImpliesOutput), although on_completed may raise and the server *)
(* may crash anywhere in it.                                               *)
THEOREM SavedCompletionHasOutput ==
  ASSUME ~SlowProcessing
  PROVE  Phase1Spec => []CompleteImpliesOutput
<1>1. Phase1Inv /\ [Phase1Next]_phase1Vars => Phase1Inv'
  BY Phase1Step
<1>2. Phase1Inv => CompleteImpliesOutput
  BY Zenon DEF Phase1Inv, CompleteInv
<1> QED BY <1>1, <1>2, Phase1InvInit, PTL DEF Phase1Spec

(* Until the first crash the coordinator with its handler and commands     *)
(* implements the ceremony (ImplementsCeremony): contributors take turns,  *)
(* each adds at most one contribution, and the whole chain is published.   *)
THEOREM Phase1ImplementsCeremony ==
  ASSUME ~SlowProcessing
  PROVE  Phase1Spec => ImplementsCeremony
<1>1. Phase1Init => Ceremony!Init
  BY Zenon DEF Phase1Init, Init, Ceremony!Init, Chain
<1>2. Phase1Inv /\ [Phase1Next]_phase1Vars =>
        Phase1Inv' /\ [crashes' > 0 \/ Ceremony!Next]_<<idx, Chain, finalOutput>>
  BY Phase1Step, Zenon
<1> QED BY <1>1, <1>2, Phase1InvInit, PTL DEF Phase1Spec, ImplementsCeremony
-----------------------------------------------------------------------------
(* The transcript and the counter, and what the handler has at hand.       *)
Recorded == IF transcript = {} THEN 0 ELSE Len(Content(transcript))

RecordInv ==
  /\ numValid \in Nat
  /\ transcript \in SUBSET Seq(Response) /\ AtMostOne(transcript)
  /\ transcript # {} => Recorded > 0
  /\ countFile \in SUBSET (Nat \cup {TornCount}) /\ AtMostOne(countFile)
  /\ hpc \in {"verify", "append"} => response # {}

(* Until a crash the counter is the length of the transcript, and the      *)
(* counter file holds it.  Once the output is published there are no more  *)
(* contributions.                                                          *)
CountInv ==
  crashes = 0 =>
    /\ pc["main"] = "off" => countFile = {} /\ transcript = {}
    /\ hpc = "save" \/ countFile = {numValid} \/ (countFile = {} /\ numValid = 0)
    /\ finalOutput = {} => Recorded = IF hpc = "count" THEN numValid + 1 ELSE numValid
    /\ finalOutput # {} => numValid > 0 /\ hpc = "idle" /\ challenge = {}

(* After a crash that left an output: the server is down and the counter   *)
(* file remembers contributions ...                                        *)
Down ==
  /\ pc["main"] = "off" /\ hpc = "idle" /\ fpc = "idle" /\ challenge = {}
  /\ \E n \in Nat : countFile = {n} /\ n > 0

(* ... or it counts more contributions than its new transcript holds ...   *)
Outdated ==
  /\ fpc = "idle"
  /\ numValid >= Recorded /\ (hpc # "count" => numValid > Recorded)

(* ... or it has published the output itself, which it does once.          *)
Published ==
  /\ finalized /\ fpc # "output"
  /\ cpc = "start" => fpc = "transcript"

KeptInv ==
  crashes = 1 /\ finalOutput # {} =>
    Down \/ (pc["main"] # "off" /\ (Outdated \/ Published))

OutputInv == Phase1Inv /\ RecordInv /\ CountInv /\ KeptInv

\* Before the first start nothing is counted.
LEMMA OutputInit == Phase1Init => OutputInv
<1> SUFFICES ASSUME Phase1Init PROVE RecordInv /\ CountInv /\ KeptInv
  BY Phase1InvInit, Zenon DEF OutputInv
<1>1. RecordInv
  BY DEF Phase1Init, RecordInv, AtMostOne
<1>2. CountInv /\ KeptInv
  BY Zenon DEF Phase1Init, Init, CountInv, KeptInv, Recorded
<1> QED BY <1>1, <1>2, Zenon

\* The length of the transcript is a number.
LEMMA RecordedNat ==
  ASSUME RecordInv
  PROVE  Recorded \in Nat
<1>1. ASSUME NEW t \in transcript PROVE Recorded \in Nat
  <2>1. Content(transcript) = t /\ t \in Seq(Response)
    BY <1>1, ContentOf, Zenon DEF RecordInv
  <2>2. Len(t) \in Nat
    BY <2>1
  <2> QED BY <1>1, <2>1, <2>2, Zenon DEF Recorded
<1>2. CASE transcript = {}
  BY <1>2 DEF Recorded
<1> QED BY <1>1, <1>2, Zenon

\* dd adds one response to the transcript.
LEMMA AppendRecords ==
  ASSUME FilesOK, RecordInv, AppendResponse
  PROVE  /\ Recorded' = Recorded + 1
         /\ transcript' \in SUBSET Seq(Response) /\ AtMostOne(transcript')
<1> DEFINE t == IF transcript = {} THEN <<>> ELSE Content(transcript)
<1>1. Content(response) \in Response
  <2>1. PICK r \in response : TRUE
    BY Zenon DEF AppendResponse, RecordInv
  <2> QED BY <2>1, ContentOf, ZenonT(30) DEF FilesOK
<1>2. t \in Seq(Response) /\ Recorded = Len(t)
  <2>1. ASSUME NEW u \in transcript PROVE t \in Seq(Response)
    BY <2>1, ContentOf, Zenon DEF RecordInv
  <2>2. CASE transcript = {}
    BY <2>2 DEF Recorded
  <2>3. CASE transcript # {}
    BY <2>1, <2>3, Zenon DEF Recorded
  <2> QED BY <2>2, <2>3, Zenon
<1> HIDE DEF t
<1>3. transcript' = {Append(t, Content(response))}
  BY Zenon DEF AppendResponse, t
<1>4. Append(t, Content(response)) \in Seq(Response)
      /\ Len(Append(t, Content(response))) = Len(t) + 1
  BY <1>1, <1>2
<1>5. Recorded' = Len(Append(t, Content(response)))
  BY <1>3, Zenon DEF Recorded, Content
<1> QED BY <1>2, <1>3, <1>4, <1>5, Zenon DEF AtMostOne

\* A transcript that is not touched keeps its length.
LEMMA RecordedKept ==
  ASSUME transcript' = transcript
  PROVE  Recorded' = Recorded
  BY Zenon DEF Recorded

\* The steps of the server alone leave the handler's state as it is.
LEMMA ServerFrame ==
  ASSUME Phase1Inv, Download \/ Upload \/ Phase1Cleanup \/ OtherServerStep
  PROVE  /\ UNCHANGED <<hpc, fpc, numValid, response, challenge, transcript, countFile,
                        finalOutput, crashes>>
         /\ pc'["main"] = "off" <=> pc["main"] = "off"
         /\ finalized => finalized'
         /\ cpc' = "start" => cpc = "start" \/ ~finalized
<1>1. UNCHANGED <<hpc, fpc, numValid, response, challenge, transcript, countFile, finalOutput>>
  BY ZenonT(30) DEF Download, Upload, Phase1Cleanup, OtherServerStep, handlerVars, files
<1>2. CASE Upload \/ Phase1Cleanup
  BY <1>1, <1>2, UploadIsSlotStep, Zenon DEF Phase1Inv, Upload, Phase1Cleanup, SlotStep
<1>3. CASE (Download \/ OtherServerStep) /\ ~Elapse
  BY <1>1, <1>3, QuietSteps, Zenon DEF Phase1Inv, SlotStep, UploadStep
<1>4. CASE Elapse
  BY <1>1, <1>4, Zenon DEF Elapse, callVars
<1> QED BY <1>2, <1>3, <1>4, Zenon

\* Each step leaves the files in the form the handler expects.
LEMMA RecordPreserved ==
  ASSUME Phase1Inv, RecordInv, [Phase1Next]_phase1Vars
  PROVE  RecordInv'
<1>0. FilesOK /\ HandlerInv /\ CallInv
  BY Zenon DEF Phase1Inv
<1>1. ASSUME UNCHANGED <<transcript, countFile>>, numValid' \in Nat,
             hpc' \in {"verify", "append"} => response' # {}
      PROVE  RecordInv'
  BY <1>1, RecordedKept, Zenon DEF RecordInv
<1>2. CASE Phase1Start
  <2>1. numValid' \in Nat
    <3>1. CASE countFile = {}
      BY <1>2, <3>1 DEF Phase1Start
    <3>2. ASSUME NEW n \in countFile PROVE numValid' \in Nat
      <4>1. Content(countFile) = n /\ n \in Nat \cup {TornCount}
        BY <3>2, ContentOf, Zenon DEF RecordInv
      <4>2. n # TornCount /\ numValid' = n
        BY <1>2, <3>2, <4>1, Zenon DEF Phase1Start
      <4> QED BY <4>1, <4>2, Zenon
    <3> QED BY <3>1, <3>2, Zenon
  <2>2. UNCHANGED <<hpc, response, transcript, countFile>>
    BY <1>2, Zenon DEF Phase1Start
  <2> QED BY <1>1, <2>1, <2>2, Zenon DEF RecordInv
<1>3. CASE Phase1Crash
  <2>1. UNCHANGED <<transcript, countFile>> /\ hpc' = "idle" /\ numValid' = 0
    BY <1>3, Zenon DEF Phase1Crash, files
  <2>2. numValid' \in Nat
    BY <2>1
  <2> QED BY <1>1, <2>1, <2>2, Zenon
<1>4. CASE Download \/ Upload \/ Phase1Cleanup \/ OtherServerStep
  BY <1>1, <1>4, ServerFrame, Zenon DEF RecordInv
<1>5. CASE TakeResponse
  <2>1. hpc = "idle" /\ ppc = "start" /\ response' = upload
        /\ UNCHANGED <<transcript, countFile, numValid>>
    BY <1>5, Zenon DEF TakeResponse
  <2>2. upload # {}
    BY <1>0, <2>1, Zenon DEF HandlerInv
  <2> QED BY <1>1, <2>1, <2>2, Zenon DEF RecordInv
<1>6. CASE VerifyContribution
  <2>1. hpc = "verify" /\ UNCHANGED <<transcript, countFile, numValid, response>>
    BY <1>6, Zenon DEF VerifyContribution
  <2> QED BY <1>1, <2>1, Zenon DEF RecordInv
<1>7. CASE AppendResponse
  <2>1. hpc' = "count" /\ UNCHANGED <<countFile, numValid>>
    BY <1>7, Zenon DEF AppendResponse
  <2>2. Recorded' > 0
    BY <1>0, <1>7, AppendRecords, RecordedNat
  <2> QED BY <1>0, <1>7, <2>1, <2>2, AppendRecords, Zenon DEF RecordInv
<1>8. CASE CountContribution
  <2>1. /\ hpc' = "save" /\ UNCHANGED transcript /\ countFile' = {TornCount}
        /\ numValid' = numValid + 1
    BY <1>8, Zenon DEF CountContribution
  <2>2. numValid' \in Nat
    BY <2>1 DEF RecordInv
  <2> QED BY <2>1, <2>2, RecordedKept, Zenon DEF RecordInv, AtMostOne
<1>9. CASE SaveCount
  <2>1. hpc' = "promote" /\ UNCHANGED <<transcript, numValid>> /\ countFile' = {numValid}
    BY <1>9, Zenon DEF SaveCount
  <2> QED BY <2>1, RecordedKept, Zenon DEF RecordInv, AtMostOne
<1>10. CASE PromoteChallenge
  <2>1. hpc' = "idle" /\ UNCHANGED <<transcript, numValid, countFile>>
    BY <1>10, Zenon DEF PromoteChallenge
  <2> QED BY <1>1, <2>1, Zenon DEF RecordInv
<1>11. CASE ValidateTranscript \/ PublishOutput
  <2>1. UNCHANGED <<hpc, response, transcript, numValid, countFile>>
    BY <1>11, ZenonT(30) DEF ValidateTranscript, PublishOutput, files
  <2> QED BY <1>1, <2>1, Zenon DEF RecordInv
<1>12. CASE PublishTranscript
  <2>1. transcript' = {} /\ UNCHANGED <<hpc, response, numValid, countFile>>
    BY <1>12, Zenon DEF PublishTranscript
  <2>2. transcript' \in SUBSET Seq(Response) /\ AtMostOne(transcript')
    BY <2>1, Zenon DEF AtMostOne
  <2> QED BY <2>1, <2>2, Zenon DEF RecordInv
<1>13. CASE UNCHANGED phase1Vars
  <2>1. UNCHANGED <<hpc, response, transcript, numValid, countFile>>
    BY <1>13, Zenon DEF phase1Vars, handlerVars, files
  <2> QED BY <1>1, <2>1, Zenon DEF RecordInv
<1> QED BY <1>2, <1>3, <1>4, <1>5, <1>6, <1>7, <1>8, <1>9, <1>10, <1>11, <1>12, <1>13, Zenon
        DEF Phase1Next, ProcessStep, CompleteStep

\* The number of crashes is a number.
LEMMA CrashesNat ==
  ASSUME Phase1Inv
  PROVE  crashes \in Nat
<1>1. crashes \in 0 .. MaxCrashes
  BY Zenon DEF Phase1Inv, ServerInv, SavedInv, AdvanceInv, ExclusionInv, TypeOK
<1> QED BY <1>1

\* Before a crash, no contribution is handled once there is an output.
LEMMA NoneAfterOutput ==
  ASSUME Phase1Inv, crashes = 0, finalOutput # {}
  PROVE  ppc # "start"
<1>1. SUFFICES ASSUME ppc = "start" PROVE FALSE
  BY Zenon
<1>2. uploader = idx /\ uploader \in Contributors /\ idx \in Nat
  BY <1>1, Zenon DEF Phase1Inv, ServerInv, CallsInv, SavedInv, AdvanceInv, SlotInv,
              UploadInOwnSlot, ExclusionInv, TypeOK
<1>3. HaveAll(idx)
  BY Zenon DEF Phase1Inv, TurnInv
<1> QED BY <1>2, <1>3, ServerAssumption DEF Contributors, HaveAll

\* Until a crash, each step keeps the counter, its file and the transcript together.
LEMMA CountPreserved ==
  ASSUME Phase1Inv, RecordInv, CountInv, [Phase1Next]_phase1Vars
  PROVE  CountInv'
<1> SUFFICES ASSUME crashes' = 0 PROVE CountInv'
  BY Zenon DEF CountInv
<1>0. FilesOK /\ HandlerInv /\ CallInv /\ TurnInv
  BY Zenon DEF Phase1Inv
<1>1. CASE Phase1Start
  <2>1. /\ pc["main"] = "off" /\ crashes = 0
        /\ UNCHANGED <<hpc, transcript, countFile, finalOutput>>
    BY <1>1, Zenon DEF Phase1Start, Start
  <2>2. pc'["main"] # "off"
    <3>1. pc \in [Threads -> Updating \cup {"off", "launch", "run", "idle", "dead",
                    "body", "stream", "start", "handler", "cleanup"}]
      BY Zenon DEF Phase1Inv, ServerInv, SavedInv, AdvanceInv, ExclusionInv, TypeOK
    <3> QED BY <1>1, <3>1, Zenon DEF Phase1Start, Start, Goto, Threads
  <2>3. countFile = {} /\ transcript = {} /\ finalOutput = {}
    BY <1>0, <2>1, Zenon DEF CountInv, TurnInv
  <2>4. numValid' = 0 /\ Recorded' = 0
    BY <1>1, <2>1, <2>3, Zenon DEF Phase1Start, Recorded
  <2>5. hpc = "idle"
    BY <1>0, <2>1, Zenon DEF CallInv, Phase1Inv, ServerInv, CallsInv, SavedInv, AdvanceInv,
                ExclusionInv, ThreadInv
  <2> QED BY <2>1, <2>2, <2>3, <2>4, <2>5, Zenon DEF CountInv
<1>2. CASE Phase1Crash
  <2>1. crashes \in Nat /\ crashes' = crashes + 1
    BY <1>2, CrashesNat, Zenon DEF Phase1Crash, Crash
  <2> QED BY <2>1
<1>3. CASE Download \/ Upload \/ Phase1Cleanup \/ OtherServerStep
  BY <1>3, ServerFrame, RecordedKept, Zenon DEF CountInv
<1>4. CASE ProcessStep
  <2>1. ppc = "start" /\ UNCHANGED <<pc, crashes, finalOutput>>
    BY <1>0, <1>4, ZenonT(30) DEF ProcessStep, TakeResponse, VerifyContribution, AppendResponse,
         CountContribution, SaveCount, PromoteChallenge, CallInv, vars
  <2>2. finalOutput = {} /\ pc["main"] # "off"
    <3>1. pc["main"] # "off"
      BY <2>1, Zenon DEF Phase1Inv, ServerInv, CallsInv, SavedInv, AdvanceInv, ExclusionInv, ThreadInv
    <3> QED BY <2>1, <3>1, NoneAfterOutput, Zenon
  <2>3. /\ hpc = "save" \/ countFile = {numValid} \/ (countFile = {} /\ numValid = 0)
        /\ Recorded = IF hpc = "count" THEN numValid + 1 ELSE numValid
    BY <2>1, <2>2, Zenon DEF CountInv
  <2>4. ASSUME UNCHANGED <<transcript, countFile, numValid>>, hpc \notin {"count", "save"},
               hpc' \notin {"count", "save"}
        PROVE  CountInv'
    BY <2>1, <2>2, <2>3, <2>4, RecordedKept, Zenon DEF CountInv
  <2>5. CASE TakeResponse \/ VerifyContribution \/ PromoteChallenge
    BY <2>4, <2>5, ZenonT(30) DEF TakeResponse, VerifyContribution, PromoteChallenge
  <2>6. CASE AppendResponse
    <3>1. hpc = "append" /\ hpc' = "count" /\ UNCHANGED <<countFile, numValid>>
      BY <2>6, Zenon DEF AppendResponse
    <3>2. Recorded' = Recorded + 1
      BY <1>0, <2>6, AppendRecords, Zenon
    <3>3. Recorded' = numValid' + 1
      BY <2>3, <3>1, <3>2, Zenon
    <3> QED BY <2>1, <2>2, <2>3, <3>1, <3>3, Zenon DEF CountInv
  <2>7. CASE CountContribution
    <3>1. hpc = "count" /\ hpc' = "save" /\ numValid' = numValid + 1 /\ Recorded' = Recorded
      BY <2>7, RecordedKept, Zenon DEF CountContribution
    <3> QED BY <2>1, <2>2, <2>3, <3>1, Zenon DEF CountInv
  <2>8. CASE SaveCount
    <3>1. /\ hpc = "save" /\ hpc' = "promote" /\ Recorded' = Recorded
          /\ countFile' = {numValid} /\ numValid' = numValid
      BY <2>8, RecordedKept, Zenon DEF SaveCount
    <3> QED BY <2>1, <2>2, <2>3, <3>1, Zenon DEF CountInv
  <2> QED BY <1>4, <2>5, <2>6, <2>7, <2>8, Zenon DEF ProcessStep
<1>5. CASE CompleteStep
  <2>1. UNCHANGED <<pc, crashes, hpc, numValid, countFile>>
    BY <1>5, ZenonT(30) DEF CompleteStep, ValidateTranscript, PublishOutput, PublishTranscript, files
  <2>2. cpc = "start"
    BY <1>0, <1>5, ZenonT(30) DEF CompleteStep, ValidateTranscript, PublishOutput,
         PublishTranscript, CallInv
  <2>3. hpc = "idle" /\ pc["main"] # "off"
    BY <1>0, <2>2, CallsExclude, Zenon DEF CallInv, Phase1Inv, ServerInv, CallsInv, SavedInv,
         AdvanceInv, ExclusionInv, ThreadInv, Threads
  <2>4. CASE ValidateTranscript
    <3>1. UNCHANGED <<transcript, finalOutput, challenge>>
      BY <2>4, Zenon DEF ValidateTranscript, files
    <3> QED BY <2>1, <3>1, RecordedKept, Zenon DEF CountInv
  <2>5. CASE PublishOutput
    <3>1. fpc = "output" /\ UNCHANGED transcript
      BY <2>5, Zenon DEF PublishOutput
    <3>2. finalOutput = {} /\ transcript # {}
      BY <1>0, <2>1, <3>1, Zenon DEF TurnInv, HandlerInv
    <3>3. numValid > 0
      BY <2>1, <2>3, <3>2, Zenon DEF CountInv, RecordInv
    <3>4. \/ challenge' = {}
          \/ UNCHANGED <<finalOutput, challenge>>
      BY <2>5, Zenon DEF PublishOutput
    <3> QED BY <2>1, <2>3, <3>1, <3>2, <3>3, <3>4, RecordedKept, Zenon DEF CountInv
  <2>6. CASE PublishTranscript
    <3>1. fpc = "transcript" /\ UNCHANGED <<finalOutput, challenge>>
      BY <2>6, Zenon DEF PublishTranscript
    <3>2. finalOutput # {}
      BY <3>1, Zenon DEF Phase1Inv, CompleteInv
    <3> QED BY <2>1, <2>3, <3>1, <3>2, Zenon DEF CountInv
  <2> QED BY <1>5, <2>4, <2>5, <2>6, Zenon DEF CompleteStep
<1>6. CASE UNCHANGED phase1Vars
  <2>1. UNCHANGED <<pc, crashes, hpc, numValid, countFile, transcript, finalOutput, challenge>>
    BY <1>6, Zenon DEF phase1Vars, vars, handlerVars, files
  <2> QED BY <2>1, RecordedKept, Zenon DEF CountInv
<1> QED BY <1>1, <1>2, <1>3, <1>4, <1>5, <1>6, Zenon DEF Phase1Next

\* A transcript that is shorter than the counter says is not valid.
LEMMA OutdatedIsInvalid ==
  ASSUME RecordInv, Outdated, hpc # "count"
  PROVE  TRUE \notin Verdicts
<1>1. CASE transcript = {}
  BY <1>1, Zenon DEF Verdicts
<1>2. CASE transcript # {}
  <2>1. Recorded = Len(Content(transcript)) /\ numValid > Recorded
    BY <1>2, Zenon DEF Recorded, Outdated
  <2>2. ~(numValid <= Len(Content(transcript)))
    BY <2>1, RecordedNat DEF RecordInv
  <2> QED BY <1>2, <2>2, Zenon DEF Verdicts, VerifyTranscript
<1> QED BY <1>1, <1>2, Zenon

(* After one crash an output stays safe: a new run counts more             *)
(* contributions than it can show, and a run that published goes no        *)
(* further.                                                                *)
LEMMA KeptPreserved ==
  ASSUME Phase1Inv, RecordInv, CountInv, KeptInv, [Phase1Next]_phase1Vars
  PROVE  KeptInv'
<1> SUFFICES ASSUME crashes' = 1, finalOutput' # {}
             PROVE  Down' \/ (pc'["main"] # "off" /\ (Outdated' \/ Published'))
  BY Zenon DEF KeptInv
<1>0. FilesOK /\ HandlerInv /\ CallInv /\ CompleteInv
  BY Zenon DEF Phase1Inv
<1>n. numValid \in Nat /\ Recorded \in Nat
  BY RecordedNat, Zenon DEF RecordInv
<1>1. CASE Phase1Start
  <2>1. /\ pc["main"] = "off" /\ crashes = 1 /\ finalOutput # {}
        /\ UNCHANGED <<hpc, fpc, transcript>>
    BY <1>1, Zenon DEF Phase1Start, Start
  <2>2. pc'["main"] # "off"
    <3>1. pc \in [Threads -> Updating \cup {"off", "launch", "run", "idle", "dead",
                    "body", "stream", "start", "handler", "cleanup"}]
      BY Zenon DEF Phase1Inv, ServerInv, SavedInv, AdvanceInv, ExclusionInv, TypeOK
    <3> QED BY <1>1, <3>1, Zenon DEF Phase1Start, Start, Goto, Threads
  <2>3. Down
    BY <2>1, Zenon DEF KeptInv
  <2>4. PICK n \in Nat : countFile = {n} /\ n > 0
    BY <2>3, Zenon DEF Down
  <2>5. numValid' = n /\ transcript = {}
    BY <1>1, <2>3, <2>4, Zenon DEF Phase1Start, Content, Down
  <2>6. Recorded' = 0
    BY <2>1, <2>5, Zenon DEF Recorded
  <2>7. numValid' >= Recorded' /\ numValid' > Recorded'
    BY <2>4, <2>5, <2>6
  <2> QED BY <2>1, <2>2, <2>3, <2>7, Zenon DEF Outdated, Down
<1>2. CASE Phase1Crash
  <2>1. /\ pc'["main"] = "off" /\ hpc' = "idle" /\ fpc' = "idle"
        /\ UNCHANGED <<challenge, countFile, finalOutput>>
    BY <1>2, Zenon DEF Phase1Crash, Crash, files, Threads
  <2>2. crashes = 0
    <3>1. crashes \in Nat /\ crashes' = crashes + 1
      BY <1>2, CrashesNat, Zenon DEF Phase1Crash, Crash
    <3> QED BY <3>1
  <2>3. numValid > 0 /\ hpc = "idle" /\ challenge = {}
    BY <2>1, <2>2, Zenon DEF CountInv
  <2>4. countFile = {numValid}
    <3>1. numValid # 0
      BY <1>n, <2>3
    <3> QED BY <2>2, <2>3, <3>1, Zenon DEF CountInv
  <2> QED BY <1>n, <2>1, <2>3, <2>4, Zenon DEF Down
<1>3. CASE Download \/ Upload \/ Phase1Cleanup \/ OtherServerStep
  <2>1. Down \/ (pc["main"] # "off" /\ (Outdated \/ Published))
    BY <1>3, ServerFrame, Zenon DEF KeptInv
  <2>2. CASE Down
    BY <1>3, <2>2, ServerFrame, Zenon DEF Down
  <2>3. CASE pc["main"] # "off" /\ Outdated
    BY <1>3, <2>3, ServerFrame, RecordedKept, Zenon DEF Outdated
  <2>4. CASE pc["main"] # "off" /\ Published
    BY <1>3, <2>4, ServerFrame, Zenon DEF Published
  <2> QED BY <2>1, <2>2, <2>3, <2>4, Zenon
<1>4. CASE ProcessStep
  <2>1. ppc = "start" /\ UNCHANGED <<pc, crashes, finalized, cpc, fpc, finalOutput>>
    BY <1>0, <1>4, ZenonT(30) DEF ProcessStep, TakeResponse, VerifyContribution, AppendResponse,
         CountContribution, SaveCount, PromoteChallenge, CallInv, vars, memVars
  <2>2. pc["main"] # "off"
    BY <2>1, Zenon DEF Phase1Inv, ServerInv, CallsInv, SavedInv, AdvanceInv, ExclusionInv, ThreadInv
  <2>3. Outdated \/ Published
    BY <2>1, <2>2, Zenon DEF KeptInv, Down
  <2>4. CASE Published
    BY <2>1, <2>2, <2>4, Zenon DEF Published
  <2>5. CASE Outdated
    <3>1. CASE TakeResponse \/ VerifyContribution \/ SaveCount \/ PromoteChallenge
      <4>1. hpc # "count" /\ hpc' # "count" /\ UNCHANGED <<transcript, numValid>>
        BY <3>1, ZenonT(30) DEF TakeResponse, VerifyContribution, SaveCount, PromoteChallenge
      <4> QED BY <2>1, <2>2, <2>5, <4>1, RecordedKept, Zenon DEF Outdated
    <3>2. CASE AppendResponse
      <4>1. hpc = "append" /\ hpc' = "count" /\ numValid' = numValid /\ Recorded' = Recorded + 1
        BY <1>0, <3>2, AppendRecords, Zenon DEF AppendResponse
      <4>2. numValid > Recorded
        BY <2>5, <4>1, Zenon DEF Outdated
      <4>3. numValid' >= Recorded'
        BY <1>n, <4>1, <4>2
      <4> QED BY <2>1, <2>2, <2>5, <4>1, <4>3, Zenon DEF Outdated
    <3>3. CASE CountContribution
      <4>1. numValid' = numValid + 1 /\ Recorded' = Recorded
        BY <3>3, RecordedKept, Zenon DEF CountContribution
      <4>2. numValid >= Recorded
        BY <2>5, Zenon DEF Outdated
      <4>3. numValid' >= Recorded' /\ numValid' > Recorded'
        BY <1>n, <4>1, <4>2
      <4> QED BY <2>1, <2>2, <2>5, <4>3, Zenon DEF Outdated
    <3> QED BY <1>4, <3>1, <3>2, <3>3, Zenon DEF ProcessStep
  <2> QED BY <2>3, <2>4, <2>5, Zenon
<1>5. CASE CompleteStep
  <2>1. UNCHANGED <<pc, crashes, finalized, hpc, numValid>>
    BY <1>5, ZenonT(30) DEF CompleteStep, ValidateTranscript, PublishOutput, PublishTranscript, memVars
  <2>2. cpc = "start"
    BY <1>0, <1>5, ZenonT(30) DEF CompleteStep, ValidateTranscript, PublishOutput,
         PublishTranscript, CallInv
  <2>3. hpc = "idle" /\ pc["main"] # "off" /\ finalized
    BY <1>0, <2>2, CallsExclude, Zenon DEF CallInv, Phase1Inv, ServerInv, CallsInv, SavedInv,
         AdvanceInv, ExclusionInv, ThreadInv, Threads
  <2>4. ASSUME finalOutput # {} PROVE Outdated \/ Published
    BY <2>1, <2>3, <2>4, Zenon DEF KeptInv, Down
  <2>5. CASE ValidateTranscript
    <3>1. fpc = "idle" /\ UNCHANGED <<finalOutput, transcript>>
      BY <2>5, Zenon DEF ValidateTranscript, files
    <3>2. Outdated
      BY <2>2, <2>4, <3>1, Zenon DEF Published
    <3>3. fpc' = "idle"
      BY <2>3, <2>5, <3>1, <3>2, OutdatedIsInvalid, Zenon DEF ValidateTranscript
    <3> QED BY <2>1, <2>3, <3>1, <3>2, <3>3, RecordedKept, Zenon DEF Outdated
  <2>6. CASE PublishOutput
    <3>1. fpc = "output"
      BY <2>6, Zenon DEF PublishOutput
    <3>2. finalOutput = {}
      BY <2>4, <3>1, Zenon DEF Outdated, Published
    <3>3. fpc' = "transcript"
      BY <2>6, <3>2, Zenon DEF PublishOutput
    <3> QED BY <2>1, <2>3, <3>3, Zenon DEF Published
  <2>7. CASE PublishTranscript
    <3>1. cpc' = "ok" /\ fpc' = "idle"
      BY <2>7, Zenon DEF PublishTranscript
    <3> QED BY <2>1, <2>3, <3>1, Zenon DEF Published
  <2> QED BY <1>5, <2>5, <2>6, <2>7, Zenon DEF CompleteStep
<1>6. CASE UNCHANGED phase1Vars
  <2>1. UNCHANGED <<pc, crashes, finalized, cpc, hpc, fpc, numValid, countFile, transcript,
                    finalOutput, challenge>>
    BY <1>6, Zenon DEF phase1Vars, vars, memVars, callVars, handlerVars, files
  <2>2. Down \/ (pc["main"] # "off" /\ (Outdated \/ Published))
    BY <2>1, Zenon DEF KeptInv
  <2> QED BY <2>1, <2>2, RecordedKept, Zenon DEF Down, Outdated, Published
<1> QED BY <1>1, <1>2, <1>3, <1>4, <1>5, <1>6, Zenon DEF Phase1Next

\* An output is replaced only by the rename, which needs that there is none.
LEMMA ReplacedOnly ==
  ASSUME OutputInv, [Phase1Next]_phase1Vars, finalOutput # {}, crashes' <= 1
  PROVE  finalOutput' = finalOutput
<1>1. CASE ~PublishOutput
  BY <1>1, ZenonT(30) DEF Phase1Next, Phase1Start, Phase1Crash, Download, Upload, Phase1Cleanup,
       OtherServerStep, ProcessStep, CompleteStep, TakeResponse, VerifyContribution, AppendResponse,
       CountContribution, SaveCount, PromoteChallenge, ValidateTranscript, PublishTranscript,
       phase1Vars, files
<1>2. CASE PublishOutput
  <2>1. fpc = "output" /\ crashes' = crashes
    BY <1>2, Zenon DEF PublishOutput
  <2>2. crashes \in Nat
    BY CrashesNat, Zenon DEF OutputInv
  <2>3. crashes = 0 \/ crashes = 1
    BY <2>1, <2>2
  <2>4. crashes # 0
    BY <2>1, Zenon DEF OutputInv, Phase1Inv, TurnInv
  <2>5. crashes # 1
    BY <2>1, Zenon DEF OutputInv, KeptInv, Down, Outdated, Published
  <2> QED BY <2>3, <2>4, <2>5, Zenon
<1> QED BY <1>1, <1>2, Zenon

(* A published output is never replaced, however the server crashes once   *)
(* in the ceremony and starts again from files that do not know of the     *)
(* completion (OutputKept).                                                *)
THEOREM PublishedOutputIsKept ==
  ASSUME ~SlowProcessing
  PROVE  Phase1Spec => OutputKept
<1>1. OutputInv /\ [Phase1Next]_phase1Vars => OutputInv'
  BY Phase1Step, RecordPreserved, CountPreserved, KeptPreserved, Zenon DEF OutputInv
<1>2. OutputInv /\ [Phase1Next]_phase1Vars =>
        [finalOutput # {} /\ crashes' <= 1 => finalOutput' = finalOutput]_phase1Vars
  BY ReplacedOnly, Zenon
<1> QED BY <1>1, <1>2, OutputInit, PTL DEF Phase1Spec, OutputKept
=============================================================================
