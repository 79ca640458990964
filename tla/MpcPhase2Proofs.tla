--------------------------- MODULE MpcPhase2Proofs ---------------------------
(***************************************************************************)
(* Proofs about the coordinator with its phase-2 handler, for every number *)
(* of contributors and of crashes, if no slot is overrun.                  *)
(***************************************************************************)
EXTENDS MpcPhase2, MpcServerProofs

(* The handler is at work only inside a call. *)
CallInv ==
  /\ hpc # "idle" => ppc = "start"
  /\ fpc # "idle" => cpc = "start"

\* No call is open at first.
LEMMA CallInit == Phase2Init => CallInv
  BY Zenon DEF Phase2Init, Init, CallInv

\* The handler answers the server as MpcServer lets it.
LEMMA Phase2Server ==
  ASSUME CallInv, [Phase2Next]_phase2Vars
  PROVE  [Next]_vars
<1> USE DEF Next, HttpStep, ProcStep
<1>1. CASE Phase2Start
  BY <1>1, Zenon DEF Phase2Start
<1>2. CASE Phase2Crash
  BY <1>2, Zenon DEF Phase2Crash
<1>3. CASE NameChallenge
  <2>1. (~Raises) \in BOOLEAN
    BY Zenon DEF Raises
  <2> QED BY <1>3, <2>1, ZenonT(30) DEF NameChallenge
<1>4. CASE Download
  BY <1>4, Zenon DEF Download
<1>5. CASE Upload
  BY <1>5, Zenon DEF Upload
<1>6. CASE Phase2Cleanup
  BY <1>6, Zenon DEF Phase2Cleanup
<1>7. CASE OtherServerStep
  BY <1>7, Zenon DEF OtherServerStep
<1>8. CASE ProcessStep
  <2>1. CASE SelectChallenge
    BY <2>1, Zenon DEF SelectChallenge, HandlerReturns, vars, memVars
  <2>2. CASE VerifyContribution
    BY <2>2, Zenon DEF VerifyContribution, HandlerReturns, vars, memVars, CallInv
  <2>3. CASE AppendKey \/ WriteNewChallenge
    BY <2>3, Zenon DEF AppendKey, WriteNewChallenge
  <2>4. CASE PromoteChallenge
    BY <2>4, Zenon DEF PromoteChallenge, HandlerReturns, CallInv
  <2> QED BY <1>8, <2>1, <2>2, <2>3, <2>4, Zenon DEF ProcessStep
<1>9. CASE CompleteStep
  <2>1. CASE ValidateTranscript
    BY <2>1, Zenon DEF ValidateTranscript, HandlerReturns, vars, memVars
  <2>2. CASE PublishOutput
    BY <2>2, Zenon DEF PublishOutput
  <2>3. CASE PublishTranscript
    BY <2>3, Zenon DEF PublishTranscript, HandlerReturns, CallInv
  <2> QED BY <1>9, <2>1, <2>2, <2>3, Zenon DEF CompleteStep
<1>10. CASE UNCHANGED phase2Vars
  BY <1>10, Zenon DEF phase2Vars
<1> QED BY <1>1, <1>2, <1>3, <1>4, <1>5, <1>6, <1>7, <1>8, <1>9, <1>10, Zenon
        DEF Phase2Next

\* What a step of the server alone means for slots and uploads.
LEMMA QuietSteps ==
  ASSUME ServerInv, NameChallenge \/ Download \/ OtherServerStep
  PROVE  (SlotStep /\ UploadStep) \/ Elapse
<1>1. CASE NameChallenge
  <2>1. \E found \in BOOLEAN : HttpChallenge(found)
    <3>1. (~Raises) \in BOOLEAN
      BY Zenon DEF Raises
    <3> QED BY <1>1, <3>1, ZenonT(30) DEF NameChallenge
  <2> QED BY <2>1, ThreadIsSlotStep, Zenon DEF ThreadStep
<1>2. CASE Download
  BY <1>2, ThreadIsSlotStep, Zenon DEF Download, ThreadStep
<1>3. CASE OtherServerStep
  BY <1>3, ThreadIsSlotStep, Zenon DEF OtherServerStep, ThreadStep
<1> QED BY <1>1, <1>2, <1>3, Zenon

\* The handler works inside the calls, and returns before they end.
LEMMA CallPreserved ==
  ASSUME ServerInv, CallInv, [Phase2Next]_phase2Vars
  PROVE  CallInv'
<1> USE DEF CallInv
<1>1. CASE Phase2Start
  BY <1>1, Zenon DEF Phase2Start, Start, handlerVars, callVars
<1>2. CASE Phase2Crash
  BY <1>2, Zenon DEF Phase2Crash
<1>3. CASE NameChallenge \/ Download \/ OtherServerStep
  <2>1. UNCHANGED <<hpc, fpc>>
    BY <1>3, Zenon DEF NameChallenge, Download, OtherServerStep, handlerVars
  <2>2. (ppc = "start" => ppc' = "start") /\ (cpc = "start" => cpc' = "start")
    BY <1>3, QuietSteps, Zenon DEF UploadStep, Elapse, callVars
  <2> QED BY <2>1, <2>2, Zenon
<1>4. CASE Upload \/ Phase2Cleanup
  BY <1>4, UploadIsSlotStep, Zenon DEF Upload, Phase2Cleanup, handlerVars
<1>5. CASE ProcessStep
  BY <1>5, Zenon DEF ProcessStep, SelectChallenge, VerifyContribution, AppendKey,
              WriteNewChallenge, PromoteChallenge, vars
<1>6. CASE CompleteStep
  BY <1>6, Zenon DEF CompleteStep, ValidateTranscript, PublishOutput,
              PublishTranscript, vars
<1>7. CASE UNCHANGED phase2Vars
  BY <1>7, Zenon DEF phase2Vars, vars, handlerVars
<1> QED BY <1>1, <1>2, <1>3, <1>4, <1>5, <1>6, <1>7, Zenon DEF Phase2Next
-----------------------------------------------------------------------------
(* What the files hold. *)
Response == [by : Contributors, base : Seq(Contributors), good : BOOLEAN]
Kept == Seq(Contributors) \ {<<>>}
AtMostOne(f) == \A x, y \in f : x = y

FilesOK ==
  /\ hpc \in {"idle", "verify", "append", "challenge", "promote"}
  /\ fpc \in {"idle", "output", "transcript"}
  /\ path \in [{"http", "proc"} -> {"challenge_0", "next_challenge"}]
  /\ upload \in SUBSET Response
  /\ nextChallenge \in SUBSET Kept /\ newChallenge \in SUBSET Kept
  /\ finalOutput \in SUBSET Kept
  /\ transcript \in SUBSET Seq(Response)
  /\ got \in [Contributors -> SUBSET Seq(Contributors)]
  /\ AtMostOne(upload) /\ AtMostOne(transcript)
  /\ AtMostOne(nextChallenge) /\ AtMostOne(newChallenge) /\ AtMostOne(finalOutput)

(* The challenge that the upload of the current slot must be based on. *)
Base == IF nextChallenge = {} THEN <<>> ELSE Content(nextChallenge)

(* Between the verification and the rename the upload extends the current  *)
(* challenge, and after it the uploader is the last of the new one.        *)
HandlerInv ==
  /\ processing => \A r \in upload : r.by = uploader
  /\ hpc # "idle" => path["proc"] = CurrentChallengeFile
  /\ hpc \in {"append", "challenge"} => \E r \in upload : r.base = Base
  /\ hpc = "promote" => newChallenge = {Append(Base, uploader)}
  /\ ppc = "true" => \E c \in nextChallenge : c[Len(c)] = uploader

\* A file holds what it was found to hold.
LEMMA ContentOf ==
  ASSUME NEW f, NEW x \in f, AtMostOne(f)
  PROVE  Content(f) = x /\ f = {x}
  BY Zenon DEF Content, AtMostOne

\* The current challenge is a sequence of contributors.
LEMMA BaseIsSequence ==
  ASSUME FilesOK
  PROVE  Base \in Seq(Contributors)
<1>1. CASE nextChallenge = {}
  BY <1>1 DEF Base
<1>2. ASSUME NEW c \in nextChallenge PROVE Base \in Seq(Contributors)
  BY <1>2, ContentOf DEF Base, FilesOK, Kept
<1> QED BY <1>1, <1>2, Zenon

\* The file that process_contribution was given holds the current challenge.
LEMMA CurrentIsBase ==
  ASSUME FilesOK
  PROVE  File(CurrentChallengeFile) = {Base}
<1>1. CASE nextChallenge = {}
  BY <1>1, Zenon DEF File, CurrentChallengeFile, Base
<1>2. ASSUME NEW c \in nextChallenge PROVE File(CurrentChallengeFile) = {Base}
  <2>1. nextChallenge = {c} /\ Content(nextChallenge) = c
    BY ContentOf, Zenon DEF FilesOK
  <2> QED BY <2>1, Zenon DEF File, CurrentChallengeFile, Base
<1> QED BY <1>1, <1>2, Zenon

\* Files keep their types through the steps of the handler.
LEMMA ProcessKeepsFiles ==
  ASSUME ServerInv, CallInv, FilesOK, HandlerInv, ProcessStep
  PROVE  FilesOK'
<1> USE DEF FilesOK
<1>1. CASE SelectChallenge
  BY <1>1, Zenon DEF SelectChallenge, files, CurrentChallengeFile
<1>2. CASE VerifyContribution
  BY <1>2, Zenon DEF VerifyContribution, files
<1>3. CASE AppendKey
  <2>1. PICK r \in upload : r.base = Base
    BY <1>3, Zenon DEF AppendKey, HandlerInv
  <2>2. Content(upload) = r /\ r \in Response
    BY <2>1, ContentOf, Zenon
  <2> DEFINE t == IF transcript = {} THEN <<>> ELSE Content(transcript)
  <2>3. t \in Seq(Response)
    <3>1. CASE transcript = {}
      BY <3>1
    <3>2. ASSUME NEW u \in transcript PROVE t \in Seq(Response)
      BY <3>2, ContentOf, Zenon
    <3> QED BY <3>1, <3>2, Zenon
  <2>4. transcript' = {Append(t, r)}
    BY <1>3, <2>2, Zenon DEF AppendKey
  <2> HIDE DEF t
  <2>5. Append(t, r) \in Seq(Response)
    BY <2>2, <2>3
  <2>6. transcript' \in SUBSET Seq(Response) /\ AtMostOne(transcript')
    BY <2>4, <2>5, Zenon DEF AtMostOne
  <2>7. /\ UNCHANGED <<fpc, path, upload, nextChallenge, newChallenge,
                      finalOutput, got>>
        /\ hpc' = "challenge"
    BY <1>3, Zenon DEF AppendKey
  <2> QED BY <2>6, <2>7, Zenon DEF AtMostOne
<1>4. CASE WriteNewChallenge
  <2>1. PICK r \in upload : r.base = Base
    BY <1>4, Zenon DEF WriteNewChallenge, HandlerInv
  <2>2. Content(upload) = r /\ r.base \in Seq(Contributors) /\ r.by \in Contributors
    BY <2>1, ContentOf, Zenon DEF Response
  <2>3. Append(r.base, r.by) \in Kept
    BY <2>2 DEF Kept
  <2>4. newChallenge' \in SUBSET Kept /\ AtMostOne(newChallenge')
    BY <1>4, <2>2, <2>3, Zenon DEF WriteNewChallenge, AtMostOne
  <2>5. /\ UNCHANGED <<fpc, path, upload, nextChallenge, transcript,
                      finalOutput, got>>
        /\ hpc' = "promote"
    BY <1>4, Zenon DEF WriteNewChallenge
  <2> QED BY <2>4, <2>5, Zenon DEF AtMostOne
<1>5. CASE PromoteChallenge
  BY <1>5, SMTT(30) DEF PromoteChallenge, AtMostOne
<1> QED BY <1>1, <1>2, <1>3, <1>4, <1>5, Zenon DEF ProcessStep

\* Files keep their types.
LEMMA FilesPreserved ==
  ASSUME ServerInv, ServerInv', CallInv, FilesOK, HandlerInv, [Phase2Next]_phase2Vars
  PROVE  FilesOK'
<1>1. CASE ProcessStep
  BY <1>1, ProcessKeepsFiles, Zenon
<1> USE DEF FilesOK
<1>2. CASE Phase2Start
  BY <1>2, Zenon DEF Phase2Start, handlerVars, files
<1>3. CASE Phase2Crash
  BY <1>3, Zenon DEF Phase2Crash, files
<1>4. CASE NameChallenge
  BY <1>4, Zenon DEF NameChallenge, files, CurrentChallengeFile
<1>5. CASE Download
  <2>1. PICK r \in req : got' = [got EXCEPT ![r.who] = File(path["http"])]
    BY <1>5, ZenonT(30) DEF Download
  <2>2. File(path["http"]) \in SUBSET Seq(Contributors)
    BY DEF File, Kept
  <2>3. got' \in [Contributors -> SUBSET Seq(Contributors)]
    BY <2>1, <2>2, ZenonT(30)
  <2> QED BY <1>5, <2>3, Zenon DEF Download, handlerVars, files
<1>6. CASE Upload
  <2>1. PICK r \in Responses(uploader') : upload' = {r}
    BY <1>6, Zenon DEF Upload
  <2>2. uploader' \in Contributors
    BY Zenon DEF ServerInv, SavedInv, AdvanceInv, ExclusionInv, TypeOK
  <2>3. r \in Response
    <3>1. got[uploader'] \in SUBSET Seq(Contributors) /\ <<>> \in Seq(Contributors)
      BY <2>2
    <3>2. \E c \in Seq(Contributors), b \in BOOLEAN : r = [by |-> uploader', base |-> c, good |-> b]
      BY <2>1, <3>1, Zenon DEF Responses
    <3> QED BY <2>2, <3>2 DEF Response
  <2> QED BY <1>6, <2>1, <2>3, Zenon DEF Upload, handlerVars, files, AtMostOne
<1>7. CASE Phase2Cleanup
  BY <1>7, Zenon DEF Phase2Cleanup, handlerVars, files, AtMostOne
<1>8. CASE OtherServerStep
  BY <1>8, Zenon DEF OtherServerStep, handlerVars, files
<1>9. CASE CompleteStep
  BY <1>9 DEF CompleteStep, ValidateTranscript, PublishOutput,
              PublishTranscript, files, AtMostOne
<1>10. CASE UNCHANGED phase2Vars
  BY <1>10, SMTT(30) DEF phase2Vars, handlerVars, files
<1> QED BY <1>1, <1>2, <1>3, <1>4, <1>5, <1>6, <1>7, <1>8, <1>9, <1>10, Zenon
        DEF Phase2Next
-----------------------------------------------------------------------------
\* A step that leaves the handler and its files alone keeps their relation.
LEMMA HandlerQuiet ==
  ASSUME HandlerInv, UNCHANGED <<hpc, upload, nextChallenge, newChallenge>>,
         path'["proc"] = path["proc"],
         processing' => processing /\ uploader' = uploader,
         hpc # "idle" => uploader' = uploader,
         ppc' = "true" => ppc = "true" /\ uploader' = uploader
  PROVE  HandlerInv'
  BY Zenon DEF HandlerInv, Base, CurrentChallengeFile

\* While process_contribution runs, the upload is that of the uploader.
LEMMA ProcessKeepsHandler ==
  ASSUME ServerInv, CallInv, FilesOK, HandlerInv, ProcessStep
  PROVE  HandlerInv'
<1>1. hpc # "idle" => processing
  BY Zenon DEF CallInv, CallsInv, ServerInv, SavedInv, AdvanceInv, ExclusionInv, LockInv
<1>2. CASE SelectChallenge
  <2>1. /\ UNCHANGED <<processing, uploader, upload, nextChallenge, newChallenge>>
        /\ ppc' # "true"
    BY <1>2, Zenon DEF SelectChallenge, memVars, files
  <2>2. path \in [{"http", "proc"} -> {"challenge_0", "next_challenge"}]
    BY Zenon DEF FilesOK
  <2>3. hpc' # "idle" => hpc' = "verify" /\ path'["proc"] = CurrentChallengeFile
    BY <1>2, <2>2, Zenon DEF SelectChallenge
  <2> QED BY <2>1, <2>3, Zenon DEF HandlerInv, CurrentChallengeFile
<1>3. CASE VerifyContribution
  <2>1. /\ UNCHANGED <<processing, uploader, upload, nextChallenge, newChallenge, path>>
        /\ ppc' # "true"
        /\ path["proc"] = CurrentChallengeFile
    BY <1>3, Zenon DEF VerifyContribution, memVars, files, HandlerInv, CallInv
  <2>2. \/ hpc' = "idle"
        \/ hpc' = "append" /\ \E c \in File(path["proc"]), r \in upload : r.base = c
    BY <1>3, Zenon DEF VerifyContribution, VerifyResponse
  <2>3. hpc' = "append" => \E r \in upload : r.base = Base
    BY <2>1, <2>2, CurrentIsBase, Zenon
  <2> QED BY <2>1, <2>2, <2>3, Zenon DEF HandlerInv, CurrentChallengeFile, Base
<1>4. CASE AppendKey
  BY <1>4, Zenon DEF AppendKey, vars, HandlerInv, CurrentChallengeFile, Base, CallInv
<1>5. CASE WriteNewChallenge
  <2>1. PICK r \in upload : r.base = Base
    BY <1>5, Zenon DEF WriteNewChallenge, HandlerInv
  <2>2. Content(upload) = r /\ r.by = uploader
    BY <1>1, <1>5, <2>1, ContentOf, Zenon DEF WriteNewChallenge, HandlerInv, FilesOK
  <2>3. newChallenge' = {Append(Base, uploader)}
    BY <1>5, <2>1, <2>2, Zenon DEF WriteNewChallenge
  <2>4. /\ UNCHANGED <<processing, uploader, upload, nextChallenge, path, ppc>>
        /\ hpc = "challenge" /\ hpc' = "promote"
    BY <1>5, Zenon DEF WriteNewChallenge, vars
  <2> QED BY <2>3, <2>4, Zenon DEF HandlerInv, CurrentChallengeFile, Base
<1>6. CASE PromoteChallenge
  <2> DEFINE c == Append(Base, uploader)
  <2>1. nextChallenge' = {c} /\ hpc' = "idle" /\ UNCHANGED <<processing, uploader, upload>>
    BY <1>6, Zenon DEF PromoteChallenge, HandlerInv, memVars
  <2>2. uploader \in Contributors
    BY Zenon DEF ServerInv, SavedInv, AdvanceInv, ExclusionInv, TypeOK
  <2>3. c[Len(c)] = uploader
    BY <2>2, BaseIsSequence
  <2> HIDE DEF c
  <2> QED BY <2>1, <2>3, Zenon DEF HandlerInv
<1> QED BY <1>2, <1>3, <1>4, <1>5, <1>6, Zenon DEF ProcessStep

\* The relation of upload, challenge and uploader is kept by every step.
LEMMA HandlerPreserved ==
  ASSUME ServerInv, CallInv, FilesOK, HandlerInv, [Phase2Next]_phase2Vars
  PROVE  HandlerInv'
<1>1. CASE ProcessStep
  BY <1>1, ProcessKeepsHandler, Zenon
<1>2. TypeOK /\ ThreadInv /\ LockInv
  BY Zenon DEF ServerInv, SavedInv, AdvanceInv, ExclusionInv
<1>3. CASE Phase2Start
  BY <1>3, HandlerQuiet, Zenon DEF Phase2Start, Start, handlerVars, files, callVars
<1>4. CASE Phase2Crash
  BY <1>4, Zenon DEF Phase2Crash, Crash, HandlerInv
<1>5. CASE NameChallenge
  <2>1. path'["proc"] = path["proc"]
    BY <1>5, Zenon DEF NameChallenge, FilesOK
  <2> QED BY <1>5, <2>1, HandlerQuiet, Zenon
          DEF NameChallenge, HttpChallenge, memVars, callVars, files
<1>6. CASE Download
  BY <1>6, HandlerQuiet, Zenon DEF Download, HttpStream, memVars, callVars, handlerVars, files
<1>7. CASE Upload
  <2>1. pc["http"] = "body"
    BY <1>7, Zenon DEF Upload, HttpAccept
  <2>2. pc["proc"] = "off"
    BY <1>2, <2>1, Zenon DEF LockInv
  <2>3. hpc = "idle" /\ ppc = "idle"
    BY <2>2, Zenon DEF CallInv, ServerInv, CallsInv
  <2>4. hpc' = "idle" /\ ppc' = "idle"
    BY <1>7, <2>3, Zenon DEF Upload, HttpAccept, handlerVars, callVars
  <2>5. PICK r \in Responses(uploader') : upload' = {r}
    BY <1>7, Zenon DEF Upload
  <2>6. r.by = uploader'
    BY <2>5 DEF Responses
  <2> QED BY <2>4, <2>5, <2>6, Zenon DEF HandlerInv
<1>8. CASE Phase2Cleanup
  <2>1. hpc = "idle" /\ ppc = "idle"
    BY <1>8, Zenon DEF Phase2Cleanup, ProcCleanup, CallInv, ServerInv, CallsInv
  <2> QED BY <1>8, <2>1, Zenon DEF Phase2Cleanup, ProcCleanup, HandlerInv, handlerVars, callVars
<1>9. CASE OtherServerStep
  <2>1. UNCHANGED <<hpc, path, upload, nextChallenge, newChallenge>>
    BY <1>9, Zenon DEF OtherServerStep, handlerVars, files
  <2>2. UploadStep
    BY <1>9, QuietSteps, SMTT(30) DEF Elapse, UploadStep, callVars
  <2> QED BY <2>1, <2>2, HandlerQuiet, Zenon DEF UploadStep
<1>10. CASE CompleteStep
  <2>1. cpc # "idle"
    BY <1>10, Zenon DEF CompleteStep, ValidateTranscript, PublishOutput, PublishTranscript, CallInv
  <2>2. hpc = "idle" /\ ppc = "idle"
    BY <2>1, CallsExclude, Zenon DEF CallInv
  <2> QED BY <1>10, <2>2 DEF CompleteStep, ValidateTranscript, PublishOutput,
                             PublishTranscript, HandlerInv, vars, memVars
<1>11. CASE UNCHANGED phase2Vars
  BY <1>11, HandlerQuiet, SMTT(30) DEF phase2Vars, vars, handlerVars, files
<1> QED BY <1>1, <1>3, <1>4, <1>5, <1>6, <1>7, <1>8, <1>9, <1>10, <1>11, Zenon
        DEF Phase2Next
-----------------------------------------------------------------------------
(* Between validation and the second rename, what was validated is still   *)
(* what is moved: the transcript stays, and the output was the challenge.  *)
Match(c, t) == c = Authors(t) /\ VerifyTranscript(t)

FinalInv ==
  /\ FinalMatchesTranscript
  /\ fpc = "output" => /\ nextChallenge # {} /\ transcript # {}
                       /\ \A c \in nextChallenge, t \in transcript : Match(c, t)
  /\ fpc = "transcript" => \A c \in finalOutput, t \in transcript : Match(c, t)

\* Files are published as they were validated.
LEMMA FinalPreserved ==
  ASSUME ServerInv, CallInv, FilesOK, FinalInv, [Phase2Next]_phase2Vars
  PROVE  FinalInv'
<1> USE DEF FinalInv, FinalMatchesTranscript, Match
<1>1. ASSUME UNCHANGED <<nextChallenge, transcript, finalOutput, finalTranscript>>,
             fpc' = "idle" \/ fpc' = fpc
      PROVE  FinalInv'
  BY <1>1, SMTT(30)
<1>2. CASE Phase2Start \/ Download \/ Upload \/ Phase2Cleanup \/ OtherServerStep
  BY <1>1, <1>2, Zenon DEF Phase2Start, Download, Upload, Phase2Cleanup,
                    OtherServerStep, handlerVars, files
<1>3. CASE Phase2Crash \/ NameChallenge
  BY <1>1, <1>3, Zenon DEF Phase2Crash, NameChallenge, files
<1>4. CASE ProcessStep
  <2>1. ppc = "start"
    BY <1>4, Zenon DEF ProcessStep, SelectChallenge, VerifyContribution, AppendKey,
                WriteNewChallenge, PromoteChallenge, CallInv
  <2>2. fpc = "idle"
    BY <2>1, CallsExclude, SMTT(30) DEF CallInv
  <2>3. fpc' = "idle"
    BY <1>4, <2>2, Zenon DEF ProcessStep, SelectChallenge, VerifyContribution,
                      AppendKey, WriteNewChallenge, PromoteChallenge
  <2>4. UNCHANGED <<finalOutput, finalTranscript>> /\ (transcript' = {} => transcript = {})
    BY <1>4, ZenonT(30) DEF ProcessStep, SelectChallenge, VerifyContribution, AppendKey,
                WriteNewChallenge, PromoteChallenge, files
  <2> QED BY <2>3, <2>4, SMTT(30)
<1>5. CASE ValidateTranscript
  <2>1. TranscriptValid =>
          /\ nextChallenge # {} /\ transcript # {}
          /\ \A c \in nextChallenge, t \in transcript : Match(c, t)
    BY Zenon DEF TranscriptValid, FilesOK, AtMostOne
  <2> QED BY <1>5, <2>1, Zenon DEF ValidateTranscript, files
<1>6. CASE PublishOutput
  BY <1>6, Zenon DEF PublishOutput
<1>7. CASE PublishTranscript
  BY <1>7, Zenon DEF PublishTranscript
<1>8. CASE UNCHANGED phase2Vars
  BY <1>1, <1>8, Zenon DEF phase2Vars, handlerVars, files
<1> QED BY <1>2, <1>3, <1>4, <1>5, <1>6, <1>7, <1>8, Zenon DEF Phase2Next, CompleteStep
-----------------------------------------------------------------------------
(* Until a crash, contributors are in the chain in the order of their      *)
(* slots, and the output is published once, after the last slot.           *)
TurnInv ==
  crashes = 0 =>
    /\ idx <= N
    /\ pc["main"] = "off" =>
         idx = 0 /\ stateFile = {} /\ nextChallenge = {} /\ finalOutput = {}
    /\ finalOutput # {} => finalized /\ HaveAll(idx)
    /\ fpc = "output" \/ (cpc = "start" /\ fpc = "idle") => finalOutput = {}
    /\ \A i \in DOMAIN Chain :
         \/ Chain[i] < idx
         \/ Chain[i] = idx /\ (ppc = "true" \/ pc["proc"] \in {"read", "write"})

Phase2Inv ==
  ServerInv /\ CallInv /\ FilesOK /\ HandlerInv /\ FinalInv /\ TurnInv

\* Before the first start there is no file and no thread.
LEMMA Phase2InvInit == Phase2Init => Phase2Inv
<1> SUFFICES ASSUME Phase2Init PROVE Phase2Inv
  BY Zenon
<1> USE DEF Phase2Init
<1>1. ServerInv /\ CallInv
  BY ServerInvInit, CallInit, Zenon
<1>2. FilesOK
  BY Zenon DEF FilesOK, AtMostOne
<1>3. HandlerInv
  BY Zenon DEF HandlerInv, Init
<1>4. FinalInv
  BY Zenon DEF FinalInv, FinalMatchesTranscript
<1>5. TurnInv
  BY ServerAssumption DEF TurnInv, Chain, Init, HaveAll
<1> QED BY <1>1, <1>2, <1>3, <1>4, <1>5, Zenon DEF Phase2Inv

\* The rename that accepts a contribution adds the owner of the slot.
LEMMA PromoteAccepts ==
  ASSUME Phase2Inv, crashes = 0, PromoteChallenge
  PROVE  /\ idx < N /\ Chain \in Seq(Contributors)
         /\ \A i \in DOMAIN Chain : Chain[i] < idx
         /\ Chain' = Append(Chain, idx)
         /\ UNCHANGED <<idx, finalOutput>> /\ finalOutput = {}
<1>1. ppc = "start" /\ pc["proc"] = "handler" /\ hpc = "promote"
  BY Zenon DEF PromoteChallenge, Phase2Inv, CallInv, ServerInv, CallsInv
<1>2. uploader = idx /\ uploader \in Contributors /\ idx \in Nat
  BY <1>1, Zenon DEF Phase2Inv, ServerInv, SavedInv, AdvanceInv, SlotInv, UploadInOwnSlot, ExclusionInv, TypeOK
<1>3. idx < N
  BY <1>2, ServerAssumption DEF Contributors
<1>4. finalOutput = {}
  BY <1>2, <1>3, ServerAssumption DEF Phase2Inv, TurnInv, HaveAll
<1>5. Chain = Base
  BY <1>4, Zenon DEF Chain, Base
<1>6. Chain \in Seq(Contributors)
  BY <1>5, BaseIsSequence, Zenon DEF Phase2Inv
<1>7. \A i \in DOMAIN Chain : Chain[i] < idx
  BY <1>1, Zenon DEF Phase2Inv, TurnInv
<1>8. nextChallenge' = {Append(Base, uploader)}
  BY <1>1, Zenon DEF PromoteChallenge, Phase2Inv, HandlerInv
<1>9. Chain' = Append(Base, uploader)
  BY <1>8, ZenonT(30) DEF Chain, Content
<1>10. UNCHANGED <<idx, finalOutput>>
  BY Zenon DEF PromoteChallenge, memVars
<1> QED BY <1>2, <1>3, <1>4, <1>5, <1>6, <1>7, <1>9, <1>10, Zenon

\* The rename that publishes the output leaves the chain as it is.
LEMMA PublishEnds ==
  ASSUME Phase2Inv, crashes = 0, PublishOutput
  PROVE  /\ idx = N /\ finalOutput = {} /\ Chain # <<>>
         /\ finalOutput' = {Chain} /\ Chain' = Chain /\ UNCHANGED idx
<1>1. fpc = "output" /\ cpc = "start"
  BY Zenon DEF PublishOutput, Phase2Inv, CallInv
<1>2. HaveAll(idx)
  BY <1>1, Zenon DEF Phase2Inv, CallInv, ServerInv, CallsInv, SavedInv, MemoryInv
<1>3. idx \in Nat /\ idx <= N
  BY Zenon DEF Phase2Inv, TurnInv, ServerInv, SavedInv, AdvanceInv, ExclusionInv, TypeOK
<1>4. finalOutput = {}
  BY <1>1, Zenon DEF Phase2Inv, TurnInv
<1>5. PICK c \in nextChallenge : TRUE
  BY <1>1, Zenon DEF Phase2Inv, FinalInv
<1>6. nextChallenge = {c} /\ Content(nextChallenge) = c /\ c # <<>>
  BY <1>5, ContentOf, Zenon DEF Phase2Inv, FilesOK, Kept
<1>7. Chain = c
  BY <1>6, Zenon DEF Chain
<1>8. finalOutput' = {c} /\ nextChallenge' = {} /\ UNCHANGED idx
  BY <1>6, Zenon DEF PublishOutput, vars
<1>9. Chain' = c
  BY <1>8, Zenon DEF Chain, Content
<1> QED BY <1>2, <1>3, <1>4, <1>6, <1>7, <1>8, <1>9, ServerAssumption DEF HaveAll
(* A step of the server alone keeps the order, and moves the index only to *)
(* the next slot.                                                          *)
LEMMA ServerKeepsTurn ==
  ASSUME Phase2Inv, crashes' = 0,
         Phase2Start \/ NameChallenge \/ Download \/ Upload \/ Phase2Cleanup \/ OtherServerStep
  PROVE  /\ TurnInv'
         /\ UNCHANGED <<Chain, finalOutput>>
         /\ idx' = idx \/ (idx < N /\ idx' = idx + 1)
<1>1. UNCHANGED <<fpc, nextChallenge, finalOutput>>
  BY Zenon DEF Phase2Start, NameChallenge, Download, Upload, Phase2Cleanup,
         OtherServerStep, handlerVars, files
<1>2. Chain' = Chain
  BY <1>1, Zenon DEF Chain
<1>3. Chain \in Seq(Contributors)
  <2>1. CASE nextChallenge # {}
    BY <2>1, ContentOf DEF Chain, Phase2Inv, FilesOK, Kept
  <2>2. CASE nextChallenge = {} /\ finalOutput # {}
    BY <2>2, ContentOf DEF Chain, Phase2Inv, FilesOK, Kept
  <2>3. CASE nextChallenge = {} /\ finalOutput = {}
    BY <2>3 DEF Chain
  <2> QED BY <2>1, <2>2, <2>3, Zenon
<1>4. \A i \in DOMAIN Chain : Chain[i] \in Nat
  BY <1>3, ServerAssumption DEF Contributors
<1>5. TurnInv /\ idx \in Nat /\ N \in Nat
  BY ServerAssumption, Zenon DEF Phase2Inv, ServerInv, SavedInv, AdvanceInv, ExclusionInv, TypeOK
<1>6. ASSUME SlotStep, crashes = 0 PROVE TurnInv'
  <2>1. idx' \in Nat /\ idx' <= N
    BY <1>5, <1>6 DEF SlotStep, TurnInv
  <2>2. finalOutput' # {} => finalized' /\ HaveAll(idx')
    BY <1>1, <1>5, <1>6 DEF SlotStep, TurnInv, HaveAll
  <2>3. fpc' = "output" \/ (cpc' = "start" /\ fpc' = "idle") => finalOutput' = {}
    BY <1>1, <1>5, <1>6, Zenon DEF SlotStep, TurnInv
  <2>4. ASSUME NEW i \in DOMAIN Chain
        PROVE  Chain[i] < idx' \/ (Chain[i] = idx' /\ Counting')
    BY <1>4, <1>5, <1>6 DEF SlotStep, TurnInv, Counting
  <2> QED BY <1>2, <1>6, <2>1, <2>2, <2>3, <2>4, Zenon DEF SlotStep, TurnInv, Counting, HaveAll
<1>7. CASE Upload \/ Phase2Cleanup
  <2>1. SlotStep /\ crashes = 0
    BY <1>7, UploadIsSlotStep, Zenon DEF Phase2Inv, Upload, Phase2Cleanup
  <2> QED BY <1>1, <1>2, <1>6, <2>1, Zenon DEF SlotStep
<1>8. CASE (NameChallenge \/ Download \/ OtherServerStep) /\ ~Elapse
  <2>1. SlotStep /\ crashes = 0
    BY <1>8, QuietSteps, Zenon DEF UploadStep, Phase2Inv
  <2> QED BY <1>1, <1>2, <1>6, <2>1 DEF SlotStep
<1>9. CASE Elapse
  <2>1. /\ UNCHANGED <<idx, finalized, pc, crashes, ppc, cpc>>
        /\ stateFile = {} => stateFile' = {}
    BY <1>9, Zenon DEF Elapse, callVars
  <2> QED BY <1>1, <1>2, <1>5, <2>1, SMTT(30) DEF TurnInv, HaveAll
<1>10. CASE Phase2Start
  <2>1. pc["main"] = "off" /\ pc["proc"] = "off" /\ crashes = 0
    BY <1>10, Zenon DEF Phase2Start, Start, Phase2Inv, ServerInv, SavedInv, AdvanceInv, ExclusionInv, ThreadInv
  <2>2. idx = 0 /\ stateFile = {} /\ nextChallenge = {} /\ finalOutput = {}
    BY <1>5, <2>1, Zenon DEF TurnInv
  <2>3. idx' = 0 /\ pc' = [pc EXCEPT !["main"] = "open"]
    BY <1>10, <2>2, Zenon DEF Phase2Start, Start, Goto
  <2>4. pc'["main"] = "open"
    BY <2>3, Zenon DEF Phase2Inv, ServerInv, SavedInv, AdvanceInv, ExclusionInv, TypeOK, Threads
  <2>5. Chain' = <<>>
    BY <1>2, <2>2, Zenon DEF Chain
  <2> QED BY <1>1, <1>2, <1>5, <2>2, <2>3, <2>4, <2>5, SMTT(30) DEF TurnInv
<1> QED BY <1>7, <1>8, <1>9, <1>10, Zenon

(* Before a crash, a step of the handler accepts a contribution, publishes *)
(* the output, or does nothing the ceremony would notice.                  *)
LEMMA HandlerKeepsTurn ==
  ASSUME Phase2Inv, crashes = 0, ProcessStep \/ CompleteStep
  PROVE  /\ TurnInv'
         /\ PromoteChallenge \/ PublishOutput \/ UNCHANGED <<idx, Chain, finalOutput>>
<1>1. TurnInv /\ CallInv /\ idx \in Nat
  BY Zenon DEF Phase2Inv, ServerInv, SavedInv, AdvanceInv, ExclusionInv, TypeOK
<1>2. CASE PromoteChallenge
  <2>1. ppc' = "true" /\ UNCHANGED <<crashes, pc, cpc, fpc, finalized>>
    BY <1>2, Zenon DEF PromoteChallenge, memVars
  <2>2. pc["main"] # "off"
    BY <1>2, Zenon DEF PromoteChallenge, Phase2Inv, CallInv, CallsInv, ServerInv, SavedInv, AdvanceInv,
                ExclusionInv, ThreadInv
  <2>3. \A i \in DOMAIN Chain' : Chain'[i] < idx \/ Chain'[i] = idx
    BY <1>1, <1>2, PromoteAccepts
  <2> QED BY <1>1, <1>2, <2>1, <2>2, <2>3, PromoteAccepts, Zenon DEF TurnInv
<1>3. CASE PublishOutput
  <2>1. fpc' = "transcript" /\ UNCHANGED <<crashes, pc, ppc, cpc, finalized>>
    BY <1>3, Zenon DEF PublishOutput, vars
  <2>2. finalized /\ pc["main"] # "off"
    BY <1>3, Zenon DEF PublishOutput, Phase2Inv, CallInv, CallsInv, ServerInv, SavedInv, AdvanceInv,
                ExclusionInv, ThreadInv, Threads, Updating
  <2>3. HaveAll(idx)'
    BY <1>3, PublishEnds, ServerAssumption DEF HaveAll
  <2>4. idx' <= N /\ Chain' = Chain /\ idx' = idx
    BY <1>3, PublishEnds, ServerAssumption
  <2> QED BY <1>1, <1>3, <2>1, <2>2, <2>3, <2>4, Zenon DEF TurnInv
<1>4. CASE SelectChallenge \/ VerifyContribution \/ AppendKey \/ WriteNewChallenge
  <2>1. UNCHANGED <<crashes, idx, pc, cpc, fpc, finalized, stateFile, nextChallenge, finalOutput>>
    BY <1>4, SMTT(30) DEF SelectChallenge, VerifyContribution, AppendKey,
                WriteNewChallenge, vars, memVars, files
  <2>2. ppc = "start"
    BY <1>1, <1>4, Zenon DEF SelectChallenge, VerifyContribution, AppendKey,
                      WriteNewChallenge, CallInv
  <2>3. Chain' = Chain
    BY <2>1, Zenon DEF Chain
  <2> QED BY <1>1, <2>1, <2>2, <2>3, SMTT(30) DEF TurnInv, HaveAll
<1>5. CASE ValidateTranscript \/ PublishTranscript
  <2>1. UNCHANGED <<crashes, idx, pc, ppc, finalized, stateFile, nextChallenge, finalOutput>>
    BY <1>5, Zenon DEF ValidateTranscript, PublishTranscript, memVars, files
  <2>2. Chain' = Chain
    BY <2>1, Zenon DEF Chain
  <2>3. fpc' = "output" \/ (cpc' = "start" /\ fpc' = "idle") => finalOutput = {}
    BY <1>1, <1>5, Zenon DEF ValidateTranscript, PublishTranscript, TurnInv
  <2> QED BY <1>1, <2>1, <2>2, <2>3, Zenon DEF TurnInv, HaveAll
<1> QED BY <1>2, <1>3, <1>4, <1>5, Zenon DEF ProcessStep, CompleteStep

(* One step of the coordinator keeps the invariant and is, before a crash, *)
(* a step of the ceremony.                                                 *)
LEMMA Phase2Step ==
  ASSUME ~SlowProcessing, Phase2Inv, [Phase2Next]_phase2Vars
  PROVE  Phase2Inv' /\ [crashes' > 0 \/ Ceremony!Next]_<<idx, Chain, finalOutput>>
<1>1. ServerInv'
  <2>1. [Next]_vars
    BY Phase2Server, Zenon DEF Phase2Inv
  <2> QED BY <2>1, ServerInvInductive, Zenon DEF Phase2Inv
<1>2. CallInv' /\ FilesOK' /\ HandlerInv' /\ FinalInv'
  BY <1>1, CallPreserved, FilesPreserved, HandlerPreserved, FinalPreserved, Zenon DEF Phase2Inv
<1>3. crashes \in Nat /\ crashes' \in Nat /\ idx \in Nat
  BY <1>1 DEF Phase2Inv, ServerInv, SavedInv, AdvanceInv, ExclusionInv, TypeOK
<1>4. CASE crashes' # 0
  BY <1>1, <1>2, <1>3, <1>4 DEF Phase2Inv, TurnInv
<1>5. CASE crashes' = 0
  <2>1. CASE Phase2Start \/ NameChallenge \/ Download \/ Upload \/ Phase2Cleanup \/ OtherServerStep
    BY <1>1, <1>2, <1>5, <2>1, ServerKeepsTurn, Zenon DEF Phase2Inv, Ceremony!Next, Ceremony!NextTurn
  <2>2. CASE Phase2Crash
    BY <1>3, <1>5, <2>2 DEF Phase2Crash, Crash
  <2>3. CASE ProcessStep \/ CompleteStep
    <3>1. crashes = 0
      BY <1>5, <2>3, ZenonT(30) DEF ProcessStep, CompleteStep, SelectChallenge, VerifyContribution,
           AppendKey, WriteNewChallenge, PromoteChallenge, ValidateTranscript,
           PublishOutput, PublishTranscript, vars
    <3>2. Phase2Inv'
      BY <1>1, <1>2, <2>3, <3>1, HandlerKeepsTurn, Zenon DEF Phase2Inv
    <3>3. CASE PromoteChallenge
      BY <3>1, <3>2, <3>3, PromoteAccepts, Zenon DEF Ceremony!Next, Ceremony!Accept
    <3>4. CASE PublishOutput
      BY <3>1, <3>2, <3>4, PublishEnds, Zenon DEF Ceremony!Next, Ceremony!Publish
    <3>5. CASE UNCHANGED <<idx, Chain, finalOutput>>
      BY <3>2, <3>5, Zenon
    <3> QED BY <2>3, <3>1, <3>3, <3>4, <3>5, HandlerKeepsTurn, SMTT(30)
  <2>4. CASE UNCHANGED phase2Vars
    <3>1. UNCHANGED <<vars, handlerVars, files>>
      BY <2>4, SMTT(30) DEF phase2Vars
    <3>2. UNCHANGED <<idx, Chain, finalOutput>> /\ TurnInv'
      BY <3>1, Zenon DEF vars, handlerVars, files, Chain, Phase2Inv, TurnInv, HaveAll
    <3> QED BY <1>1, <1>2, <3>2, Zenon DEF Phase2Inv
  <2> QED BY <2>1, <2>2, <2>3, <2>4, Zenon DEF Phase2Next
<1> QED BY <1>4, <1>5, Zenon
-----------------------------------------------------------------------------
(* An output and a transcript published by the same on_completed agree     *)
(* (FinalMatchesTranscript), after any number of crashes and restarts.     *)
THEOREM PublishedFilesMatch ==
  ASSUME ~SlowProcessing
  PROVE  Phase2Spec => []FinalMatchesTranscript
<1>1. Phase2Inv /\ [Phase2Next]_phase2Vars => Phase2Inv'
  BY Phase2Step, Zenon
<1>2. Phase2Inv => FinalMatchesTranscript
  BY Zenon DEF Phase2Inv, FinalInv
<1> QED BY <1>1, <1>2, Phase2InvInit, PTL DEF Phase2Spec

(* Until the first crash the coordinator with its handler and commands     *)
(* implements the ceremony (ImplementsCeremony): contributors take turns,  *)
(* each adds at most one contribution, and the whole chain is published.   *)
THEOREM CoordinatorImplementsCeremony ==
  ASSUME ~SlowProcessing
  PROVE  Phase2Spec => ImplementsCeremony
<1>1. Phase2Init => Ceremony!Init
  BY Zenon DEF Phase2Init, Init, Ceremony!Init, Chain
<1>2. Phase2Inv /\ [Phase2Next]_phase2Vars =>
        Phase2Inv' /\ [crashes' > 0 \/ Ceremony!Next]_<<idx, Chain, finalOutput>>
  BY Phase2Step, Zenon
<1> QED BY <1>1, <1>2, Phase2InvInit, PTL DEF Phase2Spec, ImplementsCeremony

(* A contribution is counted only while it is the last of the chain that   *)
(* was kept (CountedIsKept), whatever crashes there were before.           *)
THEOREM ContributionsCountedAreKept ==
  ASSUME ~SlowProcessing
  PROVE  Phase2Spec => CountedIsKept
<1>1. ASSUME Phase2Inv, ppc = "true"
      PROVE  Chain # <<>> /\ Chain[Len(Chain)] = uploader
  <2>1. PICK c \in nextChallenge : c[Len(c)] = uploader
    BY <1>1, Zenon DEF Phase2Inv, HandlerInv
  <2>2. Content(nextChallenge) = c /\ c # <<>>
    BY <1>1, ContentOf, Zenon DEF Phase2Inv, FilesOK, Kept
  <2> QED BY <2>1, <2>2, Zenon DEF Chain
<1>2. Phase2Inv /\ [Phase2Next]_phase2Vars => Phase2Inv'
  BY Phase2Step
<1>3. Phase2Inv =>
        [ppc = "true" /\ ppc' = "idle" /\ pc'["proc"] = "read" =>
           Chain # <<>> /\ Chain[Len(Chain)] = uploader]_phase2Vars
  BY <1>1, Zenon
<1> QED BY <1>2, <1>3, Phase2InvInit, PTL DEF Phase2Spec, CountedIsKept
=============================================================================
