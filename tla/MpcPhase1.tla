------------------------------ MODULE MpcPhase1 ------------------------------
(***************************************************************************)
(* The coordinator server with its phase-1 handler                         *)
(* (phase1_contribution_handler.py, powersoftau_command.py) and the        *)
(* contributors' side of the exchange (client.py, contribute.py).          *)
(*                                                                         *)
(* A file is a set with at most one element, its contents.  A challenge is *)
(* abstracted to the sequence of contributors whose contributions it       *)
(* accumulates, and a response to its author, the challenge it was         *)
(* computed from, and whether it was computed correctly.                   *)
(***************************************************************************)
EXTENDS MpcServer, Sequences

CONSTANT LenientVerify  \* may powersoftau verify accept a transcript that
                        \* disagrees with the files around it?

ASSUME Phase1Assumption == LenientVerify \in BOOLEAN

VARIABLES
  hpc,             \* where process_contribution is
  fpc,             \* where on_completed is
  numValid,        \* _Phase1State.num_valid_contributions
  upload,          \* the server's upload file
  response,        \* RESPONSE_FILE
  challenge,       \* CHALLENGE_FILE
  newChallenge,    \* NEW_CHALLENGE_FILE
  transcript,      \* TRANSCRIPT_FILE
  countFile,       \* PHASE1_STATE_FILE
  finalOutput,     \* FINAL_OUTPUT
  finalTranscript, \* FINAL_TRANSCRIPT
  got              \* the challenge each contributor last downloaded

files == <<response, challenge, newChallenge, transcript, countFile,
           finalOutput, finalTranscript>>
handlerVars == <<hpc, fpc, numValid>>
phase1Vars == <<vars, handlerVars, upload, files, got>>

TornCount == -1       \* PHASE1_STATE_FILE after open(.., "w")

(* The one element of a non-empty file. *)
Content(f) == CHOOSE c \in f : TRUE

(* The contributors of a transcript, and whether each of its first n       *)
(* responses was computed from the challenge the previous ones lead to.    *)
Authors(t) == [i \in DOMAIN t |-> t[i].by]
Chained(t, n) ==
  \A i \in 1 .. n : t[i].good /\ t[i].base = SubSeq(Authors(t), 1, i - 1)
-----------------------------------------------------------------------------
(* powersoftau verify_transform: accepts a response computed from the      *)
(* challenge file, and then writes the new challenge.                      *)
VerifyTransform(c, r) == r.good /\ r.base = c

(* powersoftau verify --rounds n: replays n responses of the transcript.   *)
(* What it says when the transcript goes on after them, or ends in another *)
(* challenge than the challenge file, is not known here (LenientVerify).   *)
VerifyTranscript(t, n) ==
  IF n <= Len(t) /\ Chained(t, n)
  THEN IF n = Len(t) /\ challenge = {Authors(t)} THEN {TRUE}
       ELSE {FALSE, LenientVerify}
  ELSE {FALSE}
-----------------------------------------------------------------------------
(* process_contribution, one step per effect on the file system. *)
TakeResponse ==
  /\ ppc = "start" /\ hpc = "idle"
  /\ response' = upload
  /\ upload' = {}
  /\ hpc' = "verify"
  /\ UNCHANGED <<vars, fpc, numValid, challenge, newChallenge, transcript,
                 countFile, finalOutput, finalTranscript, got>>

VerifyContribution ==
  /\ hpc = "verify"
  /\ LET r == Content(response) IN
       \/ /\ \E c \in challenge : VerifyTransform(c, r)
          /\ newChallenge' = {Append(Content(challenge), r.by)}
          /\ hpc' = "append"
          /\ UNCHANGED ppc
       \/ /\ ~ \E c \in challenge : VerifyTransform(c, r)
          /\ ppc' = "false"
          /\ hpc' = "idle"
          /\ UNCHANGED newChallenge
  /\ UNCHANGED <<memVars, lock, pc, tmp, buf, req, stateFile, crashes,
                 uploader, cpc, fpc, numValid, upload, response, challenge,
                 transcript, countFile, finalOutput, finalTranscript, got>>

(* append_response_to_transcript: dd appends, creating the file if need be *)
AppendResponse ==
  /\ hpc = "append"
  /\ transcript' = {Append(IF transcript = {} THEN <<>>
                           ELSE Content(transcript), Content(response))}
  /\ hpc' = "count"
  /\ UNCHANGED <<vars, fpc, numValid, upload, response, challenge,
                 newChallenge, countFile, finalOutput, finalTranscript, got>>

(* on_valid_contribution and _save_state, up to the flush. *)
CountContribution ==
  /\ hpc = "count"
  /\ numValid' = numValid + 1
  /\ countFile' = {TornCount}
  /\ hpc' = "save"
  /\ UNCHANGED <<vars, fpc, upload, response, challenge, newChallenge,
                 transcript, finalOutput, finalTranscript, got>>

SaveCount ==
  /\ hpc = "save"
  /\ countFile' = {numValid}
  /\ hpc' = "promote"
  /\ UNCHANGED <<vars, fpc, numValid, upload, response, challenge,
                 newChallenge, transcript, finalOutput, finalTranscript, got>>

\* Mutant: the new challenge is not moved into place.
PromoteChallenge_NotMoved ==
  /\ hpc = "promote"
  /\ ppc' = "true"
  /\ hpc' = "idle"
  /\ UNCHANGED <<memVars, lock, pc, tmp, buf, req, stateFile, crashes,
                 uploader, cpc, fpc, numValid, upload, files, got>>

(* rename(NEW_CHALLENGE_FILE, CHALLENGE_FILE); return True *)
PromoteChallenge ==
  /\ hpc = "promote"
  /\ challenge' = newChallenge
  /\ newChallenge' = {}
  /\ ppc' = "true"
  /\ hpc' = "idle"
  /\ UNCHANGED <<memVars, lock, pc, tmp, buf, req, stateFile, crashes,
                 uploader, cpc, fpc, numValid, upload, response, transcript,
                 countFile, finalOutput, finalTranscript, got>>
-----------------------------------------------------------------------------
\* Mutant: one round too many is verified.
Verdicts_OffByOne ==
  IF transcript = {} THEN {FALSE}
  ELSE VerifyTranscript(Content(transcript), numValid + 1)

(* on_completed: the transcript is validated, then the two files move.     *)
Verdicts ==
  IF transcript = {} THEN {FALSE}        \* "no contributions made"
  ELSE VerifyTranscript(Content(transcript), numValid)

ValidateTranscript ==
  /\ cpc = "start" /\ fpc = "idle"
  /\ \/ TRUE \in Verdicts /\ fpc' = "output" /\ UNCHANGED cpc
     \/ FALSE \in Verdicts /\ cpc' = "raise" /\ UNCHANGED fpc
  /\ UNCHANGED <<memVars, lock, pc, tmp, buf, req, stateFile, crashes,
                 uploader, ppc, hpc, numValid, upload, files, got>>

(* rename raises if the file is not there. *)
PublishOutput ==
  /\ fpc = "output"
  /\ \/ /\ challenge # {}
        /\ finalOutput' = challenge
        /\ challenge' = {}
        /\ fpc' = "transcript"
        /\ UNCHANGED cpc
     \/ /\ challenge = {}
        /\ cpc' = "raise" /\ fpc' = "idle"
        /\ UNCHANGED <<finalOutput, challenge>>
  /\ UNCHANGED <<memVars, lock, pc, tmp, buf, req, stateFile, crashes,
                 uploader, ppc, hpc, numValid, upload, response, newChallenge,
                 transcript, countFile, finalTranscript, got>>

PublishTranscript ==
  /\ fpc = "transcript"
  /\ finalTranscript' = transcript
  /\ transcript' = {}
  /\ cpc' = "ok" /\ fpc' = "idle"
  /\ UNCHANGED <<memVars, lock, pc, tmp, buf, req, stateFile, crashes,
                 uploader, ppc, hpc, numValid, upload, response, challenge,
                 newChallenge, countFile, finalOutput, got>>
-----------------------------------------------------------------------------
\* Mutant: the counter is not loaded.
Phase1Start_NoLoad ==
  /\ Start
  /\ TornCount \notin countFile
  /\ numValid' = 0
  /\ \/ challenge # {} /\ UNCHANGED challenge
     \/ /\ challenge = {} /\ newChallenge = {} /\ transcript = {}
        /\ challenge' = {<<>>}
  /\ UNCHANGED <<hpc, fpc, upload, response, newChallenge, transcript,
                 countFile, finalOutput, finalTranscript, got>>

(* Phase1ContributionHandler.__init__, which runs before the server's: the *)
(* counter is loaded and the initial challenge created if there is no      *)
(* challenge.  A failed assertion, or a torn counter, ends the process.    *)
Phase1Start ==
  /\ Start
  /\ TornCount \notin countFile
  /\ numValid' = IF countFile = {} THEN 0 ELSE Content(countFile)
  /\ \/ challenge # {} /\ UNCHANGED challenge
     \/ /\ challenge = {} /\ newChallenge = {} /\ transcript = {}
        /\ challenge' = {<<>>}
  /\ UNCHANGED <<hpc, fpc, upload, response, newChallenge, transcript,
                 countFile, finalOutput, finalTranscript, got>>

Phase1Crash ==
  /\ Crash
  /\ hpc' = "idle" /\ fpc' = "idle" /\ numValid' = 0
  /\ UNCHANGED <<upload, files, got>>

(* The challenge file is opened when streaming starts; the contributor has *)
(* what it held then (nothing, if it has been moved away).                 *)
Download ==
  /\ HttpStream
  /\ \E r \in req : got' = [got EXCEPT ![r.who] = challenge]
  /\ UNCHANGED <<handlerVars, upload, files>>

(* A contributor sends a response to the challenge it has, or a faulty one *)
Responses(who) ==
  {[by |-> who, base |-> c, good |-> TRUE] : c \in got[who]}
    \cup {[by |-> who, base |-> <<>>, good |-> FALSE]}

Upload ==
  /\ HttpAccept
  /\ \E r \in Responses(uploader') : upload' = {r}
  /\ UNCHANGED <<handlerVars, files, got>>

(* The finally block removes the upload if the handler has not moved it. *)
Phase1Cleanup ==
  /\ ProcCleanup
  /\ upload' = {}
  /\ UNCHANGED <<handlerVars, files, got>>

(* The steps of the server that touch none of the handler's files. *)
OtherServerStep ==
  /\ \/ Launch \/ TickBegin \/ HttpRefuse \/ ProcCall \/ ProcReturn
     \/ Elapse
     \/ \E r \in Requests : HttpBegin(r)
     \/ HttpChallenge(TRUE)
     \/ \E t \in Threads : UpdateStep(t)
  /\ UNCHANGED <<handlerVars, upload, files, got>>

Phase1Init ==
  /\ Init
  /\ hpc = "idle" /\ fpc = "idle" /\ numValid = 0
  /\ upload = {} /\ response = {} /\ challenge = {} /\ newChallenge = {}
  /\ transcript = {} /\ countFile = {} /\ finalOutput = {}
  /\ finalTranscript = {}
  /\ got = [i \in Contributors |-> {}]

ProcessStep ==
  \/ TakeResponse \/ VerifyContribution \/ AppendResponse
  \/ CountContribution \/ SaveCount \/ PromoteChallenge

CompleteStep == ValidateTranscript \/ PublishOutput \/ PublishTranscript

Phase1Next ==
  \/ Phase1Start \/ Phase1Crash \/ Download \/ Upload \/ Phase1Cleanup
  \/ OtherServerStep \/ ProcessStep \/ CompleteStep

Phase1Spec == Phase1Init /\ [][Phase1Next]_phase1Vars

(* The threads are scheduled, the commands they run end, and time passes.  *)
Phase1Fairness ==
  /\ WF_phase1Vars(ProcessStep) /\ WF_phase1Vars(CompleteStep)
  /\ WF_phase1Vars(Phase1Cleanup) /\ WF_phase1Vars(Download)
  /\ WF_phase1Vars(OtherServerStep /\ (ProcCall \/ ProcReturn))
  /\ \A t \in Threads : WF_phase1Vars(OtherServerStep /\ UpdateStep(t))

Phase1FairSpec == Phase1Spec /\ Phase1Fairness
-----------------------------------------------------------------------------
(* The chain of accepted contributions, before and after it is published. *)
Chain ==
  IF challenge # {} THEN Content(challenge)
  ELSE IF finalOutput # {} THEN Content(finalOutput) ELSE <<>>

Ceremony == INSTANCE MpcCeremony
              WITH turn <- idx, chain <- Chain, output <- finalOutput

(* Until the first crash, and if no slot is overrun, the threads, the      *)
(* upload exchange and the handler's file operations together behave as    *)
(* the ceremony: one contribution per contributor, in its own turn, and    *)
(* the whole chain is published.                                           *)
ImplementsCeremony ==
  /\ Ceremony!Init
  /\ [][crashes' > 0 \/ Ceremony!Next]_<<idx, Chain, finalOutput>>

(* Once the state file says that the MPC is complete there is an output:   *)
(* an on_completed that raised, or a crash inside it, is not recorded as   *)
(* completion.                                                             *)
CompleteImpliesOutput ==
  \A s \in stateFile \ {Torn} : HaveAll(s.idx) => finalOutput # {}

(* Even when a crash repeats a slot, no contribution enters the challenge  *)
(* out of the order of the contributor list.                               *)
ContributionsInOrder ==
  \A c \in challenge \cup finalOutput :
    \A i, j \in DOMAIN c : i <= j => c[i] <= c[j]

(* A published output is never replaced when the server restarts, once,    *)
(* from a state file that does not know of the completion: the counter of  *)
(* valid contributions survives and no longer fits the new transcript.     *)
OutputKept ==
  [][finalOutput # {} /\ crashes' <= 1 => finalOutput' = finalOutput]_phase1Vars

(* The constructor's assertions (phase1_contribution_handler.py:121-122)   *)
(* hold whenever the server may be started again.                          *)
RestartAssertions ==
  pc["main"] = "off" /\ challenge = {} =>
    newChallenge = {} /\ transcript = {}

(* When the last slot is over and there is a valid contribution, the       *)
(* output is eventually published.                                         *)
CompletionPublishes ==
  (HaveAll(idx) /\ numValid > 0) ~> (finalOutput # {} \/ crashes > 0)
=============================================================================
