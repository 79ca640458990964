------------------------------ MODULE MpcPhase2 ------------------------------
(***************************************************************************)
(* The coordinator server with its phase-2 handler                         *)
(* (phase2_contribution_handler.py, mpc_command.py), the commands it runs  *)
(* (mpc_tools/mpc_phase2/cli) and the contributors' side of the exchange   *)
(* (client.py, contribute.py).                                             *)
(*                                                                         *)
(* A file is a set with at most one element, its contents.  A challenge is *)
(* abstracted to the sequence of contributors it accumulates, which is     *)
(* what its transcript digest commits to; a response to its author, the    *)
(* challenge it was computed from, and whether its update is consistent.   *)
(* CHALLENGE_0_FILE is never written: it always holds the empty sequence.  *)
(***************************************************************************)
EXTENDS MpcServer, Sequences

VARIABLES
  hpc,             \* where process_contribution is
  fpc,             \* where on_completed is
  path,            \* the challenge file name each thread was given
  upload,          \* the server's upload file
  nextChallenge,   \* NEXT_CHALLENGE_FILE
  newChallenge,    \* NEW_CHALLENGE_FILE
  transcript,      \* TRANSCRIPT_FILE
  finalOutput,     \* FINAL_OUTPUT
  finalTranscript, \* FINAL_TRANSCRIPT
  got              \* the challenge each contributor last downloaded

files == <<nextChallenge, newChallenge, transcript, finalOutput,
           finalTranscript>>
handlerVars == <<hpc, fpc, path>>
phase2Vars == <<vars, handlerVars, upload, files, got>>

Content(f) == CHOOSE c \in f : TRUE
File(name) == IF name = "challenge_0" THEN {<<>>} ELSE nextChallenge

Authors(t) == [i \in DOMAIN t |-> t[i].by]

\* Mutant: the transcript digest of the response is not compared.
VerifyResponse_AnyBase(c, r) == r.good

(* srs_mpc_phase2_verify_response: the response continues the challenge's  *)
(* transcript digest and updates its accumulator consistently.             *)
VerifyResponse(c, r) == r.good /\ r.base = c

(* srs_mpc_phase2_verify_transcript: replaying the transcript from         *)
(* challenge 0, every entry continues the digest of the ones before it.    *)
VerifyTranscript(t) ==
  \A i \in DOMAIN t : t[i].good /\ t[i].base = SubSeq(Authors(t), 1, i - 1)
-----------------------------------------------------------------------------
(* get_current_challenge_file, which raises for the 0-th contributor when  *)
(* there is a next challenge.                                              *)
Raises == nextChallenge # {} /\ idx = 0
CurrentChallengeFile ==
  IF nextChallenge # {} THEN "next_challenge" ELSE "challenge_0"

(* process_contribution, one step per effect on the file system. *)
SelectChallenge ==
  /\ ppc = "start" /\ hpc = "idle"
  /\ \/ Raises /\ ppc' = "raise" /\ UNCHANGED <<hpc, path>>
     \/ /\ ~Raises
        /\ path' = [path EXCEPT !["proc"] = CurrentChallengeFile]
        /\ hpc' = "verify"
        /\ UNCHANGED ppc
  /\ UNCHANGED <<memVars, lock, pc, tmp, buf, req, stateFile, crashes,
                 uploader, cpc, fpc, upload, files, got>>

(* phase2-verify-contribution: a challenge file that is gone, or a response*)
(* that does not verify, ends the command with an error.                   *)
VerifyContribution ==
  /\ hpc = "verify"
  /\ \/ /\ \E c \in File(path["proc"]), r \in upload : VerifyResponse(c, r)
        /\ hpc' = "append"
        /\ UNCHANGED ppc
     \/ /\ ~ \E c \in File(path["proc"]), r \in upload : VerifyResponse(c, r)
        /\ ppc' = "false"
        /\ hpc' = "idle"
  /\ UNCHANGED <<memVars, lock, pc, tmp, buf, req, stateFile, crashes,
                 uploader, cpc, fpc, path, upload, files, got>>

(* ... then appends the public key to the transcript, ... *)
AppendKey ==
  /\ hpc = "append"
  /\ transcript' = {Append(IF transcript = {} THEN <<>>
                           ELSE Content(transcript), Content(upload))}
  /\ hpc' = "challenge"
  /\ UNCHANGED <<vars, fpc, path, upload, nextChallenge, newChallenge,
                 finalOutput, finalTranscript, got>>

\* Mutant: the old challenge is written in place of the updated one.
WriteNewChallenge_Base ==
  /\ hpc = "challenge"
  /\ newChallenge' = {Content(upload).base}
  /\ hpc' = "promote"
  /\ UNCHANGED <<vars, fpc, path, upload, nextChallenge, transcript,
                 finalOutput, finalTranscript, got>>

(* ... and writes the new challenge. *)
WriteNewChallenge ==
  /\ hpc = "challenge"
  /\ newChallenge' = {Append(Content(upload).base, Content(upload).by)}
  /\ hpc' = "promote"
  /\ UNCHANGED <<vars, fpc, path, upload, nextChallenge, transcript,
                 finalOutput, finalTranscript, got>>

\* Mutant: the new challenge is not moved into place.
PromoteChallenge_NotMoved ==
  /\ hpc = "promote"
  /\ ppc' = "true"
  /\ hpc' = "idle"
  /\ UNCHANGED <<memVars, lock, pc, tmp, buf, req, stateFile, crashes,
                 uploader, cpc, fpc, path, upload, files, got>>

(* rename(NEW_CHALLENGE_FILE, NEXT_CHALLENGE_FILE); return True *)
PromoteChallenge ==
  /\ hpc = "promote"
  /\ nextChallenge' = newChallenge
  /\ newChallenge' = {}
  /\ ppc' = "true"
  /\ hpc' = "idle"
  /\ UNCHANGED <<memVars, lock, pc, tmp, buf, req, stateFile, crashes,
                 uploader, cpc, fpc, path, upload, transcript, finalOutput,
                 finalTranscript, got>>
-----------------------------------------------------------------------------
\* Mutant: the replayed result is not compared with the challenge.
TranscriptValid_NoFinal ==
  \E c \in nextChallenge, t \in transcript : VerifyTranscript(t)

(* on_completed: phase2-verify-transcript replays the transcript and       *)
(* compares the result with the next challenge; then the two files move.   *)
TranscriptValid ==
  \E c \in nextChallenge, t \in transcript :
    VerifyTranscript(t) /\ c = Authors(t)

ValidateTranscript ==
  /\ cpc = "start" /\ fpc = "idle"
  /\ \/ TranscriptValid /\ fpc' = "output" /\ UNCHANGED cpc
     \/ ~TranscriptValid /\ cpc' = "raise" /\ UNCHANGED fpc
  /\ UNCHANGED <<memVars, lock, pc, tmp, buf, req, stateFile, crashes,
                 uploader, ppc, hpc, path, upload, files, got>>

PublishOutput ==
  /\ fpc = "output"
  /\ finalOutput' = nextChallenge
  /\ nextChallenge' = {}
  /\ fpc' = "transcript"
  /\ UNCHANGED <<vars, hpc, path, upload, newChallenge, transcript,
                 finalTranscript, got>>

PublishTranscript ==
  /\ fpc = "transcript"
  /\ finalTranscript' = transcript
  /\ transcript' = {}
  /\ cpc' = "ok" /\ fpc' = "idle"
  /\ UNCHANGED <<memVars, lock, pc, tmp, buf, req, stateFile, crashes,
                 uploader, ppc, hpc, path, upload, nextChallenge,
                 newChallenge, finalOutput, got>>
-----------------------------------------------------------------------------
(* Phase2ContributionHandler.__init__ runs before the server's constructor *)
(* and refuses a transcript without a next challenge.                      *)
Phase2Start ==
  /\ Start
  /\ nextChallenge = {} => transcript = {}
  /\ UNCHANGED <<handlerVars, upload, files, got>>

Phase2Crash ==
  /\ Crash
  /\ hpc' = "idle" /\ fpc' = "idle"
  /\ path' = [t \in {"http", "proc"} |-> "challenge_0"]
  /\ UNCHANGED <<upload, files, got>>

(* _challenge names the file under the lock ... *)
NameChallenge ==
  /\ HttpChallenge(~Raises)
  /\ path' = [path EXCEPT !["http"] = CurrentChallengeFile]
  /\ UNCHANGED <<hpc, fpc, upload, files, got>>

(* ... and it is opened afterwards, if it is still there. *)
Download ==
  /\ HttpStream
  /\ \E r \in req : got' = [got EXCEPT ![r.who] = File(path["http"])]
  /\ UNCHANGED <<handlerVars, upload, files>>

(* A contributor sends a response to the challenge it has, or a faulty one *)
Responses(who) ==
  {[by |-> who, base |-> c, good |-> TRUE] : c \in got[who]}
    \cup {[by |-> who, base |-> <<>>, good |-> FALSE]}

Upload ==
  /\ HttpAccept
  /\ \E r \in Responses(uploader') : upload' = {r}
  /\ UNCHANGED <<handlerVars, files, got>>

(* The finally block removes the upload. *)
Phase2Cleanup ==
  /\ ProcCleanup
  /\ upload' = {}
  /\ UNCHANGED <<handlerVars, files, got>>

(* The steps of the server that touch none of the handler's files. *)
OtherServerStep ==
  /\ \/ Launch \/ TickBegin \/ HttpRefuse \/ ProcCall \/ ProcReturn
     \/ Elapse
     \/ \E r \in Requests : HttpBegin(r)
     \/ \E t \in Threads : UpdateStep(t)
  /\ UNCHANGED <<handlerVars, upload, files, got>>

Phase2Init ==
  /\ Init
  /\ hpc = "idle" /\ fpc = "idle"
  /\ path = [t \in {"http", "proc"} |-> "challenge_0"]
  /\ upload = {} /\ nextChallenge = {} /\ newChallenge = {}
  /\ transcript = {} /\ finalOutput = {} /\ finalTranscript = {}
  /\ got = [i \in Contributors |-> {}]

ProcessStep ==
  \/ SelectChallenge \/ VerifyContribution \/ AppendKey
  \/ WriteNewChallenge \/ PromoteChallenge

CompleteStep == ValidateTranscript \/ PublishOutput \/ PublishTranscript

Phase2Next ==
  \/ Phase2Start \/ Phase2Crash \/ NameChallenge \/ Download \/ Upload
  \/ Phase2Cleanup \/ OtherServerStep \/ ProcessStep \/ CompleteStep

Phase2Spec == Phase2Init /\ [][Phase2Next]_phase2Vars

(* The threads are scheduled, the commands they run end, and time passes.  *)
Phase2Fairness ==
  /\ WF_phase2Vars(ProcessStep) /\ WF_phase2Vars(CompleteStep)
  /\ WF_phase2Vars(Phase2Cleanup)
  /\ WF_phase2Vars(NameChallenge) /\ WF_phase2Vars(Download)
  /\ WF_phase2Vars(OtherServerStep /\ (ProcCall \/ ProcReturn))
  /\ \A t \in Threads : WF_phase2Vars(OtherServerStep /\ UpdateStep(t))

Phase2FairSpec == Phase2Spec /\ Phase2Fairness
-----------------------------------------------------------------------------
(* The chain of accepted contributions, before and after it is published. *)
Chain ==
  IF nextChallenge # {} THEN Content(nextChallenge)
  ELSE IF finalOutput # {} THEN Content(finalOutput) ELSE <<>>

Ceremony == INSTANCE MpcCeremony
              WITH turn <- idx, chain <- Chain, output <- finalOutput

(* Until the first crash, and if no slot is overrun, the threads, the      *)
(* upload exchange, the handler and its commands together behave as the    *)
(* ceremony.                                                               *)
ImplementsCeremony ==
  /\ Ceremony!Init
  /\ [][crashes' > 0 \/ Ceremony!Next]_<<idx, Chain, finalOutput>>

(* Whatever crashes there were, an output and a transcript published by    *)
(* the same on_completed agree: the output accumulates exactly the         *)
(* contributions of the transcript, each made on top of the others.        *)
FinalMatchesTranscript ==
  \A c \in finalOutput, t \in finalTranscript :
    transcript = {} => c = Authors(t) /\ VerifyTranscript(t)

(* A response that was verified once is still the last of the chain when   *)
(* the index advances: the server counts only contributions it has kept.   *)
CountedIsKept ==
  [][ppc = "true" /\ ppc' = "idle" /\ pc'["proc"] = "read" =>
       Chain # <<>> /\ Chain[Len(Chain)] = uploader]_phase2Vars

(* When the last slot is over and a contribution was kept, the output is   *)
(* eventually published.                                                   *)
CompletionPublishes ==
  (HaveAll(idx) /\ nextChallenge # {}) ~> (finalOutput # {} \/ crashes > 0)
=============================================================================
