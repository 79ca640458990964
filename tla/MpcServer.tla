------------------------------ MODULE MpcServer ------------------------------
(***************************************************************************)
(* The MPC coordinator server (mpc/coordinator/server.py) with the state   *)
(* object it owns (server_state.py).  Four threads share its memory:       *)
(*                                                                         *)
(*   main   the constructor, which loads or creates the state file;        *)
(*   http   the single WSGI worker, which runs one request at a time under *)
(*          state_lock;                                                    *)
(*   tick   the Interval thread, which runs _update_state under state_lock;*)
(*   proc   the thread _contribute launches to process one upload.  It     *)
(*          takes no lock.                                                 *)
(*                                                                         *)
(* The contribution handler (IContributionHandler) is called by the proc   *)
(* thread (process_contribution) and by whichever thread completes the MPC *)
(* (on_completed).  A call is the pair of interface variables ppc and cpc: *)
(* the caller sets them to "start" and waits for a result.  In this module *)
(* the handler returns any result it may; MpcPhase1 and MpcPhase2 supply   *)
(* the real ones.                                                          *)
(*                                                                         *)
(* Contributors are the indices 0..N-1 of the contributor list.  Time is   *)
(* abstracted to what the code compares: a deadline is still ahead         *)
(* ("future"), has passed ("passed") or is switched off ("none", the 0.0   *)
(* of the code).  The notification e-mail is left out: it changes nothing. *)
(***************************************************************************)
EXTENDS Integers

CONSTANTS N,              \* number of contributors
          SlowProcessing, \* may a deadline pass while an upload is handled?
          MaxCrashes      \* bound on the number of crashes

ASSUME ServerAssumption ==
  /\ N \in Nat \ {0}            \* initial_server_state: len(contributors) != 0
  /\ SlowProcessing \in BOOLEAN
  /\ MaxCrashes \in Nat

VARIABLES
  idx,        \* ServerState.next_contributor_index
  deadline,   \* ServerState.next_contributor_deadline
  finalized,  \* Server.handler_finalized
  processing, \* Server.processing
  lock,       \* holder of Server.state_lock
  pc,         \* where each thread is
  tmp,        \* the index a thread read before it stores index + 1
  buf,        \* the state a thread has serialised and not yet flushed
  req,        \* the request the http thread is running
  stateFile,  \* contents of STATE_FILE: {} (absent) or one record
  crashes,    \* number of crashes so far
  uploader,   \* ghost: the contributor whose upload is being processed
  ppc,        \* the handler's process_contribution call
  cpc         \* the handler's on_completed call

memVars == <<idx, deadline, finalized, processing>>
callVars == <<ppc, cpc>>
vars == <<idx, deadline, finalized, processing, lock, pc, tmp, buf, req,
          stateFile, crashes, uploader, ppc, cpc>>

Contributors == 0 .. N - 1
Threads == {"main", "tick", "http", "proc"}
Deadlines == {"none", "future", "passed"}

(* The points of _update_state / _on_contribution, common to all threads.  *)
Updating == {"check", "read", "write", "deadline", "finalize", "completing",
             "open", "flush"}

(* What STATE_FILE holds: the index and the deadline, or "torn" between    *)
(* the truncation by open(.., "w") and the flush of the new contents.      *)
States == [idx : Nat, deadline : Deadlines]
Torn == [idx |-> 0, deadline |-> "torn"]

Requests == [kind : {"challenge", "contribute"}, who : Contributors]
-----------------------------------------------------------------------------
HaveAll(i) == N <= i

Goto(t, where) == pc' = [pc EXCEPT ![t] = where]

(* Where a thread continues after _update_state or _on_contribution, and   *)
(* where an exception raised inside one takes it: the request is answered  *)
(* with a 400, the Interval thread ends, and _process_contribution runs    *)
(* its finally block.  "with self.state_lock" releases the lock.           *)
AfterUpdate == [main |-> "launch", tick |-> "idle", http |-> "body",
                proc |-> "cleanup"]
OnRaise == [main |-> "off", tick |-> "dead", http |-> "idle",
            proc |-> "cleanup"]

Return(t) ==
  /\ Goto(t, AfterUpdate[t])
  /\ lock' = IF t = "tick" THEN "free" ELSE lock

Raise(t) ==
  /\ Goto(t, OnRaise[t])
  /\ lock' = IF lock = t THEN "free" ELSE lock
-----------------------------------------------------------------------------
(* ServerState.update: the deadline test. *)
UpdateCheck(t) ==
  /\ pc[t] = "check"
  /\ \/ deadline = "passed" /\ Goto(t, "read") /\ UNCHANGED lock
     \/ deadline # "passed" /\ Return(t)
  /\ UNCHANGED <<memVars, tmp, buf, req, stateFile, crashes, uploader,
                 callVars>>

(* ServerState._next_contributor: index := index + 1 is a load and a store *)
(* that another thread can come between.                                   *)
ReadIndex(t) ==
  /\ pc[t] = "read"
  /\ tmp' = [tmp EXCEPT ![t] = idx]
  /\ Goto(t, "write")
  /\ UNCHANGED <<memVars, lock, buf, req, stateFile, crashes, uploader,
                 callVars>>

\* Mutant: the index is decremented.
WriteIndex_Down(t) ==
  /\ pc[t] = "write"
  /\ idx' = tmp[t] - 1
  /\ Goto(t, "deadline")
  /\ UNCHANGED <<deadline, finalized, processing, lock, tmp, buf, req,
                 stateFile, crashes, uploader, callVars>>

WriteIndex(t) ==
  /\ pc[t] = "write"
  /\ idx' = tmp[t] + 1
  /\ Goto(t, "deadline")
  /\ UNCHANGED <<deadline, finalized, processing, lock, tmp, buf, req,
                 stateFile, crashes, uploader, callVars>>

\* Mutant: the next contributor gets no deadline.
SetDeadline_None(t) ==
  /\ pc[t] = "deadline"
  /\ deadline' = "none"
  /\ Goto(t, "finalize")
  /\ UNCHANGED <<idx, finalized, processing, lock, tmp, buf, req, stateFile,
                 crashes, uploader, callVars>>

SetDeadline(t) ==
  /\ pc[t] = "deadline"
  /\ deadline' = IF HaveAll(idx) THEN "none" ELSE "future"
  /\ Goto(t, "finalize")
  /\ UNCHANGED <<idx, finalized, processing, lock, tmp, buf, req, stateFile,
                 crashes, uploader, callVars>>

\* Mutant: the state is saved only when the MPC is complete.
Finalize_NoSave(t) ==
  /\ pc[t] = "finalize"
  /\ \/ /\ ~finalized /\ HaveAll(idx)
        /\ finalized' = TRUE
        /\ cpc' = "start"
        /\ Goto(t, "completing")
        /\ UNCHANGED lock
     \/ /\ finalized \/ ~HaveAll(idx)
        /\ Return(t)
        /\ UNCHANGED <<finalized, cpc>>
  /\ UNCHANGED <<idx, deadline, processing, tmp, buf, req, stateFile,
                 crashes, uploader, ppc>>

(* _finalize_handler_once: the flag is set before on_completed runs. *)
Finalize(t) ==
  /\ pc[t] = "finalize"
  /\ \/ /\ ~finalized /\ HaveAll(idx)
        /\ finalized' = TRUE
        /\ cpc' = "start"
        /\ Goto(t, "completing")
     \/ /\ finalized \/ ~HaveAll(idx)
        /\ Goto(t, "open")
        /\ UNCHANGED <<finalized, cpc>>
  /\ UNCHANGED <<idx, deadline, processing, lock, tmp, buf, req, stateFile,
                 crashes, uploader, ppc>>

\* Mutant: an exception of on_completed is swallowed.
Completed_Swallow(t) ==
  /\ pc[t] = "completing"
  /\ cpc \in {"ok", "raise"}
  /\ Goto(t, "open")
  /\ cpc' = "idle"
  /\ UNCHANGED <<memVars, lock, tmp, buf, req, stateFile, crashes, uploader,
                 ppc>>

(* on_completed returns, or raises out of _on_next_contributor. *)
Completed(t) ==
  /\ pc[t] = "completing"
  /\ \/ cpc = "ok" /\ Goto(t, "open") /\ UNCHANGED lock
     \/ cpc = "raise" /\ Raise(t)
  /\ cpc' = "idle"
  /\ UNCHANGED <<memVars, tmp, buf, req, stateFile, crashes, uploader, ppc>>

(* _write_state_file: open(.., "w") truncates, then the serialised state   *)
(* reaches the file when it is flushed.                                    *)
OpenState(t) ==
  /\ pc[t] = "open"
  /\ stateFile' = {Torn}
  /\ buf' = [buf EXCEPT ![t] = [idx |-> idx, deadline |-> deadline]]
  /\ Goto(t, "flush")
  /\ UNCHANGED <<memVars, lock, tmp, req, crashes, uploader, callVars>>

FlushState(t) ==
  /\ pc[t] = "flush"
  /\ stateFile' = {buf[t]}
  /\ Return(t)
  /\ UNCHANGED <<memVars, tmp, buf, req, crashes, uploader, callVars>>

UpdateStep(t) ==
  \/ UpdateCheck(t) \/ ReadIndex(t) \/ WriteIndex(t) \/ SetDeadline(t)
  \/ Finalize(t) \/ Completed(t) \/ OpenState(t) \/ FlushState(t)
-----------------------------------------------------------------------------
\* Mutant: the tick does not wait for state_lock.
TickBegin_NoLock ==
  /\ pc["tick"] = "idle"
  /\ lock' = "tick"
  /\ Goto("tick", "check")
  /\ UNCHANGED <<memVars, tmp, buf, req, stateFile, crashes, uploader,
                 callVars>>

(* The callback _run gives to the Interval thread.  (The method            *)
(* Server._tick, which skips a tick while processing, is never called.)    *)
TickBegin ==
  /\ pc["tick"] = "idle"
  /\ lock = "free"
  /\ lock' = "tick"
  /\ Goto("tick", "check")
  /\ UNCHANGED <<memVars, tmp, buf, req, stateFile, crashes, uploader,
                 callVars>>

\* Mutant: requests are served while an upload is being processed.
HttpBegin_Busy(r) ==
  /\ pc["http"] = "idle"
  /\ lock = "free"
  /\ lock' = "http"
  /\ req' = {r}
  /\ Goto("http", "check")
  /\ UNCHANGED <<memVars, tmp, buf, stateFile, crashes, uploader, callVars>>

(* _with_state_lock, then the call to _update_state with which _challenge  *)
(* and _contribute begin.  While processing, the answer is a 503 and       *)
(* nothing changes; /state and /contributors only read.                    *)
HttpBegin(r) ==
  /\ pc["http"] = "idle"
  /\ ~processing
  /\ lock = "free"
  /\ lock' = "http"
  /\ req' = {r}
  /\ Goto("http", "check")
  /\ UNCHANGED <<memVars, tmp, buf, stateFile, crashes, uploader, callVars>>

(* _challenge after _update_state: 405 once complete; otherwise the        *)
(* handler names the file (found = TRUE) or raises.  The file is opened    *)
(* and streamed after the lock has been released.                          *)
HttpChallenge(found) ==
  /\ pc["http"] = "body"
  /\ \E r \in req : r.kind = "challenge"
  /\ lock' = "free"
  /\ \/ /\ HaveAll(idx) \/ ~found
        /\ Goto("http", "idle")
     \/ /\ ~HaveAll(idx) /\ found
        /\ Goto("http", "stream")
  /\ UNCHANGED <<memVars, tmp, buf, req, stateFile, crashes, uploader,
                 callVars>>

HttpStream ==
  /\ pc["http"] = "stream"
  /\ Goto("http", "idle")
  /\ UNCHANGED <<memVars, lock, tmp, buf, req, stateFile, crashes, uploader,
                 callVars>>

(* _contribute after _update_state: refused when complete (405) or when    *)
(* the key and signature are not those of the next contributor (403), or   *)
(* when the upload fails (an exception, 400).  A request whose headers are *)
(* wrong is refused before that and has no effect; it is left out.         *)
HttpRefuse ==
  /\ pc["http"] = "body"
  /\ \E r \in req : r.kind = "contribute"
  /\ lock' = "free"
  /\ Goto("http", "idle")
  /\ UNCHANGED <<memVars, tmp, buf, req, stateFile, crashes, uploader,
                 callVars>>

\* Mutant: any contributor of the list may upload.
HttpAccept_AnyKey ==
  /\ pc["http"] = "body"
  /\ \E r \in req : /\ r.kind = "contribute"
                    /\ ~HaveAll(idx)
                    /\ uploader' = r.who
  /\ processing' = TRUE
  /\ lock' = "free"
  /\ pc' = [pc EXCEPT !["http"] = "idle", !["proc"] = "start"]
  /\ UNCHANGED <<idx, deadline, finalized, tmp, buf, req, stateFile, crashes,
                 callVars>>

(* ... otherwise the upload is stored and a processing thread launched. *)
HttpAccept ==
  /\ pc["http"] = "body"
  /\ \E r \in req : /\ r.kind = "contribute"
                    /\ ~HaveAll(idx)
                    /\ r.who = idx
                    /\ uploader' = r.who
  /\ processing' = TRUE
  /\ lock' = "free"
  /\ pc' = [pc EXCEPT !["http"] = "idle", !["proc"] = "start"]
  /\ UNCHANGED <<idx, deadline, finalized, tmp, buf, req, stateFile, crashes,
                 callVars>>
-----------------------------------------------------------------------------
(* _process_contribution *)
ProcCall ==
  /\ pc["proc"] = "start"
  /\ ppc' = "start"
  /\ Goto("proc", "handler")
  /\ UNCHANGED <<memVars, lock, tmp, buf, req, stateFile, crashes, uploader,
                 cpc>>

\* Mutant: no finally block, so an exception skips the cleanup.
ProcReturn_NoFinally ==
  /\ pc["proc"] = "handler"
  /\ \/ ppc = "true" /\ ~HaveAll(idx) /\ Goto("proc", "read")
     \/ ppc = "false" /\ Goto("proc", "cleanup")
     \/ ppc = "true" /\ HaveAll(idx) /\ Goto("proc", "off")
     \/ ppc = "raise" /\ Goto("proc", "off")
  /\ ppc' = "idle"
  /\ UNCHANGED <<memVars, lock, tmp, buf, req, stateFile, crashes, uploader,
                 cpc>>

(* The handler's verdict; received_contribution asserts that the MPC is    *)
(* not complete.                                                           *)
ProcReturn ==
  /\ pc["proc"] = "handler"
  /\ \/ ppc = "true" /\ ~HaveAll(idx) /\ Goto("proc", "read")
     \/ ppc = "true" /\ HaveAll(idx) /\ Goto("proc", "cleanup")
     \/ ppc \in {"false", "raise"} /\ Goto("proc", "cleanup")
  /\ ppc' = "idle"
  /\ UNCHANGED <<memVars, lock, tmp, buf, req, stateFile, crashes, uploader,
                 cpc>>

ProcCleanup ==
  /\ pc["proc"] = "cleanup"
  /\ processing' = FALSE
  /\ Goto("proc", "off")
  /\ UNCHANGED <<idx, deadline, finalized, lock, tmp, buf, req, stateFile,
                 crashes, uploader, callVars>>
-----------------------------------------------------------------------------
(* Server.__init__: use the state file if there is one (a torn one does    *)
(* not parse, and the constructor raises), else create the initial state   *)
(* and write it.  The constructor looks for STATE_FILE in the working      *)
(* directory and _write_state_file writes it to server_dir: the server is  *)
(* run in its directory, with the default --path of its commands, so that  *)
(* they are one file.  With another --path no restart would find it.       *)
Start ==
  /\ pc["main"] = "off"
  /\ \/ /\ stateFile = {}
        /\ idx' = 0
        /\ deadline' \in {"future", "passed"}
        /\ Goto("main", "open")
     \/ \E s \in stateFile \ {Torn} :
          /\ idx' = s.idx
          /\ deadline' = s.deadline
          /\ Goto("main", "launch")
  /\ finalized' = HaveAll(idx')
  /\ UNCHANGED <<processing, lock, tmp, buf, req, stateFile, crashes,
                 uploader, callVars>>

Launch ==
  /\ pc["main"] = "launch"
  /\ pc' = [pc EXCEPT !["main"] = "run", !["tick"] = "idle",
                      !["http"] = "idle"]
  /\ UNCHANGED <<memVars, lock, tmp, buf, req, stateFile, crashes, uploader,
                 callVars>>

NoState == [idx |-> 0, deadline |-> "none"]

(* The process dies: memory and threads are lost, files stay. *)
Crash ==
  /\ pc["main"] # "off"
  /\ crashes < MaxCrashes
  /\ crashes' = crashes + 1
  /\ idx' = 0 /\ deadline' = "none" /\ finalized' = FALSE
  /\ processing' = FALSE /\ lock' = "free" /\ req' = {} /\ uploader' = 0
  /\ pc' = [t \in Threads |-> "off"]
  /\ tmp' = [t \in Threads |-> 0]
  /\ buf' = [t \in Threads |-> NoState]
  /\ ppc' = "idle" /\ cpc' = "idle"
  /\ UNCHANGED stateFile

(* The clock reaches the current deadline; the same instant is in the      *)
(* state file, or an earlier one.  Unless SlowProcessing, no deadline      *)
(* passes between the deadline test of a request (Pending) and the end of  *)
(* the processing it starts.                                               *)
Passed(s) == IF s.deadline = "future" THEN [s EXCEPT !.deadline = "passed"]
                                      ELSE s

Pending == (Updating \ {"check"}) \cup {"body"}

Elapse ==
  /\ \/ /\ deadline = "future"
        /\ SlowProcessing \/ (~processing /\ pc["http"] \notin Pending)
        /\ deadline' = "passed"
     \/ /\ pc["main"] = "off"
        /\ \E s \in stateFile : s.deadline = "future"
        /\ UNCHANGED deadline
  /\ stateFile' = {Passed(s) : s \in stateFile}
  /\ buf' = [t \in Threads |-> Passed(buf[t])]
  /\ UNCHANGED <<idx, finalized, processing, lock, pc, tmp, req, crashes,
                 uploader, callVars>>

(* IContributionHandler: whatever its methods may answer. *)
HandlerReturns ==
  /\ \/ ppc = "start" /\ ppc' \in {"true", "false", "raise"} /\ UNCHANGED cpc
     \/ cpc = "start" /\ cpc' \in {"ok", "raise"} /\ UNCHANGED ppc
  /\ UNCHANGED <<memVars, lock, pc, tmp, buf, req, stateFile, crashes,
                 uploader>>
-----------------------------------------------------------------------------
Init ==
  /\ idx = 0 /\ deadline = "none" /\ finalized = FALSE
  /\ processing = FALSE /\ lock = "free" /\ req = {} /\ uploader = 0
  /\ pc = [t \in Threads |-> "off"]
  /\ tmp = [t \in Threads |-> 0]
  /\ buf = [t \in Threads |-> NoState]
  /\ stateFile = {}
  /\ crashes = 0
  /\ ppc = "idle" /\ cpc = "idle"

HttpStep ==
  \/ \E r \in Requests : HttpBegin(r)
  \/ \E found \in BOOLEAN : HttpChallenge(found)
  \/ HttpStream \/ HttpRefuse \/ HttpAccept

ProcStep == ProcCall \/ ProcReturn \/ ProcCleanup

Next ==
  \/ Start \/ Launch \/ TickBegin \/ HttpStep \/ ProcStep
  \/ \E t \in Threads : UpdateStep(t)
  \/ Crash \/ Elapse \/ HandlerReturns

Spec == Init /\ [][Next]_vars

(* Every thread of a running process is scheduled, the handler's commands  *)
(* end, and time passes whether or not requests keep arriving (hence SF).  *)
(* Nothing obliges a contributor to send a request, nor the operator to    *)
(* restart a crashed server.                                               *)
Fairness ==
  /\ WF_vars(Launch) /\ WF_vars(TickBegin) /\ SF_vars(Elapse)
  /\ WF_vars(HandlerReturns) /\ WF_vars(ProcStep)
  /\ WF_vars(\E found \in BOOLEAN : HttpChallenge(found))
  /\ WF_vars(HttpStream) /\ WF_vars(HttpRefuse \/ HttpAccept)
  /\ \A t \in Threads : WF_vars(UpdateStep(t))

FairSpec == Spec /\ Fairness
-----------------------------------------------------------------------------
TypeOK ==
  /\ idx \in Nat
  /\ deadline \in Deadlines
  /\ finalized \in BOOLEAN
  /\ processing \in BOOLEAN
  /\ lock \in {"free", "tick", "http"}
  /\ pc \in [Threads -> Updating \cup
                {"off", "launch", "run", "idle", "dead", "body", "stream",
                 "start", "handler", "cleanup"}]
  /\ tmp \in [Threads -> Nat]
  /\ buf \in [Threads -> States]
  /\ req \in SUBSET Requests
  /\ stateFile \in SUBSET (States \cup {Torn})
  /\ crashes \in 0 .. MaxCrashes
  /\ uploader \in Contributors
  /\ ppc \in {"idle", "start", "true", "false", "raise"}
  /\ cpc \in {"idle", "start", "ok", "raise"}

(* While an upload is processed no request is inside the server, although  *)
(* the processing thread holds no lock: "Until the processing thread has   *)
(* finished, further requests will just return 503" (server.py:252-254).   *)
NoRequestWhileProcessing ==
  processing => pc["http"] = "idle" /\ lock # "http"

(* Threads between the deadline test and the flush of the state file. *)
Advancing == {t \in Threads : pc[t] \in Updating \ {"check"}}

(* The state is advanced by one thread at a time, even though the          *)
(* processing thread does so without state_lock.  Only so can the          *)
(* unlocked read-modify-write of the index and the state file be trusted.  *)
OneAdvancer == \A t, u \in Advancing : t = u

(* An upload being processed belongs to the contributor whose slot it is,  *)
(* until the slot is ended.                                                *)
UploadInOwnSlot ==
  pc["proc"] \in {"start", "handler", "read", "write"} => uploader = idx

(* What a restart would find is at most one slot behind, so a crash        *)
(* repeats at most one contributor's slot, and never skips one.            *)
CrashRepeatsAtMostOneSlot ==
  pc["main"] = "run" =>
    \A s \in stateFile \ {Torn} : idx - 1 <= s.idx /\ s.idx <= idx

(* A contribution ends the slot of the contributor who made it, no other:  *)
(* a slot ends "when the previous contributor either finishes his          *)
(* contribution, or his time slot expires", and Server._tick ignores ticks *)
(* while processing (server.py:143-149).                                   *)
ContributionEndsOwnSlot ==
  [][pc["proc"] = "write" /\ idx' # idx => idx = uploader]_vars

(* The processing thread always ends, whatever the handler answers and     *)
(* whichever exception it meets; otherwise every request gets a 503.       *)
ProcessingEnds == processing ~> ~processing

(* Once started, and restarted or not, the ceremony reaches its end even   *)
(* if nobody contributes, unless the process dies: deadlines pass and the  *)
(* tick thread or a request notices.                                       *)
CeremonyEnds == (pc["main"] = "run") ~> (HaveAll(idx) \/ pc["main"] = "off")
=============================================================================
