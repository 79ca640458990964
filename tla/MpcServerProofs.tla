--------------------------- MODULE MpcServerProofs ---------------------------
(***************************************************************************)
(* Proofs about the MPC coordinator server, for every number of            *)
(* contributors and of crashes.                                            *)
(***************************************************************************)
EXTENDS MpcServer, TLAPS

(* Which points each thread can be at; no thread runs before the           *)
(* constructor is done.                                                    *)
ThreadInv ==
  /\ pc["main"] \in {"off", "open", "flush", "launch", "run"}
  /\ pc["tick"] \in {"off", "idle", "dead"} \cup Updating
  /\ pc["http"] \in {"off", "idle", "body", "stream"} \cup Updating
  /\ pc["proc"] \in {"off", "start", "handler", "cleanup"}
                      \cup (Updating \ {"check"})
  /\ pc["main"] # "run" => /\ pc["tick"] = "off"
                           /\ pc["http"] = "off"
                           /\ pc["proc"] = "off"

(* state_lock is held exactly inside the tick callback and the request     *)
(* callbacks, and processing is set exactly while the thread exists.       *)
LockInv ==
  /\ lock = "tick" <=> pc["tick"] \in Updating
  /\ lock = "http" <=> pc["http"] \in Updating \cup {"body"}
  /\ processing <=> pc["proc"] # "off"
  /\ processing => pc["http"] = "idle"

ExclusionInv == TypeOK /\ ThreadInv /\ LockInv

\* At first no thread runs and the lock is free.
LEMMA ExclusionInit == Init => ExclusionInv
<1> SUFFICES ASSUME Init PROVE ExclusionInv
  BY Zenon
<1> USE DEF Init, Threads, Updating
<1>1. TypeOK
  <2>1. 0 \in Contributors /\ 0 \in 0 .. MaxCrashes
    BY ServerAssumption DEF Contributors
  <2>2. NoState \in States
    BY Zenon DEF NoState, States, Deadlines
  <2> QED BY <2>1, <2>2, ZenonT(30) DEF TypeOK, Deadlines
<1>2. ThreadInv
  BY Zenon DEF ThreadInv
<1>3. LockInv
  BY Zenon DEF LockInv
<1> QED BY <1>1, <1>2, <1>3, Zenon DEF ExclusionInv

\* The points of _update_state keep the type of the state.
LEMMA UpdatePreservesType ==
  ASSUME TypeOK, NEW t \in Threads, UpdateStep(t)
  PROVE  TypeOK'
<1> USE ServerAssumption DEF TypeOK, Goto, memVars, callVars, Updating
<1>1. CASE UpdateCheck(t)
  BY <1>1 DEF UpdateCheck, Return, AfterUpdate, Threads
<1>2. CASE ReadIndex(t)
  BY <1>2, Zenon DEF ReadIndex
<1>3. CASE WriteIndex(t)
  BY <1>3 DEF WriteIndex
<1>4. CASE SetDeadline(t)
  BY <1>4 DEF SetDeadline, Deadlines
<1>5. CASE Finalize(t)
  BY <1>5, ZenonT(30) DEF Finalize
<1>6. CASE Completed(t)
  BY <1>6 DEF Completed, Raise, OnRaise, Threads
<1>7. CASE OpenState(t)
  BY <1>7 DEF OpenState, States
<1>8. CASE FlushState(t)
  BY <1>8 DEF FlushState, Return, AfterUpdate, Threads
<1> QED BY <1>1, <1>2, <1>3, <1>4, <1>5, <1>6, <1>7, <1>8, Zenon DEF UpdateStep

\* So do all other steps.
LEMMA TypeInductive == TypeOK /\ [Next]_vars => TypeOK'
<1> SUFFICES ASSUME TypeOK, [Next]_vars PROVE TypeOK'
  BY Zenon
<1> USE ServerAssumption DEF TypeOK, Goto, memVars, callVars, Updating
<1>1. CASE \E t \in Threads : UpdateStep(t)
  BY <1>1, UpdatePreservesType, Zenon
<1>2. CASE TickBegin
  BY <1>2, ZenonT(30) DEF TickBegin
<1>3. CASE \E r \in Requests : HttpBegin(r)
  BY <1>3, ZenonT(30) DEF HttpBegin
<1>4. CASE \E found \in BOOLEAN : HttpChallenge(found)
  BY <1>4 DEF HttpChallenge
<1>5. CASE HttpStream
  BY <1>5, ZenonT(30) DEF HttpStream
<1>6. CASE HttpRefuse
  BY <1>6, ZenonT(30) DEF HttpRefuse
<1>7. CASE HttpAccept
  BY <1>7, Zenon DEF HttpAccept, Requests, Threads
<1>8. CASE ProcStep
  <2>1. CASE ProcCall
    BY <2>1, ZenonT(30) DEF ProcCall
  <2>2. CASE ProcReturn
    BY <2>2 DEF ProcReturn
  <2>3. CASE ProcCleanup
    BY <2>3, ZenonT(30) DEF ProcCleanup
  <2> QED BY <1>8, <2>1, <2>2, <2>3, Zenon DEF ProcStep
<1>9. CASE Start
  <2>1. \A s \in stateFile \ {Torn} : s.idx \in Nat /\ s.deadline \in Deadlines
    BY Zenon DEF States
  <2> QED BY <1>9, <2>1 DEF Start, Deadlines, HaveAll
<1>10. CASE Launch
  BY <1>10, ZenonT(30) DEF Launch
<1>11. CASE Crash
  <2>1. NoState \in States /\ 0 \in Contributors
    BY DEF NoState, States, Deadlines, Contributors
  <2>2. crashes' \in 0 .. MaxCrashes
    BY <1>11 DEF Crash
  <2> QED BY <1>11, <2>1, <2>2, ZenonT(30) DEF Crash, Deadlines
<1>12. CASE Elapse
  <2>1. \A s \in States \cup {Torn} : Passed(s) \in States \cup {Torn}
    BY DEF Passed, States, Torn, Deadlines
  <2>2. \A s \in States : Passed(s) \in States
    BY Zenon DEF Passed, States, Deadlines
  <2> QED BY <1>12, <2>1, <2>2 DEF Elapse, Deadlines
<1>13. CASE HandlerReturns
  BY <1>13 DEF HandlerReturns
<1>14. CASE UNCHANGED vars
  BY <1>14, SMTT(30) DEF vars
<1> QED BY <1>1, <1>2, <1>3, <1>4, <1>5, <1>6, <1>7, <1>8, <1>9, <1>10,
           <1>11, <1>12, <1>13, <1>14, Zenon DEF Next, HttpStep

\* The lock and the processing flag follow the threads through every step.
LEMMA ExclusionInductive == ExclusionInv /\ [Next]_vars => ExclusionInv'
<1> SUFFICES ASSUME ExclusionInv, [Next]_vars PROVE ThreadInv' /\ LockInv'
  BY TypeInductive, SMTT(30) DEF ExclusionInv
<1> USE DEF ExclusionInv, ThreadInv, LockInv, TypeOK, Goto, memVars, callVars,
            Updating, Threads
<1>1. ASSUME NEW t \in Threads, UpdateStep(t)
      PROVE  ThreadInv' /\ LockInv'
  <2>1. CASE UpdateCheck(t)
    BY <2>1 DEF UpdateCheck, Return, AfterUpdate
  <2>2. CASE ReadIndex(t)
    BY <2>2, Zenon DEF ReadIndex
  <2>3. CASE WriteIndex(t)
    BY <2>3 DEF WriteIndex
  <2>4. CASE SetDeadline(t)
    BY <2>4 DEF SetDeadline
  <2>5. CASE Finalize(t)
    BY <2>5 DEF Finalize
  <2>6. CASE Completed(t)
    BY <2>6 DEF Completed, Raise, OnRaise
  <2>7. CASE OpenState(t)
    BY <2>7 DEF OpenState
  <2>8. CASE FlushState(t)
    BY <2>8 DEF FlushState, Return, AfterUpdate
  <2> QED BY <1>1, <2>1, <2>2, <2>3, <2>4, <2>5, <2>6, <2>7, <2>8, Zenon
          DEF UpdateStep
<1>2. CASE TickBegin
  BY <1>2, Zenon DEF TickBegin
<1>3. CASE \E r \in Requests : HttpBegin(r)
  BY <1>3 DEF HttpBegin
<1>4. CASE \E found \in BOOLEAN : HttpChallenge(found)
  BY <1>4 DEF HttpChallenge
<1>5. CASE HttpStream
  BY <1>5, Zenon DEF HttpStream
<1>6. CASE HttpRefuse
  BY <1>6, Zenon DEF HttpRefuse
<1>7. CASE HttpAccept
  BY <1>7 DEF HttpAccept
<1>8. CASE ProcStep
  <2>1. CASE ProcCall
    BY <2>1, Zenon DEF ProcCall
  <2>2. CASE ProcReturn
    BY <2>2 DEF ProcReturn
  <2>3. CASE ProcCleanup
    BY <2>3, Zenon DEF ProcCleanup
  <2> QED BY <1>8, <2>1, <2>2, <2>3, Zenon DEF ProcStep
<1>9. CASE Start
  BY <1>9 DEF Start
<1>10. CASE Launch
  BY <1>10, Zenon DEF Launch
<1>11. CASE Crash
  BY <1>11, Zenon DEF Crash
<1>12. CASE Elapse
  BY <1>12 DEF Elapse
<1>13. CASE HandlerReturns
  BY <1>13 DEF HandlerReturns
<1>14. CASE UNCHANGED vars
  BY <1>14 DEF vars
<1> QED BY <1>1, <1>2, <1>3, <1>4, <1>5, <1>6, <1>7, <1>8, <1>9, <1>10,
           <1>11, <1>12, <1>13, <1>14, Zenon DEF Next, HttpStep

(* The state keeps its type, whatever the handler answers and whenever the *)
(* server crashes.                                                         *)
THEOREM ServerTypeCorrect == Spec => []TypeOK
<1>1. ExclusionInv => TypeOK
  BY Zenon DEF ExclusionInv
<1> QED BY <1>1, ExclusionInit, ExclusionInductive, PTL DEF Spec

(* No request is inside the server while an upload is processed, for any   *)
(* number of contributors and even if deadlines pass during processing.    *)
THEOREM RequestsExcludeProcessing == Spec => []NoRequestWhileProcessing
<1>1. ExclusionInv => NoRequestWhileProcessing
  BY Zenon DEF ExclusionInv, LockInv, NoRequestWhileProcessing, Updating
<1> QED BY <1>1, ExclusionInit, ExclusionInductive, PTL DEF Spec
-----------------------------------------------------------------------------
(* If no deadline passes while an upload is handled, then the processing   *)
(* thread, which takes no lock, is alone in advancing the state.  The      *)
(* request that launched it has seen a deadline that is not over, and none *)
(* is over until the thread ends.                                          *)
SlotInv ==
  /\ processing => deadline # "passed" /\ pc["tick"] \notin Updating \ {"check"}
  /\ pc["http"] \in {"finalize", "completing", "open", "flush", "body"} =>
       deadline # "passed"
  /\ UploadInOwnSlot

AdvanceInv == ExclusionInv /\ SlotInv

\* At first no slot is being ended.
LEMMA AdvanceInit == Init => AdvanceInv
<1> SUFFICES ASSUME Init PROVE SlotInv
  BY ExclusionInit, Zenon DEF AdvanceInv
<1> QED BY Zenon DEF Init, SlotInv, UploadInOwnSlot, Threads

\* The invariant leaves room for one advancing thread.
LEMMA AdvanceAlone ==
  ASSUME AdvanceInv
  PROVE  OneAdvancer
<1> SUFFICES ASSUME NEW t \in Advancing, NEW u \in Advancing PROVE t = u
  BY Zenon DEF OneAdvancer
<1> QED
  BY DEF AdvanceInv, ExclusionInv, ThreadInv, LockInv, SlotInv, Advancing,
         Updating, Threads

\* One advancing thread and its slot, step by step.
LEMMA AdvanceInductive ==
  ASSUME ~SlowProcessing, AdvanceInv, [Next]_vars
  PROVE  AdvanceInv'
<1>1. ExclusionInv'
  BY ExclusionInductive, Zenon DEF AdvanceInv
<1> SUFFICES SlotInv'
  BY <1>1, Zenon DEF AdvanceInv
<1> USE DEF AdvanceInv, ExclusionInv, ThreadInv, LockInv, SlotInv, TypeOK,
            UploadInOwnSlot, Goto, memVars, callVars, Updating, Threads
<1>2. ASSUME NEW t \in Threads, UpdateStep(t)
      PROVE  SlotInv'
  <2>1. CASE UpdateCheck(t)
    BY <2>1 DEF UpdateCheck, Return, AfterUpdate
  <2>2. CASE ReadIndex(t)
    BY <2>2, Zenon DEF ReadIndex
  <2>3. CASE WriteIndex(t)
    BY <2>3, Zenon DEF WriteIndex
  <2>4. CASE SetDeadline(t)
    BY <2>4, Zenon DEF SetDeadline
  <2>5. CASE Finalize(t)
    BY <2>5 DEF Finalize
  <2>6. CASE Completed(t)
    BY <2>6 DEF Completed, Raise, OnRaise
  <2>7. CASE OpenState(t)
    BY <2>7, Zenon DEF OpenState
  <2>8. CASE FlushState(t)
    BY <2>8 DEF FlushState, Return, AfterUpdate
  <2> QED BY <1>2, <2>1, <2>2, <2>3, <2>4, <2>5, <2>6, <2>7, <2>8, Zenon
          DEF UpdateStep
<1>3. CASE TickBegin
  BY <1>3, Zenon DEF TickBegin
<1>4. CASE \E r \in Requests : HttpBegin(r)
  BY <1>4 DEF HttpBegin
<1>5. CASE \E found \in BOOLEAN : HttpChallenge(found)
  BY <1>5 DEF HttpChallenge
<1>6. CASE HttpStream \/ HttpRefuse
  BY <1>6 DEF HttpStream, HttpRefuse
<1>7. CASE HttpAccept
  BY <1>7, Zenon DEF HttpAccept
<1>8. CASE ProcStep
  <2>1. CASE ProcCall
    BY <2>1, Zenon DEF ProcCall
  <2>2. CASE ProcReturn
    BY <2>2, Zenon DEF ProcReturn
  <2>3. CASE ProcCleanup
    BY <2>3, Zenon DEF ProcCleanup
  <2> QED BY <1>8, <2>1, <2>2, <2>3, Zenon DEF ProcStep
<1>9. CASE Start
  BY <1>9, Zenon DEF Start
<1>10. CASE Launch
  BY <1>10, Zenon DEF Launch
<1>11. CASE Crash
  BY <1>11, Zenon DEF Crash
<1>12. CASE Elapse
  BY <1>12, Zenon DEF Elapse, Pending
<1>13. CASE HandlerReturns
  BY <1>13, Zenon DEF HandlerReturns
<1>14. CASE UNCHANGED vars
  BY <1>14, Zenon DEF vars
<1> QED BY <1>2, <1>3, <1>4, <1>5, <1>6, <1>7, <1>8, <1>9, <1>10, <1>11,
           <1>12, <1>13, <1>14, Zenon DEF Next, HttpStep

(* Unless a slot is overrun, one thread at a time advances the state       *)
(* (OneAdvancer), for any number of contributors and crashes.              *)
THEOREM OneThreadAdvances ==
  ASSUME ~SlowProcessing
  PROVE  Spec => []OneAdvancer
<1>1. AdvanceInv => OneAdvancer
  BY AdvanceAlone, Zenon
<1>2. AdvanceInv /\ [Next]_vars => AdvanceInv'
  BY AdvanceInductive, Zenon
<1> QED BY <1>1, <1>2, AdvanceInit, PTL DEF Spec

(* Unless a slot is overrun, an upload is processed in the slot of the     *)
(* contributor who sent it (UploadInOwnSlot).                              *)
THEOREM UploadsInOwnSlot ==
  ASSUME ~SlowProcessing
  PROVE  Spec => []UploadInOwnSlot
<1>1. AdvanceInv => UploadInOwnSlot
  BY Zenon DEF AdvanceInv, SlotInv
<1>2. AdvanceInv /\ [Next]_vars => AdvanceInv'
  BY AdvanceInductive
<1> QED BY <1>1, <1>2, AdvanceInit, PTL DEF Spec
-----------------------------------------------------------------------------
(* The state file is behind the index by at most the slot that the one     *)
(* advancing thread is ending, or for good by the last slot, when          *)
(* on_completed raised before the save.  No index is behind because the    *)
(* thread that advances it does so alone, and only before the end.         *)
Unsaved == {"deadline", "finalize", "completing", "open"}

Workers == {"tick", "http", "proc"}

FileInv ==
  /\ pc["main"] \in {"launch", "run"} =>
       \A s \in stateFile \ {Torn} :
         \/ s.idx = idx
         \/ /\ s.idx = idx - 1
            /\ HaveAll(idx) \/ \E t \in Workers : pc[t] \in Unsaved
  /\ \A s \in stateFile \ {Torn} : s.deadline # "none" => ~HaveAll(s.idx)
  /\ \A r, s \in stateFile : r = s

MemoryInv ==
  /\ \A t \in Threads :
       /\ pc[t] \in {"read", "write"} => ~HaveAll(idx)
       /\ pc[t] = "write" => tmp[t] = idx
       /\ pc[t] = "completing" => HaveAll(idx)
       /\ pc[t] = "flush" =>
            buf[t].idx = idx /\ (buf[t].deadline # "none" => ~HaveAll(idx))
  /\ deadline # "none" /\ HaveAll(idx) =>
       \E t \in Workers : pc[t] = "deadline"

SavedInv == AdvanceInv /\ FileInv /\ MemoryInv

\* At first nothing is saved, and nothing waits to be.
LEMMA SavedInit == Init => SavedInv
<1> SUFFICES ASSUME Init PROVE FileInv /\ MemoryInv
  BY AdvanceInit, SMTT(30) DEF SavedInv
<1> QED BY Zenon DEF Init, FileInv, MemoryInv, Threads, Workers

\* What a step of the thread that advances the state does to file and index.
LEMMA UpdateSaves ==
  ASSUME SavedInv, NEW t \in Threads, UpdateStep(t)
  PROVE  FileInv' /\ MemoryInv'
<1>1. OneAdvancer
  BY AdvanceAlone, Zenon DEF SavedInv
<1>2. \A u \in Threads : pc[u] \in Updating \ {"check"} /\ pc[t] \in Updating \ {"check"} => u = t
  BY <1>1, Zenon DEF OneAdvancer, Advancing
<1>3. TypeOK /\ ThreadInv /\ FileInv /\ MemoryInv
  BY SMTT(30) DEF SavedInv, AdvanceInv, ExclusionInv
<1>4. pc[t] = "check" /\ deadline = "passed" => ~HaveAll(idx)
  BY Zenon DEF SavedInv, AdvanceInv, ExclusionInv, ThreadInv, LockInv, SlotInv,
         MemoryInv, Workers, Updating, Threads
<1> USE <1>2, <1>3, ServerAssumption
        DEF ThreadInv, FileInv, MemoryInv, Unsaved, Workers, HaveAll, TypeOK,
            Goto, memVars, callVars, Updating, Threads
<1>5. CASE UpdateCheck(t)
  BY <1>4, <1>5 DEF UpdateCheck, Return, AfterUpdate
<1>6. CASE ReadIndex(t)
  BY <1>6 DEF ReadIndex
<1>7. CASE WriteIndex(t)
  BY <1>7 DEF WriteIndex
<1>8. CASE SetDeadline(t)
  BY <1>8 DEF SetDeadline
<1>9. CASE Finalize(t)
  BY <1>9 DEF Finalize
<1>10. CASE Completed(t)
  BY <1>10 DEF Completed, Raise, OnRaise
<1>11. CASE OpenState(t)
  BY <1>11, SMTT(30) DEF OpenState
<1>12. CASE FlushState(t)
  BY <1>12, SMTT(30) DEF FlushState, Return, AfterUpdate
<1> QED BY <1>5, <1>6, <1>7, <1>8, <1>9, <1>10, <1>11, <1>12, ZenonT(30) DEF UpdateStep

\* Every other step leaves the file behind by no more than it was.
LEMMA SavedInductive ==
  ASSUME ~SlowProcessing, SavedInv, [Next]_vars
  PROVE  SavedInv'
<1>1. AdvanceInv'
  BY AdvanceInductive, Zenon DEF SavedInv
<1> SUFFICES FileInv' /\ MemoryInv'
  BY <1>1, Zenon DEF SavedInv
<1>2. CASE \E t \in Threads : UpdateStep(t)
  BY <1>2, UpdateSaves, Zenon
<1> USE ServerAssumption
        DEF SavedInv, AdvanceInv, ExclusionInv, ThreadInv, LockInv, FileInv,
            MemoryInv, Unsaved, Workers, HaveAll, TypeOK, Goto, memVars,
            callVars, Updating, Threads
<1>3. CASE TickBegin
  BY <1>3 DEF TickBegin
<1>4. CASE \E r \in Requests : HttpBegin(r)
  BY <1>4 DEF HttpBegin
<1>5. CASE \E found \in BOOLEAN : HttpChallenge(found)
  BY <1>5 DEF HttpChallenge
<1>6. CASE HttpStream \/ HttpRefuse
  BY <1>6 DEF HttpStream, HttpRefuse
<1>7. CASE HttpAccept
  BY <1>7, SMTT(30) DEF HttpAccept
<1>8. CASE ProcStep
  <2>1. CASE ProcCall
    BY <2>1 DEF ProcCall
  <2>2. CASE ProcReturn
    BY <2>2 DEF ProcReturn
  <2>3. CASE ProcCleanup
    BY <2>3, SMTT(30) DEF ProcCleanup
  <2> QED BY <1>8, <2>1, <2>2, <2>3, Zenon DEF ProcStep
<1>9. CASE Start
  <2>1. \A t \in Workers : pc'[t] = "off"
    BY <1>9 DEF Start
  <2>2. pc'["main"] \in {"open", "launch"}
    BY <1>9, Zenon DEF Start
  <2>3. MemoryInv'
    BY <1>9, <2>1, <2>2 DEF Start
  <2>4. FileInv'
    BY <1>9, <2>1, <2>2 DEF Start
  <2> QED BY <2>3, <2>4, Zenon
<1>10. CASE Launch
  BY <1>10 DEF Launch
<1>11. CASE Crash
  BY <1>11, SMTT(30) DEF Crash
<1>12. CASE Elapse
  <2>1. \A s \in States : /\ Passed(s).idx = s.idx
                          /\ Passed(s).deadline # "none" => s.deadline # "none"
    BY Zenon DEF Passed, States
  <2>2. Passed(Torn) = Torn
    BY Zenon DEF Passed, Torn
  <2>3. UNCHANGED <<idx, pc, tmp>> /\ (deadline' # "none" => deadline # "none")
    BY <1>12, Zenon DEF Elapse
  <2>4. \A s \in stateFile' \ {Torn} : \E r \in stateFile \ {Torn} :
          s.idx = r.idx /\ (s.deadline # "none" => r.deadline # "none")
    BY <1>12, <2>1, <2>2 DEF Elapse
  <2>5. \A t \in Threads : /\ buf'[t].idx = buf[t].idx
                           /\ buf'[t].deadline # "none" => buf[t].deadline # "none"
    BY <1>12, <2>1 DEF Elapse
  <2>6. \A r, s \in stateFile' : r = s
    BY <1>12 DEF Elapse
  <2>7. FileInv'
    BY <2>3, <2>4, <2>6
  <2>8. MemoryInv'
    BY <2>3, <2>5
  <2> QED BY <2>7, <2>8, Zenon
<1>13. CASE HandlerReturns
  BY <1>13 DEF HandlerReturns
<1>14. CASE UNCHANGED vars
  BY <1>14 DEF vars
<1> QED BY <1>2, <1>3, <1>4, <1>5, <1>6, <1>7, <1>8, <1>9, <1>10, <1>11,
           <1>12, <1>13, <1>14, ZenonT(30) DEF Next, HttpStep

(* Unless a slot is overrun, what a restart would find is the current slot *)
(* or the one before (CrashRepeatsAtMostOneSlot), for any number of        *)
(* contributors and of crashes before this one.                            *)
THEOREM RestartsRepeatOneSlot ==
  ASSUME ~SlowProcessing
  PROVE  Spec => []CrashRepeatsAtMostOneSlot
<1>1. SavedInv => CrashRepeatsAtMostOneSlot
  BY DEF SavedInv, AdvanceInv, ExclusionInv, TypeOK, FileInv,
         CrashRepeatsAtMostOneSlot, States
<1>2. SavedInv /\ [Next]_vars => SavedInv'
  BY SavedInductive
<1> QED BY <1>1, <1>2, SavedInit, PTL DEF Spec
-----------------------------------------------------------------------------
(* The calls of the handler, for the modules that supply one: a call is    *)
(* open only while its caller waits for it, and on_completed is called     *)
(* only after the MPC has been marked as finalized.                        *)
CallsInv ==
  /\ ppc # "idle" => pc["proc"] = "handler"
  /\ cpc # "idle" => finalized /\ \E t \in Threads : pc[t] = "completing"

ServerInv == SavedInv /\ CallsInv

\* At first no call of the handler is open.
LEMMA ServerInvInit == Init => ServerInv
  BY SavedInit, Zenon DEF Init, ServerInv, CallsInv

(* The two methods of the handler do not run at the same time: a           *)
(* completing thread is the only one that advances the state.              *)
LEMMA CallsExclude ==
  ASSUME ServerInv
  PROVE  ~(ppc # "idle" /\ cpc # "idle")
  BY SMTT(30) DEF ServerInv, SavedInv, AdvanceInv, ExclusionInv, ThreadInv, LockInv,
                  SlotInv, CallsInv, Updating, Threads

\* Calls are opened and closed by their callers only.
LEMMA ServerInvInductive ==
  ASSUME ~SlowProcessing, ServerInv, [Next]_vars
  PROVE  ServerInv'
<1>1. SavedInv'
  BY SavedInductive, Zenon DEF ServerInv
<1>2. OneAdvancer
  BY AdvanceAlone, Zenon DEF ServerInv, SavedInv
<1>3. /\ pc \in [Threads -> Updating \cup {"off", "launch", "run", "idle", "dead",
                    "body", "stream", "start", "handler", "cleanup"}]
      /\ ThreadInv /\ LockInv
  BY Zenon DEF ServerInv, SavedInv, AdvanceInv, ExclusionInv, TypeOK
<1>4. CallsInv
  BY Zenon DEF ServerInv
<1> SUFFICES CallsInv'
  BY <1>1 DEF ServerInv
<1> USE <1>3, <1>4 DEF CallsInv, ThreadInv, Goto, memVars, callVars, Updating, Threads
<1>5. ASSUME NEW t \in Threads, UpdateStep(t)
      PROVE  CallsInv'
  <2>1. CASE UpdateCheck(t)
    BY <2>1 DEF UpdateCheck, Return, AfterUpdate
  <2>2. CASE ReadIndex(t)
    BY <2>2, Zenon DEF ReadIndex
  <2>3. CASE WriteIndex(t)
    BY <2>3, Zenon DEF WriteIndex
  <2>4. CASE SetDeadline(t)
    BY <2>4, Zenon DEF SetDeadline
  <2>5. CASE Finalize(t)
    BY <1>2, <2>5, Zenon DEF Finalize, OneAdvancer, Advancing
  <2>6. CASE Completed(t)
    BY <2>6, Zenon DEF Completed, Raise, OnRaise
  <2>7. CASE OpenState(t)
    BY <2>7, Zenon DEF OpenState
  <2>8. CASE FlushState(t)
    BY <2>8, Zenon DEF FlushState, Return, AfterUpdate
  <2> QED BY <1>5, <2>1, <2>2, <2>3, <2>4, <2>5, <2>6, <2>7, <2>8, ZenonT(30)
          DEF UpdateStep
<1>6. CASE TickBegin
  BY <1>6, Zenon DEF TickBegin
<1>7. CASE \E r \in Requests : HttpBegin(r)
  BY <1>7 DEF HttpBegin
<1>8. CASE \E found \in BOOLEAN : HttpChallenge(found)
  BY <1>8 DEF HttpChallenge
<1>9. CASE HttpStream \/ HttpRefuse
  BY <1>9, Zenon DEF HttpStream, HttpRefuse
<1>10. CASE HttpAccept
  BY <1>10, Zenon DEF HttpAccept, LockInv
<1>11. CASE ProcStep
  BY <1>11, Zenon DEF ProcStep, ProcCall, ProcReturn, ProcCleanup
<1>12. CASE Start
  BY <1>12, Zenon DEF Start
<1>13. CASE Launch
  BY <1>13, Zenon DEF Launch
<1>14. CASE Crash
  BY <1>14, Zenon DEF Crash
<1>15. CASE Elapse
  BY <1>15, Zenon DEF Elapse
<1>16. CASE HandlerReturns
  BY <1>16, Zenon DEF HandlerReturns
<1>17. CASE UNCHANGED vars
  BY <1>17, SMTT(30) DEF vars
<1> QED BY <1>5, <1>6, <1>7, <1>8, <1>9, <1>10, <1>11, <1>12, <1>13, <1>14,
           <1>15, <1>16, <1>17, ZenonT(30) DEF Next, HttpStep

(* What a step of the server means for the slots: the index moves only to  *)
(* the next slot, a completed MPC stays so, on_completed is called only    *)
(* once, a contribution that was kept is counted before the slot ends, and *)
(* what is newly saved is the current index.                               *)
Counting == ppc = "true" \/ pc["proc"] \in {"read", "write"}

SlotStep ==
  /\ idx' = idx \/ (idx < N /\ idx' = idx + 1)
  /\ pc["main"] # "off" /\ pc'["main"] # "off"
  /\ finalized => finalized'
  /\ cpc' = "start" => cpc = "start" \/ ~finalized
  /\ Counting /\ idx' = idx => Counting'
  /\ \A s \in stateFile' \ {Torn} : s \in stateFile \/ s.idx = idx
  /\ stateFile' = {} => stateFile = {} /\ (pc["main"] = "open" => pc'["main"] = "open")

\* What such a step means for an upload that is being handled.
UploadStep ==
  /\ UNCHANGED <<processing, uploader, crashes>>
  /\ ppc' = "true" => ppc = "true"
  /\ ppc = "start" => ppc' = "start"
  /\ cpc = "start" => cpc' = "start"

\* The steps of the threads, except those that begin and end an upload.
ThreadStep ==
  \/ Launch \/ TickBegin \/ HttpRefuse \/ HttpStream \/ ProcCall \/ ProcReturn
  \/ \E r \in Requests : HttpBegin(r)
  \/ \E found \in BOOLEAN : HttpChallenge(found)
  \/ \E t \in Threads : UpdateStep(t)

\* The threads advance the state from slot to slot.
LEMMA UpdateIsSlotStep ==
  ASSUME ServerInv, NEW t \in Threads, UpdateStep(t)
  PROVE  SlotStep /\ UploadStep
<1>1. /\ pc \in [Threads -> Updating \cup {"off", "launch", "run", "idle", "dead",
                    "body", "stream", "start", "handler", "cleanup"}]
      /\ tmp \in [Threads -> Nat] /\ idx \in Nat
      /\ \A u \in Threads : pc[u] = "flush" => buf[u].idx = idx
      /\ pc["main"] \in {"off", "open", "flush", "launch", "run"}
      /\ pc["main"] # "run" => pc["tick"] = "off" /\ pc["http"] = "off" /\ pc["proc"] = "off"
      /\ pc["proc"] # "check"
  BY Zenon DEF ServerInv, SavedInv, AdvanceInv, ExclusionInv, TypeOK, ThreadInv, MemoryInv,
         Updating
<1>2. pc[t] = "write" => tmp[t] = idx /\ idx < N
  BY <1>1, ServerAssumption DEF ServerInv, SavedInv, MemoryInv, HaveAll
<1>3. pc["main"] # "off" /\ (t = "main" => pc[t] \in {"open", "flush"})
  BY <1>1, Zenon DEF UpdateStep, UpdateCheck, ReadIndex, WriteIndex, SetDeadline, Finalize,
              Completed, OpenState, FlushState, Threads
<1> USE <1>1, <1>3 DEF SlotStep, UploadStep, Counting, Goto, memVars, callVars, Threads
<1>4. CASE UpdateCheck(t)
  BY <1>4, Zenon DEF UpdateCheck, Return, AfterUpdate
<1>5. CASE ReadIndex(t)
  BY <1>5, Zenon DEF ReadIndex
<1>6. CASE WriteIndex(t)
  BY <1>2, <1>6 DEF WriteIndex
<1>7. CASE SetDeadline(t)
  BY <1>7, Zenon DEF SetDeadline
<1>8. CASE Finalize(t)
  BY <1>8 DEF Finalize
<1>9. CASE Completed(t)
  BY <1>9, Zenon DEF Completed, Raise, OnRaise
<1>10. CASE OpenState(t)
  BY <1>10, Zenon DEF OpenState
<1>11. CASE FlushState(t)
  BY <1>11, SMTT(30) DEF FlushState, Return, AfterUpdate
<1> QED BY <1>4, <1>5, <1>6, <1>7, <1>8, <1>9, <1>10, <1>11, Zenon DEF UpdateStep

\* So does every other step of a thread ...
LEMMA ThreadIsSlotStep ==
  ASSUME ServerInv, ThreadStep
  PROVE  SlotStep /\ UploadStep
<1>1. /\ pc \in [Threads -> Updating \cup {"off", "launch", "run", "idle", "dead",
                    "body", "stream", "start", "handler", "cleanup"}]
      /\ pc["main"] # "run" => pc["tick"] = "off" /\ pc["http"] = "off" /\ pc["proc"] = "off"
      /\ ppc # "idle" => pc["proc"] = "handler"
  BY Zenon DEF ServerInv, CallsInv, SavedInv, AdvanceInv, ExclusionInv, TypeOK, ThreadInv
<1>2. pc["proc"] = "handler" => ~HaveAll(idx)
  BY ServerAssumption
     DEF ServerInv, SavedInv, AdvanceInv, ExclusionInv, TypeOK, SlotInv,
         UploadInOwnSlot, Contributors, HaveAll
<1>3. CASE \E t \in Threads : UpdateStep(t)
  BY <1>3, UpdateIsSlotStep, Zenon
<1> USE <1>1 DEF SlotStep, UploadStep, Counting, Goto, memVars, callVars, Threads
<1>4. CASE Launch
  BY <1>4, Zenon DEF Launch
<1>5. CASE TickBegin
  BY <1>5, Zenon DEF TickBegin
<1>6. CASE HttpRefuse
  BY <1>6, Zenon DEF HttpRefuse
<1>7. CASE HttpStream
  BY <1>7, Zenon DEF HttpStream
<1>8. CASE ProcCall
  BY <1>8, Zenon DEF ProcCall
<1>9. CASE ProcReturn
  BY <1>2, <1>9, Zenon DEF ProcReturn
<1>10. CASE \E r \in Requests : HttpBegin(r)
  BY <1>10 DEF HttpBegin
<1>11. CASE \E found \in BOOLEAN : HttpChallenge(found)
  BY <1>11 DEF HttpChallenge
<1> QED BY <1>3, <1>4, <1>5, <1>6, <1>7, <1>8, <1>9, <1>10, <1>11, Zenon DEF ThreadStep

\* ... and the steps that begin and end an upload, when no call is open.
LEMMA UploadIsSlotStep ==
  ASSUME ServerInv, HttpAccept \/ ProcCleanup
  PROVE  SlotStep /\ crashes' = crashes /\ ppc = "idle" /\ ppc' = "idle" /\ cpc' = cpc
<1>1. /\ pc \in [Threads -> Updating \cup {"off", "launch", "run", "idle", "dead",
                    "body", "stream", "start", "handler", "cleanup"}]
      /\ pc["main"] # "run" => pc["tick"] = "off" /\ pc["http"] = "off" /\ pc["proc"] = "off"
      /\ pc["http"] = "body" => pc["proc"] = "off"
      /\ ppc # "idle" => pc["proc"] = "handler"
  BY Zenon DEF ServerInv, CallsInv, SavedInv, AdvanceInv, ExclusionInv, TypeOK, ThreadInv, LockInv
<1> USE <1>1 DEF SlotStep, Counting, Goto, memVars, callVars, Threads
<1>2. CASE HttpAccept
  BY <1>2, Zenon DEF HttpAccept
<1>3. CASE ProcCleanup
  BY <1>3, Zenon DEF ProcCleanup
<1> QED BY <1>2, <1>3, Zenon
=============================================================================
