------------------------------- MODULE Interval -------------------------------
(***************************************************************************)
(* The periodic thread of mpc/coordinator/interval.py and the call of      *)
(* Interval.stop that Server._run makes when it ends.                      *)
(*                                                                         *)
(* The condition variable's lock is re-entrant, and _thread acquires it    *)
(* once per period without ever releasing it: only wait gives it up.  It   *)
(* is therefore enough to know who owns it.                                *)
(***************************************************************************)
EXTENDS Integers

CONSTANTS Period,   \* Interval.period
          MaxTime   \* bound on the clock

ASSUME IntervalAssumption == Period \in Nat \ {0} /\ MaxTime \in Nat

VARIABLES
  now,           \* the clock, from the construction on
  nextDeadline,  \* Interval.next_deadline
  running,       \* Interval.running
  owner,         \* owner of Interval.condition
  notified,      \* has the waiting thread been notified?
  tpc,           \* where the thread is
  mpc,           \* where the caller of stop is
  calls          \* ghost: callbacks begun

vars == <<now, nextDeadline, running, owner, notified, tpc, mpc, calls>>

Init ==
  /\ now = 0 /\ nextDeadline = 0 /\ running = TRUE
  /\ owner = "none" /\ notified = FALSE
  /\ tpc = "loop" /\ mpc = "run" /\ calls = 0
-----------------------------------------------------------------------------
(* while self.running: self.callback() *)
Loop ==
  /\ tpc = "loop"
  /\ \/ running /\ tpc' = "callback" /\ calls' = calls + 1
     \/ ~running /\ tpc' = "ended" /\ UNCHANGED calls
  /\ UNCHANGED <<now, nextDeadline, running, owner, notified, mpc>>

\* Mutant: the deadline stays.
CallbackReturns_Same ==
  /\ tpc = "callback"
  /\ nextDeadline' = nextDeadline
  /\ tpc' = "acquire"
  /\ UNCHANGED <<now, running, owner, notified, mpc, calls>>

\* Mutant: every second period is skipped.
CallbackReturns_Skip ==
  /\ tpc = "callback"
  /\ nextDeadline' = nextDeadline + 2 * Period
  /\ tpc' = "acquire"
  /\ UNCHANGED <<now, running, owner, notified, mpc, calls>>

(* The callback returns, or raises and ends the thread as it is. *)
CallbackReturns ==
  /\ tpc = "callback"
  /\ nextDeadline' = nextDeadline + Period
  /\ tpc' = "acquire"
  /\ UNCHANGED <<now, running, owner, notified, mpc, calls>>

CallbackRaises ==
  /\ tpc = "callback"
  /\ tpc' = "ended"
  /\ UNCHANGED <<now, nextDeadline, running, owner, notified, mpc, calls>>

(* condition.acquire(), and the acquisition with which wait returns. *)
Acquire ==
  /\ tpc = "acquire"
  /\ owner \in {"none", "thread"}
  /\ owner' = "thread"
  /\ tpc' = "inner"
  /\ UNCHANGED <<now, nextDeadline, running, notified, mpc, calls>>

(* while self.running: break at the deadline, else wait for it. *)
Inner ==
  /\ tpc = "inner"
  /\ \/ /\ ~running \/ nextDeadline <= now
        /\ tpc' = "loop"
        /\ UNCHANGED <<owner, notified>>
     \/ /\ running /\ now < nextDeadline
        /\ tpc' = "wait"
        /\ owner' = "none"
        /\ notified' = FALSE
  /\ UNCHANGED <<now, nextDeadline, running, mpc, calls>>

(* wait ends because of a notify or of its timeout. *)
Wake ==
  /\ tpc = "wait"
  /\ notified \/ nextDeadline <= now
  /\ tpc' = "acquire"
  /\ UNCHANGED <<now, nextDeadline, running, owner, notified, mpc, calls>>
-----------------------------------------------------------------------------
\* Mutant: the flag is not cleared.
StopFlag_NoFlag ==
  /\ mpc = "run"
  /\ mpc' = "acquire"
  /\ UNCHANGED <<now, nextDeadline, running, owner, notified, tpc, calls>>

(* stop *)
StopFlag ==
  /\ mpc = "run"
  /\ running' = FALSE
  /\ mpc' = "acquire"
  /\ UNCHANGED <<now, nextDeadline, owner, notified, tpc, calls>>

StopAcquire ==
  /\ mpc = "acquire"
  /\ owner = "none"
  /\ owner' = "main"
  /\ mpc' = "notify"
  /\ UNCHANGED <<now, nextDeadline, running, notified, tpc, calls>>

StopNotify ==
  /\ mpc = "notify"
  /\ notified' = TRUE
  /\ owner' = "none"
  /\ mpc' = "join"
  /\ UNCHANGED <<now, nextDeadline, running, tpc, calls>>

StopJoin ==
  /\ mpc = "join"
  /\ tpc = "ended"
  /\ mpc' = "done"
  /\ UNCHANGED <<now, nextDeadline, running, owner, notified, tpc, calls>>
-----------------------------------------------------------------------------
Clock ==
  /\ now < MaxTime
  /\ now' = now + 1
  /\ UNCHANGED <<nextDeadline, running, owner, notified, tpc, mpc, calls>>

ThreadStep ==
  Loop \/ CallbackReturns \/ CallbackRaises \/ Acquire \/ Inner \/ Wake
StopStep == StopAcquire \/ StopNotify \/ StopJoin

Next == ThreadStep \/ StopFlag \/ StopStep \/ Clock

Spec == Init /\ [][Next]_vars

(* Both threads are scheduled and time passes; nothing makes _run end. *)
FairSpec ==
  Spec /\ WF_vars(ThreadStep) /\ WF_vars(StopStep) /\ WF_vars(Clock)
-----------------------------------------------------------------------------
(* The callback is never run early, however late earlier ones were: the    *)
(* k-th begins no sooner than k - 1 periods after the construction.        *)
NeverEarly == calls > 0 => (calls - 1) * Period <= now

(* A due callback is run, unless stop was called or a callback raised: no  *)
(* wake-up is lost between the test of the deadline and the wait.          *)
DueTicksHappen ==
  \A k \in 0 .. MaxTime \div Period :
    (k * Period <= now) ~> (calls > k \/ ~running \/ tpc = "ended")

(* Once stop owns the condition it returns: its notify is not lost and the *)
(* thread sees running = False.                                            *)
StopReturnsOnceAcquired == (mpc = "notify") ~> (mpc = "done")
=============================================================================
