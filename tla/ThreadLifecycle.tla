--------------------------- MODULE ThreadLifecycle ---------------------------
(***************************************************************************)
(* A Thread object (src/api/system/thread/thread.hpp), the ThreadX thread  *)
(* behind it, and the one thread that controls it.  Every call of the      *)
(* object asks m_status, calls the kernel, and then assigns m_status,      *)
(* without a lock: the thread itself runs between any two of these, be it  *)
(* the more urgent one or one of the same priority with a time slice.      *)
(***************************************************************************)
EXTENDS Naturals

CONSTANT MaxCalls   \* bound: the calls of the controlling thread

ASSUME MaxCallsAssumption == MaxCalls \in Nat

VARIABLES
  m_status,   \* Thread_Status
  \* ThreadX
  state,      \* tx_thread_state; "sleep" stands for every wait
  delayed,    \* tx_thread_delayed_suspend
  \* the thread
  at,         \* where it is: before run(), in it, before ("asked") and after
              \* ("suspend") the kernel's call in a suspend() of its own, or in
              \* what thread_entry and the kernel's shell do after run()
  \* the controlling thread
  doing,      \* the suspend, resume, stop or reset it is in, or the deletion
  then,       \* which of them comes next
  stage,      \* which of the three comes next: to ask m_status, to call the kernel,
              \* or to assign m_status
  called,     \* the last function it called
  result,     \* the Thread_Error_Code
  destroyed,  \* has ~Thread_Crtp_Base returned?
  \* history and bound
  strayed,    \* what happened since the last stop that may make m_status untrue
  calls

object_vars == <<m_status, destroyed>>
kernel_vars == <<state, delayed>>
call_vars == <<doing, then, stage, called, result, calls>>
vars == <<object_vars, kernel_vars, at, call_vars, strayed>>

Over == {"completed", "terminated", "deleted"}

-------------------------------------------------------------------------------
(* the calls of the controlling thread *)

Call(name, first, second) ==
  /\ ~ destroyed
  /\ doing = "none"
  /\ calls < MaxCalls /\ calls' = calls + 1
  /\ called' = name
  /\ doing' = first /\ then' = second
  /\ UNCHANGED <<object_vars, kernel_vars, at, stage, result, strayed>>

\* Mutant: a call that failed goes on in the next one.
ReturnsAndGoesOn(code) ==
  /\ doing' = "none" /\ stage' = "asks"
  /\ result' = code
  /\ UNCHANGED <<then, called, calls>>

\* A step that fails ends the whole call ...
Returns(code) ==
  /\ doing' = "none" /\ then' = "none" /\ stage' = "asks"
  /\ result' = code
  /\ UNCHANGED <<called, calls>>

\* ... and one that succeeds is followed by the next.
Succeeds ==
  /\ doing' = then /\ then' = "none" /\ stage' = "asks"
  /\ result' = "SUCCESS"
  /\ UNCHANGED <<called, calls>>

At(step, s) == ~ destroyed /\ doing = step /\ stage = s

Goes(s) ==
  /\ stage' = s
  /\ UNCHANGED <<doing, then, called, result, calls>>

\* m_status is asked, and the kernel not yet called.
Asks(step) ==
  /\ At(step, "asks")
  /\ UNCHANGED <<object_vars, kernel_vars, at, strayed>>

\* m_status is assigned, whatever it has become since it was asked.
Assigns(step, status) ==
  /\ At(step, "assigns")
  /\ m_status' = status
  /\ strayed' = IF m_status = "EXITED" /\ step \in {"suspend", "resume"}
                THEN strayed \cup {"overwritten"} ELSE strayed
  /\ Succeeds
  /\ UNCHANGED <<destroyed, kernel_vars, at>>

\* create, with TX_DONT_START; every other call is refused before it.
CallCreate ==
  /\ m_status = "NOT_INIT"
  /\ calls < MaxCalls /\ calls' = calls + 1
  /\ called' = "create" /\ result' = "SUCCESS"
  /\ m_status' = "SUSPENDED" /\ state' = "suspended"
  /\ UNCHANGED <<destroyed, delayed, at, doing, then, stage, strayed>>

Created == m_status # "NOT_INIT"

\* Mutant: an exited thread is reset, and not resumed.
CallStartResets ==
  Created /\ Call("start", IF m_status = "EXITED" THEN "reset" ELSE "resume", "none")

CallStart ==
  /\ Created
  /\ IF m_status = "EXITED" THEN Call("start", "reset", "resume")
                            ELSE Call("start", "resume", "none")

CallSuspend == Created /\ Call("suspend", "suspend", "none")
CallResume == Created /\ Call("resume", "resume", "none")
CallStop == Created /\ Call("stop", "stop", "none")
CallReset == Created /\ Call("reset", "reset", "none")

\* set_loop_time and set_function.
CallSet == Created /\ Call("set", "stop", "reset")

\* ~Thread_Crtp_Base
Destruct == Created /\ Call("destruct", "stop", "delete")

AskSuspend ==
  /\ Asks("suspend")
  /\ CASE m_status = "EXITED" -> Returns("EXITED")
       [] m_status = "SUSPENDED" -> Succeeds
       [] m_status = "RUNNING" -> Goes("calls")

\* tx_thread_suspend of a thread that waits is put off until it wakes; one that is
\* ready is suspended wherever it is, on its way to its completion, too
\* (tx_thread_suspend.c:269-849).
Suspend ==
  /\ At("suspend", "calls")
  /\ IF state \in Over THEN Returns("ERROR") ELSE Goes("assigns")
  /\ state' = IF state = "ready" THEN "suspended" ELSE state
  /\ delayed' = (delayed \/ state = "sleep")
  /\ UNCHANGED <<object_vars, at, strayed>>

Suspended == Assigns("suspend", "SUSPENDED")

AskResume ==
  /\ Asks("resume")
  /\ CASE m_status = "EXITED" -> Returns("EXITED")
       [] m_status = "RUNNING" -> Succeeds
       [] m_status = "SUSPENDED" -> Goes("calls")

\* tx_thread_resume that lifts a suspension put off says TX_SUSPEND_LIFTED, which
\* is not TX_SUCCESS (tx_thread_resume.c:122, 204-543).
Resume ==
  /\ At("resume", "calls")
  /\ IF state = "suspended" THEN Goes("assigns") ELSE Returns("ERROR")
  /\ state' = IF state = "suspended" THEN "ready" ELSE state
  /\ delayed' = (delayed /\ state = "suspended")
  /\ strayed' = IF delayed' # delayed THEN strayed \cup {"lifted"} ELSE strayed
  /\ UNCHANGED <<object_vars, at>>

Resumed == Assigns("resume", "RUNNING")

AskStop ==
  /\ Asks("stop")
  /\ IF m_status = "EXITED" THEN Succeeds ELSE Goes("calls")

\* Mutant: a thread that waits is not terminated.
StopUnlessAsleep ==
  /\ At("stop", "calls")
  /\ Goes("assigns")
  /\ state' = IF state \in Over \cup {"sleep"} THEN state ELSE "terminated"
  /\ strayed' = {}
  /\ UNCHANGED <<object_vars, delayed, at>>

\* tx_thread_terminate leaves tx_thread_delayed_suspend alone
\* (tx_thread_terminate.c:110-200).
Stop ==
  /\ At("stop", "calls")
  /\ Goes("assigns")
  /\ state' = IF state \in Over THEN state ELSE "terminated"
  /\ strayed' = {}
  /\ UNCHANGED <<object_vars, delayed, at>>

Stopped == Assigns("stop", "EXITED")

\* reset of a thread that has not exited is a stop first (after which m_status is
\* not asked again in the code, and EXITED).
AskReset ==
  /\ Asks("reset")
  /\ IF m_status = "EXITED" THEN Goes("calls")
     ELSE doing' = "stop" /\ then' = "reset" /\ UNCHANGED <<stage, called, result, calls>>

\* tx_thread_reset leaves tx_thread_delayed_suspend alone, too, and refuses a thread
\* on its way from thread_entry to its completion (tx_thread_reset.c:105-148).
Reset ==
  /\ At("reset", "calls")
  /\ IF state \in Over
     THEN /\ Goes("assigns")
          /\ state' = "suspended" /\ at' = "entry"
          /\ strayed' = IF delayed THEN {"stale"} ELSE {}
     ELSE Returns("ERROR") /\ UNCHANGED <<state, at, strayed>>
  /\ UNCHANGED <<object_vars, delayed>>

ResetDone == Assigns("reset", "SUSPENDED")

\* tx_thread_delete, whose failure nobody looks at.
Delete ==
  /\ At("delete", "asks")
  /\ state' = IF state \in Over THEN "deleted" ELSE state
  /\ destroyed' = TRUE
  /\ Succeeds
  /\ UNCHANGED <<m_status, delayed, at, strayed>>

-------------------------------------------------------------------------------
(* the thread *)

Runs(from, to) == state = "ready" /\ at = from /\ at' = to

\* thread_entry calls run().
Begin ==
  /\ Runs("entry", "run")
  /\ UNCHANGED <<object_vars, kernel_vars, call_vars, strayed>>

Sleep ==
  /\ Runs("run", "run")
  /\ state' = "sleep"
  /\ UNCHANGED <<object_vars, delayed, call_vars, strayed>>

\* The kernel makes the thread ready again, or suspends it after all.
Wake ==
  /\ state = "sleep"
  /\ state' = IF delayed THEN "suspended" ELSE "ready"
  /\ delayed' = FALSE
  /\ UNCHANGED <<object_vars, at, call_vars, strayed>>

\* A suspend() of its own, which suspends it before m_status is assigned: that is
\* done when somebody resumed it.
AskItself ==
  /\ Runs("run", "asked")
  /\ m_status = "RUNNING"
  /\ UNCHANGED <<object_vars, kernel_vars, call_vars, strayed>>

SuspendItself ==
  /\ Runs("asked", "suspend")
  /\ state' = "suspended"
  /\ strayed' = strayed \cup {"itself"}
  /\ UNCHANGED <<object_vars, delayed, call_vars>>

SuspendedItself ==
  /\ Runs("suspend", "run")
  /\ m_status' = "SUSPENDED"
  /\ UNCHANGED <<destroyed, kernel_vars, call_vars, strayed>>

\* A stop() of its own, which does not return, and thread_stack_error_handler.
EndItself ==
  /\ Runs("run", "run")
  /\ state' = "terminated"
  /\ strayed' = strayed \cup {"ended"}
  /\ UNCHANGED <<object_vars, delayed, call_vars>>

\* Mutant: thread_entry does not assign m_status.
ExitSilently ==
  /\ Runs("run", "end")
  /\ UNCHANGED <<object_vars, kernel_vars, call_vars, strayed>>

\* run() returns, and thread_entry says so.
Exit ==
  /\ Runs("run", "end")
  /\ m_status' = "EXITED"
  /\ UNCHANGED <<destroyed, kernel_vars, call_vars, strayed>>

Complete ==
  /\ Runs("end", "end")
  /\ state' = "completed"
  /\ UNCHANGED <<object_vars, delayed, call_vars, strayed>>

-------------------------------------------------------------------------------
Init ==
  /\ m_status = "NOT_INIT" /\ destroyed = FALSE
  /\ state = "none" /\ delayed = FALSE
  /\ at = "entry"
  /\ doing = "none" /\ then = "none" /\ stage = "asks"
  /\ called = "none" /\ result = "SUCCESS" /\ calls = 0
  /\ strayed = {}

Calls ==
  \/ CallCreate \/ CallStart \/ CallSuspend \/ CallResume \/ CallStop \/ CallReset
  \/ CallSet \/ Destruct
Continue ==
  \/ AskSuspend \/ Suspend \/ Suspended \/ AskResume \/ Resume \/ Resumed
  \/ AskStop \/ Stop \/ Stopped \/ AskReset \/ Reset \/ ResetDone \/ Delete
Proceed == Begin \/ SuspendItself \/ SuspendedItself \/ Complete
MayDo == Sleep \/ AskItself \/ EndItself \/ Exit

Next == Calls \/ Continue \/ Proceed \/ Wake \/ MayDo

Spec == Init /\ [][Next]_vars

\* Both threads are scheduled when they can run, and every wait ends.  Nobody has
\* to make a call, and run() need not do anything.
FairSpec == Spec /\ WF_vars(Continue) /\ WF_vars(Proceed) /\ WF_vars(Wake)

-------------------------------------------------------------------------------
Steps == {"none", "suspend", "resume", "stop", "reset", "delete"}
Stages == {"asks", "calls", "assigns"}
Reasons == {"lifted", "stale", "itself", "ended", "overwritten"}

\* The variables have their types; nothing is left to do of a call that returned.
TypeOK ==
  /\ m_status \in {"NOT_INIT", "SUSPENDED", "RUNNING", "EXITED"}
  /\ state \in {"none", "ready", "suspended", "sleep"} \cup Over
  /\ at \in {"entry", "run", "asked", "suspend", "end"}
  /\ doing \in Steps /\ then \in {"none", "resume", "reset", "delete"}
  /\ doing = "none" => then = "none" /\ stage = "asks"
  /\ stage \in Stages
  /\ delayed \in BOOLEAN /\ destroyed \in BOOLEAN
  /\ called \in {"none", "create", "start", "suspend", "resume", "stop", "reset", "set", "destruct"}
  /\ result \in {"SUCCESS", "EXITED", "ERROR"}
  /\ strayed \subseteq Reasons
  /\ calls \in 0 .. MaxCalls

\* run() is over when m_status says EXITED, and when the object is destroyed: what
\* may be left of the thread is its way from thread_entry to its completion
\* (stop, thread_entry, ~Thread_Crtp_Base).
ExitedIsOver ==
  m_status = "EXITED" \/ destroyed =>
    at = "end" \/ state \in Over \/ (doing = "reset" /\ stage = "assigns")

\* Between two calls m_status says what the kernel does with the thread, unless
\* since it was last stopped the thread suspended itself ("itself") or ended itself
\* ("ended"), its EXITED was overwritten by a suspend or a resume that had asked
\* m_status before ("overwritten"), it was resumed while a suspension was still put
\* off ("lifted"), or it was reset with such a suspension ("stale").
Agrees ==
  /\ m_status = "NOT_INIT" => state = "none"
  /\ m_status = "SUSPENDED" => state = "suspended" \/ (state = "sleep" /\ delayed)
  /\ m_status = "RUNNING" => state \in {"ready", "sleep"} /\ ~ delayed
  /\ m_status = "EXITED" => state \in Over \/ (state = "ready" /\ at = "end")
StatusIsTrue == doing = "none" /\ strayed = {} => Agrees

\* A start() that reports SUCCESS gets the thread to run, from whatever it was
\* doing, unless another call follows or one of the above happened.
Started == called = "start" /\ doing = "none" /\ result = "SUCCESS" /\ strayed = {}
StartRuns ==
  Started ~> (state = "ready" /\ at \in {"run", "asked"}) \/ ~ Started \/ m_status = "EXITED"
===============================================================================
