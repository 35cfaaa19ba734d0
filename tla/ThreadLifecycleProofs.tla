------------------------ MODULE ThreadLifecycleProofs ------------------------
(***************************************************************************)
(* TypeOK, ExitedIsOver and StatusIsTrue of ThreadLifecycle, for every     *)
(* number of calls.  What holds while a call is between the kernel's work  *)
(* and its assignment makes the three inductive.                           *)
(***************************************************************************)
EXTENDS ThreadLifecycle, TLAPS

\* Which steps go together, and what is known while one of them is in the middle.
Calling(step) == doing = step /\ stage = "calls"
Assigning(step) == doing = step /\ stage = "assigns"
CallShape ==
  /\ state = "none" <=> m_status = "NOT_INIT"
  /\ m_status = "NOT_INIT" => doing = "none" /\ ~ destroyed
  /\ destroyed => doing = "none" /\ m_status = "EXITED"
  /\ then \in {"reset", "delete"} => doing = "stop"
  /\ then = "resume" => doing = "reset" /\ m_status = "EXITED"
  /\ doing = "delete" => m_status = "EXITED" /\ stage = "asks"
  /\ Assigning("suspend") => state = "suspended" \/ (state = "sleep" /\ delayed)
  /\ Assigning("stop") => state \in Over
  /\ Calling("reset") => m_status = "EXITED"
  /\ Assigning("reset") => m_status = "EXITED" /\ state = "suspended" /\ at = "entry"
  /\ state \in {"none", "deleted"} => state = "none" \/ destroyed

\* The truth about a thread that has not strayed, in the middle of a call as well.
Truth ==
  strayed = {} =>
    /\ stage # "assigns" => Agrees
    /\ delayed => state \in Over \cup {"sleep"}
    /\ state \in Over \/ at \in {"entry", "run", "asked"}
         \/ (at = "end" /\ m_status = "EXITED" /\ (state = "ready" \/ Assigning("suspend")))
    /\ Calling("resume") => m_status = "SUSPENDED"
    /\ Assigning("resume") =>
         m_status = "EXITED" \/ (m_status = "SUSPENDED" /\ state \in {"ready", "sleep"} /\ ~ delayed)

IInv == TypeOK /\ CallShape /\ ExitedIsOver /\ Truth

LEMMA InitHolds == Init => IInv
<1> SUFFICES ASSUME Init PROVE IInv
  OBVIOUS
<1>1. TypeOK
  <2>1. calls \in 0 .. MaxCalls /\ strayed \subseteq Reasons
    BY MaxCallsAssumption DEF Init
  <2> QED
    BY <2>1 DEF Init, TypeOK, Over, Steps, Stages
<1>2. CallShape /\ ExitedIsOver /\ Truth
  BY DEF Init, CallShape, ExitedIsOver, Truth, Agrees, Over, Calling, Assigning
<1> QED
  BY <1>1, <1>2 DEF IInv

\* A call begins: the kernel's thread and m_status are left alone.
LEMMA CallsKeep == IInv /\ Calls => IInv'
<1> USE DEF Call, Created, Calling, Assigning, Over, Steps, Stages, Reasons, object_vars, kernel_vars, call_vars
<1> SUFFICES ASSUME IInv, Calls PROVE IInv'
  OBVIOUS
<1>1. CASE CallCreate
  <2>1. TypeOK'
    BY <1>1, MaxCallsAssumption DEF CallCreate, IInv, TypeOK
  <2>2. CallShape'
    BY <1>1 DEF CallCreate, IInv, TypeOK, CallShape, ExitedIsOver, Truth
  <2>3. ExitedIsOver'
    BY <1>1 DEF CallCreate, IInv, TypeOK, CallShape, ExitedIsOver
  <2>4. Truth'
    BY <1>1 DEF CallCreate, IInv, TypeOK, CallShape, ExitedIsOver, Truth, Agrees
  <2> QED
    BY <2>1, <2>2, <2>3, <2>4 DEF IInv
<1>2. CASE CallStart
  <2>1. TypeOK'
    <3>1. calls' \in 0 .. MaxCalls
      BY <1>2, MaxCallsAssumption DEF CallStart, IInv, TypeOK
    <3>2. /\ m_status' = m_status /\ at' = at /\ destroyed' = destroyed /\ strayed' = strayed
          /\ state' = state /\ delayed' = delayed /\ stage' = stage /\ result' = result
          /\ called' = "start"
          /\ doing' \in {"reset", "resume"} /\ then' \in {"resume", "none"}
      BY <1>2 DEF CallStart
    <3> QED
      BY <3>1, <3>2 DEF IInv, TypeOK
  <2>2. CallShape'
    BY <1>2 DEF CallStart, IInv, TypeOK, CallShape, ExitedIsOver, Truth
  <2>3. ExitedIsOver'
    BY <1>2 DEF CallStart, IInv, TypeOK, CallShape, ExitedIsOver
  <2>4. Truth'
    BY <1>2 DEF CallStart, IInv, TypeOK, CallShape, ExitedIsOver, Truth, Agrees
  <2> QED
    BY <2>1, <2>2, <2>3, <2>4 DEF IInv
<1>3. CASE CallSuspend
  <2>1. TypeOK'
    BY <1>3, MaxCallsAssumption DEF CallSuspend, IInv, TypeOK
  <2>2. CallShape'
    BY <1>3 DEF CallSuspend, IInv, TypeOK, CallShape, ExitedIsOver, Truth
  <2>3. ExitedIsOver'
    BY <1>3 DEF CallSuspend, IInv, TypeOK, CallShape, ExitedIsOver
  <2>4. Truth'
    BY <1>3 DEF CallSuspend, IInv, TypeOK, CallShape, ExitedIsOver, Truth, Agrees
  <2> QED
    BY <2>1, <2>2, <2>3, <2>4 DEF IInv
<1>4. CASE CallResume
  <2>1. TypeOK'
    BY <1>4, MaxCallsAssumption DEF CallResume, IInv, TypeOK
  <2>2. CallShape'
    BY <1>4 DEF CallResume, IInv, TypeOK, CallShape, ExitedIsOver, Truth
  <2>3. ExitedIsOver'
    BY <1>4 DEF CallResume, IInv, TypeOK, CallShape, ExitedIsOver
  <2>4. Truth'
    BY <1>4 DEF CallResume, IInv, TypeOK, CallShape, ExitedIsOver, Truth, Agrees
  <2> QED
    BY <2>1, <2>2, <2>3, <2>4 DEF IInv
<1>5. CASE CallStop
  <2>1. TypeOK'
    BY <1>5, MaxCallsAssumption DEF CallStop, IInv, TypeOK
  <2>2. CallShape'
    BY <1>5 DEF CallStop, IInv, TypeOK, CallShape, ExitedIsOver, Truth
  <2>3. ExitedIsOver'
    BY <1>5 DEF CallStop, IInv, TypeOK, CallShape, ExitedIsOver
  <2>4. Truth'
    BY <1>5 DEF CallStop, IInv, TypeOK, CallShape, ExitedIsOver, Truth, Agrees
  <2> QED
    BY <2>1, <2>2, <2>3, <2>4 DEF IInv
<1>6. CASE CallReset
  <2>1. TypeOK'
    BY <1>6, MaxCallsAssumption DEF CallReset, IInv, TypeOK
  <2>2. CallShape'
    BY <1>6 DEF CallReset, IInv, TypeOK, CallShape, ExitedIsOver, Truth
  <2>3. ExitedIsOver'
    BY <1>6 DEF CallReset, IInv, TypeOK, CallShape, ExitedIsOver
  <2>4. Truth'
    BY <1>6 DEF CallReset, IInv, TypeOK, CallShape, ExitedIsOver, Truth, Agrees
  <2> QED
    BY <2>1, <2>2, <2>3, <2>4 DEF IInv
<1>7. CASE CallSet
  <2>1. TypeOK'
    BY <1>7, MaxCallsAssumption DEF CallSet, IInv, TypeOK
  <2>2. CallShape'
    BY <1>7 DEF CallSet, IInv, TypeOK, CallShape, ExitedIsOver, Truth
  <2>3. ExitedIsOver'
    BY <1>7 DEF CallSet, IInv, TypeOK, CallShape, ExitedIsOver
  <2>4. Truth'
    BY <1>7 DEF CallSet, IInv, TypeOK, CallShape, ExitedIsOver, Truth, Agrees
  <2> QED
    BY <2>1, <2>2, <2>3, <2>4 DEF IInv
<1>8. CASE Destruct
  <2>1. TypeOK'
    BY <1>8, MaxCallsAssumption DEF Destruct, IInv, TypeOK
  <2>2. CallShape'
    BY <1>8 DEF Destruct, IInv, TypeOK, CallShape, ExitedIsOver, Truth
  <2>3. ExitedIsOver'
    BY <1>8 DEF Destruct, IInv, TypeOK, CallShape, ExitedIsOver
  <2>4. Truth'
    BY <1>8 DEF Destruct, IInv, TypeOK, CallShape, ExitedIsOver, Truth, Agrees
  <2> QED
    BY <2>1, <2>2, <2>3, <2>4 DEF IInv
<1> QED
  BY <1>1, <1>2, <1>3, <1>4, <1>5, <1>6, <1>7, <1>8 DEF Calls

\* The controlling thread goes on with a call.
LEMMA ContinueKeeps == IInv /\ Continue => IInv'
<1> USE DEF At, Asks, Assigns, Goes, Returns, Succeeds, Calling, Assigning, Over, Steps, Stages, Reasons, object_vars, kernel_vars, call_vars
<1> SUFFICES ASSUME IInv, Continue PROVE IInv'
  OBVIOUS
<1>1. CASE AskSuspend
  <2>1. TypeOK'
    <3>1. m_status \in {"SUSPENDED", "RUNNING", "EXITED"}
      BY <1>1 DEF AskSuspend, IInv, TypeOK, CallShape
    <3>2. /\ m_status' = m_status /\ at' = at /\ destroyed' = destroyed /\ strayed' = strayed
          /\ state' = state /\ delayed' = delayed /\ called' = called /\ calls' = calls
      BY <1>1, <3>1 DEF AskSuspend
    <3>3. /\ doing' \in {doing, then, "none"} /\ then' \in {then, "none"}
          /\ stage' \in {"asks", "calls"} /\ result' \in {result, "SUCCESS", "EXITED"}
          /\ doing' = "none" => then' = "none" /\ stage' = "asks"
      BY <1>1, <3>1 DEF AskSuspend
    <3> QED
      BY <3>2, <3>3 DEF IInv, TypeOK
  <2>2. CallShape'
    BY <1>1 DEF AskSuspend, IInv, TypeOK, CallShape, ExitedIsOver, Truth
  <2>3. ExitedIsOver'
    BY <1>1 DEF AskSuspend, IInv, TypeOK, CallShape, ExitedIsOver
  <2>4. Truth'
    BY <1>1 DEF AskSuspend, IInv, TypeOK, CallShape, ExitedIsOver, Truth, Agrees
  <2> QED
    BY <2>1, <2>2, <2>3, <2>4 DEF IInv
<1>2. CASE Suspend
  <2>1. TypeOK'
    BY <1>2 DEF Suspend, IInv, TypeOK
  <2>2. CallShape'
    BY <1>2 DEF Suspend, IInv, TypeOK, CallShape, ExitedIsOver, Truth
  <2>3. ExitedIsOver'
    BY <1>2 DEF Suspend, IInv, TypeOK, CallShape, ExitedIsOver
  <2>4. Truth'
    BY <1>2 DEF Suspend, IInv, TypeOK, CallShape, ExitedIsOver, Truth, Agrees
  <2> QED
    BY <2>1, <2>2, <2>3, <2>4 DEF IInv
<1>3. CASE Suspended
  <2>1. TypeOK'
    BY <1>3 DEF Suspended, IInv, TypeOK
  <2>2. CallShape'
    BY <1>3 DEF Suspended, IInv, TypeOK, CallShape, ExitedIsOver, Truth
  <2>3. ExitedIsOver'
    BY <1>3 DEF Suspended, IInv, TypeOK, CallShape, ExitedIsOver
  <2>4. Truth'
    BY <1>3 DEF Suspended, IInv, TypeOK, CallShape, ExitedIsOver, Truth, Agrees
  <2> QED
    BY <2>1, <2>2, <2>3, <2>4 DEF IInv
<1>4. CASE AskResume
  <2>1. TypeOK'
    <3>1. m_status \in {"SUSPENDED", "RUNNING", "EXITED"}
      BY <1>4 DEF AskResume, IInv, TypeOK, CallShape
    <3>2. /\ m_status' = m_status /\ at' = at /\ destroyed' = destroyed /\ strayed' = strayed
          /\ state' = state /\ delayed' = delayed /\ called' = called /\ calls' = calls
      BY <1>4, <3>1 DEF AskResume
    <3>3. /\ doing' \in {doing, then, "none"} /\ then' \in {then, "none"}
          /\ stage' \in {"asks", "calls"} /\ result' \in {result, "SUCCESS", "EXITED"}
          /\ doing' = "none" => then' = "none" /\ stage' = "asks"
      BY <1>4, <3>1 DEF AskResume
    <3> QED
      BY <3>2, <3>3 DEF IInv, TypeOK
  <2>2. CallShape'
    BY <1>4 DEF AskResume, IInv, TypeOK, CallShape, ExitedIsOver, Truth
  <2>3. ExitedIsOver'
    BY <1>4 DEF AskResume, IInv, TypeOK, CallShape, ExitedIsOver
  <2>4. Truth'
    BY <1>4 DEF AskResume, IInv, TypeOK, CallShape, ExitedIsOver, Truth, Agrees
  <2> QED
    BY <2>1, <2>2, <2>3, <2>4 DEF IInv
<1>5. CASE Resume
  <2>1. TypeOK'
    BY <1>5 DEF Resume, IInv, TypeOK
  <2>2. CallShape'
    BY <1>5 DEF Resume, IInv, TypeOK, CallShape, ExitedIsOver, Truth
  <2>3. ExitedIsOver'
    BY <1>5 DEF Resume, IInv, TypeOK, CallShape, ExitedIsOver
  <2>4. Truth'
    BY <1>5 DEF Resume, IInv, TypeOK, CallShape, ExitedIsOver, Truth, Agrees
  <2> QED
    BY <2>1, <2>2, <2>3, <2>4 DEF IInv
<1>6. CASE Resumed
  <2>1. TypeOK'
    BY <1>6 DEF Resumed, IInv, TypeOK
  <2>2. CallShape'
    BY <1>6 DEF Resumed, IInv, TypeOK, CallShape, ExitedIsOver, Truth
  <2>3. ExitedIsOver'
    BY <1>6 DEF Resumed, IInv, TypeOK, CallShape, ExitedIsOver
  <2>4. Truth'
    BY <1>6 DEF Resumed, IInv, TypeOK, CallShape, ExitedIsOver, Truth, Agrees
  <2> QED
    BY <2>1, <2>2, <2>3, <2>4 DEF IInv
<1>7. CASE AskStop
  <2>1. TypeOK'
    BY <1>7 DEF AskStop, IInv, TypeOK
  <2>2. CallShape'
    BY <1>7 DEF AskStop, IInv, TypeOK, CallShape, ExitedIsOver, Truth
  <2>3. ExitedIsOver'
    BY <1>7 DEF AskStop, IInv, TypeOK, CallShape, ExitedIsOver
  <2>4. Truth'
    BY <1>7 DEF AskStop, IInv, TypeOK, CallShape, ExitedIsOver, Truth, Agrees
  <2> QED
    BY <2>1, <2>2, <2>3, <2>4 DEF IInv
<1>8. CASE Stop
  <2>1. TypeOK'
    BY <1>8 DEF Stop, IInv, TypeOK
  <2>2. CallShape'
    BY <1>8 DEF Stop, IInv, TypeOK, CallShape, ExitedIsOver, Truth
  <2>3. ExitedIsOver'
    BY <1>8 DEF Stop, IInv, TypeOK, CallShape, ExitedIsOver
  <2>4. Truth'
    BY <1>8 DEF Stop, IInv, TypeOK, CallShape, ExitedIsOver, Truth, Agrees
  <2> QED
    BY <2>1, <2>2, <2>3, <2>4 DEF IInv
<1>9. CASE Stopped
  <2>1. TypeOK'
    BY <1>9 DEF Stopped, IInv, TypeOK
  <2>2. CallShape'
    BY <1>9 DEF Stopped, IInv, TypeOK, CallShape, ExitedIsOver, Truth
  <2>3. ExitedIsOver'
    BY <1>9 DEF Stopped, IInv, TypeOK, CallShape, ExitedIsOver
  <2>4. Truth'
    BY <1>9 DEF Stopped, IInv, TypeOK, CallShape, ExitedIsOver, Truth, Agrees
  <2> QED
    BY <2>1, <2>2, <2>3, <2>4 DEF IInv
<1>10. CASE AskReset
  <2>1. TypeOK'
    BY <1>10 DEF AskReset, IInv, TypeOK
  <2>2. CallShape'
    BY <1>10 DEF AskReset, IInv, TypeOK, CallShape, ExitedIsOver, Truth
  <2>3. ExitedIsOver'
    BY <1>10 DEF AskReset, IInv, TypeOK, CallShape, ExitedIsOver
  <2>4. Truth'
    BY <1>10 DEF AskReset, IInv, TypeOK, CallShape, ExitedIsOver, Truth, Agrees
  <2> QED
    BY <2>1, <2>2, <2>3, <2>4 DEF IInv
<1>11. CASE Reset
  <2>1. TypeOK'
    <3>1. /\ m_status' = m_status /\ destroyed' = destroyed /\ delayed' = delayed
          /\ called' = called /\ calls' = calls
      BY <1>11 DEF Reset
    <3>2. /\ at' \in {at, "entry"} /\ strayed' \in {strayed, {}, {"stale"}}
          /\ state' \in {state, "suspended"} /\ result' \in {result, "ERROR"}
      BY <1>11 DEF Reset
    <3>3. /\ doing' \in {"reset", "none"} /\ then' \in {then, "none"}
          /\ stage' \in {"asks", "assigns"}
          /\ doing' = "none" => then' = "none" /\ stage' = "asks"
      BY <1>11 DEF Reset
    <3> QED
      BY <3>1, <3>2, <3>3 DEF IInv, TypeOK
  <2>2. CallShape'
    BY <1>11 DEF Reset, IInv, TypeOK, CallShape, ExitedIsOver, Truth
  <2>3. ExitedIsOver'
    BY <1>11 DEF Reset, IInv, TypeOK, CallShape, ExitedIsOver
  <2>4. Truth'
    BY <1>11 DEF Reset, IInv, TypeOK, CallShape, ExitedIsOver, Truth, Agrees
  <2> QED
    BY <2>1, <2>2, <2>3, <2>4 DEF IInv
<1>12. CASE ResetDone
  <2>1. TypeOK'
    BY <1>12 DEF ResetDone, IInv, TypeOK
  <2>2. CallShape'
    BY <1>12 DEF ResetDone, IInv, TypeOK, CallShape, ExitedIsOver, Truth
  <2>3. ExitedIsOver'
    BY <1>12 DEF ResetDone, IInv, TypeOK, CallShape, ExitedIsOver
  <2>4. Truth'
    BY <1>12 DEF ResetDone, IInv, TypeOK, CallShape, ExitedIsOver, Truth, Agrees
  <2> QED
    BY <2>1, <2>2, <2>3, <2>4 DEF IInv
<1>13. CASE Delete
  <2>1. TypeOK'
    BY <1>13 DEF Delete, IInv, TypeOK
  <2>2. CallShape'
    BY <1>13 DEF Delete, IInv, TypeOK, CallShape, ExitedIsOver, Truth
  <2>3. ExitedIsOver'
    BY <1>13 DEF Delete, IInv, TypeOK, CallShape, ExitedIsOver
  <2>4. Truth'
    BY <1>13 DEF Delete, IInv, TypeOK, CallShape, ExitedIsOver, Truth, Agrees
  <2> QED
    BY <2>1, <2>2, <2>3, <2>4 DEF IInv
<1> QED
  BY <1>1, <1>2, <1>3, <1>4, <1>5, <1>6, <1>7, <1>8, <1>9, <1>10, <1>11, <1>12, <1>13 DEF Continue

\* The thread goes on by itself.
LEMMA ProceedKeeps == IInv /\ Proceed => IInv'
<1> USE DEF Runs, Calling, Assigning, Over, Steps, Stages, Reasons, object_vars, kernel_vars, call_vars
<1> SUFFICES ASSUME IInv, Proceed PROVE IInv'
  OBVIOUS
<1>1. CASE Begin
  <2>1. TypeOK'
    BY <1>1 DEF Begin, IInv, TypeOK
  <2>2. CallShape'
    BY <1>1 DEF Begin, IInv, TypeOK, CallShape, ExitedIsOver, Truth
  <2>3. ExitedIsOver'
    BY <1>1 DEF Begin, IInv, TypeOK, CallShape, ExitedIsOver
  <2>4. Truth'
    BY <1>1 DEF Begin, IInv, TypeOK, CallShape, ExitedIsOver, Truth, Agrees
  <2> QED
    BY <2>1, <2>2, <2>3, <2>4 DEF IInv
<1>2. CASE SuspendItself
  <2>1. TypeOK'
    BY <1>2 DEF SuspendItself, IInv, TypeOK
  <2>2. CallShape'
    BY <1>2 DEF SuspendItself, IInv, TypeOK, CallShape, ExitedIsOver, Truth
  <2>3. ExitedIsOver'
    BY <1>2 DEF SuspendItself, IInv, TypeOK, CallShape, ExitedIsOver
  <2>4. Truth'
    BY <1>2 DEF SuspendItself, IInv, TypeOK, CallShape, ExitedIsOver, Truth, Agrees
  <2> QED
    BY <2>1, <2>2, <2>3, <2>4 DEF IInv
<1>3. CASE SuspendedItself
  <2>1. TypeOK'
    BY <1>3 DEF SuspendedItself, IInv, TypeOK
  <2>2. CallShape'
    BY <1>3 DEF SuspendedItself, IInv, TypeOK, CallShape, ExitedIsOver, Truth
  <2>3. ExitedIsOver'
    BY <1>3 DEF SuspendedItself, IInv, TypeOK, CallShape, ExitedIsOver
  <2>4. Truth'
    BY <1>3 DEF SuspendedItself, IInv, TypeOK, CallShape, ExitedIsOver, Truth, Agrees
  <2> QED
    BY <2>1, <2>2, <2>3, <2>4 DEF IInv
<1>4. CASE Complete
  <2>1. TypeOK'
    BY <1>4 DEF Complete, IInv, TypeOK
  <2>2. CallShape'
    BY <1>4 DEF Complete, IInv, TypeOK, CallShape, ExitedIsOver, Truth
  <2>3. ExitedIsOver'
    BY <1>4 DEF Complete, IInv, TypeOK, CallShape, ExitedIsOver
  <2>4. Truth'
    BY <1>4 DEF Complete, IInv, TypeOK, CallShape, ExitedIsOver, Truth, Agrees
  <2> QED
    BY <2>1, <2>2, <2>3, <2>4 DEF IInv
<1> QED
  BY <1>1, <1>2, <1>3, <1>4 DEF Proceed

\* The thread does what run() may do.
LEMMA MayDoKeeps == IInv /\ MayDo => IInv'
<1> USE DEF Runs, Calling, Assigning, Over, Steps, Stages, Reasons, object_vars, kernel_vars, call_vars
<1> SUFFICES ASSUME IInv, MayDo PROVE IInv'
  OBVIOUS
<1>1. CASE Sleep
  <2>1. TypeOK'
    BY <1>1 DEF Sleep, IInv, TypeOK
  <2>2. CallShape'
    BY <1>1 DEF Sleep, IInv, TypeOK, CallShape, ExitedIsOver, Truth
  <2>3. ExitedIsOver'
    BY <1>1 DEF Sleep, IInv, TypeOK, CallShape, ExitedIsOver
  <2>4. Truth'
    BY <1>1 DEF Sleep, IInv, TypeOK, CallShape, ExitedIsOver, Truth, Agrees
  <2> QED
    BY <2>1, <2>2, <2>3, <2>4 DEF IInv
<1>2. CASE AskItself
  <2>1. TypeOK'
    BY <1>2 DEF AskItself, IInv, TypeOK
  <2>2. CallShape'
    BY <1>2 DEF AskItself, IInv, TypeOK, CallShape, ExitedIsOver, Truth
  <2>3. ExitedIsOver'
    BY <1>2 DEF AskItself, IInv, TypeOK, CallShape, ExitedIsOver
  <2>4. Truth'
    BY <1>2 DEF AskItself, IInv, TypeOK, CallShape, ExitedIsOver, Truth, Agrees
  <2> QED
    BY <2>1, <2>2, <2>3, <2>4 DEF IInv
<1>3. CASE EndItself
  <2>1. TypeOK'
    BY <1>3 DEF EndItself, IInv, TypeOK
  <2>2. CallShape'
    BY <1>3 DEF EndItself, IInv, TypeOK, CallShape, ExitedIsOver, Truth
  <2>3. ExitedIsOver'
    BY <1>3 DEF EndItself, IInv, TypeOK, CallShape, ExitedIsOver
  <2>4. Truth'
    BY <1>3 DEF EndItself, IInv, TypeOK, CallShape, ExitedIsOver, Truth, Agrees
  <2> QED
    BY <2>1, <2>2, <2>3, <2>4 DEF IInv
<1>4. CASE Exit
  <2>1. TypeOK'
    BY <1>4 DEF Exit, IInv, TypeOK
  <2>2. CallShape'
    BY <1>4 DEF Exit, IInv, TypeOK, CallShape, ExitedIsOver, Truth
  <2>3. ExitedIsOver'
    BY <1>4 DEF Exit, IInv, TypeOK, CallShape, ExitedIsOver
  <2>4. Truth'
    BY <1>4 DEF Exit, IInv, TypeOK, CallShape, ExitedIsOver, Truth, Agrees
  <2> QED
    BY <2>1, <2>2, <2>3, <2>4 DEF IInv
<1> QED
  BY <1>1, <1>2, <1>3, <1>4 DEF MayDo

\* A wait ends.
LEMMA WakeKeeps == IInv /\ Wake => IInv'
<1> USE DEF Calling, Assigning, Over, Steps, Stages, Reasons, object_vars, kernel_vars, call_vars
<1> SUFFICES ASSUME IInv, Wake PROVE IInv'
  OBVIOUS
<1>1. TypeOK'
  <2>1. state' \in {"suspended", "ready"} /\ delayed' \in BOOLEAN
    BY DEF Wake
  <2>2. /\ m_status' = m_status /\ at' = at /\ destroyed' = destroyed /\ strayed' = strayed
        /\ stage' = stage /\ doing' = doing /\ then' = then
        /\ called' = called /\ result' = result /\ calls' = calls
    BY DEF Wake
  <2> QED
    BY <2>1, <2>2 DEF IInv, TypeOK
<1>2. CallShape'
  BY DEF Wake, IInv, TypeOK, CallShape, ExitedIsOver, Truth
<1>3. ExitedIsOver'
  BY DEF Wake, IInv, TypeOK, CallShape, ExitedIsOver, Truth, Agrees
<1>4. Truth'
  BY DEF Wake, IInv, TypeOK, CallShape, ExitedIsOver, Truth, Agrees
<1> QED
  BY <1>1, <1>2, <1>3, <1>4 DEF IInv

\* Nothing happens.
LEMMA StutterKeeps == IInv /\ UNCHANGED vars => IInv'
BY DEF vars, object_vars, kernel_vars, call_vars, Calling, Assigning,
   IInv, TypeOK, CallShape, ExitedIsOver, Truth, Agrees

THEOREM Inductive == Spec => []IInv
<1>1. IInv /\ [Next]_vars => IInv'
  BY CallsKeep, ContinueKeeps, ProceedKeeps, MayDoKeeps, WakeKeeps, StutterKeeps DEF Next
<1> QED
  BY InitHolds, <1>1, PTL DEF Spec

\* The variables keep their types (thread.hpp, all of its operations).
THEOREM TypeCorrect == Spec => []TypeOK
<1>1. IInv => TypeOK
  BY DEF IInv
<1> QED
  BY Inductive, <1>1, PTL

\* run() is over when m_status says EXITED, and when the object is destroyed,
\* after any sequence of calls (stop, thread_entry, ~Thread_Crtp_Base).
THEOREM ExitedThreadIsOver == Spec => []ExitedIsOver
<1>1. IInv => ExitedIsOver
  BY DEF IInv
<1> QED
  BY Inductive, <1>1, PTL

\* m_status can only become untrue in the five ways StatusIsTrue names, after any
\* sequence of calls (suspend, resume, stop, reset, thread_entry).
THEOREM StatusTellsTruth == Spec => []StatusIsTrue
<1>1. IInv => StatusIsTrue
  BY DEF IInv, TypeOK, Truth, StatusIsTrue
<1> QED
  BY Inductive, <1>1, PTL
===============================================================================
