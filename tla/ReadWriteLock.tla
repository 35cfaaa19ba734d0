---------------------------- MODULE ReadWriteLock ----------------------------
(***************************************************************************)
(* Read_Write_Lock (src/api/system/kernel/read_write_lock.hpp): the writer *)
(* preferring lock built from two ThreadX semaphores and two mutexes, with *)
(* every semaphore operation, mutex section and time-out a step of its     *)
(* own.  A thread runs lock_read .. unlock_read and lock_write ..          *)
(* unlock_write any number of times; pc[t] is where it is in the source.   *)
(*                                                                         *)
(* CheckStatus says how the lock is used: TRUE when the caller tests the   *)
(* Status of lock_read and lock_write; FALSE for Read_Guard and            *)
(* Write_Guard, which ignore it and unlock in their destructor whatever    *)
(* happened.                                                               *)
(***************************************************************************)
EXTENDS Naturals, FiniteSets, SequencesExt

CONSTANTS Threads,      \* the threads that use the lock
          NoThread,     \* the owner of a free mutex
          CheckStatus,  \* do callers test the returned Status?
          Timeouts,     \* the kinds of timeout argument: "finite", "forever"
          Modulus       \* the counters are unsigned, modulo this (2^32)

ASSUME ThreadsAssumption ==
  /\ IsFiniteSet(Threads)
  /\ NoThread \notin Threads
ASSUME CheckStatusAssumption == CheckStatus \in BOOLEAN
ASSUME TimeoutsAssumption == Timeouts \subseteq {"finite", "forever"}
\* No more threads than a uint32_t counts.
ASSUME ModulusAssumption == Modulus \in Nat /\ Cardinality(Threads) < Modulus

VARIABLES
  permits,      \* permits[s]: tx_semaphore_count of semaphore s
  suspended,    \* suspended[s]: its suspension list, first come first served
  read_mtx,     \* owner of m_read_count_mtx
  write_mtx,    \* owner of m_write_count_mtx
  read_count,   \* m_read_count
  write_count,  \* m_write_count
  pc,           \* pc[t]: where thread t is
  timeout,      \* timeout[t]: the argument of t's present call
  timed_out     \* the threads whose present call has failed

vars == <<permits, suspended, read_mtx, write_mtx, read_count, write_count,
          pc, timeout, timed_out>>

Semaphores == {"read_try", "resource"}

Labels ==
  {"Idle",
   "R_Try", "R_Count", "R_Resource", "R_Undo", "R_Unlock", "R_ReleaseTry",
   "Reading", "R_Failed", "U_Count", "U_Resource", "U_Unlock",
   "W_Count", "W_Try", "W_Undo", "W_Unlock", "W_Resource",
   "Writing", "W_Failed", "W_Release", "W_Leave", "W_LeaveTry", "W_LeaveUnlock"}

-------------------------------------------------------------------------------
(* The four calls of Semaphore::acquire: which semaphore, and where the     *)
(* caller goes on when it gets the permit and when its timeout expires.     *)

AcquireLabels == {"R_Try", "R_Resource", "W_Try", "W_Resource"}

SemaphoreAt(l) == IF l \in {"R_Try", "W_Try"} THEN "read_try" ELSE "resource"

Granted(l) ==
  CASE l = "R_Try"      -> "R_Count"
    [] l = "R_Resource" -> "R_Unlock"
    [] l = "W_Try"      -> "W_Unlock"
    [] l = "W_Resource" -> "Writing"

Expired(l) ==
  CASE l = "R_Try"      -> "R_Failed"
    [] l = "R_Resource" -> "R_Undo"
    [] l = "W_Try"      -> "W_Undo"
    [] l = "W_Resource" -> "W_Leave"

IsSuspended(t) == \E s \in Semaphores : t \in ToSet(suspended[s])

Position(q, t) == CHOOSE i \in 1 .. Len(q) : q[i] = t

Increment(n) == IF n + 1 = Modulus THEN 0 ELSE n + 1
Decrement(n) == IF n = 0 THEN Modulus - 1 ELSE n - 1

\* Mutant: a permit is taken when there is none.
AcquireTooMany(t) ==
  LET s == SemaphoreAt(pc[t]) IN
  /\ pc[t] \in AcquireLabels
  /\ permits' = [permits EXCEPT ![s] = @ - 1]
  /\ pc' = [pc EXCEPT ![t] = Granted(pc[t])]
  /\ UNCHANGED <<suspended, read_mtx, write_mtx, read_count, write_count, timeout, timed_out>>

\* Semaphore::acquire by t: take a permit, or join the suspension list.
Acquire(t) ==
  LET s == SemaphoreAt(pc[t]) IN
  /\ pc[t] \in AcquireLabels
  /\ ~ IsSuspended(t)
  /\ IF permits[s] > 0
     THEN /\ permits' = [permits EXCEPT ![s] = @ - 1]
          /\ pc' = [pc EXCEPT ![t] = Granted(pc[t])]
          /\ UNCHANGED suspended
     ELSE /\ suspended' = [suspended EXCEPT ![s] = Append(@, t)]
          /\ UNCHANGED <<permits, pc>>
  /\ UNCHANGED <<read_mtx, write_mtx, read_count, write_count, timeout, timed_out>>

\* Mutant: lock_write does not pass its timeout on to the resource semaphore.
ExpireOnlyTry(t) ==
  LET s == SemaphoreAt(pc[t]) IN
  /\ pc[t] \in AcquireLabels \ {"W_Resource"}
  /\ t \in ToSet(suspended[s])
  /\ timeout[t] = "finite"
  /\ suspended' = [suspended EXCEPT ![s] = RemoveAt(@, Position(@, t))]
  /\ pc' = [pc EXCEPT ![t] = Expired(pc[t])]
  /\ timed_out' = timed_out \cup {t}
  /\ UNCHANGED <<permits, read_mtx, write_mtx, read_count, write_count, timeout>>

\* The timeout of a suspended thread runs out: acquire returns TIMEOUT.
Expire(t) ==
  LET s == SemaphoreAt(pc[t]) IN
  /\ pc[t] \in AcquireLabels
  /\ t \in ToSet(suspended[s])
  /\ timeout[t] = "finite"
  /\ suspended' = [suspended EXCEPT ![s] = RemoveAt(@, Position(@, t))]
  /\ pc' = [pc EXCEPT ![t] = Expired(pc[t])]
  /\ timed_out' = timed_out \cup {t}
  /\ UNCHANGED <<permits, read_mtx, write_mtx, read_count, write_count, timeout>>

\* Semaphore::release by t, which goes on at next: the first suspended thread,
\* if there is one, gets the permit and resumes; otherwise the count goes up.
Release(s, t, next) ==
  IF suspended[s] = <<>>
  THEN /\ permits' = [permits EXCEPT ![s] = @ + 1]
       /\ pc' = [pc EXCEPT ![t] = next]
       /\ UNCHANGED suspended
  ELSE LET h == Head(suspended[s]) IN
       /\ suspended' = [suspended EXCEPT ![s] = Tail(@)]
       /\ pc' = [pc EXCEPT ![t] = next, ![h] = Granted(pc[h])]
       /\ UNCHANGED permits

-------------------------------------------------------------------------------
(* lock_read *)

CallLockRead(t) ==
  /\ pc[t] = "Idle"
  /\ \E k \in Timeouts : timeout' = [timeout EXCEPT ![t] = k]
  /\ pc' = [pc EXCEPT ![t] = "R_Try"]
  /\ UNCHANGED <<permits, suspended, read_mtx, write_mtx, read_count, write_count, timed_out>>

\* Mutant: every reader acquires the resource, not only the first.
CountReaderEachForItself(t) ==
  /\ pc[t] = "R_Count"
  /\ read_mtx = NoThread
  /\ read_mtx' = t
  /\ read_count' = Increment(read_count)
  /\ pc' = [pc EXCEPT ![t] = "R_Resource"]
  /\ UNCHANGED <<permits, suspended, write_mtx, write_count, timeout, timed_out>>

\* Mutex_Guard on m_read_count_mtx, then ++m_read_count: only the first reader
\* goes on to the resource semaphore.
CountReader(t) ==
  /\ pc[t] = "R_Count"
  /\ read_mtx = NoThread
  /\ read_mtx' = t
  /\ read_count' = Increment(read_count)
  /\ pc' = [pc EXCEPT ![t] = IF read_count' = 1 THEN "R_Resource" ELSE "R_Unlock"]
  /\ UNCHANGED <<permits, suspended, write_mtx, write_count, timeout, timed_out>>

\* The guard of the block ends.
UnlockReadCount(t) ==
  /\ pc[t] = "R_Unlock"
  /\ read_mtx' = NoThread
  /\ pc' = [pc EXCEPT ![t] = "R_ReleaseTry"]
  /\ UNCHANGED <<permits, suspended, write_mtx, read_count, write_count, timeout, timed_out>>

ReleaseReadTry(t) ==
  /\ pc[t] = "R_ReleaseTry"
  /\ Release("read_try", t, "Reading")
  /\ UNCHANGED <<read_mtx, write_mtx, read_count, write_count, timeout, timed_out>>

\* Mutant: a first writer that fails leaves itself counted.
UndoWithoutCount(t) ==
  /\ pc[t] = "W_Undo"
  /\ write_mtx' = NoThread
  /\ pc' = [pc EXCEPT ![t] = "W_Failed"]
  /\ UNCHANGED <<permits, suspended, read_mtx, read_count, write_count, timeout, timed_out>>

\* The acquire of a first reader or first writer, made with the mutex locked,
\* failed.  A reader gives its count and the read_try permit back before its
\* guard ends; a writer gives its count back, and its guard ends.
Undo(t) ==
  /\ pc[t] \in {"R_Undo", "W_Undo"}
  /\ IF pc[t] = "R_Undo"
     THEN /\ read_count' = Decrement(read_count)
          /\ Release("read_try", t, "U_Unlock")
          /\ UNCHANGED <<write_count, write_mtx>>
     ELSE /\ write_count' = Decrement(write_count)
          /\ write_mtx' = NoThread
          /\ pc' = [pc EXCEPT ![t] = "W_Failed"]
          /\ UNCHANGED <<read_count, permits, suspended>>
  /\ UNCHANGED <<read_mtx, timeout, timed_out>>

-------------------------------------------------------------------------------
(* The critical sections and what ends them. *)

\* A guard whose lock call failed runs its critical section all the same.
InReading(t) == pc[t] = "Reading" \/ (~ CheckStatus /\ pc[t] = "R_Failed")
InWriting(t) == pc[t] = "Writing" \/ (~ CheckStatus /\ pc[t] = "W_Failed")

\* A caller that tests the status gives up after a failure.
GiveUp(t) ==
  /\ CheckStatus
  /\ pc[t] \in {"R_Failed", "W_Failed"}
  /\ pc' = [pc EXCEPT ![t] = "Idle"]
  /\ timed_out' = timed_out \ {t}
  /\ UNCHANGED <<permits, suspended, read_mtx, write_mtx, read_count, write_count, timeout>>

CallUnlock(t) ==
  /\ \/ InReading(t) /\ pc' = [pc EXCEPT ![t] = "U_Count"]
     \/ InWriting(t) /\ pc' = [pc EXCEPT ![t] = "W_Release"]
  /\ timed_out' = timed_out \ {t}
  /\ UNCHANGED <<permits, suspended, read_mtx, write_mtx, read_count, write_count, timeout>>

(* unlock_read *)

\* Mutant: the first reader out releases the resource, not the last.
UncountReaderTooSoon(t) ==
  /\ pc[t] = "U_Count"
  /\ read_mtx = NoThread
  /\ read_mtx' = t
  /\ read_count' = Decrement(read_count)
  /\ pc' = [pc EXCEPT ![t] = "U_Resource"]
  /\ UNCHANGED <<permits, suspended, write_mtx, write_count, timeout, timed_out>>

UncountReader(t) ==
  /\ pc[t] = "U_Count"
  /\ read_mtx = NoThread
  /\ read_mtx' = t
  /\ read_count' = Decrement(read_count)
  /\ pc' = [pc EXCEPT ![t] = IF read_count' = 0 THEN "U_Resource" ELSE "U_Unlock"]
  /\ UNCHANGED <<permits, suspended, write_mtx, write_count, timeout, timed_out>>

ReleaseResource(t) ==
  /\ \/ pc[t] = "U_Resource" /\ Release("resource", t, "U_Unlock")
     \/ pc[t] = "W_Release" /\ Release("resource", t, "W_Leave")
  /\ UNCHANGED <<read_mtx, write_mtx, read_count, write_count, timeout, timed_out>>

\* The guard of unlock_read ends, or that of lock_read after a failure.
UnlockReadMutex(t) ==
  /\ pc[t] = "U_Unlock"
  /\ read_mtx' = NoThread
  /\ pc' = [pc EXCEPT ![t] = IF t \in timed_out THEN "R_Failed" ELSE "Idle"]
  /\ UNCHANGED <<permits, suspended, write_mtx, read_count, write_count, timeout, timed_out>>

-------------------------------------------------------------------------------
(* lock_write and unlock_write *)

CallLockWrite(t) ==
  /\ pc[t] = "Idle"
  /\ \E k \in Timeouts : timeout' = [timeout EXCEPT ![t] = k]
  /\ pc' = [pc EXCEPT ![t] = "W_Count"]
  /\ UNCHANGED <<permits, suspended, read_mtx, write_mtx, read_count, write_count, timed_out>>

\* Mutant: the count is tested before it is incremented.
CountWriterPostIncrement(t) ==
  /\ pc[t] = "W_Count"
  /\ write_mtx = NoThread
  /\ write_mtx' = t
  /\ write_count' = Increment(write_count)
  /\ pc' = [pc EXCEPT ![t] = IF write_count = 1 THEN "W_Try" ELSE "W_Unlock"]
  /\ UNCHANGED <<permits, suspended, read_mtx, read_count, timeout, timed_out>>

\* Only the first writer goes on to read_try, still owning the mutex.
CountWriter(t) ==
  /\ pc[t] = "W_Count"
  /\ write_mtx = NoThread
  /\ write_mtx' = t
  /\ write_count' = Increment(write_count)
  /\ pc' = [pc EXCEPT ![t] = IF write_count' = 1 THEN "W_Try" ELSE "W_Unlock"]
  /\ UNCHANGED <<permits, suspended, read_mtx, read_count, timeout, timed_out>>

UnlockWriteCount(t) ==
  /\ pc[t] = "W_Unlock"
  /\ write_mtx' = NoThread
  /\ pc' = [pc EXCEPT ![t] = "W_Resource"]
  /\ UNCHANGED <<permits, suspended, read_mtx, read_count, write_count, timeout, timed_out>>

\* Mutants: every writer that leaves lets the readers in; a writer that timed out
\* does not, though it was the last.
UncountWriterAlwaysOpens(t) ==
  /\ pc[t] = "W_Leave"
  /\ write_mtx = NoThread
  /\ write_mtx' = t
  /\ write_count' = Decrement(write_count)
  /\ pc' = [pc EXCEPT ![t] = "W_LeaveTry"]
  /\ UNCHANGED <<permits, suspended, read_mtx, read_count, timeout, timed_out>>
UncountWriterKeepsShut(t) ==
  /\ pc[t] = "W_Leave"
  /\ write_mtx = NoThread
  /\ write_mtx' = t
  /\ write_count' = Decrement(write_count)
  /\ pc' = [pc EXCEPT ![t] =
               IF write_count' = 0 /\ t \notin timed_out THEN "W_LeaveTry" ELSE "W_LeaveUnlock"]
  /\ UNCHANGED <<permits, suspended, read_mtx, read_count, timeout, timed_out>>

\* The tail of unlock_write, and of lock_write when the resource is not had:
\* the last writer lets the readers in again.
UncountWriter(t) ==
  /\ pc[t] = "W_Leave"
  /\ write_mtx = NoThread
  /\ write_mtx' = t
  /\ write_count' = Decrement(write_count)
  /\ pc' = [pc EXCEPT ![t] = IF write_count' = 0 THEN "W_LeaveTry" ELSE "W_LeaveUnlock"]
  /\ UNCHANGED <<permits, suspended, read_mtx, read_count, timeout, timed_out>>

ReleaseTryOfWriters(t) ==
  /\ pc[t] = "W_LeaveTry"
  /\ Release("read_try", t, "W_LeaveUnlock")
  /\ UNCHANGED <<read_mtx, write_mtx, read_count, write_count, timeout, timed_out>>

UnlockWriteMutex(t) ==
  /\ pc[t] = "W_LeaveUnlock"
  /\ write_mtx' = NoThread
  /\ pc' = [pc EXCEPT ![t] = IF t \in timed_out THEN "W_Failed" ELSE "Idle"]
  /\ UNCHANGED <<permits, suspended, read_mtx, read_count, write_count, timeout, timed_out>>

-------------------------------------------------------------------------------
\* Both semaphores are created with one permit; nobody is in the lock.
Init ==
  /\ permits = [s \in Semaphores |-> 1]
  /\ suspended = [s \in Semaphores |-> <<>>]
  /\ read_mtx = NoThread
  /\ write_mtx = NoThread
  /\ read_count = 0
  /\ write_count = 0
  /\ pc = [t \in Threads |-> "Idle"]
  /\ timeout = [t \in Threads |-> "forever"]
  /\ timed_out = {}

Next ==
  \E t \in Threads :
    \/ CallLockRead(t) \/ CallLockWrite(t)
    \/ Acquire(t) \/ Expire(t) \/ Undo(t)
    \/ CountReader(t) \/ UnlockReadCount(t) \/ ReleaseReadTry(t)
    \/ CountWriter(t) \/ UnlockWriteCount(t)
    \/ GiveUp(t) \/ CallUnlock(t)
    \/ UncountReader(t) \/ ReleaseResource(t) \/ UnlockReadMutex(t)
    \/ UncountWriter(t) \/ ReleaseTryOfWriters(t) \/ UnlockWriteMutex(t)

Spec == Init /\ [][Next]_vars

-------------------------------------------------------------------------------
(* Fairness.  A thread inside the lock's code keeps running (weak fairness); *)
(* a mutex is handed over when it is unlocked, so that with threads of equal *)
(* priority nobody waits for it for ever (strong fairness of the three steps *)
(* that lock one); a finite timeout expires.  That callers unlock what they  *)
(* locked is a fairness of its own.                                          *)

RunsOn(t) ==
  \/ Acquire(t) \/ Undo(t) \/ UnlockReadCount(t) \/ ReleaseReadTry(t)
  \/ UnlockWriteCount(t) \/ ReleaseResource(t) \/ UnlockReadMutex(t)
  \/ ReleaseTryOfWriters(t) \/ UnlockWriteMutex(t)

LocksMutex(t) ==
  CountReader(t) \/ UncountReader(t) \/ CountWriter(t) \/ UncountWriter(t)

LockFairness ==
  \A t \in Threads :
    /\ WF_vars(RunsOn(t))
    /\ SF_vars(LocksMutex(t))
    /\ WF_vars(Expire(t))

CallersUnlock == \A t \in Threads : WF_vars(CallUnlock(t))

LockSpec == Spec /\ LockFairness

-------------------------------------------------------------------------------
(* Correctness *)

\* The values every variable keeps to (the fields of Read_Write_Lock and the
\* ThreadX objects in them).
TypeOK ==
  /\ permits \in [Semaphores -> Nat]
  /\ suspended \in [Semaphores -> Seq(Threads)]
  /\ read_mtx \in Threads \cup {NoThread}
  /\ write_mtx \in Threads \cup {NoThread}
  /\ read_count \in 0 .. Modulus - 1
  /\ write_count \in 0 .. Modulus - 1
  /\ pc \in [Threads -> Labels]
  /\ timeout \in [Threads -> {"finite", "forever"}]
  /\ timed_out \subseteq Threads

\* A thread inside its write section is the only one inside any section
\* (lock_write: "exclusive access"), whatever calls time out around it.
WriterIsAlone ==
  \A t \in Threads :
    InWriting(t) => \A u \in Threads \ {t} : ~ InWriting(u) /\ ~ InReading(u)

\* Who holds the one permit of each semaphore: a reader on its way through
\* lock_read, or the writers together, hold read_try; a writer, or the readers
\* together, hold the resource.
ReaderHoldsTry == {"R_Count", "R_Resource", "R_Undo", "R_Unlock", "R_ReleaseTry"}
WritersHoldTry == {"W_Unlock", "W_Resource", "Writing", "W_Release", "W_Leave", "W_LeaveTry"}
WriterHoldsResource == {"Writing", "W_Release"}
ReadersHoldResource == {"R_Unlock", "R_ReleaseTry", "Reading", "U_Count", "U_Resource"}

At(labels) == {t \in Threads : pc[t] \in labels}
OneIfAny(S) == IF S = {} THEN 0 ELSE 1

\* No path through lock_read, lock_write, a time-out or an unlock loses a permit
\* or makes a second one.
PermitsConserved ==
  /\ permits["read_try"] + Cardinality(At(ReaderHoldsTry)) + OneIfAny(At(WritersHoldTry)) = 1
  /\ permits["resource"] + Cardinality(At(WriterHoldsResource)) + OneIfAny(At(ReadersHoldResource)) = 1

\* The first reader always finds the resource free (lock_read, line 79): it
\* never blocks while it owns m_read_count_mtx, and its failure branch is dead.
ReaderFindsResource ==
  \A t \in Threads : pc[t] = "R_Resource" => permits["resource"] = 1

\* A thread that unlocks never waits for a mutex whose owner is suspended on a
\* semaphore: unlocking takes bounded time although lock_write blocks on
\* read_try with m_write_count_mtx locked (line 119).
UnlockIsPrompt ==
  \A o \in Threads : IsSuspended(o) =>
    /\ read_mtx = o  => At({"U_Count"}) = {}
    /\ write_mtx = o => At({"W_Leave"}) = {}

\* Read_Write_Lock implements its promise, writer preference included: while a
\* writer that passed read_try waits for the resource no reader is admitted.
Promise == INSTANCE ReadWriteExclusion WITH
  readers <- At({"R_Unlock", "R_ReleaseTry", "Reading"}),
  writers <- At({"Writing"}),
  waiting <- At({"W_Resource"})
KeepsPromise == Promise!Spec

\* A call with a finite timeout comes back, with or without the lock, even if
\* those who hold the lock never release it (the timeout of lock_read and
\* lock_write also has to bound the wait for their mutexes).
TimedCallReturns ==
  \A t \in Threads :
    (pc[t] \in {"R_Try", "W_Count"} /\ timeout[t] = "finite")
      ~> (pc[t] \in {"Reading", "Writing", "R_Failed", "W_Failed"})

\* When callers unlock, every call of lock_write comes to an end: readers and
\* other writers cannot keep a writer out for ever.
WriterIsServed ==
  CallersUnlock => \A t \in Threads : pc[t] = "W_Count" ~> pc[t] \in {"Writing", "W_Failed"}

\* When callers unlock, a reader gets in unless writers keep coming.
ReaderIsServed ==
  CallersUnlock => \A t \in Threads :
    pc[t] = "R_Try" ~> (pc[t] \in {"Reading", "R_Failed"} \/ At({"W_Count"}) # {})
===============================================================================
