------------------------- MODULE ReadWriteLockProofs -------------------------
(***************************************************************************)
(* Theorems about ReadWriteLock for any finite set of threads, any mix of  *)
(* timeouts and any counter width: its types, and mutual exclusion through *)
(* an inductive invariant.  The invariant says who is on each suspension   *)
(* list, who owns each mutex, what the two counters count, and where the   *)
(* one permit of each semaphore is.                                        *)
(* The last section shows that the lock implements ReadWriteExclusion.     *)
(***************************************************************************)
EXTENDS ReadWriteLock, FiniteSetTheorems, SequenceTheorems, TLAPS

\* The callers either test the status of their calls, or wait for ever (the
\* default argument of Read_Guard and Write_Guard).
StatusRespected == CheckStatus \/ "finite" \notin Timeouts

-------------------------------------------------------------------------------
(* The inductive invariant *)

\* A suspended thread is at an acquire of that semaphore, it is listed once,
\* and nobody is suspended while a permit is left.
QueueInv ==
  /\ \A s \in Semaphores : \A i \in 1 .. Len(suspended[s]) :
        /\ pc[suspended[s][i]] \in AcquireLabels
        /\ SemaphoreAt(pc[suspended[s][i]]) = s
  /\ \A s \in Semaphores : \A i, j \in 1 .. Len(suspended[s]) :
        suspended[s][i] = suspended[s][j] => i = j
  /\ \A s \in Semaphores : suspended[s] # <<>> => permits[s] = 0

\* The labels at which a thread owns each mutex.
ReadMutexLabels == {"R_Resource", "R_Undo", "R_Unlock", "U_Resource", "U_Unlock"}
WriteMutexLabels == {"W_Try", "W_Undo", "W_Unlock", "W_LeaveTry", "W_LeaveUnlock"}

MutexInv ==
  /\ \A t \in Threads : pc[t] \in ReadMutexLabels <=> read_mtx = t
  /\ \A t \in Threads : pc[t] \in WriteMutexLabels <=> write_mtx = t

\* The threads each counter counts; the first reader and the first writer are
\* alone until they have their semaphore, the last ones until they release it.
CountedReaders == {"R_Resource", "R_Undo", "R_Unlock", "R_ReleaseTry", "Reading", "U_Count"}
CountedWriters == {"W_Try", "W_Undo", "W_Unlock", "W_Resource", "Writing", "W_Release", "W_Leave"}

CountInv ==
  /\ read_count = Cardinality(At(CountedReaders))
  /\ write_count = Cardinality(At(CountedWriters))
  /\ \A t, u \in Threads :
        /\ pc[t] \in {"R_Resource", "R_Undo"} /\ pc[u] \in CountedReaders => t = u
        /\ pc[t] \in {"W_Try", "W_Undo"} /\ pc[u] \in CountedWriters => t = u
        /\ pc[t] = "U_Resource" => pc[u] \notin CountedReaders
        /\ pc[t] = "W_LeaveTry" => pc[u] \notin CountedWriters

\* The permit of a semaphore is with one thread of the exclusive kind, or with
\* the group of the shared kind, or in the semaphore.
OnePermit(s, Exclusive, Shared) ==
  /\ permits[s] \in {0, 1}
  /\ permits[s] = 1 <=> \A t \in Threads : pc[t] \notin Exclusive \cup Shared
  /\ \A t, u \in Threads : pc[t] \in Exclusive /\ pc[u] \in Exclusive => t = u
  /\ \A t, u \in Threads : pc[t] \in Exclusive => pc[u] \notin Shared

PermitInv ==
  /\ OnePermit("read_try", ReaderHoldsTry, WritersHoldTry)
  /\ OnePermit("resource", WriterHoldsResource, ReadersHoldResource)

\* Where every call waits for ever no call fails.
TimeoutInv ==
  "finite" \notin Timeouts =>
    /\ timed_out = {}
    /\ \A t \in Threads :
         /\ timeout[t] = "forever"
         /\ pc[t] \notin {"R_Failed", "W_Failed", "R_Undo", "W_Undo"}

IInv == TypeOK /\ QueueInv /\ MutexInv /\ CountInv /\ PermitInv /\ TimeoutInv

-------------------------------------------------------------------------------
(* Suspension lists *)

\* A list with its i-th entry removed keeps the other entries, in their order.
LEMMA RemoveAtFacts ==
  ASSUME NEW S, NEW q \in Seq(S), NEW i \in 1 .. Len(q)
  PROVE  /\ RemoveAt(q, i) \in Seq(S)
         /\ Len(RemoveAt(q, i)) = Len(q) - 1
         /\ \A j \in 1 .. Len(q) - 1 :
               RemoveAt(q, i)[j] = IF j < i THEN q[j] ELSE q[j + 1]
<1> DEFINE a == SubSeq(q, 1, i - 1)
           b == SubSeq(q, i + 1, Len(q))
<1>1. a \in Seq(S) /\ Len(a) = i - 1 /\ \A j \in 1 .. i - 1 : a[j] = q[j]
  OBVIOUS
<1>2. b \in Seq(S) /\ Len(b) = Len(q) - i /\ \A j \in 1 .. Len(q) - i : b[j] = q[i + j]
  OBVIOUS
<1>3. RemoveAt(q, i) = a \o b
  BY DEF RemoveAt
<1> HIDE DEF a, b
<1>4. /\ a \o b \in Seq(S)
      /\ Len(a \o b) = Len(a) + Len(b)
      /\ \A j \in 1 .. Len(a) + Len(b) : (a \o b)[j] = IF j <= Len(a) THEN a[j] ELSE b[j - Len(a)]
  <2>1. a \in Seq(S) /\ b \in Seq(S)
    BY <1>1, <1>2
  <2> QED
    BY <2>1, ConcatProperties
<1>5. Len(a) = i - 1 /\ Len(b) = Len(q) - i
  BY <1>1, <1>2
<1>6. ASSUME NEW j \in 1 .. Len(q) - 1
      PROVE  (a \o b)[j] = IF j < i THEN q[j] ELSE q[j + 1]
  <2>1. (a \o b)[j] = IF j <= i - 1 THEN a[j] ELSE b[j - (i - 1)]
    BY <1>4, <1>5
  <2>2. CASE j < i
    BY <1>1, <2>1, <2>2
  <2>3. CASE ~ (j < i)
    <3>1. j - (i - 1) \in 1 .. Len(q) - i
      BY <2>3
    <3>2. b[j - (i - 1)] = q[i + (j - (i - 1))]
      BY <1>2, <3>1
    <3>3. i + (j - (i - 1)) = j + 1
      OBVIOUS
    <3>4. (a \o b)[j] = b[j - (i - 1)]
      BY <2>1, <2>3
    <3> QED
      BY <2>3, <3>2, <3>3, <3>4
  <2> QED
    BY <2>2, <2>3
<1> QED
  BY <1>3, <1>4, <1>5, <1>6

\* A thread on a list is at its Position there.
LEMMA PositionFacts ==
  ASSUME NEW q \in Seq(Threads), NEW t \in ToSet(q)
  PROVE  Position(q, t) \in 1 .. Len(q) /\ q[Position(q, t)] = t
<1>1. \E i \in 1 .. Len(q) : q[i] = t
  BY DEF ToSet
<1> QED
  BY <1>1 DEF Position

-------------------------------------------------------------------------------
(* Types *)

LEMMA CounterTypes ==
  ASSUME NEW n \in 0 .. Modulus - 1
  PROVE  Increment(n) \in 0 .. Modulus - 1 /\ Decrement(n) \in 0 .. Modulus - 1
  BY ModulusAssumption DEF Increment, Decrement

LEMMA LabelTypes ==
  ASSUME NEW l \in AcquireLabels
  PROVE  /\ SemaphoreAt(l) \in Semaphores
         /\ Granted(l) \in {"R_Count", "R_Unlock", "W_Unlock", "Writing"}
         /\ Expired(l) \in {"R_Failed", "R_Undo", "W_Undo", "W_Leave"}
  BY DEF AcquireLabels, SemaphoreAt, Granted, Expired, Semaphores

\* What a release does to the three variables it may change.
LEMMA ReleaseTypes ==
  ASSUME TypeOK, QueueInv, NEW s \in Semaphores, NEW t \in Threads, NEW next \in Labels,
         Release(s, t, next)
  PROVE  /\ permits' \in [Semaphores -> Nat]
         /\ suspended' \in [Semaphores -> Seq(Threads)]
         /\ pc' \in [Threads -> Labels]
<1>1. CASE suspended[s] = <<>>
  <2>1. /\ permits' = [permits EXCEPT ![s] = @ + 1]
        /\ pc' = [pc EXCEPT ![t] = next]
        /\ suspended' = suspended
    BY <1>1 DEF Release
  <2> QED
    BY <2>1 DEF TypeOK
<1>2. CASE suspended[s] # <<>>
  <2> DEFINE h == Head(suspended[s])
  <2>1. h \in Threads /\ h = suspended[s][1] /\ 1 \in 1 .. Len(suspended[s])
    BY <1>2 DEF TypeOK
  <2>2. pc[h] \in AcquireLabels
    BY <2>1 DEF QueueInv
  <2>3. Granted(pc[h]) \in Labels
    BY <2>2, LabelTypes DEF Labels
  <2>4. Tail(suspended[s]) \in Seq(Threads)
    BY <1>2 DEF TypeOK
  <2> HIDE DEF h
  <2>5. /\ suspended' = [suspended EXCEPT ![s] = Tail(@)]
        /\ pc' = [pc EXCEPT ![t] = next, ![h] = Granted(pc[h])]
        /\ permits' = permits
    BY <1>2 DEF Release, h
  <2> QED
    BY <2>1, <2>3, <2>4, <2>5 DEF TypeOK
<1> QED
  BY <1>1, <1>2

-------------------------------------------------------------------------------
(* The effect of the three steps that touch a suspension list *)

\* Where a thread that waits at an acquire of semaphore s goes when it gets the
\* permit.
GoesOn(s, from, to) ==
  IF s = "read_try"
  THEN \/ from = "R_Try" /\ to = "R_Count"
       \/ from = "W_Try" /\ to = "W_Unlock"
  ELSE \/ from = "R_Resource" /\ to = "R_Unlock"
       \/ from = "W_Resource" /\ to = "Writing"

LEMMA GrantedGoesOn ==
  ASSUME NEW l \in AcquireLabels
  PROVE  GoesOn(SemaphoreAt(l), l, Granted(l))
  BY DEF AcquireLabels, SemaphoreAt, Granted, GoesOn

\* A release puts the permit back, or hands it to one other thread, which was
\* waiting for this very semaphore.
LEMMA ReleaseEffect ==
  ASSUME TypeOK, QueueInv, NEW s \in Semaphores, NEW t \in Threads, NEW next,
         pc[t] \notin AcquireLabels, Release(s, t, next)
  PROVE  \/ /\ permits' = [permits EXCEPT ![s] = @ + 1]
            /\ pc' = [pc EXCEPT ![t] = next]
         \/ /\ permits' = permits
            /\ permits[s] = 0
            /\ \E h \in Threads \ {t}, g \in Labels :
                 GoesOn(s, pc[h], g) /\ pc' = [pc EXCEPT ![t] = next, ![h] = g]
<1>1. CASE suspended[s] = <<>>
  BY <1>1 DEF Release
<1>2. CASE suspended[s] # <<>>
  <2> DEFINE h == Head(suspended[s])
  <2>1. h \in Threads /\ h = suspended[s][1] /\ 1 \in 1 .. Len(suspended[s])
    BY <1>2 DEF TypeOK
  <2>2. pc[h] \in AcquireLabels /\ SemaphoreAt(pc[h]) = s
    BY <2>1 DEF QueueInv
  <2>3. GoesOn(s, pc[h], Granted(pc[h])) /\ Granted(pc[h]) \in Labels
    BY <2>2, GrantedGoesOn, LabelTypes DEF Labels
  <2>4. permits[s] = 0
    BY <1>2 DEF QueueInv
  <2> HIDE DEF h
  <2>5. /\ pc' = [pc EXCEPT ![t] = next, ![h] = Granted(pc[h])]
        /\ permits' = permits
    BY <1>2 DEF Release, h
  <2> QED
    BY <2>1, <2>2, <2>3, <2>4, <2>5
<1> QED
  BY <1>1, <1>2

LEMMA ReleaseQueue ==
  ASSUME TypeOK, QueueInv, NEW s \in Semaphores, NEW t \in Threads, NEW next \in Labels,
         pc[t] \notin AcquireLabels, Release(s, t, next)
  PROVE  QueueInv'
<1>0. ASSUME NEW r \in Semaphores, NEW i \in 1 .. Len(suspended[r])
      PROVE  /\ suspended[r][i] \in Threads
             /\ suspended[r][i] # t
             /\ pc[suspended[r][i]] \in AcquireLabels
             /\ SemaphoreAt(pc[suspended[r][i]]) = r
  BY DEF TypeOK, QueueInv
<1>1. CASE suspended[s] = <<>>
  <2>1. /\ permits' = [permits EXCEPT ![s] = @ + 1]
        /\ pc' = [pc EXCEPT ![t] = next]
        /\ suspended' = suspended
    BY <1>1 DEF Release
  <2>2. ASSUME NEW r \in Semaphores, NEW i \in 1 .. Len(suspended[r])
        PROVE  pc'[suspended[r][i]] = pc[suspended[r][i]]
    BY <1>0, <2>1 DEF TypeOK
  <2>3. ASSUME NEW r \in Semaphores, suspended[r] # <<>>
        PROVE  permits'[r] = 0
    BY <1>1, <2>1, <2>3 DEF TypeOK, QueueInv
  <2> QED
    BY <1>0, <2>1, <2>2, <2>3 DEF QueueInv
<1>2. CASE suspended[s] # <<>>
  <2> DEFINE h == Head(suspended[s])
  <2>1. h \in Threads /\ h = suspended[s][1] /\ 1 \in 1 .. Len(suspended[s])
    BY <1>2 DEF TypeOK
  <2> HIDE DEF h
  <2>2. /\ suspended' = [suspended EXCEPT ![s] = Tail(@)]
        /\ pc' = [pc EXCEPT ![t] = next, ![h] = Granted(pc[h])]
        /\ permits' = permits
    BY <1>2 DEF Release, h
  <2>3. /\ suspended'[s] = Tail(suspended[s])
        /\ Len(suspended'[s]) = Len(suspended[s]) - 1
        /\ \A i \in 1 .. Len(suspended[s]) - 1 : suspended'[s][i] = suspended[s][i + 1]
        /\ Len(suspended[s]) \in Nat
    BY <1>2, <2>2 DEF TypeOK
  <2>4. ASSUME NEW r \in Semaphores, r # s
        PROVE  suspended'[r] = suspended[r]
    BY <2>2, <2>4 DEF TypeOK
  <2>5. ASSUME NEW r \in Semaphores, NEW i \in 1 .. Len(suspended'[r])
        PROVE  \E k \in 1 .. Len(suspended[r]) :
                  /\ suspended'[r][i] = suspended[r][k]
                  /\ k = (IF r = s THEN i + 1 ELSE i)
    <3>1. CASE r = s
      <4>1. Len(suspended[s]) \in Nat /\ i \in 1 .. Len(suspended[s]) - 1
        BY <2>1, <2>3, <3>1
      <4>2. i + 1 \in 1 .. Len(suspended[s])
        BY <4>1
      <4>3. suspended'[s][i] = suspended[s][i + 1]
        BY <2>3, <4>1
      <4> QED
        BY <3>1, <4>2, <4>3
    <3>2. CASE r # s
      BY <2>4, <3>2
    <3> QED
      BY <3>1, <3>2
  <2>6. ASSUME NEW r \in Semaphores, NEW i \in 1 .. Len(suspended'[r])
        PROVE  suspended'[r][i] # h
    <3>1. PICK k \in 1 .. Len(suspended[r]) :
             suspended'[r][i] = suspended[r][k] /\ k = (IF r = s THEN i + 1 ELSE i)
      BY <2>5
    <3>2. CASE r = s
      <4>1. k # 1 /\ k \in 1 .. Len(suspended[s])
        BY <3>1, <3>2, <2>3
      <4>2. suspended[s][k] # suspended[s][1]
        BY <2>1, <4>1 DEF QueueInv
      <4> QED
        BY <2>1, <3>1, <3>2, <4>2
    <3>3. CASE r # s
      <4>1. SemaphoreAt(pc[suspended[r][k]]) = r /\ SemaphoreAt(pc[h]) = s
        BY <1>0, <2>1
      <4> QED
        BY <3>1, <3>3, <4>1
    <3> QED
      BY <3>2, <3>3
  <2>7. ASSUME NEW r \in Semaphores, NEW i \in 1 .. Len(suspended'[r])
        PROVE  /\ pc'[suspended'[r][i]] \in AcquireLabels
               /\ SemaphoreAt(pc'[suspended'[r][i]]) = r
    <3>1. PICK k \in 1 .. Len(suspended[r]) : suspended'[r][i] = suspended[r][k]
      BY <2>5
    <3>2. pc'[suspended[r][k]] = pc[suspended[r][k]]
      BY <1>0, <2>2, <2>6, <3>1 DEF TypeOK
    <3> QED
      BY <1>0, <3>1, <3>2
  <2>8. ASSUME NEW r \in Semaphores,
               NEW i \in 1 .. Len(suspended'[r]), NEW j \in 1 .. Len(suspended'[r]),
               suspended'[r][i] = suspended'[r][j]
        PROVE  i = j
    <3>1. PICK k \in 1 .. Len(suspended[r]) :
             suspended'[r][i] = suspended[r][k] /\ k = (IF r = s THEN i + 1 ELSE i)
      BY <2>5
    <3>2. PICK l \in 1 .. Len(suspended[r]) :
             suspended'[r][j] = suspended[r][l] /\ l = (IF r = s THEN j + 1 ELSE j)
      BY <2>5
    <3>3. k = l
      BY <2>8, <3>1, <3>2 DEF QueueInv
    <3>4. i \in Int /\ j \in Int
      OBVIOUS
    <3> QED
      BY <3>1, <3>2, <3>3, <3>4
  <2>9. ASSUME NEW r \in Semaphores, suspended'[r] # <<>>
        PROVE  permits'[r] = 0
    BY <1>2, <2>2, <2>4, <2>9 DEF QueueInv
  <2> QED
    BY <2>7, <2>8, <2>9 DEF QueueInv
<1> QED
  BY <1>1, <1>2

\* A thread joins a suspension list only when no permit is left.
LEMMA AcquireEffect ==
  ASSUME TypeOK, NEW t \in Threads, Acquire(t)
  PROVE  LET s == SemaphoreAt(pc[t]) IN
         /\ s \in Semaphores
         /\ \/ UNCHANGED <<permits, pc>>
            \/ /\ permits[s] > 0
               /\ permits' = [permits EXCEPT ![s] = @ - 1]
               /\ \E g \in Labels : GoesOn(s, pc[t], g) /\ pc' = [pc EXCEPT ![t] = g]
<1>1. pc[t] \in AcquireLabels
  BY DEF Acquire
<1>2. SemaphoreAt(pc[t]) \in Semaphores /\ Granted(pc[t]) \in Labels
  BY <1>1, LabelTypes DEF Labels
<1>3. GoesOn(SemaphoreAt(pc[t]), pc[t], Granted(pc[t]))
  BY <1>1, GrantedGoesOn
<1> QED
  BY <1>1, <1>2, <1>3 DEF Acquire

LEMMA AcquireQueue ==
  ASSUME TypeOK, QueueInv, NEW t \in Threads, Acquire(t)
  PROVE  QueueInv'
<1> DEFINE s == SemaphoreAt(pc[t])
<1>1. pc[t] \in AcquireLabels /\ s \in Semaphores
  BY LabelTypes DEF Acquire
<1>2. ASSUME NEW r \in Semaphores, NEW i \in 1 .. Len(suspended[r])
      PROVE  suspended[r][i] \in Threads /\ suspended[r][i] # t
  BY <1>2 DEF Acquire, IsSuspended, ToSet, TypeOK
<1> HIDE DEF s
<1>3. CASE permits[s] > 0
  <2>1. /\ permits' = [permits EXCEPT ![s] = @ - 1]
        /\ pc' = [pc EXCEPT ![t] = Granted(pc[t])]
        /\ suspended' = suspended
    BY <1>3 DEF Acquire, s
  <2>2. ASSUME NEW r \in Semaphores, NEW i \in 1 .. Len(suspended[r])
        PROVE  pc'[suspended[r][i]] = pc[suspended[r][i]]
    BY <1>2, <2>1 DEF TypeOK
  <2>3. ASSUME NEW r \in Semaphores, suspended[r] # <<>>
        PROVE  permits'[r] = 0
    BY <1>1, <1>3, <2>1, <2>3 DEF TypeOK, QueueInv
  <2> QED
    BY <2>1, <2>2, <2>3 DEF QueueInv
<1>4. CASE ~ (permits[s] > 0)
  <2>1. /\ suspended' = [suspended EXCEPT ![s] = Append(@, t)]
        /\ pc' = pc /\ permits' = permits
    BY <1>4 DEF Acquire, s
  <2>2. permits[s] = 0
    BY <1>1, <1>4 DEF TypeOK
  <2>3. /\ suspended'[s] = Append(suspended[s], t)
        /\ Len(suspended'[s]) = Len(suspended[s]) + 1
        /\ \A i \in 1 .. Len(suspended[s]) : suspended'[s][i] = suspended[s][i]
        /\ suspended'[s][Len(suspended[s]) + 1] = t
        /\ Len(suspended[s]) \in Nat
    BY <1>1, <2>1 DEF TypeOK
  <2>4. ASSUME NEW r \in Semaphores, r # s
        PROVE  suspended'[r] = suspended[r]
    BY <2>1, <2>4 DEF TypeOK
  <2>5. ASSUME NEW r \in Semaphores, NEW i \in 1 .. Len(suspended'[r])
        PROVE  \/ i \in 1 .. Len(suspended[r]) /\ suspended'[r][i] = suspended[r][i]
               \/ r = s /\ i = Len(suspended[s]) + 1 /\ suspended'[r][i] = t
    <3>1. CASE r = s
      <4>1. i \in 1 .. Len(suspended[s]) \/ i = Len(suspended[s]) + 1
        BY <2>3, <3>1
      <4> QED
        BY <2>3, <3>1, <4>1
    <3>2. CASE r # s
      BY <2>4, <3>2
    <3> QED
      BY <3>1, <3>2
  <2>6. ASSUME NEW r \in Semaphores, NEW i \in 1 .. Len(suspended'[r])
        PROVE  /\ pc'[suspended'[r][i]] \in AcquireLabels
               /\ SemaphoreAt(pc'[suspended'[r][i]]) = r
    BY <1>1, <2>1, <2>5 DEF QueueInv, s
  <2>7. ASSUME NEW r \in Semaphores,
               NEW i \in 1 .. Len(suspended'[r]), NEW j \in 1 .. Len(suspended'[r]),
               suspended'[r][i] = suspended'[r][j]
        PROVE  i = j
    BY SMTT(30), <1>2, <2>5, <2>7 DEF QueueInv
  <2>8. ASSUME NEW r \in Semaphores, suspended'[r] # <<>>
        PROVE  permits'[r] = 0
    BY <2>1, <2>2, <2>4, <2>8 DEF QueueInv
  <2> QED
    BY <2>6, <2>7, <2>8 DEF QueueInv
<1> QED
  BY <1>3, <1>4

LEMMA ExpireQueue ==
  ASSUME TypeOK, QueueInv, NEW t \in Threads, Expire(t)
  PROVE  /\ QueueInv'
         /\ suspended' \in [Semaphores -> Seq(Threads)]
<1> DEFINE s == SemaphoreAt(pc[t])
           p == Position(suspended[s], t)
<1>1. pc[t] \in AcquireLabels /\ s \in Semaphores
  BY LabelTypes DEF Expire
<1>2. p \in 1 .. Len(suspended[s]) /\ suspended[s][p] = t
  <2>1. suspended[s] \in Seq(Threads) /\ t \in ToSet(suspended[s])
    BY <1>1 DEF Expire, TypeOK
  <2> QED
    BY <2>1, PositionFacts
<1>3. /\ suspended' = [suspended EXCEPT ![s] = RemoveAt(@, p)]
      /\ pc' = [pc EXCEPT ![t] = Expired(pc[t])]
      /\ permits' = permits
  BY DEF Expire
<1> HIDE DEF s, p
<1>4. /\ suspended'[s] \in Seq(Threads)
      /\ Len(suspended'[s]) = Len(suspended[s]) - 1
      /\ \A j \in 1 .. Len(suspended[s]) - 1 :
            suspended'[s][j] = IF j < p THEN suspended[s][j] ELSE suspended[s][j + 1]
  <2>1. suspended[s] \in Seq(Threads)
    BY <1>1 DEF TypeOK
  <2>2. suspended'[s] = RemoveAt(suspended[s], p)
    BY <1>1, <1>3 DEF TypeOK
  <2> QED
    BY <1>2, <2>1, <2>2, RemoveAtFacts
<1>5. ASSUME NEW r \in Semaphores, r # s
      PROVE  suspended'[r] = suspended[r]
  BY <1>3, <1>5 DEF TypeOK
<1>6. ASSUME NEW r \in Semaphores, NEW i \in 1 .. Len(suspended'[r])
      PROVE  \E k \in 1 .. Len(suspended[r]) :
               /\ suspended'[r][i] = suspended[r][k]
               /\ k = (IF r = s /\ ~ (i < p) THEN i + 1 ELSE i)
               /\ r = s => k # p
  <2>1. CASE r = s
    <3>1. Len(suspended[s]) \in Nat /\ i \in 1 .. Len(suspended[s]) - 1 /\ p \in Int
      BY <1>1, <1>2, <1>4, <2>1 DEF TypeOK
    <3>2. i \in 1 .. Len(suspended[s]) /\ i + 1 \in 1 .. Len(suspended[s])
      BY <3>1
    <3>3. suspended'[s][i] = IF i < p THEN suspended[s][i] ELSE suspended[s][i + 1]
      BY <1>4, <3>1
    <3>4. CASE i < p
      BY <2>1, <3>1, <3>2, <3>3, <3>4
    <3>5. CASE ~ (i < p)
      BY <2>1, <3>1, <3>2, <3>3, <3>5
    <3> QED
      BY <3>4, <3>5
  <2>2. CASE r # s
    BY <1>5, <2>2
  <2> QED
    BY <2>1, <2>2
<1>7. ASSUME NEW r \in Semaphores, NEW k \in 1 .. Len(suspended[r]), r = s => k # p
      PROVE  /\ suspended[r][k] \in Threads
             /\ suspended[r][k] # t
  <2>1. suspended[r][k] \in Threads
    BY DEF TypeOK
  <2>2. CASE r = s
    <3>1. k \in 1 .. Len(suspended[s]) /\ k # p
      BY <1>7, <2>2
    <3> QED
      BY <1>1, <1>2, <2>1, <2>2, <3>1 DEF QueueInv
  <2>3. CASE r # s
    <3>1. SemaphoreAt(pc[suspended[r][k]]) = r
      BY DEF QueueInv
    <3> QED
      BY <2>1, <2>3, <3>1 DEF s
  <2> QED
    BY <2>2, <2>3
<1>8. ASSUME NEW r \in Semaphores, NEW i \in 1 .. Len(suspended'[r])
      PROVE  /\ pc'[suspended'[r][i]] \in AcquireLabels
             /\ SemaphoreAt(pc'[suspended'[r][i]]) = r
  <2>1. PICK k \in 1 .. Len(suspended[r]) :
           suspended'[r][i] = suspended[r][k] /\ (r = s => k # p)
    BY <1>6
  <2>2. pc'[suspended[r][k]] = pc[suspended[r][k]]
    BY <1>3, <1>7, <2>1 DEF TypeOK
  <2> QED
    BY <2>1, <2>2 DEF QueueInv
<1>9. ASSUME NEW r \in Semaphores,
             NEW i \in 1 .. Len(suspended'[r]), NEW j \in 1 .. Len(suspended'[r]),
             suspended'[r][i] = suspended'[r][j]
      PROVE  i = j
  <2>1. PICK k \in 1 .. Len(suspended[r]) :
           /\ suspended'[r][i] = suspended[r][k]
           /\ k = (IF r = s /\ ~ (i < p) THEN i + 1 ELSE i)
    BY <1>6
  <2>2. PICK l \in 1 .. Len(suspended[r]) :
           /\ suspended'[r][j] = suspended[r][l]
           /\ l = (IF r = s /\ ~ (j < p) THEN j + 1 ELSE j)
    BY <1>6
  <2>3. k = l
    BY <1>9, <2>1, <2>2 DEF QueueInv
  <2>4. i \in Int /\ j \in Int /\ p \in Int
    BY <1>2
  <2> QED
    BY <2>1, <2>2, <2>3, <2>4
<1>10. ASSUME NEW r \in Semaphores, suspended'[r] # <<>>
       PROVE  permits'[r] = 0
  <2>1. suspended[r] # <<>>
    <3>1. CASE r = s
      BY <1>2, <3>1
    <3>2. CASE r # s
      BY <1>5, <1>10, <3>2
    <3> QED
      BY <3>1, <3>2
  <2> QED
    BY <1>3, <2>1 DEF QueueInv
<1>11. suspended' \in [Semaphores -> Seq(Threads)]
  BY <1>1, <1>3, <1>4 DEF TypeOK
<1> QED
  BY <1>8, <1>9, <1>10, <1>11 DEF QueueInv

-------------------------------------------------------------------------------
(* Types and suspension lists are preserved by every step *)

\* The steps that change neither a semaphore nor a suspension list.
Local(t) ==
  \/ CallLockRead(t) \/ CallLockWrite(t) \/ GiveUp(t) \/ CallUnlock(t)
  \/ CountReader(t) \/ UncountReader(t) \/ CountWriter(t) \/ UncountWriter(t)
  \/ UnlockReadCount(t) \/ UnlockReadMutex(t) \/ UnlockWriteCount(t) \/ UnlockWriteMutex(t)
  \/ (pc[t] = "W_Undo" /\ Undo(t))

\* The steps that release a semaphore, with where they go on.
Releases(t, s, next) ==
  /\ Release(s, t, next)
  /\ \/ pc[t] = "R_ReleaseTry" /\ s = "read_try" /\ next = "Reading" /\ ReleaseReadTry(t)
     \/ pc[t] = "R_Undo" /\ s = "read_try" /\ next = "U_Unlock" /\ Undo(t)
     \/ pc[t] = "U_Resource" /\ s = "resource" /\ next = "U_Unlock" /\ ReleaseResource(t)
     \/ pc[t] = "W_Release" /\ s = "resource" /\ next = "W_Leave" /\ ReleaseResource(t)
     \/ pc[t] = "W_LeaveTry" /\ s = "read_try" /\ next = "W_LeaveUnlock" /\ ReleaseTryOfWriters(t)

Releasing(t) == \E s \in Semaphores, next \in Labels : Releases(t, s, next)

LEMMA StepKinds ==
  ASSUME NEW t \in Threads,
         \/ CallLockRead(t) \/ CallLockWrite(t)
         \/ Acquire(t) \/ Expire(t) \/ Undo(t)
         \/ CountReader(t) \/ UnlockReadCount(t) \/ ReleaseReadTry(t)
         \/ CountWriter(t) \/ UnlockWriteCount(t)
         \/ GiveUp(t) \/ CallUnlock(t)
         \/ UncountReader(t) \/ ReleaseResource(t) \/ UnlockReadMutex(t)
         \/ UncountWriter(t) \/ ReleaseTryOfWriters(t) \/ UnlockWriteMutex(t)
  PROVE  Local(t) \/ Acquire(t) \/ Expire(t) \/ Releasing(t)
<1>1. CASE ReleaseReadTry(t)
  <2>1. Releases(t, "read_try", "Reading")
    BY <1>1 DEF Releases, ReleaseReadTry
  <2> QED
    BY <2>1 DEF Releasing, Semaphores, Labels
<1>2. CASE ReleaseTryOfWriters(t)
  <2>1. Releases(t, "read_try", "W_LeaveUnlock")
    BY <1>2 DEF Releases, ReleaseTryOfWriters
  <2> QED
    BY <2>1 DEF Releasing, Semaphores, Labels
<1>3. CASE ReleaseResource(t)
  <2>1. CASE pc[t] = "U_Resource"
    <3>1. Releases(t, "resource", "U_Unlock")
      BY <1>3, <2>1 DEF Releases, ReleaseResource
    <3> QED
      BY <3>1 DEF Releasing, Semaphores, Labels
  <2>2. CASE pc[t] = "W_Release"
    <3>1. Releases(t, "resource", "W_Leave")
      BY <1>3, <2>2 DEF Releases, ReleaseResource
    <3> QED
      BY <3>1 DEF Releasing, Semaphores, Labels
  <2> QED
    BY <1>3, <2>1, <2>2 DEF ReleaseResource
<1>4. CASE Undo(t)
  <2>1. CASE pc[t] = "R_Undo"
    <3>1. Releases(t, "read_try", "U_Unlock")
      BY <1>4, <2>1 DEF Releases, Undo
    <3> QED
      BY <3>1 DEF Releasing, Semaphores, Labels
  <2>2. CASE pc[t] = "W_Undo"
    BY <1>4, <2>2 DEF Local
  <2> QED
    BY <1>4, <2>1, <2>2 DEF Undo
<1> QED
  BY <1>1, <1>2, <1>3, <1>4 DEF Local

LEMMA QueueStep ==
  ASSUME TypeOK, QueueInv, NEW t \in Threads,
         Local(t) \/ Acquire(t) \/ Expire(t) \/ Releasing(t)
  PROVE  QueueInv'
<1>1. CASE Local(t)
  <2>1. /\ permits' = permits /\ suspended' = suspended
        /\ pc[t] \notin AcquireLabels
        /\ \A u \in Threads \ {t} : pc'[u] = pc[u]
    BY <1>1 DEF Local, CallLockRead, CallLockWrite, GiveUp, CallUnlock, CountReader,
                UncountReader, CountWriter, UncountWriter, UnlockReadCount, UnlockReadMutex,
                UnlockWriteCount, UnlockWriteMutex, Undo, InReading, InWriting,
                AcquireLabels, TypeOK
  <2>2. ASSUME NEW s \in Semaphores, NEW i \in 1 .. Len(suspended[s])
        PROVE  pc'[suspended[s][i]] = pc[suspended[s][i]]
    <3>1. suspended[s][i] \in Threads /\ pc[suspended[s][i]] \in AcquireLabels
      BY DEF TypeOK, QueueInv
    <3> QED
      BY <2>1, <3>1
  <2> QED
    BY <2>1, <2>2 DEF QueueInv
<1>2. CASE Releasing(t)
  <2>1. PICK s \in Semaphores, next \in Labels : Releases(t, s, next)
    BY <1>2 DEF Releasing
  <2>2. Release(s, t, next) /\ pc[t] \notin AcquireLabels
    BY <2>1 DEF Releases, AcquireLabels
  <2> QED
    BY <2>2, ReleaseQueue
<1> QED
  BY <1>1, <1>2, AcquireQueue, ExpireQueue

LEMMA TypeStep ==
  ASSUME TypeOK, QueueInv, NEW t \in Threads,
         Local(t) \/ Acquire(t) \/ Expire(t) \/ Releasing(t)
  PROVE  TypeOK'
<1> USE DEF TypeOK
<1>1. CASE Local(t)
  <2>1. permits' = permits /\ suspended' = suspended
    BY <1>1 DEF Local, CallLockRead, CallLockWrite, GiveUp, CallUnlock, CountReader,
                UncountReader, CountWriter, UncountWriter, UnlockReadCount, UnlockReadMutex,
                UnlockWriteCount, UnlockWriteMutex, Undo
  <2>2. CASE CallLockRead(t) \/ CallLockWrite(t)
    <3>1. PICK k \in Timeouts : timeout' = [timeout EXCEPT ![t] = k]
      BY <2>2 DEF CallLockRead, CallLockWrite
    <3>2. timeout' \in [Threads -> {"finite", "forever"}]
      BY <3>1, TimeoutsAssumption
    <3> QED
      BY <2>1, <2>2, <3>2 DEF CallLockRead, CallLockWrite, Labels
  <2>3. CASE GiveUp(t) \/ CallUnlock(t)
    BY <2>1, <2>3 DEF GiveUp, CallUnlock, Labels
  <2>4. CASE CountReader(t) \/ UncountReader(t)
    BY <2>1, <2>4, CounterTypes DEF CountReader, UncountReader, Labels
  <2>5. CASE CountWriter(t) \/ UncountWriter(t)
    BY <2>1, <2>5, CounterTypes DEF CountWriter, UncountWriter, Labels
  <2>6. CASE UnlockReadCount(t) \/ UnlockReadMutex(t) \/ UnlockWriteCount(t) \/ UnlockWriteMutex(t)
    BY <2>1, <2>6 DEF UnlockReadCount, UnlockReadMutex, UnlockWriteCount, UnlockWriteMutex, Labels
  <2>7. CASE pc[t] = "W_Undo" /\ Undo(t)
    BY <2>1, <2>7, CounterTypes DEF Undo, Labels
  <2> QED
    BY <1>1, <2>2, <2>3, <2>4, <2>5, <2>6, <2>7 DEF Local
<1>2. CASE Acquire(t)
  <2>1. pc[t] \in AcquireLabels /\ SemaphoreAt(pc[t]) \in Semaphores /\ Granted(pc[t]) \in Labels
    BY <1>2, LabelTypes DEF Acquire, Labels
  <2>2. CASE permits[SemaphoreAt(pc[t])] > 0
    <3>1. permits[SemaphoreAt(pc[t])] - 1 \in Nat
      BY <2>1, <2>2
    <3> QED
      BY <1>2, <2>1, <2>2, <3>1 DEF Acquire
  <2>3. CASE ~ (permits[SemaphoreAt(pc[t])] > 0)
    <3>1. Append(suspended[SemaphoreAt(pc[t])], t) \in Seq(Threads)
      BY <2>1
    <3> QED
      BY <1>2, <2>1, <2>3, <3>1 DEF Acquire
  <2> QED
    BY <2>2, <2>3
<1>3. CASE Expire(t)
  <2>1. pc[t] \in AcquireLabels /\ Expired(pc[t]) \in Labels
    BY <1>3, LabelTypes DEF Expire, Labels
  <2>2. suspended' \in [Semaphores -> Seq(Threads)]
    BY <1>3, ExpireQueue
  <2> QED
    BY <1>3, <2>1, <2>2 DEF Expire
<1>4. CASE Releasing(t)
  <2>1. PICK s \in Semaphores, next \in Labels : Releases(t, s, next)
    BY <1>4 DEF Releasing
  <2>2. Release(s, t, next)
    BY <2>1 DEF Releases
  <2>3. /\ permits' \in [Semaphores -> Nat]
        /\ suspended' \in [Semaphores -> Seq(Threads)]
        /\ pc' \in [Threads -> Labels]
    BY <2>2, ReleaseTypes
  <2>4. /\ read_mtx' = read_mtx /\ write_mtx' = write_mtx
        /\ write_count' = write_count /\ timeout' = timeout /\ timed_out' = timed_out
        /\ read_count' = read_count \/ read_count' = Decrement(read_count)
    BY <2>1 DEF Releases, ReleaseReadTry, Undo, ReleaseResource, ReleaseTryOfWriters
  <2> QED
    BY <2>3, <2>4, CounterTypes
<1> QED
  BY <1>1, <1>2, <1>3, <1>4

-------------------------------------------------------------------------------
(* The mutexes *)

LEMMA MutexStep ==
  ASSUME TypeOK, QueueInv, MutexInv, NEW t \in Threads,
         Local(t) \/ Acquire(t) \/ Expire(t) \/ Releasing(t)
  PROVE  MutexInv'
<1> USE ThreadsAssumption DEF TypeOK, MutexInv, ReadMutexLabels, WriteMutexLabels
<1>1. CASE CallLockRead(t) \/ CallLockWrite(t) \/ GiveUp(t) \/ CallUnlock(t)
  BY <1>1 DEF CallLockRead, CallLockWrite, GiveUp, CallUnlock, InReading, InWriting
<1>2. CASE CountReader(t) \/ UncountReader(t) \/ CountWriter(t) \/ UncountWriter(t)
  BY <1>2 DEF CountReader, UncountReader, CountWriter, UncountWriter
<1>3. CASE UnlockReadCount(t) \/ UnlockReadMutex(t) \/ UnlockWriteCount(t) \/ UnlockWriteMutex(t)
  BY SMTT(30), <1>3 DEF UnlockReadCount, UnlockReadMutex, UnlockWriteCount, UnlockWriteMutex
<1>4. CASE pc[t] = "W_Undo" /\ Undo(t)
  BY <1>4 DEF Undo
<1>5. CASE Acquire(t)
  <2>1. read_mtx' = read_mtx /\ write_mtx' = write_mtx
    BY <1>5 DEF Acquire
  <2>2. pc' = pc \/ \E g : GoesOn(SemaphoreAt(pc[t]), pc[t], g) /\ pc' = [pc EXCEPT ![t] = g]
    BY <1>5, AcquireEffect
  <2> QED
    BY <2>1, <2>2 DEF GoesOn
<1>6. CASE Expire(t)
  BY <1>6 DEF Expire, Expired, AcquireLabels
<1>7. CASE Releasing(t)
  <2>1. PICK s \in Semaphores, next \in Labels : Releases(t, s, next)
    BY <1>7 DEF Releasing
  <2>2. /\ Release(s, t, next) /\ pc[t] \notin AcquireLabels
        /\ read_mtx' = read_mtx /\ write_mtx' = write_mtx
        /\ pc[t] \in ReadMutexLabels <=> next \in ReadMutexLabels
        /\ pc[t] \in WriteMutexLabels <=> next \in WriteMutexLabels
    BY <2>1 DEF Releases, AcquireLabels, ReleaseReadTry, Undo, ReleaseResource, ReleaseTryOfWriters
  <2>3. \/ pc' = [pc EXCEPT ![t] = next]
        \/ \E h \in Threads \ {t}, g \in Labels :
              GoesOn(s, pc[h], g) /\ pc' = [pc EXCEPT ![t] = next, ![h] = g]
    BY <2>2, ReleaseEffect
  <2> QED
    BY <2>2, <2>3 DEF GoesOn
<1> QED
  BY <1>1, <1>2, <1>3, <1>4, <1>5, <1>6, <1>7 DEF Local

-------------------------------------------------------------------------------
(* The counters *)

\* How the number of threads at some labels follows one thread's move.
LEMMA Counting ==
  ASSUME NEW S \in SUBSET Threads, NEW t \in Threads
  PROVE  /\ IsFiniteSet(S) /\ Cardinality(S) \in Nat /\ Cardinality(S) < Modulus
         /\ t \notin S => Cardinality(S \cup {t}) = Cardinality(S) + 1
         /\ t \in S => Cardinality(S \ {t}) = Cardinality(S) - 1
         /\ Cardinality(S) = 0 => S = {}
         /\ Cardinality(S) = 1 /\ t \in S => S = {t}
<1>1. IsFiniteSet(S) /\ Cardinality(S) \in Nat /\ Cardinality(S) <= Cardinality(Threads)
  <2>1. IsFiniteSet(S) /\ Cardinality(S) <= Cardinality(Threads)
    BY ThreadsAssumption, FS_Subset
  <2> QED
    BY <2>1, FS_CardinalityType
<1>2. Cardinality(S) < Modulus
  <2>1. Cardinality(Threads) \in Nat
    BY ThreadsAssumption, FS_CardinalityType
  <2> QED
    BY <1>1, <2>1, ModulusAssumption
<1>3. t \notin S => Cardinality(S \cup {t}) = Cardinality(S) + 1
  BY <1>1, FS_AddElement
<1>4. t \in S => Cardinality(S \ {t}) = Cardinality(S) - 1
  BY <1>1, FS_RemoveElement
<1>5. Cardinality(S) = 0 => S = {}
  BY <1>1, FS_EmptySet
<1>6. ASSUME Cardinality(S) = 1, t \in S
      PROVE  S = {t}
  <2>1. IsFiniteSet(S \ {t}) /\ Cardinality(S \ {t}) = 0
    BY <1>1, <1>4, <1>6, FS_RemoveElement
  <2>2. S \ {t} = {}
    BY <2>1, FS_EmptySet
  <2> QED
    BY <1>6, <2>2
<1> QED
  BY <1>1, <1>2, <1>3, <1>4, <1>5, <1>6

LEMMA FirstCounts ==
  ASSUME NEW t \in Threads
  PROVE  Increment(0) = 1
<1>1. Cardinality({t}) = 1
  BY FS_Singleton
<1>2. Cardinality({t}) < Modulus
  BY Counting
<1> QED
  BY <1>1, <1>2, ModulusAssumption DEF Increment

\* A step of t after which t is counted and was not, or the other way round.
Enters(t, L) ==
  pc[t] \notin L /\ pc'[t] \in L /\ \A u \in Threads \ {t} : pc'[u] \in L <=> pc[u] \in L
Leaves(t, L) ==
  pc[t] \in L /\ pc'[t] \notin L /\ \A u \in Threads \ {t} : pc'[u] \in L <=> pc[u] \in L
Keeps(L) == \A u \in Threads : pc'[u] \in L <=> pc[u] \in L

LEMMA EnterCount ==
  ASSUME NEW t \in Threads, NEW L, NEW n, n = Cardinality(At(L)), Enters(t, L)
  PROVE  /\ Increment(n) = Cardinality(At(L)')
         /\ Increment(n) = 1 => \A u \in Threads : pc'[u] \in L => u = t
<1>1. At(L) \in SUBSET Threads /\ At(L)' \in SUBSET Threads
  BY DEF At
<1>2. t \notin At(L) /\ At(L)' = At(L) \cup {t}
  BY DEF At, Enters
<1>3. Cardinality(At(L)') = n + 1
  BY <1>1, <1>2, Counting
<1>4. n \in Nat /\ n + 1 < Modulus
  <2>1. n \in Nat
    BY <1>1, Counting
  <2>2. Cardinality(At(L)') < Modulus
    BY <1>1, Counting
  <2> QED
    BY <1>3, <2>1, <2>2
<1>5. Increment(n) = n + 1
  BY <1>4 DEF Increment
<1>6. ASSUME Increment(n) = 1, NEW u \in Threads, pc'[u] \in L
      PROVE  u = t
  <2>1. Cardinality(At(L)') = 1 /\ t \in At(L)'
    BY <1>2, <1>3, <1>5, <1>6
  <2>2. At(L)' = {t}
    BY <1>1, <2>1, Counting
  <2>3. u \in At(L)'
    BY <1>6 DEF At
  <2> QED
    BY <2>2, <2>3
<1> QED
  BY <1>3, <1>5, <1>6

LEMMA LeaveCount ==
  ASSUME NEW t \in Threads, NEW L, NEW n, n = Cardinality(At(L)), Leaves(t, L)
  PROVE  /\ Decrement(n) = Cardinality(At(L)')
         /\ Decrement(n) = 0 => \A u \in Threads : pc'[u] \notin L
         /\ Decrement(n) # 0 => \E u \in Threads \ {t} : pc[u] \in L
<1>1. At(L) \in SUBSET Threads /\ At(L)' \in SUBSET Threads
  BY DEF At
<1>2. t \in At(L) /\ At(L)' = At(L) \ {t}
  BY DEF At, Leaves
<1>3. Cardinality(At(L)') = n - 1 /\ n \in Nat /\ Cardinality(At(L)') \in Nat
  BY <1>1, <1>2, Counting
<1>4. n # 0
  BY <1>3
<1>5. Decrement(n) = n - 1
  BY <1>3, <1>4 DEF Decrement
<1>6. Decrement(n) = 0 => At(L)' = {}
  BY <1>1, <1>3, <1>5, Counting
<1>7. ASSUME Decrement(n) # 0
      PROVE  \E u \in Threads \ {t} : pc[u] \in L
  <2>1. At(L)' # {}
    BY <1>3, <1>5, <1>7, FS_EmptySet
  <2> QED
    BY <1>2, <2>1 DEF At
<1>8. ASSUME Decrement(n) = 0, NEW u \in Threads
      PROVE  pc'[u] \notin L
  BY <1>6, <1>8 DEF At
<1> QED
  BY <1>3, <1>5, <1>7, <1>8

LEMMA KeepCount ==
  ASSUME NEW L, Keeps(L)
  PROVE  Cardinality(At(L)') = Cardinality(At(L))
<1>1. At(L)' = At(L)
  BY DEF At, Keeps
<1> QED
  BY <1>1

\* Where the steps of the caller take it.  Only a caller that respects the
\* status never unlocks what it did not get.
CallMoves(t) ==
  \E to \in Labels :
    /\ pc' = [pc EXCEPT ![t] = to]
    /\ \/ pc[t] = "Idle" /\ to \in {"R_Try", "W_Count"}
       \/ pc[t] \in {"R_Failed", "W_Failed"} /\ to = "Idle"
       \/ pc[t] = "Reading" /\ to = "U_Count"
       \/ pc[t] = "Writing" /\ to = "W_Release"

LEMMA CallsMove ==
  ASSUME StatusRespected, TimeoutInv, NEW t \in Threads,
         CallLockRead(t) \/ CallLockWrite(t) \/ GiveUp(t) \/ CallUnlock(t)
  PROVE  CallMoves(t)
<1>1. CASE CallLockRead(t) \/ CallLockWrite(t) \/ GiveUp(t)
  BY <1>1 DEF CallLockRead, CallLockWrite, GiveUp, CallMoves, Labels
<1>2. CASE CallUnlock(t)
  <2>1. InReading(t) => pc[t] = "Reading"
    BY DEF InReading, StatusRespected, TimeoutInv
  <2>2. InWriting(t) => pc[t] = "Writing"
    BY DEF InWriting, StatusRespected, TimeoutInv
  <2> QED
    BY <1>2, <2>1, <2>2 DEF CallUnlock, CallMoves, Labels
<1> QED
  BY <1>1, <1>2

LEMMA CountStep ==
  ASSUME StatusRespected, IInv, NEW t \in Threads,
         Local(t) \/ Acquire(t) \/ Expire(t) \/ Releasing(t)
  PROVE  CountInv'
<1> DEFINE R == CountedReaders
           W == CountedWriters
           First == \A v, u \in Threads :
                      /\ pc[v] \in {"R_Resource", "R_Undo"} /\ pc[u] \in R => v = u
                      /\ pc[v] \in {"W_Try", "W_Undo"} /\ pc[u] \in W => v = u
                      /\ pc[v] = "U_Resource" => pc[u] \notin R
                      /\ pc[v] = "W_LeaveTry" => pc[u] \notin W
<1>0. /\ StatusRespected /\ TimeoutInv
      /\ TypeOK /\ QueueInv /\ MutexInv /\ First
      /\ read_count = Cardinality(At(R)) /\ write_count = Cardinality(At(W))
  BY DEF IInv, CountInv
\* A step that lets no thread join or leave either count.
<1>k. ASSUME Keeps(R), Keeps(W), read_count' = read_count, write_count' = write_count, First'
      PROVE  CountInv'
  <2>1. Cardinality(At(R)') = Cardinality(At(R)) /\ Cardinality(At(W)') = Cardinality(At(W))
    BY <1>k, KeepCount
  <2> QED
    BY <1>0, <1>k, <2>1 DEF CountInv
<1>1. CASE CallLockRead(t) \/ CallLockWrite(t) \/ GiveUp(t) \/ CallUnlock(t)
  <2>0. CallMoves(t)
    BY <1>0, <1>1, CallsMove
  <2>1. Keeps(R) /\ Keeps(W) /\ First'
    BY <1>0, <2>0 DEF CallMoves, Keeps, CountedReaders, CountedWriters, TypeOK
  <2>2. read_count' = read_count /\ write_count' = write_count
    BY <1>1 DEF CallLockRead, CallLockWrite, GiveUp, CallUnlock
  <2> QED
    BY <1>k, <2>1, <2>2
<1>2. CASE UnlockReadCount(t) \/ UnlockReadMutex(t) \/ UnlockWriteCount(t) \/ UnlockWriteMutex(t)
  <2>1. Keeps(R) /\ Keeps(W) /\ First'
    BY <1>0, <1>2 DEF UnlockReadCount, UnlockReadMutex, UnlockWriteCount, UnlockWriteMutex,
      Keeps, CountedReaders, CountedWriters, TypeOK
  <2>2. read_count' = read_count /\ write_count' = write_count
    BY <1>2 DEF UnlockReadCount, UnlockReadMutex, UnlockWriteCount, UnlockWriteMutex
  <2> QED
    BY <1>k, <2>1, <2>2
<1>3. CASE Acquire(t)
  <2>1. pc' = pc \/ \E g : GoesOn(SemaphoreAt(pc[t]), pc[t], g) /\ pc' = [pc EXCEPT ![t] = g]
    BY <1>0, <1>3, AcquireEffect
  <2>2. Keeps(R) /\ Keeps(W) /\ First'
    BY <1>0, <2>1 DEF GoesOn, Keeps, CountedReaders, CountedWriters, TypeOK
  <2>3. read_count' = read_count /\ write_count' = write_count
    BY <1>3 DEF Acquire
  <2> QED
    BY <1>k, <2>2, <2>3
<1>4. CASE Expire(t)
  <2>1. Keeps(R) /\ Keeps(W) /\ First'
    BY <1>0, <1>4 DEF Expire, Expired, AcquireLabels, Keeps, CountedReaders, CountedWriters, TypeOK
  <2>2. read_count' = read_count /\ write_count' = write_count
    BY <1>4 DEF Expire
  <2> QED
    BY <1>k, <2>1, <2>2
<1>5. CASE CountReader(t)
  <2>1. Enters(t, R) /\ Keeps(W)
    BY <1>0, <1>5 DEF CountReader, Enters, Keeps, CountedReaders, CountedWriters, TypeOK
  <2>2. /\ read_count' = Cardinality(At(R)') /\ write_count' = Cardinality(At(W)')
        /\ read_count' = 1 => \A u \in Threads : pc'[u] \in R => u = t
    BY <1>0, <1>5, <2>1, EnterCount, KeepCount DEF CountReader
  <2>3. First'
    BY <1>0, <1>5, <2>2, ThreadsAssumption
       DEF CountReader, MutexInv, ReadMutexLabels, WriteMutexLabels, CountedReaders, CountedWriters, TypeOK
  <2> QED
    BY <2>2, <2>3 DEF CountInv
<1>6. CASE UncountReader(t)
  <2>1. Leaves(t, R) /\ Keeps(W)
    BY <1>0, <1>6 DEF UncountReader, Leaves, Keeps, CountedReaders, CountedWriters, TypeOK
  <2>2. /\ read_count' = Cardinality(At(R)') /\ write_count' = Cardinality(At(W)')
        /\ read_count' = 0 => \A u \in Threads : pc'[u] \notin R
    BY <1>0, <1>6, <2>1, LeaveCount, KeepCount DEF UncountReader
  <2>3. First'
    BY <1>0, <1>6, <2>2, ThreadsAssumption
       DEF UncountReader, MutexInv, ReadMutexLabels, WriteMutexLabels, CountedReaders, CountedWriters, TypeOK
  <2> QED
    BY <2>2, <2>3 DEF CountInv
<1>7. CASE CountWriter(t)
  <2>1. Enters(t, W) /\ Keeps(R)
    BY <1>0, <1>7 DEF CountWriter, Enters, Keeps, CountedReaders, CountedWriters, TypeOK
  <2>2. /\ read_count' = Cardinality(At(R)') /\ write_count' = Cardinality(At(W)')
        /\ write_count' = 1 => \A u \in Threads : pc'[u] \in W => u = t
    BY <1>0, <1>7, <2>1, EnterCount, KeepCount DEF CountWriter
  <2>3. First'
    BY <1>0, <1>7, <2>2, ThreadsAssumption
       DEF CountWriter, MutexInv, ReadMutexLabels, WriteMutexLabels, CountedReaders, CountedWriters, TypeOK
  <2> QED
    BY <2>2, <2>3 DEF CountInv
<1>8. CASE UncountWriter(t)
  <2>1. Leaves(t, W) /\ Keeps(R)
    BY <1>0, <1>8 DEF UncountWriter, Leaves, Keeps, CountedReaders, CountedWriters, TypeOK
  <2>2. /\ read_count' = Cardinality(At(R)') /\ write_count' = Cardinality(At(W)')
        /\ write_count' = 0 => \A u \in Threads : pc'[u] \notin W
    BY <1>0, <1>8, <2>1, LeaveCount, KeepCount DEF UncountWriter
  <2>3. First'
    BY <1>0, <1>8, <2>2, ThreadsAssumption
       DEF UncountWriter, MutexInv, ReadMutexLabels, WriteMutexLabels, CountedReaders, CountedWriters, TypeOK
  <2> QED
    BY <2>2, <2>3 DEF CountInv
<1>9. CASE pc[t] = "W_Undo" /\ Undo(t)
  <2>1. Leaves(t, W) /\ Keeps(R)
    BY <1>0, <1>9 DEF Undo, Leaves, Keeps, CountedReaders, CountedWriters, TypeOK
  <2>2. read_count' = Cardinality(At(R)') /\ write_count' = Cardinality(At(W)')
    BY <1>0, <1>9, <2>1, LeaveCount, KeepCount DEF Undo
  <2>3. First'
    BY <1>0, <1>9 DEF Undo, CountedReaders, CountedWriters, TypeOK
  <2> QED
    BY <2>2, <2>3 DEF CountInv
<1>10. CASE Releasing(t)
  <2>1. PICK s \in Semaphores, next \in Labels : Releases(t, s, next)
    BY <1>10 DEF Releasing
  <2>2. Release(s, t, next) /\ pc[t] \notin AcquireLabels
    BY <2>1 DEF Releases, AcquireLabels
  <2>3. \/ pc' = [pc EXCEPT ![t] = next]
        \/ \E h \in Threads \ {t}, g \in Labels :
              GoesOn(s, pc[h], g) /\ pc' = [pc EXCEPT ![t] = next, ![h] = g]
    BY <1>0, <2>2, ReleaseEffect
  <2>4. Keeps(W)
    BY <1>0, <2>1, <2>3 DEF Releases, GoesOn, Keeps, CountedWriters, TypeOK
  <2>5. First'
    BY <1>0, <2>1, <2>3 DEF Releases, GoesOn, CountedReaders, CountedWriters, TypeOK
  <2>6. write_count' = write_count
    BY <2>1 DEF Releases, ReleaseReadTry, Undo, ReleaseResource, ReleaseTryOfWriters
  <2>7. CASE pc[t] = "R_Undo"
    <3>1. Leaves(t, R)
      BY <1>0, <2>1, <2>3, <2>7 DEF Releases, GoesOn, Leaves, CountedReaders, TypeOK
    <3>2. read_count' = Decrement(read_count)
      BY <2>1, <2>7 DEF Releases, Undo
    <3>3. read_count' = Cardinality(At(R)') /\ write_count' = Cardinality(At(W)')
      BY <1>0, <2>4, <2>6, <3>1, <3>2, LeaveCount, KeepCount
    <3> QED
      BY <2>5, <3>3 DEF CountInv
  <2>8. CASE pc[t] # "R_Undo"
    <3>1. Keeps(R)
      BY <1>0, <2>1, <2>3, <2>8 DEF Releases, GoesOn, Keeps, CountedReaders, TypeOK
    <3>2. read_count' = read_count
      BY <2>1, <2>8 DEF Releases, ReleaseReadTry, ReleaseResource, ReleaseTryOfWriters
    <3> QED
      BY <1>k, <2>4, <2>5, <2>6, <3>1, <3>2
  <2> QED
    BY <2>7, <2>8
<1> QED
  BY <1>1, <1>2, <1>3, <1>4, <1>5, <1>6, <1>7, <1>8, <1>9, <1>10 DEF Local

-------------------------------------------------------------------------------
(* The permits *)

TryPermit == OnePermit("read_try", ReaderHoldsTry, WritersHoldTry)
ResourcePermit == OnePermit("resource", WriterHoldsResource, ReadersHoldResource)

\* A reader at the resource semaphore finds its permit there: no writer can
\* hold it, for the reader holds read_try, and no reader, for it is the first.
LEMMA ResourceIsFree ==
  ASSUME IInv, NEW t \in Threads, pc[t] = "R_Resource"
  PROVE  permits["resource"] = 1
<1>1. ASSUME NEW u \in Threads, pc[u] \in WriterHoldsResource
      PROVE  FALSE
  BY <1>1 DEF IInv, PermitInv, OnePermit, ReaderHoldsTry, WritersHoldTry, WriterHoldsResource
<1>2. ASSUME NEW u \in Threads, pc[u] \in ReadersHoldResource
      PROVE  FALSE
  <2>1. CASE pc[u] = "U_Resource"
    BY <2>1 DEF IInv, MutexInv, ReadMutexLabels
  <2>2. CASE pc[u] # "U_Resource"
    <3>1. pc[u] \in CountedReaders /\ u # t
      BY <1>2, <2>2 DEF ReadersHoldResource, CountedReaders
    <3> QED
      BY <3>1 DEF IInv, CountInv
  <2> QED
    BY <2>1, <2>2
<1> QED
  BY <1>1, <1>2 DEF IInv, PermitInv, OnePermit

\* A step after which the holders of a semaphore are as before.
LEMMA PermitKept ==
  ASSUME NEW s, NEW E, NEW G, OnePermit(s, E, G), permits'[s] = permits[s], Keeps(E), Keeps(G)
  PROVE  OnePermit(s, E, G)'
  BY DEF OnePermit, Keeps

\* A thread that counts itself joins a group that holds both semaphores, or is
\* the first and goes for them; one that takes itself out leaves others behind,
\* or is the last.
LEMMA CountersPermits ==
  ASSUME IInv, NEW t \in Threads,
         CountReader(t) \/ UncountReader(t) \/ CountWriter(t) \/ UncountWriter(t)
  PROVE  PermitInv'
<1> USE DEF ReaderHoldsTry, WritersHoldTry, WriterHoldsResource, ReadersHoldResource
<1>0. /\ TypeOK /\ MutexInv /\ TryPermit /\ ResourcePermit
      /\ read_count = Cardinality(At(CountedReaders))
      /\ write_count = Cardinality(At(CountedWriters))
  BY DEF IInv, PermitInv, CountInv, TryPermit, ResourcePermit
<1>1. permits' = permits
  BY DEF CountReader, UncountReader, CountWriter, UncountWriter
<1>2. CASE CountReader(t)
  <2>1. Keeps(ReaderHoldsTry) /\ Keeps(WritersHoldTry) /\ Keeps(WriterHoldsResource)
    BY <1>0, <1>2 DEF CountReader, Keeps, TypeOK
  <2>2. CASE read_count' = 1
    <3>1. Keeps(ReadersHoldResource)
      BY <1>0, <1>2, <2>2 DEF CountReader, Keeps, TypeOK
    <3> QED
      BY <1>0, <1>1, <2>1, <3>1, PermitKept DEF PermitInv, TryPermit, ResourcePermit
  <2>3. CASE read_count' # 1
    <3>1. PICK u \in Threads : pc[u] \in CountedReaders
      <4>1. read_count # 0
        BY <1>2, <2>3, FirstCounts DEF CountReader
      <4>2. At(CountedReaders) # {}
        BY <1>0, <4>1, FS_EmptySet
      <4> QED
        BY <4>2 DEF At
    <3>2. u # t /\ pc[u] \in ReadersHoldResource
      BY <1>0, <1>2, <3>1, ThreadsAssumption DEF CountReader, CountedReaders, MutexInv, ReadMutexLabels
    <3>3. pc' = [pc EXCEPT ![t] = "R_Unlock"]
      BY <1>2, <2>3 DEF CountReader
    <3>4. ResourcePermit'
      BY <1>0, <1>1, <2>1, <3>2, <3>3 DEF ResourcePermit, OnePermit, Keeps, TypeOK
    <3> QED
      BY <1>0, <1>1, <2>1, <3>4, PermitKept DEF PermitInv, TryPermit, ResourcePermit
  <2> QED
    BY <2>2, <2>3
<1>3. CASE UncountReader(t)
  <2>1. Keeps(ReaderHoldsTry) /\ Keeps(WritersHoldTry) /\ Keeps(WriterHoldsResource)
    BY <1>0, <1>3 DEF UncountReader, Keeps, TypeOK
  <2>2. CASE read_count' = 0
    <3>1. Keeps(ReadersHoldResource)
      BY <1>0, <1>3, <2>2 DEF UncountReader, Keeps, TypeOK
    <3> QED
      BY <1>0, <1>1, <2>1, <3>1, PermitKept DEF PermitInv, TryPermit, ResourcePermit
  <2>3. CASE read_count' # 0
    <3>1. PICK u \in Threads \ {t} : pc[u] \in CountedReaders
      <4>1. Leaves(t, CountedReaders)
        BY <1>0, <1>3 DEF UncountReader, Leaves, CountedReaders, TypeOK
      <4>2. Decrement(read_count) # 0
        BY <1>3, <2>3 DEF UncountReader
      <4> QED
        BY <1>0, <4>1, <4>2, LeaveCount
    <3>2. pc[u] \in ReadersHoldResource
      BY <1>0, <1>3, <3>1, ThreadsAssumption DEF UncountReader, CountedReaders, MutexInv, ReadMutexLabels
    <3>3. pc[t] = "U_Count" /\ pc' = [pc EXCEPT ![t] = "U_Unlock"]
      BY <1>3, <2>3 DEF UncountReader
    <3>4. ResourcePermit'
      BY <1>0, <1>1, <2>1, <3>1, <3>2, <3>3 DEF ResourcePermit, OnePermit, Keeps, TypeOK
    <3> QED
      BY <1>0, <1>1, <2>1, <3>4, PermitKept DEF PermitInv, TryPermit, ResourcePermit
  <2> QED
    BY <2>2, <2>3
<1>4. CASE CountWriter(t)
  <2>1. Keeps(ReaderHoldsTry) /\ Keeps(ReadersHoldResource) /\ Keeps(WriterHoldsResource)
    BY <1>0, <1>4 DEF CountWriter, Keeps, TypeOK
  <2>2. CASE write_count' = 1
    <3>1. Keeps(WritersHoldTry)
      BY <1>0, <1>4, <2>2 DEF CountWriter, Keeps, TypeOK
    <3> QED
      BY <1>0, <1>1, <2>1, <3>1, PermitKept DEF PermitInv, TryPermit, ResourcePermit
  <2>3. CASE write_count' # 1
    <3>1. PICK u \in Threads : pc[u] \in CountedWriters
      <4>1. write_count # 0
        BY <1>4, <2>3, FirstCounts DEF CountWriter
      <4>2. At(CountedWriters) # {}
        BY <1>0, <4>1, FS_EmptySet
      <4> QED
        BY <4>2 DEF At
    <3>2. u # t /\ pc[u] \in WritersHoldTry
      BY <1>0, <1>4, <3>1, ThreadsAssumption DEF CountWriter, CountedWriters, MutexInv, WriteMutexLabels
    <3>3. pc' = [pc EXCEPT ![t] = "W_Unlock"]
      BY <1>4, <2>3 DEF CountWriter
    <3>4. TryPermit'
      BY <1>0, <1>1, <2>1, <3>2, <3>3 DEF TryPermit, OnePermit, Keeps, TypeOK
    <3> QED
      BY <1>0, <1>1, <2>1, <3>4, PermitKept DEF PermitInv, TryPermit, ResourcePermit
  <2> QED
    BY <2>2, <2>3
<1>5. CASE UncountWriter(t)
  <2>1. Keeps(ReaderHoldsTry) /\ Keeps(ReadersHoldResource) /\ Keeps(WriterHoldsResource)
    BY <1>0, <1>5 DEF UncountWriter, Keeps, TypeOK
  <2>2. CASE write_count' = 0
    <3>1. Keeps(WritersHoldTry)
      BY <1>0, <1>5, <2>2 DEF UncountWriter, Keeps, TypeOK
    <3> QED
      BY <1>0, <1>1, <2>1, <3>1, PermitKept DEF PermitInv, TryPermit, ResourcePermit
  <2>3. CASE write_count' # 0
    <3>1. PICK u \in Threads \ {t} : pc[u] \in CountedWriters
      <4>1. Leaves(t, CountedWriters)
        BY <1>0, <1>5 DEF UncountWriter, Leaves, CountedWriters, TypeOK
      <4>2. Decrement(write_count) # 0
        BY <1>5, <2>3 DEF UncountWriter
      <4> QED
        BY <1>0, <4>1, <4>2, LeaveCount
    <3>2. pc[u] \in WritersHoldTry
      BY <1>0, <1>5, <3>1, ThreadsAssumption DEF UncountWriter, CountedWriters, MutexInv, WriteMutexLabels
    <3>3. pc[t] = "W_Leave" /\ pc' = [pc EXCEPT ![t] = "W_LeaveUnlock"]
      BY <1>5, <2>3 DEF UncountWriter
    <3>4. TryPermit'
      BY <1>0, <1>1, <2>1, <3>1, <3>2, <3>3 DEF TryPermit, OnePermit, Keeps, TypeOK
    <3> QED
      BY <1>0, <1>1, <2>1, <3>4, PermitKept DEF PermitInv, TryPermit, ResourcePermit
  <2> QED
    BY <2>2, <2>3
<1> QED
  BY <1>2, <1>3, <1>4, <1>5

LEMMA PermitStep ==
  ASSUME StatusRespected, IInv, NEW t \in Threads,
         Local(t) \/ Acquire(t) \/ Expire(t) \/ Releasing(t)
  PROVE  PermitInv'
<1> USE DEF ReaderHoldsTry, WritersHoldTry, WriterHoldsResource, ReadersHoldResource
<1>0. /\ TypeOK /\ QueueInv /\ MutexInv /\ CountInv /\ TimeoutInv /\ TryPermit /\ ResourcePermit
  BY DEF IInv, PermitInv, TryPermit, ResourcePermit
\* A step that moves no thread to or from a permit.
<1>k. ASSUME permits' = permits, Keeps(ReaderHoldsTry), Keeps(WritersHoldTry),
             Keeps(WriterHoldsResource), Keeps(ReadersHoldResource)
      PROVE  PermitInv'
  BY <1>0, <1>k, PermitKept DEF PermitInv, TryPermit, ResourcePermit
<1>1. CASE CallLockRead(t) \/ CallLockWrite(t) \/ GiveUp(t) \/ CallUnlock(t)
  <2>1. CallMoves(t)
    BY <1>0, <1>1, CallsMove
  <2>2. permits' = permits
    BY <1>1 DEF CallLockRead, CallLockWrite, GiveUp, CallUnlock
  <2> QED
    BY <1>0, <1>k, <2>1, <2>2 DEF CallMoves, Keeps, TypeOK
<1>2. CASE CountReader(t) \/ UncountReader(t) \/ CountWriter(t) \/ UncountWriter(t)
  BY <1>2, CountersPermits
<1>3. CASE UnlockReadCount(t) \/ UnlockReadMutex(t) \/ UnlockWriteCount(t) \/ UnlockWriteMutex(t)
  <2>1. permits' = permits
    BY <1>3 DEF UnlockReadCount, UnlockReadMutex, UnlockWriteCount, UnlockWriteMutex
  <2> QED
    BY <1>0, <1>3, <1>k, <2>1
       DEF UnlockReadCount, UnlockReadMutex, UnlockWriteCount, UnlockWriteMutex, Keeps, TypeOK
<1>4. CASE pc[t] = "W_Undo" /\ Undo(t)
  BY <1>0, <1>4, <1>k DEF Undo, Keeps, TypeOK
<1>5. CASE Expire(t)
  <2>1. pc[t] # "R_Resource"
    <3>1. ASSUME pc[t] = "R_Resource"
          PROVE  FALSE
      <4>1. t \in ToSet(suspended["resource"])
        BY <1>5, <3>1 DEF Expire, SemaphoreAt
      <4>2. suspended["resource"] # <<>>
        BY <4>1 DEF ToSet
      <4>3. permits["resource"] = 0
        BY <1>0, <4>2 DEF QueueInv, Semaphores
      <4> QED
        BY <3>1, <4>3, ResourceIsFree
    <3> QED
      BY <3>1
  <2> QED
    BY <1>0, <1>5, <1>k, <2>1 DEF Expire, Expired, AcquireLabels, Keeps, TypeOK
<1>6. CASE Acquire(t)
  <2> DEFINE s == SemaphoreAt(pc[t])
  <2>0. s \in Semaphores
    BY <1>0, <1>6, AcquireEffect
  <2>1. CASE UNCHANGED <<permits, pc>>
    BY <1>k, <2>1 DEF Keeps
  <2>2. CASE /\ permits[s] > 0
             /\ permits' = [permits EXCEPT ![s] = @ - 1]
             /\ \E g \in Labels : GoesOn(s, pc[t], g) /\ pc' = [pc EXCEPT ![t] = g]
    <3> HIDE DEF s
    <3>1. PICK g \in Labels : GoesOn(s, pc[t], g) /\ pc' = [pc EXCEPT ![t] = g]
      BY <2>2
    <3>2. CASE s = "read_try"
      <4>1. /\ permits["read_try"] = 1 /\ permits'["read_try"] = 0
            /\ permits'["resource"] = permits["resource"]
        BY <1>0, <2>2, <3>2 DEF TryPermit, OnePermit, TypeOK, Semaphores
      <4>2. TryPermit'
        BY <1>0, <3>1, <3>2, <4>1 DEF TryPermit, OnePermit, GoesOn, TypeOK
      <4>3. Keeps(WriterHoldsResource) /\ Keeps(ReadersHoldResource)
        BY <1>0, <3>1, <3>2 DEF GoesOn, Keeps, TypeOK
      <4> QED
        BY <1>0, <4>1, <4>2, <4>3, PermitKept DEF PermitInv, TryPermit, ResourcePermit
    <3>3. CASE s = "resource"
      <4>1. /\ permits["resource"] = 1 /\ permits'["resource"] = 0
            /\ permits'["read_try"] = permits["read_try"]
        BY <1>0, <2>2, <3>3 DEF ResourcePermit, OnePermit, TypeOK, Semaphores
      <4>2. ResourcePermit'
        BY <1>0, <3>1, <3>3, <4>1 DEF ResourcePermit, OnePermit, GoesOn, TypeOK
      <4>3. Keeps(ReaderHoldsTry) /\ Keeps(WritersHoldTry)
        BY <1>0, <3>1, <3>3 DEF GoesOn, Keeps, TypeOK
      <4> QED
        BY <1>0, <4>1, <4>2, <4>3, PermitKept DEF PermitInv, TryPermit, ResourcePermit
    <3> QED
      BY <2>0, <3>2, <3>3 DEF Semaphores
  <2> QED
    BY <1>0, <1>6, <2>1, <2>2, AcquireEffect
<1>7. CASE Releasing(t)
  <2>1. PICK s \in Semaphores, next \in Labels : Releases(t, s, next)
    BY <1>7 DEF Releasing
  <2>2. Release(s, t, next) /\ pc[t] \notin AcquireLabels
    BY <2>1 DEF Releases, AcquireLabels
  <2>3. \/ /\ permits' = [permits EXCEPT ![s] = @ + 1]
           /\ pc' = [pc EXCEPT ![t] = next]
        \/ /\ permits' = permits
           /\ permits[s] = 0
           /\ \E h \in Threads \ {t}, g \in Labels :
                GoesOn(s, pc[h], g) /\ pc' = [pc EXCEPT ![t] = next, ![h] = g]
    BY <1>0, <2>2, ReleaseEffect
  <2>4. CASE s = "read_try"
    <3>1. /\ pc[t] \in {"R_ReleaseTry", "R_Undo", "W_LeaveTry"}
          /\ next \notin ReaderHoldsTry \cup WritersHoldTry
          /\ pc[t] \in ReadersHoldResource <=> next \in ReadersHoldResource
          /\ pc[t] \notin WriterHoldsResource /\ next \notin WriterHoldsResource
      BY <2>1, <2>4 DEF Releases
    \* The releaser is the only holder.
    <3>2. \A u \in Threads \ {t} : pc[u] \notin ReaderHoldsTry \cup WritersHoldTry
      BY <1>0, <3>1 DEF TryPermit, OnePermit, CountInv, MutexInv, WriteMutexLabels, CountedWriters
    <3>3. permits["read_try"] = 0
      BY <1>0, <3>1 DEF TryPermit, OnePermit
    <3>4. permits'["resource"] = permits["resource"]
      BY <1>0, <2>3, <2>4 DEF TypeOK, Semaphores
    <3>5. Keeps(WriterHoldsResource) /\ Keeps(ReadersHoldResource)
      BY <1>0, <2>3, <2>4, <3>1 DEF GoesOn, Keeps, TypeOK
    <3>6. CASE permits' = [permits EXCEPT ![s] = @ + 1] /\ pc' = [pc EXCEPT ![t] = next]
      <4>1. permits'["read_try"] = 1
        BY <1>0, <2>4, <3>3, <3>6 DEF TypeOK, Semaphores
      <4>2. \A u \in Threads : pc'[u] \notin ReaderHoldsTry \cup WritersHoldTry
        BY <1>0, <3>1, <3>2, <3>6 DEF TypeOK
      <4>3. TryPermit'
        BY <4>1, <4>2 DEF TryPermit, OnePermit
      <4> QED
        BY <1>0, <3>4, <3>5, <4>3, PermitKept DEF PermitInv, TryPermit, ResourcePermit
    <3>7. CASE /\ permits' = permits
               /\ \E h \in Threads \ {t}, g \in Labels :
                    GoesOn(s, pc[h], g) /\ pc' = [pc EXCEPT ![t] = next, ![h] = g]
      <4>1. PICK h \in Threads \ {t}, g \in Labels :
              GoesOn(s, pc[h], g) /\ pc' = [pc EXCEPT ![t] = next, ![h] = g]
        BY <3>7
      <4>2. /\ permits'["read_try"] = 0 /\ pc'[h] \in {"R_Count", "W_Unlock"}
            /\ \A u \in Threads \ {h} : pc'[u] \notin ReaderHoldsTry \cup WritersHoldTry
        BY <1>0, <2>4, <3>1, <3>2, <3>3, <3>7, <4>1 DEF GoesOn, TypeOK
      <4>3. TryPermit'
        BY <4>2 DEF TryPermit, OnePermit
      <4> QED
        BY <1>0, <3>4, <3>5, <4>3, PermitKept DEF PermitInv, TryPermit, ResourcePermit
    <3> QED
      BY <2>3, <3>6, <3>7
  <2>5. CASE s = "resource"
    <3>1. /\ pc[t] \in {"U_Resource", "W_Release"}
          /\ next \notin WriterHoldsResource \cup ReadersHoldResource
          /\ pc[t] \in WritersHoldTry <=> next \in WritersHoldTry
          /\ pc[t] \notin ReaderHoldsTry /\ next \notin ReaderHoldsTry
      BY <2>1, <2>5 DEF Releases
    <3>2. \A u \in Threads \ {t} : pc[u] \notin WriterHoldsResource \cup ReadersHoldResource
      BY <1>0, <3>1 DEF ResourcePermit, OnePermit, CountInv, MutexInv, ReadMutexLabels, CountedReaders
    <3>3. permits["resource"] = 0
      BY <1>0, <3>1 DEF ResourcePermit, OnePermit
    <3>4. permits'["read_try"] = permits["read_try"]
      BY <1>0, <2>3, <2>5 DEF TypeOK, Semaphores
    <3>5. Keeps(ReaderHoldsTry) /\ Keeps(WritersHoldTry)
      BY <1>0, <2>3, <2>5, <3>1 DEF GoesOn, Keeps, TypeOK
    <3>6. CASE permits' = [permits EXCEPT ![s] = @ + 1] /\ pc' = [pc EXCEPT ![t] = next]
      <4>1. permits'["resource"] = 1
        BY <1>0, <2>5, <3>3, <3>6 DEF TypeOK, Semaphores
      <4>2. \A u \in Threads : pc'[u] \notin WriterHoldsResource \cup ReadersHoldResource
        BY <1>0, <3>1, <3>2, <3>6 DEF TypeOK
      <4>3. ResourcePermit'
        BY <4>1, <4>2 DEF ResourcePermit, OnePermit
      <4> QED
        BY <1>0, <3>4, <3>5, <4>3, PermitKept DEF PermitInv, TryPermit, ResourcePermit
    <3>7. CASE /\ permits' = permits
               /\ \E h \in Threads \ {t}, g \in Labels :
                    GoesOn(s, pc[h], g) /\ pc' = [pc EXCEPT ![t] = next, ![h] = g]
      <4>1. PICK h \in Threads \ {t}, g \in Labels :
              GoesOn(s, pc[h], g) /\ pc' = [pc EXCEPT ![t] = next, ![h] = g]
        BY <3>7
      <4>2. /\ permits'["resource"] = 0 /\ pc'[h] \in {"R_Unlock", "Writing"}
            /\ \A u \in Threads \ {h} : pc'[u] \notin WriterHoldsResource \cup ReadersHoldResource
        BY <1>0, <2>5, <3>1, <3>2, <3>3, <3>7, <4>1 DEF GoesOn, TypeOK
      <4>3. ResourcePermit'
        BY <4>2 DEF ResourcePermit, OnePermit
      <4> QED
        BY <1>0, <3>4, <3>5, <4>3, PermitKept DEF PermitInv, TryPermit, ResourcePermit
    <3> QED
      BY <2>3, <3>6, <3>7
  <2> QED
    BY <2>4, <2>5 DEF Semaphores
<1> QED
  BY <1>1, <1>2, <1>3, <1>4, <1>5, <1>6, <1>7 DEF Local

-------------------------------------------------------------------------------
(* Time-outs *)

LEMMA TimeoutStep ==
  ASSUME TypeOK, QueueInv, TimeoutInv, NEW t \in Threads,
         Local(t) \/ Acquire(t) \/ Expire(t) \/ Releasing(t)
  PROVE  TimeoutInv'
<1> SUFFICES ASSUME "finite" \notin Timeouts
             PROVE  /\ timed_out' = {}
                    /\ \A u \in Threads :
                         /\ timeout'[u] = "forever"
                         /\ pc'[u] \notin {"R_Failed", "W_Failed", "R_Undo", "W_Undo"}
  BY DEF TimeoutInv
<1>0. /\ timed_out = {}
      /\ \A u \in Threads : /\ timeout[u] = "forever"
                            /\ pc[u] \notin {"R_Failed", "W_Failed", "R_Undo", "W_Undo"}
      /\ pc \in [Threads -> Labels] /\ timeout \in [Threads -> {"finite", "forever"}]
  BY DEF TimeoutInv, TypeOK
<1>1. CASE CallLockRead(t) \/ CallLockWrite(t)
  <2>1. PICK k \in Timeouts : timeout' = [timeout EXCEPT ![t] = k]
    BY <1>1 DEF CallLockRead, CallLockWrite
  <2>2. k = "forever"
    BY <2>1, TimeoutsAssumption
  <2> QED
    BY <1>0, <1>1, <2>1, <2>2 DEF CallLockRead, CallLockWrite
<1>2. CASE GiveUp(t) \/ CallUnlock(t)
  BY <1>0, <1>2 DEF GiveUp, CallUnlock
<1>3. CASE CountReader(t) \/ UncountReader(t) \/ CountWriter(t) \/ UncountWriter(t)
  BY <1>0, <1>3 DEF CountReader, UncountReader, CountWriter, UncountWriter
<1>4. CASE UnlockReadCount(t) \/ UnlockReadMutex(t) \/ UnlockWriteCount(t) \/ UnlockWriteMutex(t)
  BY <1>0, <1>4 DEF UnlockReadCount, UnlockReadMutex, UnlockWriteCount, UnlockWriteMutex
<1>5. CASE Acquire(t)
  <2>1. timed_out' = timed_out /\ timeout' = timeout
    BY <1>5 DEF Acquire
  <2>2. pc' = pc \/ \E g : GoesOn(SemaphoreAt(pc[t]), pc[t], g) /\ pc' = [pc EXCEPT ![t] = g]
    BY <1>5, AcquireEffect
  <2> QED
    BY <1>0, <2>1, <2>2 DEF GoesOn
<1>6. CASE Releasing(t)
  <2>1. PICK s \in Semaphores, next \in Labels : Releases(t, s, next)
    BY <1>6 DEF Releasing
  <2>2. /\ Release(s, t, next) /\ pc[t] \notin AcquireLabels
        /\ timed_out' = timed_out /\ timeout' = timeout
        /\ next \notin {"R_Failed", "W_Failed", "R_Undo", "W_Undo"}
    BY <2>1 DEF Releases, AcquireLabels, ReleaseReadTry, Undo, ReleaseResource, ReleaseTryOfWriters
  <2>3. \/ pc' = [pc EXCEPT ![t] = next]
        \/ \E h \in Threads \ {t}, g \in Labels :
              GoesOn(s, pc[h], g) /\ pc' = [pc EXCEPT ![t] = next, ![h] = g]
    BY <2>2, ReleaseEffect
  <2> QED
    BY <1>0, <2>2, <2>3 DEF GoesOn
<1>7. CASE Expire(t) \/ (pc[t] = "W_Undo" /\ Undo(t))
  BY <1>0, <1>7 DEF Expire
<1> QED
  BY <1>1, <1>2, <1>3, <1>4, <1>5, <1>6, <1>7 DEF Local

-------------------------------------------------------------------------------
(* Theorems *)

LEMMA InitInvariant == Init => IInv
<1> SUFFICES ASSUME Init PROVE IInv
  OBVIOUS
<1>1. pc = [t \in Threads |-> "Idle"]
  BY DEF Init
<1>2. At(CountedReaders) = {} /\ At(CountedWriters) = {}
  BY <1>1 DEF At, CountedReaders, CountedWriters
<1>3. TypeOK
  <2>1. 0 \in 0 .. Modulus - 1
    BY ThreadsAssumption, ModulusAssumption, FS_CardinalityType
  <2> QED
    BY <2>1 DEF Init, TypeOK, Semaphores, Labels
<1>4. QueueInv
  BY DEF Init, QueueInv, Semaphores
<1>5. MutexInv
  BY <1>1, ThreadsAssumption DEF Init, MutexInv, ReadMutexLabels, WriteMutexLabels
<1>6. CountInv
  BY <1>1, <1>2, FS_EmptySet DEF Init, CountInv, CountedReaders, CountedWriters
<1>7. PermitInv
  BY <1>1 DEF Init, PermitInv, OnePermit, Semaphores, ReaderHoldsTry, WritersHoldTry,
              WriterHoldsResource, ReadersHoldResource
<1>8. TimeoutInv
  BY <1>1 DEF Init, TimeoutInv
<1> QED
  BY <1>3, <1>4, <1>5, <1>6, <1>7, <1>8 DEF IInv

LEMMA StutterKeeps ==
  ASSUME UNCHANGED vars
  PROVE  /\ TypeOK /\ QueueInv => TypeOK' /\ QueueInv'
         /\ IInv => IInv'
<1> USE DEF vars
<1>1. (TypeOK => TypeOK') /\ (QueueInv => QueueInv')
  BY DEF TypeOK, QueueInv
<1>2. (MutexInv => MutexInv') /\ (TimeoutInv => TimeoutInv')
  BY DEF MutexInv, TimeoutInv
<1>3. CountInv => CountInv'
  BY DEF CountInv, At
<1>4. PermitInv => PermitInv'
  BY DEF PermitInv, OnePermit
<1> QED
  BY <1>1, <1>2, <1>3, <1>4 DEF IInv

LEMMA StepInvariant ==
  ASSUME StatusRespected, IInv, [Next]_vars
  PROVE  IInv'
<1>1. CASE UNCHANGED vars
  BY <1>1, StutterKeeps
<1>2. CASE Next
  <2>1. PICK t \in Threads : Local(t) \/ Acquire(t) \/ Expire(t) \/ Releasing(t)
    BY <1>2, StepKinds DEF Next
  <2>2. TypeOK' /\ QueueInv'
    BY <2>1, TypeStep, QueueStep DEF IInv
  <2>3. MutexInv' /\ TimeoutInv'
    BY <2>1, MutexStep, TimeoutStep DEF IInv
  <2>4. CountInv' /\ PermitInv'
    BY <2>1, CountStep, PermitStep
  <2> QED
    BY <2>2, <2>3, <2>4 DEF IInv
<1> QED
  BY <1>1, <1>2

\* Whatever the callers do with the status, the variables keep their types, a
\* thread is on at most one suspension list, once, at the acquire that put it
\* there, and a semaphore with a waiting thread has no permit.
THEOREM TypeCorrect == Spec => []TypeOK
<1>1. Init => TypeOK /\ QueueInv
  BY InitInvariant DEF IInv
<1>2. TypeOK /\ QueueInv /\ [Next]_vars => (TypeOK /\ QueueInv)'
  <2> SUFFICES ASSUME TypeOK, QueueInv, [Next]_vars
               PROVE  TypeOK' /\ QueueInv'
    OBVIOUS
  <2>1. CASE UNCHANGED vars
    BY <2>1, StutterKeeps
  <2>2. CASE Next
    <3>1. PICK t \in Threads : Local(t) \/ Acquire(t) \/ Expire(t) \/ Releasing(t)
      BY <2>2, StepKinds DEF Next
    <3> QED
      BY <3>1, TypeStep, QueueStep
  <2> QED
    BY <2>1, <2>2
<1> QED
  BY <1>1, <1>2, PTL DEF Spec

\* The inductive invariant, for callers that test the status or wait for ever.
THEOREM Invariance == StatusRespected => (Spec => []IInv)
<1> SUFFICES ASSUME StatusRespected PROVE Spec => []IInv
  OBVIOUS
<1>1. IInv /\ [Next]_vars => IInv'
  BY StepInvariant
<1> QED
  BY <1>1, InitInvariant, PTL DEF Spec

\* A writer excludes everybody else, for any number of threads and any mixture
\* of time-outs, provided a caller whose lock call failed stays out.
THEOREM MutualExclusion == StatusRespected => (Spec => []WriterIsAlone)
<1> SUFFICES ASSUME StatusRespected PROVE Spec => []WriterIsAlone
  OBVIOUS
<1>1. IInv => WriterIsAlone
  <2> SUFFICES ASSUME IInv, NEW t \in Threads, InWriting(t), NEW u \in Threads \ {t}
               PROVE  ~ InWriting(u) /\ ~ InReading(u)
    BY DEF WriterIsAlone
  <2>1. \A v \in Threads : /\ InWriting(v) <=> pc[v] = "Writing"
                           /\ InReading(v) <=> pc[v] = "Reading"
    BY DEF StatusRespected, InWriting, InReading, IInv, TimeoutInv
  <2> QED
    BY <2>1 DEF IInv, PermitInv, OnePermit, WriterHoldsResource, ReadersHoldResource
<1> QED
  BY <1>1, Invariance, PTL

\* The first reader never blocks on the resource while it owns m_read_count_mtx.
THEOREM FirstReaderNeverWaits == StatusRespected => (Spec => []ReaderFindsResource)
<1> SUFFICES ASSUME StatusRespected PROVE Spec => []ReaderFindsResource
  OBVIOUS
<1>1. IInv => ReaderFindsResource
  BY ResourceIsFree DEF ReaderFindsResource
<1> QED
  BY <1>1, Invariance, PTL

\* Unlocking never waits for a mutex whose owner is blocked on a semaphore: the
\* writer that blocks on read_try is the first one, so none is there to unlock.
THEOREM UnlockNeverBlocked == StatusRespected => (Spec => []UnlockIsPrompt)
<1> SUFFICES ASSUME StatusRespected PROVE Spec => []UnlockIsPrompt
  OBVIOUS
<1>1. IInv => UnlockIsPrompt
  <2> SUFFICES ASSUME IInv, NEW o \in Threads, IsSuspended(o)
               PROVE  /\ read_mtx = o  => At({"U_Count"}) = {}
                      /\ write_mtx = o => At({"W_Leave"}) = {}
    BY DEF UnlockIsPrompt
  <2>1. PICK s \in Semaphores : o \in ToSet(suspended[s])
    BY DEF IsSuspended
  <2>2. PICK i \in 1 .. Len(suspended[s]) : suspended[s][i] = o
    BY <2>1 DEF ToSet
  <2>3. pc[o] \in AcquireLabels /\ SemaphoreAt(pc[o]) = s
    BY <2>2 DEF IInv, QueueInv
  <2>4. permits[s] = 0
    <3>1. suspended[s] # <<>>
      BY <2>2
    <3> QED
      BY <3>1 DEF IInv, QueueInv
  <2>5. read_mtx # o
    <3>1. pc[o] # "R_Resource"
      BY <2>3, <2>4, ResourceIsFree DEF SemaphoreAt
    <3> QED
      BY <2>3, <3>1 DEF AcquireLabels, IInv, MutexInv, ReadMutexLabels
  <2>6. ASSUME write_mtx = o
        PROVE  At({"W_Leave"}) = {}
    <3>1. pc[o] = "W_Try"
      BY <2>3, <2>6 DEF AcquireLabels, IInv, MutexInv, WriteMutexLabels
    <3>2. \A u \in Threads : pc[u] # "W_Leave"
      BY <3>1 DEF IInv, CountInv, CountedWriters
    <3> QED
      BY <3>2 DEF At
  <2> QED
    BY <2>5, <2>6
<1> QED
  BY <1>1, Invariance, PTL

\* The holders of a permit, counted: exactly one of the three places has it.
LEMMA OnePermitCounted ==
  ASSUME NEW s, NEW E, NEW G, OnePermit(s, E, G)
  PROVE  permits[s] + Cardinality(At(E)) + OneIfAny(At(G)) = 1
<1>1. CASE permits[s] = 1
  <2>1. At(E) = {} /\ At(G) = {}
    BY <1>1 DEF OnePermit, At
  <2> QED
    BY <1>1, <2>1, FS_EmptySet DEF OneIfAny
<1>2. CASE permits[s] # 1
  <2>1. permits[s] = 0 /\ \E t \in Threads : pc[t] \in E \cup G
    BY <1>2 DEF OnePermit
  <2>2. CASE \E t \in Threads : pc[t] \in E
    <3>1. PICK t \in Threads : pc[t] \in E
      BY <2>2
    <3>2. At(E) = {t} /\ At(G) = {}
      BY <3>1 DEF OnePermit, At
    <3>3. Cardinality({t}) = 1
      BY FS_Singleton
    <3> QED
      BY <2>1, <3>2, <3>3 DEF OneIfAny
  <2>3. CASE ~ \E t \in Threads : pc[t] \in E
    <3>1. At(E) = {} /\ At(G) # {}
      BY <2>1, <2>3 DEF At
    <3> QED
      BY <2>1, <3>1, FS_EmptySet DEF OneIfAny
  <2> QED
    BY <2>2, <2>3
<1> QED
  BY <1>1, <1>2

\* Neither semaphore ever loses its permit or gets a second one.
THEOREM PermitsAreConserved == StatusRespected => (Spec => []PermitsConserved)
<1> SUFFICES ASSUME StatusRespected PROVE Spec => []PermitsConserved
  OBVIOUS
<1>1. IInv => PermitsConserved
  BY OnePermitCounted DEF IInv, PermitInv, PermitsConserved
<1> QED
  BY <1>1, Invariance, PTL

-------------------------------------------------------------------------------
(* The lock keeps its promise: every behaviour of ReadWriteLock, its semaphores,
   mutexes and counters hidden, is one of ReadWriteExclusion.  Each step of the
   lock moves at most one thread in or out of readers, writers and waiting. *)


Admitted == {"R_Unlock", "R_ReleaseTry", "Reading"}

\* How a step changes the set of threads at some labels.
LEMMA SetMoves ==
  ASSUME NEW t \in Threads, NEW L
  PROVE  /\ Keeps(L) => At(L)' = At(L)
         /\ Enters(t, L) => At(L)' = At(L) \cup {t}
         /\ Leaves(t, L) => At(L)' = At(L) \ {t}
  BY DEF At, Keeps, Enters, Leaves

\* A step that moves no thread in or out.
LEMMA Silent ==
  ASSUME Keeps(Admitted), Keeps({"Writing"}), Keeps({"W_Resource"})
  PROVE  UNCHANGED Promise!vars
  BY DEF Keeps, At, Admitted, Promise!vars

\* A reader is admitted with the read_try permit in its hand, which no writer
\* that holds or waits for the resource has left.
LEMMA Admission ==
  ASSUME IInv, NEW t \in Threads, pc[t] \in ReaderHoldsTry,
         Enters(t, Admitted), Keeps({"Writing"}), Keeps({"W_Resource"})
  PROVE  Promise!BeginRead(t)
<1>1. \A u \in Threads : pc[u] \notin WritersHoldTry
  BY DEF IInv, PermitInv, OnePermit
<1>2. At({"Writing"}) = {} /\ At({"W_Resource"}) = {}
  BY <1>1 DEF At, WritersHoldTry
<1>3. /\ At(Admitted)' = At(Admitted) \cup {t}
      /\ At({"Writing"})' = At({"Writing"}) /\ At({"W_Resource"})' = At({"W_Resource"})
  BY SetMoves
<1> QED
  BY <1>2, <1>3 DEF Promise!BeginRead, Admitted

\* A writer gets the resource when nobody is in a section.
LEMMA WriterEnters ==
  ASSUME NEW h \in Threads, pc[h] = "W_Resource",
         \A u \in Threads : pc[u] \notin Admitted /\ pc[u] # "Writing",
         Enters(h, {"Writing"}), Leaves(h, {"W_Resource"}), Keeps(Admitted)
  PROVE  Promise!BeginWrite(h)
<1>1. At(Admitted) = {} /\ At({"Writing"}) = {} /\ h \in At({"W_Resource"})
  BY DEF At
<1>2. /\ At(Admitted)' = At(Admitted)
      /\ At({"Writing"})' = At({"Writing"}) \cup {h}
      /\ At({"W_Resource"})' = At({"W_Resource"}) \ {h}
  BY SetMoves
<1> QED
  BY <1>1, <1>2 DEF Promise!BeginWrite, Admitted

\* Handing out the permit of a semaphore, or finding it there.
LEMMA GrantStep ==
  ASSUME IInv, NEW h \in Threads, NEW s \in Semaphores, NEW g \in Labels, GoesOn(s, pc[h], g),
         s = "resource" => \A u \in Threads : pc[u] \notin Admitted /\ pc[u] # "Writing",
         pc'[h] = g,
         \A u \in Threads \ {h} : \A L \in {Admitted, {"Writing"}, {"W_Resource"}} :
           pc'[u] \in L <=> pc[u] \in L
  PROVE  Promise!Next \/ UNCHANGED Promise!vars
<1>1. CASE s = "read_try"
  <2>1. Keeps(Admitted) /\ Keeps({"Writing"}) /\ Keeps({"W_Resource"})
    BY <1>1 DEF GoesOn, Keeps, Admitted
  <2> QED
    BY <2>1, Silent
<1>2. CASE pc[h] = "R_Resource" /\ g = "R_Unlock"
  <2>1. Enters(h, Admitted) /\ Keeps({"Writing"}) /\ Keeps({"W_Resource"})
    BY <1>2 DEF Enters, Keeps, Admitted
  <2>2. Promise!BeginRead(h)
    BY <1>2, <2>1, Admission DEF ReaderHoldsTry
  <2> QED
    BY <2>2 DEF Promise!Next
<1>3. CASE s = "resource" /\ pc[h] = "W_Resource" /\ g = "Writing"
  <2>1. Keeps(Admitted) /\ Enters(h, {"Writing"}) /\ Leaves(h, {"W_Resource"})
    BY <1>3 DEF Enters, Leaves, Keeps, Admitted
  <2>2. Promise!BeginWrite(h)
    BY <1>3, <2>1, WriterEnters
  <2> QED
    BY <2>2 DEF Promise!Next
<1> QED
  BY <1>1, <1>2, <1>3 DEF GoesOn, Semaphores

LEMMA LocalStep ==
  ASSUME StatusRespected, IInv, NEW t \in Threads, Local(t)
  PROVE  Promise!Next \/ UNCHANGED Promise!vars
<1>0. pc \in [Threads -> Labels]
  BY DEF IInv, TypeOK
<1>1. CASE CallLockRead(t) \/ CallLockWrite(t) \/ GiveUp(t) \/ CallUnlock(t)
  <2>1. CallMoves(t)
    BY <1>1, CallsMove DEF IInv
  <2>2. CASE pc[t] = "Reading"
    <3>1. Leaves(t, Admitted) /\ Keeps({"Writing"}) /\ Keeps({"W_Resource"})
      BY <1>0, <2>1, <2>2 DEF CallMoves, Leaves, Keeps, Admitted
    <3>2. t \in At(Admitted)
      BY <2>2 DEF At, Admitted
    <3>3. Promise!EndRead(t)
      BY <3>1, <3>2, SetMoves DEF Promise!EndRead, Admitted
    <3> QED
      BY <3>3 DEF Promise!Next
  <2>3. CASE pc[t] = "Writing"
    <3>1. Keeps(Admitted) /\ Leaves(t, {"Writing"}) /\ Keeps({"W_Resource"})
      BY <1>0, <2>1, <2>3 DEF CallMoves, Leaves, Keeps, Admitted
    <3>2. t \in At({"Writing"})
      BY <2>3 DEF At
    <3>3. Promise!EndWrite(t)
      BY <3>1, <3>2, SetMoves DEF Promise!EndWrite, Admitted
    <3> QED
      BY <3>3 DEF Promise!Next
  <2>4. CASE pc[t] \notin {"Reading", "Writing"}
    <3>1. Keeps(Admitted) /\ Keeps({"Writing"}) /\ Keeps({"W_Resource"})
      BY <1>0, <2>1, <2>4 DEF CallMoves, Keeps, Admitted
    <3> QED
      BY <3>1, Silent
  <2> QED
    BY <2>2, <2>3, <2>4
<1>2. CASE CountReader(t)
  <2>1. CASE read_count' = 1
    <3>1. Keeps(Admitted) /\ Keeps({"Writing"}) /\ Keeps({"W_Resource"})
      BY <1>0, <1>2, <2>1 DEF CountReader, Keeps, Admitted
    <3> QED
      BY <3>1, Silent
  <2>2. CASE read_count' # 1
    <3>1. Enters(t, Admitted) /\ Keeps({"Writing"}) /\ Keeps({"W_Resource"})
      BY <1>0, <1>2, <2>2 DEF CountReader, Enters, Keeps, Admitted
    <3>2. Promise!BeginRead(t)
      BY <1>2, <3>1, Admission DEF CountReader, ReaderHoldsTry
    <3> QED
      BY <3>2 DEF Promise!Next
  <2> QED
    BY <2>1, <2>2
<1>3. CASE UnlockWriteCount(t)
  <2>1. Keeps(Admitted) /\ Keeps({"Writing"}) /\ Enters(t, {"W_Resource"})
    BY <1>0, <1>3 DEF UnlockWriteCount, Enters, Keeps, Admitted
  <2>2. t \notin At({"Writing"})
    BY <1>3 DEF UnlockWriteCount, At
  <2>3. Promise!AnnounceWrite(t)
    BY <2>1, <2>2, SetMoves DEF Promise!AnnounceWrite, Admitted
  <2> QED
    BY <2>3 DEF Promise!Next
<1>4. CASE \/ UncountReader(t) \/ CountWriter(t) \/ UncountWriter(t)
           \/ UnlockReadCount(t) \/ UnlockReadMutex(t) \/ UnlockWriteMutex(t)
           \/ (pc[t] = "W_Undo" /\ Undo(t))
  <2>1. Keeps(Admitted) /\ Keeps({"Writing"}) /\ Keeps({"W_Resource"})
    BY <1>0, <1>4 DEF UncountReader, CountWriter, UncountWriter, UnlockReadCount,
                      UnlockReadMutex, UnlockWriteMutex, Undo, Keeps, Admitted
  <2> QED
    BY <2>1, Silent
<1> QED
  BY <1>1, <1>2, <1>3, <1>4 DEF Local

LEMMA ReleasingStep ==
  ASSUME IInv, NEW t \in Threads, Releasing(t)
  PROVE  Promise!Next \/ UNCHANGED Promise!vars
<1>0. TypeOK /\ QueueInv /\ pc \in [Threads -> Labels]
  BY DEF IInv, TypeOK
<1>1. PICK s \in Semaphores, next \in Labels : Releases(t, s, next)
  BY DEF Releasing
<1>2. /\ Release(s, t, next) /\ pc[t] \notin AcquireLabels
      /\ pc[t] \in Admitted <=> next \in Admitted
      /\ pc[t] \notin {"Writing", "W_Resource"} /\ next \notin {"Writing", "W_Resource"}
  BY <1>1 DEF Releases, AcquireLabels, Admitted
<1>3. CASE pc' = [pc EXCEPT ![t] = next]
  <2>1. Keeps(Admitted) /\ Keeps({"Writing"}) /\ Keeps({"W_Resource"})
    BY <1>0, <1>2, <1>3 DEF Keeps
  <2> QED
    BY <2>1, Silent
<1>4. CASE \E h \in Threads \ {t}, g \in Labels :
             GoesOn(s, pc[h], g) /\ pc' = [pc EXCEPT ![t] = next, ![h] = g]
  <2>1. PICK h \in Threads \ {t}, g \in Labels :
          GoesOn(s, pc[h], g) /\ pc' = [pc EXCEPT ![t] = next, ![h] = g]
    BY <1>4
  <2>2. pc'[h] = g /\ pc'[t] = next /\ \A u \in Threads \ {t, h} : pc'[u] = pc[u]
    BY <1>0, <2>1
  \* Who releases the resource is the last one in a section.
  <2>3. ASSUME s = "resource", NEW u \in Threads
        PROVE  pc[u] \notin Admitted /\ pc[u] # "Writing"
    <3>1. CASE pc[t] = "U_Resource"
      BY <3>1 DEF IInv, CountInv, CountedReaders, Admitted, PermitInv, OnePermit,
                  WriterHoldsResource, ReadersHoldResource
    <3>2. CASE pc[t] = "W_Release"
      BY <3>2 DEF IInv, Admitted, PermitInv, OnePermit, WriterHoldsResource, ReadersHoldResource
    <3> QED
      BY <1>1, <2>3, <3>1, <3>2 DEF Releases
  <2>4. \A u \in Threads \ {h} : \A L \in {Admitted, {"Writing"}, {"W_Resource"}} :
          pc'[u] \in L <=> pc[u] \in L
    BY <1>2, <2>2
  <2> QED
    BY <2>1, <2>2, <2>3, <2>4, GrantStep
<1> QED
  BY <1>0, <1>2, <1>3, <1>4, ReleaseEffect

LEMMA AcquireStep ==
  ASSUME IInv, NEW t \in Threads, Acquire(t)
  PROVE  Promise!Next \/ UNCHANGED Promise!vars
<1>0. TypeOK /\ pc \in [Threads -> Labels]
  BY DEF IInv, TypeOK
<1> DEFINE s == SemaphoreAt(pc[t])
<1>1. s \in Semaphores
  BY <1>0, AcquireEffect
<1>2. CASE UNCHANGED <<permits, pc>>
  <2>1. Keeps(Admitted) /\ Keeps({"Writing"}) /\ Keeps({"W_Resource"})
    BY <1>2 DEF Keeps
  <2> QED
    BY <2>1, Silent
<1>3. CASE permits[s] > 0 /\ \E g \in Labels : GoesOn(s, pc[t], g) /\ pc' = [pc EXCEPT ![t] = g]
  <2> HIDE DEF s
  <2>1. PICK g \in Labels : GoesOn(s, pc[t], g) /\ pc' = [pc EXCEPT ![t] = g]
    BY <1>3
  <2>2. pc'[t] = g /\ \A u \in Threads \ {t} : pc'[u] = pc[u]
    BY <1>0, <2>1
  <2>3. ASSUME s = "resource", NEW u \in Threads
        PROVE  pc[u] \notin Admitted /\ pc[u] # "Writing"
    <3>1. permits["resource"] = 1
      BY <1>3, <2>3 DEF IInv, PermitInv, OnePermit
    <3> QED
      BY <3>1 DEF IInv, PermitInv, OnePermit, Admitted, WriterHoldsResource, ReadersHoldResource
  <2> QED
    BY <1>1, <2>1, <2>2, <2>3, GrantStep
<1> QED
  BY <1>0, <1>2, <1>3, AcquireEffect

LEMMA ExpireStep ==
  ASSUME IInv, NEW t \in Threads, Expire(t)
  PROVE  Promise!Next \/ UNCHANGED Promise!vars
<1>0. pc \in [Threads -> Labels]
  BY DEF IInv, TypeOK
<1>1. CASE pc[t] = "W_Resource"
  <2>1. Keeps(Admitted) /\ Keeps({"Writing"}) /\ Leaves(t, {"W_Resource"})
    BY <1>0, <1>1 DEF Expire, Expired, Leaves, Keeps, Admitted
  <2>2. t \in At({"W_Resource"})
    BY <1>1 DEF At
  <2>3. Promise!WithdrawWrite(t)
    BY <2>1, <2>2, SetMoves DEF Promise!WithdrawWrite, Admitted
  <2> QED
    BY <2>3 DEF Promise!Next
<1>2. CASE pc[t] # "W_Resource"
  <2>1. Keeps(Admitted) /\ Keeps({"Writing"}) /\ Keeps({"W_Resource"})
    BY <1>0, <1>2 DEF Expire, Expired, AcquireLabels, Keeps, Admitted
  <2> QED
    BY <2>1, Silent
<1> QED
  BY <1>1, <1>2

\* The lock keeps its promise: writers are alone, and while a writer waits for
\* the resource no reader is admitted, for any number of threads, provided a
\* caller whose lock call failed stays out.
THEOREM Refinement == StatusRespected => (Spec => KeepsPromise)
<1> SUFFICES ASSUME StatusRespected PROVE Spec => Promise!Spec
  BY DEF KeepsPromise
<1>1. Init => Promise!Init
  BY DEF Init, Promise!Init, At
<1>2. ASSUME IInv, [Next]_vars
      PROVE  [Promise!Next]_(Promise!vars)
  <2>1. CASE UNCHANGED vars
    BY <2>1 DEF vars, Promise!vars, At
  <2>2. CASE Next
    <3>1. PICK t \in Threads : Local(t) \/ Acquire(t) \/ Expire(t) \/ Releasing(t)
      BY <2>2, StepKinds DEF Next
    <3> QED
      BY <1>2, <3>1, LocalStep, AcquireStep, ExpireStep, ReleasingStep
  <2> QED
    BY <1>2, <2>1, <2>2
<1> QED
  BY <1>1, <1>2, Invariance, PTL DEF Spec, Promise!Spec
===============================================================================
