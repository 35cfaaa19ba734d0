-------------------------- MODULE SignalManagerWalk --------------------------
(***************************************************************************)
(* What an emission can rely on while it walks a list of connections, for  *)
(* any number of threads, objects, signals and connections.                *)
(*                                                                         *)
(* A thread that walks a list is among the readers, a thread that changes  *)
(* the table is a writer, and a writer is alone: the list and its count    *)
(* stay as they were found.  The numbers of emissions are never shared, so *)
(* that the total of an emission is its own.  An object is destroyed by    *)
(* the thread that serves its signals, which no other thread's queue gets. *)
(* What an emission owes is counted by where it is: in the list, in a      *)
(* thread's hands, in a queue, or released.                                *)
(***************************************************************************)
EXTENDS SignalManagerProofs

Step(t) == TableStep(t) \/ EmitStep(t) \/ ObjectStep(t)

-------------------------------------------------------------------------------
(* The ends of a list *)

LEMMA SuffixMeans ==
  ASSUME NEW S, NEW s \in Seq(S), NEW q \in Seq(S)
  PROVE  IsSuffix(s, q) <=>
           /\ Len(s) <= Len(q)
           /\ \A i \in 1 .. Len(s) : s[i] = q[(Len(q) - Len(s)) + i]
<1> DEFINE m == Len(s)
           n == Len(q)
           rs == Reverse(s)
           rq == Reverse(q)
           ps == SubSeq(rs, 1, m)
           pq == SubSeq(rq, 1, m)
<1>1. m \in Nat /\ n \in Nat
  BY LenProperties
<1>2. ASSUME NEW x \in Seq(S)
      PROVE  /\ Len(Reverse(x)) = Len(x)
             /\ \A i \in 1 .. Len(x) : Reverse(x)[i] = x[(Len(x) - i) + 1] /\ Reverse(x)[i] \in S
  <2>1. Len(x) \in Nat
    BY LenProperties
  <2>2. Reverse(x) = [i \in 1 .. Len(x) |-> x[(Len(x) - i) + 1]]
    BY DEF Reverse
  <2>3. \A i \in 1 .. Len(x) : (Len(x) - i) + 1 \in 1 .. Len(x)
    BY <2>1
  <2>4. \A i \in 1 .. Len(x) : x[(Len(x) - i) + 1] \in S
    BY <2>3, ElementOfSeq
  <2>5. Len(Reverse(x)) = Len(x)
    BY <2>1, <2>2
  <2> QED
    BY <2>2, <2>4, <2>5
<1>3. /\ Len(rs) = m /\ Len(rq) = n
      /\ \A i \in 1 .. m : rs[i] = s[(m - i) + 1] /\ rs[i] \in S
      /\ \A i \in 1 .. n : rq[i] = q[(n - i) + 1] /\ rq[i] \in S
  BY <1>2
<1>4. IsSuffix(s, q) <=> m <= n /\ ps = pq
  BY <1>3 DEF IsSuffix, IsPrefix
<1>5. ASSUME m <= n
      PROVE  ps = pq <=> \A i \in 1 .. m : s[i] = q[(n - m) + i]
  <2> HIDE DEF m, n, rs, rq
  <2>0. \A i \in 1 .. m : rs[i] \in S /\ rq[i] \in S
    BY <1>1, <1>3, <1>5
  <2>1. /\ ps \in Seq(S) /\ Len(ps) = m
        /\ \A i \in 1 .. m : ps[i] = rs[i]
    <3>1. /\ ps \in Seq(S) /\ Len(ps) = IF 1 <= m THEN m - 1 + 1 ELSE 0
          /\ \A i \in 1 .. m - 1 + 1 : ps[i] = rs[1 + i - 1]
      BY <1>1, <2>0, SubSeqProperties
    <3> HIDE DEF ps
    <3> QED
      BY <1>1, <3>1
  <2>2. /\ pq \in Seq(S) /\ Len(pq) = m
        /\ \A i \in 1 .. m : pq[i] = rq[i]
    <3>1. /\ pq \in Seq(S) /\ Len(pq) = IF 1 <= m THEN m - 1 + 1 ELSE 0
          /\ \A i \in 1 .. m - 1 + 1 : pq[i] = rq[1 + i - 1]
      BY <1>1, <2>0, SubSeqProperties
    <3> HIDE DEF pq
    <3> QED
      BY <1>1, <3>1
  <2>3. ps = pq <=> \A i \in 1 .. m : rs[i] = rq[i]
    <3> HIDE DEF ps, pq
    <3>1. ps = pq => \A i \in 1 .. m : rs[i] = rq[i]
      BY <2>1, <2>2
    <3>2. (\A i \in 1 .. m : rs[i] = rq[i]) => ps = pq
      <4>1. SUFFICES ASSUME \A i \in 1 .. m : rs[i] = rq[i] PROVE ps = pq
        OBVIOUS
      <4>2. \A i \in 1 .. Len(ps) : ps[i] = pq[i]
        BY <2>1, <2>2, <4>1
      <4> QED
        BY <2>1, <2>2, <4>2, SeqEqual
    <3> QED
      BY <3>1, <3>2
  <2>4. (\A i \in 1 .. m : rs[i] = rq[i]) <=> (\A i \in 1 .. m : s[i] = q[(n - m) + i])
    <3>1. ASSUME \A i \in 1 .. m : rs[i] = rq[i], NEW i \in 1 .. m
          PROVE  s[i] = q[(n - m) + i]
      <4> DEFINE j == (m - i) + 1
      <4>1. j \in 1 .. m /\ j \in 1 .. n /\ (m - j) + 1 = i /\ (n - j) + 1 = (n - m) + i
        BY <1>1, <1>5
      <4>2. rs[j] = s[i] /\ rq[j] = q[(n - m) + i]
        BY <1>3, <4>1
      <4> QED
        BY <3>1, <4>1, <4>2
    <3>2. ASSUME \A i \in 1 .. m : s[i] = q[(n - m) + i], NEW i \in 1 .. m
          PROVE  rs[i] = rq[i]
      <4> DEFINE j == (m - i) + 1
      <4>1. j \in 1 .. m /\ i \in 1 .. n /\ (n - m) + j = (n - i) + 1
        BY <1>1, <1>5
      <4>2. rs[i] = s[j] /\ rq[i] = q[(n - i) + 1]
        BY <1>3, <4>1
      <4>3. s[j] = q[(n - m) + j]
        BY <3>2, <4>1
      <4> QED
        BY <4>1, <4>2, <4>3
    <3> QED
      BY <3>1, <3>2
  <2> QED
    BY <2>3, <2>4
<1> QED
  BY <1>4, <1>5

LEMMA SuffixOfItself ==
  ASSUME NEW S, NEW q \in Seq(S)
  PROVE  IsSuffix(q, q)
<1>1. Len(q) \in Nat
  BY LenProperties
<1>2. Len(q) <= Len(q) /\ \A i \in 1 .. Len(q) : q[i] = q[(Len(q) - Len(q)) + i]
  BY <1>1
<1> QED
  BY <1>2, SuffixMeans

LEMMA SuffixLosesHead ==
  ASSUME NEW S, NEW s \in Seq(S), NEW q \in Seq(S), IsSuffix(s, q), s # <<>>
  PROVE  IsSuffix(Tail(s), q)
<1>1. /\ Tail(s) \in Seq(S) /\ Len(Tail(s)) = Len(s) - 1
      /\ \A i \in 1 .. Len(Tail(s)) : Tail(s)[i] = s[i + 1]
      /\ Len(s) \in Nat /\ Len(q) \in Nat
  BY HeadTailProperties, LenProperties
<1>2. Len(s) <= Len(q) /\ \A i \in 1 .. Len(s) : s[i] = q[(Len(q) - Len(s)) + i]
  BY SuffixMeans
<1>3. Len(Tail(s)) <= Len(q)
  BY <1>1, <1>2
<1>4. \A i \in 1 .. Len(Tail(s)) : Tail(s)[i] = q[(Len(q) - Len(Tail(s))) + i]
  <2> SUFFICES ASSUME NEW i \in 1 .. Len(Tail(s))
               PROVE  Tail(s)[i] = q[(Len(q) - Len(Tail(s))) + i]
    OBVIOUS
  <2>1. /\ i + 1 \in 1 .. Len(s)
        /\ (Len(q) - Len(s)) + (i + 1) = (Len(q) - Len(Tail(s))) + i
    BY <1>1
  <2>2. s[i + 1] = q[(Len(q) - Len(s)) + (i + 1)]
    BY <1>2, <2>1
  <2> QED
    BY <1>1, <2>1, <2>2
<1> QED
  BY <1>1, <1>3, <1>4, SuffixMeans

-------------------------------------------------------------------------------
(* The places of the threads and the lock *)

LEMMA NextOnlyMoves ==
  ASSUME ThreadTypes, NEW t \in Threads, Step(t)
  PROVE  OnlyMoves(t)
<1> DEFINE Kept(f) == f' = f \/ \E x : f' = [f EXCEPT ![t] = x]
<1>1. ASSUME Kept(pc), Kept(op), Kept(rest), Kept(current), Kept(target), Kept(emission)
      PROVE  OnlyMoves(t)
  BY <1>1 DEF ThreadTypes, OnlyMoves
<1>2. CASE \E from \in Labels : Returns(t, from)
  BY <1>1, <1>2 DEF Returns, Goes
<1>3. TableStep(t) => OnlyMoves(t)
  <2>1. CASE AddConnection(t) \/ RemoveConnection(t) \/ RemoveSignal(t) \/ RemoveReceiver(t)
    BY <1>2, <2>1 DEF AddConnection, RemoveConnection, RemoveSignal, RemoveReceiver, Unlocks, Labels
  <2>2. CASE CallConnect(t) \/ CallDisconnect(t) \/ CallDisconnectSignal(t)
    BY <1>1, <2>2 DEF CallConnect, CallDisconnect, CallDisconnectSignal, Calls, Goes
  <2>3. CASE AnnounceWrite(t) \/ BeginWrite(t)
    BY <1>1, <2>3 DEF AnnounceWrite, BeginWrite, Goes
  <2> QED
    BY <2>1, <2>2, <2>3 DEF TableStep
<1>4. EmitStep(t) => OnlyMoves(t)
  <2>1. CASE OutOfSemaphores(t) \/ EndEmit(t)
    BY <1>2, <2>1 DEF OutOfSemaphores, EndEmit, Labels
  <2>2. CASE CallEmit(t) \/ LockEmit(t) \/ Count(t) \/ BeginWalk(t)
    BY <1>1, <2>2 DEF CallEmit, LockEmit, Count, BeginWalk, Goes
  <2>3. CASE Visit(t)
    BY <1>1, <2>3 DEF Visit, Goes
  <2>4. CASE Execute(t) \/ ExecuteFails(t) \/ HandlerReturns(t) \/ Posts(t) \/ PostFails(t)
             \/ PostFaults(t)
    BY <1>1, <2>4 DEF Execute, ExecuteFails, HandlerReturns, Posts, PostFails, PostFaults, Goes
  <2> QED
    BY <2>1, <2>2, <2>3, <2>4 DEF EmitStep
<1>5. ObjectStep(t) => OnlyMoves(t)
  <2>1. CASE DestroyPackage(t)
    BY <1>2, <2>1 DEF DestroyPackage, Labels
  <2>2. CASE Receive(t) \/ Process(t) \/ Destruct(t)
    BY <1>1, <2>2 DEF Receive, Process, Destruct, Goes
  <2>3. CASE ClearOne(t) \/ Cleared(t) \/ Invalidate(t)
    BY <1>1, <2>3 DEF ClearOne, Cleared, Invalidate, Goes
  <2> QED
    BY <2>1, <2>2, <2>3 DEF ObjectStep
<1> QED
  BY <1>3, <1>4, <1>5 DEF Step

\* The places of a thread that holds the lock for reading.
Reading == Emitting \ {"emit"}

\* Who is among the readers and the writers is told by the places, and a writer
\* keeps the readers out.
LockPlaces ==
  /\ \A t \in Threads : (t \in readers <=> pc[t] \in Reading) /\ (t \in writers <=> pc[t] = "write")
  /\ writers # {} => readers = {}

LEMMA LockPlacesKept ==
  ASSUME LockPlaces, ThreadTypes, NEW t \in Threads, OnlyMoves(t),
         \/ /\ UNCHANGED lock_vars
            /\ pc[t] \in Reading <=> pc'[t] \in Reading
            /\ pc[t] = "write" <=> pc'[t] = "write"
         \/ Lock!BeginRead(t) /\ pc'[t] \in Reading
         \/ Lock!EndRead(t) /\ pc'[t] = "idle"
         \/ Lock!AnnounceWrite(t) /\ pc[t] = "lock" /\ pc'[t] = "wait"
         \/ Lock!BeginWrite(t) /\ pc'[t] = "write"
         \/ Lock!EndWrite(t) /\ pc'[t] = "idle"
  PROVE  LockPlaces'
<1>1. ASSUME NEW u \in Threads \ {t} PROVE pc'[u] = pc[u]
  BY <1>1 DEF OnlyMoves
<1> USE DEF LockPlaces, Reading, Emitting
<1>2. CASE /\ UNCHANGED lock_vars
           /\ pc[t] \in Reading <=> pc'[t] \in Reading
           /\ pc[t] = "write" <=> pc'[t] = "write"
  BY <1>1, <1>2 DEF lock_vars
<1>3. CASE Lock!BeginRead(t) /\ pc'[t] \in Reading
  BY <1>1, <1>3 DEF Lock!BeginRead
<1>4. CASE Lock!EndRead(t) /\ pc'[t] = "idle"
  BY <1>1, <1>4 DEF Lock!EndRead
<1>5. CASE Lock!AnnounceWrite(t) /\ pc[t] = "lock" /\ pc'[t] = "wait"
  BY <1>1, <1>5 DEF Lock!AnnounceWrite
<1>6. CASE Lock!BeginWrite(t) /\ pc'[t] = "write"
  BY <1>1, <1>6 DEF Lock!BeginWrite
<1>7. CASE Lock!EndWrite(t) /\ pc'[t] = "idle"
  BY <1>1, <1>7 DEF Lock!EndWrite
<1> QED
  BY <1>2, <1>3, <1>4, <1>5, <1>6, <1>7

\* Where a step takes its thread.
LEMMA GoesTo ==
  ASSUME ThreadTypes, NEW t \in Threads, NEW from, NEW to, Goes(t, from, to)
  PROVE  pc[t] = from /\ pc'[t] = to /\ NoFault
  BY DEF Goes, ThreadTypes

LEMMA NextLockPlaces ==
  ASSUME LockPlaces, ThreadTypes, NEW t \in Threads, Step(t)
  PROVE  LockPlaces'
<1> DEFINE Stays == /\ UNCHANGED lock_vars
                    /\ pc[t] \in Reading <=> pc'[t] \in Reading
                    /\ pc[t] = "write" <=> pc'[t] = "write"
<1>1. ASSUME NEW from, NEW to, Goes(t, from, to), UNCHANGED lock_vars,
             from \in Reading <=> to \in Reading, from # "write", to # "write"
      PROVE  Stays
  BY <1>1, GoesTo
<1>2. CASE TableStep(t)
  <2>1. CASE AddConnection(t) \/ RemoveConnection(t) \/ RemoveSignal(t) \/ RemoveReceiver(t)
    <3>1. Lock!EndWrite(t) /\ Goes(t, "write", "idle")
      BY <2>1 DEF AddConnection, RemoveConnection, RemoveSignal, RemoveReceiver, Unlocks, Returns
    <3> QED
      BY <3>1, GoesTo, LockPlacesKept, NextOnlyMoves
  <2>2. CASE CallConnect(t) \/ CallDisconnect(t) \/ CallDisconnectSignal(t)
    <3>1. UNCHANGED lock_vars /\ Goes(t, "idle", "lock")
      BY <2>2 DEF CallConnect, CallDisconnect, CallDisconnectSignal, Calls
    <3>2. Stays
      BY <1>1, <3>1 DEF Reading, Emitting
    <3> QED
      BY <3>2, LockPlacesKept, NextOnlyMoves
  <2>3. CASE AnnounceWrite(t)
    BY <2>3, GoesTo, LockPlacesKept, NextOnlyMoves DEF AnnounceWrite
  <2>4. CASE BeginWrite(t)
    BY <2>4, GoesTo, LockPlacesKept, NextOnlyMoves DEF BeginWrite
  <2> QED
    BY <1>2, <2>1, <2>2, <2>3, <2>4 DEF TableStep
<1>3. CASE EmitStep(t)
  <2>1. CASE OutOfSemaphores(t) \/ EndEmit(t)
    <3>1. Lock!EndRead(t) /\ pc'[t] = "idle"
      BY <2>1, GoesTo DEF OutOfSemaphores, EndEmit, Returns
    <3> QED
      BY <3>1, LockPlacesKept, NextOnlyMoves
  <2>2. CASE LockEmit(t) \/ Count(t) \/ BeginWalk(t)
    <3>1. Lock!BeginRead(t) /\ pc'[t] \in {"count", "walk", "visit"}
      BY <2>2, GoesTo DEF LockEmit, Count, BeginWalk
    <3> QED
      BY <3>1, LockPlacesKept, NextOnlyMoves DEF Reading, Emitting
  <2>3. CASE CallEmit(t)
    <3>1. UNCHANGED lock_vars /\ Goes(t, "idle", "emit")
      BY <2>3 DEF CallEmit
    <3>2. Stays
      BY <1>1, <3>1 DEF Reading, Emitting
    <3> QED
      BY <3>2, LockPlacesKept, NextOnlyMoves
  <2>4. CASE \/ Visit(t) \/ Execute(t) \/ ExecuteFails(t) \/ HandlerReturns(t)
             \/ Posts(t) \/ PostFails(t) \/ PostFaults(t)
    <3>1. PICK from \in Labels, to \in Labels :
            /\ Goes(t, from, to) /\ UNCHANGED lock_vars
            /\ from \in Walking /\ to \in Walking \cup {"fault"}
      BY <2>4 DEF Visit, Execute, ExecuteFails, HandlerReturns, Posts, PostFails, PostFaults,
                  Labels, Walking
    <3>2. Stays
      BY <1>1, <3>1 DEF Reading, Emitting, Walking
    <3> QED
      BY <3>2, LockPlacesKept, NextOnlyMoves
  <2> QED
    BY <1>3, <2>1, <2>2, <2>3, <2>4 DEF EmitStep
<1>4. CASE ObjectStep(t)
  <2>1. PICK from \in Labels, to \in Labels :
          /\ Goes(t, from, to) /\ UNCHANGED lock_vars
          /\ {from, to} \subseteq {"idle", "process", "serve", "clear", "invalidate", "lock"}
    BY <1>4 DEF ObjectStep, Receive, Process, DestroyPackage, Destruct, ClearOne, Cleared,
                Invalidate, Returns, Labels
  <2>2. Stays
    BY <1>1, <2>1 DEF Reading, Emitting
  <2> QED
    BY <2>2, LockPlacesKept, NextOnlyMoves
<1> QED
  BY <1>2, <1>3, <1>4 DEF Step

\* A step that changes the table is a writer's: no thread walks a list then.
LEMMA ReadersKeepTable ==
  ASSUME LockPlaces, ThreadTypes, NEW t \in Threads, Step(t),
         NEW u \in Threads, pc[u] \in Reading
  PROVE  table' = table
<1>1. TableStep(t) => \/ UNCHANGED table_vars
                      \/ Unlocks(t)
  BY DEF TableStep, CallConnect, CallDisconnect, CallDisconnectSignal, AnnounceWrite, BeginWrite,
         AddConnection, RemoveConnection, RemoveSignal, RemoveReceiver
<1>2. EmitStep(t) => UNCHANGED table_vars
  BY DEF EmitStep, CallEmit, LockEmit, Count, OutOfSemaphores, BeginWalk, Visit, Execute,
         ExecuteFails, HandlerReturns, Posts, PostFails, PostFaults, EndEmit
<1>3. ObjectStep(t) => UNCHANGED table_vars
  BY DEF ObjectStep, Receive, Process, DestroyPackage, Destruct, ClearOne, Cleared, Invalidate
<1>4. ~ Unlocks(t)
  <2>1. writers = {}
    BY DEF LockPlaces
  <2> QED
    BY <2>1 DEF Unlocks, Lock!EndWrite
<1> QED
  BY <1>1, <1>2, <1>3, <1>4 DEF Step, table_vars

-------------------------------------------------------------------------------
(* The list and the total of an emission *)

CountOf(s) == IF table[s] = Null THEN 0 ELSE table[s].blocking_count

\* What t has yet to visit is the end of the list it walks.
WalkOf(t) ==
  pc[t] \in Walking \cup {"fault"} => IsSuffix(rest[t], NodesOf(op[t].signal))

\* The total that t was given is still the count.
TotalOf(t) ==
  pc[t] \in Walking \cup {"walk"} => total[emission[t]] = CountOf(op[t].signal)

EmissionsDiffer ==
  \A t, u \in Threads : t # u /\ pc[t] \in Emitting /\ pc[u] \in Emitting =>
    emission[t] # emission[u]

WalkInv == /\ TypeInv /\ LockPlaces /\ EmissionsDiffer
           /\ \A t \in Threads : WalkOf(t) /\ TotalOf(t)

\* The steps of a thread in the middle of an emission.
LEMMA InEmission ==
  ASSUME Places, NEW t \in Threads, Step(t), pc'[t] \in Emitting
  PROVE  /\ \/ CallEmit(t) /\ pc'[t] = "emit"
            \/ LockEmit(t) /\ pc'[t] = "count"
            \/ Count(t) /\ pc'[t] = "walk"
            \/ BeginWalk(t) /\ pc[t] = "walk" /\ pc'[t] = "visit"
            \/ Visit(t) /\ pc[t] = "visit"
            \/ /\ UNCHANGED <<op, rest, emission, total, owed, emits>>
               /\ pc[t] \in Walking /\ pc'[t] \in Walking \cup {"fault"}
         /\ ~ CallEmit(t) => /\ UNCHANGED <<op, emission, emits>>
                             /\ pc[t] \in Emitting \ {"fault"}
<1>0. ThreadTypes
  BY DEF Places
<1>1. ~ TableStep(t)
  <2>1. CASE TableStep(t)
    <3>1. \E from \in Labels, to \in Labels :
            Goes(t, from, to) /\ to \in {"lock", "wait", "write", "idle"}
      BY <2>1 DEF TableStep, CallConnect, CallDisconnect, CallDisconnectSignal, AnnounceWrite,
                  BeginWrite, AddConnection, RemoveConnection, RemoveSignal, RemoveReceiver,
                  Unlocks, Returns, Calls, Labels
    <3>2. pc'[t] \in {"lock", "wait", "write", "idle"}
      BY <1>0, <3>1, GoesTo
    <3> QED
      BY <3>2 DEF Emitting
  <2> QED
    BY <2>1
<1>2. ~ ObjectStep(t)
  <2>1. CASE ObjectStep(t)
    <3>1. \E from \in Labels, to \in Labels :
            /\ Goes(t, from, to)
            /\ to \in {"idle", "process", "serve", "clear", "invalidate", "lock"}
      BY <2>1 DEF ObjectStep, Receive, Process, DestroyPackage, Destruct, ClearOne, Cleared,
                  Invalidate, Returns, Labels
    <3>2. pc'[t] \in {"idle", "process", "serve", "clear", "invalidate", "lock"}
      BY <1>0, <3>1, GoesTo
    <3> QED
      BY <3>2 DEF Emitting
  <2> QED
    BY <2>1
<1>3. EmitStep(t)
  BY <1>1, <1>2 DEF Step
<1>4. ~ OutOfSemaphores(t) /\ ~ EndEmit(t)
  BY <1>0, GoesTo DEF OutOfSemaphores, EndEmit, Returns, Emitting
<1>5. CallEmit(t) => pc'[t] = "emit"
  BY <1>0, GoesTo DEF CallEmit
<1>6. LockEmit(t) \/ Count(t) \/ BeginWalk(t) =>
        /\ UNCHANGED <<op, emission, emits>>
        /\ pc[t] \in {"emit", "count", "walk"} /\ LockEmit(t) => pc'[t] = "count"
        /\ Count(t) => pc'[t] = "walk"
        /\ BeginWalk(t) => pc[t] = "walk" /\ pc'[t] = "visit"
  BY <1>0, GoesTo DEF LockEmit, Count, BeginWalk, bound_vars
<1>7. LockEmit(t) \/ Count(t) \/ BeginWalk(t) => pc[t] \in {"emit", "count", "walk"}
  BY <1>0, GoesTo DEF LockEmit, Count, BeginWalk
<1>8. LockEmit(t) => pc'[t] = "count"
  BY <1>0, GoesTo DEF LockEmit
<1>9. Visit(t) => pc[t] = "visit" /\ UNCHANGED <<op, emission, emits>>
  BY DEF Visit, bound_vars
<1>10. ASSUME \/ Execute(t) \/ ExecuteFails(t) \/ HandlerReturns(t) \/ Posts(t) \/ PostFails(t)
              \/ PostFaults(t)
       PROVE  /\ UNCHANGED <<op, rest, emission, total, owed, emits>>
              /\ pc[t] \in Walking /\ pc'[t] \in Walking \cup {"fault"}
  <2>1. UNCHANGED <<op, rest, emission, total, owed, emits>>
    BY <1>10 DEF Execute, ExecuteFails, HandlerReturns, Posts, PostFails, PostFaults, emission_vars,
                 bound_vars
  <2>2. PICK from \in Labels, to \in Labels :
          Goes(t, from, to) /\ from \in Walking /\ to \in Walking \cup {"fault"}
    BY <1>10 DEF Execute, ExecuteFails, HandlerReturns, Posts, PostFails, PostFaults, Labels, Walking
  <2> QED
    BY <1>0, <2>1, <2>2, GoesTo
<1> QED
  BY <1>3, <1>4, <1>5, <1>6, <1>7, <1>8, <1>9, <1>10 DEF EmitStep, Emitting, Walking

LEMMA NextWalk ==
  ASSUME WalkInv, TypeInv', NEW t \in Threads, Step(t), NEW u \in Threads
  PROVE  WalkOf(u)'
<1>0. Places /\ ThreadTypes /\ LockPlaces /\ TableInv /\ WalkOf(u) /\ PlaceOf(u)
  BY DEF WalkInv, TypeInv, Places
<1>1. SUFFICES ASSUME pc'[u] \in Walking \cup {"fault"}
               PROVE  IsSuffix(rest'[u], NodesOf(op[u].signal)')
  BY DEF WalkOf
<1>2. pc'[u] \in Emitting
  BY <1>1 DEF Walking, Emitting
<1>3. ASSUME pc[u] \in Reading, op'[u] = op[u]
      PROVE  /\ NodesOf(op[u].signal)' = NodesOf(op[u].signal)
             /\ NodesOf(op[u].signal) \in Seq(Connections)
  <2>1. table' = table
    BY <1>0, <1>3, ReadersKeepTable
  <2>2. op[u].signal \in Signals
    BY <1>0, <1>3, EmissionNumber DEF Reading
  <2>3. table[op[u].signal] \in Groups \cup {Null}
    BY <1>0, <2>2 DEF TableInv
  <2> QED
    BY <1>3, <2>1, <2>3, ListsAreSequences DEF NodesOf, ListOf
<1>4. CASE u # t
  <2>1. pc'[u] = pc[u] /\ op'[u] = op[u] /\ rest'[u] = rest[u]
    BY <1>0, <1>4, NextOnlyMoves DEF OnlyMoves
  <2>2. pc[u] \in Reading
    BY <1>1, <2>1 DEF Walking, Reading, Emitting
  <2>3. IsSuffix(rest[u], NodesOf(op[u].signal))
    BY <1>0, <1>1, <2>1 DEF WalkOf
  <2> QED
    BY <1>3, <2>1, <2>2, <2>3
<1>5. CASE u = t
  <2>1. ~ CallEmit(t) /\ ~ LockEmit(t) /\ ~ Count(t)
    BY <1>0, <1>1, <1>5, GoesTo DEF CallEmit, LockEmit, Count, Walking
  <2>2. UNCHANGED op /\ pc[t] \in Emitting \ {"fault"}
    BY <1>0, <1>2, <1>5, <2>1, InEmission
  <2>3. CASE BeginWalk(t)
    <3>1. pc[t] = "walk" /\ rest' = [rest EXCEPT ![t] = NodesOf(op[t].signal)]
      BY <2>3 DEF BeginWalk, Goes
    <3>2. rest'[t] = NodesOf(op[t].signal)
      BY <1>0, <3>1 DEF ThreadTypes
    <3>3. pc[t] \in Reading
      BY <3>1 DEF Reading, Emitting
    <3> QED
      BY <1>3, <1>5, <2>2, <3>2, <3>3, SuffixOfItself
  <2>4. CASE Visit(t)
    <3>1. pc[t] = "visit" /\ rest[t] # <<>> /\ rest' = [rest EXCEPT ![t] = Tail(@)]
      BY <2>4 DEF Visit
    <3>2. rest'[t] = Tail(rest[t]) /\ rest[t] \in Seq(Connections)
      BY <1>0, <3>1 DEF ThreadTypes
    <3>3. pc[t] \in Reading /\ IsSuffix(rest[t], NodesOf(op[t].signal))
      BY <1>0, <1>5, <3>1 DEF Reading, Emitting, WalkOf, Walking
    <3>4. IsSuffix(Tail(rest[t]), NodesOf(op[t].signal))
      BY <1>3, <1>5, <2>2, <3>1, <3>2, <3>3, SuffixLosesHead
    <3> QED
      BY <1>3, <1>5, <2>2, <3>2, <3>3, <3>4
  <2>5. CASE ~ BeginWalk(t) /\ ~ Visit(t)
    <3>1. UNCHANGED rest /\ pc[t] \in Walking
      BY <1>0, <1>2, <1>5, <2>1, <2>5, InEmission
    <3>2. pc[t] \in Reading /\ IsSuffix(rest[t], NodesOf(op[t].signal))
      BY <1>0, <1>5, <3>1 DEF Reading, Emitting, WalkOf, Walking
    <3> QED
      BY <1>3, <1>5, <2>2, <3>1, <3>2
  <2> QED
    BY <2>3, <2>4, <2>5
<1> QED
  BY <1>4, <1>5

LEMMA NextEmissionsDiffer ==
  ASSUME WalkInv, NEW t \in Threads, Step(t)
  PROVE  EmissionsDiffer'
<1>0. Places /\ ThreadTypes /\ EmissionsDiffer /\ \A u \in Threads : PlaceOf(u)
  BY DEF WalkInv, TypeInv, Places
<1>1. ASSUME NEW u \in Threads \ {t}
      PROVE  pc'[u] = pc[u] /\ emission'[u] = emission[u]
  BY <1>0, NextOnlyMoves DEF OnlyMoves
<1>2. ASSUME NEW u \in Threads \ {t}, pc'[t] \in Emitting, pc[u] \in Emitting
      PROVE  emission'[t] # emission[u]
  <2>1. CASE CallEmit(t)
    <3>1. emission' = [emission EXCEPT ![t] = emits + 1]
      BY <2>1 DEF CallEmit
    <3>2. emission'[t] = emits + 1 /\ emission[u] \in 1 .. emits
      BY <1>0, <1>2, <3>1 DEF ThreadTypes, PlaceOf
    <3>3. emits \in Nat
      BY <1>0, SizesAssumption DEF Places, BoundTypes
    <3> QED
      BY <3>2, <3>3
  <2>2. CASE ~ CallEmit(t)
    <3>1. emission' = emission /\ pc[t] \in Emitting
      BY <1>0, <1>2, <2>2, InEmission
    <3> QED
      BY <1>0, <1>2, <3>1 DEF EmissionsDiffer
  <2> QED
    BY <2>1, <2>2
<1>3. SUFFICES ASSUME NEW u \in Threads, NEW v \in Threads, u # v,
                      pc'[u] \in Emitting, pc'[v] \in Emitting
               PROVE  emission'[u] # emission'[v]
  BY DEF EmissionsDiffer
<1>4. CASE u = t
  BY <1>1, <1>2, <1>3, <1>4
<1>5. CASE v = t
  BY <1>1, <1>2, <1>3, <1>5
<1>6. CASE u # t /\ v # t
  BY <1>0, <1>1, <1>3, <1>6 DEF EmissionsDiffer
<1> QED
  BY <1>4, <1>5, <1>6

\* total changes in Count only.
LEMMA TotalChanges ==
  ASSUME NEW t \in Threads, Step(t), ~ Count(t)
  PROVE  total' = total
<1>1. TableStep(t) => total' = total
  BY DEF TableStep, CallConnect, CallDisconnect, CallDisconnectSignal, AnnounceWrite, BeginWrite,
         AddConnection, RemoveConnection, RemoveSignal, RemoveReceiver, emission_vars
<1>2. EmitStep(t) => total' = total
  BY DEF EmitStep, CallEmit, LockEmit, OutOfSemaphores, BeginWalk, Visit, Execute,
         ExecuteFails, HandlerReturns, Posts, PostFails, PostFaults, EndEmit, emission_vars
<1>3. ObjectStep(t) => total' = total
  BY DEF ObjectStep, Receive, Process, DestroyPackage, Destruct, ClearOne, Cleared, Invalidate,
         emission_vars
<1> QED
  BY <1>1, <1>2, <1>3 DEF Step

LEMMA NextTotal ==
  ASSUME WalkInv, NEW t \in Threads, Step(t), NEW u \in Threads
  PROVE  TotalOf(u)'
<1>0. /\ Places /\ ThreadTypes /\ LockPlaces /\ EmissionTypes /\ TableInv
      /\ TotalOf(u) /\ EmissionsDiffer
  BY DEF WalkInv, TypeInv, Places
<1>1. SUFFICES ASSUME pc'[u] \in Walking \cup {"walk"}
               PROVE  total'[emission'[u]] = CountOf(op[u].signal)'
  BY DEF TotalOf
<1>2. pc'[u] \in Emitting
  BY <1>1 DEF Walking, Emitting
<1>3. ASSUME pc[u] \in Reading, op'[u] = op[u]
      PROVE  CountOf(op[u].signal)' = CountOf(op[u].signal)
  <2>1. table' = table
    BY <1>0, <1>3, ReadersKeepTable
  <2> QED
    BY <1>3, <2>1 DEF CountOf
<1>4. ASSUME Count(t)
      PROVE  /\ pc[t] = "count" /\ pc'[t] = "walk" /\ table' = table /\ op' = op /\ emission' = emission
             /\ total'[emission[t]] = CountOf(op[t].signal)
             /\ \A e \in 1 .. MaxEmits : e # emission[t] => total'[e] = total[e]
  <2>1. /\ Goes(t, "count", "walk") /\ UNCHANGED <<table, op, emission>>
        /\ total' = [total EXCEPT ![emission[t]] = CountOf(op[t].signal)]
    BY <1>4 DEF Count, table_vars, CountOf
  <2>2. pc[t] = "count" /\ pc'[t] = "walk"
    BY <1>0, <2>1, GoesTo
  <2>3. emission[t] \in 1 .. MaxEmits
    BY <1>0, <2>2, EmissionNumber DEF Emitting
  <2> QED
    BY <1>0, <2>1, <2>2, <2>3 DEF EmissionTypes
<1>5. CASE u # t
  <2>1. pc'[u] = pc[u] /\ op'[u] = op[u] /\ emission'[u] = emission[u]
    BY <1>0, <1>5, NextOnlyMoves DEF OnlyMoves
  <2>2. pc[u] \in Reading /\ pc[u] \in Emitting
    BY <1>1, <2>1 DEF Walking, Reading, Emitting
  <2>3. total[emission[u]] = CountOf(op[u].signal) /\ emission[u] \in 1 .. MaxEmits
    BY <1>0, <1>1, <2>1, <2>2, EmissionNumber DEF TotalOf
  <2>4. total'[emission[u]] = total[emission[u]]
    <3>1. CASE Count(t)
      <4>1. emission[u] # emission[t]
        BY <1>0, <1>4, <1>5, <2>2, <3>1 DEF EmissionsDiffer, Emitting
      <4> QED
        BY <1>4, <2>3, <3>1, <4>1
    <3>2. CASE ~ Count(t)
      BY <3>2, TotalChanges
    <3> QED
      BY <3>1, <3>2
  <2> QED
    BY <1>3, <2>1, <2>2, <2>3, <2>4
<1>6. CASE u = t
  <2>1. ~ CallEmit(t) /\ ~ LockEmit(t)
    BY <1>0, <1>1, <1>6, GoesTo DEF CallEmit, LockEmit, Walking
  <2>2. UNCHANGED <<op, emission>> /\ pc[t] \in Emitting \ {"fault"}
    BY <1>0, <1>2, <1>6, <2>1, InEmission
  <2>3. CASE Count(t)
    <3>1. CountOf(op[t].signal)' = CountOf(op[t].signal)
      BY <1>4, <2>3 DEF CountOf
    <3> QED
      BY <1>4, <1>6, <2>3, <3>1
  <2>4. CASE ~ Count(t)
    <3>1. pc[t] \in Walking \cup {"walk"} /\ total' = total
      <4>1. \/ BeginWalk(t) /\ pc[t] = "walk"
            \/ Visit(t) /\ pc[t] = "visit"
            \/ pc[t] \in Walking
        BY <1>0, <1>2, <1>6, <2>1, <2>4, InEmission
      <4> QED
        BY <2>4, <4>1, TotalChanges DEF Walking
    <3>2. pc[t] \in Reading
      BY <3>1 DEF Reading, Emitting, Walking
    <3>3. total[emission[t]] = CountOf(op[t].signal)
      BY <1>0, <1>6, <3>1 DEF TotalOf
    <3> QED
      BY <1>3, <1>6, <2>2, <3>1, <3>2, <3>3
  <2> QED
    BY <2>3, <2>4
<1> QED
  BY <1>5, <1>6

LEMMA InitWalk == Init => WalkInv
<1>1. SUFFICES ASSUME Init PROVE WalkInv
  OBVIOUS
<1>2. LockPlaces
  BY <1>1 DEF Init, Lock!Init, LockPlaces, Reading, Emitting
<1>3. EmissionsDiffer /\ \A t \in Threads : WalkOf(t) /\ TotalOf(t)
  BY <1>1 DEF Init, EmissionsDiffer, Emitting, WalkOf, TotalOf, Walking
<1> QED
  BY <1>1, <1>2, <1>3, InitTypes DEF WalkInv

LEMMA NextWalkInv == WalkInv /\ [Next]_vars => WalkInv'
<1>1. SUFFICES ASSUME WalkInv, [Next]_vars PROVE WalkInv'
  OBVIOUS
<1>2. TypeInv'
  BY <1>1, NextTypes DEF WalkInv
<1>3. CASE UNCHANGED vars
  <2>1. UNCHANGED <<table_vars, lock_vars, thread_vars, emission_vars>>
    BY <1>3 DEF vars
  <2>2. LockPlaces' /\ EmissionsDiffer'
    BY <1>1, <2>1 DEF WalkInv, LockPlaces, EmissionsDiffer, lock_vars, thread_vars
  <2>3. \A t \in Threads : WalkOf(t)' /\ TotalOf(t)'
    BY <1>1, <2>1 DEF WalkInv, WalkOf, TotalOf, CountOf, NodesOf, table_vars, thread_vars,
                      emission_vars
  <2> QED
    BY <1>2, <2>2, <2>3 DEF WalkInv
<1>4. ASSUME NEW t \in Threads, Step(t) PROVE WalkInv'
  <2>1. LockPlaces'
    BY <1>1, <1>4, NextLockPlaces DEF WalkInv, TypeInv, Places
  <2>2. EmissionsDiffer' /\ \A u \in Threads : WalkOf(u)' /\ TotalOf(u)'
    BY <1>1, <1>2, <1>4, NextEmissionsDiffer, NextWalk, NextTotal
  <2> QED
    BY <1>2, <2>1, <2>2 DEF WalkInv
<1> QED
  BY <1>1, <1>3, <1>4 DEF Next, Step

LEMMA WalkInvHolds == Spec => []WalkInv
  BY InitWalk, NextWalkInv, PTL DEF Spec

\* The list an emission walks does not change under it, although connections are
\* added at its front and removed anywhere by other threads (for_each_connection).
THEOREM WalkIsStable == Spec => []WalkSeesTable
<1>1. WalkInv => WalkSeesTable
  BY DEF WalkInv, WalkOf, WalkSeesTable
<1> QED
  BY <1>1, WalkInvHolds, PTL

\* The count that emit reads under one Read_Guard is still the group's count while
\* it walks the list under another (Signal_Manager::emit).
THEOREM TotalStaysCurrent == Spec => []TotalIsCurrent
<1>1. WalkInv => TotalIsCurrent
  BY DEF WalkInv, TotalOf, CountOf, TotalIsCurrent
<1> QED
  BY <1>1, WalkInvHolds, PTL

-------------------------------------------------------------------------------
(* The receivers of handlers *)

\* The package p is for an object that t serves and destroys, if for an object.
Fits(p, t) == p.receiver \in Objects => Home[p.receiver] = t

Destroying(t) ==
  \/ pc[t] \in {"clear", "invalidate"}
  \/ pc[t] \in {"lock", "wait", "write"} /\ op[t].name = "disconnect_receiver"

\* How far the destruction is that t is in.
DestructionOf(t) ==
  Destroying(t) =>
    /\ op[t].receiver \in Objects /\ Home[op[t].receiver] = t
    /\ pc[t] = "clear" => life[op[t].receiver] = "alive"
    /\ pc[t] = "invalidate" => life[op[t].receiver] \in {"alive", "cleared"}
    /\ pc[t] \in {"lock", "wait", "write"} => life[op[t].receiver] = "invalid"

\* What t has in hand is for an object of its own, or goes to the thread that has it.
HandOf(t) ==
  /\ pc[t] \in {"post", "fault"} => Fits(current[t], ServedBy(target[t]))
  /\ pc[t] \in {"process", "serve"} => Fits(current[t], t)
  /\ pc[t] = "serve" /\ current[t].receiver \in Objects =>
       life[current[t].receiver] \in {"alive", "cleared"}
  /\ pc[t] = "handler" /\ current[t].receiver \in Objects => life[current[t].receiver] # "gone"

ObjectsKept ==
  /\ \A o \in Objects : affinity[o] \in {Home[o], Null}
  /\ \A o \in Objects : m_valid[o] => life[o] \in {"alive", "cleared"}
  /\ \A q \in QueueOwners : \A i \in 1 .. Len(queue[q]) : Fits(queue[q][i], ServedBy(q))

HomeInv == WalkInv /\ ObjectsKept /\ \A t \in Threads : DestructionOf(t) /\ HandOf(t)

LEMMA ServerOf ==
  /\ \A t \in Threads : ServedBy(t) = t
  /\ \A o \in Objects : ServedBy(o) = Home[o] /\ Home[o] \in Threads /\ o \notin Threads
  BY ReceiversAssumption DEF ServedBy

\* A package for an object goes to a queue of the thread that has the object.
LEMMA TargetFits ==
  ASSUME ObjectsKept, NEW n, NEW t, QueueFor(n, t) # Null, n.receiver \in Objects
  PROVE  ServedBy(QueueFor(n, t)) = Home[n.receiver]
<1> DEFINE r == n.receiver
<1>1. affinity[r] \in {Home[r], Null} /\ Home[r] \in Threads /\ r \notin Threads /\ r # Null
  BY ServerOf, ReceiversAssumption DEF ObjectsKept, Receivers
<1>2. \/ QueueFor(n, t) = r
      \/ QueueFor(n, t) = affinity[r] /\ affinity[r] # Null
  BY DEF QueueFor
<1> QED
  BY <1>1, <1>2, ServerOf

LEMMA ReceiverOf ==
  ASSUME Places, NEW t \in Threads, Destroying(t)
  PROVE  op[t].receiver \in Objects
<1>1. PlaceOf(t)
  BY DEF Places
<1> QED
  BY <1>1, OperationFacts DEF PlaceOf, Destroying

\* Only the thread that destroys an object changes how far its destruction is.
LEMMA LifeChanges ==
  ASSUME HomeInv, NEW t \in Threads, Step(t)
  PROVE  \/ UNCHANGED <<life, m_valid, affinity>>
         \/ /\ Cleared(t) /\ Destroying(t) /\ pc[t] = "clear"
            /\ life' = [life EXCEPT ![op[t].receiver] = "cleared"]
            /\ UNCHANGED <<m_valid, affinity>>
         \/ /\ Invalidate(t) /\ Destroying(t) /\ pc[t] = "invalidate"
            /\ life' = [life EXCEPT ![op[t].receiver] = "invalid"]
            /\ m_valid' = [m_valid EXCEPT ![op[t].receiver] = FALSE]
            /\ affinity' = [affinity EXCEPT ![op[t].receiver] = Null]
         \/ /\ RemoveReceiver(t) /\ Destroying(t) /\ pc[t] = "write" /\ readers = {}
            /\ life' = [life EXCEPT ![op[t].receiver] = "gone"]
            /\ UNCHANGED <<m_valid, affinity>>
<1>1. TableStep(t) => UNCHANGED <<life, m_valid, affinity>> \/ RemoveReceiver(t)
  BY DEF TableStep, CallConnect, CallDisconnect, CallDisconnectSignal, AnnounceWrite, BeginWrite,
         AddConnection, RemoveConnection, RemoveSignal, object_vars
<1>2. EmitStep(t) => UNCHANGED <<life, m_valid, affinity>>
  BY DEF EmitStep, CallEmit, LockEmit, Count, OutOfSemaphores, BeginWalk, Visit, Execute,
         ExecuteFails, HandlerReturns, Posts, PostFails, PostFaults, EndEmit, object_vars
<1>3. ObjectStep(t) => UNCHANGED <<life, m_valid, affinity>> \/ Cleared(t) \/ Invalidate(t)
  BY DEF ObjectStep, Receive, Process, DestroyPackage, Destruct, ClearOne, object_vars
<1>4. CASE RemoveReceiver(t)
  <2>1. /\ pc[t] = "write" /\ op[t].name = "disconnect_receiver" /\ t \in writers
        /\ life' = [life EXCEPT ![op[t].receiver] = "gone"] /\ UNCHANGED <<m_valid, affinity>>
    BY <1>4 DEF RemoveReceiver, Unlocks, Returns, Goes, Lock!EndWrite
  <2>2. readers = {}
    BY <2>1 DEF HomeInv, WalkInv, LockPlaces
  <2> QED
    BY <1>4, <2>1, <2>2 DEF Destroying
<1>5. CASE Cleared(t)
  BY <1>5 DEF Cleared, Goes, Destroying
<1>6. CASE Invalidate(t)
  BY <1>6 DEF Invalidate, Goes, Destroying
<1> QED
  BY <1>1, <1>2, <1>3, <1>4, <1>5, <1>6 DEF Step

\* The objects of other threads stay as they are, but the lock is not waited for
\* in vain: an object goes only when there is no reader.
LEMMA OthersLive ==
  ASSUME HomeInv, NEW t \in Threads, Step(t), NEW o \in Objects
  PROVE  /\ Home[o] # t => life'[o] = life[o]
         /\ life'[o] = "gone" => life[o] = "gone" \/ readers = {}
<1>1. life \in [Objects -> {"alive", "cleared", "invalid", "gone"}]
  BY DEF HomeInv, WalkInv, TypeInv, ObjectTypes
<1>2. Destroying(t) => op[t].receiver \in Objects /\ Home[op[t].receiver] = t
  BY DEF HomeInv, DestructionOf
<1> QED
  BY <1>1, <1>2, LifeChanges

LEMMA NextObjectsKept ==
  ASSUME HomeInv, NEW t \in Threads, Step(t)
  PROVE  ObjectsKept'
<1>0. /\ ObjectsKept /\ Places /\ ObjectTypes /\ ThreadTypes /\ PlaceOf(t) /\ HandOf(t)
      /\ DestructionOf(t)
  BY DEF HomeInv, WalkInv, TypeInv, Places
<1>1. ASSUME NEW o \in Objects
      PROVE  /\ affinity'[o] \in {Home[o], Null}
             /\ m_valid'[o] => life'[o] \in {"alive", "cleared"}
  <2>1. /\ affinity[o] \in {Home[o], Null} /\ o \in Receivers
        /\ m_valid[o] => life[o] \in {"alive", "cleared"}
    BY <1>0 DEF ObjectsKept, Receivers
  <2>2. /\ life \in [Objects -> {"alive", "cleared", "invalid", "gone"}]
        /\ m_valid \in [Receivers -> BOOLEAN]
        /\ affinity \in [Receivers -> Threads \cup {Null}]
    BY <1>0 DEF ObjectTypes
  <2>3. CASE UNCHANGED <<life, m_valid, affinity>>
    BY <2>1, <2>3
  <2>4. CASE Cleared(t) /\ life' = [life EXCEPT ![op[t].receiver] = "cleared"]
             /\ UNCHANGED <<m_valid, affinity>>
    BY <2>1, <2>2, <2>4
  <2>5. CASE /\ life' = [life EXCEPT ![op[t].receiver] = "invalid"]
             /\ m_valid' = [m_valid EXCEPT ![op[t].receiver] = FALSE]
             /\ affinity' = [affinity EXCEPT ![op[t].receiver] = Null]
    BY <2>1, <2>2, <2>5
  <2>6. CASE /\ Destroying(t) /\ pc[t] = "write"
             /\ life' = [life EXCEPT ![op[t].receiver] = "gone"]
             /\ UNCHANGED <<m_valid, affinity>>
    <3>1. life[op[t].receiver] = "invalid" /\ op[t].receiver \in Objects
      BY <1>0, <2>6 DEF DestructionOf
    <3>2. ~ m_valid[op[t].receiver]
      BY <1>0, <3>1 DEF ObjectsKept
    <3> QED
      BY <2>1, <2>2, <2>6, <3>1, <3>2
  <2> QED
    BY <2>3, <2>4, <2>5, <2>6, LifeChanges
<1>2. ASSUME NEW q \in QueueOwners, NEW i \in 1 .. Len(queue'[q])
      PROVE  Fits(queue'[q][i], ServedBy(q))
  <2>1. /\ queue \in [Receivers -> Seq(Packages)] /\ q \in Receivers
        /\ \A j \in 1 .. Len(queue[q]) : Fits(queue[q][j], ServedBy(q))
    BY <1>0, ReceiversAssumption DEF ObjectsKept, ObjectTypes
  <2>2. CASE queue' = queue
    BY <1>2, <2>1, <2>2
  <2>3. ASSUME NEW r \in Receivers, queue[r] # <<>>, queue' = [queue EXCEPT ![r] = Tail(@)]
        PROVE  Fits(queue'[q][i], ServedBy(q))
    <3>1. CASE r # q
      BY <1>2, <2>1, <2>3, <3>1
    <3>2. CASE r = q
      <4>1. queue'[q] = Tail(queue[q]) /\ queue[q] \in Seq(Packages)
        BY <2>1, <2>3, <3>2
      <4>2. /\ Len(Tail(queue[q])) = Len(queue[q]) - 1 /\ Len(queue[q]) \in Nat
            /\ \A j \in 1 .. Len(Tail(queue[q])) : Tail(queue[q])[j] = queue[q][j + 1]
        BY <2>3, <3>2, <4>1, HeadTailProperties, LenProperties
      <4>3. i + 1 \in 1 .. Len(queue[q]) /\ queue'[q][i] = queue[q][i + 1]
        BY <1>2, <4>1, <4>2
      <4> QED
        BY <2>1, <4>3
    <3> QED
      BY <3>1, <3>2
  <2>4. CASE Posts(t)
    <3>1. pc[t] = "post" /\ queue' = [queue EXCEPT ![target[t]] = Append(@, current[t])]
      BY <2>4 DEF Posts, Goes
    <3>2. current[t] \in Packages /\ target[t] \in Receivers
      BY <1>0, <3>1, ReceiversAssumption DEF PlaceOf, Handling
    <3>3. CASE target[t] # q
      BY <1>2, <2>1, <3>1, <3>3
    <3>4. CASE target[t] = q
      <4>1. queue'[q] = Append(queue[q], current[t]) /\ queue[q] \in Seq(Packages)
        BY <2>1, <3>1, <3>4
      <4>2. /\ Len(Append(queue[q], current[t])) = Len(queue[q]) + 1 /\ Len(queue[q]) \in Nat
            /\ \A j \in 1 .. Len(queue[q]) : Append(queue[q], current[t])[j] = queue[q][j]
            /\ Append(queue[q], current[t])[Len(queue[q]) + 1] = current[t]
        BY <3>2, <4>1, AppendProperties, LenProperties
      <4>3. Fits(current[t], ServedBy(q))
        BY <1>0, <3>1, <3>4 DEF HandOf
      <4>4. i \in 1 .. Len(queue[q]) \/ i = Len(queue[q]) + 1
        BY <1>2, <4>1, <4>2
      <4> QED
        BY <2>1, <4>1, <4>2, <4>3, <4>4
    <3> QED
      BY <3>3, <3>4
  <2>5. CASE Receive(t)
    <3>1. PICK r \in QueueOwners : queue[r] # <<>> /\ queue' = [queue EXCEPT ![r] = Tail(@)]
      BY <2>5 DEF Receive
    <3> QED
      BY <2>3, <3>1, ReceiversAssumption
  <2>6. CASE ClearOne(t)
    <3>1. /\ pc[t] = "clear" /\ enqueued(op[t].receiver) > 0
          /\ queue' = [queue EXCEPT ![op[t].receiver] = Tail(@)]
      BY <2>6 DEF ClearOne, Goes
    <3>2. op[t].receiver \in Receivers
      BY <1>0, <3>1, ReceiverOf DEF Destroying, Receivers
    <3> QED
      BY <1>0, <2>3, <3>1, <3>2, EnqueuedIsThere
  <2>7. Step(t) => queue' = queue \/ Posts(t) \/ Receive(t) \/ ClearOne(t)
    <3>1. TableStep(t) => queue' = queue
      BY DEF TableStep, CallConnect, CallDisconnect, CallDisconnectSignal, AnnounceWrite,
             BeginWrite, AddConnection, RemoveConnection, RemoveSignal, RemoveReceiver, object_vars
    <3>2. EmitStep(t) => queue' = queue \/ Posts(t)
      BY DEF EmitStep, CallEmit, LockEmit, Count, OutOfSemaphores, BeginWalk, Visit, Execute,
             ExecuteFails, HandlerReturns, PostFails, PostFaults, EndEmit, object_vars
    <3>3. ObjectStep(t) => queue' = queue \/ Receive(t) \/ ClearOne(t)
      BY DEF ObjectStep, Process, DestroyPackage, Destruct, Cleared, Invalidate, object_vars
    <3> QED
      BY <3>1, <3>2, <3>3 DEF Step
  <2> QED
    BY <2>2, <2>4, <2>5, <2>6, <2>7
<1> QED
  BY <1>1, <1>2 DEF ObjectsKept

\* A thread's way into a destruction.
LEMMA IntoDestruction ==
  ASSUME Places, NEW t \in Threads, Step(t), Destroying(t)'
  PROVE  \/ Destruct(t)
         \/ /\ Destroying(t) /\ UNCHANGED op
            /\ \/ /\ Cleared(t) \/ Invalidate(t)
               \/ /\ UNCHANGED life
                  /\ \/ pc'[t] = pc[t]
                     \/ pc[t] \in {"lock", "wait"} /\ pc'[t] \in {"wait", "write"}
<1>0. ThreadTypes
  BY DEF Places
<1>1. pc'[t] \in {"clear", "invalidate", "lock", "wait", "write"}
  BY DEF Destroying
<1>2. CASE TableStep(t)
  <2>1. CASE CallConnect(t) \/ CallDisconnect(t) \/ CallDisconnectSignal(t)
    <3>1. PICK o \in Operations :
            /\ o.name # "disconnect_receiver" /\ Goes(t, "idle", "lock")
            /\ op' = [op EXCEPT ![t] = o]
      <4>1. CASE CallConnect(t)
        <5>1. PICK s \in Signals, n \in Connections :
                Calls(t, [name |-> "connect", signal |-> s, node |-> n])
          BY <4>1 DEF CallConnect
        <5>2. /\ [name |-> "connect", signal |-> s, node |-> n] \in Operations
              /\ [name |-> "connect", signal |-> s, node |-> n].name # "disconnect_receiver"
          BY DEF Operations
        <5> QED
          BY <5>1, <5>2 DEF Calls
      <4>2. CASE CallDisconnect(t)
        <5>1. PICK s \in Signals, n \in Connections :
                Calls(t, [name |-> "disconnect", signal |-> s, node |-> n])
          BY <4>2 DEF CallDisconnect
        <5>2. /\ [name |-> "disconnect", signal |-> s, node |-> n] \in Operations
              /\ [name |-> "disconnect", signal |-> s, node |-> n].name # "disconnect_receiver"
          BY DEF Operations
        <5> QED
          BY <5>1, <5>2 DEF Calls
      <4>3. CASE CallDisconnectSignal(t)
        <5>1. PICK s \in Signals : Calls(t, [name |-> "disconnect_signal", signal |-> s])
          BY <4>3 DEF CallDisconnectSignal
        <5>2. /\ [name |-> "disconnect_signal", signal |-> s] \in Operations
              /\ [name |-> "disconnect_signal", signal |-> s].name # "disconnect_receiver"
          BY DEF Operations
        <5> QED
          BY <5>1, <5>2 DEF Calls
      <4> QED
        BY <2>1, <4>1, <4>2, <4>3
    <3>2. pc'[t] = "lock" /\ op'[t].name # "disconnect_receiver"
      BY <1>0, <3>1, GoesTo DEF ThreadTypes
    <3> QED
      BY <3>2 DEF Destroying
  <2>2. CASE AnnounceWrite(t) \/ BeginWrite(t)
    <3>1. /\ pc[t] \in {"lock", "wait"} /\ pc'[t] \in {"wait", "write"}
          /\ UNCHANGED <<op, life>>
      BY <1>0, <2>2, GoesTo DEF AnnounceWrite, BeginWrite, object_vars
    <3>2. Destroying(t)
      BY <3>1 DEF Destroying
    <3> QED
      BY <3>1, <3>2
  <2>3. CASE AddConnection(t) \/ RemoveConnection(t) \/ RemoveSignal(t) \/ RemoveReceiver(t)
    <3>1. pc'[t] = "idle"
      BY <1>0, <2>3, GoesTo DEF AddConnection, RemoveConnection, RemoveSignal, RemoveReceiver,
                                Unlocks, Returns
    <3> QED
      BY <1>1, <3>1
  <2> QED
    BY <1>2, <2>1, <2>2, <2>3 DEF TableStep
<1>3. CASE EmitStep(t)
  <2>1. PICK from \in Labels, to \in Labels :
          Goes(t, from, to) /\ to \in Emitting \cup {"idle"}
    BY <1>3 DEF EmitStep, CallEmit, LockEmit, Count, OutOfSemaphores, BeginWalk, Visit, Execute,
                ExecuteFails, HandlerReturns, Posts, PostFails, PostFaults, EndEmit, Returns,
                Labels, Emitting
  <2>2. pc'[t] \in Emitting \cup {"idle"}
    BY <1>0, <2>1, GoesTo
  <2> QED
    BY <1>1, <2>2 DEF Emitting
<1>4. CASE ObjectStep(t)
  <2>1. CASE Receive(t) \/ Process(t) \/ DestroyPackage(t)
    <3>1. pc'[t] \in {"process", "serve", "idle"}
      BY <1>0, <2>1, GoesTo DEF Receive, Process, DestroyPackage, Returns
    <3> QED
      BY <1>1, <3>1
  <2>2. CASE Cleared(t) \/ Invalidate(t)
    <3>1. Destroying(t) /\ UNCHANGED op
      BY <2>2 DEF Cleared, Invalidate, Goes, Destroying
    <3> QED
      BY <2>2, <3>1
  <2>3. CASE ClearOne(t)
    <3>1. Destroying(t) /\ UNCHANGED <<op, life>> /\ pc'[t] = pc[t]
      BY <1>0, <2>3, GoesTo DEF ClearOne, Goes, Destroying
    <3> QED
      BY <3>1
  <2> QED
    BY <1>4, <2>1, <2>2, <2>3 DEF ObjectStep
<1> QED
  BY <1>2, <1>3, <1>4 DEF Step

LEMMA NextDestruction ==
  ASSUME HomeInv, NEW t \in Threads, Step(t), NEW u \in Threads
  PROVE  DestructionOf(u)'
<1>0. /\ ObjectsKept /\ Places /\ ObjectTypes /\ ThreadTypes /\ DestructionOf(u)
      /\ life \in [Objects -> {"alive", "cleared", "invalid", "gone"}]
  BY DEF HomeInv, WalkInv, TypeInv, Places, ObjectTypes
<1>1. CASE u # t
  <2>1. pc'[u] = pc[u] /\ op'[u] = op[u]
    BY <1>0, <1>1, NextOnlyMoves DEF OnlyMoves
  <2>2. Destroying(u)' => Destroying(u)
    BY <2>1 DEF Destroying
  <2>3. Destroying(u) => life'[op[u].receiver] = life[op[u].receiver]
    BY <1>0, <1>1, OthersLive DEF DestructionOf
  <2> QED
    BY <1>0, <2>1, <2>2, <2>3 DEF DestructionOf
<1>2. CASE u = t
  <2>1. SUFFICES ASSUME Destroying(t)' PROVE DestructionOf(t)'
    BY <1>2 DEF DestructionOf
  <2>2. CASE Destruct(t)
    <3>1. PICK o \in Objects :
            /\ Home[o] = t /\ life[o] = "alive"
            /\ Goes(t, "idle", IF o \in QueueOwners THEN "clear" ELSE "invalidate")
            /\ op' = [op EXCEPT ![t] = [name |-> "disconnect_receiver", receiver |-> o]]
            /\ life' = life
      BY <2>2 DEF Destruct, object_vars
    <3>2. pc'[t] \in {"clear", "invalidate"} /\ op'[t].receiver = o
      BY <1>0, <3>1, GoesTo DEF ThreadTypes
    <3> QED
      BY <3>1, <3>2 DEF DestructionOf
  <2>3. CASE /\ Destroying(t) /\ UNCHANGED <<op, life>>
             /\ \/ pc'[t] = pc[t]
                \/ pc[t] \in {"lock", "wait"} /\ pc'[t] \in {"wait", "write"}
    BY <1>0, <1>2, <2>3 DEF DestructionOf
  <2>4. CASE Destroying(t) /\ UNCHANGED op /\ Cleared(t)
    <3>1. pc'[t] = "invalidate" /\ life' = [life EXCEPT ![op[t].receiver] = "cleared"]
      BY <1>0, <2>4, GoesTo DEF Cleared
    <3>2. op[t].receiver \in Objects /\ Home[op[t].receiver] = t
      BY <1>0, <1>2, <2>4 DEF DestructionOf
    <3> QED
      BY <1>0, <2>4, <3>1, <3>2 DEF DestructionOf
  <2>5. CASE Destroying(t) /\ UNCHANGED op /\ Invalidate(t)
    <3>1. pc'[t] = "lock" /\ life' = [life EXCEPT ![op[t].receiver] = "invalid"]
      BY <1>0, <2>5, GoesTo DEF Invalidate
    <3>2. op[t].receiver \in Objects /\ Home[op[t].receiver] = t
      BY <1>0, <1>2, <2>5 DEF DestructionOf
    <3> QED
      BY <1>0, <2>5, <3>1, <3>2 DEF DestructionOf
  <2> QED
    BY <1>0, <2>1, <2>2, <2>3, <2>4, <2>5, IntoDestruction
<1> QED
  BY <1>1, <1>2

\* How a package gets into a thread's hands.
LEMMA IntoHand ==
  ASSUME Places, NEW t \in Threads, Step(t),
         pc'[t] \in {"post", "fault", "process", "serve", "handler"}
  PROVE  \/ Visit(t) /\ pc'[t] = "post"
         \/ PostFaults(t) /\ pc[t] = "post" /\ pc'[t] = "fault" /\ UNCHANGED <<current, target>>
         \/ Execute(t) /\ pc[t] = "execute" /\ pc'[t] = "handler"
         \/ Receive(t) /\ pc'[t] = "process"
         \/ Process(t) /\ pc[t] = "process" /\ pc'[t] = "serve"
<1>0. ThreadTypes
  BY DEF Places
<1>1. ~ TableStep(t)
  <2>1. CASE TableStep(t)
    <3>1. \E from \in Labels, to \in Labels :
            Goes(t, from, to) /\ to \in {"lock", "wait", "write", "idle"}
      BY <2>1 DEF TableStep, CallConnect, CallDisconnect, CallDisconnectSignal, AnnounceWrite,
                  BeginWrite, AddConnection, RemoveConnection, RemoveSignal, RemoveReceiver,
                  Unlocks, Returns, Calls, Labels
    <3>2. pc'[t] \in {"lock", "wait", "write", "idle"}
      BY <1>0, <3>1, GoesTo
    <3> QED
      BY <3>2
  <2> QED
    BY <2>1
<1>2. CASE EmitStep(t)
  <2>1. CASE Visit(t)
    <3>1. Goes(t, "visit", IF QueueFor(Head(rest[t]), t) = Null THEN "execute" ELSE "post")
      BY <2>1 DEF Visit
    <3>2. pc'[t] = "post"
      BY <1>0, <3>1, GoesTo
    <3> QED
      BY <2>1, <3>2
  <2>2. CASE PostFaults(t)
    BY <1>0, <2>2, GoesTo DEF PostFaults
  <2>3. CASE Execute(t)
    BY <1>0, <2>3, GoesTo DEF Execute
  <2>4. CASE \/ CallEmit(t) \/ LockEmit(t) \/ Count(t) \/ OutOfSemaphores(t) \/ BeginWalk(t)
             \/ ExecuteFails(t) \/ HandlerReturns(t) \/ Posts(t) \/ PostFails(t) \/ EndEmit(t)
    <3>1. PICK from \in Labels, to \in Labels :
            Goes(t, from, to) /\ to \in {"emit", "count", "walk", "idle", "visit"}
      BY <2>4 DEF CallEmit, LockEmit, Count, OutOfSemaphores, BeginWalk, ExecuteFails,
                  HandlerReturns, Posts, PostFails, EndEmit, Returns, Labels
    <3>2. pc'[t] \in {"emit", "count", "walk", "idle", "visit"}
      BY <1>0, <3>1, GoesTo
    <3> QED
      BY <3>2
  <2> QED
    BY <1>2, <2>1, <2>2, <2>3, <2>4 DEF EmitStep
<1>3. CASE ObjectStep(t)
  <2>1. CASE Receive(t)
    BY <1>0, <2>1, GoesTo DEF Receive
  <2>2. CASE Process(t)
    BY <1>0, <2>2, GoesTo DEF Process
  <2>3. CASE DestroyPackage(t) \/ Destruct(t) \/ ClearOne(t) \/ Cleared(t) \/ Invalidate(t)
    <3>1. PICK from \in Labels, to \in Labels :
            Goes(t, from, to) /\ to \in {"idle", "clear", "invalidate", "lock"}
      BY <2>3 DEF DestroyPackage, Destruct, ClearOne, Cleared, Invalidate, Returns, Labels
    <3>2. pc'[t] \in {"idle", "clear", "invalidate", "lock"}
      BY <1>0, <3>1, GoesTo
    <3> QED
      BY <3>2
  <2> QED
    BY <1>3, <2>1, <2>2, <2>3 DEF ObjectStep
<1> QED
  BY <1>1, <1>2, <1>3 DEF Step

LEMMA NextHand ==
  ASSUME HomeInv, NEW t \in Threads, Step(t), NEW u \in Threads
  PROVE  HandOf(u)'
<1>0. /\ ObjectsKept /\ Places /\ ThreadTypes /\ LockPlaces /\ HandOf(u)
      /\ PlaceOf(u) /\ ObjectTypes
  BY DEF HomeInv, WalkInv, TypeInv, Places
<1>1. CASE u # t
  <2>1. pc'[u] = pc[u] /\ current'[u] = current[u] /\ target'[u] = target[u]
    BY <1>0, <1>1, NextOnlyMoves DEF OnlyMoves
  <2>2. ASSUME pc[u] = "serve", current[u].receiver \in Objects
        PROVE  life'[current[u].receiver] \in {"alive", "cleared"}
    <3>1. Home[current[u].receiver] = u
      BY <1>0, <2>2 DEF HandOf, Fits
    <3> QED
      BY <1>0, <1>1, <2>2, <3>1, OthersLive DEF HandOf
  <2>3. ASSUME pc[u] = "handler", current[u].receiver \in Objects
        PROVE  life'[current[u].receiver] # "gone"
    <3>1. u \in readers
      BY <1>0, <2>3 DEF LockPlaces, Reading, Emitting
    <3> QED
      BY <1>0, <2>3, <3>1, OthersLive DEF HandOf
  <2> QED
    BY <1>0, <2>1, <2>2, <2>3 DEF HandOf, Fits
<1>2. CASE u = t
  <2>1. CASE Visit(t) /\ pc'[t] = "post"
    <3> DEFINE n == Head(rest[t])
    <3>1. /\ rest[t] # <<>> /\ pc' = [pc EXCEPT ![t] =
               IF QueueFor(n, t) = Null THEN "execute" ELSE "post"]
          /\ current' = [current EXCEPT ![t] =
               [receiver |-> n.receiver, handle |-> n.handle,
                emission |-> IF Blocks(n) THEN emission[t] ELSE 0]]
          /\ target' = [target EXCEPT ![t] = QueueFor(n, t)]
      BY <2>1 DEF Visit, Goes
    <3>2. current'[t].receiver = n.receiver /\ target'[t] = QueueFor(n, t)
      BY <1>0, <3>1 DEF ThreadTypes
    <3>3. QueueFor(n, t) # Null
      BY <1>0, <2>1, <3>1 DEF ThreadTypes
    <3> HIDE DEF n
    <3>4. Fits(current'[t], ServedBy(target'[t]))
      BY <1>0, <3>2, <3>3, TargetFits DEF Fits
    <3> QED
      BY <1>2, <2>1, <3>4 DEF HandOf, Fits, ServedBy
  <2>2. CASE /\ PostFaults(t) /\ pc[t] = "post" /\ pc'[t] = "fault"
             /\ UNCHANGED <<current, target>>
    BY <1>0, <1>2, <2>2 DEF HandOf, Fits, ServedBy
  <2>3. CASE Execute(t) /\ pc[t] = "execute" /\ pc'[t] = "handler"
    <3>1. IsValid(current[t].receiver) /\ UNCHANGED <<current, life>>
      BY <2>3 DEF Execute, object_vars
    <3>2. ASSUME current[t].receiver \in Objects PROVE life[current[t].receiver] # "gone"
      <4>1. current[t].receiver # Null
        BY <3>2, ReceiversAssumption DEF Receivers
      <4>2. m_valid[current[t].receiver]
        BY <3>1, <4>1 DEF IsValid
      <4> QED
        BY <1>0, <3>2, <4>2 DEF ObjectsKept
    <3> QED
      BY <1>2, <2>3, <3>1, <3>2 DEF HandOf
  <2>4. CASE Receive(t) /\ pc'[t] = "process"
    <3>1. PICK q \in QueueOwners :
            /\ ServedBy(q) = t /\ queue[q] # <<>>
            /\ current' = [current EXCEPT ![t] = Head(queue[q])]
      BY <2>4 DEF Receive
    <3>2. queue[q] \in Seq(Packages)
      BY <1>0, ReceiversAssumption DEF ObjectTypes
    <3>3. Head(queue[q]) = queue[q][1] /\ 1 \in 1 .. Len(queue[q])
      BY <3>1, <3>2, EmptySeq
    <3>4. Fits(queue[q][1], t)
      BY <1>0, <3>1, <3>3 DEF ObjectsKept
    <3>5. current'[t] = queue[q][1]
      BY <1>0, <3>1, <3>3 DEF ThreadTypes
    <3> QED
      BY <1>2, <2>4, <3>4, <3>5 DEF HandOf, Fits
  <2>5. CASE Process(t) /\ pc[t] = "process" /\ pc'[t] = "serve"
    <3>1. IsValid(current[t].receiver) /\ UNCHANGED <<current, life>> /\ Fits(current[t], t)
      BY <1>0, <1>2, <2>5 DEF Process, object_vars, HandOf
    <3>2. ASSUME current[t].receiver \in Objects
          PROVE  life[current[t].receiver] \in {"alive", "cleared"}
      <4>1. current[t].receiver # Null
        BY <3>2, ReceiversAssumption DEF Receivers
      <4>2. m_valid[current[t].receiver]
        BY <3>1, <4>1 DEF IsValid
      <4> QED
        BY <1>0, <3>2, <4>2 DEF ObjectsKept
    <3> QED
      BY <1>2, <2>5, <3>1, <3>2 DEF HandOf, Fits
  <2>6. CASE pc'[t] \notin {"post", "fault", "process", "serve", "handler"}
    BY <1>2, <2>6 DEF HandOf
  <2> QED
    BY <1>0, <2>1, <2>2, <2>3, <2>4, <2>5, <2>6, IntoHand
<1> QED
  BY <1>1, <1>2

LEMMA InitHome == Init => HomeInv
<1>1. SUFFICES ASSUME Init PROVE HomeInv
  OBVIOUS
<1>2. ObjectsKept
  <2>1. PICK f \in [Objects -> Threads \cup {Null}] :
          /\ \A o \in Objects : f[o] \in {Home[o], Null}
          /\ affinity = [r \in Receivers |-> IF r \in Threads THEN r ELSE f[r]]
    BY <1>1 DEF Init
  <2>2. \A o \in Objects : affinity[o] \in {Home[o], Null}
    BY <2>1, ServerOf DEF Receivers
  <2>3. \A q \in QueueOwners : Len(queue[q]) = 0
    BY <1>1, EmptySeq, ReceiversAssumption DEF Init
  <2>4. \A o \in Objects : life[o] = "alive"
    BY <1>1 DEF Init
  <2> QED
    BY <2>2, <2>3, <2>4 DEF ObjectsKept
<1>3. \A t \in Threads : DestructionOf(t) /\ HandOf(t)
  BY <1>1 DEF Init, DestructionOf, Destroying, HandOf
<1> QED
  BY <1>1, <1>2, <1>3, InitWalk DEF HomeInv

LEMMA NextHome == HomeInv /\ [Next]_vars => HomeInv'
<1>1. SUFFICES ASSUME HomeInv, [Next]_vars PROVE HomeInv'
  OBVIOUS
<1>2. WalkInv'
  BY <1>1, NextWalkInv DEF HomeInv
<1>3. CASE UNCHANGED vars
  <2>1. UNCHANGED <<object_vars, thread_vars>>
    BY <1>3 DEF vars
  <2>2. ObjectsKept'
    BY <1>1, <2>1 DEF HomeInv, ObjectsKept, Fits, object_vars
  <2>3. \A t \in Threads : DestructionOf(t)' /\ HandOf(t)'
    BY <1>1, <2>1 DEF HomeInv, DestructionOf, Destroying, HandOf, Fits, ServedBy, object_vars,
                      thread_vars
  <2> QED
    BY <1>2, <2>2, <2>3 DEF HomeInv
<1>4. ASSUME NEW t \in Threads, Step(t) PROVE HomeInv'
  BY <1>1, <1>2, <1>4, NextObjectsKept, NextDestruction, NextHand DEF HomeInv
<1> QED
  BY <1>1, <1>3, <1>4 DEF Next, Step

LEMMA HomeInvHolds == Spec => []HomeInv
  BY InitHome, NextHome, PTL DEF Spec

\* No handler runs on an object whose destructor has returned, be it called by an
\* emission of another thread or for a package that waited in a queue, provided
\* that the thread that serves the object's signals destroys it (~Object_Base).
THEOREM HandlersHaveReceivers == Spec => []HandlerHasReceiver
<1>1. HomeInv => HandlerHasReceiver
  BY DEF HomeInv, HandOf, HandlerHasReceiver
<1> QED
  BY <1>1, HomeInvHolds, PTL

-------------------------------------------------------------------------------
(* What an emission owes *)

\* The pairs of X away from a, and the places of X at a.
Away(X, a) == {x \in X : x[1] # a}
At(X, a, n) == {i \in 1 .. n : <<a, i>> \in X}

LEMMA SplitPairs ==
  ASSUME NEW A, IsFiniteSet(A), NEW n \in Nat, NEW X, X \subseteq A \X (1 .. n), NEW a \in A
  PROVE  /\ Cardinality(X) \in Nat /\ Cardinality(Away(X, a)) \in Nat
         /\ Cardinality(At(X, a, n)) \in Nat
         /\ Cardinality(X) = Cardinality(Away(X, a)) + Cardinality(At(X, a, n))
<1> DEFINE O == Away(X, a)
           P == {x \in X : x[1] = a}
           I == At(X, a, n)
           f == [i \in I |-> <<a, i>>]
<1>1. IsFiniteSet(1 .. n) /\ IsFiniteSet(A \X (1 .. n))
  <2>1. IsFiniteSet(1 .. n)
    BY FS_Interval
  <2> QED
    BY <2>1, FS_Product
<1>2. IsFiniteSet(X)
  BY <1>1, FS_Subset
<1>3. IsFiniteSet(O) /\ IsFiniteSet(P)
  <2>1. O \subseteq X /\ P \subseteq X
    BY DEF Away
  <2> QED
    BY <1>2, <2>1, FS_Subset
<1>4. IsFiniteSet(I)
  <2>1. I \subseteq 1 .. n
    BY DEF At
  <2> QED
    BY <1>1, <2>1, FS_Subset
<1>5. O \cup P = X /\ O \cap P = {}
  BY DEF Away
<1>6. Cardinality(O \cup P) = Cardinality(O) + Cardinality(P)
  <2> HIDE DEF O, P
  <2> QED
    BY <1>3, <1>5, SizeOfParts
<1>7. f \in [I -> P] /\ \A x, y \in I : f[x] = f[y] => x = y
  BY DEF At
<1>8. \A y \in P : \E x \in I : f[x] = y
  <2> SUFFICES ASSUME NEW y \in P PROVE \E x \in I : f[x] = y
    OBVIOUS
  <2>1. y = <<a, y[2]>> /\ y[2] \in 1 .. n
    OBVIOUS
  <2>2. y[2] \in I
    BY <2>1 DEF At
  <2>3. f[y[2]] = y
    BY <2>1, <2>2
  <2> QED
    BY <2>2, <2>3
<1>9. Cardinality(P) = Cardinality(I)
  <2> HIDE DEF f, I, P
  <2> QED
    BY <1>4, <1>7, <1>8, SameSize
<1>10. Cardinality(X) \in Nat /\ Cardinality(O) \in Nat /\ Cardinality(I) \in Nat
  <2> HIDE DEF O, I
  <2> QED
    BY <1>2, <1>3, <1>4, FS_CardinalityType
<1> HIDE DEF O, P, I
<1>11. Cardinality(X) = Cardinality(O) + Cardinality(I)
  BY <1>5, <1>6, <1>9
<1> QED
  BY <1>10, <1>11 DEF O, I

\* The packages of e in one queue, in a thread's hands, and in the list it walks.
OfEmission(e) == {p \in Packages : p.emission = e}
InQueue(q, e) == Cardinality(PlacesIn(queue[q], OfEmission(e)))
HasInHand(t, e) == IF pc[t] \in Handling /\ current[t].emission = e THEN 1 ELSE 0
InList(t, e) == IF emission[t] = e THEN BlockingNodes(rest[t]) ELSE 0

LEMMA FiniteActors == IsFiniteSet(Receivers) /\ IsFiniteSet(Threads)
<1>1. Threads \subseteq Receivers
  BY DEF Receivers
<1> QED
  BY <1>1, ReceiversAssumption, FS_Subset

\* Queued, of any queues.
QueuedIn(f, e) ==
  {x \in Receivers \X (1 .. Capacity) : x[2] <= Len(f[x[1]]) /\ f[x[1]][x[2]].emission = e}

LEMMA QueuedParts ==
  ASSUME NEW f \in [Receivers -> Seq(Packages)], \A r \in Receivers : Len(f[r]) <= Capacity,
         NEW e, NEW q \in Receivers
  PROVE  LET others == Away(QueuedIn(f, e), q)
             here == Cardinality(PlacesIn(f[q], OfEmission(e)))
         IN /\ Cardinality(QueuedIn(f, e)) \in Nat
            /\ Cardinality(others) \in Nat /\ here \in Nat
            /\ Cardinality(QueuedIn(f, e)) = Cardinality(others) + here
<1> DEFINE X == QueuedIn(f, e)
           I == At(X, q, Capacity)
<1>1. X \subseteq Receivers \X (1 .. Capacity)
  BY DEF QueuedIn
<1>2. I = PlacesIn(f[q], OfEmission(e))
  <2>1. f[q] \in Seq(Packages) /\ Len(f[q]) <= Capacity /\ Capacity \in Nat /\ Len(f[q]) \in Nat
    BY CapacityIsNat, LenProperties
  <2>2. \A i \in 1 .. Len(f[q]) :
          i \in 1 .. Capacity /\ (f[q][i] \in OfEmission(e) <=> f[q][i].emission = e)
    <3>1. \A i \in 1 .. Len(f[q]) : f[q][i] \in Packages
      BY <2>1, ElementOfSeq
    <3> QED
      BY <2>1, <3>1 DEF OfEmission
  <2>3. \A i \in 1 .. Capacity : <<q, i>> \in X <=> i \in 1 .. Len(f[q]) /\ f[q][i].emission = e
    BY <2>1 DEF QueuedIn
  <2> QED
    BY <2>2, <2>3 DEF PlacesIn, At
<1> HIDE DEF X
<1>3. /\ Cardinality(X) \in Nat
      /\ Cardinality(Away(X, q)) \in Nat /\ Cardinality(I) \in Nat
      /\ Cardinality(X) = Cardinality(Away(X, q)) + Cardinality(I)
  <2>1. IsFiniteSet(Receivers) /\ Capacity \in Nat /\ q \in Receivers
    BY FiniteActors, CapacityIsNat
  <2> QED
    BY <1>1, <2>1, SplitPairs
<1> QED
  BY <1>2, <1>3 DEF X

\* One queue changes: its packages make the difference.
LEMMA QueuedChanges ==
  ASSUME ObjectTypes, ObjectTypes', NEW e, NEW q \in Receivers,
         \A r \in Receivers \ {q} : queue'[r] = queue[r]
  PROVE  /\ Cardinality(Queued(e)) \in Nat /\ Cardinality(Queued(e)') \in Nat
         /\ InQueue(q, e) \in Nat /\ InQueue(q, e)' \in Nat
         /\ Cardinality(Queued(e)') + InQueue(q, e) = Cardinality(Queued(e)) + InQueue(q, e)'
<1> DEFINE o == Cardinality(Away(QueuedIn(queue, e), q))
           a == Cardinality(Queued(e))
           b == Cardinality(Queued(e)')
           m == InQueue(q, e)
           n == InQueue(q, e)'
<1>0. Queued(e) = QueuedIn(queue, e) /\ Queued(e)' = QueuedIn(queue', e)
  BY DEF Queued, QueuedIn
<1>1. Away(QueuedIn(queue', e), q) = Away(QueuedIn(queue, e), q)
  BY DEF QueuedIn, Away
<1>2. a \in Nat /\ o \in Nat /\ m \in Nat /\ a = o + m
  BY <1>0, QueuedParts DEF InQueue, ObjectTypes
<1>3. b \in Nat /\ n \in Nat /\ b = o + n
  <2>1. queue' \in [Receivers -> Seq(Packages)] /\ \A r \in Receivers : Len(queue'[r]) <= Capacity
    BY DEF ObjectTypes
  <2>2. LET others == Away(QueuedIn(queue', e), q)
            here == Cardinality(PlacesIn(queue'[q], OfEmission(e)))
        IN /\ Cardinality(QueuedIn(queue', e)) \in Nat
           /\ Cardinality(others) \in Nat /\ here \in Nat
           /\ Cardinality(QueuedIn(queue', e)) = Cardinality(others) + here
    BY <2>1, QueuedParts
  <2>3. n = Cardinality(PlacesIn(queue'[q], OfEmission(e)))
    BY DEF InQueue
  <2> QED
    BY <1>0, <1>1, <2>2, <2>3
<1>4. b + m = a + n
  <2> HIDE DEF a, b, o, m, n
  <2> QED
    BY <1>2, <1>3
<1> QED
  BY <1>2, <1>3, <1>4

\* ToVisit, of any lists and emissions.
VisitIn(lists, numbers, e) ==
  {x \in Threads \X (1 .. MaxNodes) :
     numbers[x[1]] = e /\ x[2] <= Len(lists[x[1]]) /\ Blocks(lists[x[1]][x[2]])}

LEMMA ListParts ==
  ASSUME NEW f \in [Threads -> Seq(Connections)], \A u \in Threads : Len(f[u]) <= MaxNodes,
         NEW g, NEW e, NEW t \in Threads
  PROVE  LET others == Away(VisitIn(f, g, e), t)
             here == IF g[t] = e THEN BlockingNodes(f[t]) ELSE 0
         IN /\ Cardinality(VisitIn(f, g, e)) \in Nat
            /\ Cardinality(others) \in Nat /\ here \in Nat
            /\ Cardinality(VisitIn(f, g, e)) = Cardinality(others) + here
<1> DEFINE X == VisitIn(f, g, e)
           I == At(X, t, MaxNodes)
<1>0. /\ f[t] \in Seq(Connections) /\ Len(f[t]) <= MaxNodes /\ MaxNodes \in Nat
      /\ Len(f[t]) \in Nat
  BY LenProperties, SizesAssumption
<1>1. X \subseteq Threads \X (1 .. MaxNodes)
  BY DEF VisitIn
<1>2. \A i \in 1 .. MaxNodes :
        <<t, i>> \in X <=> g[t] = e /\ i <= Len(f[t]) /\ Blocks(f[t][i])
  BY DEF VisitIn
<1>3. g[t] = e => I = BlockingPlaces(f[t])
  BY <1>0, <1>2 DEF At, BlockingPlaces
<1>4. g[t] # e => I = {}
  BY <1>2 DEF At
<1> HIDE DEF X
<1>5. /\ Cardinality(X) \in Nat
      /\ Cardinality(Away(X, t)) \in Nat /\ Cardinality(I) \in Nat
      /\ Cardinality(X) = Cardinality(Away(X, t)) + Cardinality(I)
  <2>1. IsFiniteSet(Threads) /\ MaxNodes \in Nat /\ t \in Threads
    BY <1>0, FiniteActors
  <2> QED
    BY <1>1, <2>1, SplitPairs
<1>6. Cardinality(I) = IF g[t] = e THEN BlockingNodes(f[t]) ELSE 0
  <2>1. BlockingNodes(f[t]) = Cardinality(BlockingPlaces(f[t]))
    BY <1>0, BlockingNodesIsNat
  <2>2. Cardinality({}) = 0
    BY FS_EmptySet
  <2> HIDE DEF I
  <2> QED
    BY <1>3, <1>4, <2>1, <2>2
<1> HIDE DEF I
<1> QED
  BY <1>5, <1>6 DEF X

\* No list is longer than the pool of nodes.
ShortLists == \A u \in Threads : Len(rest[u]) <= MaxNodes

LEMMA ListsAreShort == WalkInv => ShortLists
<1>1. SUFFICES ASSUME WalkInv, NEW u \in Threads PROVE Len(rest[u]) <= MaxNodes
  BY DEF ShortLists
<1>2. /\ Places /\ ThreadTypes /\ TableInv /\ PlaceOf(u) /\ WalkOf(u)
      /\ MaxNodes \in Nat /\ rest[u] \in Seq(Connections)
  BY <1>1, SizesAssumption DEF WalkInv, TypeInv, Places, ThreadTypes
<1>3. CASE pc[u] \notin Walking \cup {"fault"}
  <2>1. Len(rest[u]) = 0
    BY <1>2, <1>3, EmptySeq DEF PlaceOf
  <2> QED
    BY <1>2, <2>1
<1>4. CASE pc[u] \in Walking \cup {"fault"}
  <2> DEFINE s == op[u].signal
             q == NodesOf(s)
  <2>1. s \in Signals
    BY <1>2, <1>4, EmissionNumber DEF Walking, Emitting
  <2>2. q \in Seq(Connections)
    <3>1. table[s] \in Groups \cup {Null} /\ q = ListOf(table[s])
      BY <1>2, <2>1 DEF TableInv, NodesOf, ListOf
    <3> QED
      BY <3>1, ListsAreSequences
  <2>3. IsSuffix(rest[u], q)
    BY <1>2, <1>4 DEF WalkOf
  <2>4. Len(rest[u]) <= Len(q)
    <3> HIDE DEF q
    <3> QED
      BY <1>2, <2>2, <2>3, SuffixMeans
  <2>5. Len(q) \in 0 .. MaxNodes
    <3>1. Sizes[s] \in 0 .. MaxNodes /\ Sizes[s] = Len(q)
      BY <1>2, <2>1 DEF TableInv, NodesKept, SizeFunctions, Sizes
    <3> QED
      BY <3>1
  <2>6. Len(rest[u]) \in Nat
    BY <1>2, LenProperties
  <2> HIDE DEF q
  <2> QED
    BY <1>2, <2>4, <2>5, <2>6
<1> QED
  BY <1>3, <1>4

LEMMA NextListsAreShort == WalkInv' => ShortLists'
  BY ListsAreShort, PTL

\* A thread moves: its own list makes the difference.
LEMMA ListChanges ==
  ASSUME ThreadTypes, ThreadTypes', ShortLists, ShortLists', NEW e, NEW t \in Threads,
         OnlyMoves(t)
  PROVE  /\ Cardinality(ToVisit(e)) \in Nat /\ Cardinality(ToVisit(e)') \in Nat
         /\ InList(t, e) \in Nat /\ InList(t, e)' \in Nat
         /\ Cardinality(ToVisit(e)') + InList(t, e) = Cardinality(ToVisit(e)) + InList(t, e)'
<1> DEFINE o == Cardinality(Away(VisitIn(rest, emission, e), t))
           a == Cardinality(ToVisit(e))
           b == Cardinality(ToVisit(e)')
           m == InList(t, e)
           n == InList(t, e)'
<1>0. ToVisit(e) = VisitIn(rest, emission, e) /\ ToVisit(e)' = VisitIn(rest', emission', e)
  BY DEF ToVisit, VisitIn
<1>1. Away(VisitIn(rest', emission', e), t) = Away(VisitIn(rest, emission, e), t)
  BY DEF VisitIn, Away, OnlyMoves
<1>2. a \in Nat /\ o \in Nat /\ m \in Nat /\ a = o + m
  <2>1. rest \in [Threads -> Seq(Connections)] /\ \A u \in Threads : Len(rest[u]) <= MaxNodes
    BY DEF ThreadTypes, ShortLists
  <2>2. LET others == Away(VisitIn(rest, emission, e), t)
            here == IF emission[t] = e THEN BlockingNodes(rest[t]) ELSE 0
        IN /\ Cardinality(VisitIn(rest, emission, e)) \in Nat
           /\ Cardinality(others) \in Nat /\ here \in Nat
           /\ Cardinality(VisitIn(rest, emission, e)) = Cardinality(others) + here
    BY SMTT(30), <2>1, ListParts
  <2> QED
    BY <1>0, <2>2 DEF InList
<1>3. b \in Nat /\ n \in Nat /\ b = o + n
  <2>1. rest' \in [Threads -> Seq(Connections)] /\ \A u \in Threads : Len(rest'[u]) <= MaxNodes
    BY DEF ThreadTypes, ShortLists
  <2>2. LET others == Away(VisitIn(rest', emission', e), t)
            here == IF emission'[t] = e THEN BlockingNodes(rest'[t]) ELSE 0
        IN /\ Cardinality(VisitIn(rest', emission', e)) \in Nat
           /\ Cardinality(others) \in Nat /\ here \in Nat
           /\ Cardinality(VisitIn(rest', emission', e)) = Cardinality(others) + here
    BY SMTT(30), <2>1, ListParts
  <2>3. n = IF emission'[t] = e THEN BlockingNodes(rest'[t]) ELSE 0
    BY DEF InList, BlockingNodes
  <2> QED
    BY <1>0, <1>1, <2>2, <2>3
<1>4. b + m = a + n
  <2> HIDE DEF a, b, o, m, n
  <2> QED
    BY <1>2, <1>3
<1> QED
  BY <1>2, <1>3, <1>4

\* InHand, of any places and packages.
HandsIn(places, packages, e) == {u \in Threads : places[u] \in Handling /\ packages[u].emission = e}

LEMMA HandParts ==
  ASSUME NEW f, NEW g, NEW e, NEW t \in Threads
  PROVE  LET others == HandsIn(f, g, e) \ {t}
             here == IF f[t] \in Handling /\ g[t].emission = e THEN 1 ELSE 0
         IN /\ Cardinality(HandsIn(f, g, e)) \in Nat
            /\ Cardinality(others) \in Nat /\ here \in Nat
            /\ Cardinality(HandsIn(f, g, e)) = Cardinality(others) + here
<1> DEFINE H == HandsIn(f, g, e)
           O == H \ {t}
<1>1. IsFiniteSet(H) /\ IsFiniteSet(O)
  <2>1. H \subseteq Threads /\ O \subseteq Threads
    BY DEF HandsIn
  <2> HIDE DEF H, O
  <2> QED
    BY <2>1, FiniteActors, FS_Subset
<1>2. Cardinality(H) \in Nat /\ Cardinality(O) \in Nat
  BY <1>1, FS_CardinalityType
<1>3. Cardinality(O) = IF t \in H THEN Cardinality(H) - 1 ELSE Cardinality(H)
  BY <1>1, FS_RemoveElement
<1>4. t \in H <=> f[t] \in Handling /\ g[t].emission = e
  BY DEF HandsIn
<1> QED
  BY <1>2, <1>3, <1>4

\* A thread moves: what it has in its hands makes the difference.
LEMMA HandChanges ==
  ASSUME NEW e, NEW t \in Threads, OnlyMoves(t)
  PROVE  /\ Cardinality(InHand(e)) \in Nat /\ Cardinality(InHand(e)') \in Nat
         /\ HasInHand(t, e) \in Nat /\ HasInHand(t, e)' \in Nat
         /\ Cardinality(InHand(e)') + HasInHand(t, e) = Cardinality(InHand(e)) + HasInHand(t, e)'
<1> DEFINE o == Cardinality(HandsIn(pc, current, e) \ {t})
           a == Cardinality(InHand(e))
           b == Cardinality(InHand(e)')
           m == HasInHand(t, e)
           n == HasInHand(t, e)'
<1>0. InHand(e) = HandsIn(pc, current, e) /\ InHand(e)' = HandsIn(pc', current', e)
  BY DEF InHand, HandsIn, Handling
<1>1. HandsIn(pc', current', e) \ {t} = HandsIn(pc, current, e) \ {t}
  BY DEF HandsIn, OnlyMoves
<1>2. a \in Nat /\ o \in Nat /\ m \in Nat /\ a = o + m
  BY <1>0, HandParts DEF HasInHand
<1>3. b \in Nat /\ n \in Nat /\ b = o + n
  <2>1. LET others == HandsIn(pc', current', e) \ {t}
            here == IF pc'[t] \in Handling /\ current'[t].emission = e THEN 1 ELSE 0
        IN /\ Cardinality(HandsIn(pc', current', e)) \in Nat
           /\ Cardinality(others) \in Nat /\ here \in Nat
           /\ Cardinality(HandsIn(pc', current', e)) = Cardinality(others) + here
    BY HandParts
  <2>2. n = IF pc'[t] \in Handling /\ current'[t].emission = e THEN 1 ELSE 0
    BY DEF HasInHand
  <2> QED
    BY <1>0, <1>1, <2>1, <2>2
<1>4. b + m = a + n
  <2> HIDE DEF a, b, o, m, n
  <2> QED
    BY <1>2, <1>3
<1> QED
  BY <1>2, <1>3, <1>4

\* A package at the end of a queue counts for itself.
LEMMA PlacesInLonger ==
  ASSUME NEW S, NEW q \in Seq(S), NEW p \in S, NEW E
  PROVE  /\ Cardinality(PlacesIn(q, E)) \in Nat
         /\ Cardinality(PlacesIn(Append(q, p), E))
              = Cardinality(PlacesIn(q, E)) + (IF p \in E THEN 1 ELSE 0)
<1> DEFINE n == Len(q)
           l == Append(q, p)
           A == PlacesIn(q, E)
<1>1. /\ l \in Seq(S) /\ Len(l) = n + 1 /\ n \in Nat
      /\ \A i \in 1 .. n : l[i] = q[i]
      /\ l[n + 1] = p
  BY AppendProperties, LenProperties
<1>2. A \subseteq 1 .. Len(q)
  BY DEF PlacesIn
<1>3. IsFiniteSet(A) /\ Cardinality(A) \in Nat /\ n + 1 \notin A
  <2>1. IsFiniteSet(A) /\ Cardinality(A) \in 0 .. Len(q)
    <3> HIDE DEF A
    <3> QED
      BY <1>2, PlacesAreFinite
  <2>2. n + 1 \notin 1 .. n
    BY <1>1
  <2> HIDE DEF A
  <2> QED
    BY <1>2, <2>1, <2>2
<1>4. PlacesIn(l, E) = IF p \in E THEN A \cup {n + 1} ELSE A
  <2>1. \A i : i \in 1 .. n + 1 <=> i \in 1 .. n \/ i = n + 1
    BY <1>1
  <2> HIDE DEF l
  <2> QED
    BY <1>1, <2>1 DEF PlacesIn
<1>5. Cardinality(A \cup {n + 1}) = Cardinality(A) + 1
  <2>1. Cardinality(A \cup {n + 1}) = IF n + 1 \in A THEN Cardinality(A) ELSE Cardinality(A) + 1
    <3> HIDE DEF A
    <3> QED
      BY <1>3, FS_AddElement
  <2> QED
    BY <1>3, <2>1
<1> HIDE DEF A
<1> QED
  BY <1>3, <1>4, <1>5 DEF A

\* Emission e and what it owes.
Accounted(e) ==
  released[e] + Cardinality(Queued(e)) + Cardinality(InHand(e)) + Cardinality(ToVisit(e)) = owed[e]

\* What a step of t that uses the queue of q can change of it.
Share(t, q, e) == released[e] + InQueue(q, e) + HasInHand(t, e) + InList(t, e)

\* What the step changes adds up.
Balanced(t, e) ==
  \E q \in Receivers :
    /\ \A r \in Receivers \ {q} : queue'[r] = queue[r]
    /\ Share(t, q, e)' + owed[e] = Share(t, q, e) + owed'[e]

LEMMA BalancedStep ==
  ASSUME WalkInv, WalkInv', NEW t \in Threads, Step(t), NEW e \in 1 .. MaxEmits,
         Accounted(e), Balanced(t, e)
  PROVE  Accounted(e)'
<1>1. PICK q \in Receivers :
        /\ \A r \in Receivers \ {q} : queue'[r] = queue[r]
        /\ Share(t, q, e)' + owed[e] = Share(t, q, e) + owed'[e]
  BY DEF Balanced
<1>2. /\ ObjectTypes /\ ThreadTypes /\ EmissionTypes /\ ShortLists
      /\ ObjectTypes' /\ ThreadTypes' /\ EmissionTypes' /\ ShortLists'
  BY ListsAreShort, NextListsAreShort DEF WalkInv, TypeInv, Places
<1>3. OnlyMoves(t)
  BY <1>2, NextOnlyMoves
<1> DEFINE Q == Cardinality(Queued(e))
           H == Cardinality(InHand(e))
           V == Cardinality(ToVisit(e))
           q1 == InQueue(q, e)
           h1 == HasInHand(t, e)
           v1 == InList(t, e)
           Q2 == Cardinality(Queued(e)')
           H2 == Cardinality(InHand(e)')
           V2 == Cardinality(ToVisit(e)')
           q2 == InQueue(q, e)'
           h2 == HasInHand(t, e)'
           v2 == InList(t, e)'
           r1 == released[e]
           r2 == released'[e]
           o1 == owed[e]
           o2 == owed'[e]
<1>4. Q \in Nat /\ Q2 \in Nat /\ q1 \in Nat /\ q2 \in Nat /\ Q2 + q1 = Q + q2
  BY <1>1, <1>2, QueuedChanges
<1>5. H \in Nat /\ H2 \in Nat /\ h1 \in Nat /\ h2 \in Nat /\ H2 + h1 = H + h2
  BY <1>3, HandChanges
<1>6. V \in Nat /\ V2 \in Nat /\ v1 \in Nat /\ v2 \in Nat /\ V2 + v1 = V + v2
  BY <1>2, <1>3, ListChanges
<1>7. r1 \in Nat /\ r2 \in Nat /\ o1 \in Nat /\ o2 \in Nat
  BY <1>2 DEF EmissionTypes
<1>8. (r2 + q2 + h2 + v2) + o1 = (r1 + q1 + h1 + v1) + o2
  BY <1>1 DEF Share
<1>9. r1 + Q + H + V = o1
  BY DEF Accounted
<1>10. r2 + Q2 + H2 + V2 = o2
  <2> HIDE DEF Q, H, V, q1, h1, v1, Q2, H2, V2, q2, h2, v2, r1, r2, o1, o2
  <2> QED
    BY <1>4, <1>5, <1>6, <1>7, <1>8, <1>9
<1> QED
  BY <1>10 DEF Accounted

\* The numbers that are added up.
LEMMA ShareTypes ==
  ASSUME ObjectTypes, ThreadTypes, EmissionTypes,
         NEW t \in Threads, NEW q \in Receivers, NEW e \in 1 .. MaxEmits
  PROVE  /\ released[e] \in Nat /\ owed[e] \in Nat /\ InQueue(q, e) \in Nat
         /\ HasInHand(t, e) \in {0, 1} /\ InList(t, e) \in Nat
<1>1. released[e] \in Nat /\ owed[e] \in Nat
  BY DEF EmissionTypes
<1>2. InQueue(q, e) \in Nat
  <2>1. queue[q] \in Seq(Packages)
    BY DEF ObjectTypes
  <2>2. PlacesIn(queue[q], OfEmission(e)) \subseteq 1 .. Len(queue[q])
    BY DEF PlacesIn
  <2>3. Cardinality(PlacesIn(queue[q], OfEmission(e))) \in 0 .. Len(queue[q])
    BY <2>1, <2>2, PlacesAreFinite
  <2> QED
    BY <2>1, <2>3, LenProperties DEF InQueue
<1>3. InList(t, e) \in Nat
  BY BlockingNodesIsNat DEF InList, ThreadTypes
<1> QED
  BY <1>1, <1>2, <1>3 DEF HasInHand

\* A step that only moves t, and changes neither what it holds nor its list.
LEMMA QuietIsBalanced ==
  ASSUME ObjectTypes, ThreadTypes, EmissionTypes, NEW t \in Threads, NEW e \in 1 .. MaxEmits,
         UNCHANGED <<queue, released, owed>>,
         HasInHand(t, e)' = HasInHand(t, e), InList(t, e)' = InList(t, e)
  PROVE  Balanced(t, e)
<1>1. t \in Receivers
  BY DEF Receivers
<1>2. InQueue(t, e)' = InQueue(t, e)
  BY DEF InQueue
<1>3. Share(t, t, e)' = Share(t, t, e)
  BY <1>2 DEF Share
<1>4. Share(t, t, e)' + owed[e] = Share(t, t, e) + owed'[e]
  BY <1>3
<1> QED
  BY <1>1, <1>4 DEF Balanced

LEMMA ReleaseCounts ==
  ASSUME EmissionTypes, NEW x \in 0 .. MaxEmits, Releases(x), NEW e \in 1 .. MaxEmits
  PROVE  released'[e] = released[e] + (IF x = e THEN 1 ELSE 0)
<1>1. e # 0 /\ released \in [1 .. MaxEmits -> Nat] /\ released[e] \in Nat
  BY SizesAssumption DEF EmissionTypes
<1>2. CASE x = 0
  BY <1>1, <1>2 DEF Releases
<1>3. CASE x # 0
  <2>1. released' = [released EXCEPT ![x] = @ + 1]
    BY <1>3 DEF Releases
  <2> QED
    BY <1>1, <2>1
<1> QED
  BY <1>2, <1>3

\* The package in t's hands is destroyed.
LEMMA ReleaseIsBalanced ==
  ASSUME ObjectTypes, ThreadTypes, EmissionTypes, NEW t \in Threads, NEW e \in 1 .. MaxEmits,
         UNCHANGED <<queue, owed>>, current[t].emission \in 0 .. MaxEmits,
         Releases(current[t].emission), pc[t] \in Handling, pc'[t] \notin Handling,
         InList(t, e)' = InList(t, e)
  PROVE  Balanced(t, e)
<1>1. t \in Receivers
  BY DEF Receivers
<1>2. InQueue(t, e)' = InQueue(t, e)
  BY DEF InQueue
<1>3. released'[e] = released[e] + HasInHand(t, e) /\ HasInHand(t, e)' = 0
  BY ReleaseCounts DEF HasInHand
<1>4. /\ released[e] \in Nat /\ InQueue(t, e) \in Nat
      /\ HasInHand(t, e) \in {0, 1} /\ InList(t, e) \in Nat
  BY <1>1, ShareTypes
<1>5. Share(t, t, e)' = Share(t, t, e)
  <2> DEFINE r1 == released[e]
             r2 == released'[e]
             h == HasInHand(t, e)
             h2 == HasInHand(t, e)'
             n == InQueue(t, e)
             v == InList(t, e)
  <2>1. r2 + n + h2 + v = r1 + n + h + v
    <3>1. r2 = r1 + h /\ h2 = 0 /\ r1 \in Nat /\ n \in Nat /\ v \in Nat /\ h \in {0, 1}
      BY <1>3, <1>4
    <3> HIDE DEF r1, r2, h, h2, n, v
    <3> QED
      BY <3>1
  <2> QED
    BY <1>2, <2>1 DEF Share
<1>6. Share(t, t, e)' + owed[e] = Share(t, t, e) + owed'[e]
  BY <1>5
<1> QED
  BY <1>1, <1>6 DEF Balanced

\* The first package of a queue comes into t's hands, or is destroyed.
LEMMA TakingIsBalanced ==
  ASSUME ObjectTypes, ThreadTypes, EmissionTypes, NEW t \in Threads, NEW e \in 1 .. MaxEmits,
         NEW q \in Receivers, queue[q] # <<>>, queue' = [queue EXCEPT ![q] = Tail(@)],
         owed' = owed, InList(t, e)' = InList(t, e),
         released'[e] + HasInHand(t, e)'
           = released[e] + HasInHand(t, e) + (IF Head(queue[q]).emission = e THEN 1 ELSE 0),
         released'[e] \in Nat
  PROVE  Balanced(t, e)
<1> DEFINE x == IF Head(queue[q]).emission = e THEN 1 ELSE 0
           r1 == released[e]
           r2 == released'[e]
           h1 == HasInHand(t, e)
           h2 == HasInHand(t, e)'
           n1 == InQueue(q, e)
           n2 == InQueue(q, e)'
           v == InList(t, e)
<1>1. queue[q] \in Seq(Packages) /\ queue'[q] = Tail(queue[q])
  BY DEF ObjectTypes
<1>2. Head(queue[q]) \in Packages
  BY <1>1, HeadTailProperties
<1>3. /\ Cardinality(PlacesIn(Tail(queue[q]), OfEmission(e))) \in Nat
      /\ Cardinality(PlacesIn(queue[q], OfEmission(e)))
           = (IF Head(queue[q]) \in OfEmission(e) THEN 1 ELSE 0)
               + Cardinality(PlacesIn(Tail(queue[q]), OfEmission(e)))
  BY <1>1, PlacesInTail
<1>4. n1 = x + n2 /\ n2 \in Nat
  BY <1>1, <1>2, <1>3 DEF InQueue, OfEmission
<1>5. r1 \in Nat /\ h1 \in {0, 1} /\ v \in Nat
  BY ShareTypes
<1>6. h2 \in {0, 1} /\ r2 \in Nat /\ x \in {0, 1}
  BY DEF HasInHand
<1>7. r2 + h2 = r1 + h1 + x
  OBVIOUS
<1>8. r2 + n2 + h2 + v = r1 + n1 + h1 + v
  <2> HIDE DEF x, r1, r2, h1, h2, n1, n2, v
  <2> QED
    BY <1>4, <1>5, <1>6, <1>7
<1>9. Share(t, q, e)' = Share(t, q, e)
  BY <1>8 DEF Share
<1>10. \A r \in Receivers \ {q} : queue'[r] = queue[r]
  BY DEF ObjectTypes
<1>11. Share(t, q, e)' + owed[e] = Share(t, q, e) + owed'[e]
  BY <1>9
<1> QED
  BY <1>10, <1>11 DEF Balanced

\* The package in t's hands goes to the end of a queue.
LEMMA PostingIsBalanced ==
  ASSUME ObjectTypes, ThreadTypes, EmissionTypes, NEW t \in Threads, NEW e \in 1 .. MaxEmits,
         NEW q \in Receivers, queue' = [queue EXCEPT ![q] = Append(@, current[t])],
         current[t] \in Packages, pc[t] \in Handling, pc'[t] \notin Handling,
         UNCHANGED <<released, owed>>, InList(t, e)' = InList(t, e)
  PROVE  Balanced(t, e)
<1> DEFINE r == released[e]
           h1 == HasInHand(t, e)
           h2 == HasInHand(t, e)'
           n1 == InQueue(q, e)
           n2 == InQueue(q, e)'
           v == InList(t, e)
<1>1. queue[q] \in Seq(Packages) /\ queue'[q] = Append(queue[q], current[t])
  BY DEF ObjectTypes
<1>2. Cardinality(PlacesIn(Append(queue[q], current[t]), OfEmission(e)))
        = Cardinality(PlacesIn(queue[q], OfEmission(e)))
            + (IF current[t] \in OfEmission(e) THEN 1 ELSE 0)
  BY SMTT(30), <1>1, PlacesInLonger
<1>3. n2 = n1 + h1 /\ h2 = 0
  BY <1>1, <1>2 DEF InQueue, OfEmission, HasInHand
<1>4. r \in Nat /\ h1 \in {0, 1} /\ v \in Nat /\ n1 \in Nat
  BY ShareTypes
<1>5. r + n2 + h2 + v = r + n1 + h1 + v
  <2> HIDE DEF r, h1, h2, n1, n2, v
  <2> QED
    BY <1>3, <1>4
<1>6. Share(t, q, e)' = Share(t, q, e)
  BY <1>5 DEF Share
<1>7. \A u \in Receivers \ {q} : queue'[u] = queue[u]
  BY DEF ObjectTypes
<1>8. Share(t, q, e)' + owed[e] = Share(t, q, e) + owed'[e]
  BY <1>6
<1> QED
  BY <1>7, <1>8 DEF Balanced

\* The first node of the list becomes a package, of the emission if it blocks.
LEMMA VisitIsBalanced ==
  ASSUME Places, ObjectTypes, EmissionTypes, NEW t \in Threads, NEW e \in 1 .. MaxEmits, Visit(t)
  PROVE  Balanced(t, e)
<1> DEFINE n == Head(rest[t])
           r == released[e]
           h1 == HasInHand(t, e)
           h2 == HasInHand(t, e)'
           q == InQueue(t, e)
           v1 == InList(t, e)
           v2 == InList(t, e)'
<1>0. ThreadTypes /\ PlaceOf(t) /\ t \in Receivers
  BY DEF Places, Receivers
<1>1. /\ pc[t] = "visit" /\ rest[t] # <<>> /\ rest' = [rest EXCEPT ![t] = Tail(@)]
      /\ current' = [current EXCEPT ![t] =
           [receiver |-> n.receiver, handle |-> n.handle,
            emission |-> IF Blocks(n) THEN emission[t] ELSE 0]]
      /\ Goes(t, "visit", IF QueueFor(n, t) = Null THEN "execute" ELSE "post")
      /\ UNCHANGED <<queue, emission, released, owed>>
  BY DEF Visit, object_vars, emission_vars
<1>2. /\ rest[t] \in Seq(Connections) /\ rest'[t] = Tail(rest[t])
      /\ current'[t].emission = IF Blocks(n) THEN emission[t] ELSE 0
      /\ pc'[t] \in {"execute", "post"} /\ emission'[t] = emission[t]
  BY <1>0, <1>1, GoesTo DEF ThreadTypes
<1>3. /\ BlockingNodes(rest[t]) = Counted(n) + BlockingNodes(rest'[t])
      /\ BlockingNodes(rest'[t]) \in Nat
  <2>1. BlockingNodes(rest[t]) = Counted(Head(rest[t])) + BlockingNodes(Tail(rest[t]))
    BY <1>1, <1>2, BlockingOfTail
  <2>2. Tail(rest[t]) \in Seq(Connections)
    BY <1>1, <1>2, HeadTailProperties
  <2>3. BlockingNodes(Tail(rest[t])) \in Nat
    BY <2>2, BlockingNodesIsNat
  <2> QED
    BY <1>2, <2>1, <2>3
<1>4. InList(t, e)' = IF emission[t] = e THEN BlockingNodes(rest'[t]) ELSE 0
  BY <1>2 DEF InList, BlockingNodes
<1>5. e # 0
  BY SizesAssumption
<1>6. h1 = 0 /\ h2 = IF Blocks(n) /\ emission[t] = e THEN 1 ELSE 0
  <2> HIDE DEF n
  <2> QED
    BY <1>1, <1>2, <1>5 DEF HasInHand, Handling
<1>7. v1 = v2 + h2 /\ v2 \in Nat
  <2> HIDE DEF n
  <2> QED
    BY <1>3, <1>4, <1>6 DEF InList, Counted
<1>8. InQueue(t, e)' = q
  BY <1>1 DEF InQueue
<1>9. r \in Nat /\ q \in Nat /\ h2 \in {0, 1}
  BY <1>0, <1>6, ShareTypes
<1>10. r + q + h2 + v2 = r + q + h1 + v1
  <2> HIDE DEF r, q, h1, h2, v1, v2
  <2> QED
    BY <1>6, <1>7, <1>9
<1>11. Share(t, t, e)' = Share(t, t, e)
  <2>1. released' = released
    BY <1>1
  <2> QED
    BY <1>8, <1>10, <2>1 DEF Share
<1>12. Share(t, t, e)' + owed[e] = Share(t, t, e) + owed'[e]
  BY <1>1, <1>11
<1>13. \A u \in Receivers \ {t} : queue'[u] = queue[u]
  BY <1>1
<1> QED
  BY <1>0, <1>12, <1>13 DEF Balanced

\* The list is taken: all of it is owed.
LEMMA BeginWalkIsBalanced ==
  ASSUME WalkInv, NEW t \in Threads, NEW e \in 1 .. MaxEmits, BeginWalk(t),
         owed[emission[t]] = 0
  PROVE  Balanced(t, e)
<1> DEFINE l == NodesOf(op[t].signal)
           r == released[e]
           q == InQueue(t, e)
           v2 == InList(t, e)'
           o1 == owed[e]
           o2 == owed'[e]
<1>0. /\ Places /\ ThreadTypes /\ PlaceOf(t) /\ t \in Receivers /\ ObjectTypes /\ EmissionTypes
      /\ TableInv
  BY DEF WalkInv, TypeInv, Places, Receivers
<1>1. /\ Goes(t, "walk", "visit") /\ rest' = [rest EXCEPT ![t] = l]
      /\ owed' = [owed EXCEPT ![emission[t]] = BlockingNodes(l)]
      /\ UNCHANGED <<queue, current, emission, released>>
  BY DEF BeginWalk, object_vars
<1>2. pc[t] = "walk" /\ pc'[t] = "visit" /\ rest[t] = <<>>
  BY <1>0, <1>1, GoesTo DEF PlaceOf, Walking
<1>3. emission[t] \in 1 .. MaxEmits /\ op[t].signal \in Signals
  BY <1>0, <1>2, EmissionNumber DEF Emitting
<1>4. l \in Seq(Connections)
  <2>1. table[op[t].signal] \in Groups \cup {Null} /\ l = ListOf(table[op[t].signal])
    BY <1>0, <1>3 DEF TableInv, NodesOf, ListOf
  <2> QED
    BY <2>1, ListsAreSequences
<1>5. BlockingNodes(l) \in Nat
  <2> HIDE DEF l
  <2> QED
    BY <1>4, BlockingNodesIsNat
<1>6. HasInHand(t, e) = 0 /\ HasInHand(t, e)' = 0
  BY <1>2 DEF HasInHand, Handling
<1>7. InList(t, e) = 0
  BY <1>2, BlockingOfNothing DEF InList
<1>8. v2 = IF emission[t] = e THEN BlockingNodes(l) ELSE 0
  <2>1. rest'[t] = l /\ emission'[t] = emission[t]
    BY <1>0, <1>1 DEF ThreadTypes
  <2>2. InList(t, e)' = IF emission'[t] = e THEN BlockingNodes(rest'[t]) ELSE 0
    BY DEF InList, BlockingNodes
  <2> QED
    BY <2>1, <2>2
<1>9. o1 \in Nat /\ o2 = o1 + v2 /\ v2 \in Nat
  <2>1. o1 \in Nat /\ o2 = IF emission[t] = e THEN BlockingNodes(l) ELSE o1
    <3> HIDE DEF l
    <3> QED
      BY <1>0, <1>1, <1>3 DEF EmissionTypes
  <2>2. emission[t] = e => o1 = 0
    OBVIOUS
  <2> HIDE DEF l, o1, o2, v2
  <2> QED
    BY <1>5, <1>8, <2>1, <2>2
<1>10. r \in Nat /\ q \in Nat
  BY <1>0, ShareTypes
<1>11. (r + q + 0 + v2) + o1 = (r + q + 0 + 0) + o2
  <2> HIDE DEF r, q, v2, o1, o2
  <2> QED
    BY <1>9, <1>10
<1>12. InQueue(t, e)' = q /\ released' = released
  BY <1>1 DEF InQueue
<1>13. Share(t, t, e)' + owed[e] = Share(t, t, e) + owed'[e]
  BY <1>6, <1>7, <1>11, <1>12 DEF Share
<1>14. \A u \in Receivers \ {t} : queue'[u] = queue[u]
  BY <1>1
<1> QED
  BY <1>0, <1>13, <1>14 DEF Balanced

\* Nothing is owed yet by an emission that has not begun its walk.
NothingOwed(t) == pc[t] \in {"emit", "count", "walk"} => owed[emission[t]] = 0

OwedInv ==
  /\ WalkInv
  /\ \A e \in 1 .. MaxEmits : Accounted(e)
  /\ \A t \in Threads : NothingOwed(t)
  /\ \A e \in 1 .. MaxEmits : e > emits => owed[e] = 0

LEMMA EmptyHandsAreQuiet ==
  ASSUME ObjectTypes, ThreadTypes, EmissionTypes, NEW t \in Threads, NEW e \in 1 .. MaxEmits,
         UNCHANGED <<queue, released, owed>>,
         pc[t] \notin Handling, pc'[t] \notin Handling, rest[t] = <<>>, rest'[t] = <<>>
  PROVE  Balanced(t, e)
<1>1. HasInHand(t, e) = 0 /\ HasInHand(t, e)' = 0
  BY DEF HasInHand
<1>2. BlockingNodes(rest[t]) = 0 /\ BlockingNodes(rest'[t]) = 0
  BY BlockingOfNothing
<1>3. InList(t, e) = 0
  BY <1>2 DEF InList
<1>4. InList(t, e)' = 0
  <2>1. InList(t, e)' = IF emission'[t] = e THEN BlockingNodes(rest'[t]) ELSE 0
    BY DEF InList, BlockingNodes
  <2> QED
    BY <1>2, <2>1
<1> QED
  BY <1>1, <1>3, <1>4, QuietIsBalanced

LEMMA SameList ==
  ASSUME NEW t \in Threads, NEW e, UNCHANGED <<rest, emission>>
  PROVE  InList(t, e)' = InList(t, e)
  BY DEF InList, BlockingNodes

LEMMA EveryStepIsBalanced ==
  ASSUME WalkInv, WalkInv', NEW t \in Threads, Step(t), NEW e \in 1 .. MaxEmits,
         BeginWalk(t) => owed[emission[t]] = 0
  PROVE  Balanced(t, e)
<1>0. /\ Places /\ ThreadTypes /\ PlaceOf(t) /\ PlaceOf(t)' /\ ObjectTypes /\ EmissionTypes
      /\ EmissionTypes'
  BY DEF WalkInv, TypeInv, Places
<1>1. ASSUME UNCHANGED <<queue, released, owed>>,
             (pc[t] \in Labels \ (Walking \cup Handling)) \/ (rest[t] = <<>> /\ pc[t] \notin Handling),
             pc'[t] \notin Walking \cup Handling
      PROVE  Balanced(t, e)
  <2>1. rest[t] = <<>> /\ rest'[t] = <<>> /\ pc[t] \notin Handling /\ pc'[t] \notin Handling
    BY <1>0, <1>1 DEF PlaceOf, Handling
  <2> QED
    BY <1>0, <1>1, <2>1, EmptyHandsAreQuiet
<1>2. CASE TableStep(t)
  <2>1. UNCHANGED <<queue, released, owed>>
    BY <1>2 DEF TableStep, CallConnect, CallDisconnect, CallDisconnectSignal, AnnounceWrite,
                BeginWrite, AddConnection, RemoveConnection, RemoveSignal, RemoveReceiver,
                object_vars, emission_vars
  <2>2. PICK from \in {"idle", "lock", "wait", "write"}, to \in {"idle", "lock", "wait", "write"} :
          Goes(t, from, to)
    BY <1>2 DEF TableStep, CallConnect, CallDisconnect, CallDisconnectSignal, Calls, AnnounceWrite,
                BeginWrite, AddConnection, RemoveConnection, RemoveSignal, RemoveReceiver, Unlocks,
                Returns
  <2>3. pc[t] = from /\ pc'[t] = to
    BY <1>0, <2>2, GoesTo
  <2>4. pc[t] \in Labels \ (Walking \cup Handling) /\ pc'[t] \notin Walking \cup Handling
    BY <2>3 DEF Labels, Walking, Handling
  <2> QED
    BY <1>1, <2>1, <2>4
<1>3. CASE EmitStep(t)
  <2>1. CASE CallEmit(t) \/ LockEmit(t) \/ Count(t) \/ OutOfSemaphores(t)
    <3>1. UNCHANGED <<queue, released, owed>>
      BY <2>1 DEF CallEmit, LockEmit, Count, OutOfSemaphores, object_vars, emission_vars
    <3>2. PICK from \in {"idle", "emit", "count", "walk"}, to \in {"idle", "emit", "count", "walk"} :
            Goes(t, from, to)
      BY <2>1 DEF CallEmit, LockEmit, Count, OutOfSemaphores, Returns
    <3>3. pc[t] = from /\ pc'[t] = to
      BY <1>0, <3>2, GoesTo
    <3>4. pc[t] \in Labels \ (Walking \cup Handling) /\ pc'[t] \notin Walking \cup Handling
      BY <3>3 DEF Labels, Walking, Handling
    <3> QED
      BY <1>1, <3>1, <3>4
  <2>2. CASE BeginWalk(t)
    BY <2>2, BeginWalkIsBalanced
  <2>3. CASE Visit(t)
    BY <1>0, <2>3, VisitIsBalanced
  <2>4. CASE Execute(t) \/ PostFaults(t)
    <3>1. UNCHANGED <<queue, released, owed, rest, current, emission>>
      BY <2>4 DEF Execute, PostFaults, object_vars, emission_vars
    <3>2. pc[t] \in Handling /\ pc'[t] \in Handling
      BY <1>0, <2>4, GoesTo DEF Execute, PostFaults, Handling
    <3>3. HasInHand(t, e)' = HasInHand(t, e)
      BY <3>1, <3>2 DEF HasInHand
    <3> QED
      BY <1>0, <3>1, <3>3, SameList, QuietIsBalanced
  <2>5. CASE ExecuteFails(t) \/ HandlerReturns(t) \/ PostFails(t)
    <3>1. UNCHANGED <<queue, owed, rest, emission>> /\ Releases(current[t].emission)
      BY <2>5 DEF ExecuteFails, HandlerReturns, PostFails, object_vars
    <3>2. pc[t] \in Handling /\ pc'[t] \notin Handling
      BY <1>0, <2>5, GoesTo DEF ExecuteFails, HandlerReturns, PostFails, Handling
    <3>3. current[t].emission \in 0 .. MaxEmits
      BY <1>0, <3>2, EmissionNumber
    <3> QED
      BY <1>0, <3>1, <3>2, <3>3, SameList, ReleaseIsBalanced
  <2>6. CASE Posts(t)
    <3>1. /\ queue' = [queue EXCEPT ![target[t]] = Append(@, current[t])]
          /\ UNCHANGED <<released, owed, rest, emission>> /\ pc[t] = "post"
      BY <2>6 DEF Posts, Goes, emission_vars
    <3>2. pc[t] \in Handling /\ pc'[t] \notin Handling
      BY <1>0, <2>6, GoesTo DEF Posts, Handling
    <3>3. current[t] \in Packages /\ target[t] \in Receivers
      BY <1>0, <3>1, <3>2, ReceiversAssumption DEF PlaceOf
    <3> QED
      BY <1>0, <3>1, <3>2, <3>3, SameList, PostingIsBalanced
  <2>7. CASE EndEmit(t)
    <3>1. UNCHANGED <<queue, released, owed>> /\ rest[t] = <<>> /\ Goes(t, "visit", "idle")
      BY <2>7 DEF EndEmit, Returns, object_vars, emission_vars
    <3>2. pc[t] = "visit" /\ pc'[t] = "idle"
      BY <1>0, <3>1, GoesTo
    <3>3. pc[t] \notin Handling /\ pc'[t] \notin Walking \cup Handling
      BY <3>2 DEF Walking, Handling
    <3> QED
      BY <1>1, <3>1, <3>3
  <2> QED
    BY <1>3, <2>1, <2>2, <2>3, <2>4, <2>5, <2>6, <2>7 DEF EmitStep
<1>4. CASE ObjectStep(t)
  <2>1. CASE Receive(t)
    <3>1. PICK q \in QueueOwners :
            /\ queue[q] # <<>> /\ current' = [current EXCEPT ![t] = Head(queue[q])]
            /\ queue' = [queue EXCEPT ![q] = Tail(@)]
      BY <2>1 DEF Receive
    <3>2. UNCHANGED <<released, owed, rest, emission>> /\ Goes(t, "idle", "process")
      BY <2>1 DEF Receive, emission_vars
    <3>3. pc[t] = "idle" /\ pc'[t] = "process"
      BY <1>0, <3>2, GoesTo
    <3>4. current'[t] = Head(queue[q])
      BY <1>0, <3>1 DEF ThreadTypes
    <3>5. /\ HasInHand(t, e) = 0
          /\ HasInHand(t, e)' = IF Head(queue[q]).emission = e THEN 1 ELSE 0
      BY <3>3, <3>4 DEF HasInHand, Handling
    <3>6. released'[e] \in Nat /\ released[e] = released'[e]
      BY <1>0, <3>2 DEF EmissionTypes
    <3>7. released'[e] + HasInHand(t, e)'
            = released[e] + HasInHand(t, e) + (IF Head(queue[q]).emission = e THEN 1 ELSE 0)
      BY <3>5, <3>6
    <3>8. q \in Receivers
      BY ReceiversAssumption
    <3> QED
      BY <1>0, <3>1, <3>2, <3>6, <3>7, <3>8, SameList, TakingIsBalanced
  <2>2. CASE Process(t)
    <3>1. UNCHANGED <<queue, released, owed, rest, current, emission>>
      BY <2>2 DEF Process, object_vars, emission_vars
    <3>2. pc[t] \in Handling /\ pc'[t] \in Handling
      BY <1>0, <2>2, GoesTo DEF Process, Handling
    <3>3. HasInHand(t, e)' = HasInHand(t, e)
      BY <3>1, <3>2 DEF HasInHand
    <3> QED
      BY <1>0, <3>1, <3>3, SameList, QuietIsBalanced
  <2>3. CASE DestroyPackage(t)
    <3>1. UNCHANGED <<queue, owed>> /\ Releases(current[t].emission)
      BY <2>3 DEF DestroyPackage, object_vars
    <3>2. PICK from \in {"process", "serve"} : Goes(t, from, "idle")
      BY <2>3 DEF DestroyPackage, Returns
    <3>3. pc[t] = from /\ pc'[t] = "idle"
      BY <1>0, <3>2, GoesTo
    <3>4. pc[t] \in Handling /\ pc'[t] \notin Handling /\ rest[t] = <<>> /\ rest'[t] = <<>>
      BY <1>0, <3>3 DEF PlaceOf, Handling, Walking
    <3>5. current[t].emission \in 0 .. MaxEmits
      BY <1>0, <3>4, EmissionNumber
    <3>6. InList(t, e)' = InList(t, e)
      <4>1. InList(t, e)' = IF emission'[t] = e THEN BlockingNodes(rest'[t]) ELSE 0
        BY DEF InList, BlockingNodes
      <4> QED
        BY <3>4, <4>1, BlockingOfNothing DEF InList
    <3> QED
      BY <1>0, <3>1, <3>4, <3>5, <3>6, ReleaseIsBalanced
  <2>4. CASE Destruct(t) \/ Cleared(t) \/ Invalidate(t)
    <3>1. UNCHANGED <<queue, released, owed>>
      BY <2>4 DEF Destruct, Cleared, Invalidate, object_vars, emission_vars
    <3>2. PICK from \in {"idle", "clear", "invalidate"}, to \in {"clear", "invalidate", "lock"} :
            Goes(t, from, to)
      BY <2>4 DEF Destruct, Cleared, Invalidate
    <3>3. pc[t] = from /\ pc'[t] = to
      BY <1>0, <3>2, GoesTo
    <3>4. pc[t] \in Labels \ (Walking \cup Handling) /\ pc'[t] \notin Walking \cup Handling
      BY <3>3 DEF Labels, Walking, Handling
    <3> QED
      BY <1>1, <3>1, <3>4
  <2>5. CASE ClearOne(t)
    <3> DEFINE o == op[t].receiver
    <3>1. /\ Goes(t, "clear", "clear") /\ enqueued(o) > 0 /\ Releases(Head(queue[o]).emission)
          /\ queue' = [queue EXCEPT ![o] = Tail(@)]
          /\ UNCHANGED <<owed, rest, emission>>
      BY <2>5 DEF ClearOne
    <3>2. pc[t] = "clear" /\ pc'[t] = "clear"
      BY <1>0, <3>1, GoesTo
    <3>3. o \in Receivers
      BY <1>0, <3>2, OperationFacts DEF PlaceOf, Receivers
    <3>4. queue[o] # <<>> /\ queue[o] \in Seq(Packages)
      BY <1>0, <3>1, <3>3, EnqueuedIsThere DEF ObjectTypes
    <3>5. Head(queue[o]) \in Packages
      BY <3>4, HeadTailProperties
    <3> HIDE DEF o
    <3>6. Head(queue[o]).emission \in 0 .. MaxEmits
      BY <3>5 DEF Packages
    <3>7. released'[e] = released[e] + (IF Head(queue[o]).emission = e THEN 1 ELSE 0)
      BY <1>0, <3>1, <3>6, ReleaseCounts
    <3>8. HasInHand(t, e) = 0 /\ HasInHand(t, e)' = 0
      BY <3>2 DEF HasInHand, Handling
    <3>9. released[e] \in Nat /\ released'[e] \in Nat
      BY <1>0 DEF EmissionTypes
    <3>10. released'[e] + HasInHand(t, e)'
             = released[e] + HasInHand(t, e) + (IF Head(queue[o]).emission = e THEN 1 ELSE 0)
      BY <3>7, <3>8, <3>9
    <3> QED
      BY <1>0, <3>1, <3>3, <3>4, <3>9, <3>10, SameList, TakingIsBalanced
  <2> QED
    BY <1>4, <2>1, <2>2, <2>3, <2>4, <2>5 DEF ObjectStep
<1> QED
  BY <1>2, <1>3, <1>4 DEF Step

\* owed changes in BeginWalk only, for the emission that begins its walk.
LEMMA OwedChanges ==
  ASSUME Places, EmissionTypes, NEW t \in Threads, Step(t)
  PROVE  \/ owed' = owed
         \/ /\ pc[t] = "walk" /\ pc'[t] = "visit" /\ emission[t] \in 1 .. emits
            /\ \A e \in 1 .. MaxEmits : e # emission[t] => owed'[e] = owed[e]
<1>1. TableStep(t) => owed' = owed
  BY DEF TableStep, CallConnect, CallDisconnect, CallDisconnectSignal, AnnounceWrite, BeginWrite,
         AddConnection, RemoveConnection, RemoveSignal, RemoveReceiver, emission_vars
<1>2. EmitStep(t) => owed' = owed \/ BeginWalk(t)
  BY DEF EmitStep, CallEmit, LockEmit, Count, OutOfSemaphores, Visit, Execute,
         ExecuteFails, HandlerReturns, Posts, PostFails, PostFaults, EndEmit, emission_vars
<1>3. ObjectStep(t) => owed' = owed
  BY DEF ObjectStep, Receive, Process, DestroyPackage, Destruct, ClearOne, Cleared, Invalidate,
         emission_vars
<1>4. ASSUME BeginWalk(t)
      PROVE  /\ pc[t] = "walk" /\ pc'[t] = "visit" /\ emission[t] \in 1 .. emits
             /\ \A e \in 1 .. MaxEmits : e # emission[t] => owed'[e] = owed[e]
  <2>1. pc[t] = "walk" /\ pc'[t] = "visit"
    BY <1>4, GoesTo DEF BeginWalk, Places
  <2>2. emission[t] \in 1 .. emits
    BY <2>1 DEF Places, PlaceOf, Emitting
  <2>3. \E x : owed' = [owed EXCEPT ![emission[t]] = x]
    BY <1>4 DEF BeginWalk
  <2>4. \A e \in 1 .. MaxEmits : e # emission[t] => owed'[e] = owed[e]
    BY <2>3 DEF EmissionTypes
  <2> QED
    BY <2>1, <2>2, <2>4
<1> QED
  BY <1>1, <1>2, <1>3, <1>4 DEF Step

LEMMA NextNothingOwed ==
  ASSUME OwedInv, NEW t \in Threads, Step(t), NEW u \in Threads
  PROVE  NothingOwed(u)'
<1>0. /\ Places /\ ThreadTypes /\ EmissionTypes /\ EmissionsDiffer /\ NothingOwed(u) /\ BoundTypes
      /\ \A e \in 1 .. MaxEmits : e > emits => owed[e] = 0
  BY DEF OwedInv, WalkInv, TypeInv, Places
<1>1. SUFFICES ASSUME pc'[u] \in {"emit", "count", "walk"} PROVE owed'[emission'[u]] = 0
  BY DEF NothingOwed
<1>2. CASE u # t
  <2>1. pc'[u] = pc[u] /\ emission'[u] = emission[u]
    BY <1>0, <1>2, NextOnlyMoves DEF OnlyMoves
  <2>2. owed[emission[u]] = 0 /\ emission[u] \in 1 .. MaxEmits /\ pc[u] \in Emitting
    BY <1>0, <1>1, <2>1, EmissionNumber DEF NothingOwed, Emitting
  <2>3. pc[t] = "walk" => emission[u] # emission[t]
    BY <1>0, <1>2, <2>2 DEF EmissionsDiffer, Emitting
  <2> QED
    BY <1>0, <2>1, <2>2, <2>3, OwedChanges
<1>3. CASE u = t
  <2>1. owed' = owed
    BY <1>0, <1>1, <1>3, OwedChanges
  <2>2. CASE CallEmit(t)
    <3>1. emission' = [emission EXCEPT ![t] = emits + 1] /\ emits < MaxEmits
      BY <2>2 DEF CallEmit
    <3>2. emission'[t] = emits + 1
      BY <1>0, <3>1 DEF ThreadTypes
    <3>3. emits + 1 \in 1 .. MaxEmits /\ emits + 1 > emits
      BY <1>0, <3>1, SizesAssumption DEF BoundTypes
    <3> QED
      BY <1>0, <1>3, <2>1, <3>2, <3>3
  <2>3. CASE ~ CallEmit(t)
    <3>1. /\ \/ LockEmit(t) \/ Count(t)
             \/ pc'[t] = "visit" \/ Visit(t)
             \/ pc'[t] \in Walking \cup {"fault"}
          /\ UNCHANGED emission
      BY <1>0, <1>1, <1>3, <2>3, InEmission DEF Emitting
    <3>2. pc[t] \in {"emit", "count"}
      <4>1. ~ Visit(t)
        <5>1. Visit(t) => Goes(t, "visit", "execute") \/ Goes(t, "visit", "post")
          BY DEF Visit
        <5> QED
          BY <1>0, <1>1, <1>3, <5>1, GoesTo
      <4>2. LockEmit(t) \/ Count(t)
        BY <1>1, <1>3, <3>1, <4>1 DEF Walking
      <4> QED
        BY <1>0, <4>2, GoesTo DEF LockEmit, Count
    <3> QED
      BY <1>0, <1>3, <2>1, <3>1, <3>2 DEF NothingOwed
  <2> QED
    BY <2>2, <2>3
<1> QED
  BY <1>2, <1>3

LEMMA EmitsGrow ==
  ASSUME BoundTypes, NEW t \in Threads, Step(t)
  PROVE  emits' = emits \/ emits' = emits + 1
<1>1. TableStep(t) => emits' = emits
  BY DEF TableStep, CallConnect, CallDisconnect, CallDisconnectSignal, AnnounceWrite, BeginWrite,
         AddConnection, RemoveConnection, RemoveSignal, RemoveReceiver, bound_vars
<1>2. EmitStep(t) => emits' = emits \/ emits' = emits + 1
  BY DEF EmitStep, CallEmit, LockEmit, Count, OutOfSemaphores, BeginWalk, Visit, Execute,
         ExecuteFails, HandlerReturns, Posts, PostFails, PostFaults, EndEmit, bound_vars
<1>3. ObjectStep(t) => emits' = emits
  BY DEF ObjectStep, Receive, Process, DestroyPackage, Destruct, ClearOne, Cleared, Invalidate,
         bound_vars
<1> QED
  BY <1>1, <1>2, <1>3 DEF Step

LEMMA NextOwed == OwedInv /\ [Next]_vars => OwedInv'
<1>1. SUFFICES ASSUME OwedInv, [Next]_vars PROVE OwedInv'
  OBVIOUS
<1>2. WalkInv /\ WalkInv'
  BY <1>1, NextWalkInv DEF OwedInv
<1>3. CASE UNCHANGED vars
  <2>1. UNCHANGED <<object_vars, thread_vars, emission_vars, bound_vars>>
    BY <1>3 DEF vars
  <2>2. \A e \in 1 .. MaxEmits : Accounted(e)'
    BY <1>1, <2>1 DEF OwedInv, Accounted, Queued, InHand, ToVisit, object_vars, thread_vars,
                      emission_vars
  <2>3. /\ \A t \in Threads : NothingOwed(t)'
        /\ \A e \in 1 .. MaxEmits : e > emits' => owed'[e] = 0
    BY <1>1, <2>1 DEF OwedInv, NothingOwed, thread_vars, emission_vars, bound_vars
  <2> QED
    BY <1>2, <2>2, <2>3 DEF OwedInv
<1>4. ASSUME NEW t \in Threads, Step(t) PROVE OwedInv'
  <2>1. \A e \in 1 .. MaxEmits : Accounted(e)'
    <3> SUFFICES ASSUME NEW e \in 1 .. MaxEmits PROVE Accounted(e)'
      OBVIOUS
    <3>1. BeginWalk(t) => owed[emission[t]] = 0
      BY <1>1 DEF OwedInv, NothingOwed, BeginWalk, Goes
    <3>2. Balanced(t, e)
      BY <1>2, <1>4, <3>1, EveryStepIsBalanced
    <3>3. Accounted(e)
      BY <1>1 DEF OwedInv
    <3> QED
      BY <1>2, <1>4, <3>2, <3>3, BalancedStep
  <2>2. \A u \in Threads : NothingOwed(u)'
    BY <1>1, <1>4, NextNothingOwed
  <2>3. \A e \in 1 .. MaxEmits : e > emits' => owed'[e] = 0
    <3> SUFFICES ASSUME NEW e \in 1 .. MaxEmits, e > emits' PROVE owed'[e] = 0
      OBVIOUS
    <3>1. Places /\ EmissionTypes /\ BoundTypes /\ emits \in Nat
      BY <1>2, SizesAssumption DEF WalkInv, TypeInv, Places, BoundTypes
    <3>2. emits' = emits \/ emits' = emits + 1
      BY <1>4, <3>1, EmitsGrow
    <3>3. e > emits
      BY <3>1, <3>2
    <3>4. owed[e] = 0
      BY <1>1, <3>3 DEF OwedInv
    <3>5. e \notin 1 .. emits
      BY <3>1, <3>3
    <3> QED
      BY <1>4, <3>1, <3>4, <3>5, OwedChanges
  <2> QED
    BY <1>2, <2>1, <2>2, <2>3 DEF OwedInv
<1> QED
  BY <1>1, <1>3, <1>4 DEF Next, Step

LEMMA InitOwed == Init => OwedInv
<1>1. SUFFICES ASSUME Init PROVE OwedInv
  OBVIOUS
<1>2. /\ \A t \in Threads : pc[t] = "idle" /\ emission[t] = 0
      /\ \A r \in Receivers : Len(queue[r]) = 0
      /\ \A e \in 1 .. MaxEmits : released[e] = 0 /\ owed[e] = 0
  BY <1>1, EmptySeq DEF Init
<1>3. \A e \in 1 .. MaxEmits : Accounted(e)
  <2> SUFFICES ASSUME NEW e \in 1 .. MaxEmits PROVE Accounted(e)
    OBVIOUS
  <2>1. e # 0
    BY SizesAssumption
  <2>2. Queued(e) = {}
    <3>1. \A x \in Receivers \X (1 .. Capacity) : ~ (x[2] <= Len(queue[x[1]]))
      BY <1>2, CapacityIsNat
    <3> QED
      BY <3>1 DEF Queued
  <2>3. InHand(e) = {} /\ ToVisit(e) = {}
    BY <1>2, <2>1 DEF InHand, ToVisit
  <2>4. Cardinality({}) = 0
    BY FS_EmptySet
  <2> QED
    BY <1>2, <2>2, <2>3, <2>4 DEF Accounted
<1>4. \A t \in Threads : NothingOwed(t)
  BY <1>2 DEF NothingOwed
<1> QED
  BY <1>1, <1>2, <1>3, <1>4, InitWalk DEF OwedInv

LEMMA OwedInvHolds == Spec => []OwedInv
  BY InitOwed, NextOwed, PTL DEF Spec

\* What a blocking connection that an emission met owes is accounted for until it
\* is released, and nothing is released twice, whichever way its package ends
\* (execute_signal, Signal_Data::destroy, clear_signal).
THEOREM EveryReleaseOnce == Spec => []ReleasedOnce
<1>1. OwedInv => ReleasedOnce
  BY DEF OwedInv, Accounted, ReleasedOnce
<1> QED
  BY <1>1, OwedInvHolds, PTL
===============================================================================
