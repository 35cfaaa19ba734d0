--------------------------- MODULE RingBufferProofs ---------------------------
(***************************************************************************)
(* For every size, every kind of entry and every amount asked, the ring    *)
(* buffer keeps its indices inside the array and implements BoundedQueue.  *)
(* The argument: what is in the buffer is a function of the two indices    *)
(* and the array, SeqOf, in which the split of a copy at the end of the    *)
(* array no longer shows, and each operation changes SeqOf as its abstract *)
(* counterpart changes the queue.                                          *)
(***************************************************************************)
EXTENDS RingBuffer, SequenceTheorems, TLAPS

\* The number of entries between two indices, and the entries.
Dist(h, t) == IF h <= t THEN t - h ELSE t + N - h
SeqOf(h, t, b) == [i \in 1 .. Dist(h, t) |-> b[Wrap(h + i - 1)]]

\* A function on 1 .. n is a sequence of length n.
LEMMA FunctionIsSeq ==
  ASSUME NEW n \in Nat, NEW S, NEW f \in [1 .. n -> S]
  PROVE  f \in Seq(S) /\ Len(f) = n
  OBVIOUS

LEMMA SeqOfProperties ==
  ASSUME NEW h \in Slots, NEW t \in Slots, NEW b \in [Slots -> Data]
  PROVE  /\ Dist(h, t) \in 0 .. N - 1
         /\ SeqOf(h, t, b) \in Seq(Data)
         /\ Len(SeqOf(h, t, b)) = Dist(h, t)
         /\ \A i \in 1 .. Dist(h, t) : /\ SeqOf(h, t, b)[i] = b[Wrap(h + i - 1)]
                                      /\ Wrap(h + i - 1) \in Slots
<1>1. Dist(h, t) \in 0 .. N - 1
  BY NAssumption DEF Dist, Slots
<1>2. \A i \in 1 .. Dist(h, t) : Wrap(h + i - 1) \in Slots
  BY <1>1, NAssumption DEF Wrap, Slots
<1>3. SeqOf(h, t, b) \in [1 .. Dist(h, t) -> Data]
  BY <1>2 DEF SeqOf
<1>4. SeqOf(h, t, b) \in Seq(Data) /\ Len(SeqOf(h, t, b)) = Dist(h, t)
  <2>1. Dist(h, t) \in Nat
    BY <1>1, NAssumption
  <2> QED
    BY <1>3, <2>1, FunctionIsSeq
<1> QED
  BY <1>1, <1>2, <1>4 DEF SeqOf

\* The two halves of a copy are one walk through the slots.
LEMMA SplitCopy ==
  ASSUME NEW h \in Slots, NEW n \in 0 .. N, NEW b
  PROVE  \A i \in 1 .. n :
           (IF i <= Least(N - h, n) THEN b[h + i - 1] ELSE b[i - Least(N - h, n) - 1])
             = b[Wrap(h + i - 1)]
  BY NAssumption DEF Slots, Least, Wrap

\* available and Contents are Dist and SeqOf of the variables.
LEMMA ContentsIsSeqOf ==
  ASSUME TypeOK
  PROVE  available = Dist(head, tail) /\ Contents = SeqOf(head, tail, buffer)
<1>1. available = Dist(head, tail)
  BY DEF available, Dist
<1>2. Dist(head, tail) \in 0 .. N - 1
  BY SeqOfProperties DEF TypeOK
<1>3. /\ head \in Slots /\ available \in 0 .. N
      /\ Contents = [i \in 1 .. available |->
           IF i <= Least(N - head, available) THEN buffer[head + i - 1]
           ELSE buffer[i - Least(N - head, available) - 1]]
  BY <1>1, <1>2, NAssumption DEF TypeOK, Contents, CopiedOut
<1>4. Contents = [i \in 1 .. available |-> buffer[Wrap(head + i - 1)]]
  BY <1>3, SplitCopy
<1> QED
  BY <1>1, <1>4 DEF SeqOf

\* The same one step later.
LEMMA ContentsIsSeqOfNext ==
  ASSUME TypeOK'
  PROVE  Contents' = SeqOf(head', tail', buffer')
<1>1. available' = Dist(head', tail')
  BY DEF available, Dist
<1>2. Dist(head', tail') \in 0 .. N - 1
  BY SeqOfProperties DEF TypeOK
<1>3. /\ head' \in Slots /\ available' \in 0 .. N
      /\ Contents' = [i \in 1 .. available' |->
           IF i <= Least(N - head', available') THEN buffer'[head' + i - 1]
           ELSE buffer'[i - Least(N - head', available') - 1]]
  BY <1>1, <1>2, NAssumption DEF TypeOK, Contents, CopiedOut
<1>4. Contents' = [i \in 1 .. available' |-> buffer'[Wrap(head' + i - 1)]]
  BY <1>3, SplitCopy
<1> QED
  BY <1>1, <1>4 DEF SeqOf

\* What read and peek hand out is the front of the queue.
LEMMA CopiedOutIsFront ==
  ASSUME TypeOK, NEW n \in 0 .. available
  PROVE  CopiedOut(n) = SubSeq(Contents, 1, n)
<1>0. available = Dist(head, tail) /\ Contents = SeqOf(head, tail, buffer)
  BY ContentsIsSeqOf
<1>1. /\ available \in 0 .. N - 1
      /\ Contents \in Seq(Data) /\ Len(Contents) = available
      /\ \A i \in 1 .. available : Contents[i] = buffer[Wrap(head + i - 1)]
  BY <1>0, SeqOfProperties DEF TypeOK
<1>2. \A i \in 1 .. n : /\ CopiedOut(n)[i] = Contents[i]
                        /\ Contents[i] \in Data
  <2> TAKE i \in 1 .. n
  <2>1. CopiedOut(n)[i] = buffer[Wrap(head + i - 1)]
    BY <1>1, NAssumption DEF CopiedOut, TypeOK, Slots, Least, Wrap
  <2> QED
    BY <1>1, <2>1, ElementOfSeq
<1>3. CopiedOut(n) \in [1 .. n -> Data]
  BY <1>2 DEF CopiedOut
<1>4. n \in Nat /\ 1 \in Int /\ n \in Int
  BY <1>1, NAssumption
<1>5. CopiedOut(n) \in Seq(Data) /\ Len(CopiedOut(n)) = n
  BY <1>3, <1>4, FunctionIsSeq
<1>6. /\ SubSeq(Contents, 1, n) \in Seq(Data)
      /\ Len(SubSeq(Contents, 1, n)) = IF 1 <= n THEN n - 1 + 1 ELSE 0
      /\ \A i \in 1 .. n - 1 + 1 : SubSeq(Contents, 1, n)[i] = Contents[1 + i - 1]
  BY <1>2, <1>4, SubSeqProperties
<1>7. Len(SubSeq(Contents, 1, n)) = n
  BY <1>4, <1>6
<1>8. \A i \in 1 .. n : CopiedOut(n)[i] = SubSeq(Contents, 1, n)[i]
  BY <1>2, <1>4, <1>6
<1> QED
  BY <1>5, <1>6, <1>7, <1>8, SeqEqual

-------------------------------------------------------------------------------
(* How SeqOf changes *)

\* n entries more after the last one, and n entries fewer before the first.
LEMMA DistAfterTail ==
  ASSUME NEW h \in Slots, NEW t \in Slots, NEW n \in 0 .. N - 1 - Dist(h, t)
  PROVE  /\ Wrap(t + n) \in Slots
         /\ Dist(h, Wrap(t + n)) = Dist(h, t) + n
         /\ \A k \in 1 .. n : Wrap(h + Dist(h, t) + k - 1) = Wrap(t + k - 1)
  BY NAssumption DEF Dist, Wrap, Slots

LEMMA DistAfterHead ==
  ASSUME NEW h \in Slots, NEW t \in Slots, NEW n \in 0 .. Dist(h, t)
  PROVE  /\ Wrap(h + n) \in Slots
         /\ Dist(Wrap(h + n), t) = Dist(h, t) - n
         /\ \A i \in 1 .. Dist(h, t) - n : Wrap(Wrap(h + n) + i - 1) = Wrap(h + n + i - 1)
  BY NAssumption DEF Dist, Wrap, Slots

\* The entries taken in at the tail go to free slots.
LEMMA TailIsFree ==
  ASSUME NEW h \in Slots, NEW t \in Slots, NEW n \in 0 .. N - 1 - Dist(h, t),
         NEW i \in 1 .. Dist(h, t), NEW k \in 1 .. n
  PROVE  Wrap(h + i - 1) # Wrap(t + k - 1)
  BY NAssumption DEF Dist, Wrap, Slots

\* Entries taken out at the head.
LEMMA TakeEffect ==
  ASSUME NEW h \in Slots, NEW t \in Slots, NEW b \in [Slots -> Data],
         NEW n \in 0 .. Dist(h, t)
  PROVE  SeqOf(Wrap(h + n), t, b) = SubSeq(SeqOf(h, t, b), n + 1, Dist(h, t))
<1> DEFINE s == SeqOf(h, t, b)
           r == SeqOf(Wrap(h + n), t, b)
<1>1. /\ Dist(h, t) \in 0 .. N - 1 /\ Wrap(h + n) \in Slots
      /\ Dist(Wrap(h + n), t) = Dist(h, t) - n
      /\ \A i \in 1 .. Dist(h, t) - n : Wrap(Wrap(h + n) + i - 1) = Wrap(h + n + i - 1)
  BY DistAfterHead, SeqOfProperties
<1>2. /\ r \in Seq(Data) /\ Len(r) = Dist(h, t) - n
      /\ \A i \in 1 .. Dist(h, t) - n : r[i] = b[Wrap(h + n + i - 1)]
  <2>1. /\ r \in Seq(Data) /\ Len(r) = Dist(Wrap(h + n), t)
        /\ \A i \in 1 .. Dist(Wrap(h + n), t) : r[i] = b[Wrap(Wrap(h + n) + i - 1)]
    BY <1>1, SeqOfProperties
  <2> HIDE DEF r
  <2> QED
    BY <1>1, <2>1
<1>3. \A i \in 1 .. Dist(h, t) : s[i] = b[Wrap(h + i - 1)] /\ s[i] \in Data
  BY SeqOfProperties
<1>4. n + 1 \in Int /\ Dist(h, t) \in Int /\ n \in Nat
  BY <1>1, NAssumption
<1> DEFINE q == SubSeq(s, n + 1, Dist(h, t))
<1>5. /\ q \in Seq(Data)
      /\ Len(q) = IF n + 1 <= Dist(h, t) THEN Dist(h, t) - (n + 1) + 1 ELSE 0
      /\ \A i \in 1 .. Dist(h, t) - (n + 1) + 1 : q[i] = s[n + 1 + i - 1]
  <2> HIDE DEF s
  <2>1. \A i \in n + 1 .. Dist(h, t) : s[i] \in Data
    BY <1>3, <1>4
  <2> QED
    BY <1>4, <2>1, SubSeqProperties
<1> HIDE DEF s, r, q
<1>6. Len(q) = Dist(h, t) - n
  BY <1>4, <1>5
<1>7. ASSUME NEW i \in 1 .. Dist(h, t) - n PROVE q[i] = r[i]
  <2>1. n + i \in 1 .. Dist(h, t) /\ n + 1 + i - 1 = n + i /\ h + (n + i) - 1 = h + n + i - 1
    BY <1>4 DEF Slots
  <2>2. q[i] = s[n + i]
    BY <1>4, <1>5, <2>1
  <2> QED
    BY <1>2, <1>3, <2>1, <2>2
<1>8. r = q
  BY <1>2, <1>5, <1>6, <1>7, SeqEqual
<1> QED
  BY <1>8 DEF r, q, s

\* c is b with the first n entries of d from slot t on.
Puts(c, b, t, d, n) ==
  /\ c \in [Slots -> Data]
  /\ \A k \in 1 .. n : c[Wrap(t + k - 1)] = d[k]
  /\ \A i \in Slots : (\A k \in 1 .. n : i # Wrap(t + k - 1)) => c[i] = b[i]

\* Entries taken in at the tail.
LEMMA PutEffect ==
  ASSUME NEW h \in Slots, NEW t \in Slots, NEW b \in [Slots -> Data],
         NEW n \in 0 .. N - 1 - Dist(h, t),
         NEW d \in Seq(Data), n <= Len(d), NEW c, Puts(c, b, t, d, n)
  PROVE  SeqOf(h, Wrap(t + n), c) = SeqOf(h, t, b) \o SubSeq(d, 1, n)
<1> DEFINE D == Dist(h, t)
           s == SeqOf(h, t, b)
           r == SeqOf(h, Wrap(t + n), c)
           f == SubSeq(d, 1, n)
<1>0. c \in [Slots -> Data]
  BY DEF Puts
<1>1. /\ D \in 0 .. N - 1 /\ Wrap(t + n) \in Slots /\ Dist(h, Wrap(t + n)) = D + n
      /\ \A k \in 1 .. n : Wrap(h + D + k - 1) = Wrap(t + k - 1)
  BY DistAfterTail, SeqOfProperties
<1>2. /\ r \in Seq(Data) /\ Len(r) = D + n
      /\ \A i \in 1 .. D + n : r[i] = c[Wrap(h + i - 1)]
  <2>1. /\ r \in Seq(Data) /\ Len(r) = Dist(h, Wrap(t + n))
        /\ \A i \in 1 .. Dist(h, Wrap(t + n)) : r[i] = c[Wrap(h + i - 1)]
    BY <1>0, <1>1, SeqOfProperties
  <2> HIDE DEF r
  <2> QED
    BY <1>1, <2>1
<1>3. /\ s \in Seq(Data) /\ Len(s) = D
      /\ \A i \in 1 .. D : s[i] = b[Wrap(h + i - 1)] /\ Wrap(h + i - 1) \in Slots
  BY SeqOfProperties
<1>4. n \in Nat /\ D \in Nat
  BY <1>1, NAssumption
<1>5. f \in Seq(Data) /\ Len(f) = n /\ \A k \in 1 .. n : f[k] = d[k]
  <2>1. Len(d) \in Nat /\ \A k \in 1 .. n : d[k] \in Data
    BY <1>4, LenProperties, ElementOfSeq
  <2>2. /\ f \in Seq(Data)
        /\ Len(f) = IF 1 <= n THEN n - 1 + 1 ELSE 0
        /\ \A k \in 1 .. n - 1 + 1 : f[k] = d[1 + k - 1]
    BY <1>4, <2>1, SubSeqProperties
  <2> QED
    BY <1>4, <2>2
<1>6. \A i \in 1 .. D : c[Wrap(h + i - 1)] = b[Wrap(h + i - 1)]
  BY <1>3, TailIsFree DEF Puts
<1> HIDE DEF s, r, f, D
<1>7. /\ s \o f \in Seq(Data) /\ Len(s \o f) = D + n
      /\ \A i \in 1 .. D + n : (s \o f)[i] = IF i <= D THEN s[i] ELSE f[i - D]
  <2>1. /\ s \o f \in Seq(Data) /\ Len(s \o f) = Len(s) + Len(f)
        /\ \A i \in 1 .. Len(s) + Len(f) :
             (s \o f)[i] = IF i <= Len(s) THEN s[i] ELSE f[i - Len(s)]
    BY <1>3, <1>5, ConcatProperties
  <2>2. Len(s) = D /\ Len(f) = n
    BY <1>3, <1>5
  <2> QED
    BY <2>1, <2>2
<1>8. ASSUME NEW i \in 1 .. D + n PROVE r[i] = (s \o f)[i]
  <2>1. CASE i <= D
    <3>1. i \in 1 .. D
      BY <1>4, <2>1
    <3>2. (s \o f)[i] = s[i]
      BY <1>7, <2>1
    <3> QED
      BY <1>2, <1>3, <1>6, <3>1, <3>2
  <2>2. CASE i > D
    <3>1. i - D \in 1 .. n /\ h + D + (i - D) - 1 = h + i - 1
      BY <1>4, <2>2 DEF Slots
    <3>2. c[Wrap(h + i - 1)] = d[i - D]
      BY <1>1, <3>1 DEF Puts
    <3> QED
      BY SMTT(30), <1>2, <1>4, <1>5, <1>7, <2>2, <3>1, <3>2
  <2>3. i <= D \/ i > D
    BY <1>4
  <2> QED
    BY <2>1, <2>2, <2>3
<1>9. r = s \o f
  BY <1>2, <1>7, <1>8, SeqEqual
<1> QED
  BY <1>9 DEF r, s, f, D

\* What write leaves in the array.
LEMMA StoredPuts ==
  ASSUME TypeOK, NEW d \in Seq(Data), NEW n \in 0 .. N - 1 - Dist(head, tail), n <= Len(d)
  PROVE  Puts(Stored(d, n), buffer, tail, d, n)
<1> DEFINE first == Least(N - tail, n)
<1>1. /\ tail \in 0 .. N - 1 /\ n \in 0 .. N - 1 /\ first \in 0 .. N - 1
      /\ Len(d) \in Nat /\ \A k \in 1 .. n : d[k] \in Data
  <2>1. Dist(head, tail) \in 0 .. N - 1
    BY SeqOfProperties DEF TypeOK
  <2>2. Len(d) \in Nat
    BY LenProperties
  <2>3. \A k \in 1 .. n : k \in 1 .. Len(d)
    BY <2>1, <2>2, NAssumption
  <2> QED
    BY <2>1, <2>2, <2>3, ElementOfSeq, NAssumption DEF TypeOK, Slots, Least
<1>2. Stored(d, n) = [i \in Slots |->
        IF tail <= i /\ i < tail + first THEN d[i - tail + 1]
        ELSE IF i < n - first THEN d[first + i + 1] ELSE buffer[i]]
  BY DEF Stored
<1>3. ASSUME NEW i \in Slots PROVE Stored(d, n)[i] \in Data
  <2>1. CASE tail <= i /\ i < tail + first
    BY <1>1, <1>2, <2>1 DEF Least, Slots
  <2>2. CASE ~ (tail <= i /\ i < tail + first) /\ i < n - first
    <3>1. first + i + 1 \in 1 .. n
      BY <1>1, <2>2 DEF Slots
    <3> QED
      BY <1>1, <1>2, <2>2, <3>1
  <2>3. CASE ~ (tail <= i /\ i < tail + first) /\ ~ (i < n - first)
    BY <1>2, <2>3 DEF TypeOK
  <2> QED
    BY <2>1, <2>2, <2>3
<1>4. ASSUME NEW k \in 1 .. n PROVE Stored(d, n)[Wrap(tail + k - 1)] = d[k]
  <2>1. CASE tail + k - 1 < N
    <3> DEFINE i == tail + k - 1
    <3>1. /\ i \in Slots /\ Wrap(tail + k - 1) = i
          /\ tail <= i /\ i < tail + first /\ i - tail + 1 = k
      BY <1>1, <2>1, NAssumption DEF Slots, Least, Wrap
    <3> HIDE DEF i, first
    <3> QED
      BY <1>2, <3>1
  <2>2. CASE ~ (tail + k - 1 < N)
    <3> DEFINE i == tail + k - 1 - N
    <3>1. /\ i \in Slots /\ Wrap(tail + k - 1) = i /\ i < tail
          /\ first = N - tail /\ i < n - first /\ first + i + 1 = k
      BY <1>1, <2>2, NAssumption DEF Slots, Least, Wrap
    <3>2. ~ (tail <= i /\ i < tail + first)
      BY <1>1, <3>1 DEF Slots
    <3> HIDE DEF i, first
    <3> QED
      BY <1>2, <3>1, <3>2
  <2> QED
    BY <2>1, <2>2
<1>5. ASSUME NEW i \in Slots, \A k \in 1 .. n : i # Wrap(tail + k - 1)
      PROVE  Stored(d, n)[i] = buffer[i]
  <2>1. ASSUME tail <= i, i < tail + first PROVE FALSE
    <3>1. i - tail + 1 \in 1 .. n /\ Wrap(tail + (i - tail + 1) - 1) = i
      BY <1>1, <2>1, NAssumption DEF Slots, Least, Wrap
    <3> QED
      BY <1>5, <3>1
  <2>2. ASSUME i < n - first PROVE FALSE
    <3>1. first + i + 1 \in 1 .. n /\ Wrap(tail + (first + i + 1) - 1) = i
      BY <1>1, <2>2, NAssumption DEF Slots, Least, Wrap
    <3> QED
      BY <1>5, <3>1
  <2> HIDE DEF first
  <2> QED
    BY <1>2, <2>1, <2>2
<1>6. Stored(d, n) \in [Slots -> Data]
  BY <1>2, <1>3
<1> QED
  BY <1>4, <1>5, <1>6 DEF Puts

-------------------------------------------------------------------------------
(* The inductive invariant *)

\* m_roll_back_save is the slot before the head after a pop, and the head itself
\* after a read.
IInv ==
  /\ TypeOK
  /\ mark = "pop" => head = Wrap(roll_back_save + 1)
  /\ mark = "read" => roll_back_save = head

LEMMA InitIInv == Init => IInv
  BY NAssumption, DataAssumption DEF Init, IInv, TypeOK, Slots

\* How far the operations go.
LEMMA Bounds ==
  ASSUME TypeOK
  PROVE  /\ available = Dist(head, tail) /\ available \in 0 .. N - 1
         /\ space \in 0 .. N - 1 /\ space = N - 1 - available
         /\ full <=> space = 0
         /\ head = tail <=> available = 0
<1>1. available = Dist(head, tail) /\ available \in 0 .. N - 1
  BY ContentsIsSeqOf, SeqOfProperties DEF TypeOK
<1>2. full <=> available = N - 1
  BY <1>1, NAssumption DEF full, Wrap, Dist, TypeOK, Slots
<1>3. head = tail <=> available = 0
  BY <1>1, NAssumption DEF Dist, TypeOK, Slots
<1> QED
  BY <1>1, <1>2, <1>3, NAssumption DEF space

LEMMA LeastIs ==
  ASSUME NEW m \in Nat, NEW n \in Nat
  PROVE  Least(m, n) \in 0 .. n /\ Least(m, n) <= m
  BY DEF Least

LEMMA NextIInv ==
  ASSUME IInv, [Next]_vars
  PROVE  IInv'
<1> USE DEF IInv
<1>0. CASE UNCHANGED vars
  BY <1>0 DEF vars, TypeOK
<1>1. ASSUME NEW d \in Data, Push(d) PROVE IInv'
  BY <1>1, NAssumption DEF Push, TypeOK, Wrap, Slots
<1>2. CASE Pop
  BY <1>2, NAssumption DEF Pop, TypeOK, Wrap, Slots
<1>3. ASSUME NEW d \in Inputs, Write(d) PROVE IInv'
  <2>1. d \in Seq(Data) /\ Len(d) \in Nat
    BY <1>3, InputsAssumption, LenProperties
  <2> DEFINE n == Least(Len(d), space)
  <2>2. n \in 0 .. N - 1 - Dist(head, tail) /\ n <= Len(d)
    BY <2>1, Bounds, LeastIs
  <2>3. Stored(d, n) \in [Slots -> Data] /\ Wrap(tail + n) \in Slots
    BY <2>1, <2>2, StoredPuts, DistAfterTail DEF TypeOK, Puts
  <2> QED
    BY <1>3, <2>3 DEF Write, TypeOK
<1>4. ASSUME NEW request \in Requests, Read(request) PROVE IInv'
  <2> DEFINE n == Least(request, available)
  <2>1. n \in 0 .. Dist(head, tail)
    BY RequestsAssumption, Bounds, LeastIs
  <2>2. Wrap(head + n) \in Slots
    BY <2>1, DistAfterHead DEF TypeOK
  <2> QED
    BY <1>4, <2>2 DEF Read, TypeOK
<1>5. ASSUME NEW request \in Requests, Peek(request) PROVE IInv'
  BY <1>5 DEF Peek, TypeOK
<1>6. CASE RollBack
  BY <1>6 DEF RollBack, TypeOK
<1>7. CASE Clear
  BY <1>7, NAssumption DEF Clear, TypeOK, Slots
<1> QED
  BY <1>0, <1>1, <1>2, <1>3, <1>4, <1>5, <1>6, <1>7 DEF Next

LEMMA Invariance == Spec => []IInv
<1>1. IInv /\ [Next]_vars => IInv'
  BY NextIInv
<1> QED
  BY <1>1, InitIInv, PTL DEF Spec

\* No index leaves the array, whatever is written, read, rolled back or cleared.
THEOREM TypeCorrect == Spec => []TypeOK
<1>1. IInv => TypeOK
  BY DEF IInv
<1> QED
  BY <1>1, Invariance, PTL

-------------------------------------------------------------------------------
(* Each operation does what its abstract counterpart does *)

Undo == IF mark = "pop" THEN <<buffer[roll_back_save]>> ELSE <<>>

LEMMA ContentsProperties ==
  ASSUME TypeOK
  PROVE  Contents \in Seq(Data) /\ Len(Contents) = available
  BY ContentsIsSeqOf, SeqOfProperties DEF TypeOK

\* Entries taken in spare the slot m_roll_back_save names after a pop.
LEMMA UndoSurvives ==
  ASSUME IInv, NEW n \in 0 .. N - 1 - Dist(head, tail), mark = "pop"
  PROVE  \A k \in 1 .. n : roll_back_save # Wrap(tail + k - 1)
  BY NAssumption DEF IInv, TypeOK, Dist, Wrap, Slots

LEMMA PushIsPush ==
  ASSUME IInv, TypeOK', NEW d \in Data, Push(d)
  PROVE  Queue!Push(d)
<1>0. TypeOK
  BY DEF IInv
<1>1. CASE full
  <2>1. Len(Contents) = N - 1
    BY <1>0, <1>1, Bounds, ContentsProperties, NAssumption
  <2>2. UNCHANGED <<Contents, Undo>>
    BY <1>1 DEF Push, Contents, CopiedOut, available, Undo
  <2> QED
    BY <1>1, <2>1, <2>2 DEF Push, Queue!Push, Replies, Queue!Replies, Undo
<1>2. CASE ~ full
  <2>1. Len(Contents) # N - 1 /\ 1 \in 0 .. N - 1 - Dist(head, tail)
    BY <1>0, <1>2, Bounds, ContentsProperties, NAssumption
  <2>2. /\ head' = head /\ tail' = Wrap(tail + 1) /\ buffer' = [buffer EXCEPT ![tail] = d]
        /\ mark' = mark /\ roll_back_save' = roll_back_save
    BY <1>2 DEF Push
  <2>3. tail \in Slots /\ Wrap(tail + 1 - 1) = tail
    BY <1>0, NAssumption DEF TypeOK, Slots, Wrap
  <2>4. SeqOf(head, Wrap(tail + 1), buffer') = SeqOf(head, tail, buffer) \o SubSeq(<<d>>, 1, 1)
    <3>1. <<d>> \in Seq(Data) /\ Len(<<d>>) = 1
      OBVIOUS
    <3>2. Puts(buffer', buffer, tail, <<d>>, 1)
      <4>1. buffer' \in [Slots -> Data] /\ buffer'[tail] = d
        BY <1>0, <2>2, <2>3 DEF TypeOK
      <4>2. ASSUME NEW i \in Slots, i # Wrap(tail + 1 - 1) PROVE buffer'[i] = buffer[i]
        BY <1>0, <2>2, <2>3, <4>2 DEF TypeOK
      <4>3. \A k \in 1 .. 1 : k = 1
        OBVIOUS
      <4>4. <<d>>[1] = d
        OBVIOUS
      <4> QED
        BY <2>3, <4>1, <4>2, <4>3, <4>4 DEF Puts
    <3>3. head \in Slots /\ tail \in Slots /\ buffer \in [Slots -> Data] /\ 1 <= Len(<<d>>)
      BY <1>0, <3>1 DEF TypeOK
    <3> DEFINE e == <<d>>
    <3>4. e \in Seq(Data) /\ 1 <= Len(e) /\ Puts(buffer', buffer, tail, e, 1)
      BY <3>1, <3>2, <3>3
    <3> HIDE DEF e
    <3>5. SeqOf(head, Wrap(tail + 1), buffer') = SeqOf(head, tail, buffer) \o SubSeq(e, 1, 1)
      BY <2>1, <3>3, <3>4, PutEffect
    <3> QED
      BY <3>5 DEF e
  <2>5. SubSeq(<<d>>, 1, 1) = <<d>>
    <3>1. <<d>> \in Seq(Data) /\ Len(<<d>>) = 1
      OBVIOUS
    <3>2. SubSeq(<<d>>, 1, Len(<<d>>)) = <<d>>
      BY <3>1, SubSeqFull
    <3> QED
      BY <3>1, <3>2
  <2>6. Contents' = Append(Contents, d)
    BY <1>0, <2>2, <2>4, <2>5, ContentsIsSeqOf, ContentsIsSeqOfNext, ContentsProperties, AppendIsConcat
  <2>7. Undo' = Undo
    <3>1. mark = "pop" => roll_back_save # tail
      BY <2>1, <2>3, UndoSurvives
    <3> QED
      BY <1>0, <2>2, <3>1 DEF Undo, TypeOK
  <2> QED
    BY <1>2, <2>1, <2>6, <2>7 DEF Push, Queue!Push, Replies, Queue!Replies, Undo
<1> QED
  BY <1>1, <1>2

LEMMA WriteIsWrite ==
  ASSUME IInv, TypeOK', NEW d \in Inputs, Write(d)
  PROVE  Queue!Write(d)
<1> DEFINE n == Least(Len(d), space)
<1>0. TypeOK
  BY DEF IInv
<1>1. d \in Seq(Data) /\ Len(d) \in Nat
  BY InputsAssumption, LenProperties
<1>2. n \in 0 .. N - 1 - Dist(head, tail) /\ n <= Len(d)
  BY <1>0, <1>1, Bounds, LeastIs
<1>3. n = Queue!Least(Len(d), N - 1 - Len(Contents))
  BY <1>0, Bounds, ContentsProperties DEF Least, Queue!Least
<1>4. /\ Replies("write", d, Len(d), n, <<>>)
      /\ head' = head /\ tail' = Wrap(tail + n) /\ buffer' = Stored(d, n)
      /\ mark' = mark /\ roll_back_save' = roll_back_save
  BY DEF Write
<1> HIDE DEF n
<1>5. Contents' = Contents \o SubSeq(d, 1, n)
  <2>1. SeqOf(head, Wrap(tail + n), buffer') = SeqOf(head, tail, buffer) \o SubSeq(d, 1, n)
    BY SMTT(30), <1>0, <1>1, <1>2, <1>4, StoredPuts, PutEffect DEF TypeOK
  <2> QED
    BY <1>0, <1>4, <2>1, ContentsIsSeqOf, ContentsIsSeqOfNext
<1>6. Undo' = Undo
  <2>1. mark = "pop" => \A k \in 1 .. n : roll_back_save # Wrap(tail + k - 1)
    BY <1>2, UndoSurvives
  <2>2. mark = "pop" => Stored(d, n)[roll_back_save] = buffer[roll_back_save]
    BY <1>0, <1>1, <1>2, <2>1, StoredPuts DEF TypeOK, Puts
  <2> QED
    BY <1>4, <2>2 DEF Undo
<1> QED
  BY <1>3, <1>4, <1>5, <1>6 DEF Queue!Write, Replies, Queue!Replies, Undo

\* The head of the queue is at m_head.
LEMMA HeadOfContents ==
  ASSUME TypeOK, head # tail
  PROVE  /\ Contents # <<>> /\ Head(Contents) = buffer[head]
         /\ 1 \in 0 .. Dist(head, tail)
<1>1. /\ Contents \in Seq(Data) /\ Len(Contents) = available /\ available \in 1 .. N - 1
      /\ available = Dist(head, tail)
  BY Bounds, ContentsProperties
<1>2. Contents[1] = buffer[Wrap(head + 1 - 1)]
  <2>1. \A i \in 1 .. Dist(head, tail) : SeqOf(head, tail, buffer)[i] = buffer[Wrap(head + i - 1)]
    BY SeqOfProperties DEF TypeOK
  <2>2. 1 \in 1 .. Dist(head, tail)
    BY <1>1, NAssumption
  <2> QED
    BY <2>1, <2>2, ContentsIsSeqOf
<1>3. Wrap(head + 1 - 1) = head
  BY NAssumption DEF TypeOK, Slots, Wrap
<1>4. Contents # <<>>
  BY <1>1, NAssumption
<1> QED
  BY <1>1, <1>2, <1>3, <1>4

LEMMA PopIsPop ==
  ASSUME IInv, TypeOK', Pop
  PROVE  Queue!Pop
<1>0. TypeOK
  BY DEF IInv
<1>1. CASE head = tail
  <2>1. Contents = <<>>
    BY <1>0, <1>1, Bounds, ContentsProperties
  <2>2. UNCHANGED <<Contents, Undo>>
    BY <1>1 DEF Pop, Contents, CopiedOut, available, Undo
  <2> QED
    BY <1>1, <2>1, <2>2 DEF Pop, Queue!Pop, Replies, Queue!Replies, Undo
<1>2. CASE head # tail
  <2>1. Contents # <<>> /\ Head(Contents) = buffer[head] /\ 1 \in 0 .. Dist(head, tail)
    BY <1>0, <1>2, HeadOfContents
  <2>2. /\ head' = Wrap(head + 1) /\ tail' = tail /\ buffer' = buffer
        /\ mark' = "pop" /\ roll_back_save' = head
    BY <1>2 DEF Pop
  <2>3. Contents' = SubSeq(Contents, 2, Len(Contents))
    <3>1. SeqOf(Wrap(head + 1), tail, buffer)
            = SubSeq(SeqOf(head, tail, buffer), 1 + 1, Dist(head, tail))
      BY <1>0, <2>1, TakeEffect DEF TypeOK
    <3>2. Len(Contents) = Dist(head, tail)
      BY <1>0, Bounds, ContentsProperties
    <3> QED
      BY <1>0, <2>2, <3>1, <3>2, ContentsIsSeqOf, ContentsIsSeqOfNext
  <2>4. Contents' = Tail(Contents)
    BY <1>0, <2>1, <2>3, ContentsProperties, TailIsSubSeq
  <2>5. Undo' = <<Head(Contents)>>
    BY <2>1, <2>2 DEF Undo
  <2> QED
    BY <1>2, <2>1, <2>4, <2>5 DEF Pop, Queue!Pop, Replies, Queue!Replies, Undo
<1> QED
  BY <1>1, <1>2

LEMMA ReadIsRead ==
  ASSUME IInv, TypeOK', NEW request \in Requests, Read(request)
  PROVE  Queue!Read(request)
<1> DEFINE n == Least(request, available)
<1>0. TypeOK
  BY DEF IInv
<1>1. n \in 0 .. available /\ n \in 0 .. Dist(head, tail)
  BY <1>0, RequestsAssumption, Bounds, LeastIs
<1>2. n = Queue!Least(request, Len(Contents)) /\ Len(Contents) = Dist(head, tail)
  BY <1>0, Bounds, ContentsProperties DEF Least, Queue!Least
<1>3. /\ Replies("read", <<>>, request, n, CopiedOut(n))
      /\ head' = Wrap(head + n) /\ tail' = tail /\ buffer' = buffer /\ mark' = "read"
  BY DEF Read
<1> HIDE DEF n
<1>4. Contents' = SubSeq(Contents, n + 1, Len(Contents))
  <2>1. SeqOf(Wrap(head + n), tail, buffer)
          = SubSeq(SeqOf(head, tail, buffer), n + 1, Dist(head, tail))
    BY <1>0, <1>1, TakeEffect DEF TypeOK
  <2> QED
    BY <1>0, <1>2, <1>3, <2>1, ContentsIsSeqOf, ContentsIsSeqOfNext
<1>5. CopiedOut(n) = SubSeq(Contents, 1, n)
  BY <1>0, <1>1, CopiedOutIsFront
<1>6. Undo' = <<>>
  BY <1>3 DEF Undo
<1> QED
  BY <1>2, <1>3, <1>4, <1>5, <1>6 DEF Queue!Read, Replies, Queue!Replies, Undo

LEMMA PeekIsPeek ==
  ASSUME IInv, NEW request \in Requests, Peek(request)
  PROVE  Queue!Peek(request)
<1> DEFINE n == Least(request, available)
<1>0. TypeOK
  BY DEF IInv
<1>1. n \in 0 .. available
  BY <1>0, RequestsAssumption, Bounds, LeastIs
<1>2. n = Queue!Least(request, Len(Contents))
  BY <1>0, ContentsProperties DEF Least, Queue!Least
<1>3. CopiedOut(n) = SubSeq(Contents, 1, n)
  BY <1>0, <1>1, CopiedOutIsFront
<1>4. UNCHANGED <<Contents, Undo>>
  BY DEF Peek, Contents, CopiedOut, available, Undo
<1>5. Replies("peek", <<>>, request, n, CopiedOut(n))
  BY DEF Peek
<1> HIDE DEF n
<1> QED
  BY <1>2, <1>3, <1>4, <1>5 DEF Queue!Peek, Replies, Queue!Replies, Undo

\* One step back from the head, when the buffer is not full.
LEMMA BackEffect ==
  ASSUME NEW b \in [Slots -> Data], NEW h \in Slots, NEW t \in Slots, NEW s \in Slots,
         h = Wrap(s + 1), Dist(h, t) # N - 1
  PROVE  SeqOf(s, t, b) = <<b[s]>> \o SeqOf(h, t, b)
<1>1. /\ Dist(h, t) \in 0 .. N - 1 /\ Dist(s, t) \in 0 .. N - 1
      /\ Dist(s, t) = Dist(h, t) + 1
      /\ Wrap(s + 1 - 1) = s
      /\ \A i \in 2 .. Dist(s, t) : Wrap(s + i - 1) = Wrap(h + (i - 1) - 1)
  BY NAssumption DEF Dist, Wrap, Slots
<1> DEFINE r == SeqOf(s, t, b)
           q == SeqOf(h, t, b)
           e == <<b[s]>>
<1>2. /\ r \in Seq(Data) /\ Len(r) = Dist(s, t)
      /\ \A i \in 1 .. Dist(s, t) : r[i] = b[Wrap(s + i - 1)]
  BY SeqOfProperties
<1>3. /\ q \in Seq(Data) /\ Len(q) = Dist(h, t)
      /\ \A i \in 1 .. Dist(h, t) : q[i] = b[Wrap(h + i - 1)]
  BY SeqOfProperties
<1>4. e \in Seq(Data) /\ Len(e) = 1 /\ e[1] = b[s]
  OBVIOUS
<1> HIDE DEF r, q, e
<1>5. /\ e \o q \in Seq(Data) /\ Len(e \o q) = Len(e) + Len(q)
      /\ \A i \in 1 .. Len(e) + Len(q) :
           (e \o q)[i] = IF i <= Len(e) THEN e[i] ELSE q[i - Len(e)]
  BY <1>3, <1>4, ConcatProperties
<1>6. /\ Len(e \o q) = Dist(s, t)
      /\ \A i \in 1 .. Dist(s, t) : (e \o q)[i] = IF i <= 1 THEN e[i] ELSE q[i - 1]
  BY <1>1, <1>3, <1>4, <1>5
<1>7. ASSUME NEW i \in 1 .. Dist(s, t) PROVE r[i] = (e \o q)[i]
  <2>1. CASE i = 1
    BY <1>1, <1>2, <1>4, <1>6, <2>1
  <2>2. CASE i # 1
    <3>1. i \in 2 .. Dist(s, t) /\ i - 1 \in 1 .. Dist(h, t) /\ ~ (i <= 1)
      BY <1>1, <2>2
    <3> QED
      BY <1>1, <1>2, <1>3, <1>6, <3>1
  <2> QED
    BY <2>1, <2>2
<1>8. r = e \o q
  BY <1>2, <1>5, <1>6, <1>7, SeqEqual
<1> QED
  BY <1>8 DEF r, q, e

LEMMA RollBackIsRollBack ==
  ASSUME IInv, TypeOK', Careful, RollBack
  PROVE  Queue!RollBack
<1>0. /\ TypeOK /\ UNCHANGED <<buffer, tail, roll_back_save>>
      /\ mark # "clear" /\ (mark = "pop" => ~ full)
  BY DEF IInv, RollBack
<1>1. CASE mark = "pop"
  <2>1. /\ head = Wrap(roll_back_save + 1) /\ head # roll_back_save
        /\ head \in Slots /\ tail \in Slots /\ roll_back_save \in Slots
    BY <1>0, <1>1, NAssumption DEF IInv, TypeOK, Wrap, Slots
  <2>2. Len(Contents) # N - 1 /\ Dist(head, tail) # N - 1
    BY <1>0, <1>1, Bounds, ContentsProperties, NAssumption
  <2>3. /\ Replies("roll_back", <<>>, 0, 1, <<>>)
        /\ head' = roll_back_save /\ tail' = tail /\ buffer' = buffer /\ mark' = "read"
    BY <1>0, <2>1 DEF RollBack
  <2>4. SeqOf(roll_back_save, tail, buffer) = <<buffer[roll_back_save]>> \o SeqOf(head, tail, buffer)
    BY <1>0, <2>1, <2>2, BackEffect DEF TypeOK
  <2>5. Contents' = Undo \o Contents
    BY <1>0, <1>1, <2>3, <2>4, ContentsIsSeqOf, ContentsIsSeqOfNext DEF Undo
  <2>6. Undo # <<>> /\ Undo' = <<>>
    BY <1>1, <2>3 DEF Undo
  <2> QED
    BY <2>2, <2>3, <2>5, <2>6 DEF Queue!RollBack, Replies, Queue!Replies, Undo
<1>2. CASE mark # "pop"
  <2>1. head = roll_back_save /\ Undo = <<>>
    BY <1>0, <1>2 DEF IInv, TypeOK, Undo
  <2>2. UNCHANGED <<head, mark>> /\ Replies("roll_back", <<>>, 0, 0, <<>>)
    BY <2>1 DEF RollBack
  <2>3. UNCHANGED <<Contents, Undo>>
    BY <1>0, <2>2 DEF Contents, CopiedOut, available, Undo
  <2> QED
    BY <2>1, <2>2, <2>3 DEF Queue!RollBack, Replies, Queue!Replies, Undo
<1> QED
  BY <1>1, <1>2

LEMMA ClearIsClear ==
  ASSUME IInv, TypeOK', Clear
  PROVE  Queue!Clear
<1>0. TypeOK
  BY DEF IInv
<1>1. Contents' = <<>>
  <2>1. Contents' = SeqOf(0, 0, buffer)
    BY ContentsIsSeqOfNext DEF Clear
  <2>2. 0 \in Slots /\ Dist(0, 0) = 0
    BY NAssumption DEF Slots, Dist
  <2>3. SeqOf(0, 0, buffer) \in Seq(Data) /\ Len(SeqOf(0, 0, buffer)) = 0
    BY <1>0, <2>2, SeqOfProperties DEF TypeOK
  <2> QED
    BY <2>1, <2>3, EmptySeq
<1>2. Undo' = <<>>
  BY DEF Clear, Undo
<1>3. available = Len(Contents)
  BY <1>0, ContentsProperties
<1> QED
  BY <1>1, <1>2, <1>3 DEF Clear, Queue!Clear, Replies, Queue!Replies, Undo

\* The ring buffer is a first-in first-out queue of N - 1 entries, whatever the
\* size of the array and however reads and writes wrap around its end: nothing
\* is lost, repeated or overtaken, and an honest roll_back restores the last pop.
THEOREM Refinement == Careful => (Spec => ImplementsQueue)
<1> SUFFICES ASSUME Careful PROVE Spec => Queue!Spec
  BY DEF ImplementsQueue
<1>1. Init => Queue!Init
  <2> SUFFICES ASSUME Init PROVE Queue!Init
    OBVIOUS
  <2>1. TypeOK /\ available = 0
    BY InitIInv DEF IInv, Init, available
  <2>2. Contents = <<>>
    BY <2>1, ContentsProperties, EmptySeq
  <2> QED
    BY <2>2 DEF Init, Queue!Init
<1>2. ASSUME IInv, IInv', [Next]_vars PROVE [Queue!Next]_(Queue!vars)
  <2>0. TypeOK'
    BY <1>2 DEF IInv
  <2>1. CASE UNCHANGED vars
    BY <2>1 DEF vars, Queue!vars, Contents, CopiedOut, available
  <2>2. CASE Next
    BY <1>2, <2>0, <2>2, PushIsPush, PopIsPop, WriteIsWrite, ReadIsRead, PeekIsPeek,
       RollBackIsRollBack, ClearIsClear DEF Next, Queue!Next
  <2> QED
    BY <1>2, <2>1, <2>2
<1> QED
  BY <1>1, <1>2, Invariance, PTL DEF Spec, Queue!Spec
===============================================================================
