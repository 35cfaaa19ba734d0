-------------------------- MODULE StreamOutputProofs --------------------------
(***************************************************************************)
(* For every size of the buffer, of the writes and of the queue, with one  *)
(* writer: the output of a stream device keeps its types.  The remainders  *)
(* of the two indices come first; what is on the wire is the subject of    *)
(* StreamOutputOrder.                                                      *)
(***************************************************************************)
EXTENDS StreamOutput, SequenceTheorems, TLAPS

-------------------------------------------------------------------------------
(* Remainders *)

LEMMA ModRange ==
  ASSUME NEW a \in Int
  PROVE  a % N \in Slots /\ a = N * (a \div N) + (a % N) /\ a \div N \in Int
BY SizesAssumption DEF Slots

LEMMA MultipleIsFar ==
  ASSUME NEW q \in Int, q # 0
  PROVE  N * q >= N \/ N * q <= -N
BY SizesAssumption

LEMMA ModUnique ==
  ASSUME NEW q \in Int, NEW r \in Slots
  PROVE  (N * q + r) % N = r
<1> DEFINE a == N * q + r
<1>1. a \in Int
  BY SizesAssumption DEF Slots
<1>2. a % N \in 0 .. N - 1 /\ a = N * (a \div N) + (a % N) /\ a \div N \in Int
  BY <1>1, ModRange DEF Slots
<1>3. N * (q - (a \div N)) = (a % N) - r
  BY <1>2, SizesAssumption DEF Slots
<1>4. q - (a \div N) = 0
  BY <1>2, <1>3, MultipleIsFar, SizesAssumption DEF Slots
<1> QED
  BY <1>2, <1>3, <1>4, SizesAssumption DEF Slots

LEMMA ModSmall ==
  ASSUME NEW r \in Slots
  PROVE  r % N = r
<1>1. N * 0 + r = r
  BY SizesAssumption DEF Slots
<1> QED
  BY <1>1, ModUnique

LEMMA ModShift ==
  ASSUME NEW a \in Int, NEW q \in Int
  PROVE  (a + N * q) % N = a % N
<1>1. a % N \in Slots /\ a = N * (a \div N) + (a % N) /\ a \div N \in Int
  BY ModRange
<1>2. a + N * q = N * ((a \div N) + q) + (a % N)
  BY <1>1, SizesAssumption DEF Slots
<1>3. (a \div N) + q \in Int
  BY <1>1
<1> QED
  BY <1>1, <1>2, <1>3, ModUnique

\* A remainder may be taken early or late.
LEMMA ModSum ==
  ASSUME NEW x \in Int, NEW y \in Int
  PROVE  ((x % N) + y) % N = (x + y) % N /\ (y - (x % N)) % N = (y - x) % N
<1> DEFINE r == x % N
<1>1. r \in Int
  BY ModRange, SizesAssumption DEF Slots
<1>2. PICK q \in Int : x = N * q + r
  BY ModRange
<1> HIDE DEF r
<1>3. x + y = (r + y) + N * q /\ y - r = (y - x) + N * q
  BY <1>1, <1>2, SizesAssumption
<1>4. (r + y) \in Int /\ (y - x) \in Int
  BY <1>1
<1>5. (x + y) % N = (r + y) % N
  <2>1. ((r + y) + N * q) % N = (r + y) % N
    BY <1>4, ModShift
  <2> QED
    BY <1>3, <2>1
<1>6. (y - r) % N = (y - x) % N
  <2>1. ((y - x) + N * q) % N = (y - x) % N
    BY <1>4, ModShift
  <2> QED
    BY <1>3, <2>1
<1> QED
  BY <1>5, <1>6 DEF r

-------------------------------------------------------------------------------
(* The buffer *)

\* The bytes between a head and the tail of a bytes in all.
Dist(a, h) == ((a % N) - h) % N

LEMMA DistFromHead ==
  ASSUME NEW a \in Nat, NEW h \in Slots
  PROVE  Dist(a, h) \in Slots /\ h = (a - Dist(a, h)) % N
<1>1. (a % N) - h \in Int /\ a \in Int /\ h \in Int
  BY ModRange, SizesAssumption DEF Slots
<1>2. Dist(a, h) \in Slots
  BY <1>1, ModRange DEF Dist
<1>3. (a - Dist(a, h)) % N = (a - ((a % N) - h)) % N
  BY <1>1, ModSum DEF Dist
<1>4. a - ((a % N) - h) = (a + h) - (a % N) /\ (a + h) - a = h /\ a + h \in Int
  BY <1>1, ModRange, SizesAssumption DEF Slots
<1>5. ((a + h) - (a % N)) % N = ((a + h) - a) % N
  BY <1>1, <1>4, ModSum
<1> QED
  BY <1>2, <1>3, <1>4, <1>5, ModSmall

LEMMA DistIs ==
  ASSUME NEW a \in Nat, NEW d \in Slots
  PROVE  Dist(a, (a - d) % N) = d
<1> DEFINE h == (a - d) % N
<1>1. a - d \in Int /\ h \in Int /\ a \in Int
  BY ModRange, SizesAssumption DEF Slots
<1>2. Dist(a, h) = (a - h) % N
  <2>1. ((a % N) + (- h)) % N = (a + (- h)) % N
    BY <1>1, ModSum
  <2>2. (a % N) + (- h) = (a % N) - h /\ a + (- h) = a - h
    BY <1>1, ModRange, SizesAssumption DEF Slots
  <2> QED
    BY <2>1, <2>2 DEF Dist
<1>3. (a - h) % N = (a - (a - d)) % N
  BY <1>1, ModSum
<1>4. a - (a - d) = d
  BY SizesAssumption DEF Slots
<1> QED
  BY <1>2, <1>3, <1>4, ModSmall

LEMMA AvailableIsDist == available = Dist(accepted, head)
BY DEF available, tail, Dist

LEMMA TailIsSlot ==
  ASSUME accepted \in Nat
  PROVE  tail \in Slots
BY ModRange DEF tail

LEMMA BufferFacts ==
  ASSUME accepted \in Nat, head \in Slots
  PROVE  /\ available \in Slots
         /\ space \in Slots
         /\ space = N - 1 - available
         /\ full <=> available = N - 1
         /\ head = (accepted - available) % N
<1>1. available \in Slots /\ head = (accepted - available) % N
  BY DistFromHead, AvailableIsDist
<1>2. space \in Slots /\ space = N - 1 - available
  BY <1>1, SizesAssumption DEF space, Slots
<1>3. (accepted - (N - 1)) % N = (tail + 1) % N
  <2>1. (tail + 1) % N = (accepted + 1) % N
    BY ModSum DEF tail
  <2> DEFINE a == accepted - (N - 1)
  <2>2. a \in Int /\ a + N * 1 = accepted + 1
    BY SizesAssumption
  <2> HIDE DEF a
  <2>3. (a + N * 1) % N = a % N
    BY <2>2, ModShift
  <2> QED
    BY <2>1, <2>2, <2>3 DEF a
<1>4. full => available = N - 1
  <2>1. Dist(accepted, (accepted - (N - 1)) % N) = N - 1
    BY DistIs, SizesAssumption DEF Slots
  <2> QED
    BY <1>3, <2>1, AvailableIsDist DEF full
<1>5. available = N - 1 => full
  BY <1>1, <1>3 DEF full
<1> QED
  BY <1>1, <1>2, <1>4, <1>5

\* While the indices stay, so does everything that is computed from them.
LEMMA SameBuffer ==
  ASSUME accepted' = accepted, head' = head
  PROVE  /\ available' = available /\ space' = space /\ full' = full
         /\ tail' = tail
BY DEF available, space, full, tail

\* Bytes that are put in are available, on top of those that were.
LEMMA RoomTaken ==
  ASSUME accepted \in Nat, head \in Slots, NEW n \in 0 .. space,
         accepted' = accepted + n, head' = head
  PROVE  available' = available + n
<1>1. /\ available + n \in Slots
      /\ head = (accepted - available) % N
      /\ (accepted + n) - (available + n) = accepted - available
      /\ accepted + n \in Nat
  BY BufferFacts, SizesAssumption DEF Slots
<1>2. Dist(accepted + n, ((accepted + n) - (available + n)) % N) = available + n
  BY <1>1, DistIs
<1>3. available' = Dist(accepted', head')
  BY DEF available, tail, Dist
<1> QED
  BY <1>1, <1>2, <1>3

\* When everything available was sent, nothing is left.
LEMMA RoomGiven ==
  ASSUME accepted \in Nat, head \in Slots,
         accepted' = accepted, head' = (head + available) % N
  PROVE  available' = 0
<1> DEFINE d == available
<1>1. d \in Int /\ head = (accepted - d) % N /\ accepted - d \in Int
  BY BufferFacts, SizesAssumption DEF Slots
<1> HIDE DEF d
<1>2. (((accepted - d) % N) + d) % N = ((accepted - d) + d) % N
  BY <1>1, ModSum
<1>3. (accepted - d) + d = accepted - 0
  BY <1>1
<1>4. head' = (accepted - 0) % N
  BY <1>1, <1>2, <1>3 DEF d
<1>5. Dist(accepted, (accepted - 0) % N) = 0
  BY DistIs, SizesAssumption DEF Slots
<1>6. available' = Dist(accepted', head')
  BY DEF available, tail, Dist
<1> QED
  BY <1>4, <1>5, <1>6

\* The first byte the buffer has, less one.
base == accepted - available

\* The slots from head on hold the bytes after base.
LEMMA SlotsInOrder ==
  ASSUME accepted \in Nat, head \in Slots, base >= 0, NEW i \in 1 .. available
  PROVE  InSlot((head + i - 1) % N) = base + i
<1> DEFINE d == available
           k == (head + i - 1) % N
<1>1. d \in Slots /\ head = (accepted - d) % N /\ i \in 1 .. d
  BY BufferFacts
<1> HIDE DEF d
<1>2. d \in Int /\ i \in Int /\ accepted - d \in Int /\ i - 1 \in Int
      /\ (accepted - d) + (i - 1) \in Int /\ head \in Int
  BY <1>1, SizesAssumption DEF Slots
<1>3. k = ((accepted - d) + (i - 1)) % N
  <2>1. (((accepted - d) % N) + (i - 1)) % N = ((accepted - d) + (i - 1)) % N
    BY <1>2, ModSum
  <2>2. head + i - 1 = head + (i - 1)
    BY <1>2
  <2> QED
    BY <1>1, <2>1, <2>2
<1>4. ((accepted - 1) - k) % N = ((accepted - 1) - ((accepted - d) + (i - 1))) % N
  BY <1>2, <1>3, ModSum
<1>5. (accepted - 1) - ((accepted - d) + (i - 1)) = d - i /\ d - i \in Slots
  BY <1>1, <1>2, SizesAssumption DEF Slots
<1>6. ((accepted - 1) - k) % N = d - i
  BY <1>4, <1>5, ModSmall
<1>7. accepted - (d - i) = base + i /\ base + i >= 1
  BY <1>2, <1>1 DEF base, d
<1> QED
  BY <1>6, <1>7 DEF InSlot

\* output_start copies what is available when it read the amount and the indices
\* of the same buffer.
LEMMA CopiedIsAvailable ==
  ASSUME accepted \in Nat, head \in Slots
  PROVE  Copied(head, tail, available) = available
<1>1. tail \in Slots
  BY ModRange DEF tail
<1>2. CASE tail >= head
  BY <1>2 DEF Copied
<1>3. CASE ~ (tail >= head)
  <2>1. ((tail - head) + N * 1) % N = (tail - head) % N
    BY <1>1, ModShift DEF Slots
  <2>2. N - head + tail = (tail - head) + N * 1 /\ N - head + tail \in Slots
    BY <1>1, <1>3, SizesAssumption DEF Slots
  <2> QED
    BY <1>3, <2>1, <2>2, ModSmall DEF Copied, available
<1> QED
  BY <1>2, <1>3

-------------------------------------------------------------------------------
(* Types *)

\* A device has at most one thread that writes: nothing keeps two of them apart in
\* the loop of write.
OneWriter == \A u, v \in Writers : u = v

\* The rest of a write stays within the bound, a transfer within its size.
TypeInv ==
  /\ TypeOK
  /\ \A w \in Writers : accepted + todo[w] <= MaxBytes
  /\ dma.done <= dma.size

\* What the updates of the two records make of their fields.
LEMMA ManagerReads ==
  ASSUME manager \in ManagerStates, NEW x \in Slots,
         manager' = [manager EXCEPT !.at = "indices", !.used = x]
  PROVE  manager' \in ManagerStates /\ manager'.at = "indices" /\ manager'.used = x
BY DEF ManagerStates

LEMMA ManagerReadsIndices ==
  ASSUME manager \in ManagerStates, NEW x \in Slots, NEW y \in Slots,
         manager' = [manager EXCEPT !.at = "copy", !.head = x, !.tail = y]
  PROVE  /\ manager' \in ManagerStates
         /\ manager'.at = "copy" /\ manager'.used = manager.used
         /\ manager'.head = x /\ manager'.tail = y
BY DEF ManagerStates

LEMMA ManagerMoves ==
  ASSUME manager \in ManagerStates, NEW a \in {"receive", "send"},
         manager' = [manager EXCEPT !.at = a]
  PROVE  manager' \in ManagerStates /\ manager'.at = a
BY DEF ManagerStates

LEMMA DmaCounts ==
  ASSUME dma \in DmaStates, NEW x \in Slots, dma' = [dma EXCEPT !.done = x]
  PROVE  /\ dma' \in DmaStates
         /\ dma'.open = dma.open /\ dma'.size = dma.size
         /\ dma'.done = x /\ dma'.busy = dma.busy
BY DEF DmaStates

LEMMA DmaEnds ==
  ASSUME dma \in DmaStates, dma' = [dma EXCEPT !.busy = FALSE]
  PROVE  /\ dma' \in DmaStates
         /\ dma'.open = dma.open /\ dma'.size = dma.size
         /\ dma'.done = dma.done /\ ~ dma'.busy
BY DEF DmaStates

LEMMA DmaOpens ==
  ASSUME dma \in DmaStates, dma' = [dma EXCEPT !.open = TRUE]
  PROVE  /\ dma' \in DmaStates
         /\ dma'.open /\ dma'.size = dma.size
         /\ dma'.done = dma.done /\ dma'.busy = dma.busy
BY DEF DmaStates

LEMMA DmaStarts ==
  ASSUME NEW n \in Slots,
         dma' = [open |-> TRUE, size |-> n, done |-> 0, busy |-> n > 0]
  PROVE  /\ dma' \in DmaStates /\ dma'.done <= dma'.size
         /\ dma'.open /\ dma'.size = n /\ dma'.done = 0 /\ dma'.busy = (n > 0)
BY SizesAssumption DEF DmaStates, Slots

LEMMA DmaStops ==
  ASSUME dma' = [open |-> FALSE, size |-> 0, done |-> 0, busy |-> FALSE]
  PROVE  /\ dma' \in DmaStates /\ dma'.done <= dma'.size
         /\ ~ dma'.open /\ dma'.size = 0 /\ dma'.done = 0 /\ ~ dma'.busy
BY SizesAssumption DEF DmaStates, Slots

LEMMA PostsKeepsTypes ==
  ASSUME events \in Seq({"transfer", "other"}), Len(events) <= QueueSize,
         dropped \in BOOLEAN, Posts
  PROVE  /\ events' \in Seq({"transfer", "other"}) /\ Len(events') <= QueueSize
         /\ dropped' \in BOOLEAN
<1>1. /\ Append(events, "transfer") \in Seq({"transfer", "other"})
      /\ Len(Append(events, "transfer")) = Len(events) + 1
  BY AppendProperties
<1>2. Len(events) \in Nat
  BY LenProperties
<1>3. CASE Len(events) < QueueSize
  BY <1>1, <1>2, <1>3, SizesAssumption DEF Posts
<1>4. CASE ~ (Len(events) < QueueSize)
  BY <1>4 DEF Posts
<1> QED
  BY <1>3, <1>4

LEMMA GoesKeepsTypes ==
  ASSUME pc \in [Writers -> Labels], NEW w \in Writers, NEW from, NEW to \in Labels,
         Goes(w, from, to)
  PROVE  pc' \in [Writers -> Labels]
BY DEF Goes

LEMMA InitTypes == Init => TypeInv
<1> SUFFICES ASSUME Init PROVE TypeInv
  OBVIOUS
<1>1. <<>> \in Seq({"transfer", "other"}) /\ Len(<<>>) = 0
  BY EmptySeq
<1>2. manager \in ManagerStates /\ dma \in DmaStates /\ dma.done <= dma.size
  BY SizesAssumption DEF Init, ManagerStates, DmaStates, Slots
<1>3. 0 \in Slots /\ 0 \in 0 .. MaxBytes
  BY SizesAssumption DEF Slots
<1>4. ex \in [1 .. N -> 0 .. MaxBytes]
  BY <1>3 DEF Init
<1>5. /\ pc \in [Writers -> Labels]
      /\ timeout \in [Writers -> {"finite", "forever"}]
  BY DEF Init, Labels
<1>6. todo \in [Writers -> 0 .. MaxBytes] /\ goal \in [Writers -> 0 .. MaxBytes]
  BY <1>3 DEF Init
<1>7. /\ accepted = 0 /\ opens = 0 /\ tc = 0 /\ sent = 0
      /\ \A w \in Writers : todo[w] = 0
  BY DEF Init
<1>8. /\ accepted \in 0 .. MaxBytes /\ sent \in 0 .. MaxBytes /\ tc \in Nat
      /\ opens \in 0 .. MaxOpens
  BY <1>7, SizesAssumption
<1>9. \A w \in Writers : accepted + todo[w] <= MaxBytes
  <2> SUFFICES ASSUME NEW w \in Writers PROVE accepted + todo[w] <= MaxBytes
    OBVIOUS
  <2>1. accepted = 0 /\ todo[w] = 0
    BY <1>7
  <2> QED
    BY <2>1, SizesAssumption
<1>10. /\ head \in Slots /\ output_size \in Slots
       /\ opened \in BOOLEAN /\ dropped \in BOOLEAN /\ garbled \in BOOLEAN
       /\ flags \subseteq {"Transmit_Finish", "Close"}
       /\ style \in Styles /\ handler \in {"wait", "finish"}
  BY <1>3 DEF Init
<1>11. events \in Seq({"transfer", "other"}) /\ Len(events) <= QueueSize
  BY <1>1, SizesAssumption DEF Init
<1> QED
  BY <1>2, <1>4, <1>5, <1>6, <1>8, <1>9, <1>10, <1>11 DEF TypeInv, TypeOK

LEMMA WriteTypes ==
  ASSUME OneWriter, TypeInv, NEW w \in Writers,
         CallWrite(w) \/ CallFlush(w) \/ Continue(w) \/ Expire(w)
  PROVE  TypeInv'
<1> USE SizesAssumption DEF TypeInv, TypeOK, buffer_vars, device_vars, manager_vars, wire_vars, Labels
<1>1. CASE CallWrite(w)
  BY <1>1 DEF CallWrite, Goes
<1>2. CASE Check(w)
  BY <1>2 DEF Check, Goes
<1>3. CASE Wait(w)
  BY <1>3 DEF Wait, Goes
<1>4. CASE Write(w)
  <2>1. CASE ~ opened
    BY <1>4, <2>1 DEF Write, Goes
  <2>2. CASE opened
    <3> DEFINE n == Least(todo[w], space)
    <3>1. n \in Nat /\ n <= todo[w]
      <4>1. todo[w] \in Nat /\ space \in Nat
        BY BufferFacts DEF Slots
      <4> QED
        BY <4>1 DEF Least
    <3>2. accepted' = accepted + n /\ todo' = [todo EXCEPT ![w] = @ - n]
      BY <1>4, <2>2 DEF Write
    <3> HIDE DEF n
    <3>3. /\ accepted' + todo'[w] <= MaxBytes
          /\ accepted' \in 0 .. MaxBytes
          /\ todo' \in [Writers -> 0 .. MaxBytes]
      BY <3>1, <3>2
    <3>4. \A v \in Writers : accepted' + todo'[v] <= MaxBytes
      BY <3>3 DEF OneWriter
    <3> QED
      BY <1>4, <2>2, <3>3, <3>4 DEF Write, Goes
  <2> QED
    BY <2>1, <2>2
<1>5. CASE Filled(w)
  BY <1>5 DEF Filled, Goes
<1>6. CASE Post(w)
  BY <1>6, PostsKeepsTypes DEF Post, Goes
<1>7. CASE CallFlush(w)
  BY <1>7, PostsKeepsTypes DEF CallFlush, Goes
<1>8. CASE FlushWait(w)
  BY <1>8 DEF FlushWait, Goes
<1>9. CASE FlushOK(w)
  BY <1>9 DEF FlushOK, Goes
<1>10. CASE Expire(w)
  BY <1>10 DEF Expire
<1> QED
  BY <1>1, <1>2, <1>3, <1>4, <1>5, <1>6, <1>7, <1>8, <1>9, <1>10 DEF Continue

LEMMA ManagingTypes ==
  ASSUME TypeInv, Managing \/ PostOther
  PROVE  TypeInv'
<1> USE SizesAssumption DEF TypeInv, TypeOK, buffer_vars, device_vars, manager_vars, wire_vars, writer_vars
<1>1. CASE PostOther
  <2>1. /\ Append(events, "other") \in Seq({"transfer", "other"})
        /\ Len(Append(events, "other")) = Len(events) + 1
    BY AppendProperties
  <2> QED
    BY <1>1, <2>1 DEF PostOther
<1>2. CASE Receive
  <2>1. Tail(events) \in Seq({"transfer", "other"}) /\ Len(Tail(events)) = Len(events) - 1
    BY <1>2, HeadTailProperties DEF Receive
  <2>2. available \in Slots
    BY BufferFacts
  <2>3. manager' \in ManagerStates
    BY <1>2, <2>2, ManagerReads DEF Receive
  <2> QED
    BY <1>2, <2>1, <2>3 DEF Receive
<1>3. CASE ReadIndices
  <2>1. tail \in Slots
    BY TailIsSlot
  <2>2. manager' \in ManagerStates
    BY <1>3, <2>1, ManagerReadsIndices DEF ReadIndices
  <2> QED
    BY <1>3, <2>2 DEF ReadIndices
<1>4. CASE CopyOut
  <2>1. Copied(manager.head, manager.tail, manager.used) \in Slots
    BY SMTT(30) DEF Copied, ManagerStates, Slots
  <2>2. \A i \in Int : InSlot(i) \in 0 .. MaxBytes
    <3> SUFFICES ASSUME NEW i \in Int PROVE InSlot(i) \in 0 .. MaxBytes
      OBVIOUS
    <3>1. accepted - 1 - i \in Int /\ accepted \in Nat
      OBVIOUS
    <3>2. (accepted - 1 - i) % N \in Slots
      BY <3>1, ModRange
    <3> QED
      BY <3>1, <3>2 DEF InSlot, Slots
  <2>3. \A i \in 1 .. N : (manager.head + i - 1) % N \in Int
    <3> SUFFICES ASSUME NEW i \in 1 .. N PROVE (manager.head + i - 1) % N \in Int
      OBVIOUS
    <3>1. manager.head + i - 1 \in Int
      BY DEF ManagerStates, Slots
    <3> QED
      BY <3>1, ModRange DEF Slots
  <2>4. ex' \in [1 .. N -> 0 .. MaxBytes]
    BY <1>4, <2>2, <2>3 DEF CopyOut
  <2>5. output_size' \in Slots /\ manager' \in ManagerStates
    BY <1>4, <2>1, ManagerMoves DEF CopyOut
  <2> QED
    BY <1>4, <2>4, <2>5 DEF CopyOut
<1>5. CASE Send
  <2>1. manager' \in ManagerStates
    BY <1>5, ManagerMoves DEF Send
  <2>2. dma' \in DmaStates /\ dma'.done <= dma'.size
    <3>1. CASE dma.open
      <4>1. dma' = [open |-> TRUE, size |-> output_size, done |-> 0, busy |-> output_size > 0]
        BY <1>5, <3>1 DEF Send
      <4>2. output_size \in Slots
        OBVIOUS
      <4> QED
        BY <4>1, <4>2, DmaStarts
    <3>2. CASE ~ dma.open
      BY <1>5, <3>2 DEF Send
    <3> QED
      BY <3>1, <3>2
  <2> QED
    BY <1>5, <2>1, <2>2 DEF Send
<1> QED
  BY <1>1, <1>2, <1>3, <1>4, <1>5 DEF Managing

LEMMA TransferringTypes ==
  ASSUME TypeInv, Transferring
  PROVE  TypeInv'
<1> USE SizesAssumption DEF TypeInv, TypeOK, buffer_vars, device_vars, manager_vars, wire_vars, writer_vars
<1>1. CASE Transmit
  <2>1. dma.done + 1 \in 1 .. N /\ dma.done + 1 \in Slots /\ dma.done + 1 <= dma.size
    <3>1. dma.done < dma.size
      BY <1>1 DEF Transmit
    <3>2. dma.done \in Slots /\ dma.size \in Slots
      BY DEF DmaStates
    <3> QED
      BY ONLY <3>1, <3>2, SizesAssumption DEF Slots
  <2>2. ex[dma.done + 1] \in 0 .. MaxBytes
    BY <2>1
  <2>3. dma' = [dma EXCEPT !.done = dma.done + 1]
    BY <1>1 DEF Transmit
  <2>4. dma' \in DmaStates /\ dma'.done <= dma'.size
    BY <2>1, <2>3, DmaCounts
  <2>5. sent' \in 0 .. MaxBytes /\ garbled' \in BOOLEAN
    BY <1>1, <2>2 DEF Transmit
  <2> QED
    BY <1>1, <2>4, <2>5 DEF Transmit
<1>2. CASE Interrupt
  <2>1. dma' \in DmaStates /\ dma'.done <= dma'.size
    BY <1>2, DmaEnds DEF Interrupt
  <2> QED
    BY <1>2, <2>1 DEF Interrupt
<1>3. CASE Complete
  <2>1. head + output_size \in Int /\ 0 \in Slots
    BY DEF Slots
  <2>2. (head + output_size) % N \in Slots
    BY <2>1, ModRange
  <2> QED
    BY <1>3, <2>1, <2>2 DEF Complete
<1>4. CASE Finish
  <2>1. pc' \in [Writers -> Labels]
    BY <1>4 DEF Finish, Labels
  <2> QED
    BY <1>4, <2>1 DEF Finish
<1> QED
  BY <1>1, <1>2, <1>3, <1>4 DEF Transferring

LEMMA ClosingTypes ==
  ASSUME TypeInv, Closing \/ Opening
  PROVE  TypeInv'
<1> USE SizesAssumption DEF TypeInv, TypeOK, buffer_vars, device_vars, manager_vars, wire_vars, writer_vars
<1>1. CASE Deinit
  <2>1. dma' \in DmaStates /\ dma'.done <= dma'.size
    BY <1>1, DmaStops DEF Deinit
  <2> QED
    BY <1>1, <2>1 DEF Deinit
<1>2. CASE Close
  BY <1>2 DEF Close
<1>3. CASE SetClose
  BY <1>3 DEF SetClose, Labels
<1>4. CASE Open
  <2>1. dma' \in DmaStates /\ dma'.done <= dma'.size
    BY <1>4, DmaOpens DEF Open
  <2> QED
    BY SMTT(30), <1>4, <2>1 DEF Open
<1>5. CASE ClearFlags
  <2>1. /\ Append(events, "other") \in Seq({"transfer", "other"})
        /\ Len(Append(events, "other")) = Len(events) + 1
    BY AppendProperties
  <2> QED
    BY <1>5, <2>1 DEF ClearFlags
<1> QED
  BY <1>1, <1>2, <1>3, <1>4, <1>5 DEF Closing, Opening

LEMMA NextTypes ==
  ASSUME OneWriter, TypeInv, [Next]_vars
  PROVE  TypeInv'
<1>1. CASE UNCHANGED vars
  BY <1>1 DEF vars, TypeInv, TypeOK, buffer_vars, device_vars, manager_vars, wire_vars, writer_vars
<1>2. CASE Next
  BY <1>2, WriteTypes, ManagingTypes, TransferringTypes, ClosingTypes DEF Next
<1> QED
  BY <1>1, <1>2

\* The variables keep their types, whatever the style in which the device is used:
\* no index leaves the arrays and the wire gets no more than the extra buffer holds.
THEOREM TypeCorrect ==
  ASSUME OneWriter
  PROVE  Spec => []TypeOK
<1>1. Init => TypeInv
  BY InitTypes
<1>2. TypeInv /\ [Next]_vars => TypeInv'
  BY NextTypes
<1>3. TypeInv => TypeOK
  BY DEF TypeInv
<1> QED
  BY <1>1, <1>2, <1>3, PTL DEF Spec
===============================================================================
