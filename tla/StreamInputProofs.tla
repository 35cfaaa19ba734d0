-------------------------- MODULE StreamInputProofs --------------------------
(***************************************************************************)
(* Theorems about StreamInput for any even size of the ring, any sizes of  *)
(* reads, any bytes, calls and places, in the three modes of reception.    *)
(*                                                                         *)
(* Types      no index leaves the ring, no reception its memory            *)
(* Placement  where a reception is, which m_is_used_ex_buffer and          *)
(*            m_current_buffer tell, as long as no Damage happened         *)
(* Queue      what is unread stays until it is read: RingIsQueue           *)
(* Wake-ups   with one reader, none is lost: NoSleepOnData                 *)
(* Order      what was read, what is unread, what is in flight and what is *)
(*            in the receive register rise, one after the other:           *)
(*            ReadInOrder                                                  *)
(*                                                                         *)
(* The order of the slots is taken from the head on (From): a write of the *)
(* ring then is a splice and a read a shift, without a modulo.             *)
(***************************************************************************)
EXTENDS StreamInput, SequenceTheorems, TLAPS

-------------------------------------------------------------------------------
(* The slots of the ring *)

\* The slot d places after slot i, and how many places slot k is after slot i.
After(i, d) == (i + d) % N
Ahead(i, k) == (k - i) % N

LEMMA ModInSlots == \A a \in Int : a % N \in Slots
<1>1. SUFFICES ASSUME NEW a \in Int PROVE a % N \in Slots
  OBVIOUS
<1>2. N \in Int /\ N > 0
  BY InputAssumption
<1>3. a % N \in Int /\ a % N >= 0 /\ a % N < N
  BY <1>2
<1> QED
  BY <1>2, <1>3 DEF Slots

LEMMA AfterIs ==
  ASSUME NEW i \in Slots, NEW d \in Slots
  PROVE  After(i, d) = IF i + d < N THEN i + d ELSE i + d - N
<1>1. \A a \in Slots : a % N = a
  BY InputAssumption DEF Slots
<1>2. \A a \in Int : a >= N /\ a < 2 * N => a % N = a - N
  BY InputAssumption DEF Slots
<1> QED
  BY <1>1, <1>2, InputAssumption DEF After, Slots

LEMMA AheadIs ==
  ASSUME NEW i \in Slots, NEW k \in Slots
  PROVE  Ahead(i, k) = IF k >= i THEN k - i ELSE k - i + N
<1>1. \A a \in Slots : a % N = a
  BY InputAssumption DEF Slots
<1>2. \A a \in Int : a < 0 /\ a >= - N => a % N = a + N
  BY InputAssumption DEF Slots
<1> QED
  BY <1>1, <1>2, InputAssumption DEF Ahead, Slots

LEMMA SlotsAgree ==
  ASSUME NEW i \in Slots, NEW d \in Slots
  PROVE  /\ After(i, d) \in Slots /\ Ahead(i, d) \in Slots
         /\ Ahead(i, After(i, d)) = d /\ After(i, Ahead(i, d)) = d
         /\ Ahead(i, i) = 0 /\ After(i, 0) = i
<1>1. After(i, d) = IF i + d < N THEN i + d ELSE i + d - N
  BY AfterIs
<1>2. Ahead(i, d) = IF d >= i THEN d - i ELSE d - i + N
  BY AheadIs
<1>3. After(i, d) \in Slots /\ Ahead(i, d) \in Slots
  BY <1>1, <1>2, InputAssumption DEF Slots
<1>4. Ahead(i, After(i, d)) = IF After(i, d) >= i THEN After(i, d) - i ELSE After(i, d) - i + N
  BY <1>3, AheadIs
<1>5. After(i, Ahead(i, d)) = IF i + Ahead(i, d) < N THEN i + Ahead(i, d) ELSE i + Ahead(i, d) - N
  BY <1>3, AfterIs
<1>6. Ahead(i, After(i, d)) = d /\ After(i, Ahead(i, d)) = d
  BY <1>1, <1>2, <1>3, <1>4, <1>5, InputAssumption DEF Slots
<1>7. 0 \in Slots /\ i + 0 < N /\ i >= i /\ i + 0 = i /\ i - i = 0
  BY InputAssumption DEF Slots
<1>8. Ahead(i, i) = 0 /\ After(i, 0) = i
  BY <1>7, AfterIs, AheadIs
<1> QED
  BY <1>3, <1>6, <1>8

\* n places after the slot d places after slot i.
LEMMA AfterAfter ==
  ASSUME NEW i \in Slots, NEW d \in Slots, NEW n \in Slots, d + n \in Slots
  PROVE  After(After(i, d), n) = After(i, d + n)
<1>1. After(i, d) = IF i + d < N THEN i + d ELSE i + d - N
  BY AfterIs
<1>2. After(i, d + n) = IF i + (d + n) < N THEN i + (d + n) ELSE i + (d + n) - N
  BY AfterIs
<1>3. After(After(i, d), n) = IF After(i, d) + n < N THEN After(i, d) + n ELSE After(i, d) + n - N
  BY AfterIs, SlotsAgree
<1> QED
  BY <1>1, <1>2, <1>3, InputAssumption DEF Slots

\* How far ahead of the slot a places after slot i the slot d places after slot i is.
LEMMA AheadAfter ==
  ASSUME NEW i \in Slots, NEW a \in Slots, NEW d \in Slots
  PROVE  Ahead(After(i, a), After(i, d)) = IF d >= a THEN d - a ELSE d - a + N
<1>1. After(i, d) = IF i + d < N THEN i + d ELSE i + d - N
  BY AfterIs
<1>2. After(i, a) = IF i + a < N THEN i + a ELSE i + a - N
  BY AfterIs
<1>3. Ahead(After(i, a), After(i, d)) =
        IF After(i, d) >= After(i, a) THEN After(i, d) - After(i, a)
        ELSE After(i, d) - After(i, a) + N
  BY AheadIs, SlotsAgree
<1> QED
  BY <1>1, <1>2, <1>3, InputAssumption DEF Slots

\* The memory m, in the order of the slots from slot i on.
From(i, m) == [d \in Slots |-> m[After(i, d)]]

LEMMA StoredIs ==
  ASSUME NEW m, NEW i, NEW q
  PROVE  Stored(m, i, q) =
           [k \in Slots |-> IF Ahead(i, k) < Len(q) THEN q[Ahead(i, k) + 1] ELSE m[k]]
BY DEF Stored, Ahead

\* f with the elements of q from place a on.
Spliced(f, a, q) ==
  [d \in Slots |-> IF d >= a /\ d < a + Len(q) THEN q[d - a + 1] ELSE f[d]]

\* What a write of q, a places after slot i, does to the order from slot i on.
LEMMA StoredFrom ==
  ASSUME NEW m, NEW i \in Slots, NEW a \in Slots, NEW q, Len(q) \in Nat, a + Len(q) <= N
  PROVE  From(i, Stored(m, After(i, a), q)) = Spliced(From(i, m), a, q)
<1>1. SUFFICES ASSUME NEW d \in Slots
               PROVE  Stored(m, After(i, a), q)[After(i, d)] =
                        IF d >= a /\ d < a + Len(q) THEN q[d - a + 1] ELSE m[After(i, d)]
  BY DEF From, Spliced
<1>2. After(i, d) \in Slots
  BY SlotsAgree
<1>3. Ahead(After(i, a), After(i, d)) = IF d >= a THEN d - a ELSE d - a + N
  BY AheadAfter
<1>4. Stored(m, After(i, a), q)[After(i, d)] =
        IF Ahead(After(i, a), After(i, d)) < Len(q)
        THEN q[Ahead(After(i, a), After(i, d)) + 1] ELSE m[After(i, d)]
  BY <1>2, StoredIs
<1>5. Ahead(After(i, a), After(i, d)) < Len(q) <=> d >= a /\ d < a + Len(q)
  BY <1>3, InputAssumption DEF Slots
<1>6. d >= a => Ahead(After(i, a), After(i, d)) + 1 = d - a + 1
  BY <1>3
<1> QED
  BY <1>4, <1>5, <1>6


\* A byte written to slot k.
LEMMA StoredByte ==
  ASSUME NEW S, NEW m \in [Slots -> S], NEW k \in Slots, NEW b
  PROVE  Stored(m, k, <<b>>) = [m EXCEPT ![k] = b]
<1>1. ASSUME NEW j \in Slots
      PROVE  (IF Ahead(k, j) < Len(<<b>>) THEN <<b>>[Ahead(k, j) + 1] ELSE m[j])
               = [m EXCEPT ![k] = b][j]
  <2>1. Ahead(k, j) = IF j >= k THEN j - k ELSE j - k + N
    BY AheadIs
  <2>2. Len(<<b>>) = 1 /\ <<b>>[1] = b
    OBVIOUS
  <2>3. Ahead(k, j) < 1 <=> j = k
    BY <2>1, InputAssumption DEF Slots
  <2>4. j = k => Ahead(k, j) + 1 = 1
    BY <2>1, InputAssumption DEF Slots
  <2> QED
    BY <2>2, <2>3, <2>4
<1> QED
  BY <1>1, StoredIs

LEMMA StoredType ==
  ASSUME NEW S, NEW m \in [Slots -> S], NEW i \in Int, NEW q \in Seq(S)
  PROVE  Stored(m, i, q) \in [Slots -> S]
<1>1. SUFFICES ASSUME NEW k \in Slots, Ahead(i, k) < Len(q)
               PROVE  q[Ahead(i, k) + 1] \in S
  BY StoredIs
<1>2. k - i \in Int
  BY InputAssumption DEF Slots
<1>3. Ahead(i, k) \in Slots
  BY <1>2, ModInSlots DEF Ahead
<1>4. Ahead(i, k) + 1 \in 1 .. Len(q)
  BY <1>1, <1>3, InputAssumption DEF Slots
<1> QED
  BY <1>4

LEMMA FirstOfType ==
  ASSUME NEW S, NEW m \in [Slots -> S], NEW n \in 0 .. N
  PROVE  FirstOf(m, n) \in Seq(S) /\ Len(FirstOf(m, n)) = n
<1>1. \A i \in 1 .. n : i - 1 \in Slots
  BY InputAssumption DEF Slots
<1>2. FirstOf(m, n) \in [1 .. n -> S]
  BY <1>1 DEF FirstOf
<1>3. n \in Nat
  BY InputAssumption
<1> QED
  BY <1>2, <1>3

-------------------------------------------------------------------------------
(* Types *)

Byte == 0 .. MaxBytes

\* What a reception may be placed in, and how many bytes it takes.
Receivers == CASE mode = "bytes" -> {"none"}
               [] mode = "single" -> {"ring", "ex"}
               [] mode = "double" -> {"first", "second"}
SizeOf == CASE mode = "bytes" -> 0 [] mode = "single" -> N - 1 [] mode = "double" -> Half

\* A reception is in a memory of the mode and, while it runs, not full.
PlaceInv ==
  /\ dma.to \in Receivers \cup {"none"}
  /\ dma.to = "none" => dma.done = 0
  /\ dma.to # "none" => dma.size = SizeOf /\ dma.done <= SizeOf /\ (dma.on => dma.done < SizeOf)
  /\ handler.at = "enable" => handler.to \in Receivers \ {"second"}
  /\ mode = "bytes" => handler.at = "wait"

RingTypes ==
  /\ ring \in [Slots -> Byte] /\ head \in Slots /\ tail \in Slots
  /\ mem \in [{"ex", "first", "second"} -> [Slots -> Byte]]
  /\ used_ex \in BOOLEAN /\ current \in {0, 1}

DeviceTypes ==
  /\ opened \in BOOLEAN /\ flags \subseteq {"Receive_Finish", "Close"} /\ starts \in Nat
  /\ pc \in [Readers -> {"idle", "loop", "wait", "suspended", "read", "check", "clear"}]
  /\ todo \in [Readers -> Nat]
  /\ calls \in 0 .. MaxCalls /\ refused \in BOOLEAN

HistoryTypes ==
  last \in Byte /\ misread \in BOOLEAN /\ damaged \in BOOLEAN /\ dropped \in BOOLEAN

LineTypes ==
  /\ mode \in Modes
  /\ arrived \in Byte /\ rdr \in Byte /\ idle \in BOOLEAN
  /\ dma \in [open : BOOLEAN, on : BOOLEAN, to : Memories, from : Slots, size : Slots,
              done : Slots]
  /\ messages \in 0 .. QueueSize
  /\ handler \in [at : {"wait", "start", "enable"}, to : Memories, from : Slots]
  /\ PlaceInv

TypeInv == RingTypes /\ DeviceTypes /\ HistoryTypes /\ LineTypes

LEMMA TypeInvIsEnough == TypeInv => TypeOK
BY DEF TypeInv, TypeOK, RingTypes, DeviceTypes, HistoryTypes, LineTypes, Byte

LEMMA Numbers ==
  /\ N \in Nat /\ N >= 4 /\ 0 \in Slots /\ 1 \in Slots /\ N - 1 \in Slots
  /\ Half \in Slots /\ Half >= 2 /\ Half + Half = N
  /\ MaxBytes \in Nat /\ MaxCalls \in Nat /\ QueueSize \in Nat
  /\ Slots \subseteq Nat /\ Byte \subseteq Nat
BY InputAssumption DEF Slots, Half, Byte

LEMMA Amounts ==
  ASSUME RingTypes
  PROVE  /\ available = Ahead(head, tail) /\ tail = After(head, available)
         /\ available \in Slots /\ space \in Slots /\ available + space = N - 1
         /\ empty <=> available = 0
<1>1. available = Ahead(head, tail)
  BY DEF available, Ahead
<1>2. head \in Slots /\ tail \in Slots
  BY DEF RingTypes
<1>3. available \in Slots /\ tail = After(head, available)
  BY <1>1, <1>2, SlotsAgree
<1>4. space \in Slots /\ available + space = N - 1
  BY <1>3, Numbers DEF space, Slots
<1>5. empty <=> available = 0
  BY <1>1, <1>2, AheadIs, Numbers DEF empty, Slots
<1> QED
  BY <1>1, <1>3, <1>4, <1>5

LEMMA LeastIs ==
  ASSUME NEW m \in Nat, NEW n \in Nat
  PROVE  Least(m, n) \in Nat /\ Least(m, n) <= m /\ Least(m, n) <= n
         /\ (Least(m, n) = m \/ Least(m, n) = n)
BY DEF Least

LEMMA FitIs ==
  ASSUME RingTypes, NEW n \in Slots
  PROVE  /\ Least(n, space) \in 0 .. N /\ Least(n, space) \in Slots
         /\ Least(n, space) <= n /\ Least(n, space) <= space
         /\ Least(n, space) = n \/ Least(n, space) = space
<1>1. space \in Slots
  BY Amounts
<1>2. n \in Nat /\ space \in Nat
  BY <1>1, Numbers
<1>3. Least(n, space) \in Nat /\ Least(n, space) <= n /\ Least(n, space) <= space
      /\ (Least(n, space) = n \/ Least(n, space) = space)
  BY <1>2, LeastIs
<1> QED
  BY <1>1, <1>3, Numbers DEF Slots

LEMMA TypesAtFirst == Init => TypeInv
<1> SUFFICES ASSUME Init PROVE TypeInv
  OBVIOUS
<1>1. RingTypes
  <2>1. Nothing \in [Slots -> Byte]
    BY Numbers DEF Nothing, Byte
  <2>2. head \in Slots /\ tail \in Slots
    BY InputAssumption DEF Init, Slots
  <2> QED
    BY <2>1, <2>2 DEF Init, RingTypes
<1>2. DeviceTypes
  BY Numbers DEF Init, DeviceTypes
<1>4. HistoryTypes
  <2>1. 0 \in Byte
    BY Numbers DEF Byte
  <2> QED
    BY <2>1 DEF Init, HistoryTypes
<1>3. LineTypes
  BY Numbers DEF Init, LineTypes, PlaceInv, Stopped, Byte, Memories
<1> QED
  BY <1>1, <1>2, <1>3, <1>4 DEF TypeInv

LEMMA WriteRingType ==
  ASSUME RingTypes, NEW m \in [Slots -> Byte], NEW n \in 0 .. N, WriteRing(m, n)
  PROVE  ring' \in [Slots -> Byte] /\ tail' \in Slots
<1>1. FirstOf(m, n) \in Seq(Byte)
  BY FirstOfType
<1>2. tail \in Int /\ tail + n \in Int
  BY Numbers DEF RingTypes, Slots
<1>3. Stored(ring, tail, FirstOf(m, n)) \in [Slots -> Byte]
  BY <1>1, <1>2, StoredType DEF RingTypes
<1>4. (tail + n) % N \in Slots
  BY <1>2, ModInSlots
<1> QED
  BY <1>3, <1>4 DEF WriteRing

LEMMA EnableType ==
  ASSUME RingTypes, rdr \in Byte, NEW t, t.from \in Slots, Enable(t)
  PROVE  /\ ring' \in [Slots -> Byte] /\ tail' \in Slots
         /\ mem' \in [{"ex", "first", "second"} -> [Slots -> Byte]]
<1> DEFINE held == IF rdr = 0 THEN <<>> ELSE <<rdr>>
           q == IF space = 0 THEN <<>> ELSE held
<1>1. held \in Seq(Byte) /\ q \in Seq(Byte)
  OBVIOUS
<1>2. tail \in Int /\ tail + Len(q) \in Int /\ t.from \in Int /\ 0 \in Int
  BY <1>1, Numbers DEF RingTypes, Slots
<1>3. Stored(ring, tail, q) \in [Slots -> Byte] /\ Stored(ring, t.from, held) \in [Slots -> Byte]
  BY <1>1, <1>2, StoredType DEF RingTypes
<1>4. Nothing \in [Slots -> Byte]
  BY Numbers DEF Nothing, Byte
<1>5. Stored(Nothing, 0, held) \in [Slots -> Byte]
  BY <1>1, <1>2, <1>4, StoredType
<1>6. (tail + Len(q)) % N \in Slots
  BY <1>2, ModInSlots
<1>7. \/ ring' = Stored(ring, tail, q) /\ tail' = (tail + Len(q)) % N /\ mem' = mem
      \/ ring' = Stored(ring, t.from, held) /\ tail' = tail /\ mem' = mem
      \/ ring' = ring /\ tail' = tail /\ mem' = [mem EXCEPT ![t.to] = Stored(Nothing, 0, held)]
  BY DEF Enable
<1> HIDE DEF held, q
<1> QED
  BY <1>3, <1>5, <1>6, <1>7 DEF RingTypes

LEMMA TargetType ==
  ASSUME TypeInv
  PROVE  /\ Target.to \in Receivers \ {"second"} /\ Target.to \in Memories /\ Target.from \in Slots
         /\ Target.to = "ring" => Target.from = tail /\ tail <= 1 /\ empty
<1>1. mode \in {"bytes", "single", "double"}
  BY InputAssumption DEF TypeInv, LineTypes
<1>2. tail \in Slots /\ 0 \in Slots
  BY Numbers DEF TypeInv, RingTypes
<1>3. CASE mode = "single"
  BY <1>2, <1>3, Numbers DEF Target, SingleTarget, Receivers, Memories
<1>4. CASE mode \in {"bytes", "double"}
  BY <1>2, <1>4 DEF Target, Receivers, Memories
<1> QED
  BY <1>1, <1>3, <1>4

\* The half that is copied, after the last byte came in.
LEMMA HalfType ==
  ASSUME TypeInv, SwitchHalf
  PROVE  [mem EXCEPT ![dma.to] = Stored(mem[dma.to], dma.done, <<arrived'>>)][CurrentHalf]
           \in [Slots -> Byte]
<1>1. dma.to \in {"first", "second"} /\ arrived' \in Byte
  BY Numbers DEF SwitchHalf, NextByte, TypeInv, LineTypes, Byte
<1>2. <<arrived'>> \in Seq(Byte) /\ dma.done \in Int
  <2>1. dma.done \in Slots
    BY DEF TypeInv, LineTypes
  <2>2. <<arrived'>> \in Seq(Byte)
    BY <1>1
  <2>3. dma.done \in Int
    BY <2>1, Numbers DEF Slots
  <2> QED
    BY <2>2, <2>3
<1>3. mem[dma.to] \in [Slots -> Byte] /\ mem[CurrentHalf] \in [Slots -> Byte]
      /\ mem \in [{"ex", "first", "second"} -> [Slots -> Byte]]
  BY <1>1 DEF TypeInv, RingTypes, CurrentHalf
<1>4. Stored(mem[dma.to], dma.done, <<arrived'>>) \in [Slots -> Byte]
  BY <1>2, <1>3, StoredType
<1> QED
  BY <1>1, <1>3, <1>4 DEF CurrentHalf

LEMMA RingStaysTyped ==
  ASSUME TypeInv, [Next]_vars
  PROVE  RingTypes'
<1>1. /\ RingTypes /\ 0 \in Slots /\ Nothing \in [Slots -> Byte] /\ arrived \in Byte
      /\ rdr \in Byte /\ dma.done \in Slots /\ dma.from \in Slots /\ handler.from \in Slots
  BY Numbers DEF TypeInv, LineTypes, Nothing, Byte
<1>2. ASSUME NextByte PROVE arrived' \in Byte /\ <<arrived'>> \in Seq(Byte)
  BY <1>1, <1>2, Numbers DEF NextByte, Byte
<1>3. ASSUME UNCHANGED ring_vars PROVE RingTypes'
  BY <1>1, <1>3 DEF RingTypes, ring_vars
<1>4. ASSUME NEW r \in Readers, Read(r) PROVE RingTypes'
  <2> DEFINE n == Least(todo[r], available)
             q == [i \in 1 .. n |-> 0]
  <2>1. todo[r] \in Nat /\ available \in Nat /\ head \in Int
    <3>1. available \in Slots /\ head \in Slots
      BY <1>1, Amounts DEF RingTypes
    <3>2. todo[r] \in Nat
      BY <1>4 DEF TypeInv, DeviceTypes
    <3> QED
      BY <3>1, <3>2, Numbers
  <2>2. n \in Nat
    BY <2>1, LeastIs
  <2> HIDE DEF n
  <2>3. q \in Seq(Byte)
    BY <2>2, Numbers DEF Byte
  <2>4. head + n \in Int
    BY <2>1, <2>2
  <2>5. (head + n) % N \in Slots
    BY <2>4, ModInSlots
  <2>6. Stored(ring, head, q) \in [Slots -> Byte]
    BY <1>1, <2>1, <2>3, StoredType DEF RingTypes
  <2> QED
    BY <1>1, <1>4, <2>5, <2>6 DEF Read, RingTypes, n
<1>5. ASSUME Clear PROVE RingTypes'
  BY <1>1, <1>5 DEF Clear, RingTypes
<1>6. ASSUME StartReceive PROVE RingTypes'
  <2>1. CASE ~ dma.open
    BY <1>1, <1>6, <2>1 DEF StartReceive, RingTypes
  <2>2. CASE dma.open
    <3>1. Enable(Target) /\ InputStart /\ head' = head
      BY <1>6, <2>2 DEF StartReceive
    <3>2. ring' \in [Slots -> Byte] /\ tail' \in Slots
          /\ mem' \in [{"ex", "first", "second"} -> [Slots -> Byte]]
      BY <1>1, <3>1, TargetType, EnableType
    <3>3. used_ex' \in BOOLEAN /\ current' \in {0, 1}
      BY <1>1, <3>1 DEF InputStart, RingTypes
    <3> QED
      BY <1>1, <3>1, <3>2, <3>3 DEF RingTypes
  <2> QED
    BY <2>1, <2>2
<1>7. ASSUME PushByte PROVE RingTypes'
  <2> DEFINE q == IF space = 0 THEN <<>> ELSE <<arrived'>>
  <2>1. ring' = Stored(ring, tail, q) /\ tail' = (tail + Len(q)) % N
    BY <1>7 DEF PushByte
  <2>2. q \in Seq(Byte)
    BY <1>2, <1>7 DEF PushByte
  <2> HIDE DEF q
  <2>3. tail \in Int /\ tail + Len(q) \in Int
    BY <1>1, <2>2, Numbers DEF RingTypes
  <2>4. Stored(ring, tail, q) \in [Slots -> Byte]
    BY <1>1, <2>2, <2>3, StoredType DEF RingTypes
  <2>5. (tail + Len(q)) % N \in Slots
    BY <2>3, ModInSlots
  <2> QED
    BY <1>1, <1>7, <2>1, <2>4, <2>5 DEF PushByte, RingTypes
<1>8. ASSUME Land PROVE RingTypes'
  <2>1. <<arrived'>> \in Seq(Byte) /\ dma.from + dma.done \in Int /\ dma.done \in Int
    BY <1>1, <1>2, <1>8, Numbers DEF Land
  <2>2. Stored(ring, dma.from + dma.done, <<arrived'>>) \in [Slots -> Byte]
    BY <1>1, <2>1, StoredType DEF RingTypes
  <2>3. Stored(mem.ex, dma.done, <<arrived'>>) \in [Slots -> Byte]
    BY <1>1, <2>1, StoredType DEF RingTypes
  <2> QED
    BY <1>1, <1>8, <2>2, <2>3 DEF Land, RingTypes
<1>9. ASSUME LandInHalf PROVE RingTypes'
  <2>1. <<arrived'>> \in Seq(Byte) /\ dma.done \in Int /\ dma.to \in {"first", "second"}
    BY <1>1, <1>2, <1>9, Numbers DEF LandInHalf
  <2>2. Stored(mem[dma.to], dma.done, <<arrived'>>) \in [Slots -> Byte]
    BY <1>1, <2>1, StoredType DEF RingTypes
  <2> QED
    BY <1>1, <1>9, <2>2 DEF LandInHalf, RingTypes
<1>10. ASSUME SwitchHalf PROVE RingTypes'
  <2> DEFINE new == [mem EXCEPT ![dma.to] = Stored(mem[dma.to], dma.done, <<arrived'>>)]
  <2>1. <<arrived'>> \in Seq(Byte) /\ dma.done \in Int /\ dma.to \in {"first", "second"}
    BY <1>1, <1>2, <1>10, Numbers DEF SwitchHalf
  <2>2. Stored(mem[dma.to], dma.done, <<arrived'>>) \in [Slots -> Byte]
    BY <1>1, <2>1, StoredType DEF RingTypes
  <2>3. new \in [{"ex", "first", "second"} -> [Slots -> Byte]]
    BY <1>1, <2>2 DEF RingTypes
  <2>4. /\ WriteRing(new[CurrentHalf], Least(Half, space))
        /\ mem' = [new EXCEPT ![CurrentHalf] = Nothing]
        /\ current' = IF space < Half THEN current ELSE 1 - current
        /\ UNCHANGED <<head, used_ex>>
    BY <1>10 DEF SwitchHalf
  <2> HIDE DEF new
  <2>5. CurrentHalf \in {"ex", "first", "second"}
    BY DEF CurrentHalf
  <2>6. new[CurrentHalf] \in [Slots -> Byte]
    BY <2>3, <2>5
  <2>7. Least(Half, space) \in 0 .. N
    BY <1>1, FitIs, Numbers
  <2>8. ring' \in [Slots -> Byte] /\ tail' \in Slots
    BY <1>1, <2>4, <2>6, <2>7, WriteRingType
  <2>9. mem' \in [{"ex", "first", "second"} -> [Slots -> Byte]]
    BY <1>1, <2>3, <2>4
  <2>10. current' \in {0, 1}
    BY <1>1, <2>4 DEF RingTypes
  <2> QED
    BY <1>1, <2>4, <2>8, <2>9, <2>10 DEF RingTypes
<1>11. ASSUME Complete PROVE RingTypes'
  <2>1. CASE dma.open /\ mode = "single"
    <3> DEFINE n == Least(dma.done, space)
    <3>1. n \in 0 .. N
      BY <1>1, FitIs
    <3>6. tail \in Int /\ tail + dma.done \in Int
      <4>1. tail \in Slots /\ dma.done \in Slots
        BY <1>1 DEF RingTypes
      <4>2. tail \in Nat /\ dma.done \in Nat
        BY <4>1, Numbers
      <4> QED
        BY <4>2
    <3> HIDE DEF n
    <3>2. FirstOf(mem.ex, n) \in Seq(Byte)
      BY <1>1, <3>1, FirstOfType DEF RingTypes
    <3>3. Stored(ring, tail, FirstOf(mem.ex, n)) \in [Slots -> Byte]
      BY <1>1, <3>6, <3>2, StoredType DEF RingTypes
    <3>4. (tail + dma.done) % N \in Slots
      BY <3>6, ModInSlots
    <3>5. /\ ring' = IF used_ex THEN Stored(ring, tail, FirstOf(mem.ex, n)) ELSE ring
          /\ tail' = (tail + dma.done) % N /\ used_ex' = FALSE
          /\ mem' = [m \in DOMAIN mem |-> Nothing] /\ UNCHANGED <<head, current>>
      BY <1>11, <2>1 DEF Complete, CompleteSingle, n
    <3> QED
      BY <1>1, <3>3, <3>4, <3>5 DEF RingTypes
  <2>2. CASE dma.open /\ mode \notin {"single", "bytes"}
    <3>1. /\ WriteRing(mem[CurrentHalf], Least(dma.done, space)) /\ used_ex' = used_ex
          /\ mem' = [m \in DOMAIN mem |-> Nothing] /\ UNCHANGED <<head, current>>
      BY <1>11, <2>2 DEF Complete, CompleteDouble
    <3>2. CurrentHalf \in {"ex", "first", "second"}
      BY DEF CurrentHalf
    <3>3. mem[CurrentHalf] \in [Slots -> Byte]
      BY <1>1, <3>2 DEF RingTypes
    <3>4. Least(dma.done, space) \in 0 .. N
      BY <1>1, FitIs
    <3>5. ring' \in [Slots -> Byte] /\ tail' \in Slots
      BY <1>1, <3>1, <3>3, <3>4, WriteRingType
    <3> QED
      BY <1>1, <3>1, <3>5 DEF RingTypes
  <2>3. CASE ~ (dma.open /\ mode # "bytes")
    BY <1>1, <1>11, <2>3 DEF Complete, RingTypes
  <2> QED
    BY <2>1, <2>2, <2>3
<1>12. ASSUME NextTarget PROVE RingTypes'
  BY <1>1, <1>12 DEF NextTarget, InputStart, RingTypes
<1>13. ASSUME Restart PROVE RingTypes'
  <2>1. Enable(handler) /\ UNCHANGED <<head, used_ex, current>>
    BY <1>13 DEF Restart
  <2>2. ring' \in [Slots -> Byte] /\ tail' \in Slots
        /\ mem' \in [{"ex", "first", "second"} -> [Slots -> Byte]]
    BY <1>1, <2>1, EnableType
  <2> QED
    BY <1>1, <2>1, <2>2 DEF RingTypes
<1>14. \/ UNCHANGED ring_vars \/ (\E r \in Readers : Read(r))
       \/ Clear \/ StartReceive \/ PushByte \/ Land \/ LandInHalf \/ SwitchHalf
       \/ Complete \/ NextTarget \/ Restart
  <2>1. CASE UNCHANGED vars
    BY <2>1 DEF vars, ring_vars
  <2>2. CASE \E r \in Readers : CallRead(r) \/ Continue(r) \/ Expire(r)
    BY <2>2 DEF CallRead, Continue, Expire, Loop, Wait, Check, ClearFlag, ring_vars
  <2>3. CASE Closing \/ Opening
    BY <2>3 DEF Closing, Opening, Deinit, Close, SetClose, Open, PostEnable, ring_vars
  <2>4. CASE Arrives \/ Idle
    BY <2>4 DEF Arrives, Idle, Hold, Lose, ring_vars
  <2> QED
    BY <2>1, <2>2, <2>3, <2>4 DEF Next, Receiving
<1> QED
  BY <1>3, <1>4, <1>5, <1>6, <1>7, <1>8, <1>9, <1>10, <1>11, <1>12, <1>13, <1>14

LEMMA DeviceStaysTyped ==
  ASSUME TypeInv, [Next]_vars
  PROVE  DeviceTypes'
<1>1. DeviceTypes /\ RingTypes
  BY DEF TypeInv
<1>2. ASSUME UNCHANGED <<opened, flags, starts, refused, pc, todo, calls>> PROVE DeviceTypes'
  BY <1>1, <1>2 DEF DeviceTypes
<1>3. ASSUME NEW r \in Readers, CallRead(r) PROVE DeviceTypes'
  <2>1. PICK n \in Sizes : todo' = [todo EXCEPT ![r] = n]
    BY <1>3 DEF CallRead
  <2>2. n \in Nat
    BY InputAssumption
  <2> QED
    BY <1>1, <1>3, <2>1, <2>2 DEF CallRead, Goes, DeviceTypes
<1>4. ASSUME NEW r \in Readers, NEW from, NEW to \in {"idle", "wait", "suspended", "read"},
             Waits(r, from, to), UNCHANGED <<opened, flags, starts, refused, calls>>
      PROVE  DeviceTypes'
  BY <1>1, <1>4 DEF Waits, Goes, DeviceTypes
<1>5. ASSUME NEW r \in Readers, Loop(r) \/ Wait(r) \/ Expire(r) PROVE DeviceTypes'
  BY <1>4, <1>5 DEF Loop, Wait, Expire, line_vars
<1>6. ASSUME NEW r \in Readers, Read(r) PROVE DeviceTypes'
  <2> DEFINE n == Least(todo[r], available)
  <2>1. todo[r] \in Nat /\ available \in Nat
    <3>1. available \in Slots
      BY <1>1, Amounts
    <3> QED
      BY <1>1, <3>1, Numbers DEF DeviceTypes
  <2>2. n \in Nat /\ n <= todo[r]
    BY <2>1, LeastIs
  <2>3. todo' = [todo EXCEPT ![r] = todo[r] - n] /\ pc' = [pc EXCEPT ![r] = "check"]
        /\ UNCHANGED <<opened, flags, starts, refused, calls>>
    BY <1>6 DEF Read, Goes
  <2> HIDE DEF n
  <2>4. todo[r] - n \in Nat
    BY <2>1, <2>2
  <2> QED
    BY <1>1, <2>3, <2>4 DEF DeviceTypes
<1>7. ASSUME NEW r \in Readers, Check(r) \/ ClearFlag(r) PROVE DeviceTypes'
  BY <1>1, <1>7 DEF Check, ClearFlag, Goes, DeviceTypes
<1>8. ASSUME Clear \/ Deinit PROVE DeviceTypes'
  <2>1. UNCHANGED <<opened, flags, starts, refused, pc, todo>> /\ calls < MaxCalls /\ calls' = calls + 1
    BY <1>8 DEF Clear, Deinit, read_vars
  <2>2. calls' \in 0 .. MaxCalls
    BY <1>1, <2>1, Numbers DEF DeviceTypes
  <2> QED
    BY <1>1, <2>1, <2>2 DEF DeviceTypes
<1>9. ASSUME SetClose PROVE DeviceTypes'
  BY <1>1, <1>9 DEF SetClose, DeviceTypes
<1>10. ASSUME Close \/ Open \/ PostEnable \/ StartReceive PROVE DeviceTypes'
  <2>1. UNCHANGED <<pc, todo, calls>>
    BY <1>10 DEF Close, Open, PostEnable, StartReceive, read_vars
  <2>2. opened' \in BOOLEAN
    BY <1>1, <1>10 DEF Close, Open, PostEnable, StartReceive, DeviceTypes
  <2>3. flags' \subseteq {"Receive_Finish", "Close"}
    BY <1>1, <1>10 DEF Close, Open, PostEnable, StartReceive, DeviceTypes
  <2>5. starts' = starts \/ starts' = starts + 1 \/ (starts > 0 /\ starts' = starts - 1)
    BY <1>10 DEF Close, Open, PostEnable, StartReceive, Posts
  <2>7. refused' \in BOOLEAN
    BY <1>1, <1>10 DEF Close, Open, PostEnable, StartReceive, Posts, DeviceTypes
  <2>6. starts \in Nat
    BY <1>1 DEF DeviceTypes
  <2>4. starts' \in Nat
    BY <2>5, <2>6
  <2> QED
    BY <1>1, <2>1, <2>2, <2>3, <2>4, <2>7 DEF DeviceTypes
<1>11. ASSUME Wakes, UNCHANGED <<opened, starts, refused, todo, calls>> PROVE DeviceTypes'
  BY <1>1, <1>11 DEF Wakes, DeviceTypes
<1>12. ASSUME SwitchHalf \/ Complete PROVE DeviceTypes'
  BY <1>2, <1>11, <1>12 DEF SwitchHalf, Complete
<1>13. ASSUME Hold \/ Lose \/ PushByte \/ Land \/ LandInHalf \/ Idle \/ NextTarget \/ Restart
       PROVE  DeviceTypes'
  BY <1>2, <1>13 DEF Hold, Lose, PushByte, Land, LandInHalf, Idle, NextTarget, Restart, read_vars
<1>14. ASSUME UNCHANGED vars PROVE DeviceTypes'
  BY <1>2, <1>14 DEF vars, read_vars
<1> QED
  BY <1>3, <1>5, <1>6, <1>7, <1>8, <1>9, <1>10, <1>12, <1>13, <1>14
     DEF Next, Continue, Closing, Opening, Receiving, Arrives

LEMMA HistoryStaysTyped ==
  ASSUME TypeInv, [Next]_vars
  PROVE  HistoryTypes'
<1>1. HistoryTypes /\ RingTypes
  BY DEF TypeInv
<1>2. ASSUME UNCHANGED <<last, misread, damaged, dropped>> PROVE HistoryTypes'
  BY <1>1, <1>2 DEF HistoryTypes
<1>3. ASSUME NEW r \in Readers, Read(r) PROVE HistoryTypes'
  <2> DEFINE n == Least(todo[r], available)
             got == [i \in 1 .. n |-> ring[(head + i - 1) % N]]
             worse == \E i \in 1 .. n : got[i] <= (IF i = 1 THEN last ELSE got[i - 1])
  <2>1. last' = (IF n = 0 THEN last ELSE got[n]) /\ misread' = (misread \/ worse)
        /\ damaged' = damaged /\ dropped' = dropped
    BY <1>3 DEF Read, line_vars
  <2>2. worse \in BOOLEAN
    OBVIOUS
  <2>3. n \in Nat /\ n + (head - 1) \in Int /\ head + n - 1 = n + (head - 1)
    <3>1. available \in Nat /\ head \in Nat /\ todo[r] \in Nat
      <4>1. available \in Slots /\ head \in Slots
        BY <1>1, Amounts DEF RingTypes
      <4>2. todo[r] \in Nat
        BY DEF TypeInv, DeviceTypes
      <4> QED
        BY <4>1, <4>2, Numbers
    <3>2. n \in Nat
      BY <3>1, LeastIs
    <3> HIDE DEF n
    <3> QED
      BY <3>1, <3>2
  <2> HIDE DEF n, worse
  <2>4. (head + n - 1) % N \in Slots
    BY <2>3, ModInSlots
  <2>5. n # 0 => got[n] = ring[(head + n - 1) % N]
    BY <2>3
  <2>6. n # 0 => got[n] \in Byte
    BY <1>1, <2>4, <2>5 DEF RingTypes
  <2>7. last' \in Byte
    BY <1>1, <2>1, <2>6 DEF HistoryTypes
  <2>8. misread' \in BOOLEAN
    BY <1>1, <2>1, <2>2 DEF HistoryTypes
  <2> QED
    BY <1>1, <2>1, <2>7, <2>8 DEF HistoryTypes
<1>4. ASSUME Clear \/ PostEnable \/ StartReceive \/ SwitchHalf PROVE HistoryTypes'
  <2>1. UNCHANGED <<last, misread, dropped>>
    BY <1>4 DEF Clear, PostEnable, StartReceive, SwitchHalf, read_vars, line_vars
  <2>2. damaged' \in BOOLEAN
    BY <1>1, <1>4 DEF HistoryTypes, Clear, PostEnable, StartReceive, SwitchHalf
  <2> QED
    BY <1>1, <2>1, <2>2 DEF HistoryTypes
<1>5. ASSUME Sends \/ UNCHANGED <<messages, dropped>>, UNCHANGED <<last, misread, damaged>>
      PROVE  HistoryTypes'
  BY <1>1, <1>5 DEF Sends, HistoryTypes
<1>6. ASSUME Land \/ Idle PROVE HistoryTypes'
  BY <1>5, <1>6 DEF Land, Idle, read_vars
<1>7. ASSUME UNCHANGED vars PROVE HistoryTypes'
  BY <1>2, <1>7 DEF vars, read_vars, line_vars
<1>8. ASSUME \E r \in Readers : CallRead(r) \/ Loop(r) \/ Wait(r) \/ Check(r) \/ ClearFlag(r) \/ Expire(r)
      PROVE  HistoryTypes'
  BY <1>2, <1>8 DEF CallRead, Loop, Wait, Check, ClearFlag, Expire, line_vars
<1>9. ASSUME Closing \/ Open PROVE HistoryTypes'
  BY <1>2, <1>9 DEF Closing, Deinit, Close, SetClose, Open, read_vars, line_vars
<1>10. ASSUME Hold \/ Lose \/ PushByte \/ LandInHalf \/ Receiving PROVE HistoryTypes'
  BY <1>2, <1>10 DEF Hold, Lose, PushByte, LandInHalf, Receiving, Complete, NextTarget, Restart,
                     read_vars
<1> QED
  BY <1>3, <1>4, <1>6, <1>7, <1>8, <1>9, <1>10 DEF Next, Continue, Opening, Arrives

\* What Enable makes of the stream and the receive register.
Started(t) ==
  /\ dma'.open /\ dma'.on /\ dma'.to = t.to /\ dma'.from = t.from
  /\ dma'.size = SizeOf
  /\ dma'.done = (IF mode = "bytes" \/ rdr = 0 THEN 0 ELSE 1)
  /\ rdr' = 0

LEMMA EnableStarts ==
  ASSUME TypeInv, NEW t, Enable(t), mode' = mode, t.to \in Memories, t.from \in Slots
  PROVE  Started(t) /\ rdr' \in Byte
         /\ dma' \in [open : BOOLEAN, on : BOOLEAN, to : Memories, from : Slots, size : Slots,
                      done : Slots]
<1> DEFINE held == IF rdr = 0 THEN <<>> ELSE <<rdr>>
<1>1. mode \in {"bytes", "single", "double"}
  BY InputAssumption DEF TypeInv, LineTypes
<1>2. Len(held) = IF rdr = 0 THEN 0 ELSE 1
  OBVIOUS
<1> HIDE DEF held
<1>3. dma' = [open |-> TRUE, on |-> TRUE, to |-> t.to, from |-> t.from,
              size |-> CASE mode = "bytes" -> 0 [] mode = "single" -> N - 1
                         [] mode = "double" -> Half,
              done |-> IF mode = "bytes" THEN 0 ELSE Len(held)]
      /\ rdr' = 0
  BY DEF Enable, held
<1>4. dma' = [open |-> TRUE, on |-> TRUE, to |-> t.to, from |-> t.from, size |-> SizeOf,
              done |-> IF mode = "bytes" \/ rdr = 0 THEN 0 ELSE 1]
  BY <1>1, <1>2, <1>3 DEF SizeOf
<1>5. SizeOf \in Slots /\ 0 \in Slots /\ 1 \in Slots /\ 0 \in Byte
  BY <1>1, Numbers DEF SizeOf, Slots, Byte
<1>6. dma' \in [open : BOOLEAN, on : BOOLEAN, to : Memories, from : Slots, size : Slots,
               done : Slots]
  BY <1>4, <1>5
<1>7. Started(t)
  <2> DEFINE n == IF mode = "bytes" \/ rdr = 0 THEN 0 ELSE 1
  <2>1. dma' = [open |-> TRUE, on |-> TRUE, to |-> t.to, from |-> t.from, size |-> SizeOf, done |-> n]
    BY <1>4
  <2> HIDE DEF n
  <2>2. /\ dma'.open /\ dma'.on /\ dma'.to = t.to /\ dma'.from = t.from /\ dma'.size = SizeOf
        /\ dma'.done = n
    BY <2>1
  <2> QED
    BY <1>3, <2>2 DEF Started, n
<1> QED
  BY <1>3, <1>5, <1>6, <1>7

LEMMA SizeIs ==
  ASSUME TypeInv
  PROVE  /\ mode \in {"bytes", "single", "double"}
         /\ SizeOf \in Slots
         /\ mode # "bytes" => SizeOf > 1
<1>1. mode \in {"bytes", "single", "double"}
  BY InputAssumption DEF TypeInv, LineTypes
<1> QED
  BY <1>1, Numbers DEF SizeOf

LEMMA StartedIsPlaced ==
  ASSUME TypeInv, NEW t, Started(t), mode' = mode, t.to \in Receivers,
         handler'.at = "enable" => handler'.to \in Receivers \ {"second"},
         mode = "bytes" => handler'.at = "wait"
  PROVE  PlaceInv'
<1>1. mode \in {"bytes", "single", "double"} /\ SizeOf \in Slots /\ (mode # "bytes" => SizeOf > 1)
  BY SizeIs
<1>2. Receivers' = Receivers /\ SizeOf' = SizeOf
  BY DEF Receivers, SizeOf
<1>3. dma'.to = "none" => mode = "bytes"
  BY <1>1 DEF Started, Receivers
<1>4. mode = "bytes" => dma'.to = "none"
  BY DEF Started, Receivers
<1>5. SizeOf \in Nat
  BY <1>1, Numbers
<1>6. dma'.to # "none" => dma'.size = SizeOf /\ dma'.done <= SizeOf /\ dma'.done < SizeOf
  BY <1>1, <1>4, <1>5 DEF Started
<1>7. dma'.to = "none" => dma'.done = 0
  BY <1>3 DEF Started
<1>8. dma'.to \in Receivers
  BY DEF Started
<1> QED
  BY <1>2, <1>6, <1>7, <1>8 DEF PlaceInv

LEMMA LineStaysTyped ==
  ASSUME TypeInv, [Next]_vars
  PROVE  LineTypes'
<1>1. /\ LineTypes /\ PlaceInv /\ RingTypes
      /\ dma \in [open : BOOLEAN, on : BOOLEAN, to : Memories, from : Slots, size : Slots,
                  done : Slots]
      /\ handler \in [at : {"wait", "start", "enable"}, to : Memories, from : Slots]
  BY DEF TypeInv, LineTypes
<1>2. Receivers' = Receivers /\ SizeOf' = SizeOf /\ mode' = mode
  <2>1. mode' = mode
    BY DEF Next, Continue, Receiving, Arrives, Closing, Opening, vars, CallRead, Loop, Wait, Expire,
           Read, Check, ClearFlag, Clear, Deinit, Close, SetClose, Open, PostEnable, StartReceive,
           Hold, Lose, PushByte, Land, LandInHalf, SwitchHalf, Idle, Complete, NextTarget, Restart
  <2> QED
    BY <2>1 DEF Receivers, SizeOf
<1>3. ASSUME UNCHANGED <<dma, handler>> PROVE PlaceInv'
  BY <1>1, <1>2, <1>3 DEF PlaceInv
<1>4. ASSUME UNCHANGED line_vars PROVE LineTypes'
  BY <1>1, <1>2, <1>3, <1>4 DEF LineTypes, line_vars
<1>5. ASSUME NextByte PROVE arrived' \in Byte /\ idle' \in BOOLEAN
  <2>1. arrived < MaxBytes /\ arrived' = arrived + 1 /\ idle' = FALSE
    BY <1>5 DEF NextByte
  <2>2. arrived \in 0 .. MaxBytes
    BY <1>1 DEF LineTypes, Byte
  <2>3. arrived' \in 0 .. MaxBytes
    BY <2>1, <2>2, Numbers
  <2> QED
    BY <2>1, <2>3 DEF Byte
<1>6. ASSUME Sends \/ UNCHANGED <<messages, dropped>> PROVE messages' \in 0 .. QueueSize
  BY <1>1, <1>6, Numbers DEF Sends, LineTypes
<1>7. ASSUME Deinit \/ Open PROVE LineTypes'
  <2>1. PICK open \in BOOLEAN : dma' = Stopped(open)
    BY <1>7 DEF Deinit, Open
  <2>2. dma' \in [open : BOOLEAN, on : BOOLEAN, to : Memories, from : Slots, size : Slots,
                  done : Slots]
    BY <2>1, Numbers DEF Stopped, Memories
  <2>3. PlaceInv'
    BY <1>1, <1>2, <1>7, <2>1 DEF PlaceInv, Stopped, Deinit, Open
  <2>5. 0 \in Byte
    BY Numbers DEF Byte
  <2>4. rdr' \in Byte /\ idle' \in BOOLEAN /\ UNCHANGED <<arrived, messages, handler>>
    BY <1>1, <1>7, <2>5 DEF Deinit, Open, LineTypes
  <2> QED
    BY <1>1, <1>2, <2>2, <2>3, <2>4 DEF LineTypes
<1>8. ASSUME StartReceive PROVE LineTypes'
  <2>1. UNCHANGED <<arrived, idle, messages, handler>>
    BY <1>8 DEF StartReceive
  <2>2. CASE ~ dma.open
    BY <1>4, <1>8, <2>2 DEF StartReceive, line_vars
  <2>3. CASE dma.open
    <3>1. Enable(Target) /\ Target.to \in Memories /\ Target.to \in Receivers /\ Target.from \in Slots
      BY <1>8, <2>3, TargetType DEF StartReceive
    <3>2. Started(Target) /\ rdr' \in Byte
          /\ dma' \in [open : BOOLEAN, on : BOOLEAN, to : Memories, from : Slots, size : Slots,
                       done : Slots]
      BY <1>2, <3>1, EnableStarts
    <3>3. PlaceInv'
      BY <1>1, <1>2, <2>1, <3>1, <3>2, StartedIsPlaced DEF PlaceInv
    <3> QED
      BY <1>1, <1>2, <2>1, <3>2, <3>3 DEF LineTypes
  <2> QED
    BY <2>2, <2>3
<1>9. ASSUME Hold PROVE LineTypes'
  <2>1. arrived' \in Byte /\ idle' \in BOOLEAN /\ rdr' = arrived' /\ UNCHANGED <<dma, messages, handler>>
    BY <1>5, <1>9 DEF Hold
  <2> QED
    BY <1>1, <1>2, <1>3, <2>1 DEF LineTypes
<1>10. ASSUME Lose PROVE LineTypes'
  BY <1>1, <1>2, <1>3, <1>10 DEF Lose, LineTypes
<1>11. ASSUME PushByte PROVE LineTypes'
  <2>1. arrived' \in Byte /\ idle' \in BOOLEAN /\ UNCHANGED <<rdr, dma, messages, handler>>
    BY <1>5, <1>11 DEF PushByte
  <2> QED
    BY <1>1, <1>2, <1>3, <2>1 DEF LineTypes
<1>12. ASSUME Land \/ LandInHalf PROVE LineTypes'
  <2>1. dma.on /\ dma.to \in {"ring", "ex", "first", "second"}
    BY <1>12 DEF Land, LandInHalf
  <2>2. dma.size = SizeOf /\ dma.done < SizeOf /\ SizeOf \in Slots /\ dma.done \in Slots
    BY <1>1, <2>1, SizeIs DEF PlaceInv
  <2>3. dma.done + 1 \in Slots /\ dma.done + 1 <= SizeOf
    BY <2>2, Numbers DEF Slots
  <2>4. /\ dma' \in [open : BOOLEAN, on : BOOLEAN, to : Memories, from : Slots, size : Slots,
                     done : Slots]
        /\ dma'.to = dma.to /\ dma'.size = dma.size /\ dma'.done = dma.done + 1
        /\ dma'.on => dma.done + 1 < dma.size
    <3> DEFINE more == dma.done + 1 < dma.size
    <3>1. more \in BOOLEAN
      OBVIOUS
    <3>2. dma' = [dma EXCEPT !.done = dma.done + 1, !.on = more] \/ (more /\ dma' = [dma EXCEPT !.done = dma.done + 1])
      BY <1>12 DEF Land, LandInHalf
    <3>3. more => dma.done + 1 < dma.size
      OBVIOUS
    <3> HIDE DEF more
    <3>4. CASE dma' = [dma EXCEPT !.done = dma.done + 1, !.on = more]
      BY <1>1, <2>3, <3>1, <3>3, <3>4
    <3>5. CASE more /\ dma' = [dma EXCEPT !.done = dma.done + 1]
      BY <1>1, <2>3, <3>3, <3>5
    <3> QED
      BY <3>2, <3>4, <3>5
  <2>5. UNCHANGED <<handler, rdr>> /\ arrived' \in Byte /\ idle' \in BOOLEAN
    BY <1>5, <1>12 DEF Land, LandInHalf
  <2>6. PlaceInv'
    BY <1>1, <1>2, <2>1, <2>2, <2>3, <2>4, <2>5 DEF PlaceInv
  <2>7. messages' \in 0 .. QueueSize
    BY <1>6, <1>12 DEF Land, LandInHalf
  <2> QED
    BY <1>1, <1>2, <2>4, <2>5, <2>6, <2>7 DEF LineTypes
<1>13. ASSUME SwitchHalf PROVE LineTypes'
  <2>1. /\ dma.to \in {"first", "second"}
        /\ dma' = [dma EXCEPT !.done = 0, !.to = IF dma.to = "first" THEN "second" ELSE "first"]
        /\ UNCHANGED <<rdr, messages, handler>>
    BY <1>13 DEF SwitchHalf
  <2>2. arrived' \in Byte /\ idle' \in BOOLEAN
    BY <1>5, <1>13 DEF SwitchHalf
  <2>3. dma' \in [open : BOOLEAN, on : BOOLEAN, to : Memories, from : Slots, size : Slots,
                  done : Slots]
    BY <1>1, <2>1, Numbers DEF Memories
  <2>4. mode = "double" /\ Receivers = {"first", "second"} /\ SizeOf = Half
    BY <1>1, <2>1, SizeIs DEF PlaceInv, Receivers, SizeOf
  <2>5. dma'.to \in {"first", "second"} /\ dma'.size = dma.size /\ dma'.done = 0
    BY <1>1, <2>1
  <2>6. PlaceInv'
    BY <1>1, <1>2, <2>1, <2>4, <2>5, Numbers DEF PlaceInv
  <2> QED
    BY <1>1, <1>2, <2>1, <2>2, <2>3, <2>6 DEF LineTypes
<1>14. ASSUME Idle PROVE LineTypes'
  <2>1. \/ dma' = dma
        \/ dma' = [dma EXCEPT !.on = (mode = "bytes")]
    BY <1>14 DEF Idle
  <2>2. UNCHANGED <<arrived, rdr, handler>> /\ idle' = TRUE /\ messages' \in 0 .. QueueSize
    BY <1>6, <1>14 DEF Idle
  <2>3. dma' \in [open : BOOLEAN, on : BOOLEAN, to : Memories, from : Slots, size : Slots,
                  done : Slots]
    BY <1>1, <2>1
  <2>4. dma'.to = dma.to /\ dma'.size = dma.size /\ dma'.done = dma.done
        /\ (dma'.on => dma.on \/ mode = "bytes")
    BY <1>1, <2>1
  <2>5. mode = "bytes" => dma.to = "none"
    BY <1>1 DEF PlaceInv, Receivers
  <2>6. PlaceInv'
    BY <1>1, <1>2, <2>2, <2>4, <2>5 DEF PlaceInv
  <2> QED
    BY <1>1, <1>2, <2>2, <2>3, <2>6 DEF LineTypes
<1>15. ASSUME Complete PROVE LineTypes'
  <2>1. /\ UNCHANGED <<arrived, idle, rdr, dma>>
        /\ messages > 0 /\ messages' = messages - 1
        /\ handler' = handler \/ (mode # "bytes" /\ handler' = [handler EXCEPT !.at = "start"])
    BY <1>15 DEF Complete
  <2>2. messages' \in 0 .. QueueSize
    BY <1>1, <2>1, Numbers DEF LineTypes
  <2>3. handler' \in [at : {"wait", "start", "enable"}, to : Memories, from : Slots]
    BY <1>1, <2>1
  <2>4. handler' = handler \/ (mode # "bytes" /\ handler'.at = "start")
    BY <1>1, <2>1
  <2>5. PlaceInv'
    BY <1>1, <1>2, <2>1, <2>4 DEF PlaceInv
  <2> QED
    BY <1>1, <1>2, <2>1, <2>2, <2>3, <2>5 DEF LineTypes
<1>16. ASSUME NextTarget PROVE LineTypes'
  <2>1. /\ UNCHANGED <<arrived, idle, rdr, dma, messages>> /\ handler.at = "start"
        /\ handler' = [at |-> "enable", to |-> Target.to, from |-> Target.from]
    BY <1>16 DEF NextTarget
  <2>2. Target.to \in Receivers \ {"second"} /\ Target.to \in Memories /\ Target.from \in Slots
    BY TargetType
  <2>3. mode # "bytes"
    BY <1>1, <2>1 DEF PlaceInv
  <2>4. PlaceInv'
    BY <1>1, <1>2, <2>1, <2>2, <2>3 DEF PlaceInv
  <2> QED
    BY <1>1, <1>2, <2>1, <2>2, <2>4 DEF LineTypes
<1>17. ASSUME Restart PROVE LineTypes'
  <2>1. /\ UNCHANGED <<arrived, idle, messages>> /\ handler.at = "enable"
        /\ handler' = [at |-> "wait", to |-> "none", from |-> 0] /\ Enable(handler)
    BY <1>17 DEF Restart
  <2>2. handler.to \in Memories /\ handler.from \in Slots /\ handler.to \in Receivers
    BY <1>1, <2>1 DEF PlaceInv
  <2>3. Started(handler) /\ rdr' \in Byte
        /\ dma' \in [open : BOOLEAN, on : BOOLEAN, to : Memories, from : Slots, size : Slots,
                     done : Slots]
    BY <1>2, <2>1, <2>2, EnableStarts
  <2>4. handler'.at = "wait"
    BY <2>1
  <2>5. PlaceInv'
    BY <1>2, <2>2, <2>3, <2>4, StartedIsPlaced
  <2>6. handler' \in [at : {"wait", "start", "enable"}, to : Memories, from : Slots]
    BY <2>1, Numbers DEF Memories
  <2> QED
    BY <1>1, <1>2, <2>1, <2>3, <2>5, <2>6 DEF LineTypes
<1>18. ASSUME UNCHANGED vars PROVE LineTypes'
  BY <1>4, <1>18 DEF vars
<1>19. ASSUME \E r \in Readers : CallRead(r) \/ Continue(r) \/ Expire(r) PROVE LineTypes'
  BY <1>4, <1>19 DEF CallRead, Continue, Expire, Loop, Wait, Read, Check, ClearFlag
<1>20. ASSUME Clear \/ Close \/ SetClose \/ PostEnable PROVE LineTypes'
  BY <1>4, <1>20 DEF Clear, Close, SetClose, PostEnable
<1> QED
  BY <1>7, <1>8, <1>9, <1>10, <1>11, <1>12, <1>13, <1>14, <1>15, <1>16, <1>17, <1>18, <1>19, <1>20
     DEF Next, Closing, Opening, Receiving, Arrives

LEMMA TypesStay == TypeInv /\ [Next]_vars => TypeInv'
BY RingStaysTyped, DeviceStaysTyped, HistoryStaysTyped, LineStaysTyped DEF TypeInv

\* The variables keep their types: no index leaves the ring, no reception its
\* memory, whatever the sizes, the readers and the damage.
THEOREM TypeCorrect == Spec => []TypeOK
<1>1. Init => TypeInv
  BY TypesAtFirst
<1>2. TypeInv /\ [Next]_vars => TypeInv'
  BY TypesStay
<1>3. TypeInv => TypeOK
  BY TypeInvIsEnough
<1> QED
  BY <1>1, <1>2, <1>3, PTL DEF Spec

-------------------------------------------------------------------------------
(* Where receptions are placed *)

\* A reception into the ring starts at the head, in an empty ring, and is not
\* counted before it is complete.
RingPlaced ==
  dma.to = "ring" =>
    /\ head = dma.from /\ dma.from <= 1 /\ available <= dma.done
    /\ OthersRun => empty /\ ~ used_ex

\* m_is_used_ex_buffer tells where the reception is, or is going to be.
ExPlaced ==
  /\ handler.at = "start" /\ mode = "single" => ~ used_ex
  /\ handler.at = "enable" /\ handler.to = "ring" =>
       empty /\ handler.from = tail /\ tail <= 1 /\ ~ used_ex
  /\ handler.at = "enable" /\ handler.to = "ex" => used_ex
  /\ OthersRun /\ dma.to = "ex" => used_ex

\* The stream fills the half that m_current_buffer names.
HalfPlaced ==
  mode = "double" =>
    /\ OthersRun /\ dma.to # "none" => dma.to = CurrentHalf
    /\ handler.at = "enable" => current = 0

Placed == RingPlaced /\ ExPlaced /\ HalfPlaced
PlacedInv == TypeInv /\ (~ damaged => Placed)

LEMMA DamageStays ==
  ASSUME [Next]_vars, ~ damaged'
  PROVE  ~ damaged
BY DEF Next, Continue, Receiving, Arrives, Closing, Opening, vars, CallRead, Loop, Wait, Expire,
       Read, Check, ClearFlag, Clear, Deinit, Close, SetClose, Open, PostEnable, StartReceive,
       Hold, Lose, PushByte, Land, LandInHalf, SwitchHalf, Idle, Complete, NextTarget, Restart

LEMMA ModeStays ==
  ASSUME [Next]_vars
  PROVE  mode' = mode
BY DEF Next, Continue, Receiving, Arrives, Closing, Opening, vars, CallRead, Loop, Wait, Expire,
       Read, Check, ClearFlag, Clear, Deinit, Close, SetClose, Open, PostEnable, StartReceive,
       Hold, Lose, PushByte, Land, LandInHalf, SwitchHalf, Idle, Complete, NextTarget, Restart

\* What a memory of the mode says about the mode.
LEMMA PlacesOfModes ==
  ASSUME TypeInv
  PROVE  /\ dma.to = "ring" => mode = "single" /\ dma.size = N - 1 /\ dma.done \in Slots
         /\ dma.to = "ex" => mode = "single" /\ dma.size = N - 1
         /\ dma.to \in {"first", "second"} => mode = "double" /\ dma.size = Half
         /\ dma.on /\ dma.to # "none" => dma.done < dma.size
         /\ dma.to = "none" => dma.done = 0
         /\ handler.at = "enable" /\ handler.to \in {"ring", "ex"} => mode = "single"
         /\ handler.at = "enable" /\ mode = "double" => handler.to = "first"
         /\ dma.to \in {"none", "ring", "ex", "first", "second"}
<1>1. PlaceInv /\ dma.done \in Slots /\ dma.to \in {"none", "ring", "ex", "first", "second"}
  BY DEF TypeInv, LineTypes, Memories
<1>2. mode \in {"bytes", "single", "double"}
  BY SizeIs
<1>3. CASE mode = "bytes"
  BY <1>1, <1>3 DEF PlaceInv, Receivers, SizeOf
<1>4. CASE mode = "single"
  BY <1>1, <1>4 DEF PlaceInv, Receivers, SizeOf
<1>5. CASE mode = "double"
  BY <1>1, <1>5 DEF PlaceInv, Receivers, SizeOf
<1> QED
  BY <1>2, <1>3, <1>4, <1>5

LEMMA ReadOfEmpty ==
  ASSUME TypeInv, NEW r \in Readers, Read(r), empty
  PROVE  head' = head /\ tail' = tail /\ ring' = ring /\ last' = last
<1>1. available = 0 /\ head \in Slots /\ ring \in [Slots -> Byte]
  BY Amounts DEF TypeInv, RingTypes
<1>2. todo[r] \in Nat
  BY DEF TypeInv, DeviceTypes
<1>3. Least(todo[r], available) = 0
  BY <1>1, <1>2 DEF Least
<1>4. head' = After(head, 0) /\ tail' = tail /\ last' = last
      /\ ring' = Stored(ring, head, [i \in 1 .. 0 |-> 0])
  BY <1>3 DEF Read, After
<1>5. head' = head
  BY <1>1, <1>4, SlotsAgree
<1>6. Stored(ring, head, [i \in 1 .. 0 |-> 0]) = ring
  <2> DEFINE q == [i \in 1 .. 0 |-> 0]
  <2>1. Len(q) = 0
    OBVIOUS
  <2> HIDE DEF q
  <2>2. \A k \in Slots : Ahead(head, k) \in Slots
    BY <1>1, SlotsAgree
  <2>3. \A k \in Slots : Ahead(head, k) \in Nat
    BY <2>2, Numbers
  <2>4. \A k \in Slots : ~ (Ahead(head, k) < Len(q))
    BY <2>1, <2>3
  <2>5. Stored(ring, head, q) = ring
    BY <1>1, <2>4, StoredIs
  <2> QED
    BY <2>5 DEF q
<1> QED
  BY <1>4, <1>5, <1>6

\* n more bytes at the tail, for which there is room.
LEMMA TailAdvances ==
  ASSUME RingTypes, NEW n \in Slots, n <= space, tail' = (tail + n) % N, head' = head
  PROVE  available' = available + n /\ available + n \in Slots
<1>1. /\ head \in Slots /\ available \in Slots /\ tail = After(head, available)
      /\ space \in Slots /\ available + space = N - 1
  BY Amounts DEF RingTypes
<1>2. available \in Nat /\ space \in Nat /\ n \in Nat /\ N \in Nat /\ N >= 4
  BY <1>1, Numbers
<1>3. available + n \in Slots
  BY <1>1, <1>2 DEF Slots
<1>4. tail' = After(head, available + n)
  BY <1>1, <1>3, AfterAfter DEF After
<1>5. available' = Ahead(head, After(head, available + n))
  BY <1>4 DEF available, Ahead
<1> QED
  BY <1>1, <1>3, <1>5, SlotsAgree

\* A write of q at the tail, for which there is room.
LEMMA StoredAtTail ==
  ASSUME RingTypes, NEW q, NEW n \in Slots, Len(q) = n, n <= space,
         ring' = Stored(ring, tail, q), head' = head
  PROVE  From(head, ring)' = Spliced(From(head, ring), available, q)
<1>1. /\ head \in Slots /\ available \in Slots /\ tail = After(head, available)
      /\ space \in Slots /\ available + space = N - 1
  BY Amounts DEF RingTypes
<1>2. available \in Nat /\ space \in Nat /\ n \in Nat /\ N \in Nat /\ N >= 4
  BY <1>1, Numbers
<1>3. Len(q) \in Nat /\ available + Len(q) <= N
  BY <1>1, <1>2
<1>4. From(head, Stored(ring, After(head, available), q)) = Spliced(From(head, ring), available, q)
  BY <1>1, <1>3, StoredFrom
<1>5. From(head, ring)' = From(head, Stored(ring, After(head, available), q))
  BY <1>1 DEF From
<1> QED
  BY <1>4, <1>5

LEMMA Appended ==
  ASSUME RingTypes, NEW q, NEW n \in Slots, Len(q) = n, n <= space,
         ring' = Stored(ring, tail, q), tail' = (tail + n) % N, head' = head
  PROVE  /\ available' = available + n
         /\ From(head, ring)' = Spliced(From(head, ring), available, q)
BY TailAdvances, StoredAtTail

LEMMA PlacedAtFirst == Init => Placed
BY DEF Init, Placed, RingPlaced, ExPlaced, HalfPlaced, Stopped

LEMMA RingPlacedFrame ==
  ASSUME RingPlaced, UNCHANGED <<head, tail, used_ex, dma, handler>>
  PROVE  RingPlaced'
BY DEF RingPlaced, OthersRun, available, empty

LEMMA ExPlacedFrame ==
  ASSUME ExPlaced, UNCHANGED <<head, tail, used_ex, dma, handler, mode>>
  PROVE  ExPlaced'
BY DEF ExPlaced, OthersRun, empty

LEMMA HalfPlacedFrame ==
  ASSUME HalfPlaced, UNCHANGED <<current, dma, handler, mode>>
  PROVE  HalfPlaced'
BY DEF HalfPlaced, OthersRun, CurrentHalf

LEMMA PlacedFrame ==
  ASSUME Placed, UNCHANGED <<mode, head, tail, used_ex, current, dma, handler>>
  PROVE  Placed'
BY RingPlacedFrame, ExPlacedFrame, HalfPlacedFrame DEF Placed

\* A reception that is started while nothing else is, by Enable_Receive.
LEMMA StartIsPlaced ==
  ASSUME TypeInv, Placed, StartReceive, ~ damaged'
  PROVE  Placed'
<1>1. CASE ~ dma.open
  BY <1>1, PlacedFrame DEF StartReceive, ring_vars
<1>2. CASE dma.open
  <2>1. /\ Enable(Target) /\ InputStart /\ UNCHANGED <<mode, head, handler>>
        /\ handler.at = "wait" /\ ~ (used_ex /\ Target.to = "ring")
    BY <1>2 DEF StartReceive, OthersRun
  <2>2. /\ Target.to \in Receivers \ {"second"} /\ Target.to \in Memories /\ Target.from \in Slots
        /\ Target.to = "ring" => Target.from = tail /\ tail <= 1 /\ empty
    BY TargetType
  <2>3. Started(Target)
    BY <2>1, <2>2, EnableStarts
  <2>4. mode \in {"bytes", "single", "double"}
    BY SizeIs
  <2>5. Target.to = "ring" => /\ mode = "single" /\ tail' = tail /\ available = 0 /\ head = tail
    <3>1. Target.to = "ring" => mode = "single"
      BY <2>2, <2>4 DEF Receivers
    <3>2. Target.to = "ring" => tail' = tail
      BY <2>1, <3>1 DEF Enable
    <3>3. Target.to = "ring" => available = 0 /\ head = tail
      BY <2>2, Amounts DEF TypeInv, empty
    <3> QED
      BY <3>1, <3>2, <3>3
  <2>6. RingPlaced'
    <3>1. dma'.to = "ring" => head' = dma'.from /\ dma'.from <= 1 /\ head' = tail' /\ ~ used_ex'
      BY <2>1, <2>2, <2>3, <2>5 DEF Started, InputStart
    <3>2. dma'.to = "ring" => available' = 0
      BY <2>1, <2>3, <2>5 DEF Started, available
    <3>3. dma'.done >= 0
      BY <2>3 DEF Started
    <3> QED
      BY <3>1, <3>2, <3>3 DEF RingPlaced, empty
  <2>7. ExPlaced'
    <3>1. dma'.to = "ex" => used_ex'
      BY <2>1, <2>3 DEF Started, InputStart
    <3>2. handler'.at = "wait"
      BY <2>1
    <3> QED
      BY <3>1, <3>2 DEF ExPlaced
  <2>8. HalfPlaced'
    <3>1. mode = "double" => dma'.to = "first" /\ current' = 0
      BY <2>1, <2>2, <2>3 DEF Started, InputStart, Receivers
    <3>2. handler'.at = "wait" /\ mode' = mode
      BY <2>1
    <3> QED
      BY <3>1, <3>2 DEF HalfPlaced, CurrentHalf
  <2> QED
    BY <2>6, <2>7, <2>8 DEF Placed
<1> QED
  BY <1>1, <1>2

LEMMA RestartIsPlaced ==
  ASSUME TypeInv, Placed, Restart
  PROVE  Placed'
<1>1. /\ Enable(handler) /\ UNCHANGED <<mode, head, used_ex, current>>
      /\ handler.at = "enable" /\ handler' = [at |-> "wait", to |-> "none", from |-> 0]
  BY DEF Restart
<1>2. handler.to \in Memories /\ handler.from \in Slots
  BY DEF TypeInv, LineTypes
<1>3. Started(handler)
  BY <1>1, <1>2, EnableStarts
<1>4. /\ handler.to \in {"ring", "ex"} => mode = "single"
      /\ mode = "double" => handler.to = "first"
  BY <1>1, PlacesOfModes
<1>5. handler.to = "ring" => empty /\ handler.from = tail /\ tail <= 1 /\ ~ used_ex /\ available = 0
  BY <1>1, Amounts DEF Placed, ExPlaced, TypeInv
<1>6. handler.to = "ring" => tail' = tail
  BY <1>1, <1>4 DEF Enable
<1>7. RingPlaced'
  <2>1. dma'.to = "ring" => head' = dma'.from /\ dma'.from <= 1 /\ head' = tail' /\ ~ used_ex'
    BY <1>1, <1>3, <1>5, <1>6 DEF Started, empty
  <2>2. dma'.to = "ring" => available' = 0
    BY <1>1, <1>3, <1>5, <1>6 DEF Started, available
  <2>3. dma'.done >= 0
    BY <1>3 DEF Started
  <2> QED
    BY <2>1, <2>2, <2>3 DEF RingPlaced, empty
<1>8. ExPlaced'
  BY <1>1, <1>3 DEF Started, Placed, ExPlaced
<1>9. HalfPlaced'
  <2>1. mode = "double" => current = 0
    BY <1>1 DEF Placed, HalfPlaced
  <2> QED
    BY <1>1, <1>3, <1>4, <2>1 DEF Started, HalfPlaced, CurrentHalf
<1> QED
  BY <1>7, <1>8, <1>9 DEF Placed

LEMMA CompleteIsPlaced ==
  ASSUME TypeInv, Placed, Complete
  PROVE  Placed'
<1>1. CASE ~ (dma.open /\ mode # "bytes")
  BY <1>1, PlacedFrame DEF Complete
<1>2. CASE dma.open /\ mode # "bytes"
  <2>1. /\ handler.at = "wait" /\ handler'.at = "start"
        /\ UNCHANGED <<mode, head, current, dma>>
        /\ IF mode = "single" THEN CompleteSingle(dma.done) ELSE CompleteDouble(dma.done)
    <3>1. handler' = [handler EXCEPT !.at = "start"]
      BY <1>2 DEF Complete
    <3>2. handler'.at = "start"
      BY <3>1 DEF TypeInv, LineTypes
    <3> QED
      BY <1>2, <3>2 DEF Complete
  <2>2. RingPlaced'
    <3>1. SUFFICES ASSUME dma.to = "ring" PROVE RingPlaced'
      BY <2>1 DEF RingPlaced
    <3>2. mode = "single" /\ dma.done \in Slots
      BY <3>1, PlacesOfModes
    <3>3. head = dma.from /\ dma.from <= 1 /\ empty
      BY <2>1, <3>1 DEF Placed, RingPlaced, OthersRun
    <3>4. tail' = After(head, dma.done) /\ head \in Slots
      BY <2>1, <3>2, <3>3 DEF CompleteSingle, After, empty, TypeInv, RingTypes
    <3>5. available' = Ahead(head, After(head, dma.done))
      BY <2>1, <3>4 DEF available, Ahead
    <3>6. available' = dma.done
      BY <3>2, <3>4, <3>5, SlotsAgree
    <3>7. available' <= dma.done
      BY <3>2, <3>6, Numbers DEF Slots
    <3> QED
      BY <2>1, <3>3, <3>7 DEF RingPlaced, OthersRun
  <2>3. ExPlaced'
    BY <2>1 DEF ExPlaced, CompleteSingle, OthersRun
  <2>4. HalfPlaced'
    BY <2>1 DEF HalfPlaced, OthersRun
  <2> QED
    BY <2>2, <2>3, <2>4 DEF Placed
<1> QED
  BY <1>1, <1>2

LEMMA NextTargetIsPlaced ==
  ASSUME TypeInv, Placed, NextTarget
  PROVE  Placed'
<1>1. /\ handler.at = "start" /\ InputStart
      /\ handler' = [at |-> "enable", to |-> Target.to, from |-> Target.from]
      /\ UNCHANGED <<mode, head, tail, dma>>
  BY DEF NextTarget
<1>2. /\ Target.to \in Receivers \ {"second"}
      /\ Target.to = "ring" => Target.from = tail /\ tail <= 1 /\ empty
  BY TargetType
<1>3. mode \in {"bytes", "single", "double"}
  BY SizeIs
<1>4. Target.to = "ring" => mode = "single" /\ ~ used_ex /\ ~ used_ex'
  BY <1>1, <1>2, <1>3 DEF Receivers, Placed, ExPlaced, InputStart
<1>5. RingPlaced'
  BY <1>1 DEF Placed, RingPlaced, OthersRun, available, empty
<1>6. ExPlaced'
  BY <1>1, <1>2, <1>4 DEF ExPlaced, InputStart, OthersRun, empty
<1>7. HalfPlaced'
  BY <1>1 DEF HalfPlaced, OthersRun, InputStart
<1> QED
  BY <1>5, <1>6, <1>7 DEF Placed

LEMMA PlacedStays ==
  ASSUME TypeInv, Placed, [Next]_vars, ~ damaged'
  PROVE  Placed'
<1>1. mode' = mode /\ ~ damaged
  BY ModeStays, DamageStays
<1>2. ASSUME NEW r \in Readers, Read(r) PROVE Placed'
  <2>1. UNCHANGED <<tail, used_ex, current, dma, handler>> /\ handler.at = "wait"
    BY <1>2 DEF Read, Goes, OthersRun, line_vars
  <2>2. CASE dma.to = "ring"
    <3>1. head' = head
      BY <1>2, <2>1, <2>2, ReadOfEmpty DEF Placed, RingPlaced, OthersRun
    <3> QED
      BY <1>1, <2>1, <3>1, PlacedFrame
  <2>3. CASE dma.to # "ring"
    <3>1. RingPlaced'
      BY <2>1, <2>3 DEF RingPlaced
    <3>2. ExPlaced'
      BY <1>1, <2>1 DEF Placed, ExPlaced, OthersRun
    <3>3. HalfPlaced'
      BY <1>1, <2>1, HalfPlacedFrame DEF Placed
    <3> QED
      BY <3>1, <3>2, <3>3 DEF Placed
  <2> QED
    BY <2>2, <2>3
<1>3. ASSUME Clear PROVE Placed'
  <2>1. UNCHANGED <<used_ex, current, dma, handler>> /\ handler.at = "wait" /\ head' = 0 /\ tail' = 0
        /\ ~ (dma.to = "ring" /\ dma.from # 0)
    BY <1>1, <1>3 DEF Clear, OthersRun, line_vars
  <2>2. available' = 0
    <3>1. available' = Ahead(0, 0) /\ 0 \in Slots
      BY <2>1, Numbers DEF available, Ahead
    <3> QED
      BY <3>1, SlotsAgree
  <2>3. dma.done \in Slots /\ dma.done >= 0
    <3>1. dma.done \in Slots
      BY DEF TypeInv, LineTypes
    <3> QED
      BY <3>1, Numbers DEF Slots
  <2>4. RingPlaced'
    BY <2>1, <2>2, <2>3 DEF Placed, RingPlaced, OthersRun, empty
  <2>5. ExPlaced'
    BY <1>1, <2>1 DEF Placed, ExPlaced, OthersRun
  <2>6. HalfPlaced'
    BY <1>1, <2>1, HalfPlacedFrame DEF Placed
  <2> QED
    BY <2>4, <2>5, <2>6 DEF Placed
<1>4. ASSUME Deinit \/ Open PROVE Placed'
  <2>1. handler'.at = "wait" /\ dma'.to = "none"
    BY <1>4 DEF Deinit, Open, OthersRun, Stopped
  <2> QED
    BY <2>1 DEF Placed, RingPlaced, ExPlaced, HalfPlaced
<1>5. ASSUME PushByte PROVE Placed'
  <2>1. mode = "bytes" /\ UNCHANGED <<dma, handler>>
    BY <1>5 DEF PushByte
  <2>2. dma.to = "none" /\ handler.at = "wait"
    BY <2>1 DEF TypeInv, LineTypes, PlaceInv, Receivers
  <2> QED
    BY <1>1, <2>1, <2>2 DEF Placed, RingPlaced, ExPlaced, HalfPlaced
<1>6. ASSUME Land \/ LandInHalf PROVE Placed'
  <2>1. /\ UNCHANGED <<head, tail, used_ex, current, handler>>
        /\ dma.done \in Slots /\ dma'.to = dma.to /\ dma'.from = dma.from /\ dma'.done = dma.done + 1
    <3>1. dma \in [open : BOOLEAN, on : BOOLEAN, to : Memories, from : Slots, size : Slots,
                   done : Slots]
      BY DEF TypeInv, LineTypes
    <3>2. \/ dma' = [dma EXCEPT !.done = dma.done + 1, !.on = dma.done + 1 < dma.size]
          \/ dma' = [dma EXCEPT !.done = dma.done + 1]
      BY <1>6 DEF Land, LandInHalf
    <3>3. dma'.to = dma.to /\ dma'.from = dma.from /\ dma'.done = dma.done + 1
      BY <3>1, <3>2
    <3> QED
      BY <1>6, <3>1, <3>3 DEF Land, LandInHalf
  <2>2. dma.done \in Nat /\ available \in Nat
    <3>1. available \in Slots
      BY Amounts DEF TypeInv
    <3> QED
      BY <2>1, <3>1, Numbers
  <2>3. available <= dma.done => available <= dma.done + 1
    BY <2>2
  <2>4. RingPlaced'
    BY <2>1, <2>3 DEF Placed, RingPlaced, OthersRun, available, empty
  <2>5. ExPlaced'
    BY <1>1, <2>1 DEF Placed, ExPlaced, OthersRun, empty
  <2>6. HalfPlaced'
    BY <1>1, <2>1 DEF Placed, HalfPlaced, OthersRun, CurrentHalf
  <2> QED
    BY <2>4, <2>5, <2>6 DEF Placed
<1>7. ASSUME SwitchHalf PROVE Placed'
  <2>1. /\ dma.to \in {"first", "second"}
        /\ dma'.to = IF dma.to = "first" THEN "second" ELSE "first"
        /\ current' = 1 - current /\ handler' = handler /\ handler.at = "wait"
    <3>1. space \in Nat /\ Half \in Nat
      <4>1. space \in Slots /\ Half \in Slots
        BY Amounts, Numbers DEF TypeInv
      <4> QED
        BY <4>1, Numbers
    <3>2. ~ (space < Half) /\ handler.at = "wait"
      BY <1>1, <1>7 DEF SwitchHalf
    <3>3. current' = 1 - current
      BY <1>7, <3>2 DEF SwitchHalf
    <3>4. dma' = [dma EXCEPT !.done = 0, !.to = IF dma.to = "first" THEN "second" ELSE "first"]
          /\ dma.to \in {"first", "second"} /\ handler' = handler
      BY <1>7 DEF SwitchHalf
    <3>5. dma \in [open : BOOLEAN, on : BOOLEAN, to : Memories, from : Slots, size : Slots,
                   done : Slots]
      BY DEF TypeInv, LineTypes
    <3> QED
      BY <3>2, <3>3, <3>4, <3>5
  <2>2. mode = "double"
    BY <2>1, PlacesOfModes
  <2>3. dma.to = CurrentHalf /\ current \in {0, 1}
    BY <2>1, <2>2 DEF Placed, HalfPlaced, OthersRun, TypeInv, RingTypes
  <2>4. dma'.to = CurrentHalf'
    BY <2>1, <2>3 DEF CurrentHalf
  <2> QED
    BY <1>1, <2>1, <2>4 DEF Placed, RingPlaced, ExPlaced, HalfPlaced
<1>8. ASSUME Idle PROVE Placed'
  <2>1. dma \in [open : BOOLEAN, on : BOOLEAN, to : Memories, from : Slots, size : Slots,
                 done : Slots]
    BY DEF TypeInv, LineTypes
  <2>2. dma' = dma \/ dma' = [dma EXCEPT !.on = (mode = "bytes")]
    BY <1>8 DEF Idle
  <2>3. /\ UNCHANGED <<head, tail, used_ex, current, handler>>
        /\ dma'.to = dma.to /\ dma'.from = dma.from /\ dma'.done = dma.done
    BY <1>8, <2>1, <2>2 DEF Idle, ring_vars
  <2>4. RingPlaced'
    BY <2>3 DEF Placed, RingPlaced, OthersRun, available, empty
  <2>5. ExPlaced'
    BY <1>1, <2>3 DEF Placed, ExPlaced, OthersRun, empty
  <2>6. HalfPlaced'
    BY <1>1, <2>3 DEF Placed, HalfPlaced, OthersRun, CurrentHalf
  <2> QED
    BY <2>4, <2>5, <2>6 DEF Placed
<1>9. ASSUME \/ UNCHANGED vars \/ Hold \/ Lose \/ Close \/ SetClose \/ PostEnable
             \/ \E r \in Readers : \/ CallRead(r) \/ Loop(r) \/ Wait(r) \/ Check(r)
                                   \/ ClearFlag(r) \/ Expire(r)
      PROVE  Placed'
  <2>1. UNCHANGED <<mode, head, tail, used_ex, current, dma, handler>>
    BY <1>9 DEF vars, ring_vars, line_vars, Hold, Lose, Close, SetClose, PostEnable, CallRead, Loop,
                Wait, Check, ClearFlag, Expire
  <2> QED
    BY <2>1, PlacedFrame
<1> QED
  BY <1>2, <1>3, <1>4, <1>5, <1>6, <1>7, <1>8, <1>9, StartIsPlaced, RestartIsPlaced,
     CompleteIsPlaced, NextTargetIsPlaced
     DEF Next, Continue, Closing, Opening, Receiving, Arrives

LEMMA PlacedInvStays == PlacedInv /\ [Next]_vars => PlacedInv'
BY TypesStay, PlacedStays, DamageStays DEF PlacedInv

-------------------------------------------------------------------------------
(* The ring is a queue *)

\* The first n entries of f, as a sequence.
Entries(f, n) == [i \in 1 .. n |-> f[i - 1]]

LEMMA EntriesAre ==
  ASSUME NEW f, NEW n \in Nat
  PROVE  Len(Entries(f, n)) = n /\ \A i \in 1 .. n : Entries(f, n)[i] = f[i - 1]
BY DEF Entries

LEMMA PrefixOf ==
  ASSUME NEW f, NEW g, NEW m \in Nat, NEW n \in Nat, m <= n,
         \A d \in 0 .. m - 1 : f[d] = g[d]
  PROVE  IsPrefix(Entries(f, m), Entries(g, n))
<1>1. Len(Entries(f, m)) = m /\ Len(Entries(g, n)) = n
  BY EntriesAre
<1>2. SubSeq(Entries(f, m), 1, m) = [i \in 1 .. m |-> f[i - 1]]
  <2>1. SubSeq(Entries(f, m), 1, m) = [i \in 1 .. m |-> Entries(f, m)[i]]
    OBVIOUS
  <2> QED
    BY <2>1 DEF Entries
<1>3. SubSeq(Entries(g, n), 1, m) = [i \in 1 .. m |-> g[i - 1]]
  <2>1. SubSeq(Entries(g, n), 1, m) = [i \in 1 .. m |-> Entries(g, n)[i]]
    OBVIOUS
  <2> QED
    BY <2>1 DEF Entries
<1>4. \A i \in 1 .. m : i - 1 \in 0 .. m - 1
  OBVIOUS
<1>5. SubSeq(Entries(f, m), 1, m) = SubSeq(Entries(g, n), 1, m)
  BY <1>2, <1>3, <1>4
<1> QED
  BY <1>1, <1>5 DEF IsPrefix

LEMMA SuffixOf ==
  ASSUME NEW f, NEW g, NEW m \in Nat, NEW n \in Nat, m <= n,
         \A d \in 0 .. m - 1 : f[d] = g[d + (n - m)]
  PROVE  IsSuffix(Entries(f, m), Entries(g, n))
<1> DEFINE fr == [d \in 0 .. m - 1 |-> f[m - 1 - d]]
           gr == [d \in 0 .. n - 1 |-> g[n - 1 - d]]
<1>1. Reverse(Entries(f, m)) = Entries(fr, m)
  <2>1. Reverse(Entries(f, m)) = [i \in 1 .. m |-> Entries(f, m)[m - i + 1]]
    BY EntriesAre DEF Reverse
  <2>2. \A i \in 1 .. m : Entries(f, m)[m - i + 1] = fr[i - 1]
    <3>1. SUFFICES ASSUME NEW i \in 1 .. m PROVE Entries(f, m)[m - i + 1] = fr[i - 1]
      OBVIOUS
    <3>2. m - i + 1 \in 1 .. m /\ i - 1 \in 0 .. m - 1 /\ m - i + 1 - 1 = m - 1 - (i - 1)
      OBVIOUS
    <3>3. Entries(f, m)[m - i + 1] = f[m - i + 1 - 1]
      BY SMTT(30), <3>2, EntriesAre
    <3> QED
      BY <3>2, <3>3
  <2> HIDE DEF fr
  <2> QED
    BY <2>1, <2>2 DEF Entries
<1>2. Reverse(Entries(g, n)) = Entries(gr, n)
  <2>1. Reverse(Entries(g, n)) = [i \in 1 .. n |-> Entries(g, n)[n - i + 1]]
    BY EntriesAre DEF Reverse
  <2>2. \A i \in 1 .. n : Entries(g, n)[n - i + 1] = gr[i - 1]
    <3>1. SUFFICES ASSUME NEW i \in 1 .. n PROVE Entries(g, n)[n - i + 1] = gr[i - 1]
      OBVIOUS
    <3>2. n - i + 1 \in 1 .. n /\ i - 1 \in 0 .. n - 1 /\ n - i + 1 - 1 = n - 1 - (i - 1)
      OBVIOUS
    <3>3. Entries(g, n)[n - i + 1] = g[n - i + 1 - 1]
      BY <3>2, EntriesAre
    <3> QED
      BY <3>2, <3>3
  <2> HIDE DEF gr
  <2> QED
    BY <2>1, <2>2 DEF Entries
<1>3. \A d \in 0 .. m - 1 : fr[d] = gr[d]
  <2>1. SUFFICES ASSUME NEW d \in 0 .. m - 1 PROVE f[m - 1 - d] = g[n - 1 - d]
    OBVIOUS
  <2>2. m - 1 - d \in 0 .. m - 1 /\ (m - 1 - d) + (n - m) = n - 1 - d
    OBVIOUS
  <2> QED
    BY <2>2
<1> HIDE DEF fr, gr
<1>4. IsPrefix(Entries(fr, m), Entries(gr, n))
  BY <1>3, PrefixOf
<1> QED
  BY <1>1, <1>2, <1>4 DEF IsSuffix

LEMMA UnreadIs ==
  ASSUME RingTypes
  PROVE  Unread = Entries(From(head, ring), available)
<1>1. available \in Slots /\ head \in Slots
  BY Amounts DEF RingTypes
<1>2. ASSUME NEW i \in 1 .. available
      PROVE  ring[(head + i - 1) % N] = From(head, ring)[i - 1]
  <2>1. i - 1 \in Slots
    BY <1>1, Numbers DEF Slots
  <2>2. head + i - 1 = head + (i - 1)
    BY <1>1, <2>1, Numbers DEF Slots
  <2> QED
    BY <2>1, <2>2 DEF From, After
<1> QED
  BY <1>2 DEF Unread, Entries

\* Nothing that is unread goes or moves.
KeepsUnread ==
  /\ head' = head
  /\ available' >= available
  /\ \A d \in 0 .. available - 1 : From(head, ring)'[d] = From(head, ring)[d]

LEMMA KeptIsPrefix ==
  ASSUME RingTypes, RingTypes', KeepsUnread
  PROVE  head' = head /\ IsPrefix(Unread, Unread')
<1>1. available \in Nat
  <2>1. available \in Slots
    BY Amounts
  <2> QED
    BY <2>1, Numbers
<1>2. Unread = Entries(From(head, ring), available)
  BY UnreadIs
<1>3. (Unread = Entries(From(head, ring), available))'
  BY UnreadIs, PTL
<1>4. available' \in Nat
  <2>1. (available \in Slots)'
    BY Amounts, PTL
  <2> QED
    BY <2>1, Numbers
<1> DEFINE f == From(head, ring)
           g == From(head, ring)'
           n == available'
<1>5. IsPrefix(Entries(f, available), Entries(g, n))
  <2>1. n \in Nat /\ available <= n /\ \A d \in 0 .. available - 1 : f[d] = g[d]
    BY <1>1, <1>4 DEF KeepsUnread
  <2> HIDE DEF f, g, n
  <2> QED
    BY <1>1, <2>1, PrefixOf
<1>6. Unread' = Entries(g, n)
  BY <1>3
<1> QED
  BY <1>2, <1>5, <1>6 DEF KeepsUnread

LEMMA UntouchedKeeps ==
  ASSUME RingTypes, UNCHANGED <<ring, head, tail>>
  PROVE  KeepsUnread /\ available' = available
<1>1. available' = available /\ From(head, ring)' = From(head, ring)
  BY DEF available, From
<1>2. available \in Nat
  <2>1. available \in Slots
    BY Amounts
  <2> QED
    BY <2>1, Numbers
<1> QED
  BY <1>1, <1>2 DEF KeepsUnread

\* What Appended says of a write keeps what is unread.
LEMMA AppendedKeeps ==
  ASSUME RingTypes, NEW q, NEW n \in Slots, head' = head, available' = available + n,
         From(head, ring)' = Spliced(From(head, ring), available, q)
  PROVE  KeepsUnread
<1>1. available \in Slots
  BY Amounts
<1>2. available' >= available
  BY <1>1, Numbers DEF Slots
<1>3. ASSUME NEW d \in 0 .. available - 1
      PROVE  From(head, ring)'[d] = From(head, ring)[d]
  <2>1. d \in Slots /\ ~ (d >= available)
    BY <1>1, Numbers DEF Slots
  <2> QED
    BY <2>1 DEF Spliced
<1> QED
  BY <1>2, <1>3 DEF KeepsUnread

\* write of the first n bytes of m.
LEMMA WriteAppends ==
  ASSUME RingTypes, NEW m \in [Slots -> Byte], NEW n \in Slots, n <= space,
         WriteRing(m, n), head' = head
  PROVE  /\ available' = available + n
         /\ From(head, ring)' = Spliced(From(head, ring), available, FirstOf(m, n))
<1>1. n \in 0 .. N
  BY Numbers DEF Slots
<1>2. Len(FirstOf(m, n)) = n
  BY <1>1, FirstOfType
<1> QED
  BY <1>2, Appended DEF WriteRing

\* What a read takes is what was unread first.
LEMMA ReadTakes ==
  ASSUME TypeInv, NEW r \in Readers, Read(r)
  PROVE  LET n == Least(todo[r], available) IN
         /\ n \in 0 .. available
         /\ available' = available - n
         /\ \A d \in 0 .. available - n - 1 : From(head, ring)'[d] = From(head, ring)[d + n]
<1> DEFINE n == Least(todo[r], available)
           zeros == [i \in 1 .. n |-> 0]
<1>1. RingTypes /\ head \in Slots /\ available \in Slots /\ tail = After(head, available)
  BY Amounts DEF TypeInv, RingTypes
<1>2. available \in Nat /\ todo[r] \in Nat
  BY <1>1, Numbers DEF TypeInv, DeviceTypes
<1>3. n \in Nat /\ n <= available
  BY <1>2, LeastIs
<1>4. ring' = Stored(ring, head, zeros) /\ head' = (head + n) % N /\ tail' = tail
  BY DEF Read
<1>5. n \in Slots
  BY <1>1, <1>3, Numbers DEF Slots
<1>6. Len(zeros) = n
  BY <1>3
<1> HIDE DEF n, zeros
<1>7. head' = After(head, n)
  BY <1>4 DEF After
<1>8. available' = Ahead(After(head, n), After(head, available))
  BY <1>1, <1>4, <1>7 DEF available, Ahead
<1>9. available' = available - n
  BY <1>1, <1>3, <1>5, <1>8, AheadAfter
<1>10. From(head, ring') = Spliced(From(head, ring), 0, zeros)
  <2>1. After(head, 0) = head /\ 0 \in Slots
    BY <1>1, Numbers, SlotsAgree
  <2>2. Len(zeros) \in Nat /\ 0 + Len(zeros) <= N
    BY <1>5, <1>6, Numbers DEF Slots
  <2>3. From(head, Stored(ring, After(head, 0), zeros)) = Spliced(From(head, ring), 0, zeros)
    BY <1>1, <2>1, <2>2, StoredFrom
  <2> QED
    BY <1>4, <2>1, <2>3
<1>11. ASSUME NEW d \in 0 .. available - n - 1
       PROVE  From(head, ring)'[d] = From(head, ring)[d + n]
  <2>1. d \in Slots /\ n + d \in Slots /\ n + d >= n /\ d + n = n + d
    BY <1>1, <1>3, <1>5, Numbers DEF Slots
  <2>2. From(head, ring)'[d] = ring'[After(After(head, n), d)]
    BY <1>7, <2>1 DEF From
  <2>3. After(After(head, n), d) = After(head, n + d)
    BY <1>1, <1>5, <2>1, AfterAfter
  <2>4. From(head, ring')[n + d] = ring'[After(head, n + d)]
    BY <2>1 DEF From
  <2>5. ~ (n + d < 0 + Len(zeros))
    BY <1>3, <1>6, <2>1
  <2>6. From(head, ring')[n + d] = From(head, ring)[n + d]
    BY <1>10, <2>1, <2>5 DEF Spliced
  <2> QED
    BY <2>1, <2>2, <2>3, <2>4, <2>6
<1> QED
  BY <1>3, <1>2, <1>9, <1>11 DEF n

LEMMA ReadIsSuffix ==
  ASSUME TypeInv, RingTypes', NEW r \in Readers, Read(r)
  PROVE  tail' = tail /\ IsSuffix(Unread', Unread)
<1> DEFINE k == Least(todo[r], available)
           f == From(head, ring)'
           g == From(head, ring)
           m == available'
           n == available
<1>1. /\ k \in 0 .. n /\ m = n - k
      /\ \A d \in 0 .. n - k - 1 : f[d] = g[d + k]
  BY ReadTakes
<1>2. n \in Nat
  <2>1. available \in Slots
    BY Amounts DEF TypeInv
  <2> QED
    BY <2>1, Numbers
<1>3. Unread = Entries(g, n)
  BY UnreadIs DEF TypeInv
<1>4. RingTypes' => (Unread = Entries(From(head, ring), available))'
  BY UnreadIs, PTL
<1>5. Unread' = Entries(f, m)
  BY <1>4
<1>6. tail' = tail
  BY DEF Read
<1> HIDE DEF k, f, g, m, n
<1>7. m \in Nat /\ m <= n /\ n - m = k
  BY <1>1, <1>2
<1>8. \A d \in 0 .. m - 1 : f[d] = g[d + (n - m)]
  BY <1>1, <1>7
<1>9. IsSuffix(Entries(f, m), Entries(g, n))
  BY <1>2, <1>7, <1>8, SuffixOf
<1> QED
  BY <1>3, <1>5, <1>6, <1>9

\* A byte is appended when there is room for it.
LEMMA ByteAppends ==
  ASSUME RingTypes, NEW q, q = <<>> \/ (space # 0 /\ Len(q) = 1), head' = head,
         ring' = Stored(ring, tail, q), tail' = (tail + Len(q)) % N
  PROVE  /\ Len(q) \in {0, 1} /\ available' = available + Len(q)
         /\ From(head, ring)' = Spliced(From(head, ring), available, q)
<1>1. Len(q) \in {0, 1} /\ (Len(q) = 1 => space # 0)
  OBVIOUS
<1>2. space \in Slots
  BY Amounts
<1>3. Len(q) \in Slots
  BY <1>1, Numbers
<1>4. Len(q) <= space
  BY <1>1, <1>2, Numbers DEF Slots
<1> QED
  BY <1>1, <1>3, <1>4, Appended

\* Enable in "bytes" mode.
LEMMA EnableAppends ==
  ASSUME TypeInv, NEW t, Enable(t), mode = "bytes", t.to # "ring", head' = head
  PROVE  LET q == IF space = 0 \/ rdr = 0 THEN <<>> ELSE <<rdr>> IN
         /\ Len(q) \in {0, 1} /\ available' = available + Len(q)
         /\ From(head, ring)' = Spliced(From(head, ring), available, q)
<1> DEFINE q == IF space = 0 \/ rdr = 0 THEN <<>> ELSE <<rdr>>
<1>1. q = <<>> \/ (space # 0 /\ Len(q) = 1)
  OBVIOUS
<1>2. ring' = Stored(ring, tail, q) /\ tail' = (tail + Len(q)) % N
  <2> DEFINE held == IF rdr = 0 THEN <<>> ELSE <<rdr>>
             p == IF space = 0 THEN <<>> ELSE held
  <2>1. ring' = Stored(ring, tail, p) /\ tail' = (tail + Len(p)) % N
    BY DEF Enable
  <2>2. p = q
    OBVIOUS
  <2> HIDE DEF p, q
  <2> QED
    BY <2>1, <2>2
<1> HIDE DEF q
<1>3. RingTypes
  BY DEF TypeInv
<1>4. /\ Len(q) \in {0, 1} /\ available' = available + Len(q)
      /\ From(head, ring)' = Spliced(From(head, ring), available, q)
  BY <1>1, <1>2, <1>3, ByteAppends
<1> QED
  BY <1>4 DEF q

\* Enable in the other modes: the byte that was held is the first of the reception.
LEMMA EnableHolds ==
  ASSUME TypeInv, NEW t, Enable(t), mode # "bytes", t.from \in Slots
  PROVE  /\ tail' = tail
         /\ t.to = "ring" => /\ mem' = mem
                             /\ ring' = IF rdr = 0 THEN ring ELSE [ring EXCEPT ![t.from] = rdr]
         /\ t.to # "ring" => /\ ring' = ring
                             /\ mem' = [mem EXCEPT ![t.to] =
                                  IF rdr = 0 THEN Nothing ELSE [Nothing EXCEPT ![0] = rdr]]
<1> DEFINE held == IF rdr = 0 THEN <<>> ELSE <<rdr>>
<1>1. mode \in {"single", "double"}
  BY SizeIs
<1>2. /\ tail' = tail
      /\ t.to = "ring" => mem' = mem /\ ring' = Stored(ring, t.from, held)
      /\ t.to # "ring" => ring' = ring /\ mem' = [mem EXCEPT ![t.to] = Stored(Nothing, 0, held)]
  BY <1>1 DEF Enable
<1>3. ASSUME NEW m \in [Slots -> Byte], NEW k \in Slots
      PROVE  Stored(m, k, held) = IF rdr = 0 THEN m ELSE [m EXCEPT ![k] = rdr]
  <2>1. CASE rdr = 0
    <3>1. held = <<>> /\ Len(held) = 0
      BY <2>1
    <3>2. \A j \in Slots : Ahead(k, j) \in Slots
      BY SlotsAgree
    <3>3. \A j \in Slots : Ahead(k, j) \in Nat
      BY <3>2, Numbers
    <3> HIDE DEF held
    <3>4. \A j \in Slots : ~ (Ahead(k, j) < Len(held))
      BY <3>1, <3>3
    <3> QED
      BY <2>1, <3>4, StoredIs
  <2>2. CASE rdr # 0
    BY <2>2, StoredByte
  <2> QED
    BY <2>1, <2>2
<1>4. ring \in [Slots -> Byte] /\ Nothing \in [Slots -> Byte] /\ 0 \in Slots
  BY Numbers DEF TypeInv, RingTypes, Nothing, Byte
<1>5. Stored(ring, t.from, held) = IF rdr = 0 THEN ring ELSE [ring EXCEPT ![t.from] = rdr]
  BY <1>3, <1>4
<1>6. Stored(Nothing, 0, held) = IF rdr = 0 THEN Nothing ELSE [Nothing EXCEPT ![0] = rdr]
  BY <1>3, <1>4
<1> HIDE DEF held
<1> QED
  BY <1>2, <1>5, <1>6

\* A byte that goes to a slot beyond what is unread.
LEMMA BeyondKeeps ==
  ASSUME RingTypes, NEW k \in Slots, k >= available, NEW b,
         ring' = [ring EXCEPT ![After(head, k)] = b], UNCHANGED <<head, tail>>
  PROVE  /\ KeepsUnread /\ available' = available
         /\ From(head, ring)' = [From(head, ring) EXCEPT ![k] = b]
<1>1. head \in Slots /\ available \in Slots /\ ring \in [Slots -> Byte]
  BY Amounts DEF RingTypes
<1>2. available' = available
  BY DEF available
<1>3. ASSUME NEW d \in Slots
      PROVE  ring'[After(head, d)] = IF d = k THEN b ELSE ring[After(head, d)]
  <2>1. After(head, d) \in Slots /\ After(head, k) \in Slots
    BY <1>1, SlotsAgree
  <2>2. After(head, d) = After(head, k) => d = k
    BY <1>1, SlotsAgree
  <2> QED
    BY <1>1, <2>1, <2>2
<1>4. From(head, ring)' = [From(head, ring) EXCEPT ![k] = b]
  BY <1>3 DEF From
<1>5. ASSUME NEW d \in 0 .. available - 1
      PROVE  From(head, ring)'[d] = From(head, ring)[d]
  <2>1. d \in Slots /\ d # k
    BY <1>1, Numbers DEF Slots
  <2> QED
    BY <1>4, <2>1 DEF From
<1>6. available \in Nat /\ available' >= available
  BY <1>1, <1>2, Numbers DEF Slots
<1> QED
  BY <1>2, <1>4, <1>5, <1>6 DEF KeepsUnread

\* A reception that starts in the ring does so when that is empty.
LEMMA EnableKeeps ==
  ASSUME TypeInv, NEW t, Enable(t), t.from \in Slots, head' = head,
         t.to = "ring" => mode # "bytes" /\ t.from = head /\ empty
  PROVE  KeepsUnread
<1>1. RingTypes
  BY DEF TypeInv
<1>2. CASE mode = "bytes"
  <2> DEFINE q == IF space = 0 \/ rdr = 0 THEN <<>> ELSE <<rdr>>
  <2>1. /\ Len(q) \in {0, 1} /\ available' = available + Len(q)
        /\ From(head, ring)' = Spliced(From(head, ring), available, q)
    BY <1>2, EnableAppends
  <2> HIDE DEF q
  <2>2. Len(q) \in Slots
    BY <2>1, Numbers
  <2> QED
    BY <1>1, <2>1, <2>2, AppendedKeeps
<1>3. CASE mode # "bytes"
  <2>1. /\ tail' = tail
        /\ t.to = "ring" => ring' = IF rdr = 0 THEN ring ELSE [ring EXCEPT ![t.from] = rdr]
        /\ t.to # "ring" => ring' = ring
    BY <1>3, EnableHolds
  <2>2. CASE ring' = ring
    BY <1>1, <2>1, <2>2, UntouchedKeeps
  <2>3. CASE ring' # ring
    <3>1. t.to = "ring" /\ ring' = [ring EXCEPT ![t.from] = rdr] /\ t.from = head /\ empty
      BY <2>1, <2>3
    <3>2. available = 0 /\ head \in Slots
      BY <1>1, <3>1, Amounts DEF RingTypes
    <3>3. After(head, 0) = head /\ 0 \in Slots
      BY <3>2, Numbers, SlotsAgree
    <3>4. 0 >= available
      BY <3>2
    <3>5. ring' = [ring EXCEPT ![After(head, 0)] = rdr]
      BY <3>1, <3>3
    <3> QED
      BY <1>1, <2>1, <3>3, <3>4, <3>5, BeyondKeeps
  <2> QED
    BY <2>2, <2>3
<1> QED
  BY <1>2, <1>3

\* A byte that DMA puts into the ring does not touch what is unread.
LEMMA LandInRing ==
  ASSUME TypeInv, RingPlaced, Land, dma.to = "ring"
  PROVE  /\ KeepsUnread /\ available' = available /\ dma.done \in Slots /\ dma.done >= available
         /\ From(head, ring)' = [From(head, ring) EXCEPT ![dma.done] = arrived']
<1>1. /\ RingTypes /\ head = dma.from /\ available <= dma.done /\ dma.from <= 1
      /\ mode = "single" /\ dma.done < N - 1 /\ dma.done \in Slots
  BY PlacesOfModes DEF TypeInv, RingPlaced, Land
<1>2. head \in Slots /\ ring \in [Slots -> Byte] /\ dma.done \in Nat /\ head \in Nat /\ available \in Nat
  <2>1. available \in Slots
    BY <1>1, Amounts
  <2> QED
    BY <1>1, <2>1, Numbers DEF RingTypes
<1>3. head + dma.done \in Slots
  BY <1>1, <1>2, Numbers DEF Slots
<1>4. After(head, dma.done) = head + dma.done
  <2>1. After(head, dma.done) = IF head + dma.done < N THEN head + dma.done ELSE head + dma.done - N
    BY <1>1, <1>2, AfterIs
  <2>2. head + dma.done < N
    BY <1>3, Numbers DEF Slots
  <2> QED
    BY <2>1, <2>2
<1>5. ring' = Stored(ring, head + dma.done, <<arrived'>>) /\ UNCHANGED <<head, tail>>
  BY <1>1 DEF Land
<1>6. ring' = [ring EXCEPT ![After(head, dma.done)] = arrived']
  BY <1>2, <1>3, <1>4, <1>5, StoredByte
<1>7. dma.done >= available
  BY <1>1, <1>2
<1> QED
  BY <1>1, <1>5, <1>6, <1>7, BeyondKeeps

\* What a complete reception in "single" mode leaves of what is unread.
LEMMA SingleExtends ==
  ASSUME TypeInv, CompleteSingle(dma.done), head' = head, dma.done <= space
  PROVE  /\ KeepsUnread /\ available' = available + dma.done
         /\ From(head, ring)' = IF used_ex
                                THEN Spliced(From(head, ring), available, FirstOf(mem.ex, dma.done))
                                ELSE From(head, ring)
<1>1. RingTypes /\ dma.done \in Slots /\ dma.done \in Nat
  <2>1. RingTypes /\ dma.done \in Slots
    BY DEF TypeInv, LineTypes
  <2> QED
    BY <2>1, Numbers
<1>2. available \in Nat /\ space \in Nat
  <2>1. available \in Slots /\ space \in Slots
    BY <1>1, Amounts
  <2> QED
    BY <2>1, Numbers
<1>3. available' = available + dma.done
  BY <1>1, TailAdvances DEF CompleteSingle
<1>4. CASE used_ex
  <2>1. Least(dma.done, space) = dma.done
    BY DEF Least
  <2>2. mem.ex \in [Slots -> Byte] /\ dma.done \in 0 .. N
    BY <1>1, Numbers DEF RingTypes, Slots
  <2>3. Len(FirstOf(mem.ex, dma.done)) = dma.done
    BY <2>2, FirstOfType
  <2>4. ring' = Stored(ring, tail, FirstOf(mem.ex, dma.done))
    BY <1>4, <2>1 DEF CompleteSingle
  <2>5. From(head, ring)' = Spliced(From(head, ring), available, FirstOf(mem.ex, dma.done))
    BY <1>1, <2>3, <2>4, StoredAtTail
  <2>6. KeepsUnread
    BY <1>1, <1>3, <2>5, AppendedKeeps
  <2> QED
    BY <1>3, <1>4, <2>5, <2>6
<1>5. CASE ~ used_ex
  <2>1. From(head, ring)' = From(head, ring)
    BY <1>5 DEF CompleteSingle, From
  <2>2. available' >= available
    BY <1>1, <1>2, <1>3
  <2> QED
    BY <1>3, <1>5, <2>1, <2>2 DEF KeepsUnread
<1> QED
  BY <1>4, <1>5

\* ... and in "double" mode.
LEMMA DoubleExtends ==
  ASSUME TypeInv, NEW m \in [Slots -> Byte], NEW n \in Slots, WriteRing(m, Least(n, space)),
         head' = head
  PROVE  /\ KeepsUnread /\ available' = available + Least(n, space)
         /\ From(head, ring)' = Spliced(From(head, ring), available, FirstOf(m, Least(n, space)))
<1>1. RingTypes
  BY DEF TypeInv
<1>2. Least(n, space) \in Slots /\ Least(n, space) <= space
  BY <1>1, FitIs
<1>3. /\ available' = available + Least(n, space)
      /\ From(head, ring)' = Spliced(From(head, ring), available, FirstOf(m, Least(n, space)))
  BY <1>1, <1>2, WriteAppends
<1> QED
  BY <1>1, <1>2, <1>3, AppendedKeeps

LEMMA QueueStep ==
  ASSUME PlacedInv, [Next]_vars
  PROVE  \/ tail' = tail /\ IsSuffix(Unread', Unread)
         \/ head' = head /\ IsPrefix(Unread, Unread')
         \/ calls' # calls
         \/ (Overrun /\ ~ OthersRun') \/ damaged
<1>1. SUFFICES ASSUME ~ damaged, ~ (Overrun /\ ~ OthersRun'), calls' = calls,
                      ~ \E r \in Readers : Read(r)
               PROVE  KeepsUnread
  BY TypesStay, KeptIsPrefix, ReadIsSuffix DEF PlacedInv, TypeInv
<1>2. TypeInv /\ Placed /\ RingTypes
  BY <1>1 DEF PlacedInv, TypeInv
<1>3. ASSUME UNCHANGED <<ring, head, tail>> PROVE KeepsUnread
  BY <1>2, <1>3, UntouchedKeeps
<1>4. ASSUME StartReceive PROVE KeepsUnread
  <2>1. CASE ~ dma.open
    BY <1>3, <1>4, <2>1 DEF StartReceive
  <2>2. CASE dma.open
    <3>1. Enable(Target) /\ head' = head
      BY <1>4, <2>2 DEF StartReceive
    <3>2. /\ Target.from \in Slots /\ Target.to \in Receivers
          /\ Target.to = "ring" => Target.from = tail /\ empty
      BY <1>2, TargetType
    <3>3. Target.to = "ring" => mode # "bytes"
      BY <3>2 DEF Receivers
    <3> QED
      BY <1>2, <3>1, <3>2, <3>3, EnableKeeps DEF empty
  <2> QED
    BY <2>1, <2>2
<1>5. ASSUME Restart PROVE KeepsUnread
  <2>1. Enable(handler) /\ head' = head /\ handler.at = "enable" /\ handler.from \in Slots
    BY <1>2, <1>5 DEF Restart, TypeInv, LineTypes
  <2>2. handler.to = "ring" => mode = "single" /\ handler.from = head /\ empty
    BY <1>2, <2>1, PlacesOfModes DEF Placed, ExPlaced, empty
  <2> QED
    BY <1>2, <2>1, <2>2, EnableKeeps
<1>6. ASSUME PushByte PROVE KeepsUnread
  <2> DEFINE q == IF space = 0 THEN <<>> ELSE <<arrived'>>
  <2>1. ring' = Stored(ring, tail, q) /\ tail' = (tail + Len(q)) % N /\ head' = head
    BY <1>6 DEF PushByte
  <2>2. q = <<>> \/ (space # 0 /\ Len(q) = 1)
    OBVIOUS
  <2> HIDE DEF q
  <2>3. /\ Len(q) \in {0, 1} /\ available' = available + Len(q)
        /\ From(head, ring)' = Spliced(From(head, ring), available, q)
    BY <1>2, <2>1, <2>2, ByteAppends
  <2>4. Len(q) \in Slots
    BY <2>3, Numbers
  <2> QED
    BY <1>2, <2>1, <2>3, <2>4, AppendedKeeps
<1>7. ASSUME Land PROVE KeepsUnread
  <2>1. CASE dma.to = "ring"
    BY <1>2, <1>7, <2>1, LandInRing DEF Placed
  <2>2. CASE dma.to # "ring"
    BY <1>3, <1>7, <2>2 DEF Land
  <2> QED
    BY <2>1, <2>2
<1>8. ASSUME SwitchHalf PROVE KeepsUnread
  <2> DEFINE new == [mem EXCEPT ![dma.to] = Stored(mem[dma.to], dma.done, <<arrived'>>)]
  <2>1. WriteRing(new[CurrentHalf], Least(Half, space)) /\ head' = head
    BY <1>8 DEF SwitchHalf
  <2>2. new[CurrentHalf] \in [Slots -> Byte]
    BY <1>2, <1>8, HalfType
  <2> HIDE DEF new
  <2> QED
    BY <1>2, <2>1, <2>2, Numbers, DoubleExtends
<1>9. ASSUME Complete PROVE KeepsUnread
  <2>1. head' = head /\ handler.at = "wait" /\ messages > 0 /\ dma.done \in Slots
    BY <1>2, <1>9 DEF Complete, TypeInv, LineTypes
  <2>2. CASE dma.open /\ mode = "single"
    <3>1. CompleteSingle(dma.done)
      BY <1>9, <2>2 DEF Complete
    <3>2. dma.done \in Nat /\ space \in Nat
      <4>1. space \in Slots
        BY <1>2, Amounts
      <4> QED
        BY <2>1, <4>1, Numbers
    <3>4. handler' = [handler EXCEPT !.at = "start"]
          /\ handler \in [at : {"wait", "start", "enable"}, to : Memories, from : Slots]
      BY <1>2, <1>9, <2>2 DEF Complete, TypeInv, LineTypes
    <3>5. ~ OthersRun'
      BY <3>4 DEF OthersRun
    <3>3. dma.done <= space
      BY <1>1, <2>1, <2>2, <3>2, <3>5 DEF Overrun
    <3> QED
      BY <1>2, <2>1, <3>1, <3>3, SingleExtends
  <2>3. CASE dma.open /\ mode \notin {"single", "bytes"}
    <3>1. WriteRing(mem[CurrentHalf], Least(dma.done, space))
      BY <1>9, <2>3 DEF Complete, CompleteDouble
    <3>2. mem[CurrentHalf] \in [Slots -> Byte]
      BY <1>2 DEF CurrentHalf, RingTypes
    <3> QED
      BY <1>2, <2>1, <3>1, <3>2, DoubleExtends
  <2>4. CASE ~ (dma.open /\ mode # "bytes")
    BY <1>3, <1>9, <2>4 DEF Complete
  <2> QED
    BY <2>2, <2>3, <2>4
<1>10. ~ Clear
  <2>1. calls \in Nat
    BY <1>2, Numbers DEF TypeInv, DeviceTypes
  <2> QED
    BY <1>1, <2>1 DEF Clear
<1>11. \/ UNCHANGED <<ring, head, tail>> \/ Clear \/ StartReceive \/ PushByte \/ Land \/ SwitchHalf
       \/ Complete \/ Restart
  <2>1. CASE UNCHANGED vars
    BY <2>1 DEF vars, ring_vars
  <2>2. CASE \E r \in Readers : CallRead(r) \/ Continue(r) \/ Expire(r)
    BY <1>1, <2>2 DEF CallRead, Continue, Expire, Loop, Wait, Check, ClearFlag, ring_vars
  <2>3. CASE Closing \/ Opening
    BY <2>3 DEF Closing, Opening, Deinit, Close, SetClose, Open, PostEnable, ring_vars
  <2>4. CASE Arrives \/ Idle
    BY <2>4 DEF Arrives, Idle, Hold, Lose, LandInHalf, ring_vars
  <2>5. CASE Receiving
    BY <2>5 DEF Receiving, NextTarget
  <2> QED
    BY <2>1, <2>2, <2>3, <2>4, <2>5 DEF Next
<1> QED
  BY <1>3, <1>4, <1>5, <1>6, <1>7, <1>8, <1>9, <1>10, <1>11

LEMMA PlacedInvAtFirst == Init => PlacedInv
BY TypesAtFirst, PlacedAtFirst DEF PlacedInv

\* Whatever a reception writes and wherever it is placed, what is unread stays
\* as it is until it is read or cleared (RingIsQueue), with any number of readers.
THEOREM RingKeepsUnread == Spec => RingIsQueue
<1>1. Init => PlacedInv
  BY PlacedInvAtFirst
<1>2. PlacedInv /\ [Next]_vars => PlacedInv'
  BY PlacedInvStays
<1>3. PlacedInv /\ [Next]_vars =>
        [\/ tail' = tail /\ IsSuffix(Unread', Unread)
         \/ head' = head /\ IsPrefix(Unread, Unread')
         \/ calls' # calls
         \/ (Overrun /\ ~ OthersRun') \/ damaged]_vars
  BY QueueStep
<1> QED
  BY <1>1, <1>2, <1>3, PTL DEF Spec, RingIsQueue

-------------------------------------------------------------------------------
(* Nobody sleeps on data *)

\* Stream devices are read by one thread.
OneReader == \E r : Readers = {r}

\* A reader that is suspended has not been told, and one that is not going to be
\* told, suspended or about to be, found the ring empty.
AwakeInv ==
  ~ damaged /\ mode # "bytes" =>
    \A r \in Readers :
      /\ pc[r] = "suspended" => flags = {}
      /\ pc[r] \in {"wait", "suspended"} /\ flags = {} => empty

LEMMA AwakeStays ==
  ASSUME OneReader, TypeInv, AwakeInv, [Next]_vars
  PROVE  AwakeInv'
<1>1. SUFFICES ASSUME ~ damaged', mode' # "bytes"
               PROVE  \A r \in Readers :
                        /\ pc'[r] = "suspended" => flags' = {}
                        /\ pc'[r] \in {"wait", "suspended"} /\ flags' = {} => empty'
  BY DEF AwakeInv
<1>2. /\ ~ damaged /\ mode # "bytes"
      /\ \A r \in Readers : /\ pc[r] = "suspended" => flags = {}
                            /\ pc[r] \in {"wait", "suspended"} /\ flags = {} => empty
  BY <1>1, DamageStays, ModeStays DEF AwakeInv
<1>3. PICK r : Readers = {r}
  BY DEF OneReader
<1>4. /\ pc \in [Readers -> {"idle", "loop", "wait", "suspended", "read", "check", "clear"}]
      /\ flags \subseteq {"Receive_Finish", "Close"}
      /\ RingTypes
  BY DEF TypeInv, DeviceTypes
<1>5. SUFFICES /\ pc'[r] = "suspended" => flags' = {}
               /\ pc'[r] \in {"wait", "suspended"} /\ flags' = {} => empty'
  BY <1>3
<1> DEFINE Goal == /\ pc'[r] = "suspended" => flags' = {}
                   /\ pc'[r] \in {"wait", "suspended"} /\ flags' = {} => empty'
<1>6. r \in Readers /\ \A s \in Readers : s = r
  BY <1>3
<1>7. ASSUME UNCHANGED <<head, tail, flags, pc>> PROVE Goal
  BY <1>2, <1>6, <1>7 DEF empty
<1>8. ASSUME CallRead(r) \/ Loop(r) \/ Wait(r) \/ Expire(r) \/ Check(r) \/ ClearFlag(r) \/ Read(r)
      PROVE  Goal
  <2>1. CASE CallRead(r) \/ Expire(r) \/ Check(r) \/ ClearFlag(r) \/ Read(r)
    BY <1>4, <1>6, <2>1 DEF CallRead, Expire, Check, ClearFlag, Read, Waits, Goes
  <2>2. CASE Loop(r)
    BY <1>2, <1>4, <1>6, <2>2 DEF Loop, Waits, Goes, empty, ring_vars
  <2>3. CASE Wait(r)
    <3>1. /\ UNCHANGED <<head, tail, flags>>
          /\ pc[r] = "wait"
          /\ pc' = [pc EXCEPT ![r] = IF "Close" \in flags THEN "idle"
                                     ELSE IF "Receive_Finish" \in flags THEN "read"
                                     ELSE "suspended"]
      BY <2>3 DEF Wait, Waits, Goes, ring_vars
    <3>2. pc'[r] \in {"wait", "suspended"} => flags = {}
      BY <1>4, <1>6, <3>1
    <3> QED
      BY <1>2, <1>6, <3>1, <3>2 DEF empty
  <2> QED
    BY <1>8, <2>1, <2>2, <2>3
<1>9. ASSUME Clear PROVE Goal
  BY <1>2, <1>6, <1>9 DEF Clear, read_vars, empty
<1>10. ASSUME SetClose PROVE Goal
  BY <1>4, <1>6, <1>10 DEF SetClose
<1>11. ASSUME PostEnable PROVE Goal
  BY <1>1, <1>2, <1>6, <1>11 DEF PostEnable, read_vars, ring_vars, empty
<1>12. ASSUME StartReceive \/ Restart PROVE Goal
  <2>1. UNCHANGED <<head, flags, pc>>
    BY <1>12 DEF StartReceive, Restart, read_vars
  <2>2. tail' = tail
    <3>1. handler.from \in Slots /\ Target.from \in Slots
      BY TargetType DEF TypeInv, LineTypes
    <3> QED
      BY <1>2, <1>12, <3>1, EnableHolds DEF StartReceive, Restart
  <2> QED
    BY <1>7, <2>1, <2>2
<1>13. ASSUME Wakes PROVE Goal
  BY <1>4, <1>6, <1>13 DEF Wakes
<1>14. ASSUME Complete PROVE Goal
  <2>1. CASE ~ dma.open
    BY <1>7, <1>14, <2>1 DEF Complete
  <2>2. CASE dma.open /\ dma.done > 0
    BY <1>2, <1>13, <1>14, <2>2 DEF Complete
  <2>3. CASE dma.open /\ ~ (dma.done > 0)
    <3>1. /\ UNCHANGED <<head, flags, pc>>
          /\ \/ mode = "single" /\ CompleteSingle(dma.done)
             \/ mode # "single" /\ CompleteDouble(dma.done)
      BY <1>2, <1>14, <2>3 DEF Complete
    <3>2. dma.done = 0
      <4>1. dma.done \in Slots
        BY DEF TypeInv, LineTypes
      <4> QED
        BY <2>3, <4>1, Numbers DEF Slots
    <3>3. Least(0, space) = 0
      <4>1. Least(0, space) \in 0 .. N /\ Least(0, space) <= 0
        BY <1>4, FitIs, Numbers
      <4> QED
        BY <4>1, Numbers
    <3>4. tail' = After(tail, 0) /\ tail \in Slots
      BY <1>4, <3>1, <3>2, <3>3 DEF CompleteSingle, CompleteDouble, WriteRing, After, RingTypes
    <3>5. tail' = tail
      BY <3>4, SlotsAgree
    <3> QED
      BY <1>7, <3>1, <3>5
  <2> QED
    BY <2>1, <2>2, <2>3
<1>15. ASSUME PushByte PROVE Goal
  BY <1>2, <1>15 DEF PushByte
<1>16. ASSUME \/ UNCHANGED vars \/ Deinit \/ Close \/ Open \/ Hold \/ Lose \/ Land \/ LandInHalf
              \/ Idle \/ NextTarget
       PROVE  Goal
  BY <1>7, <1>16 DEF vars, ring_vars, read_vars, Deinit, Close, Open, Hold, Lose, Land, LandInHalf,
                     Idle, NextTarget
<1>17. SwitchHalf => Goal
  BY <1>13 DEF SwitchHalf
<1>18. (\E s \in Readers : CallRead(s) \/ Continue(s) \/ Expire(s)) => Goal
  BY <1>6, <1>8 DEF Continue
<1> HIDE DEF Goal
<1>19. Goal
  BY <1>9, <1>10, <1>11, <1>12, <1>14, <1>15, <1>16, <1>17, <1>18
     DEF Next, Closing, Opening, Receiving, Arrives
<1> QED
  BY <1>19 DEF Goal

\* With one reader no wake-up is lost between the ring and Receive_Finish: a
\* reader does not sleep while the ring has data (NoSleepOnData).
THEOREM NobodySleepsOnData == ASSUME OneReader PROVE Spec => []NoSleepOnData
<1>1. Init => TypeInv /\ AwakeInv
  BY TypesAtFirst DEF Init, AwakeInv
<1>2. TypeInv /\ AwakeInv /\ [Next]_vars => TypeInv' /\ AwakeInv'
  BY TypesStay, AwakeStays
<1>3. AwakeInv => NoSleepOnData
  BY DEF AwakeInv, NoSleepOnData
<1> QED
  BY <1>1, <1>2, <1>3, PTL DEF Spec

-------------------------------------------------------------------------------
(* Entries that rise *)

\* The first n entries of f rise, above low and not above high.
Rising(f, n, low, high) ==
  /\ \A i \in 0 .. n - 1 : low < f[i] /\ f[i] <= high
  /\ \A i \in 0 .. n - 1, j \in 0 .. n - 1 : i < j => f[i] < f[j]

\* The first m entries of f are below the first n of g.
Below(f, m, g, n) == \A i \in 0 .. m - 1, j \in 0 .. n - 1 : f[i] < g[j]

LEMMA FirstOfAt ==
  ASSUME NEW f, NEW p, NEW i \in 1 .. p
  PROVE  FirstOf(f, p)[i] = f[i - 1]
  BY DEF FirstOf

LEMMA RisingKept ==
  ASSUME NEW f \in [Slots -> Byte], NEW g \in [Slots -> Byte], NEW n \in 0 .. N,
         NEW low \in Int, NEW high \in Int, NEW top \in Int, high <= top,
         \A d \in 0 .. n - 1 : g[d] = f[d],
         Rising(f, n, low, high)
  PROVE  Rising(g, n, low, top)
<1>1. \A d \in 0 .. n - 1 : f[d] \in Int
  BY Numbers DEF Slots, Byte
<1> QED
  BY <1>1 DEF Rising

\* One more entry, b.
LEMMA RisingAdd ==
  ASSUME NEW f \in [Slots -> Byte], NEW n \in Slots, NEW low \in Int, NEW high \in Int,
         NEW b \in Int, high < b, low < b, Rising(f, n, low, high),
         NEW g, g = [f EXCEPT ![n] = b], NEW p, p = n + 1
  PROVE  Rising(g, p, low, b)
<1>1. n \in Nat /\ \A d \in 0 .. n - 1 : d \in Slots /\ d # n /\ f[d] \in Int
  BY Numbers DEF Slots, Byte
<1>2. g[n] = b /\ \A d \in 0 .. n - 1 : g[d] = f[d]
  BY <1>1
<1>3. \A d \in 0 .. p - 1 : d \in Int /\ d <= n /\ (d = n \/ d \in 0 .. n - 1)
  BY <1>1
<1>4. \A i \in 0 .. p - 1 : low < g[i] /\ g[i] <= b
  BY <1>1, <1>2, <1>3 DEF Rising
<1>5. \A i \in 0 .. p - 1, j \in 0 .. p - 1 : i < j => g[i] < g[j]
  <2>1. SUFFICES ASSUME NEW i \in 0 .. p - 1, NEW j \in 0 .. p - 1, i < j
                 PROVE  g[i] < g[j]
    OBVIOUS
  <2>2. i \in 0 .. n - 1
    BY <1>1, <1>3, <2>1
  <2>3. CASE j = n
    BY <1>1, <1>2, <2>2, <2>3 DEF Rising
  <2>4. CASE j \in 0 .. n - 1
    BY <1>2, <2>1, <2>2, <2>4 DEF Rising
  <2> QED
    BY <1>3, <2>3, <2>4
<1> QED
  BY <1>4, <1>5 DEF Rising

LEMMA BelowAdd ==
  ASSUME NEW f \in [Slots -> Byte], NEW m \in 0 .. N, NEW g \in [Slots -> Byte], NEW n \in Slots,
         NEW low \in Int, NEW high \in Int, NEW b \in Int, high < b,
         Rising(f, m, low, high), Below(f, m, g, n),
         NEW h, h = [g EXCEPT ![n] = b], NEW p, p = n + 1
  PROVE  Below(f, m, h, p)
<1>1. n \in Nat /\ \A d \in 0 .. n - 1 : d \in Slots /\ d # n
  BY Numbers DEF Slots, Byte
<1>2. \A i \in 0 .. m - 1 : f[i] \in Int
  BY Numbers DEF Slots, Byte
<1>3. \A d \in 0 .. p - 1 : d = n \/ d \in 0 .. n - 1
  BY <1>1
<1>4. SUFFICES ASSUME NEW i \in 0 .. m - 1, NEW j \in 0 .. p - 1
               PROVE  f[i] < h[j]
  BY DEF Below
<1>5. CASE j = n
  BY <1>2, <1>5 DEF Rising
<1>6. CASE j \in 0 .. n - 1
  BY <1>1, <1>6 DEF Below
<1> QED
  BY <1>3, <1>5, <1>6

\* What the first k of g, put after the m of f, are.
LEMMA SplicedAt ==
  ASSUME NEW f \in [Slots -> Byte], NEW m \in Slots, NEW g \in [Slots -> Byte],
         NEW k \in 0 .. N, m + k <= N, NEW h, h = Spliced(f, m, FirstOf(g, k))
  PROVE  /\ \A d \in 0 .. m - 1 : h[d] = f[d]
         /\ \A d \in m .. m + k - 1 : h[d] = g[d - m]
<1>1. m \in Nat /\ k \in Nat
  BY Numbers DEF Slots
<1>2. Len(FirstOf(g, k)) = k
  BY FirstOfType
<1>3. ASSUME NEW d \in 0 .. m - 1 PROVE h[d] = f[d]
  <2>1. d \in Slots /\ ~ (d >= m)
    BY Numbers DEF Slots
  <2> QED
    BY <2>1 DEF Spliced
<1>4. ASSUME NEW d \in m .. m + k - 1 PROVE h[d] = g[d - m]
  <2>1. d \in Slots /\ d >= m /\ d < m + Len(FirstOf(g, k))
    BY <1>1, <1>2, Numbers DEF Slots
  <2>2. h[d] = FirstOf(g, k)[d - m + 1]
    BY <2>1 DEF Spliced
  <2>3. PICK i \in 1 .. k : i = d - m + 1
    BY <1>1
  <2>4. FirstOf(g, k)[i] = g[i - 1] /\ i - 1 = d - m
    BY <1>1, <2>3, FirstOfAt
  <2> QED
    BY <2>2, <2>3, <2>4
<1> QED
  BY <1>3, <1>4

\* The first k of g come after those of f.
LEMMA RisingJoin ==
  ASSUME NEW f \in [Slots -> Byte], NEW m \in Slots, NEW g \in [Slots -> Byte], NEW n \in 0 .. N,
         NEW k \in 0 .. n, NEW low \in Int, NEW high \in Int,
         Rising(f, m, low, high), Rising(g, n, low, high), Below(f, m, g, n),
         NEW h, NEW p, p = m + k,
         \A d \in 0 .. m - 1 : h[d] = f[d],
         \A d \in m .. m + k - 1 : h[d] = g[d - m]
  PROVE  Rising(h, p, low, high)
<1>1. m \in Nat /\ k \in Nat /\ k <= n /\ n \in Nat
  BY Numbers DEF Slots
<1>5. \A d \in 0 .. p - 1 : d \in 0 .. m - 1 \/ (d \in m .. m + k - 1 /\ d - m \in 0 .. n - 1)
  BY <1>1
<1>6. \A i \in 0 .. p - 1 : low < h[i] /\ h[i] <= high
  BY <1>5 DEF Rising
<1>7. \A i \in 0 .. p - 1, j \in 0 .. p - 1 : i < j => h[i] < h[j]
  <2>1. SUFFICES ASSUME NEW i \in 0 .. p - 1, NEW j \in 0 .. p - 1, i < j
                 PROVE  h[i] < h[j]
    OBVIOUS
  <2>2. CASE j \in 0 .. m - 1
    <3>1. i \in 0 .. m - 1
      BY <1>1, <2>1, <2>2
    <3> QED
      BY <2>1, <2>2, <3>1 DEF Rising
  <2>3. CASE i \in 0 .. m - 1 /\ j \in m .. m + k - 1
    <3>1. j - m \in 0 .. n - 1
      BY <1>1, <2>3
    <3> QED
      BY <2>3, <3>1 DEF Below
  <2>4. CASE i \in m .. m + k - 1 /\ j \in m .. m + k - 1
    <3>1. i - m \in 0 .. n - 1 /\ j - m \in 0 .. n - 1 /\ i - m < j - m
      BY <1>1, <2>1, <2>4
    <3> QED
      BY <2>4, <3>1 DEF Rising
  <2> QED
    BY <1>1, <1>5, <2>1, <2>2, <2>3, <2>4
<1> QED
  BY <1>6, <1>7 DEF Rising

LEMMA RisingSplice ==
  ASSUME NEW f \in [Slots -> Byte], NEW m \in Slots, NEW g \in [Slots -> Byte], NEW n \in 0 .. N,
         NEW k \in 0 .. n, m + k <= N, NEW low \in Int, NEW high \in Int,
         Rising(f, m, low, high), Rising(g, n, low, high), Below(f, m, g, n),
         NEW h, h = Spliced(f, m, FirstOf(g, k)), NEW p, p = m + k
  PROVE  Rising(h, p, low, high)
<1>1. k \in 0 .. N
  BY Numbers
<1>2. /\ \A d \in 0 .. m - 1 : h[d] = f[d]
      /\ \A d \in m .. m + k - 1 : h[d] = g[d - m]
  BY <1>1, SplicedAt
<1> QED
  BY <1>2, RisingJoin

-------------------------------------------------------------------------------
(* What is read is in the order of arrival *)

\* The last byte that went where DMA or the interrupt puts it.
taken == IF rdr = 0 THEN arrived ELSE arrived - 1

\* What the stream has taken, in the order it was put there.
Flight == IF dma.to = "ring" THEN From(head, ring) ELSE mem[dma.to]

\* The receive register holds the byte that arrived last, while nothing takes it.
RegisterInv == rdr # 0 => rdr = arrived /\ ~ dma.on

\* What is unread is later than what was read, and in order.
Queued == ~ misread /\ last <= taken /\ Rising(From(head, ring), available, last, taken)

\* What is being received is later than what is unread, and in order.
Flying ==
  OthersRun /\ dma.to # "none" =>
    /\ Rising(Flight, dma.done, last, taken)
    /\ Below(From(head, ring), available, Flight, dma.done)

OrderInv == RegisterInv /\ (~ damaged => Queued /\ Flying)

LEMMA RegisterStays ==
  ASSUME TypeInv, RegisterInv, [Next]_vars
  PROVE  RegisterInv'
<1>1. dma \in [open : BOOLEAN, on : BOOLEAN, to : Memories, from : Slots, size : Slots, done : Slots]
  BY DEF TypeInv, LineTypes
<1>2. ASSUME UNCHANGED <<rdr, arrived, dma>> PROVE RegisterInv'
  BY <1>2 DEF RegisterInv
<1>3. ASSUME UNCHANGED vars PROVE RegisterInv'
  BY <1>2, <1>3 DEF vars, line_vars
<1>4. ASSUME NEW r \in Readers, CallRead(r) \/ Continue(r) \/ Expire(r) PROVE RegisterInv'
  BY <1>2, <1>4 DEF CallRead, Continue, Expire, Loop, Wait, Read, Check, ClearFlag, line_vars
<1>5. ASSUME Clear \/ Close \/ SetClose \/ PostEnable \/ Complete \/ NextTarget PROVE RegisterInv'
  BY <1>2, <1>5 DEF Clear, Close, SetClose, PostEnable, Complete, NextTarget, line_vars
<1>6. ASSUME Deinit \/ Open PROVE RegisterInv'
  BY <1>6 DEF Deinit, Open, Stopped, RegisterInv
<1>7. ASSUME StartReceive \/ Restart PROVE RegisterInv'
  <2>1. CASE UNCHANGED <<rdr, arrived, dma>>
    BY <1>2, <2>1
  <2>2. CASE rdr' = 0
    BY <2>2 DEF RegisterInv
  <2> QED
    BY <1>7, <2>1, <2>2 DEF StartReceive, Restart, Enable
<1>8. ASSUME Hold PROVE RegisterInv'
  BY <1>8 DEF Hold, RegisterInv
<1>9. ASSUME Lose PROVE RegisterInv'
  BY <1>2, <1>9 DEF Lose
<1>10. ASSUME PushByte \/ Land \/ LandInHalf \/ SwitchHalf PROVE RegisterInv'
  <2>1. dma.on /\ rdr' = rdr
    BY <1>10 DEF PushByte, Land, LandInHalf, SwitchHalf
  <2> QED
    BY <2>1 DEF RegisterInv
<1>11. ASSUME Idle PROVE RegisterInv'
  <2>1. UNCHANGED <<rdr, arrived>>
    BY <1>11 DEF Idle
  <2>2. CASE dma' = dma
    BY <2>1, <2>2 DEF RegisterInv
  <2>3. CASE dma' # dma
    <3>1. (mode = "bytes" /\ dma.on) \/ dma.done > 0
      BY <1>11, <2>3 DEF Idle
    <3>2. dma' = [dma EXCEPT !.on = (mode = "bytes")]
      BY <1>11, <3>1 DEF Idle
    <3>3. dma'.on => mode = "bytes"
      BY <1>1, <3>2
    <3>4. mode = "bytes" => dma.done = 0
      <4>1. mode = "bytes" => dma.to = "none"
        BY DEF TypeInv, LineTypes, PlaceInv, Receivers
      <4> QED
        BY <4>1, PlacesOfModes
    <3>5. dma'.on => dma.on
      <4>1. SUFFICES ASSUME dma'.on PROVE dma.on
        OBVIOUS
      <4>2. mode = "bytes" /\ ~ (dma.done > 0)
        BY <3>3, <3>4, <4>1
      <4> QED
        BY <3>1, <4>2
    <3> QED
      BY <2>1, <3>5 DEF RegisterInv
  <2> QED
    BY <2>2, <2>3
<1> QED
  BY <1>3, <1>4, <1>5, <1>6, <1>7, <1>8, <1>9, <1>10, <1>11
     DEF Next, Closing, Opening, Receiving, Arrives

LEMMA OrderTypes ==
  ASSUME TypeInv
  PROVE  /\ taken \in Int /\ last \in Int /\ arrived \in Int /\ taken <= arrived
         /\ From(head, ring) \in [Slots -> Byte] /\ available \in Slots
         /\ dma.done \in Slots
         /\ dma.to # "none" => Flight \in [Slots -> Byte]
<1>1. RingTypes /\ arrived \in Nat /\ last \in Nat /\ dma.done \in Slots
  BY Numbers DEF TypeInv, LineTypes, HistoryTypes
<1>2. available \in Slots /\ head \in Slots /\ ring \in [Slots -> Byte]
  BY <1>1, Amounts DEF RingTypes
<1>3. From(head, ring) \in [Slots -> Byte]
  BY <1>2, SlotsAgree DEF From
<1>4. dma.to \in {"none", "ring", "ex", "first", "second"}
  BY PlacesOfModes
<1>5. dma.to # "none" => Flight \in [Slots -> Byte]
  BY <1>1, <1>3, <1>4 DEF Flight, RingTypes
<1> QED
  BY <1>1, <1>2, <1>3, <1>5 DEF taken

LEMMA OrderTypesAfter ==
  TypeInv' => (/\ taken \in Int /\ last \in Int /\ arrived \in Int /\ taken <= arrived
               /\ From(head, ring) \in [Slots -> Byte] /\ available \in Slots
               /\ dma.done \in Slots
               /\ dma.to # "none" => Flight \in [Slots -> Byte])'
BY OrderTypes, PTL

\* What is unread stays, and what was taken grows.
LEMMA QueuedKept ==
  ASSUME TypeInv, TypeInv', Queued, misread' = misread, last' = last, taken <= taken',
         available' <= available,
         \A d \in 0 .. available' - 1 : From(head, ring)'[d] = From(head, ring)[d]
  PROVE  Queued'
<1> DEFINE f == From(head, ring)
           g == From(head, ring)'
           n == available
           p == available'
           t == taken'
<1>1. f \in [Slots -> Byte] /\ n \in Slots /\ taken \in Int /\ last \in Int
  BY OrderTypes
<1>2. g \in [Slots -> Byte] /\ p \in Slots /\ t \in Int
  BY OrderTypesAfter
<1>3. Rising(f, n, last, taken)
  BY DEF Queued
<1>4. p <= n /\ taken <= t /\ \A d \in 0 .. p - 1 : g[d] = f[d]
  OBVIOUS
<1> HIDE DEF f, g, n, p, t
<1>5. n \in Nat /\ p \in Nat /\ p \in 0 .. N /\ \A d \in 0 .. p - 1 : d \in 0 .. n - 1
  BY <1>1, <1>2, <1>4, Numbers DEF Slots
<1>6. Rising(f, p, last, taken)
  BY <1>3, <1>5 DEF Rising
<1>7. Rising(g, p, last, t)
  BY <1>1, <1>2, <1>4, <1>5, <1>6, RisingKept
<1>8. last <= t
  BY <1>1, <1>2, <1>4 DEF Queued
<1> QED
  BY <1>7, <1>8 DEF Queued, g, p, t

\* A step that moves no byte.
LEMMA OrderFrame ==
  ASSUME TypeInv, TypeInv', Queued, Flying, UNCHANGED <<ring, head, tail, mem, misread, last>>,
         dma'.to = dma.to, dma'.done = dma.done, OthersRun' => OthersRun, taken <= taken'
  PROVE  Queued' /\ Flying'
<1>1. /\ From(head, ring) \in [Slots -> Byte] /\ available \in Slots /\ dma.done \in Slots
      /\ taken \in Int /\ last \in Int
      /\ dma.to # "none" => Flight \in [Slots -> Byte]
  BY OrderTypes
<1>2. taken' \in Int
  BY OrderTypesAfter
<1>3. available' = available /\ From(head, ring)' = From(head, ring) /\ Flight' = Flight
  BY DEF available, From, Flight
<1>4. available \in Nat
  BY <1>1, Numbers
<1>5. Queued'
  BY <1>3, <1>4, QueuedKept
<1>6. ASSUME OthersRun', dma'.to # "none"
      PROVE  /\ Rising(Flight', dma'.done, last', taken')
             /\ Below(From(head, ring)', available', Flight', dma'.done)
  <2>1. /\ Rising(Flight, dma.done, last, taken)
        /\ Below(From(head, ring), available, Flight, dma.done)
    BY <1>6 DEF Flying
  <2>2. dma.done \in 0 .. N /\ Flight \in [Slots -> Byte]
    BY <1>1, <1>6, Numbers DEF Slots
  <2>3. Rising(Flight, dma.done, last, taken')
    BY <1>1, <1>2, <2>1, <2>2, RisingKept
  <2> QED
    BY <1>3, <2>1, <2>3
<1> QED
  BY <1>5, <1>6 DEF Flying

\* A step of which nothing is in flight afterwards.
LEMMA NothingFlies ==
  ASSUME dma'.to = "none" \/ ~ OthersRun'
  PROVE  Flying'
BY DEF Flying

\* The first k of f are taken out; the last of them is bottom.
LEMMA RisingDrop ==
  ASSUME NEW f \in [Slots -> Byte], NEW n \in Slots, NEW k \in 0 .. n,
         NEW low \in Int, NEW high \in Int, low <= high, Rising(f, n, low, high),
         NEW g, NEW p, p = n - k, \A d \in 0 .. p - 1 : g[d] = f[d + k],
         NEW bottom, bottom = IF k = 0 THEN low ELSE f[k - 1]
  PROVE  Rising(g, p, bottom, high) /\ bottom <= high
<1>1. n \in Nat /\ k \in Nat /\ k <= n /\ p \in Nat
  BY Numbers DEF Slots
<1>2. \A d \in 0 .. n - 1 : d \in Slots /\ f[d] \in Int
  BY <1>1, Numbers DEF Slots, Byte
<1>3. \A d \in 0 .. p - 1 : d + k \in 0 .. n - 1 /\ (k # 0 => k - 1 \in 0 .. n - 1 /\ k - 1 < d + k)
  BY <1>1
<1>4. bottom \in Int /\ bottom <= high
  BY <1>1, <1>2 DEF Rising
<1>5. \A i \in 0 .. p - 1 : bottom < g[i] /\ g[i] <= high
  BY <1>2, <1>3, <1>4 DEF Rising
<1>6. \A i \in 0 .. p - 1, j \in 0 .. p - 1 : i < j => g[i] < g[j]
  <2>1. SUFFICES ASSUME NEW i \in 0 .. p - 1, NEW j \in 0 .. p - 1, i < j
                 PROVE  g[i] < g[j]
    OBVIOUS
  <2>2. i + k \in 0 .. n - 1 /\ j + k \in 0 .. n - 1 /\ i + k < j + k
    BY <1>1, <1>3, <2>1
  <2> QED
    BY <2>2 DEF Rising
<1> QED
  BY <1>4, <1>5, <1>6 DEF Rising

LEMMA BelowDrop ==
  ASSUME NEW f \in [Slots -> Byte], NEW n \in Slots, NEW k \in 0 .. n,
         NEW low \in Int, NEW high \in Int,
         NEW h, NEW m, Rising(h, m, low, high), Below(f, n, h, m),
         NEW g, NEW p, p = n - k, \A d \in 0 .. p - 1 : g[d] = f[d + k],
         NEW bottom, bottom = IF k = 0 THEN low ELSE f[k - 1]
  PROVE  Rising(h, m, bottom, high) /\ Below(g, p, h, m)
<1>1. n \in Nat /\ k \in Nat /\ k <= n /\ p \in Nat
  BY Numbers DEF Slots
<1>2. \A d \in 0 .. p - 1 : d + k \in 0 .. n - 1
  BY <1>1
<1>3. k # 0 => k - 1 \in 0 .. n - 1
  BY <1>1
<1>4. Below(g, p, h, m)
  BY <1>2 DEF Below
<1>5. \A j \in 0 .. m - 1 : bottom < h[j]
  BY <1>3 DEF Below, Rising
<1> QED
  BY <1>4, <1>5 DEF Rising

\* What a reader is given, and that it is in order.
LEMMA GivenInOrder ==
  ASSUME TypeInv, Queued, NEW r \in Readers, Read(r)
  PROVE  LET n == Least(todo[r], available) IN
         /\ last' = IF n = 0 THEN last ELSE From(head, ring)[n - 1]
         /\ misread' = misread
<1> DEFINE n == Least(todo[r], available)
           got == [i \in 1 .. n |-> ring[(head + i - 1) % N]]
           f == From(head, ring)
<1>1. RingTypes /\ head \in Slots /\ available \in Slots
  BY Amounts DEF TypeInv, RingTypes
<1>2. n \in 0 .. available /\ available \in Nat
  BY <1>1, ReadTakes, Numbers
<1>3. ASSUME NEW i \in 1 .. n PROVE got[i] = f[i - 1]
  <2>1. i - 1 \in Slots
    BY <1>1, <1>2, Numbers DEF Slots
  <2>2. head + i - 1 = head + (i - 1)
    BY <1>1, <2>1, Numbers DEF Slots
  <2> QED
    BY <2>1, <2>2 DEF From, After
<1>4. /\ last' = IF n = 0 THEN last ELSE got[n]
      /\ misread' = (misread \/ \E i \in 1 .. n : got[i] <= (IF i = 1 THEN last ELSE got[i - 1]))
  BY DEF Read
<1>5. Rising(f, available, last, taken) /\ ~ misread /\ misread \in BOOLEAN
  BY DEF Queued, TypeInv, HistoryTypes
<1>6. \A d \in 0 .. available - 1 : f[d] \in Int
  BY OrderTypes, Numbers DEF Slots, Byte
<1>7. last \in Int
  BY OrderTypes
<1> HIDE DEF n, got, f
<1>8. n # 0 => n \in 1 .. n
  BY <1>2
<1>9. last' = IF n = 0 THEN last ELSE f[n - 1]
  BY <1>3, <1>4, <1>8
<1>10. ASSUME NEW i \in 1 .. n PROVE ~ (got[i] <= (IF i = 1 THEN last ELSE got[i - 1]))
  <2>1. i - 1 \in 0 .. available - 1 /\ got[i] = f[i - 1] /\ f[i - 1] \in Int
    BY <1>2, <1>3, <1>6
  <2>2. CASE i = 1
    BY <1>5, <1>7, <2>1, <2>2 DEF Rising
  <2>3. CASE i # 1
    <3>1. i - 1 \in 1 .. n
      BY <1>2, <2>3
    <3>2. got[i - 1] = f[i - 1 - 1] /\ i - 1 - 1 \in 0 .. available - 1 /\ i - 1 - 1 < i - 1
      BY <1>2, <1>3, <3>1
    <3>3. f[i - 1 - 1] < f[i - 1] /\ f[i - 1 - 1] \in Int
      BY <1>5, <1>6, <2>1, <3>2 DEF Rising
    <3> QED
      BY <2>1, <2>3, <3>2, <3>3
  <2> QED
    BY <2>2, <2>3
<1>11. misread' = misread
  BY <1>4, <1>5, <1>10
<1> QED
  BY <1>9, <1>11 DEF n, f

LEMMA ReadOrder ==
  ASSUME TypeInv, TypeInv', RingPlaced, Queued, Flying, NEW r \in Readers, Read(r)
  PROVE  Queued' /\ Flying'
<1> DEFINE k == Least(todo[r], available)
           f == From(head, ring)
           g == From(head, ring)'
           n == available
           p == available'
           bottom == last'
<1>1. UNCHANGED <<mem, rdr, arrived, dma, handler>> /\ OthersRun
  BY DEF Read, Goes, line_vars
<1>2. taken' = taken /\ OthersRun' = OthersRun
  BY <1>1 DEF taken, OthersRun
<1>3. /\ f \in [Slots -> Byte] /\ n \in Slots /\ taken \in Int /\ last \in Int
      /\ dma.done \in Slots
  BY OrderTypes
<1>4. k \in 0 .. n /\ p = n - k /\ \A d \in 0 .. n - k - 1 : g[d] = f[d + k]
  BY ReadTakes
<1>5. bottom = (IF k = 0 THEN last ELSE f[k - 1]) /\ misread' = misread
  BY GivenInOrder
<1>6. last <= taken /\ Rising(f, n, last, taken) /\ ~ misread
  BY DEF Queued
<1>7. \A d \in 0 .. p - 1 : g[d] = f[d + k]
  BY <1>4
<1>8. Rising(g, p, bottom, taken) /\ bottom <= taken
  <2> HIDE DEF k, f, g, n, p, bottom
  <2> QED
    BY <1>3, <1>4, <1>5, <1>6, <1>7, RisingDrop
<1>9. Queued'
  BY <1>2, <1>5, <1>6, <1>8 DEF Queued
<1>10. CASE dma.to = "ring"
  <2>1. empty
    BY <1>1, <1>10 DEF RingPlaced
  <2>2. UNCHANGED <<ring, head, tail, last>>
    BY <2>1, ReadOfEmpty
  <2> QED
    BY <1>1, <1>2, <1>3, <1>5, <2>2, OrderFrame
<1>11. CASE dma.to = "none"
  BY <1>1, <1>9, <1>11, NothingFlies
<1>12. CASE dma.to \notin {"none", "ring"}
  <2> DEFINE h == mem[dma.to]
             m == dma.done
  <2>1. Flight = h /\ Flight' = h
    BY <1>1, <1>12 DEF Flight
  <2>2. Rising(h, m, last, taken) /\ Below(f, n, h, m)
    BY <1>1, <1>12, <2>1 DEF Flying
  <2>3. Rising(h, m, bottom, taken) /\ Below(g, p, h, m)
    <3> HIDE DEF k, f, g, n, p, bottom, h, m
    <3> QED
      BY <1>3, <1>4, <1>5, <1>7, <2>2, BelowDrop
  <2>4. Flying'
    BY <1>1, <1>2, <2>1, <2>3 DEF Flying
  <2> QED
    BY <1>9, <2>4
<1> QED
  BY <1>10, <1>11, <1>12

\* Clear: nothing is unread, and the reception that is in flight stays where it is.
LEMMA ClearOrder ==
  ASSUME TypeInv, TypeInv', RingPlaced, Queued, Flying, Clear, ~ damaged'
  PROVE  Queued' /\ Flying'
<1>1. /\ UNCHANGED <<mem, last, misread, rdr, arrived, dma, handler>> /\ OthersRun
      /\ head' = 0 /\ tail' = 0 /\ (dma.to = "ring" => dma.from = 0 /\ ring' = ring)
  BY DEF Clear, read_vars, line_vars
<1>2. taken' = taken /\ OthersRun' = OthersRun
  BY <1>1 DEF taken, OthersRun
<1>3. available' = 0
  <2>1. head' \in Slots
    BY <1>1, Numbers
  <2>2. Ahead(head', head') = 0
    BY <2>1, SlotsAgree
  <2> QED
    BY <1>1, <2>2 DEF available, Ahead
<1>4. Queued'
  BY <1>1, <1>2, <1>3 DEF Queued, Rising
<1>5. CASE dma.to = "ring"
  <2>1. head = dma.from /\ empty
    BY <1>1, <1>5 DEF RingPlaced
  <2>2. head' = head /\ tail' = tail
    BY <1>1, <1>5, <2>1 DEF empty
  <2>3. taken \in Int
    BY OrderTypes
  <2> QED
    BY <1>1, <1>2, <1>5, <2>2, <2>3, OrderFrame
<1>6. CASE dma.to = "none"
  BY <1>1, <1>4, <1>6, NothingFlies
<1>7. CASE dma.to \notin {"none", "ring"}
  <2>1. Flight' = Flight
    BY <1>1, <1>7 DEF Flight
  <2>2. Rising(Flight, dma.done, last, taken)
    BY <1>1, <1>7 DEF Flying
  <2>3. Flying'
    BY <1>1, <1>2, <1>3, <2>1, <2>2 DEF Flying, Below
  <2> QED
    BY <1>4, <2>3
<1> QED
  BY <1>5, <1>6, <1>7

\* Deinit and Open: nothing is in flight any more.
LEMMA StopOrder ==
  ASSUME TypeInv, TypeInv', Queued, Deinit \/ Open
  PROVE  Queued' /\ Flying'
<1>1. /\ UNCHANGED <<ring, head, tail, misread, last, arrived>> /\ dma'.to = "none"
      /\ (rdr' = 0 \/ rdr' = rdr)
  BY DEF Deinit, Open, Stopped, ring_vars, read_vars
<1>2. available' = available /\ From(head, ring)' = From(head, ring)
  BY <1>1 DEF available, From
<1>3. taken <= taken' /\ available \in Nat
  <2>1. taken \in Int /\ arrived \in Int /\ taken <= arrived /\ available \in Slots
    BY OrderTypes
  <2> QED
    BY <1>1, <2>1, Numbers DEF taken
<1>4. Queued'
  BY <1>1, <1>2, <1>3, QueuedKept
<1> QED
  BY <1>1, <1>4, NothingFlies

LEMMA SplicedByte ==
  ASSUME NEW S, NEW f \in [Slots -> S], NEW n \in Slots, NEW b
  PROVE  Spliced(f, n, <<b>>) = [f EXCEPT ![n] = b]
<1>1. Len(<<b>>) = 1 /\ <<b>>[1] = b
  OBVIOUS
<1>2. \A d \in Slots : (d >= n /\ d < n + 1) <=> d = n
  BY Numbers DEF Slots
<1>3. n - n + 1 = 1
  BY Numbers DEF Slots
<1> QED
  BY <1>1, <1>2, <1>3 DEF Spliced

\* A byte b, or none, is appended to what is unread.
LEMMA ByteQueued ==
  ASSUME TypeInv, TypeInv', Queued, NEW b \in Int, taken < b, b <= taken',
         NEW q, q = <<>> \/ q = <<b>>, available' = available + Len(q),
         From(head, ring)' = Spliced(From(head, ring), available, q),
         last' = last, misread' = misread
  PROVE  Queued'
<1> DEFINE f == From(head, ring)
           g == From(head, ring)'
           n == available
           p == available'
           t == taken'
<1>1. f \in [Slots -> Byte] /\ n \in Slots /\ taken \in Int /\ last \in Int
  BY OrderTypes
<1>2. g \in [Slots -> Byte] /\ p \in Slots /\ t \in Int
  BY OrderTypesAfter
<1>3. Rising(f, n, last, taken) /\ last <= taken /\ ~ misread
  BY DEF Queued
<1>4. taken < b /\ b <= t /\ p = n + Len(q) /\ g = Spliced(f, n, q)
  OBVIOUS
<1>5. n \in Nat /\ p \in 0 .. N
  BY <1>1, <1>2, Numbers DEF Slots
<1>6. CASE q = <<>>
  <2>1. Len(q) = 0 /\ p = n
    BY <1>4, <1>5, <1>6
  <2>2. \A d \in 0 .. n - 1 : g[d] = f[d]
    <3> HIDE DEF f, g, n, p, t
    <3>1. \A d \in 0 .. n - 1 : d \in Slots /\ ~ (d >= n)
      BY <1>1, Numbers DEF Slots
    <3> QED
      BY <1>4, <3>1 DEF Spliced
  <2>3. taken <= t /\ p <= n
    BY <1>1, <1>2, <1>4, <1>5, <2>1
  <2> QED
    BY <2>1, <2>2, <2>3, QueuedKept
<1>7. CASE q = <<b>>
  <2> HIDE DEF f, g, n, p, t
  <2>1. Len(q) = 1 /\ p = n + 1
    BY <1>4, <1>7
  <2>2. g = [f EXCEPT ![n] = b]
    BY <1>1, <1>4, <1>7, SplicedByte
  <2>3. last < b
    BY <1>1, <1>3, <1>4
  <2>4. Rising(g, p, last, b)
    BY <1>1, <1>3, <1>4, <2>1, <2>2, <2>3, RisingAdd
  <2>5. b <= b
    OBVIOUS
  <2>6. Rising(g, p, last, t)
    BY <1>1, <1>2, <1>4, <1>5, <2>4, RisingKept
  <2>7. last <= t
    BY <1>1, <1>2, <1>3, <1>4
  <2> QED
    BY <1>3, <2>6, <2>7 DEF Queued, g, p, t
<1> QED
  BY <1>6, <1>7

\* received_byte_callback: the byte that came in is later than all that came.
LEMMA PushOrder ==
  ASSUME TypeInv, TypeInv', RegisterInv, Queued, PushByte
  PROVE  Queued' /\ Flying'
<1> DEFINE q == IF space = 0 THEN <<>> ELSE <<arrived'>>
<1>1. /\ mode = "bytes" /\ dma.on /\ arrived' = arrived + 1
      /\ UNCHANGED <<head, last, misread, rdr, dma>>
      /\ ring' = Stored(ring, tail, q) /\ tail' = (tail + Len(q)) % N
  BY DEF PushByte, NextByte, read_vars
<1>2. q = <<>> \/ (space # 0 /\ Len(q) = 1)
  OBVIOUS
<1>3. q = <<>> \/ q = <<arrived'>>
  OBVIOUS
<1>4. RingTypes
  BY DEF TypeInv
<1>5. arrived \in Int /\ arrived' \in Int
  BY OrderTypes, <1>1
<1>6. taken = arrived /\ taken' = arrived'
  BY <1>1 DEF RegisterInv, taken
<1>7. taken < arrived' /\ arrived' <= taken'
  BY <1>1, <1>5, <1>6
<1> HIDE DEF q
<1>8. /\ available' = available + Len(q)
      /\ From(head, ring)' = Spliced(From(head, ring), available, q)
  BY <1>1, <1>2, <1>4, ByteAppends
<1>9. Queued'
  BY <1>1, <1>3, <1>5, <1>7, <1>8, ByteQueued
<1>10. dma'.to = "none"
  BY <1>1 DEF TypeInv, LineTypes, PlaceInv, Receivers
<1> QED
  BY <1>9, <1>10, NothingFlies

\* One byte, later than all that is unread, is the first of a reception.
LEMMA FirstFlies ==
  ASSUME NEW f \in [Slots -> Byte], NEW n \in 0 .. N, NEW low \in Int, NEW high \in Int,
         Rising(f, n, low, high), NEW b \in Int, low < b, high < b,
         NEW g, g[0] = b
  PROVE  Rising(g, 1, low, b) /\ Below(f, n, g, 1)
<1>1. \A j \in 0 .. 1 - 1 : j = 0
  OBVIOUS
<1>2. \A i \in 0 .. n - 1 : f[i] \in Int
  BY Numbers DEF Slots, Byte
<1>3. Rising(g, 1, low, b)
  BY <1>1 DEF Rising
<1>4. Below(f, n, g, 1)
  BY <1>1, <1>2 DEF Below, Rising
<1> QED
  BY <1>3, <1>4

\* A reception that starts: the byte that was held is in it, or in the ring.
LEMMA EnableOrder ==
  ASSUME TypeInv, TypeInv', RegisterInv, Queued, NEW t, Enable(t),
         t.to \in Receivers \ {"second"}, t.from \in Slots,
         UNCHANGED <<mode, head, last, misread, arrived>>,
         t.to = "ring" => t.from = head /\ empty
  PROVE  Queued' /\ Flying'
<1>1. mode \in {"bytes", "single", "double"}
  BY SizeIs
<1>2. /\ mode = "bytes" => t.to = "none"
      /\ mode # "bytes" => t.to \in {"ring", "ex", "first"}
  BY <1>1 DEF Receivers
<1>3. Started(t)
  BY <1>2, <1>1, EnableStarts DEF Memories
<1>4. /\ taken \in Int /\ arrived \in Int /\ last \in Int /\ available \in Slots /\ available \in Nat
      /\ head \in Slots /\ From(head, ring) \in [Slots -> Byte] /\ RingTypes /\ available \in 0 .. N
  BY OrderTypes, Numbers DEF Slots, TypeInv, RingTypes
<1>5. /\ taken' = arrived /\ taken <= taken' /\ rdr' = 0
      /\ rdr # 0 => rdr = arrived /\ taken < rdr /\ rdr <= taken' /\ rdr \in Int
  BY <1>3, <1>4 DEF Started, RegisterInv, taken
<1>6. CASE mode = "bytes"
  <2> DEFINE q == IF space = 0 \/ rdr = 0 THEN <<>> ELSE <<rdr>>
  <2>1. t.to # "ring"
    BY <1>2, <1>6
  <2>2. /\ available' = available + Len(q)
        /\ From(head, ring)' = Spliced(From(head, ring), available, q)
    BY <1>6, <2>1, EnableAppends
  <2>3. q = <<>> \/ (rdr # 0 /\ q = <<rdr>>)
    OBVIOUS
  <2> HIDE DEF q
  <2>4. Queued'
    <3>1. CASE q = <<>>
      <4>1. PICK b \in Int : b = taken + 1
        BY <1>4
      <4>2. Len(q) = 0
        BY <3>1
      <4>3. available' = available
        BY <1>4, <2>2, <4>2
      <4>4. \A d \in 0 .. available - 1 : From(head, ring)'[d] = From(head, ring)[d]
        <5>1. \A d \in 0 .. available - 1 : d \in Slots /\ ~ (d >= available)
          BY <1>4, Numbers DEF Slots
        <5> QED
          BY <2>2, <5>1 DEF Spliced
      <4> QED
        BY <1>4, <1>5, <4>3, <4>4, QueuedKept
    <3>2. CASE rdr # 0 /\ q = <<rdr>>
      BY <1>5, <2>2, <3>2, ByteQueued
    <3> QED
      BY <2>3, <3>1, <3>2
  <2>5. dma'.to = "none"
    BY <1>2, <1>3, <1>6 DEF Started
  <2> QED
    BY <2>4, <2>5, NothingFlies
<1>7. CASE mode # "bytes"
  <2>1. /\ tail' = tail
        /\ t.to = "ring" => ring' = IF rdr = 0 THEN ring ELSE [ring EXCEPT ![head] = rdr]
        /\ t.to # "ring" => /\ ring' = ring
                            /\ mem' = [mem EXCEPT ![t.to] =
                                 IF rdr = 0 THEN Nothing ELSE [Nothing EXCEPT ![0] = rdr]]
    BY <1>7, EnableHolds
  <2>2. available' = available
    BY <2>1 DEF available
  <2>3. \/ available = 0 \/ From(head, ring)' = From(head, ring)
    <3>1. t.to = "ring" => available = 0
      BY <1>4, Amounts
    <3>2. t.to # "ring" => From(head, ring)' = From(head, ring)
      BY <2>1 DEF From
    <3> QED
      BY <3>1, <3>2
  <2>4. \A d \in 0 .. available - 1 : From(head, ring)'[d] = From(head, ring)[d]
    BY <2>3
  <2>5. Queued'
    BY <1>4, <1>5, <2>2, <2>4, QueuedKept
  <2>6. dma'.to = t.to /\ dma'.done = IF rdr = 0 THEN 0 ELSE 1
    BY <1>3, <1>7 DEF Started
  <2>7. CASE rdr = 0
    BY <2>5, <2>6, <2>7 DEF Flying, Rising, Below
  <2>8. CASE rdr # 0
    <3>1. Flight'[0] = rdr
      <4>1. CASE t.to = "ring"
        <5>1. ring' = [ring EXCEPT ![head] = rdr] /\ After(head, 0) = head /\ 0 \in Slots
          BY <1>4, <2>1, <2>8, <4>1, SlotsAgree, Numbers
        <5>2. From(head, ring)'[0] = ring'[After(head, 0)]
          BY <5>1 DEF From
        <5>3. ring'[head] = rdr
          BY <1>4, <5>1 DEF RingTypes
        <5> QED
          BY <2>6, <4>1, <5>1, <5>2, <5>3 DEF Flight
      <4>2. CASE t.to # "ring"
        <5>1. mem' = [mem EXCEPT ![t.to] = [Nothing EXCEPT ![0] = rdr]]
          BY <2>1, <2>8, <4>2
        <5>2. mem'[t.to] = [Nothing EXCEPT ![0] = rdr]
          BY <1>2, <1>4, <1>7, <4>2, <5>1 DEF RingTypes
        <5>3. mem'[t.to][0] = rdr
          BY <5>2, Numbers DEF Nothing
        <5> QED
          BY <2>6, <4>2, <5>3 DEF Flight
      <4> QED
        BY <4>1, <4>2
    <3>2. Rising(From(head, ring), available, last, taken) /\ last <= taken
      BY DEF Queued
    <3>3. last < rdr
      BY <1>4, <1>5, <2>8, <3>2
    <3>4. Rising(Flight', 1, last, rdr) /\ Below(From(head, ring), available, Flight', 1)
      BY <1>4, <1>5, <2>8, <3>1, <3>2, <3>3, FirstFlies
    <3>5. Below(From(head, ring)', available', Flight', 1)
      BY <2>2, <2>3, <3>4 DEF Below
    <3>6. dma'.done = 1 /\ rdr = taken'
      BY <1>5, <2>6, <2>8
    <3>7. Flying'
      BY <3>4, <3>5, <3>6 DEF Flying
    <3> QED
      BY <2>5, <3>7
  <2> QED
    BY <2>7, <2>8
<1> QED
  BY <1>6, <1>7

\* A byte that came in is later than all that came, and no byte is held.
LEMMA ByteIsLater ==
  ASSUME TypeInv, RegisterInv, NextByte, dma.on, rdr' = rdr
  PROVE  /\ taken' = arrived' /\ arrived' \in Int /\ taken \in Int
         /\ taken < arrived' /\ taken <= taken'
<1>1. arrived' = arrived + 1 /\ arrived \in Int
  BY OrderTypes DEF NextByte
<1>2. rdr = 0
  BY DEF RegisterInv
<1>3. taken = arrived /\ taken' = arrived'
  BY <1>2 DEF taken
<1> QED
  BY <1>1, <1>3

\* The stream puts a byte into a memory that is not the ring.
LEMMA LandElsewhereOrder ==
  ASSUME TypeInv, TypeInv', RegisterInv, Queued, Flying, NextByte, dma.on, rdr' = rdr,
         dma.to \in {"ex", "first", "second"},
         mem' = [mem EXCEPT ![dma.to] = Stored(mem[dma.to], dma.done, <<arrived'>>)],
         dma'.to = dma.to, dma'.done = dma.done + 1,
         UNCHANGED <<ring, head, tail, last, misread, handler>>
  PROVE  Queued' /\ Flying'
<1> DEFINE f == From(head, ring)
           n == available
           g == mem[dma.to]
           m == dma.done
           h == [g EXCEPT ![m] = arrived']
<1>1. /\ taken' = arrived' /\ arrived' \in Int /\ taken \in Int
      /\ taken < arrived' /\ taken <= taken'
  BY ByteIsLater
<1>2. /\ f \in [Slots -> Byte] /\ n \in Slots /\ n \in Nat /\ n \in 0 .. N /\ last \in Int
      /\ m \in Slots
  BY OrderTypes, Numbers DEF Slots
<1>3. g \in [Slots -> Byte] /\ Flight = g
  BY DEF TypeInv, RingTypes, Flight
<1>4. available' = n /\ From(head, ring)' = f /\ OthersRun' = OthersRun
  BY DEF available, From, OthersRun
<1>5. Queued'
  <2>1. last' = last /\ misread' = misread /\ available' <= available
    BY <1>2, <1>4
  <2>2. \A d \in 0 .. available' - 1 : From(head, ring)'[d] = From(head, ring)[d]
    BY <1>4
  <2> QED
    BY <1>1, <2>1, <2>2, QueuedKept
<1>6. Flight' = h
  <2>1. Stored(g, m, <<arrived'>>) = h
    <3> DEFINE b == arrived'
    <3> HIDE DEF g, m, b
    <3>1. Stored(g, m, <<b>>) = [g EXCEPT ![m] = b]
      BY <1>2, <1>3, StoredByte
    <3> QED
      BY <3>1 DEF b
  <2>2. mem'[dma.to] = h
    BY <2>1 DEF TypeInv, RingTypes
  <2> QED
    BY <2>2 DEF Flight
<1>7. ASSUME OthersRun PROVE Rising(h, m + 1, last, arrived') /\ Below(f, n, h, m + 1)
  <2>1. Rising(g, m, last, taken) /\ Below(f, n, g, m)
    BY <1>3, <1>7 DEF Flying
  <2>2. Rising(f, n, last, taken) /\ last < arrived'
    BY <1>1, <1>2 DEF Queued
  <2> DEFINE p == m + 1
             b == arrived'
  <2>3. p = m + 1 /\ b \in Int /\ taken < b /\ last < b /\ taken \in Int
    BY <1>1, <2>2
  <2>4. h = [g EXCEPT ![m] = b]
    OBVIOUS
  <2> HIDE DEF f, n, g, m, h, p, b
  <2>5. Rising(h, p, last, b)
    BY <1>2, <1>3, <2>1, <2>3, <2>4, RisingAdd
  <2>6. Below(f, n, h, p)
    BY <1>2, <1>3, <2>1, <2>2, <2>3, <2>4, BelowAdd
  <2> QED
    BY <2>5, <2>6 DEF p, b
<1>8. Flying'
  BY <1>1, <1>4, <1>6, <1>7 DEF Flying
<1> QED
  BY <1>5, <1>8

\* The stream puts a byte into the ring.
LEMMA LandInRingOrder ==
  ASSUME TypeInv, TypeInv', RegisterInv, RingPlaced, Queued, Flying, Land, dma.to = "ring"
  PROVE  Queued' /\ Flying'
<1> DEFINE f == From(head, ring)
           m == dma.done
           h == [f EXCEPT ![m] = arrived']
<1>1. /\ NextByte /\ dma.on
      /\ UNCHANGED <<rdr, last, misread, handler>>
      /\ dma' = [dma EXCEPT !.done = @ + 1, !.on = dma.done + 1 < dma.size]
  BY DEF Land, read_vars
<1>2. dma'.to = dma.to /\ dma'.done = m + 1
  BY <1>1 DEF TypeInv, LineTypes
<1>3. /\ taken' = arrived' /\ arrived' \in Int /\ taken \in Int
      /\ taken < arrived' /\ taken <= taken'
  BY <1>1, ByteIsLater
<1>4. f \in [Slots -> Byte] /\ last \in Int /\ m \in Slots /\ available \in Nat
  BY OrderTypes, Numbers
<1>5. KeepsUnread /\ available' = available /\ From(head, ring)' = h
  BY LandInRing
<1>6. Queued'
  <2>1. last' = last /\ misread' = misread /\ available' <= available
    BY <1>1, <1>4, <1>5
  <2>2. \A d \in 0 .. available' - 1 : From(head, ring)'[d] = From(head, ring)[d]
    BY <1>5 DEF KeepsUnread
  <2> QED
    BY <1>3, <2>1, <2>2, QueuedKept
<1>7. ASSUME OthersRun PROVE Rising(h, m + 1, last, arrived') /\ available = 0
  <2>1. Rising(f, m, last, taken)
    BY <1>7 DEF Flying, Flight
  <2>2. last < arrived'
    BY <1>3, <1>4 DEF Queued
  <2>3. available = 0
    BY <1>7, Amounts DEF RingPlaced, TypeInv
  <2> DEFINE p == m + 1
             b == arrived'
  <2>4. p = m + 1 /\ b \in Int /\ taken < b /\ last < b /\ taken \in Int
    BY <1>3, <2>2
  <2>5. h = [f EXCEPT ![m] = b]
    OBVIOUS
  <2> HIDE DEF f, m, h, p, b
  <2>6. Rising(h, p, last, b)
    BY <1>4, <2>1, <2>4, <2>5, RisingAdd
  <2> QED
    BY <2>3, <2>6 DEF p, b
<1>8. Flying'
  <2>1. Flight' = h /\ OthersRun' = OthersRun
    BY <1>1, <1>2, <1>5 DEF Flight, OthersRun
  <2>2. available' = 0 => Below(From(head, ring)', available', Flight', dma'.done)
    BY DEF Below
  <2> QED
    BY <1>1, <1>2, <1>3, <1>5, <1>7, <2>1, <2>2 DEF Flying
<1> QED
  BY <1>6, <1>8

LEMMA LandOrder ==
  ASSUME TypeInv, TypeInv', RegisterInv, RingPlaced, Queued, Flying, Land \/ LandInHalf
  PROVE  Queued' /\ Flying'
<1>1. CASE Land /\ dma.to = "ring"
  BY <1>1, LandInRingOrder
<1>2. CASE Land /\ dma.to # "ring"
  <2>1. /\ NextByte /\ dma.on /\ dma.to = "ex"
        /\ UNCHANGED <<ring, head, tail, rdr, last, misread, handler>>
        /\ dma' = [dma EXCEPT !.done = @ + 1, !.on = dma.done + 1 < dma.size]
        /\ mem' = [mem EXCEPT !.ex = Stored(@, dma.done, <<arrived'>>)]
    BY <1>2 DEF Land, read_vars
  <2>2. dma'.to = dma.to /\ dma'.done = dma.done + 1
    BY <2>1 DEF TypeInv, LineTypes
  <2>3. mem' = [mem EXCEPT ![dma.to] = Stored(mem[dma.to], dma.done, <<arrived'>>)]
    BY <2>1
  <2> QED
    BY <2>1, <2>2, <2>3, LandElsewhereOrder
<1>3. CASE LandInHalf
  <2>1. /\ NextByte /\ dma.on /\ dma.to \in {"first", "second"}
        /\ UNCHANGED <<ring, head, tail, rdr, last, misread, handler>>
        /\ dma' = [dma EXCEPT !.done = @ + 1]
        /\ mem' = [mem EXCEPT ![dma.to] = Stored(mem[dma.to], dma.done, <<arrived'>>)]
    BY <1>3 DEF LandInHalf, ring_vars, read_vars
  <2>2. dma'.to = dma.to /\ dma'.done = dma.done + 1
    BY <2>1 DEF TypeInv, LineTypes
  <2> QED
    BY <2>1, <2>2, LandElsewhereOrder
<1> QED
  BY <1>1, <1>2, <1>3

\* The half that is full is copied, with the byte that filled it.
LEMMA SwitchOrder ==
  ASSUME TypeInv, TypeInv', RegisterInv, HalfPlaced, Queued, Flying, SwitchHalf, ~ damaged'
  PROVE  Queued' /\ Flying'
<1> DEFINE f == From(head, ring)
           n == available
           g == mem[dma.to]
           m == dma.done
           b == arrived'
           h == [g EXCEPT ![m] = b]
           u == From(head, ring)'
           p == available'
<1>1. /\ NextByte /\ dma.on /\ dma.to \in {"first", "second"} /\ dma.done + 1 = dma.size
      /\ UNCHANGED <<head, last, misread, rdr, handler>>
      /\ dma' = [dma EXCEPT !.done = 0, !.to = IF @ = "first" THEN "second" ELSE "first"]
      /\ ~ (space < Half) /\ handler.at = "wait"
      /\ WriteRing([mem EXCEPT ![dma.to] = Stored(mem[dma.to], dma.done, <<arrived'>>)][CurrentHalf],
                   Least(Half, space))
  BY DEF SwitchHalf
<1>2. mode = "double" /\ dma.size = Half /\ dma'.done = 0
  BY <1>1, PlacesOfModes DEF TypeInv, LineTypes
<1>3. CurrentHalf = dma.to /\ OthersRun
  BY <1>1, <1>2 DEF HalfPlaced, OthersRun
<1>4. /\ taken' = b /\ b \in Int /\ taken \in Int /\ taken < b
  BY <1>1, ByteIsLater
<1>5. /\ f \in [Slots -> Byte] /\ n \in Slots /\ n \in Nat /\ n \in 0 .. N /\ last \in Int
      /\ m \in Slots /\ space \in Slots /\ space \in Nat /\ n + space = N - 1
      /\ Half \in Nat /\ Half \in 0 .. N /\ Half \in Slots /\ N \in Nat
  BY OrderTypes, Amounts, Numbers DEF Slots, TypeInv
<1>6. g \in [Slots -> Byte] /\ Flight = g
  BY <1>1 DEF TypeInv, RingTypes, Flight
<1>7. Least(Half, space) = Half /\ Half <= space /\ m + 1 = Half
  BY <1>1, <1>2, <1>5 DEF Least
<1>8. Stored(g, m, <<arrived'>>) = h
  <2> HIDE DEF g, m, b
  <2>1. Stored(g, m, <<b>>) = [g EXCEPT ![m] = b]
    BY <1>5, <1>6, StoredByte
  <2> QED
    BY <2>1 DEF b
<1>9. WriteRing(h, Half)
  <2>1. [mem EXCEPT ![dma.to] = Stored(mem[dma.to], dma.done, <<arrived'>>)][CurrentHalf] = h
    BY <1>1, <1>3, <1>8 DEF TypeInv, RingTypes
  <2> QED
    BY <1>1, <1>7, <2>1
<1>10. b \in Byte
  BY <1>1, <1>4, Numbers DEF NextByte, TypeInv, LineTypes, Byte
<1>11. h \in [Slots -> Byte]
  BY <1>6, <1>10
<1>12. /\ p = n + Half /\ u = Spliced(f, n, FirstOf(h, Half))
  BY <1>1, <1>5, <1>7, <1>9, <1>11, WriteAppends DEF TypeInv
<1>13. Rising(g, m, last, taken) /\ Below(f, n, g, m)
  BY <1>1, <1>3, <1>6 DEF Flying
<1>14. Rising(f, n, last, taken) /\ last <= taken /\ ~ misread
  BY DEF Queued
<1>15. Rising(u, p, last, b)
  <2> HIDE DEF f, n, g, m, b, h, u, p
  <2>1. last < b /\ b <= b /\ taken <= b /\ Half = m + 1
    BY <1>4, <1>5, <1>7, <1>14
  <2>2. h = [g EXCEPT ![m] = b]
    BY DEF h
  <2>3. Rising(h, Half, last, b)
    BY <1>4, <1>5, <1>6, <1>13, <2>1, <2>2, RisingAdd
  <2>4. Below(f, n, h, Half)
    BY <1>4, <1>5, <1>6, <1>13, <1>14, <2>1, <2>2, BelowAdd
  <2>5. Rising(f, n, last, b)
    BY <1>4, <1>5, <1>14, <2>1, RisingKept
  <2>6. n + Half <= N /\ Half \in 0 .. Half
    BY <1>5, <1>7
  <2> QED
    BY <1>4, <1>5, <1>11, <1>12, <2>3, <2>4, <2>5, <2>6, RisingSplice
<1>16. Queued'
  BY <1>1, <1>4, <1>5, <1>14, <1>15 DEF Queued
<1>17. Flying'
  BY <1>2 DEF Flying, Rising, Below
<1> QED
  BY <1>16, <1>17

\* A reception that is complete, in "single" mode and for which there is room.
LEMMA SingleOrder ==
  ASSUME TypeInv, TypeInv', Placed, Queued, Flying, Complete, dma.open, mode = "single",
         dma.done <= space
  PROVE  Queued' /\ Flying'
<1> DEFINE f == From(head, ring)
           n == available
           g == mem.ex
           m == dma.done
           u == From(head, ring)'
           p == available'
<1>1. /\ OthersRun /\ UNCHANGED <<head, last, misread, arrived, rdr>>
      /\ CompleteSingle(m) /\ handler' = [handler EXCEPT !.at = "start"]
  BY DEF Complete, OthersRun
<1>2. /\ p = n + m
      /\ u = IF used_ex THEN Spliced(f, n, FirstOf(g, m)) ELSE f
  BY <1>1, SingleExtends
<1>3. taken' = taken
  BY <1>1 DEF taken
<1>4. /\ f \in [Slots -> Byte] /\ n \in Slots /\ n \in Nat /\ n \in 0 .. N /\ last \in Int
      /\ m \in Slots /\ m \in Nat /\ m \in 0 .. N /\ taken \in Int /\ g \in [Slots -> Byte]
      /\ space \in Nat /\ n + space = N - 1 /\ N \in Nat
  <2>1. space \in Slots /\ n + space = N - 1 /\ g \in [Slots -> Byte]
    BY Amounts DEF TypeInv, RingTypes
  <2>2. f \in [Slots -> Byte] /\ n \in Slots /\ last \in Int /\ m \in Slots /\ taken \in Int
    BY OrderTypes
  <2> HIDE DEF f, n, m, g
  <2> QED
    BY <2>1, <2>2, Numbers DEF Slots
<1>5. Rising(f, n, last, taken) /\ last <= taken /\ ~ misread
  BY DEF Queued
<1>6. dma.to \in {"none", "ring", "ex"} /\ (dma.to = "none" => m = 0)
  BY PlacesOfModes
<1>7. /\ dma.to = "ring" => ~ used_ex /\ n = 0
      /\ dma.to = "ex" => used_ex
  BY <1>1, Amounts DEF Placed, RingPlaced, ExPlaced, TypeInv
<1>8. Rising(u, p, last, taken)
  <2>1. CASE dma.to = "ring"
    <3>1. p = m /\ u = f
      BY <1>2, <1>4, <1>7, <2>1
    <3> QED
      BY <1>1, <2>1, <3>1 DEF Flying, Flight
  <2>2. CASE dma.to = "ex"
    <3>1. Rising(g, m, last, taken) /\ Below(f, n, g, m)
      BY <1>1, <2>2 DEF Flying, Flight
    <3>2. u = Spliced(f, n, FirstOf(g, m))
      BY <1>2, <1>7, <2>2
    <3>3. m \in 0 .. m /\ n + m <= N
      BY <1>4
    <3> HIDE DEF f, n, g, m, u, p
    <3> QED
      BY <1>2, <1>4, <1>5, <3>1, <3>2, <3>3, RisingSplice
  <2>3. CASE dma.to = "none"
    <3>1. m = 0 /\ p = n
      BY <1>2, <1>4, <1>6, <2>3
    <3>2. Rising(g, m, last, taken) /\ Below(f, n, g, m) /\ m \in 0 .. m /\ n + m <= N
      BY <1>4, <3>1 DEF Rising, Below
    <3> HIDE DEF f, n, g, m, u, p
    <3>3. CASE used_ex
      BY <1>2, <1>4, <1>5, <3>2, <3>3, RisingSplice
    <3>4. CASE ~ used_ex
      BY <1>2, <1>5, <3>1, <3>4
    <3> QED
      BY <3>3, <3>4
  <2> QED
    BY <1>6, <2>1, <2>2, <2>3
<1>9. Queued'
  BY <1>1, <1>3, <1>5, <1>8 DEF Queued
<1>10. ~ OthersRun'
  BY <1>1 DEF OthersRun, TypeInv, LineTypes
<1> QED
  BY <1>9, <1>10, NothingFlies

\* ... and one for which there is no room: the tail passes the head, and what is
\* unread then is a prefix of what was.
LEMMA OverrunOrder ==
  ASSUME TypeInv, TypeInv', Queued, Complete, dma.open, mode = "single", ~ (dma.done <= space)
  PROVE  Queued' /\ Flying'
<1> DEFINE f == From(head, ring)
           n == available
           m == dma.done
<1>1. /\ OthersRun /\ UNCHANGED <<head, last, misread, arrived, rdr>>
      /\ CompleteSingle(m) /\ handler' = [handler EXCEPT !.at = "start"]
  BY DEF Complete, OthersRun
<1>2. /\ head \in Slots /\ tail \in Slots /\ n \in Slots /\ m \in Slots /\ space \in Slots
      /\ n + space = N - 1 /\ tail = After(head, n)
      /\ n \in Nat /\ m \in Nat /\ space \in Nat
  <2>1. /\ head \in Slots /\ tail \in Slots /\ n \in Slots /\ m \in Slots /\ space \in Slots
        /\ n + space = N - 1 /\ tail = After(head, n)
    BY Amounts DEF TypeInv, RingTypes, LineTypes
  <2> QED
    BY <2>1, Numbers
<1>3. available' = n + m - N /\ available' <= n
  <2>1. tail' = After(tail, m)
    BY <1>1 DEF CompleteSingle, After
  <2>2. available' = Ahead(head, After(tail, m))
    BY <1>1, <2>1 DEF available, Ahead
  <2> HIDE DEF n, m
  <2>3. tail = IF head + n < N THEN head + n ELSE head + n - N
    BY <1>2, AfterIs
  <2>4. After(tail, m) = (IF tail + m < N THEN tail + m ELSE tail + m - N) /\ After(tail, m) \in Slots
    BY <1>2, AfterIs, SlotsAgree
  <2>5. Ahead(head, After(tail, m)) =
          IF After(tail, m) >= head THEN After(tail, m) - head ELSE After(tail, m) - head + N
    BY <1>2, <2>4, AheadIs
  <2>6. m > space
    BY <1>2 DEF m
  <2>7. Ahead(head, After(tail, m)) = n + m - N
    BY <1>2, <2>3, <2>4, <2>5, <2>6, Numbers DEF Slots
  <2> QED
    BY <1>2, <2>2, <2>7, Numbers DEF Slots
<1>4. ASSUME NEW d \in 0 .. n - 1 PROVE From(head, ring)'[d] = f[d]
  <2>1. CASE used_ex
    <3> DEFINE q == FirstOf(mem.ex, Least(m, space))
    <3>1. Least(m, space) = space /\ space \in 0 .. N /\ mem.ex \in [Slots -> Byte]
      <4>1. Least(m, space) = space
        BY DEF Least
      <4>2. mem.ex \in [Slots -> Byte]
        BY DEF TypeInv, RingTypes
      <4>3. space \in 0 .. N
        BY <1>2, Numbers DEF Slots
      <4> QED
        BY <4>1, <4>2, <4>3
    <3>2. Len(q) = space
      BY <3>1, FirstOfType
    <3>3. ring' = Stored(ring, tail, q)
      BY <1>1, <2>1 DEF CompleteSingle
    <3> HIDE DEF q
    <3>4. space <= space /\ RingTypes
      BY <1>2 DEF TypeInv
    <3>5. From(head, ring)' = Spliced(f, n, q)
      BY <1>1, <1>2, <3>2, <3>3, <3>4, StoredAtTail
    <3>6. d \in Slots /\ ~ (d >= n)
      BY <1>2, Numbers DEF Slots
    <3> QED
      BY <3>5, <3>6 DEF Spliced
  <2>2. CASE ~ used_ex
    BY <1>1, <2>2 DEF CompleteSingle, From
  <2> QED
    BY <2>1, <2>2
<1>5. taken' = taken /\ taken <= taken'
  BY <1>1, OrderTypes DEF taken
<1>6. \A d \in 0 .. available' - 1 : d \in 0 .. n - 1
  BY <1>2, <1>3, Numbers
<1>7. Queued'
  BY <1>1, <1>3, <1>4, <1>5, <1>6, QueuedKept
<1>8. ~ OthersRun'
  BY <1>1 DEF OthersRun, TypeInv, LineTypes
<1> QED
  BY <1>7, <1>8, NothingFlies

\* ... and in "double" mode: what fits of the current half is written.
LEMMA DoubleOrder ==
  ASSUME TypeInv, TypeInv', HalfPlaced, Queued, Flying, Complete, dma.open, mode = "double"
  PROVE  Queued' /\ Flying'
<1> DEFINE f == From(head, ring)
           n == available
           g == mem[CurrentHalf]
           m == dma.done
           k == Least(m, space)
           u == From(head, ring)'
           p == available'
<1>1. /\ OthersRun /\ UNCHANGED <<head, last, misread, arrived, rdr>>
      /\ WriteRing(g, k) /\ handler' = [handler EXCEPT !.at = "start"]
  BY DEF Complete, CompleteDouble, OthersRun
<1>2. g \in [Slots -> Byte] /\ m \in Slots
  BY DEF CurrentHalf, TypeInv, RingTypes, LineTypes
<1>3. p = n + k /\ u = Spliced(f, n, FirstOf(g, k))
  BY <1>1, <1>2, DoubleExtends
<1>4. taken' = taken
  BY <1>1 DEF taken
<1>5. /\ f \in [Slots -> Byte] /\ n \in Slots /\ last \in Int /\ taken \in Int
      /\ m \in 0 .. N /\ k \in 0 .. m /\ n + k <= N
  <2>1. space \in Slots /\ n + space = N - 1
    BY Amounts DEF TypeInv
  <2>2. k \in Slots /\ k <= m /\ k <= space
    BY <1>2, FitIs DEF TypeInv
  <2>3. f \in [Slots -> Byte] /\ n \in Slots /\ last \in Int /\ taken \in Int
    BY OrderTypes
  <2> HIDE DEF f, n, m, k
  <2> QED
    BY <1>2, <2>1, <2>2, <2>3, Numbers DEF Slots
<1>6. Rising(f, n, last, taken) /\ last <= taken /\ ~ misread
  BY DEF Queued
<1>7. Rising(g, m, last, taken) /\ Below(f, n, g, m)
  <2>1. CASE dma.to = "none"
    <3>1. m = 0
      BY <2>1, PlacesOfModes
    <3> QED
      BY <3>1 DEF Rising, Below
  <2>2. CASE dma.to # "none"
    <3>1. dma.to = CurrentHalf /\ dma.to # "ring"
      BY <1>1, <2>2 DEF HalfPlaced, CurrentHalf
    <3>2. Flight = g
      BY <3>1 DEF Flight
    <3> QED
      BY <1>1, <2>2, <3>2 DEF Flying
  <2> QED
    BY <2>1, <2>2
<1>8. Rising(u, p, last, taken)
  <2> HIDE DEF f, n, g, m, k, u, p
  <2> QED
    BY <1>2, <1>3, <1>5, <1>6, <1>7, RisingSplice
<1>9. Queued'
  BY <1>1, <1>4, <1>6, <1>8 DEF Queued
<1>10. ~ OthersRun'
  BY <1>1 DEF OthersRun, TypeInv, LineTypes
<1> QED
  BY <1>9, <1>10, NothingFlies

LEMMA CompleteOrder ==
  ASSUME TypeInv, TypeInv', Placed, Queued, Flying, Complete
  PROVE  Queued' /\ Flying'
<1>1. mode \in {"bytes", "single", "double"}
  BY SizeIs
<1>2. CASE dma.open /\ mode = "single" /\ dma.done <= space
  BY <1>2, SingleOrder
<1>3. CASE dma.open /\ mode = "single" /\ ~ (dma.done <= space)
  BY <1>3, OverrunOrder
<1>4. CASE dma.open /\ mode = "double"
  BY <1>4, DoubleOrder DEF Placed
<1>5. CASE ~ (dma.open /\ mode # "bytes")
  <2>1. UNCHANGED <<ring, head, tail, mem, misread, last, dma, handler, rdr, arrived>>
    BY <1>5 DEF Complete
  <2>2. taken' = taken /\ taken \in Int /\ OthersRun' = OthersRun
    BY <2>1, OrderTypes DEF taken, OthersRun
  <2> QED
    BY <2>1, <2>2, OrderFrame
<1> QED
  BY <1>1, <1>2, <1>3, <1>4, <1>5

\* The actions that move no byte between the memories.
LEMMA QuietOrder ==
  ASSUME TypeInv, TypeInv', RegisterInv, Queued, Flying,
         \/ UNCHANGED vars
         \/ \E r \in Readers : CallRead(r) \/ Loop(r) \/ Wait(r) \/ Expire(r) \/ Check(r) \/ ClearFlag(r)
         \/ Close \/ SetClose \/ PostEnable \/ NextTarget \/ Hold \/ Lose \/ Idle
         \/ (StartReceive /\ ~ dma.open)
  PROVE  Queued' /\ Flying'
<1>1. UNCHANGED <<ring, head, tail, mem, misread, last>>
  BY DEF vars, ring_vars, read_vars, CallRead, Loop, Wait, Expire, Check, ClearFlag, Close,
         SetClose, PostEnable, NextTarget, Hold, Lose, Idle, StartReceive
<1>2. OthersRun' => OthersRun
  <2>1. CASE NextTarget
    BY <2>1 DEF NextTarget, OthersRun
  <2>2. CASE ~ NextTarget
    <3>1. UNCHANGED handler
      BY <2>2 DEF vars, line_vars, CallRead, Loop, Wait, Expire, Check, ClearFlag, Close,
                  SetClose, PostEnable, Hold, Lose, Idle, StartReceive
    <3> QED
      BY <3>1 DEF OthersRun
  <2> QED
    BY <2>1, <2>2
<1>3. dma'.to = dma.to /\ dma'.done = dma.done
  <2>1. CASE Idle
    <3>1. dma' = dma \/ dma' = [dma EXCEPT !.on = (mode = "bytes")]
      BY <2>1 DEF Idle
    <3> QED
      BY <3>1 DEF TypeInv, LineTypes
  <2>2. CASE ~ Idle
    <3>1. UNCHANGED dma
      BY <2>2 DEF vars, line_vars, CallRead, Loop, Wait, Expire, Check, ClearFlag, Close,
                  SetClose, PostEnable, NextTarget, Hold, Lose, StartReceive
    <3> QED
      BY <3>1
  <2> QED
    BY <2>1, <2>2
<1>4. taken <= taken'
  <2>1. CASE Hold
    <3>1. arrived' = arrived + 1 /\ rdr = 0 /\ rdr' = arrived'
      BY <2>1 DEF Hold, NextByte
    <3>2. arrived \in Nat
      BY Numbers DEF TypeInv, LineTypes
    <3> QED
      BY <3>1, <3>2 DEF taken
  <2>2. CASE ~ Hold
    <3>1. UNCHANGED <<rdr, arrived>>
      BY <2>2 DEF vars, line_vars, CallRead, Loop, Wait, Expire, Check, ClearFlag, Close,
                  SetClose, PostEnable, NextTarget, Lose, Idle, StartReceive
    <3>2. taken \in Int
      BY OrderTypes
    <3> QED
      BY <3>1, <3>2 DEF taken
  <2> QED
    BY <2>1, <2>2
<1> QED
  BY <1>1, <1>2, <1>3, <1>4, OrderFrame

LEMMA OrderStays ==
  ASSUME TypeInv, TypeInv', Placed, RegisterInv, Queued, Flying, [Next]_vars, ~ damaged'
  PROVE  Queued' /\ Flying'
<1>1. ASSUME NEW r \in Readers, Read(r) PROVE Queued' /\ Flying'
  BY <1>1, ReadOrder DEF Placed
<1>2. ASSUME Clear PROVE Queued' /\ Flying'
  BY <1>2, ClearOrder DEF Placed
<1>3. ASSUME Deinit \/ Open PROVE Queued' /\ Flying'
  BY <1>3, StopOrder
<1>4. ASSUME StartReceive, dma.open PROVE Queued' /\ Flying'
  <2>1. /\ Enable(Target) /\ UNCHANGED <<mode, head, last, misread, arrived>>
    BY <1>4 DEF StartReceive, read_vars
  <2>2. /\ Target.to \in Receivers \ {"second"} /\ Target.from \in Slots
        /\ Target.to = "ring" => Target.from = tail /\ empty
    BY TargetType
  <2>3. Target.to = "ring" => Target.from = head
    BY <2>2 DEF empty
  <2> QED
    BY <2>1, <2>2, <2>3, EnableOrder
<1>5. ASSUME Restart PROVE Queued' /\ Flying'
  <2>1. /\ Enable(handler) /\ UNCHANGED <<mode, head, last, misread, arrived>>
        /\ handler.at = "enable"
    BY <1>5 DEF Restart, read_vars
  <2>2. handler.to \in Receivers \ {"second"} /\ handler.from \in Slots
    BY <2>1 DEF TypeInv, LineTypes, PlaceInv
  <2>3. handler.to = "ring" => handler.from = head /\ empty
    BY <2>1 DEF Placed, ExPlaced, empty
  <2> QED
    BY <2>1, <2>2, <2>3, EnableOrder
<1>6. ASSUME PushByte PROVE Queued' /\ Flying'
  BY <1>6, PushOrder
<1>7. ASSUME Land \/ LandInHalf PROVE Queued' /\ Flying'
  BY <1>7, LandOrder DEF Placed
<1>8. ASSUME SwitchHalf PROVE Queued' /\ Flying'
  BY <1>8, SwitchOrder DEF Placed
<1>9. ASSUME Complete PROVE Queued' /\ Flying'
  BY <1>9, CompleteOrder
<1>10. \/ \E r \in Readers : Read(r)
       \/ Clear \/ Deinit \/ Open \/ (StartReceive /\ dma.open) \/ Restart \/ PushByte
       \/ Land \/ LandInHalf \/ SwitchHalf \/ Complete
       \/ UNCHANGED vars
       \/ \E r \in Readers : CallRead(r) \/ Loop(r) \/ Wait(r) \/ Expire(r) \/ Check(r) \/ ClearFlag(r)
       \/ Close \/ SetClose \/ PostEnable \/ NextTarget \/ Hold \/ Lose \/ Idle
       \/ (StartReceive /\ ~ dma.open)
  BY DEF Next, Continue, Closing, Opening, Receiving, Arrives
<1> QED
  BY <1>1, <1>2, <1>3, <1>4, <1>5, <1>6, <1>7, <1>8, <1>9, <1>10, QuietOrder

LEMMA OrderAtFirst == Init => OrderInv
<1> SUFFICES ASSUME Init PROVE OrderInv
  OBVIOUS
<1>1. RingTypes
  BY TypesAtFirst DEF TypeInv
<1>2. available = 0
  BY <1>1, Amounts DEF Init, empty
<1>3. RegisterInv /\ Queued /\ Flying
  BY <1>2 DEF Init, Stopped, RegisterInv, Queued, Flying, taken, Rising
<1> QED
  BY <1>3 DEF OrderInv

\* What a reader is given came in, and is later than all that was given before
\* (ReadInOrder): with any number of readers, in every mode, while receptions
\* end and start, into the ring or past it.
THEOREM ReadersGetOrder == Spec => []ReadInOrder
<1>1. Init => PlacedInv /\ OrderInv
  BY PlacedInvAtFirst, OrderAtFirst
<1>2. PlacedInv /\ OrderInv /\ [Next]_vars => PlacedInv' /\ OrderInv'
  <2> SUFFICES ASSUME PlacedInv, OrderInv, [Next]_vars PROVE PlacedInv' /\ OrderInv'
    OBVIOUS
  <2>1. PlacedInv'
    BY PlacedInvStays
  <2>2. TypeInv /\ TypeInv'
    BY <2>1 DEF PlacedInv
  <2>3. RegisterInv'
    BY <2>2, RegisterStays DEF OrderInv
  <2>4. ASSUME ~ damaged' PROVE Queued' /\ Flying'
    <3>1. ~ damaged
      BY <2>4, DamageStays
    <3>2. Placed /\ RegisterInv /\ Queued /\ Flying
      BY <3>1 DEF PlacedInv, OrderInv
    <3> QED
      BY <2>2, <2>4, <3>2, OrderStays
  <2> QED
    BY <2>1, <2>3, <2>4 DEF OrderInv
<1>3. OrderInv => ReadInOrder
  BY DEF OrderInv, Queued, ReadInOrder
<1> QED
  BY <1>1, <1>2, <1>3, PTL DEF Spec
===============================================================================
