----------------------------- MODULE StreamInput -----------------------------
(***************************************************************************)
(* The input half of a buffered Stream_Device that is a UART: read, clear, *)
(* close and open (src/api/system/device/streaming_device.hpp and          *)
(* device_base.hpp), the three input modes of Ring_Buffer                  *)
(* (src/api/system/memory/ring_buffer.hpp), the UART's interrupts and its  *)
(* receive DMA, and the Interrupt_Manager thread that takes the data over. *)
(*                                                                         *)
(*   "bytes"   an interrupt pushes every byte into the ring                *)
(*   "single"  DMA into the ring itself or into m_ex_buffer                *)
(*   "double"  DMA into two halves in turn, each copied when it is full    *)
(*                                                                         *)
(* Bytes are numbered as the receiver takes them in, from 1.  0 is anything *)
(* else a memory may hold: what it held before the first byte, and a byte  *)
(* that was given to a reader or copied to the ring already.               *)
(***************************************************************************)
EXTENDS Integers, SequencesExt

CONSTANTS Readers,      \* the threads that read
          N,            \* the slots of the ring, one of which stays free
          Sizes,        \* the sizes of a read
          Modes,        \* the input modes
          Places,       \* where the indices of the empty ring may be at first
          MaxBytes,     \* bound: the bytes that come in
          MaxCalls,     \* bound: the calls of clear and of close
          QueueSize     \* the messages the Interrupt_Manager's queue holds

ASSUME InputAssumption ==
  /\ N \in Nat /\ N >= 4 /\ N % 2 = 0
  /\ Sizes \subseteq Nat \ {0}
  /\ Modes \subseteq {"bytes", "single", "double"}
  /\ Places \subseteq 0 .. N - 1
  /\ {MaxBytes, MaxCalls, QueueSize} \subseteq Nat

VARIABLES
  mode,       \* the input mode of this device
  \* Ring_Buffer
  ring,       \* m_buffer
  head,       \* m_head
  tail,       \* m_tail
  mem,        \* m_ex_buffer, m_first_buffer and m_second_buffer
  used_ex,    \* m_is_used_ex_buffer
  current,    \* m_current_buffer
  \* Stream_Device
  opened,     \* m_opened
  flags,      \* m_event_flags
  starts,     \* the Enable_Receive messages in the Device_Manager's queue
  refused,    \* history: was the last one lost because that queue was full?
  pc,         \* pc[r]: where reader r is in read
  todo,       \* todo[r]: size - read_bytes
  last,       \* history: the last byte a reader was given
  misread,    \* history: was a byte given that is not later than the one before?
  damaged,    \* history: did one of the Damage cases happen?
  calls,      \* the calls of clear and of close so far
  \* the UART and its DMA stream
  arrived,    \* how many bytes came in
  idle,       \* has the line been reported idle since the last byte?
  rdr,        \* the receive register, 0 when empty
  dma,        \* is the UART open, are bytes taken from rdr, and the stream's
              \* memory, first slot, length and how many bytes it took
  messages,   \* how many messages are in the Interrupt_Manager's queue
  dropped,    \* history: was a message lost because the queue was full?
  handler     \* the place of the Interrupt_Manager's thread, and its locals

ring_vars == <<ring, head, tail, mem, used_ex, current>>
read_vars == <<pc, todo, last, misread>>
line_vars == <<arrived, idle, rdr, dma, messages, dropped, handler>>
vars == <<mode, ring_vars, opened, flags, starts, refused, read_vars, damaged, calls,
          line_vars>>

Slots == 0 .. N - 1
Half == N \div 2
Least(m, n) == IF m <= n THEN m ELSE n

available == (tail - head) % N
space == N - 1 - available
empty == head = tail

Nothing == [i \in Slots |-> 0]

\* A memory m, such as the ring, after the bytes of q went to the slots from i on.
Stored(m, i, q) ==
  [k \in Slots |-> LET d == (k - i) % N IN IF d < Len(q) THEN q[d + 1] ELSE m[k]]

\* Interrupts are served at once, the Interrupt_Manager's thread (priority 2)
\* before the Device_Manager's and the readers'.
OthersRun == handler.at = "wait"

\* Reader r goes on at a place; todo is 0 when it has returned.
Goes(r, from, to) ==
  /\ OthersRun
  /\ pc[r] = from
  /\ pc' = [pc EXCEPT ![r] = to]
Waits(r, from, to) ==
  /\ Goes(r, from, to)
  /\ todo' = IF to = "idle" THEN [todo EXCEPT ![r] = 0] ELSE todo

-------------------------------------------------------------------------------
(* read *)

CallRead(r) ==
  /\ opened
  /\ Goes(r, "idle", "loop")
  /\ \E n \in Sizes : todo' = [todo EXCEPT ![r] = n]
  /\ UNCHANGED <<mode, ring_vars, opened, flags, starts, refused, last, misread, damaged,
                 calls, line_vars>>

\* The head of the loop, and the first empty.
Loop(r) ==
  /\ \/ (todo[r] = 0 \/ ~ opened) /\ Waits(r, "loop", "idle")
     \/ todo[r] > 0 /\ opened /\ Waits(r, "loop", IF empty THEN "wait" ELSE "read")
  /\ UNCHANGED <<mode, ring_vars, opened, flags, starts, refused, last, misread, damaged,
                 calls, line_vars>>

\* Mutant: a flag that is set is not looked at.
WaitAlways(r) ==
  /\ Waits(r, "wait", IF "Close" \in flags THEN "idle" ELSE "suspended")
  /\ UNCHANGED <<mode, ring_vars, opened, flags, starts, refused, last, misread, damaged,
                 calls, line_vars>>

\* m_event_flags.wait(Receive_Finish | Close), which clears neither.
Wait(r) ==
  /\ Waits(r, "wait", IF "Close" \in flags THEN "idle"
                     ELSE IF "Receive_Finish" \in flags THEN "read" ELSE "suspended")
  /\ UNCHANGED <<mode, ring_vars, opened, flags, starts, refused, last, misread, damaged,
                 calls, line_vars>>

\* The timeout of a reader that has one.
Expire(r) ==
  /\ Waits(r, "suspended", "idle")
  /\ UNCHANGED <<mode, ring_vars, opened, flags, starts, refused, last, misread, damaged,
                 calls, line_vars>>

\* m_input_buffer.read of what there is, up to what is wanted.
Read(r) ==
  LET n == Least(todo[r], available)
      got == [i \in 1 .. n |-> ring[(head + i - 1) % N]]
  IN
  /\ Goes(r, "read", "check")
  /\ head' = (head + n) % N
  /\ ring' = Stored(ring, head, [i \in 1 .. n |-> 0])
  /\ todo' = [todo EXCEPT ![r] = @ - n]
  /\ last' = IF n = 0 THEN last ELSE got[n]
  /\ misread' = (misread \/ \E i \in 1 .. n : got[i] <= (IF i = 1 THEN last ELSE got[i - 1]))
  /\ UNCHANGED <<mode, tail, mem, used_ex, current, opened, flags, starts, refused, damaged,
                 calls, line_vars>>

\* The second empty, and the flag cleared after it.
Check(r) ==
  /\ Goes(r, "check", IF empty THEN "clear" ELSE "loop")
  /\ UNCHANGED <<mode, ring_vars, opened, flags, starts, refused, todo, last, misread, damaged,
                 calls, line_vars>>

ClearFlag(r) ==
  /\ Goes(r, "clear", "loop")
  /\ flags' = flags \ {"Receive_Finish"}
  /\ UNCHANGED <<mode, ring_vars, opened, starts, refused, todo, last, misread, damaged,
                 calls, line_vars>>

-------------------------------------------------------------------------------
(* clear, close and open *)

\* Stream_Device::clear, which resets the indices.
\* Damage: the bytes being received are placed for the old tail.
Clear ==
  /\ OthersRun
  /\ opened
  /\ calls < MaxCalls
  /\ calls' = calls + 1
  /\ head' = 0 /\ tail' = 0 /\ ring' = IF dma.to = "ring" THEN ring ELSE Nothing
  /\ damaged' = (damaged \/ (dma.to = "ring" /\ dma.from # 0))
  /\ UNCHANGED <<mode, mem, used_ex, current, opened, flags, starts, refused, read_vars, line_vars>>

Stopped(open) == [open |-> open, on |-> FALSE, to |-> "none", from |-> 0, size |-> 0, done |-> 0]

\* close_impl: the interrupts are unregistered and the DMA channel is given up.
Deinit ==
  /\ OthersRun
  /\ opened
  /\ dma.open
  /\ calls < MaxCalls
  /\ calls' = calls + 1
  /\ dma' = Stopped(FALSE)
  /\ rdr' = 0
  /\ idle' = TRUE
  /\ UNCHANGED <<mode, ring_vars, opened, flags, starts, refused, read_vars, damaged,
                 arrived, messages, dropped, handler>>

Close ==
  /\ OthersRun
  /\ opened
  /\ ~ dma.open
  /\ opened' = FALSE
  /\ UNCHANGED <<mode, ring_vars, flags, starts, refused, read_vars, damaged, calls,
                 line_vars>>

\* The Close flag stays, and sends away everybody who waits.
SetClose ==
  /\ OthersRun
  /\ ~ opened
  /\ "Close" \notin flags
  /\ flags' = flags \cup {"Close"}
  /\ pc' = [r \in Readers |-> IF pc[r] = "suspended" THEN "idle" ELSE pc[r]]
  /\ todo' = [r \in Readers |-> IF pc[r] = "suspended" THEN 0 ELSE todo[r]]
  /\ UNCHANGED <<mode, ring_vars, opened, starts, refused, last, misread, damaged, calls, line_vars>>

\* open_impl starts the UART over again, and m_opened is set ...
Open ==
  /\ OthersRun
  /\ ~ opened /\ "Close" \in flags
  /\ opened' = TRUE
  /\ dma' = Stopped(TRUE)
  /\ UNCHANGED <<mode, ring_vars, flags, starts, refused, read_vars, damaged, calls,
                 arrived, idle, rdr, messages, dropped, handler>>

\* The queue of the Device_Manager takes an Enable_Receive, or it is full of the
\* messages of other devices, which post_event reports and open ignores.
Posts == \/ starts' = starts + 1 /\ refused' = FALSE
         \/ starts' = starts /\ refused' = TRUE

\* ... the flags are cleared and Enable_Receive is posted.  Neither the ring nor
\* m_is_used_ex_buffer is reset.
\* Damage: a reader is about to wait for the data that is in the ring.
PostEnable ==
  /\ OthersRun
  /\ opened /\ "Close" \in flags
  /\ flags' = {}
  /\ Posts
  /\ damaged' = (damaged \/ (~ empty /\ \E r \in Readers : pc[r] = "wait"))
  /\ UNCHANGED <<mode, ring_vars, opened, read_vars, calls, line_vars>>

-------------------------------------------------------------------------------
(* Starting a reception *)

\* input_start(N - 1): into the ring only when that is empty and the tail leaves
\* N - 1 slots before the end, else into the extra buffer.  (m_head is never
\* moved: it is when the ring is not empty and the bytes fit, which N - 1 do not.)
SingleTarget == IF tail > 1 \/ ~ empty THEN [to |-> "ex", from |-> 0]
                ELSE [to |-> "ring", from |-> tail]

Target == CASE mode = "bytes" -> [to |-> "none", from |-> 0]
            [] mode = "single" -> SingleTarget
            [] mode = "double" -> [to |-> "first", from |-> 0]

InputStart ==
  /\ used_ex' = (used_ex \/ Target.to = "ex")
  /\ current' = IF mode = "double" THEN 0 ELSE current

\* enable_receive: the stream starts over again, and takes a byte that waits.
Enable(t) ==
  LET held == IF rdr = 0 THEN <<>> ELSE <<rdr>> IN
  /\ dma' = [open |-> TRUE, on |-> TRUE, to |-> t.to, from |-> t.from,
              size |-> CASE mode = "bytes" -> 0 [] mode = "single" -> N - 1
                         [] mode = "double" -> Half,
              done |-> IF mode = "bytes" THEN 0 ELSE Len(held)]
  /\ rdr' = 0
  /\ CASE mode = "bytes" ->
            LET q == IF space = 0 THEN <<>> ELSE held IN
            ring' = Stored(ring, tail, q) /\ tail' = (tail + Len(q)) % N /\ mem' = mem
       [] t.to = "ring" ->
            ring' = Stored(ring, t.from, held) /\ UNCHANGED <<tail, mem>>
       [] OTHER ->
            mem' = [mem EXCEPT ![t.to] = Stored(Nothing, 0, held)] /\ UNCHANGED <<ring, tail>>

\* The Device_Manager's thread: manger_handler of Enable_Receive.
\* Damage: the ring is chosen while m_is_used_ex_buffer is still set; or the
\* receive register has a byte after which the line was idle already.
StartReceive ==
  /\ OthersRun
  /\ starts > 0
  /\ starts' = starts - 1
  /\ IF dma.open
     THEN /\ InputStart
          /\ Enable(Target)
          /\ damaged' = (damaged \/ (used_ex /\ Target.to = "ring") \/ (rdr # 0 /\ idle))
     ELSE UNCHANGED <<ring, tail, mem, used_ex, current, damaged, rdr, dma>>
  /\ UNCHANGED <<mode, head, opened, flags, refused, read_vars, calls, arrived, idle,
                 messages, dropped, handler>>

-------------------------------------------------------------------------------
(* The line, and its interrupts *)

\* send_to_queue, which does not wait in an interrupt.
Sends == IF messages < QueueSize
         THEN messages' = messages + 1 /\ UNCHANGED dropped
         ELSE dropped' = TRUE /\ UNCHANGED messages

Wakes == /\ flags' = flags \cup {"Receive_Finish"}
         /\ pc' = [r \in Readers |-> IF pc[r] = "suspended" THEN "read" ELSE pc[r]]

\* Bound: none comes in after the damage, or the loss of a message.
NextByte ==
  /\ arrived < MaxBytes /\ ~ damaged /\ ~ dropped
  /\ arrived' = arrived + 1 /\ idle' = FALSE

\* The receive register keeps one byte until it is taken ...
Hold ==
  /\ NextByte
  /\ dma.open /\ ~ dma.on
  /\ rdr = 0
  /\ rdr' = arrived'
  /\ UNCHANGED <<mode, ring_vars, opened, flags, starts, refused, read_vars, damaged, calls, dma, messages, dropped, handler>>

\* ... and a second one is lost.
Lose ==
  /\ dma.open /\ ~ dma.on
  /\ rdr # 0
  /\ idle' = FALSE
  /\ UNCHANGED <<mode, ring_vars, opened, flags, starts, refused, read_vars, damaged, calls,
                 arrived, rdr, dma, messages, dropped, handler>>

\* received_byte_callback: the ring drops a byte that it has no room for.
PushByte ==
  /\ mode = "bytes"
  /\ NextByte
  /\ dma.on
  /\ LET q == IF space = 0 THEN <<>> ELSE <<arrived'>> IN
       ring' = Stored(ring, tail, q) /\ tail' = (tail + Len(q)) % N
  /\ UNCHANGED <<mode, head, mem, used_ex, current, opened, flags, starts, refused, read_vars,
                 damaged, calls, rdr, dma, messages, dropped, handler>>

\* The stream takes a byte; a "single" one that is full stops and is reported.
Land ==
  /\ dma.on
  /\ dma.to \in {"ring", "ex"}
  /\ NextByte
  /\ IF dma.to = "ring"
     THEN ring' = Stored(ring, dma.from + dma.done, <<arrived'>>) /\ UNCHANGED mem
     ELSE mem' = [mem EXCEPT !.ex = Stored(@, dma.done, <<arrived'>>)] /\ UNCHANGED ring
  /\ dma' = [dma EXCEPT !.done = @ + 1, !.on = dma.done + 1 < dma.size]
  /\ IF dma.done + 1 = dma.size THEN Sends ELSE UNCHANGED <<messages, dropped>>
  /\ UNCHANGED <<mode, head, tail, used_ex, current, opened, flags, starts, refused, read_vars,
                 damaged, calls, rdr, handler>>

FirstOf(m, n) == [i \in 1 .. n |-> m[i - 1]]

\* Base::write of the first n bytes of memory m.
WriteRing(m, n) ==
  /\ ring' = Stored(ring, tail, FirstOf(m, n))
  /\ tail' = (tail + n) % N

CurrentHalf == IF current = 0 THEN "first" ELSE "second"

LandInHalf ==
  /\ dma.on /\ dma.to \in {"first", "second"}
  /\ dma.done + 1 < dma.size
  /\ NextByte
  /\ mem' = [mem EXCEPT ![dma.to] = Stored(@, dma.done, <<arrived'>>)]
  /\ dma' = [dma EXCEPT !.done = @ + 1]
  /\ UNCHANGED <<mode, ring, head, tail, used_ex, current, opened, flags, starts, refused,
                 read_vars, damaged, calls, rdr, messages, dropped, handler>>

\* The last byte of a half: the stream goes on with the other one, and the
\* interrupt copies the current one (switch_buffer), and sets Receive_Finish.
\* Damage: there was no room for the half, so that it stays the current one; or
\* the Interrupt_Manager was in the middle of received_complete_callback.
SwitchHalf ==
  /\ dma.on /\ dma.to \in {"first", "second"}
  /\ dma.done + 1 = dma.size
  /\ NextByte
  /\ dma' = [dma EXCEPT !.done = 0, !.to = IF @ = "first" THEN "second" ELSE "first"]
  /\ LET new == [mem EXCEPT ![dma.to] = Stored(@, dma.done, <<arrived'>>)] IN
       /\ WriteRing(new[CurrentHalf], Least(Half, space))
       /\ mem' = [new EXCEPT ![CurrentHalf] = Nothing]
  /\ current' = IF space < Half THEN current ELSE 1 - current
  /\ damaged' = (damaged \/ space < Half \/ handler.at # "wait")
  /\ Wakes
  /\ UNCHANGED <<mode, head, used_ex, opened, starts, refused, todo, last, misread, calls,
                 rdr, messages, dropped, handler>>

\* Mutant: one byte is not enough.
IdleAfterTwo ==
  /\ ~ idle
  /\ dma.open
  /\ idle' = TRUE
  /\ IF (mode = "bytes" /\ dma.on) \/ dma.done > 1
     THEN Sends /\ dma' = [dma EXCEPT !.on = (mode = "bytes")]
     ELSE UNCHANGED <<dma, messages, dropped>>
  /\ UNCHANGED <<mode, ring_vars, opened, flags, starts, refused, read_vars, damaged, calls,
                 arrived, rdr, handler>>

\* The line is idle.  A stream that took bytes is stopped and reported.
Idle ==
  /\ ~ idle
  /\ dma.open
  /\ idle' = TRUE
  /\ IF (mode = "bytes" /\ dma.on) \/ dma.done > 0
     THEN Sends /\ dma' = [dma EXCEPT !.on = (mode = "bytes")]
     ELSE UNCHANGED <<dma, messages, dropped>>
  /\ UNCHANGED <<mode, ring_vars, opened, flags, starts, refused, read_vars, damaged, calls,
                 arrived, rdr, handler>>

-------------------------------------------------------------------------------
(* The Interrupt_Manager's thread: received_complete_callback *)

\* Mutant: the tail is not wrapped.
CompleteSingleUnwrapped(n) ==
  /\ ring' = IF used_ex THEN Stored(ring, tail, FirstOf(mem.ex, Least(n, space))) ELSE ring
  /\ tail' = tail + n
  /\ used_ex' = FALSE

\* Mutant: m_is_used_ex_buffer is not reset.
CompleteSingleKeepsEx(n) ==
  /\ ring' = IF used_ex THEN Stored(ring, tail, FirstOf(mem.ex, Least(n, space))) ELSE ring
  /\ tail' = (tail + n) % N
  /\ UNCHANGED used_ex

\* Ring_Buffer::input_complete(receive_size()) in "single" mode: the tail is
\* advanced by the bytes received, however many were written, and passes the head
\* when there is no room for them.
CompleteSingle(n) ==
  /\ ring' = IF used_ex THEN Stored(ring, tail, FirstOf(mem.ex, Least(n, space))) ELSE ring
  /\ tail' = (tail + n) % N
  /\ used_ex' = FALSE

\* Mutant: the room in the ring is not looked at.
CompleteDoubleUnbounded(n) ==
  /\ WriteRing(mem[CurrentHalf], n)
  /\ UNCHANGED used_ex

\* ... and in "double" mode.
CompleteDouble(n) ==
  /\ WriteRing(mem[CurrentHalf], Least(n, space))
  /\ UNCHANGED used_ex

\* irq_queue_handle: input_complete of the stream, which sets Receive_Finish when
\* there were bytes.  A message of an interrupt that was unregistered is dropped,
\* and so is the idle message of "bytes" mode, which no branch handles.
Complete ==
  /\ handler.at = "wait"
  /\ messages > 0
  /\ messages' = messages - 1
  /\ IF dma.open /\ mode # "bytes"
     THEN /\ IF mode = "single" THEN CompleteSingle(dma.done) ELSE CompleteDouble(dma.done)
          /\ mem' = [m \in DOMAIN mem |-> Nothing]
          /\ IF dma.done > 0 THEN Wakes ELSE UNCHANGED <<flags, pc>>
          /\ handler' = [handler EXCEPT !.at = "start"]
     ELSE UNCHANGED <<ring, tail, mem, used_ex, flags, pc, handler>>
  /\ UNCHANGED <<mode, head, current, opened, starts, refused, todo, last, misread, damaged, calls,
                 arrived, idle, rdr, dma, dropped>>

\* input_start for the next reception ...
NextTarget ==
  /\ handler.at = "start"
  /\ handler' = [at |-> "enable", to |-> Target.to, from |-> Target.from]
  /\ InputStart
  /\ UNCHANGED <<mode, ring, head, tail, mem, opened, flags, starts, refused, read_vars, damaged, calls, arrived, idle, rdr, dma, messages, dropped>>

\* ... and enable_receive.
Restart ==
  /\ handler.at = "enable"
  /\ handler' = [at |-> "wait", to |-> "none", from |-> 0]
  /\ Enable(handler)
  /\ UNCHANGED <<mode, head, used_ex, current, opened, flags, starts, refused, read_vars, damaged,
                 calls, arrived, idle, messages, dropped>>

-------------------------------------------------------------------------------
\* The device has just been opened, perhaps after it was used before.
Init ==
  /\ mode \in Modes
  /\ ring = Nothing /\ head \in Places /\ tail = head
  /\ mem = [m \in {"ex", "first", "second"} |-> Nothing]
  /\ used_ex = FALSE /\ current = 0
  /\ opened = TRUE /\ flags = {} /\ starts \in {0, 1} /\ refused = (starts = 0)
  /\ pc = [r \in Readers |-> "idle"] /\ todo = [r \in Readers |-> 0]
  /\ last = 0 /\ misread = FALSE /\ damaged = FALSE
  /\ calls = 0
  /\ arrived = 0 /\ idle = TRUE /\ rdr = 0
  /\ dma = Stopped(TRUE)
  /\ messages = 0 /\ dropped = FALSE
  /\ handler = [at |-> "wait", to |-> "none", from |-> 0]

Continue(r) == Loop(r) \/ Wait(r) \/ Read(r) \/ Check(r) \/ ClearFlag(r)
Receiving == Complete \/ NextTarget \/ Restart
Arrives == Hold \/ Lose \/ PushByte \/ Land \/ LandInHalf \/ SwitchHalf
Closing == Deinit \/ Close \/ SetClose
Opening == Open \/ PostEnable

Next ==
  \/ \E r \in Readers : CallRead(r) \/ Continue(r) \/ Expire(r)
  \/ Clear \/ Closing \/ Opening
  \/ StartReceive \/ Receiving
  \/ Arrives \/ Idle

Spec == Init /\ [][Next]_vars

\* Every thread is scheduled when it can run; the line falls silent in the end.
\* Nobody has to call anything, and no byte has to come.
LiveSpec ==
  /\ Spec
  /\ \A r \in Readers : WF_vars(Continue(r))
  /\ WF_vars(StartReceive) /\ WF_vars(Receiving) /\ WF_vars(Idle)
  /\ WF_vars(Close \/ SetClose) /\ WF_vars(PostEnable)

-------------------------------------------------------------------------------
(* Properties *)

Memories == {"none", "ring", "ex", "first", "second"}

\* The variables keep their types: no index leaves the ring, no reception its
\* memory.
TypeOK ==
  /\ mode \in Modes
  /\ ring \in [Slots -> 0 .. MaxBytes] /\ head \in Slots /\ tail \in Slots
  /\ mem \in [{"ex", "first", "second"} -> [Slots -> 0 .. MaxBytes]]
  /\ used_ex \in BOOLEAN /\ current \in {0, 1}
  /\ opened \in BOOLEAN /\ flags \subseteq {"Receive_Finish", "Close"} /\ starts \in Nat
  /\ pc \in [Readers -> {"idle", "loop", "wait", "suspended", "read", "check", "clear"}]
  /\ todo \in [Readers -> Nat]
  /\ last \in 0 .. MaxBytes /\ {misread, damaged, dropped, refused, idle} \subseteq BOOLEAN
  /\ calls \in 0 .. MaxCalls
  /\ arrived \in 0 .. MaxBytes /\ rdr \in 0 .. MaxBytes
  /\ dma \in [open : BOOLEAN, on : BOOLEAN, to : Memories, from : Slots, size : Slots,
              done : Slots]
  /\ messages \in 0 .. QueueSize
  /\ handler \in [at : {"wait", "start", "enable"}, to : Memories, from : Slots]

\* What is read are bytes that came in, each later than the one before: nothing
\* is read twice, out of order or before it was received, although receptions
\* end and start while the ring is read, unless one of the Damage cases happened.
ReadInOrder == damaged \/ ~ misread

\* The ring is a queue: what is unread stays and stays in order until it is read
\* or cleared, and new bytes come after it, although a reception may write into
\* the ring itself, and nothing but a read takes bytes out (ring_buffer.hpp, the
\* input modes).  The exception is the end of a "single" reception with an Overrun.
Unread == [i \in 1 .. available |-> ring[(head + i - 1) % N]]
Overrun == mode = "single" /\ handler.at = "wait" /\ messages > 0 /\ dma.done > space
RingIsQueue ==
  [][\/ tail' = tail /\ IsSuffix(Unread', Unread)
     \/ head' = head /\ IsPrefix(Unread, Unread')
     \/ calls' # calls
     \/ (Overrun /\ ~ OthersRun') \/ damaged]_vars

\* A reader does not sleep while the ring has data, whenever the Interrupt_Manager
\* is done: no wake-up is lost between the ring and Receive_Finish.  (In "bytes"
\* mode the ring fills without a wake-up.)
NoSleepOnData ==
  \A r \in Readers :
    pc[r] = "suspended" /\ OthersRun /\ mode # "bytes" /\ ~ damaged => empty

\* Bytes that came in, in whatever memory or register they are, do not stay there
\* for ever while a reader sleeps, unless a message was lost, of an interrupt
\* (dropped) or the one that starts the reception (refused), or there was a Damage.
SleepsOnData(r) == pc[r] = "suspended" /\ (~ empty \/ rdr # 0 \/ dma.done > 0)
ReaderWoken ==
  mode # "bytes" =>
    \A r \in Readers : SleepsOnData(r) ~> ~ SleepsOnData(r) \/ dropped \/ refused \/ damaged

\* The same of "bytes" mode: once the line is idle, received_complete_callback
\* calls input_complete, which wakes the reader of the bytes that were pushed.
\* irq_queue_handle never calls it.
ByteReaderWoken ==
  mode = "bytes" =>
    \A r \in Readers : SleepsOnData(r) ~> ~ SleepsOnData(r) \/ dropped \/ refused
===============================================================================
