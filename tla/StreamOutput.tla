---------------------------- MODULE StreamOutput ----------------------------
(***************************************************************************)
(* The output half of a buffered Stream_Device that is a UART sending by   *)
(* DMA: write and flush (src/api/system/device/streaming_device.hpp), the  *)
(* output mode of Ring_Buffer, the Device_Manager thread that starts the   *)
(* transfers and the Interrupt_Manager thread that ends them.              *)
(*                                                                         *)
(* Bytes are numbered in the order the buffer accepts them, so that the    *)
(* slot of byte b is (b - 1) % N and the wire is right when the bytes      *)
(* 1, 2, 3, ... come out.  The history variables sent and garbled follow   *)
(* the wire: how many came out in order, and whether another one ever did. *)
(***************************************************************************)
EXTENDS Integers, Sequences

CONSTANTS Writers,    \* the threads that write and flush
          N,          \* the slots of the output buffer, one of which stays free
          Sizes,      \* the sizes of a write
          MaxBytes,   \* bound: the bytes written in a behaviour
          MaxOpens,   \* bound: how often the device is opened again
          QueueSize,  \* the messages the Device_Manager's queue holds
          Styles      \* how callers may use the device, see CallWrite

ASSUME SizesAssumption ==
  /\ N \in Nat /\ N >= 2
  /\ Sizes \subseteq Nat \ {0}
  /\ MaxBytes \in Nat
  /\ MaxOpens \in Nat
  /\ QueueSize \in Nat \ {0}
ASSUME StylesAssumption == Styles \subseteq {"fills", "flushes", "mixed"}

VARIABLES
  \* Ring_Buffer in mode OUTPUT
  accepted,     \* the bytes taken in so far: m_tail is accepted % N
  head,         \* m_head
  ex,           \* m_ex_buffer, the bytes by number
  output_size,  \* m_output_size
  \* Stream_Device
  opened,       \* m_opened
  opens,        \* history: how often it was opened again
  flags,        \* m_event_flags
  pc,           \* pc[w]: where writer w is in write or flush
  todo,         \* todo[w]: size - write_bytes
  goal,         \* goal[w]: history, the bytes accepted when w called flush
  timeout,      \* timeout[w]: the timeout of w's call, "finite" or "forever"
  style,        \* how this device is used
  \* Device_Manager
  events,       \* m_queue: messages of this device, "transfer", or of others
  dropped,      \* history: did a post_event of this device fail?
  manager,      \* the thread's place, and the locals of output_start
  \* the transfer
  dma,          \* the DMA stream: is its channel open, how much is to be sent
                \* and was, and is the transfer-complete interrupt still to come?
  tc,           \* the TC messages in the Interrupt_Manager's queue
  handler,      \* the place of the Interrupt_Manager's thread
  sent,         \* history: how many bytes came out in order
  garbled       \* history: did a byte come out that was not next?

buffer_vars == <<accepted, head, ex, output_size>>
device_vars == <<opened, opens, flags>>
writer_vars == <<pc, todo, goal, timeout, style>>
manager_vars == <<events, dropped, manager>>
wire_vars == <<dma, tc, handler, sent, garbled>>
vars == <<buffer_vars, device_vars, writer_vars, manager_vars, wire_vars>>

Slots == 0 .. N - 1

-------------------------------------------------------------------------------
tail == accepted % N
available == (tail - head) % N
space == N - 1 - available
full == (tail + 1) % N = head

\* The byte in slot i: the last one that was put there, 0 before the first.
InSlot(i) ==
  LET b == accepted - ((accepted - 1 - i) % N) IN IF b >= 1 THEN b ELSE 0

Least(m, n) == IF m <= n THEN m ELSE n

\* Device_Manager::post_event: the queue is sent to without waiting.
Posts ==
  IF Len(events) < QueueSize
  THEN events' = Append(events, "transfer") /\ UNCHANGED dropped
  ELSE dropped' = TRUE /\ UNCHANGED events

\* The other threads do not run while the Interrupt_Manager's does: its priority
\* is 2, the Device_Manager's is 3, and writers are taken to be below as well.
OthersRun == handler = "wait"

Goes(w, from, to) == OthersRun /\ pc[w] = from /\ pc' = [pc EXCEPT ![w] = to]

-------------------------------------------------------------------------------
(* write *)

\* A call made while open has not yet cleared the flags could lose the one it
\* waits for: only the "mixed" style calls so early.
MayCall == opened /\ (style # "mixed" => "Close" \notin flags)

\* A device whose writes may fill the buffer is not flushed ("fills"), or it is
\* flushed, without a timeout, and its writes leave room ("flushes").
CallWrite(w) ==
  /\ MayCall
  /\ Goes(w, "idle", "check")
  /\ \E n \in Sizes :
       /\ accepted + n <= MaxBytes
       /\ style = "flushes" => n < space
       /\ todo' = [todo EXCEPT ![w] = n]
  /\ \E k \in {"finite", "forever"} : timeout' = [timeout EXCEPT ![w] = k]
  /\ UNCHANGED <<buffer_vars, device_vars, goal, style, manager_vars, wire_vars>>

\* The head of the loop, and full.
Check(w) ==
  /\ \/ (todo[w] = 0 \/ ~ opened) /\ Goes(w, "check", "idle")
     \/ todo[w] > 0 /\ opened /\ Goes(w, "check", IF full THEN "wait" ELSE "write")
  /\ UNCHANGED <<buffer_vars, device_vars, todo, goal, timeout, style, manager_vars, wire_vars>>

\* m_event_flags.wait(Transmit_Finish | Close), which clears neither.
Wait(w) ==
  /\ Goes(w, "wait", IF "Close" \in flags THEN "idle"
                     ELSE IF "Transmit_Finish" \in flags THEN "write" ELSE "suspended")
  /\ UNCHANGED <<buffer_vars, device_vars, todo, goal, timeout, style, manager_vars, wire_vars>>

\* The timeout of a suspended call of write or flush runs out.
Expire(w) ==
  /\ timeout[w] = "finite"
  /\ pc[w] \in {"suspended", "flush_suspended"}
  /\ pc' = [pc EXCEPT ![w] = "idle"]
  /\ UNCHANGED <<buffer_vars, device_vars, todo, goal, timeout, style, manager_vars, wire_vars>>

\* m_output_buffer.write of what fits.
Write(w) ==
  /\ IF opened
     THEN LET n == Least(todo[w], space) IN
          /\ Goes(w, "write", "written")
          /\ accepted' = accepted + n
          /\ todo' = [todo EXCEPT ![w] = @ - n]
     ELSE Goes(w, "write", "check") /\ UNCHANGED <<accepted, todo>>
  /\ UNCHANGED <<head, ex, output_size, device_vars, goal, timeout, style,
                 manager_vars, wire_vars>>

\* Mutant: the flag of the last transfer is not cleared.
FilledWithoutClear(w) ==
  /\ Goes(w, "written", IF full THEN "post" ELSE "check")
  /\ UNCHANGED <<buffer_vars, device_vars, todo, goal, timeout, style, manager_vars, wire_vars>>

\* Mutant: the buffer is sent only when there is more to write.
FilledOnlyForMore(w) ==
  /\ IF full /\ todo[w] > 0
     THEN Goes(w, "written", "post") /\ flags' = flags \ {"Transmit_Finish"}
     ELSE Goes(w, "written", "check") /\ UNCHANGED flags
  /\ UNCHANGED <<buffer_vars, opened, opens, todo, goal, timeout, style, manager_vars, wire_vars>>

\* A buffer that is full now is to be sent: Transmit_Finish is cleared first.
Filled(w) ==
  /\ IF full
     THEN Goes(w, "written", "post") /\ flags' = flags \ {"Transmit_Finish"}
     ELSE Goes(w, "written", "check") /\ UNCHANGED flags
  /\ UNCHANGED <<buffer_vars, opened, opens, todo, goal, timeout, style, manager_vars, wire_vars>>

Post(w) ==
  /\ Goes(w, "post", "check")
  /\ Posts
  /\ UNCHANGED <<buffer_vars, device_vars, todo, goal, timeout, style, manager, wire_vars>>

(* flush *)

\* An empty buffer is flushed; otherwise post_event, whatever its result.
CallFlush(w) ==
  /\ MayCall
  /\ style # "fills"
  /\ available > 0
  /\ Goes(w, "idle", "flush")
  /\ Posts
  /\ goal' = [goal EXCEPT ![w] = accepted]
  /\ \E k \in {"finite", "forever"} :
       /\ style = "flushes" => k = "forever"
       /\ timeout' = [timeout EXCEPT ![w] = k]
  /\ UNCHANGED <<buffer_vars, device_vars, todo, style, manager, wire_vars>>

FlushWait(w) ==
  /\ Goes(w, "flush", IF "Transmit_Finish" \in flags THEN "flushed"
                      ELSE IF "Close" \in flags THEN "idle" ELSE "flush_suspended")
  /\ UNCHANGED <<buffer_vars, device_vars, todo, goal, timeout, style, manager_vars, wire_vars>>

\* Mutant: the flag is left for the next flush.
FlushOKKeepsFlag(w) ==
  /\ Goes(w, "flushed", "idle")
  /\ UNCHANGED <<buffer_vars, device_vars, todo, goal, timeout, style, manager_vars, wire_vars>>

\* Device_Error_Code::OK
FlushOK(w) ==
  /\ Goes(w, "flushed", "idle")
  /\ flags' = flags \ {"Transmit_Finish"}
  /\ UNCHANGED <<buffer_vars, opened, opens, todo, goal, timeout, style, manager_vars, wire_vars>>

-------------------------------------------------------------------------------
(* The Device_Manager's thread *)

\* Other devices share the queue.
PostOther ==
  /\ Len(events) < QueueSize
  /\ events' = Append(events, "other")
  /\ UNCHANGED <<buffer_vars, device_vars, writer_vars, dropped, manager, wire_vars>>

\* manger_handler: output_start reads how much there is to send.
Receive ==
  /\ OthersRun
  /\ manager.at = "receive"
  /\ events # <<>>
  /\ events' = Tail(events)
  /\ manager' = IF Head(events) = "transfer"
                THEN [manager EXCEPT !.at = "indices", !.used = available]
                ELSE manager
  /\ UNCHANGED <<buffer_vars, device_vars, writer_vars, dropped, wire_vars>>

\* ... then the indices ...
ReadIndices ==
  /\ OthersRun
  /\ manager.at = "indices"
  /\ manager' = [manager EXCEPT !.at = "copy", !.head = head, !.tail = tail]
  /\ UNCHANGED <<buffer_vars, device_vars, writer_vars, events, dropped, wire_vars>>

\* Mutant: the second part is one too long.
CopiedOneTooMany(h, t, used) == IF t >= h THEN used ELSE N - h + t + 1

\* ... and copies: the amount read first, or when the data wraps around, up to
\* the tail read last.
Copied(h, t, used) == IF t >= h THEN used ELSE N - h + t

CopyOut ==
  LET n == Copied(manager.head, manager.tail, manager.used) IN
  /\ OthersRun
  /\ manager.at = "copy"
  /\ manager' = [manager EXCEPT !.at = "send"]
  /\ ex' = [i \in 1 .. N |-> IF i <= n THEN InSlot((manager.head + i - 1) % N) ELSE ex[i]]
  /\ output_size' = n
  /\ UNCHANGED <<accepted, head, device_vars, writer_vars, events, dropped, wire_vars>>

\* Config::send starts the stream over again, unless its channel was closed.
\* A stream told to send nothing never completes.
Send ==
  /\ OthersRun
  /\ manager.at = "send"
  /\ manager' = [manager EXCEPT !.at = "receive"]
  /\ dma' = IF dma.open
            THEN [open |-> TRUE, size |-> output_size, done |-> 0, busy |-> output_size > 0]
            ELSE dma
  /\ UNCHANGED <<buffer_vars, device_vars, writer_vars, events, dropped,
                 tc, handler, sent, garbled>>

-------------------------------------------------------------------------------
(* The transfer and its end *)

\* One byte leaves the buffer for the wire.
Transmit ==
  LET b == ex[dma.done + 1] IN
  /\ dma.done < dma.size
  /\ dma' = [dma EXCEPT !.done = @ + 1]
  /\ IF b = sent + 1
     THEN sent' = b /\ UNCHANGED garbled
     ELSE garbled' = TRUE /\ UNCHANGED sent
  /\ UNCHANGED <<buffer_vars, device_vars, writer_vars, manager_vars, tc, handler>>

\* The last byte is out: the transmission-complete interrupt is queued.
Interrupt ==
  /\ dma.busy
  /\ dma.done = dma.size
  /\ dma' = [dma EXCEPT !.busy = FALSE]
  /\ tc' = tc + 1
  /\ UNCHANGED <<buffer_vars, device_vars, writer_vars, manager_vars, handler, sent, garbled>>

\* Mutant: m_head is not wrapped.
CompleteWithoutWrap ==
  /\ handler = "wait"
  /\ tc > 0
  /\ tc' = tc - 1
  /\ IF dma.open
     THEN /\ head' = head + output_size
          /\ output_size' = 0
          /\ handler' = "finish"
     ELSE UNCHANGED <<head, output_size, handler>>
  /\ UNCHANGED <<accepted, ex, device_vars, writer_vars, manager_vars, dma, sent, garbled>>

\* The Interrupt_Manager's thread: output_complete releases what was sent and
\* sets Transmit_Finish, which wakes everybody who waits for it.  A message
\* whose interrupt was unregistered is dropped.
Complete ==
  /\ handler = "wait"
  /\ tc > 0
  /\ tc' = tc - 1
  /\ IF dma.open
     THEN /\ head' = (head + output_size) % N
          /\ output_size' = 0
          /\ handler' = "finish"
     ELSE UNCHANGED <<head, output_size, handler>>
  /\ UNCHANGED <<accepted, ex, device_vars, writer_vars, manager_vars, dma, sent, garbled>>

Finish ==
  /\ handler = "finish"
  /\ handler' = "wait"
  /\ flags' = flags \cup {"Transmit_Finish"}
  /\ pc' = [w \in Writers |-> CASE pc[w] = "suspended" -> "write"
                                [] pc[w] = "flush_suspended" -> "flushed"
                                [] OTHER -> pc[w]]
  /\ UNCHANGED <<buffer_vars, opened, opens, todo, goal, timeout, style, manager_vars,
                 dma, tc, sent, garbled>>

-------------------------------------------------------------------------------
(* close and open *)

\* close_impl: the DMA channel and the interrupt are given up.
Deinit ==
  /\ OthersRun
  /\ opened /\ "Close" \notin flags
  /\ dma.open
  /\ dma' = [open |-> FALSE, size |-> 0, done |-> 0, busy |-> FALSE]
  /\ UNCHANGED <<buffer_vars, device_vars, writer_vars, manager_vars,
                 tc, handler, sent, garbled>>

Close ==
  /\ OthersRun
  /\ opened
  /\ ~ dma.open
  /\ opened' = FALSE
  /\ UNCHANGED <<buffer_vars, opens, flags, writer_vars, manager_vars, wire_vars>>

\* The Close flag stays, and sends away everybody who waits.
SetClose ==
  /\ OthersRun
  /\ ~ opened
  /\ "Close" \notin flags
  /\ flags' = flags \cup {"Close"}
  /\ pc' = [w \in Writers |->
              IF pc[w] \in {"suspended", "flush_suspended"} THEN "idle" ELSE pc[w]]
  /\ UNCHANGED <<buffer_vars, opened, opens, todo, goal, timeout, style, manager_vars, wire_vars>>

\* open_impl starts the UART over again, and m_opened is set.  The buffer, and
\* what the managers have in hand, stay as they are.  A device that is not used
\* in the "mixed" style is opened again only when its buffer was empty.
Open ==
  /\ OthersRun
  /\ ~ opened /\ "Close" \in flags
  /\ opens < MaxOpens
  /\ style # "mixed" => available = 0 /\ \A w \in Writers : pc[w] = "idle"
  /\ opened' = TRUE
  /\ opens' = opens + 1
  /\ dma' = [dma EXCEPT !.open = TRUE]
  /\ UNCHANGED <<buffer_vars, flags, writer_vars, manager_vars, tc, handler, sent, garbled>>

\* ... then the flags are cleared, and Enable_Receive is posted.
ClearFlags ==
  /\ OthersRun
  /\ opened /\ "Close" \in flags
  /\ flags' = {}
  /\ events' = IF Len(events) < QueueSize THEN Append(events, "other") ELSE events
  /\ UNCHANGED <<buffer_vars, opened, opens, writer_vars, dropped, manager, wire_vars>>

-------------------------------------------------------------------------------
\* The device has just been opened for the first time.
Init ==
  /\ accepted = 0 /\ head = 0 /\ ex = [i \in 1 .. N |-> 0] /\ output_size = 0
  /\ opened = TRUE /\ opens = 0
  /\ flags = {}
  /\ pc = [w \in Writers |-> "idle"]
  /\ todo = [w \in Writers |-> 0]
  /\ goal = [w \in Writers |-> 0]
  /\ timeout = [w \in Writers |-> "forever"]
  /\ style \in Styles
  /\ events = <<>>
  /\ dropped = FALSE
  /\ manager = [at |-> "receive", used |-> 0, head |-> 0, tail |-> 0]
  /\ dma = [open |-> TRUE, size |-> 0, done |-> 0, busy |-> FALSE]
  /\ tc = 0
  /\ handler = "wait"
  /\ sent = 0
  /\ garbled = FALSE

\* The steps of a call that has begun, in the thread that made it.
Continue(w) ==
  \/ Check(w) \/ Wait(w) \/ Write(w) \/ Filled(w) \/ Post(w)
  \/ FlushWait(w) \/ FlushOK(w)

Managing == Receive \/ ReadIndices \/ CopyOut \/ Send
Transferring == Transmit \/ Interrupt \/ Complete \/ Finish
Closing == Deinit \/ Close \/ SetClose
Opening == Open \/ ClearFlags

Next ==
  \/ \E w \in Writers : CallWrite(w) \/ CallFlush(w) \/ Continue(w) \/ Expire(w)
  \/ PostOther
  \/ Managing
  \/ Transferring
  \/ Closing
  \/ Opening

Spec == Init /\ [][Next]_vars

\* Every thread is scheduled when it can run, the hardware goes on, and close,
\* once begun, ends.  Nobody has to call anything.
LiveSpec ==
  /\ Spec
  /\ \A w \in Writers : WF_vars(Continue(w)) /\ WF_vars(Expire(w))
  /\ WF_vars(Managing)
  /\ WF_vars(Transferring)
  /\ WF_vars(Close \/ SetClose)
  /\ WF_vars(ClearFlags)

-------------------------------------------------------------------------------
(* Properties *)

Labels == {"idle", "check", "wait", "suspended", "write", "written", "post",
           "flush", "flush_suspended", "flushed"}
ManagerStates == [at : {"receive", "indices", "copy", "send"},
                  used : Slots, head : Slots, tail : Slots]
DmaStates == [open : BOOLEAN, size : Slots, done : Slots, busy : BOOLEAN]

\* The variables keep their types: no index leaves the arrays, and no more is
\* given to the wire than the extra buffer holds.
TypeOK ==
  /\ accepted \in 0 .. MaxBytes
  /\ head \in Slots
  /\ ex \in [1 .. N -> 0 .. MaxBytes]
  /\ output_size \in Slots
  /\ opened \in BOOLEAN /\ opens \in 0 .. MaxOpens
  /\ flags \subseteq {"Transmit_Finish", "Close"}
  /\ pc \in [Writers -> Labels]
  /\ todo \in [Writers -> 0 .. MaxBytes]
  /\ goal \in [Writers -> 0 .. MaxBytes]
  /\ timeout \in [Writers -> {"finite", "forever"}]
  /\ style \in Styles
  /\ events \in Seq({"transfer", "other"}) /\ Len(events) <= QueueSize
  /\ dropped \in BOOLEAN
  /\ manager \in ManagerStates
  /\ dma \in DmaStates
  /\ tc \in Nat
  /\ handler \in {"wait", "finish"}
  /\ sent \in 0 .. MaxBytes
  /\ garbled \in BOOLEAN

\* Bytes come out in the order they were accepted, each once and none left out,
\* although they are copied while the indices move and transfers restart.
WireInOrder == ~ garbled

\* The device is a channel: a byte comes out after it was accepted, its slot is
\* free for another one only after it came out, and there is room for N - 1.
Channel == INSTANCE ByteChannel WITH Room <- N - 1, released <- accepted - available
ImplementsChannel == Channel!Spec

\* When flush says OK, every byte that was accepted before it was called is out.
FlushMeansSent ==
  [][\A w \in Writers : pc[w] = "flushed" /\ pc'[w] = "idle"
                           => goal[w] <= sent /\ ~ garbled]_vars

\* write and flush come back, also without a timeout: no wake-up is lost between
\* the buffer, the flag and the two managers, unless a post_event failed, whose
\* result both ignore.
WriterReturns == \A w \in Writers : pc[w] # "idle" ~> pc[w] = "idle" \/ dropped
===============================================================================
