--------------------------- MODULE StreamOutputOrder ---------------------------
(***************************************************************************)
(* For every size of the buffer, of the writes and of the queue, with one  *)
(* writer that uses the device in the "fills" or the "flushes" style:      *)
(* nothing but the next byte is put on the wire, flush tells the truth and *)
(* the device implements ByteChannel.                                      *)
(*                                                                         *)
(* The argument: a request to send is one token, which is with the writer  *)
(* that is about to post it, in the queue, with the Device_Manager, with   *)
(* the DMA, or in the queue of the Interrupt_Manager, and never in two of  *)
(* these places.  While it is anywhere the writer leaves the buffer alone, *)
(* so that what output_start reads at different times belongs together.    *)
(***************************************************************************)
EXTENDS StreamOutputProofs

-------------------------------------------------------------------------------
(* The inductive invariant *)

\* Where the request to send can be.
Posting == \E w \in Writers : pc[w] = "post"
IsTransfer(i) == events[i] = "transfer"
Queued == \E i \in 1 .. Len(events) : IsTransfer(i)
Managed == manager.at # "receive"
Pending == tc > 0
InFlight == Posting \/ Queued \/ Managed \/ dma.busy \/ Pending

QueuedOnce ==
  \A i, j \in 1 .. Len(events) : IsTransfer(i) /\ IsTransfer(j) => i = j

OneTransfer ==
  /\ QueuedOnce
  /\ tc <= 1
  /\ Posting => ~ Queued /\ ~ Managed /\ ~ dma.busy /\ ~ Pending
  /\ Queued => ~ Managed /\ ~ dma.busy /\ ~ Pending
  /\ Managed => ~ dma.busy /\ ~ Pending
  /\ dma.busy => ~ Pending
  /\ handler = "finish" => ~ InFlight

Flushing == {"flush", "flush_suspended"}

\* A writer knows what the flags and the buffer are like where it is, and while
\* something is sent it does not write.
Holds(w) ==
  /\ pc[w] \in Flushing \cup {"flushed"} => style = "flushes" /\ timeout[w] = "forever"
  /\ goal[w] <= accepted
  /\ pc[w] = "flushed" => goal[w] <= sent
  /\ style = "fills" /\ pc[w] = "write" => ~ full
  /\ style = "fills" /\ full /\ pc[w] # "written" => "Transmit_Finish" \notin flags
  /\ style = "flushes" /\ pc[w] \in {"check", "write", "written"} => todo[w] < space
  /\ style = "flushes" => pc[w] \notin {"wait", "suspended", "post"}
  /\ style = "flushes" /\ "Transmit_Finish" \in flags =>
       pc[w] \in {"flush", "flushed"} /\ goal[w] <= sent
  /\ opened /\ "Close" \in flags => pc[w] = "idle"
  /\ InFlight \/ handler = "finish" =>
       /\ "Transmit_Finish" \notin flags
       /\ style = "fills" => pc[w] \notin {"write", "written"}
       /\ style = "flushes" => pc[w] \in Flushing \/ (~ opened /\ pc[w] = "idle")

\* A transfer is never asked for an empty buffer, and in the "fills" style only
\* for a full one.
Worthwhile == InFlight => available > 0 /\ (style = "fills" => full)

\* The extra buffer holds what is available, in order.
Loaded == \A i \in 1 .. available : ex[i] = base + i

\* How far the wire is, by the place of the request.
WireHolds ==
  /\ ~ garbled /\ 0 <= base /\ base <= sent /\ sent <= accepted
  /\ dma.open => opened
  /\ dma.busy => /\ dma.open
                 /\ dma.size = available /\ output_size = available
                 /\ sent = base + dma.done
                 /\ Loaded
  /\ ~ dma.busy => dma.done = dma.size
  /\ Pending => output_size = available /\ sent = accepted
  /\ handler = "finish" => available = 0 /\ dma.open
  /\ dma.open /\ ~ dma.busy /\ ~ Pending => sent = base

\* What output_start has read is still so.
ManagerHolds ==
  /\ manager.at \in {"indices", "copy"} => manager.used = available
  /\ manager.at = "copy" => manager.head = head /\ manager.tail = tail
  /\ manager.at = "send" => output_size = available /\ Loaded

OrderInv ==
  /\ TypeInv
  /\ style \in {"fills", "flushes"}
  /\ OneTransfer
  /\ \A w \in Writers : Holds(w)
  /\ Worthwhile
  /\ WireHolds
  /\ ManagerHolds

-------------------------------------------------------------------------------
(* The queue *)

LEMMA QueueTakesTransfer ==
  ASSUME events \in Seq({"transfer", "other"}), ~ Queued,
         events' = Append(events, "transfer")
  PROVE  Queued' /\ QueuedOnce'
<1>1. /\ Len(events) \in Nat /\ Len(events') = Len(events) + 1
      /\ events'[Len(events) + 1] = "transfer"
      /\ \A i \in 1 .. Len(events) : events'[i] = events[i]
  BY AppendProperties, LenProperties
<1> QED
  BY <1>1 DEF Queued, QueuedOnce, IsTransfer

LEMMA QueueTakesOther ==
  ASSUME events \in Seq({"transfer", "other"}), events' = Append(events, "other")
  PROVE  (Queued' <=> Queued) /\ (QueuedOnce => QueuedOnce')
<1>1. /\ Len(events) \in Nat /\ Len(events') = Len(events) + 1
      /\ events'[Len(events) + 1] = "other"
      /\ \A i \in 1 .. Len(events) : events'[i] = events[i]
  BY AppendProperties, LenProperties
<1>2. \A i \in 1 .. Len(events') :
        i \in 1 .. Len(events) \/ i = Len(events) + 1
  BY <1>1
<1>3. \A i \in 1 .. Len(events) : i \in 1 .. Len(events')
  BY <1>1
<1> QED
  BY <1>1, <1>2, <1>3 DEF Queued, QueuedOnce, IsTransfer

LEMMA QueueGives ==
  ASSUME events \in Seq({"transfer", "other"}), events # <<>>, QueuedOnce,
         events' = Tail(events)
  PROVE  /\ QueuedOnce'
         /\ Head(events) = "transfer" => Queued /\ ~ Queued'
         /\ Head(events) # "transfer" => (Queued' <=> Queued)
<1>1. /\ Len(events) \in Nat /\ Len(events) >= 1 /\ Len(events') = Len(events) - 1
      /\ Head(events) = events[1]
      /\ \A i \in 1 .. Len(events') : events'[i] = events[i + 1]
  BY HeadTailProperties, LenProperties, EmptySeq
<1>2. \A i \in 1 .. Len(events') : i + 1 \in 1 .. Len(events) /\ i + 1 # 1
  BY <1>1
<1>3. \A i \in 1 .. Len(events) : i # 1 => i - 1 \in 1 .. Len(events') /\ (i - 1) + 1 = i
  BY <1>1
<1>4. 1 \in 1 .. Len(events)
  BY <1>1
<1>5. QueuedOnce'
  BY <1>1, <1>2 DEF QueuedOnce, IsTransfer
<1>6. ASSUME Head(events) = "transfer" PROVE Queued /\ ~ Queued'
  BY <1>1, <1>2, <1>4, <1>6 DEF Queued, QueuedOnce, IsTransfer
<1>7. ASSUME Head(events) # "transfer" PROVE Queued' <=> Queued
  BY <1>1, <1>2, <1>3, <1>7 DEF Queued, IsTransfer
<1> QED
  BY <1>5, <1>6, <1>7

-------------------------------------------------------------------------------
(* The writer *)

\* The wire and the manager do not see the writer while the buffer is the same.
LEMMA SameWire ==
  ASSUME UNCHANGED <<buffer_vars, opened, wire_vars>>
  PROVE  WireHolds => WireHolds'
<1>1. available' = available /\ base' = base
  BY SameBuffer DEF base, buffer_vars
<1> QED
  BY <1>1 DEF WireHolds, Loaded, Pending, buffer_vars, wire_vars

LEMMA SameManager ==
  ASSUME UNCHANGED <<buffer_vars, manager>>
  PROVE  ManagerHolds => ManagerHolds'
<1>1. available' = available /\ tail' = tail /\ base' = base
  BY SameBuffer DEF base, buffer_vars
<1> QED
  BY <1>1 DEF ManagerHolds, Loaded, buffer_vars

\* With one writer its place is the whole of Posting.
LEMMA PlaceMoves ==
  ASSUME OneWriter, TypeOK, NEW w \in Writers, NEW to, pc' = [pc EXCEPT ![w] = to]
  PROVE  /\ pc'[w] = to
         /\ Posting <=> pc[w] = "post"
         /\ Posting' <=> to = "post"
BY DEF OneWriter, Posting, TypeOK

LEMMA OneHolds ==
  ASSUME OneWriter, NEW w \in Writers, Holds(w)'
  PROVE  \A v \in Writers : Holds(v)'
BY DEF OneWriter

\* A step of the writer between two places where it asks for nothing.
LEMMA WriterStays ==
  ASSUME OneWriter, OrderInv, NEW w \in Writers, NEW to,
         pc' = [pc EXCEPT ![w] = to], pc[w] # "post", to # "post",
         UNCHANGED <<buffer_vars, opened, style, manager_vars, wire_vars>>,
         TypeInv'
  PROVE  /\ Holds(w)' => OrderInv'
         /\ InFlight' <=> InFlight
         /\ full' = full /\ space' = space /\ pc'[w] = to
<1>1. pc'[w] = to /\ ~ Posting /\ ~ Posting'
  BY PlaceMoves DEF OrderInv, TypeInv
<1>2. full' = full /\ space' = space /\ available' = available
  BY SameBuffer DEF buffer_vars
<1>3. /\ Queued' <=> Queued
      /\ Managed' <=> Managed
      /\ Pending' <=> Pending
      /\ dma' = dma /\ handler' = handler /\ tc' = tc
      /\ QueuedOnce' <=> QueuedOnce
  BY DEF Queued, Managed, Pending, QueuedOnce, IsTransfer, manager_vars, wire_vars
<1>4. InFlight' <=> InFlight
  BY <1>1, <1>3 DEF InFlight
<1>5. OneTransfer'
  BY <1>1, <1>3, <1>4 DEF OneTransfer, OrderInv
<1>6. Worthwhile'
  BY <1>2, <1>4 DEF Worthwhile, OrderInv
<1>7. WireHolds' /\ ManagerHolds'
  BY SameWire, SameManager DEF OrderInv, manager_vars
<1> QED
  BY <1>1, <1>2, <1>4, <1>5, <1>6, <1>7, OneHolds DEF OrderInv

LEMMA CallWriteOrder ==
  ASSUME OneWriter, OrderInv, TypeInv', NEW w \in Writers, CallWrite(w)
  PROVE  OrderInv'
<1>1. /\ pc' = [pc EXCEPT ![w] = "check"] /\ pc[w] = "idle" /\ handler = "wait"
      /\ UNCHANGED <<buffer_vars, device_vars, goal, style, manager_vars, wire_vars>>
      /\ opened /\ "Close" \notin flags
  BY DEF CallWrite, Goes, OthersRun, MayCall, OrderInv
<1>2. style = "flushes" => todo'[w] < space
  BY DEF CallWrite, OrderInv, TypeInv, TypeOK
<1>3. /\ Holds(w)' => OrderInv'
      /\ InFlight' <=> InFlight
      /\ full' = full /\ space' = space /\ pc'[w] = "check"
  BY <1>1, WriterStays DEF device_vars
<1>4. Holds(w)
  BY DEF OrderInv
<1>5. Holds(w)'
  BY <1>1, <1>2, <1>3, <1>4 DEF Holds, Flushing, device_vars, buffer_vars, wire_vars
<1> QED
  BY <1>3, <1>5

LEMMA CheckOrder ==
  ASSUME OneWriter, OrderInv, TypeInv', NEW w \in Writers, Check(w)
  PROVE  OrderInv'
<1>1. /\ pc[w] = "check" /\ handler = "wait"
      /\ UNCHANGED <<buffer_vars, device_vars, todo, goal, timeout, style, manager_vars, wire_vars>>
  BY DEF Check, Goes, OthersRun
<1>2. PICK to : /\ pc' = [pc EXCEPT ![w] = to]
                /\ to = "idle" \/ (full /\ to = "wait") \/ (~ full /\ to = "write")
  BY DEF Check, Goes
<1>3. /\ Holds(w)' => OrderInv'
      /\ InFlight' <=> InFlight
      /\ full' = full /\ space' = space /\ pc'[w] = to
  BY <1>1, <1>2, WriterStays DEF device_vars
<1>4. Holds(w) /\ Worthwhile
  BY DEF OrderInv
<1>5. full => space = 0
  BY BufferFacts, SizesAssumption DEF OrderInv, TypeInv, TypeOK
<1>6. todo[w] \in Nat
  BY DEF OrderInv, TypeInv, TypeOK
<1>7. Holds(w)'
  BY <1>1, <1>2, <1>3, <1>4, <1>5, <1>6
     DEF Holds, Worthwhile, Flushing, device_vars, buffer_vars, wire_vars
<1> QED
  BY <1>3, <1>7

LEMMA WaitOrder ==
  ASSUME OneWriter, OrderInv, TypeInv', NEW w \in Writers, Wait(w)
  PROVE  OrderInv'
<1>1. /\ pc[w] = "wait" /\ handler = "wait"
      /\ UNCHANGED <<buffer_vars, device_vars, todo, goal, timeout, style, manager_vars, wire_vars>>
  BY DEF Wait, Goes, OthersRun
<1>2. PICK to : /\ pc' = [pc EXCEPT ![w] = to]
                /\ to \in {"idle", "suspended"}
                     \/ ("Transmit_Finish" \in flags /\ to = "write")
  BY DEF Wait, Goes
<1>3. /\ Holds(w)' => OrderInv'
      /\ InFlight' <=> InFlight
      /\ full' = full /\ space' = space /\ pc'[w] = to
  BY <1>1, <1>2, WriterStays DEF device_vars
<1>4. Holds(w) /\ style \in {"fills", "flushes"}
  BY DEF OrderInv
<1>5. Holds(w)'
  BY <1>1, <1>2, <1>3, <1>4 DEF Holds, Flushing, device_vars, buffer_vars, wire_vars
<1> QED
  BY <1>3, <1>5

\* Only a call of write has a timeout here.
LEMMA ExpireOrder ==
  ASSUME OneWriter, OrderInv, TypeInv', NEW w \in Writers, Expire(w)
  PROVE  OrderInv'
<1>1. Holds(w) /\ style \in {"fills", "flushes"}
  BY DEF OrderInv
<1>2. /\ pc[w] = "suspended" /\ pc' = [pc EXCEPT ![w] = "idle"]
      /\ UNCHANGED <<buffer_vars, device_vars, todo, goal, timeout, style, manager_vars, wire_vars>>
  BY <1>1 DEF Expire, Holds, Flushing
<1>3. /\ Holds(w)' => OrderInv'
      /\ InFlight' <=> InFlight
      /\ full' = full /\ space' = space /\ pc'[w] = "idle"
  BY <1>2, WriterStays DEF device_vars
<1>4. Holds(w)'
  BY <1>1, <1>2, <1>3 DEF Holds, Flushing, device_vars, buffer_vars, wire_vars
<1> QED
  BY <1>3, <1>4

\* What the writer puts in is what nobody reads: there is no transfer.
LEMMA WriteOrder ==
  ASSUME OneWriter, OrderInv, TypeInv', NEW w \in Writers, Write(w)
  PROVE  OrderInv'
<1>1. /\ pc[w] = "write" /\ handler = "wait"
      /\ UNCHANGED <<head, ex, output_size, device_vars, goal, timeout, style,
                     manager_vars, wire_vars>>
  BY DEF Write, Goes, OthersRun
<1>2. Holds(w) /\ style \in {"fills", "flushes"} /\ pc \in [Writers -> Labels]
  BY DEF OrderInv, TypeInv, TypeOK
<1>3. ~ InFlight
  BY <1>1, <1>2 DEF Holds, Flushing
<1>4. CASE ~ opened
  <2>1. /\ pc' = [pc EXCEPT ![w] = "check"]
        /\ UNCHANGED <<buffer_vars, todo>>
    BY <1>1, <1>4 DEF Write, Goes, buffer_vars
  <2>2. /\ Holds(w)' => OrderInv'
        /\ InFlight' <=> InFlight
        /\ full' = full /\ space' = space /\ pc'[w] = "check"
    BY <1>1, <2>1, WriterStays DEF device_vars
  <2>3. Holds(w)'
    BY <1>1, <1>2, <1>3, <2>1, <2>2 DEF Holds, Flushing, device_vars, buffer_vars, wire_vars
  <2> QED
    BY <2>2, <2>3
<1>5. CASE opened
  <2> DEFINE n == Least(todo[w], space)
  <2>1. /\ pc' = [pc EXCEPT ![w] = "written"]
        /\ accepted' = accepted + n /\ todo' = [todo EXCEPT ![w] = @ - n]
    BY <1>5 DEF Write, Goes
  <2>2. /\ todo[w] \in Nat /\ accepted \in Nat /\ head \in Slots /\ sent \in Nat
        /\ todo \in [Writers -> 0 .. MaxBytes]
        /\ available \in Slots /\ space \in Slots /\ space = N - 1 - available
        /\ goal[w] \in Nat
    BY BufferFacts DEF OrderInv, TypeInv, TypeOK
  <2>3. n \in 0 .. space /\ n <= todo[w] /\ (todo[w] < space => n = todo[w])
    BY <2>2 DEF Least, Slots
  <2> HIDE DEF n
  <2>4. available' = available + n /\ base' = base
    <3>1. available' = available + n
      BY <1>1, <2>1, <2>2, <2>3, RoomTaken
    <3> QED
      BY <2>1, <2>2, <2>3, <3>1, SizesAssumption DEF base, Slots
  <2>5. space' = space - n
    BY <2>2, <2>3, <2>4, SizesAssumption DEF space, Slots
  <2>6. todo'[w] = todo[w] - n
    BY <2>1, <2>2
  <2>7. pc'[w] = "written" /\ ~ Posting'
    BY <2>1, PlaceMoves DEF OrderInv, TypeInv
  <2>8. /\ Queued' <=> Queued
        /\ Managed' <=> Managed
        /\ Pending' <=> Pending
        /\ dma' = dma /\ handler' = handler /\ tc' = tc /\ manager' = manager
        /\ QueuedOnce' <=> QueuedOnce
    BY <1>1 DEF Queued, Managed, Pending, QueuedOnce, IsTransfer, manager_vars, wire_vars
  <2>9. ~ InFlight'
    BY <1>3, <2>7, <2>8 DEF InFlight
  <2>10. OneTransfer'
    BY <2>8, <2>9, <1>3 DEF OneTransfer, OrderInv, InFlight
  <2>11. accepted' \in Nat /\ accepted <= accepted'
    BY <2>1, <2>2, <2>3 DEF Slots
  <2>12. Holds(w)'
    <3>1. goal'[w] <= accepted'
      <4>1. goal' = goal /\ goal[w] <= accepted
        BY <1>1, <1>2 DEF Holds
      <4> QED
        BY <2>2, <2>11, <4>1
    <3>2. style = "flushes" => todo'[w] < space'
      <4> SUFFICES ASSUME style = "flushes" PROVE todo'[w] < space'
        OBVIOUS
      <4>1. todo[w] < space /\ n = todo[w]
        BY <1>1, <1>2, <2>3 DEF Holds
      <4> QED
        BY <2>2, <2>5, <2>6, <4>1 DEF Slots
    <3>3. handler' = "wait" /\ flags' = flags /\ opened' = opened /\ style' = style
      BY <1>1 DEF device_vars, wire_vars
    <3>4. style = "flushes" => "Transmit_Finish" \notin flags
      BY <1>1, <1>2 DEF Holds
    <3>5. opened => "Close" \notin flags
      BY <1>1, <1>2 DEF Holds
    <3> QED
      BY <2>7, <2>9, <3>1, <3>2, <3>3, <3>4, <3>5 DEF Holds, Flushing
  <2>13. WireHolds'
    <3>1. sent <= accepted'
      BY <2>2, <2>11 DEF OrderInv, WireHolds, TypeInv, TypeOK
    <3> QED
      BY <1>1, <1>3, <2>4, <2>8, <2>9, <3>1
         DEF OrderInv, WireHolds, InFlight, device_vars, wire_vars
  <2>14. ManagerHolds'
    BY <2>8, <2>9 DEF ManagerHolds, InFlight, Managed
  <2>15. Worthwhile'
    BY <2>9 DEF Worthwhile
  <2> QED
    BY <1>1, <2>10, <2>12, <2>13, <2>14, <2>15, OneHolds DEF OrderInv
<1> QED
  BY <1>4, <1>5

\* Filling the buffer makes the request: nobody has one yet.
LEMMA FilledOrder ==
  ASSUME OneWriter, OrderInv, TypeInv', NEW w \in Writers, Filled(w)
  PROVE  OrderInv'
<1>1. /\ pc[w] = "written" /\ handler = "wait"
      /\ UNCHANGED <<buffer_vars, opened, opens, todo, goal, timeout, style, manager_vars, wire_vars>>
  BY DEF Filled, Goes, OthersRun
<1>2. Holds(w) /\ style \in {"fills", "flushes"} /\ pc \in [Writers -> Labels]
  BY DEF OrderInv, TypeInv, TypeOK
<1>3. ~ InFlight
  BY <1>1, <1>2 DEF Holds, Flushing
<1>4. CASE ~ full
  <2>1. pc' = [pc EXCEPT ![w] = "check"] /\ flags' = flags
    BY <1>4 DEF Filled, Goes
  <2>2. /\ Holds(w)' => OrderInv'
        /\ InFlight' <=> InFlight
        /\ full' = full /\ space' = space /\ pc'[w] = "check"
    BY <1>1, <2>1, WriterStays
  <2>3. Holds(w)'
    BY <1>1, <1>2, <1>3, <1>4, <2>1, <2>2 DEF Holds, Flushing, buffer_vars, wire_vars
  <2> QED
    BY <2>2, <2>3
<1>5. CASE full
  <2>1. pc' = [pc EXCEPT ![w] = "post"] /\ flags' = flags \ {"Transmit_Finish"}
    BY <1>5 DEF Filled, Goes
  <2>2. available = N - 1 /\ space = 0 /\ todo[w] \in Nat
    BY <1>5, BufferFacts, SizesAssumption DEF OrderInv, TypeInv, TypeOK
  <2>3. style = "fills"
    BY <1>1, <1>2, <2>2 DEF Holds
  <2>4. /\ full' = full /\ available' = available
        /\ pc'[w] = "post" /\ Posting'
    BY <1>1, <2>1, SameBuffer, PlaceMoves DEF OrderInv, TypeInv, buffer_vars
  <2>5. /\ Queued' <=> Queued
        /\ Managed' <=> Managed
        /\ Pending' <=> Pending
        /\ dma' = dma /\ handler' = handler /\ tc' = tc
        /\ QueuedOnce' <=> QueuedOnce
    BY <1>1 DEF Queued, Managed, Pending, QueuedOnce, IsTransfer, manager_vars, wire_vars
  <2>6. OneTransfer'
    BY <1>1, <1>3, <2>4, <2>5 DEF OneTransfer, InFlight, OrderInv
  <2>7. Worthwhile'
    BY <1>5, <2>2, <2>4, SizesAssumption DEF Worthwhile
  <2>8. WireHolds' /\ ManagerHolds'
    BY <1>1, SameWire, SameManager DEF OrderInv, manager_vars
  <2>9. Holds(w)'
    BY <1>1, <1>2, <2>1, <2>3, <2>4 DEF Holds, Flushing, buffer_vars, wire_vars
  <2> QED
    BY <1>1, <2>6, <2>7, <2>8, <2>9, OneHolds DEF OrderInv
<1> QED
  BY <1>4, <1>5

\* The request goes into the queue, or is lost.
LEMMA PostOrder ==
  ASSUME OneWriter, OrderInv, TypeInv', NEW w \in Writers, Post(w)
  PROVE  OrderInv'
<1>1. /\ pc[w] = "post" /\ handler = "wait" /\ pc' = [pc EXCEPT ![w] = "check"]
      /\ Posts
      /\ UNCHANGED <<buffer_vars, device_vars, todo, goal, timeout, style, manager, wire_vars>>
  BY DEF Post, Goes, OthersRun
<1>2. /\ Holds(w) /\ style \in {"fills", "flushes"} /\ OneTransfer /\ Worthwhile
      /\ events \in Seq({"transfer", "other"})
  BY DEF OrderInv, TypeInv, TypeOK
<1>3. /\ full' = full /\ space' = space /\ available' = available
      /\ pc'[w] = "check" /\ Posting /\ ~ Posting'
  BY <1>1, SameBuffer, PlaceMoves DEF OrderInv, TypeInv, buffer_vars
<1>4. InFlight /\ ~ Queued
  BY <1>2, <1>3 DEF OneTransfer, InFlight
<1>5. QueuedOnce'
  BY <1>1, <1>2, <1>4, QueueTakesTransfer DEF Posts, OneTransfer, QueuedOnce, IsTransfer
<1>6. /\ Managed' <=> Managed
      /\ Pending' <=> Pending
      /\ dma' = dma /\ handler' = handler /\ tc' = tc
  BY <1>1 DEF Managed, Pending, manager_vars, wire_vars
<1>7. OneTransfer'
  BY <1>1, <1>2, <1>3, <1>5, <1>6 DEF OneTransfer
<1>8. Worthwhile'
  BY <1>1, <1>2, <1>3, <1>4 DEF Worthwhile
<1>9. WireHolds' /\ ManagerHolds'
  BY <1>1, SameWire, SameManager DEF OrderInv, device_vars
<1>10. Holds(w)'
  BY <1>1, <1>2, <1>3, <1>4 DEF Holds, Flushing, device_vars, buffer_vars, wire_vars
<1> QED
  BY <1>1, <1>2, <1>7, <1>8, <1>9, <1>10, OneHolds DEF OrderInv

\* flush asks for what the writes left.
LEMMA CallFlushOrder ==
  ASSUME OneWriter, OrderInv, TypeInv', NEW w \in Writers, CallFlush(w)
  PROVE  OrderInv'
<1>1. /\ style = "flushes" /\ opened /\ available > 0
      /\ pc[w] = "idle" /\ handler = "wait" /\ pc' = [pc EXCEPT ![w] = "flush"]
      /\ Posts
      /\ goal' = [goal EXCEPT ![w] = accepted]
      /\ \E k \in {"finite", "forever"} :
           k = "forever" /\ timeout' = [timeout EXCEPT ![w] = k]
      /\ UNCHANGED <<buffer_vars, device_vars, todo, style, manager, wire_vars>>
      /\ "Close" \notin flags
  BY DEF CallFlush, Goes, OthersRun, MayCall, OrderInv
<1>2. /\ Holds(w) /\ OneTransfer
      /\ events \in Seq({"transfer", "other"})
      /\ goal \in [Writers -> 0 .. MaxBytes] /\ timeout \in [Writers -> {"finite", "forever"}]
      /\ accepted \in Nat
  BY SMTT(30) DEF OrderInv, TypeInv, TypeOK
<1>3. /\ full' = full /\ space' = space /\ available' = available
      /\ pc'[w] = "flush" /\ ~ Posting'
  BY <1>1, SameBuffer, PlaceMoves DEF OrderInv, TypeInv, buffer_vars
<1>4. ~ InFlight
  BY <1>1, <1>2 DEF Holds, Flushing
<1>5. QueuedOnce'
  BY <1>1, <1>2, <1>4, QueueTakesTransfer DEF Posts, OneTransfer, QueuedOnce, IsTransfer, InFlight
<1>6. /\ Managed' <=> Managed
      /\ Pending' <=> Pending
      /\ dma' = dma /\ handler' = handler /\ tc' = tc
  BY <1>1 DEF Managed, Pending, manager_vars, wire_vars
<1>7. OneTransfer'
  BY <1>1, <1>2, <1>3, <1>4, <1>5, <1>6 DEF OneTransfer, InFlight
<1>8. Worthwhile'
  BY <1>1, <1>3 DEF Worthwhile
<1>9. WireHolds' /\ ManagerHolds'
  BY <1>1, SameWire, SameManager DEF OrderInv, device_vars
<1>10. goal'[w] = accepted /\ timeout'[w] = "forever" /\ accepted' = accepted
  BY <1>1, <1>2 DEF buffer_vars
<1>11. Holds(w)'
  BY <1>1, <1>2, <1>3, <1>4, <1>10 DEF Holds, Flushing, device_vars, wire_vars
<1> QED
  BY <1>1, <1>2, <1>7, <1>8, <1>9, <1>11, OneHolds DEF OrderInv

LEMMA FlushWaitOrder ==
  ASSUME OneWriter, OrderInv, TypeInv', NEW w \in Writers, FlushWait(w)
  PROVE  OrderInv'
<1>1. /\ pc[w] = "flush" /\ handler = "wait"
      /\ UNCHANGED <<buffer_vars, device_vars, todo, goal, timeout, style, manager_vars, wire_vars>>
  BY DEF FlushWait, Goes, OthersRun
<1>2. PICK to : /\ pc' = [pc EXCEPT ![w] = to]
                /\ \/ "Transmit_Finish" \in flags /\ to = "flushed"
                   \/ "Transmit_Finish" \notin flags /\ "Close" \in flags /\ to = "idle"
                   \/ "Transmit_Finish" \notin flags /\ to = "flush_suspended"
  BY DEF FlushWait, Goes
<1>3. /\ Holds(w)' => OrderInv'
      /\ InFlight' <=> InFlight
      /\ full' = full /\ space' = space /\ pc'[w] = to
  BY <1>1, <1>2, WriterStays DEF device_vars
<1>4. Holds(w) /\ style = "flushes"
  BY <1>1 DEF OrderInv, Holds, Flushing
<1>5. Holds(w)'
  BY <1>1, <1>2, <1>3, <1>4 DEF Holds, Flushing, device_vars, buffer_vars, wire_vars
<1> QED
  BY <1>3, <1>5

LEMMA FlushOKOrder ==
  ASSUME OneWriter, OrderInv, TypeInv', NEW w \in Writers, FlushOK(w)
  PROVE  OrderInv'
<1>1. /\ pc[w] = "flushed" /\ handler = "wait" /\ pc' = [pc EXCEPT ![w] = "idle"]
      /\ flags' = flags \ {"Transmit_Finish"}
      /\ UNCHANGED <<buffer_vars, opened, opens, todo, goal, timeout, style, manager_vars, wire_vars>>
  BY DEF FlushOK, Goes, OthersRun
<1>2. /\ Holds(w)' => OrderInv'
      /\ InFlight' <=> InFlight
      /\ full' = full /\ space' = space /\ pc'[w] = "idle"
  BY <1>1, WriterStays
<1>3. Holds(w) /\ style = "flushes"
  BY <1>1 DEF OrderInv, Holds, Flushing
<1>4. Holds(w)'
  BY <1>1, <1>2, <1>3 DEF Holds, Flushing, buffer_vars, wire_vars
<1> QED
  BY <1>2, <1>4

-------------------------------------------------------------------------------
(* The Device_Manager's thread *)

\* The writers do not see the others while the buffer, the flags and the request
\* are as they were.
LEMMA SameWriters ==
  ASSUME OrderInv, UNCHANGED <<accepted, head, device_vars, writer_vars, handler, sent>>,
         InFlight' => InFlight
  PROVE  \A w \in Writers : Holds(w)'
<1>1. full' = full /\ space' = space
  BY SameBuffer
<1> SUFFICES ASSUME NEW w \in Writers PROVE Holds(w)'
  OBVIOUS
<1>2. Holds(w)
  BY DEF OrderInv
<1> QED
  BY <1>1, <1>2 DEF Holds, device_vars, writer_vars

LEMMA PostOtherOrder ==
  ASSUME OrderInv, TypeInv', PostOther
  PROVE  OrderInv'
<1>1. /\ UNCHANGED <<buffer_vars, device_vars, writer_vars, manager, wire_vars>>
      /\ events' = Append(events, "other")
      /\ events \in Seq({"transfer", "other"})
  BY DEF PostOther, OrderInv, TypeInv, TypeOK
<1>2. (Queued' <=> Queued) /\ (QueuedOnce => QueuedOnce')
  BY <1>1, QueueTakesOther
<1>3. /\ Posting' <=> Posting
      /\ Managed' <=> Managed
      /\ Pending' <=> Pending
      /\ dma' = dma /\ handler' = handler /\ tc' = tc /\ style' = style
  BY <1>1 DEF Posting, Managed, Pending, wire_vars, writer_vars
<1>4. InFlight' <=> InFlight
  BY <1>2, <1>3 DEF InFlight
<1>5. OneTransfer'
  BY <1>2, <1>3, <1>4 DEF OneTransfer, OrderInv
<1>6. \A w \in Writers : Holds(w)'
  BY <1>1, <1>4, SameWriters DEF buffer_vars, wire_vars
<1>7. Worthwhile'
  BY <1>1, <1>3, <1>4, SameBuffer DEF Worthwhile, OrderInv, buffer_vars
<1>8. WireHolds' /\ ManagerHolds'
  BY <1>1, SameWire, SameManager DEF OrderInv, device_vars
<1> QED
  BY <1>3, <1>5, <1>6, <1>7, <1>8 DEF OrderInv

\* The manager takes the request out of the queue, or a message of another device.
LEMMA ReceiveOrder ==
  ASSUME OrderInv, TypeInv', Receive
  PROVE  OrderInv'
<1>1. /\ UNCHANGED <<buffer_vars, device_vars, writer_vars, wire_vars>>
      /\ handler = "wait" /\ manager.at = "receive" /\ events # <<>>
      /\ events' = Tail(events)
      /\ events \in Seq({"transfer", "other"})
      /\ manager \in ManagerStates
      /\ OneTransfer /\ QueuedOnce /\ ~ Managed
  BY DEF Receive, OthersRun, OrderInv, OneTransfer, TypeInv, TypeOK, Managed
<1>2. /\ QueuedOnce'
      /\ Head(events) = "transfer" => Queued /\ ~ Queued'
      /\ Head(events) # "transfer" => (Queued' <=> Queued)
  BY <1>1, QueueGives
<1>3. /\ Posting' <=> Posting
      /\ Pending' <=> Pending
      /\ dma' = dma /\ handler' = handler /\ tc' = tc /\ style' = style
  BY <1>1 DEF Posting, Pending, wire_vars, writer_vars
<1>4. available' = available /\ full' = full /\ tail' = tail
  BY <1>1, SameBuffer DEF buffer_vars
<1>5. WireHolds'
  BY <1>1, SameWire DEF OrderInv, device_vars
<1>6. /\ OneTransfer' /\ (InFlight' <=> InFlight) /\ ManagerHolds'
  <2>1. CASE Head(events) = "transfer"
    <3>1. manager' = [manager EXCEPT !.at = "indices", !.used = available]
      BY <2>1 DEF Receive
    <3>2. available \in Slots
      BY BufferFacts DEF OrderInv, TypeInv, TypeOK
    <3>3. manager'.at = "indices" /\ manager'.used = available
      BY <1>1, <3>1, <3>2, ManagerReads
    <3>4. Managed' /\ Queued /\ ~ Queued'
      BY <1>2, <2>1, <3>3 DEF Managed
    <3>5. OneTransfer' /\ (InFlight' <=> InFlight)
      BY <1>1, <1>2, <1>3, <3>4 DEF OneTransfer, InFlight
    <3> QED
      BY <1>4, <3>3, <3>5 DEF ManagerHolds
  <2>2. CASE Head(events) # "transfer"
    <3>1. manager' = manager
      BY <2>2 DEF Receive
    <3>2. Managed' <=> Managed
      BY <3>1 DEF Managed
    <3>3. OneTransfer' /\ (InFlight' <=> InFlight)
      BY <1>1, <1>2, <1>3, <2>2, <3>2 DEF OneTransfer, InFlight
    <3> QED
      BY <1>1, <3>1, <3>3 DEF ManagerHolds
  <2> QED
    BY <2>1, <2>2
<1>7. \A w \in Writers : Holds(w)'
  BY <1>1, <1>6, SameWriters DEF buffer_vars, wire_vars
<1>8. Worthwhile'
  BY <1>3, <1>4, <1>6 DEF Worthwhile, OrderInv
<1> QED
  BY <1>3, <1>5, <1>6, <1>7, <1>8 DEF OrderInv

LEMMA ReadIndicesOrder ==
  ASSUME OrderInv, TypeInv', ReadIndices
  PROVE  OrderInv'
<1>1. /\ UNCHANGED <<buffer_vars, device_vars, writer_vars, events, wire_vars>>
      /\ manager.at = "indices" /\ manager.used = available
      /\ manager' = [manager EXCEPT !.at = "copy", !.head = head, !.tail = tail]
      /\ manager \in ManagerStates /\ head \in Slots /\ tail \in Slots
  BY TailIsSlot DEF ReadIndices, OrderInv, ManagerHolds, TypeInv, TypeOK
<1>2. /\ manager'.at = "copy" /\ manager'.used = available
      /\ manager'.head = head /\ manager'.tail = tail
  BY <1>1, ManagerReadsIndices
<1>3. /\ Posting' <=> Posting
      /\ Queued' <=> Queued
      /\ QueuedOnce' <=> QueuedOnce
      /\ Managed' <=> Managed
      /\ Pending' <=> Pending
      /\ dma' = dma /\ handler' = handler /\ tc' = tc /\ style' = style
  BY <1>1, <1>2 DEF Posting, Queued, QueuedOnce, IsTransfer, Managed, Pending, wire_vars, writer_vars
<1>4. available' = available /\ full' = full /\ tail' = tail /\ head' = head
  BY <1>1, SameBuffer DEF buffer_vars
<1>5. (InFlight' <=> InFlight) /\ OneTransfer'
  BY <1>3 DEF InFlight, OneTransfer, OrderInv
<1>6. \A w \in Writers : Holds(w)'
  BY <1>1, <1>5, SameWriters DEF buffer_vars, wire_vars
<1>7. Worthwhile'
  BY <1>3, <1>4, <1>5 DEF Worthwhile, OrderInv
<1>8. WireHolds'
  BY <1>1, SameWire DEF OrderInv, device_vars
<1>9. ManagerHolds'
  BY <1>2, <1>4 DEF ManagerHolds
<1> QED
  BY <1>3, <1>5, <1>6, <1>7, <1>8, <1>9 DEF OrderInv

\* What was read at different times is what the buffer has: all of it is copied.
LEMMA CopyOutOrder ==
  ASSUME OrderInv, TypeInv', CopyOut
  PROVE  OrderInv'
<1>1. /\ UNCHANGED <<accepted, head, device_vars, writer_vars, events, wire_vars>>
      /\ manager.at = "copy" /\ manager.used = available
      /\ manager.head = head /\ manager.tail = tail
      /\ manager' = [manager EXCEPT !.at = "send"]
      /\ manager \in ManagerStates /\ accepted \in Nat /\ head \in Slots
  BY DEF CopyOut, OrderInv, ManagerHolds, TypeInv, TypeOK, wire_vars
<1>2. available' = available /\ full' = full /\ base' = base
  BY <1>1, SameBuffer DEF base
<1>3. Copied(manager.head, manager.tail, manager.used) = available
  BY <1>1, CopiedIsAvailable
<1>4. output_size' = available
  BY <1>3 DEF CopyOut
<1>5. Loaded'
  <2>1. ex' = [i \in 1 .. N |-> IF i <= available THEN InSlot((head + i - 1) % N) ELSE ex[i]]
    BY <1>1, <1>3 DEF CopyOut
  <2>2. base >= 0
    BY <1>1, BufferFacts DEF OrderInv, WireHolds, base, Slots
  <2> SUFFICES ASSUME NEW i \in 1 .. available PROVE ex'[i] = base + i
    BY <1>2 DEF Loaded
  <2>3. i \in 1 .. N /\ i <= available
    BY <1>1, BufferFacts, SizesAssumption DEF Slots
  <2>4. InSlot((head + i - 1) % N) = base + i
    BY <1>1, <2>2, SlotsInOrder
  <2> QED
    BY <2>1, <2>3, <2>4
<1>6. manager'.at = "send"
  BY <1>1, ManagerMoves
<1>7. Managed /\ Managed'
  BY <1>1, <1>6 DEF Managed
<1>8. /\ Posting' <=> Posting
      /\ Queued' <=> Queued
      /\ QueuedOnce' <=> QueuedOnce
      /\ Pending' <=> Pending
      /\ dma' = dma /\ handler' = handler /\ tc' = tc /\ style' = style
  BY <1>1 DEF Posting, Queued, QueuedOnce, IsTransfer, Pending, wire_vars, writer_vars
<1>9. InFlight /\ InFlight' /\ OneTransfer' /\ ~ dma.busy /\ ~ Pending /\ handler # "finish"
  BY <1>7, <1>8 DEF InFlight, OneTransfer, OrderInv
<1>10. \A w \in Writers : Holds(w)'
  BY <1>1, <1>9, SameWriters DEF wire_vars
<1>11. Worthwhile'
  BY <1>2, <1>8, <1>9 DEF Worthwhile, OrderInv
<1>12. WireHolds'
  BY <1>1, <1>2, <1>8, <1>9 DEF WireHolds, OrderInv, device_vars, wire_vars
<1>13. ManagerHolds'
  BY <1>2, <1>4, <1>5, <1>6 DEF ManagerHolds
<1> QED
  BY <1>8, <1>9, <1>10, <1>11, <1>12, <1>13 DEF OrderInv

\* The transfer starts with the first byte that is not out, or never.
LEMMA SendOrder ==
  ASSUME OrderInv, TypeInv', Send
  PROVE  OrderInv'
<1>1. /\ UNCHANGED <<buffer_vars, device_vars, writer_vars, events, tc, handler, sent, garbled>>
      /\ manager.at = "send" /\ output_size = available /\ Loaded
      /\ manager' = [manager EXCEPT !.at = "receive"]
      /\ manager \in ManagerStates
  BY DEF Send, OrderInv, ManagerHolds, TypeInv, TypeOK
<1>2. available' = available /\ full' = full /\ base' = base
  BY <1>1, SameBuffer DEF base, buffer_vars
<1>3. manager'.at = "receive" /\ Managed /\ ~ Managed'
  BY <1>1, ManagerMoves DEF Managed
<1>4. /\ Posting' <=> Posting
      /\ Queued' <=> Queued
      /\ QueuedOnce' <=> QueuedOnce
      /\ Pending' <=> Pending
      /\ handler' = handler /\ tc' = tc /\ style' = style
  BY <1>1 DEF Posting, Queued, QueuedOnce, IsTransfer, Pending, writer_vars
<1>5. /\ InFlight /\ ~ Posting /\ ~ Queued /\ ~ Pending /\ ~ dma.busy
      /\ handler # "finish" /\ tc <= 1 /\ QueuedOnce
  BY <1>3 DEF InFlight, OneTransfer, OrderInv
<1>6. OneTransfer'
  BY <1>3, <1>4, <1>5 DEF OneTransfer
<1>7. \A w \in Writers : Holds(w)'
  BY <1>1, <1>5, SameWriters DEF buffer_vars
<1>8. Worthwhile'
  BY <1>2, <1>4, <1>5 DEF Worthwhile, OrderInv
<1>9. WireHolds'
  <2>1. CASE dma.open
    <3>1. dma' = [open |-> TRUE, size |-> output_size, done |-> 0, busy |-> output_size > 0]
      BY <2>1 DEF Send
    <3>2. /\ dma'.open /\ dma'.size = available /\ dma'.done = 0
          /\ dma'.busy = (available > 0)
      BY <1>1, <3>1, DmaStarts DEF OrderInv, TypeInv, TypeOK
    <3>3. available > 0
      BY <1>5 DEF Worthwhile, OrderInv
    <3>4. sent = base + 0 /\ opened
      BY <1>5, <2>1 DEF WireHolds, OrderInv, TypeInv, TypeOK
    <3>5. Loaded'
      BY <1>1, <1>2 DEF Loaded, buffer_vars
    <3> QED
      BY <1>1, <1>2, <1>4, <1>5, <2>1, <3>2, <3>3, <3>4, <3>5
         DEF WireHolds, OrderInv, buffer_vars, device_vars
  <2>2. CASE ~ dma.open
    <3>1. dma' = dma
      BY <2>2 DEF Send
    <3> QED
      BY <1>1, <1>2, <1>4, <1>5, <3>1 DEF WireHolds, OrderInv, buffer_vars, device_vars
  <2> QED
    BY <2>1, <2>2
<1>10. ManagerHolds'
  BY <1>3 DEF ManagerHolds
<1> QED
  BY <1>4, <1>6, <1>7, <1>8, <1>9, <1>10 DEF OrderInv

-------------------------------------------------------------------------------
(* The transfer and its end *)

\* What is put on the wire is the next byte.
LEMMA TransmitNext ==
  ASSUME OrderInv, Transmit
  PROVE  /\ sent' = sent + 1 /\ sent < accepted /\ UNCHANGED garbled
         /\ dma.busy /\ dma' = [dma EXCEPT !.done = dma.done + 1]
         /\ dma.done + 1 \in Slots
<1>1. /\ dma \in DmaStates /\ accepted \in Nat /\ head \in Slots /\ sent \in Nat
      /\ dma.done < dma.size
      /\ WireHolds /\ available \in Slots
  BY BufferFacts DEF Transmit, OrderInv, TypeInv, TypeOK
<1>2. dma.done \in Slots /\ dma.size \in Slots
  BY <1>1 DEF DmaStates
<1>3. dma.busy
  BY <1>1, <1>2, SizesAssumption DEF WireHolds, Slots
<1>4. dma.size = available /\ sent = base + dma.done /\ Loaded
  BY <1>1, <1>3 DEF WireHolds
<1>5. dma.done + 1 \in 1 .. available /\ dma.done + 1 \in Slots
  BY <1>1, <1>2, <1>4, SizesAssumption DEF Slots
<1>6. ex[dma.done + 1] = base + (dma.done + 1)
  BY <1>4, <1>5 DEF Loaded
<1>7. base \in Int /\ base + available = accepted
  BY <1>1, SizesAssumption DEF base, Slots
<1>8. ex[dma.done + 1] = sent + 1 /\ sent < accepted
  BY <1>1, <1>2, <1>4, <1>5, <1>6, <1>7, SizesAssumption DEF Slots
<1> QED
  BY <1>3, <1>5, <1>8 DEF Transmit

LEMMA TransmitOrder ==
  ASSUME OrderInv, TypeInv', Transmit
  PROVE  OrderInv'
<1>1. /\ UNCHANGED <<buffer_vars, device_vars, writer_vars, manager_vars, tc, handler>>
      /\ dma \in DmaStates /\ sent \in Nat /\ accepted \in Nat
      /\ goal \in [Writers -> 0 .. MaxBytes]
  BY DEF Transmit, OrderInv, TypeInv, TypeOK
<1>2. /\ sent' = sent + 1 /\ sent < accepted /\ garbled' = garbled
      /\ dma.busy /\ dma' = [dma EXCEPT !.done = dma.done + 1]
      /\ dma.done + 1 \in Slots
  BY TransmitNext
<1>3. /\ dma'.open = dma.open /\ dma'.size = dma.size
      /\ dma'.done = dma.done + 1 /\ dma'.busy
  BY <1>1, <1>2, DmaCounts
<1>4. available' = available /\ full' = full /\ space' = space /\ base' = base
  BY <1>1, SameBuffer DEF base, buffer_vars
<1>5. /\ Posting' <=> Posting
      /\ Queued' <=> Queued
      /\ QueuedOnce' <=> QueuedOnce
      /\ Managed' <=> Managed
      /\ Pending' <=> Pending
      /\ handler' = handler /\ tc' = tc /\ style' = style
  BY <1>1 DEF Posting, Queued, QueuedOnce, IsTransfer, Managed, Pending, writer_vars, manager_vars
<1>6. OneTransfer' /\ InFlight /\ InFlight' /\ ~ Pending /\ handler # "finish"
  BY <1>2, <1>3, <1>5 DEF OneTransfer, InFlight, OrderInv
<1>7. \A w \in Writers : Holds(w)'
  <2> SUFFICES ASSUME NEW w \in Writers PROVE Holds(w)'
    OBVIOUS
  <2>1. Holds(w) /\ goal[w] \in Nat
    BY <1>1 DEF OrderInv
  <2>2. goal[w] <= sent => goal'[w] <= sent'
    BY <1>1, <1>2, <2>1 DEF writer_vars
  <2>3. goal' = goal /\ pc' = pc /\ style' = style /\ timeout' = timeout /\ todo' = todo
        /\ accepted' = accepted /\ flags' = flags /\ opened' = opened
    BY <1>1 DEF writer_vars, buffer_vars, device_vars
  <2> QED
    BY <1>4, <1>5, <1>6, <2>1, <2>2, <2>3 DEF Holds
<1>8. Worthwhile'
  BY <1>4, <1>5, <1>6 DEF Worthwhile, OrderInv
<1>9. WireHolds'
  <2>1. WireHolds /\ base \in Int /\ dma.done \in Nat
    <3>1. WireHolds /\ head \in Slots
      BY DEF OrderInv, TypeInv, TypeOK
    <3>2. available \in Slots
      BY <1>1, <3>1, BufferFacts
    <3>3. base \in Int
      BY <1>1, <3>2 DEF base, Slots
    <3>4. dma.done \in Nat
      BY <1>1 DEF DmaStates, Slots
    <3> QED
      BY <3>1, <3>3, <3>4
  <2>2. base' <= sent' /\ sent' <= accepted' /\ sent' = base' + dma'.done
    BY <1>1, <1>2, <1>3, <1>4, <2>1 DEF WireHolds, buffer_vars
  <2>3. Loaded => Loaded'
    BY <1>1, <1>4 DEF Loaded, buffer_vars
  <2> QED
    BY <1>1, <1>2, <1>3, <1>4, <1>5, <1>6, <2>1, <2>2, <2>3
       DEF WireHolds, buffer_vars, device_vars
<1>10. ManagerHolds'
  BY <1>1, SameManager DEF OrderInv, manager_vars
<1> QED
  BY <1>5, <1>6, <1>7, <1>8, <1>9, <1>10 DEF OrderInv

\* The interrupt comes when everything is out.
LEMMA InterruptOrder ==
  ASSUME OrderInv, TypeInv', Interrupt
  PROVE  OrderInv'
<1>1. /\ UNCHANGED <<buffer_vars, device_vars, writer_vars, manager_vars, handler, sent, garbled>>
      /\ dma.busy /\ dma.done = dma.size /\ tc' = tc + 1
      /\ dma' = [dma EXCEPT !.busy = FALSE]
      /\ dma \in DmaStates /\ accepted \in Nat /\ head \in Slots /\ tc \in Nat
      /\ WireHolds /\ OneTransfer
  BY DEF Interrupt, OrderInv, TypeInv, TypeOK
<1>2. /\ dma'.open = dma.open /\ dma'.size = dma.size
      /\ dma'.done = dma.done /\ ~ dma'.busy
  BY <1>1, DmaEnds
<1>3. available' = available /\ full' = full /\ space' = space /\ base' = base
  BY <1>1, SameBuffer DEF base, buffer_vars
<1>4. /\ Posting' <=> Posting
      /\ Queued' <=> Queued
      /\ QueuedOnce' <=> QueuedOnce
      /\ Managed' <=> Managed
      /\ handler' = handler /\ style' = style
  BY <1>1 DEF Posting, Queued, QueuedOnce, IsTransfer, Managed, writer_vars, manager_vars
<1>5. tc = 0 /\ tc' = 1 /\ Pending'
  BY <1>1 DEF OneTransfer, Pending
<1>6. OneTransfer' /\ InFlight /\ InFlight' /\ handler # "finish"
  BY <1>1, <1>2, <1>4, <1>5 DEF OneTransfer, InFlight
<1>7. \A w \in Writers : Holds(w)'
  BY <1>1, <1>6, SameWriters DEF buffer_vars
<1>8. Worthwhile'
  BY <1>3, <1>4, <1>6 DEF Worthwhile, OrderInv
<1>9. WireHolds'
  <2>1. sent = accepted
    <3>1. sent = base + available
      BY <1>1 DEF WireHolds
    <3> QED
      BY <1>1, <3>1, BufferFacts, SizesAssumption DEF base, Slots
  <2> QED
    BY <1>1, <1>2, <1>3, <1>4, <1>5, <1>6, <2>1
       DEF WireHolds, buffer_vars, device_vars
<1>10. ManagerHolds'
  BY <1>1, SameManager DEF OrderInv, manager_vars
<1> QED
  BY <1>4, <1>6, <1>7, <1>8, <1>9, <1>10 DEF OrderInv

\* What is released is what was sent: all that was available.
LEMMA CompleteReleases ==
  ASSUME OrderInv, Complete
  PROVE  /\ tc = 1 /\ tc' = 0 /\ sent = accepted /\ ~ dma.busy
         /\ ~ Posting /\ ~ Queued /\ ~ Managed
         /\ dma.open => available' = 0 /\ base' = accepted
<1>1. /\ tc > 0 /\ tc' = tc - 1 /\ accepted' = accepted
      /\ accepted \in Nat /\ head \in Slots /\ tc \in Nat /\ sent \in Nat
      /\ WireHolds /\ OneTransfer
  BY DEF Complete, OrderInv, TypeInv, TypeOK
<1>2. tc = 1 /\ tc' = 0 /\ Pending
  BY <1>1 DEF OneTransfer, Pending
<1>3. /\ output_size = available /\ sent = accepted /\ ~ dma.busy
      /\ ~ Posting /\ ~ Queued /\ ~ Managed
  BY <1>1, <1>2 DEF WireHolds, OneTransfer
<1>4. ASSUME dma.open PROVE available' = 0 /\ base' = accepted
  <2>1. head' = (head + available) % N
    BY <1>3, <1>4 DEF Complete
  <2>2. available' = 0
    BY <1>1, <2>1, RoomGiven
  <2> QED
    BY <1>1, <2>2 DEF base
<1> QED
  BY <1>2, <1>3, <1>4

LEMMA CompleteOrder ==
  ASSUME OrderInv, TypeInv', Complete
  PROVE  OrderInv'
<1>1. /\ UNCHANGED <<accepted, ex, device_vars, writer_vars, manager_vars, dma, sent, garbled>>
      /\ handler = "wait" /\ WireHolds /\ OneTransfer
      /\ accepted \in Nat /\ sent \in Nat
  BY DEF Complete, OrderInv, TypeInv, TypeOK
<1>2. /\ tc = 1 /\ tc' = 0 /\ sent = accepted /\ ~ dma.busy
      /\ ~ Posting /\ ~ Queued /\ ~ Managed
      /\ dma.open => available' = 0 /\ base' = accepted
  BY CompleteReleases
<1>3. /\ Posting' <=> Posting
      /\ Queued' <=> Queued
      /\ QueuedOnce' <=> QueuedOnce
      /\ Managed' <=> Managed
      /\ ~ Pending' /\ Pending
      /\ dma' = dma /\ style' = style
  BY <1>1, <1>2 DEF Posting, Queued, QueuedOnce, IsTransfer, Managed, Pending, writer_vars, manager_vars
<1>4. ~ InFlight' /\ InFlight
  BY <1>2, <1>3 DEF InFlight
<1>5. OneTransfer'
  BY <1>1, <1>2, <1>3, <1>4 DEF OneTransfer, InFlight
<1>6. Worthwhile' /\ ManagerHolds'
  BY <1>2, <1>3, <1>4, <1>1 DEF Worthwhile, ManagerHolds, Managed
<1>7. CASE dma.open
  <2>1. handler' = "finish" /\ available' = 0 /\ base' = accepted
    BY <1>2, <1>7 DEF Complete
  <2>2. WireHolds'
    BY <1>1, <1>2, <1>3, <1>4, <1>7, <2>1 DEF WireHolds, device_vars
  <2>3. \A w \in Writers : Holds(w)'
    <3> SUFFICES ASSUME NEW w \in Writers PROVE Holds(w)'
      OBVIOUS
    <3>1. Holds(w) /\ style \in {"fills", "flushes"}
      BY DEF OrderInv
    <3> QED
      BY <1>1, <1>3, <1>4, <2>1, <3>1 DEF Holds, Flushing, device_vars, writer_vars
  <2> QED
    BY <1>3, <1>5, <1>6, <2>2, <2>3 DEF OrderInv
<1>8. CASE ~ dma.open
  <2>1. UNCHANGED <<head, output_size, handler>>
    BY <1>8 DEF Complete
  <2>2. available' = available /\ base' = base
    BY <1>1, <2>1, SameBuffer DEF base
  <2>3. WireHolds'
    BY <1>1, <1>2, <1>3, <1>4, <1>8, <2>1, <2>2 DEF WireHolds, device_vars
  <2>4. \A w \in Writers : Holds(w)'
    BY <1>1, <1>4, <2>1, SameWriters
  <2> QED
    BY <1>3, <1>5, <1>6, <2>3, <2>4 DEF OrderInv
<1> QED
  BY <1>7, <1>8

\* Transmit_Finish is set, and everybody woken, when nothing is under way.
LEMMA FinishOrder ==
  ASSUME OrderInv, TypeInv', Finish
  PROVE  OrderInv'
<1>1. /\ UNCHANGED <<buffer_vars, opened, opens, todo, goal, timeout, style, manager_vars,
                     dma, tc, sent, garbled>>
      /\ handler = "finish" /\ handler' = "wait"
      /\ flags' = flags \cup {"Transmit_Finish"}
      /\ \A w \in Writers :
           \/ pc[w] = "suspended" /\ pc'[w] = "write"
           \/ pc[w] = "flush_suspended" /\ pc'[w] = "flushed"
           \/ pc[w] \notin {"suspended", "flush_suspended"} /\ pc'[w] = pc[w]
      /\ WireHolds /\ OneTransfer
      /\ accepted \in Nat /\ head \in Slots /\ sent \in Nat
  BY DEF Finish, OrderInv, TypeInv, TypeOK
<1>2. /\ ~ InFlight /\ available = 0 /\ dma.open /\ opened
  BY <1>1 DEF WireHolds, OneTransfer
<1>3. sent = accepted
  BY <1>1, <1>2 DEF WireHolds, InFlight, base
<1>4. available' = available /\ base' = base /\ full' = full /\ ~ full
  BY <1>1, <1>2, SameBuffer, BufferFacts, SizesAssumption DEF base, buffer_vars
<1>5. Posting' <=> Posting
  BY <1>1 DEF Posting
<1>6. /\ Queued' <=> Queued
      /\ QueuedOnce' <=> QueuedOnce
      /\ Managed' <=> Managed
      /\ Pending' <=> Pending
  BY <1>1 DEF Queued, QueuedOnce, IsTransfer, Managed, Pending, manager_vars
<1>7. ~ InFlight'
  BY <1>1, <1>2, <1>5, <1>6 DEF InFlight
<1>8. OneTransfer'
  BY <1>1, <1>6, <1>7 DEF OneTransfer, InFlight
<1>9. Worthwhile' /\ ManagerHolds'
  BY <1>1, <1>7, SameManager DEF Worthwhile, OrderInv, manager_vars
<1>10. WireHolds'
  BY <1>1, <1>2, <1>4, <1>7 DEF WireHolds, InFlight, buffer_vars
<1>11. \A w \in Writers : Holds(w)'
  <2> SUFFICES ASSUME NEW w \in Writers PROVE Holds(w)'
    OBVIOUS
  <2>1. Holds(w) /\ style \in {"fills", "flushes"} /\ goal[w] <= sent
    BY <1>3 DEF OrderInv, Holds
  <2>2. style = "flushes" => pc[w] \in Flushing
    BY <1>1, <1>2, <2>1 DEF Holds
  <2>3. "Close" \in flags' => pc[w] = "idle"
    BY <1>1, <1>2, <2>1 DEF Holds
  <2>4. goal'[w] <= sent' /\ sent' = accepted' /\ style' = style /\ timeout' = timeout
        /\ opened' = opened
    BY <1>1, <1>3, <2>1 DEF buffer_vars
  <2>5. CASE style = "fills"
    BY <1>1, <1>4, <1>7, <2>1, <2>3, <2>4, <2>5 DEF Holds, Flushing
  <2>6. CASE style = "flushes"
    BY <1>1, <1>4, <1>7, <2>1, <2>2, <2>3, <2>4, <2>6 DEF Holds, Flushing
  <2> QED
    BY <2>1, <2>5, <2>6
<1> QED
  BY <1>1, <1>8, <1>9, <1>10, <1>11 DEF OrderInv

-------------------------------------------------------------------------------
(* close and open *)

LEMMA DeinitOrder ==
  ASSUME OrderInv, TypeInv', Deinit
  PROVE  OrderInv'
<1>1. /\ UNCHANGED <<buffer_vars, device_vars, writer_vars, manager_vars, tc, handler, sent, garbled>>
      /\ handler = "wait"
      /\ dma' = [open |-> FALSE, size |-> 0, done |-> 0, busy |-> FALSE]
      /\ WireHolds /\ OneTransfer
  BY DEF Deinit, OthersRun, OrderInv
<1>2. ~ dma'.open /\ ~ dma'.busy /\ dma'.size = 0 /\ dma'.done = 0
  BY <1>1, DmaStops
<1>3. available' = available /\ full' = full /\ base' = base
  BY <1>1, SameBuffer DEF base, buffer_vars
<1>4. /\ Posting' <=> Posting
      /\ Queued' <=> Queued
      /\ QueuedOnce' <=> QueuedOnce
      /\ Managed' <=> Managed
      /\ Pending' <=> Pending
      /\ handler' = handler /\ tc' = tc /\ style' = style
  BY <1>1 DEF Posting, Queued, QueuedOnce, IsTransfer, Managed, Pending, writer_vars, manager_vars
<1>5. InFlight' => InFlight
  BY <1>2, <1>4 DEF InFlight
<1>6. OneTransfer'
  BY <1>1, <1>2, <1>4 DEF OneTransfer
<1>7. \A w \in Writers : Holds(w)'
  BY <1>1, <1>5, SameWriters DEF buffer_vars
<1>8. Worthwhile'
  BY <1>3, <1>4, <1>5 DEF Worthwhile, OrderInv
<1>9. WireHolds'
  BY <1>1, <1>2, <1>3, <1>4 DEF WireHolds, buffer_vars
<1>10. ManagerHolds'
  BY <1>1, SameManager DEF OrderInv, manager_vars
<1> QED
  BY <1>4, <1>6, <1>7, <1>8, <1>9, <1>10 DEF OrderInv

LEMMA CloseOrder ==
  ASSUME OrderInv, TypeInv', Close
  PROVE  OrderInv'
<1>1. /\ UNCHANGED <<buffer_vars, opens, flags, writer_vars, manager_vars, wire_vars>>
      /\ handler = "wait" /\ ~ dma.open /\ opened' = FALSE
      /\ WireHolds /\ OneTransfer
  BY DEF Close, OthersRun, OrderInv
<1>2. available' = available /\ full' = full /\ space' = space /\ base' = base
  BY <1>1, SameBuffer DEF base, buffer_vars
<1>3. /\ Posting' <=> Posting
      /\ Queued' <=> Queued
      /\ QueuedOnce' <=> QueuedOnce
      /\ Managed' <=> Managed
      /\ Pending' <=> Pending
      /\ dma' = dma /\ handler' = handler /\ tc' = tc /\ style' = style
  BY <1>1 DEF Posting, Queued, QueuedOnce, IsTransfer, Managed, Pending, writer_vars,
              manager_vars, wire_vars
<1>4. (InFlight' <=> InFlight) /\ OneTransfer'
  BY <1>1, <1>3 DEF InFlight, OneTransfer
<1>5. \A w \in Writers : Holds(w)'
  <2> SUFFICES ASSUME NEW w \in Writers PROVE Holds(w)'
    OBVIOUS
  <2>1. Holds(w)
    BY DEF OrderInv
  <2> QED
    BY <1>1, <1>2, <1>3, <1>4, <2>1 DEF Holds, Flushing, buffer_vars, writer_vars, wire_vars
<1>6. Worthwhile'
  BY <1>2, <1>3, <1>4 DEF Worthwhile, OrderInv
<1>7. WireHolds'
  BY <1>1, <1>2, <1>3 DEF WireHolds, Loaded, buffer_vars, wire_vars
<1>8. ManagerHolds'
  BY <1>1, SameManager DEF OrderInv, manager_vars
<1> QED
  BY <1>3, <1>4, <1>5, <1>6, <1>7, <1>8 DEF OrderInv

LEMMA SetCloseOrder ==
  ASSUME OrderInv, TypeInv', SetClose
  PROVE  OrderInv'
<1>1. /\ UNCHANGED <<buffer_vars, opened, opens, todo, goal, timeout, style, manager_vars, wire_vars>>
      /\ handler = "wait" /\ ~ opened
      /\ flags' = flags \cup {"Close"}
      /\ \A w \in Writers :
           \/ pc[w] \in {"suspended", "flush_suspended"} /\ pc'[w] = "idle"
           \/ pc[w] \notin {"suspended", "flush_suspended"} /\ pc'[w] = pc[w]
      /\ WireHolds /\ OneTransfer
  BY DEF SetClose, OthersRun, OrderInv, TypeInv, TypeOK
<1>2. available' = available /\ full' = full /\ space' = space
  BY <1>1, SameBuffer DEF buffer_vars
<1>3. Posting' <=> Posting
  BY <1>1 DEF Posting
<1>4. /\ Queued' <=> Queued
      /\ QueuedOnce' <=> QueuedOnce
      /\ Managed' <=> Managed
      /\ Pending' <=> Pending
      /\ dma' = dma /\ handler' = handler /\ tc' = tc /\ style' = style
  BY <1>1 DEF Queued, QueuedOnce, IsTransfer, Managed, Pending, manager_vars, wire_vars
<1>5. (InFlight' <=> InFlight) /\ OneTransfer'
  BY <1>1, <1>3, <1>4 DEF InFlight, OneTransfer
<1>6. \A w \in Writers : Holds(w)'
  <2> SUFFICES ASSUME NEW w \in Writers PROVE Holds(w)'
    OBVIOUS
  <2>1. Holds(w) /\ style \in {"fills", "flushes"}
    BY DEF OrderInv
  <2>2. /\ goal' = goal /\ sent' = sent /\ accepted' = accepted /\ opened' = opened
        /\ todo' = todo /\ timeout' = timeout
        /\ ("Transmit_Finish" \in flags' <=> "Transmit_Finish" \in flags)
    BY <1>1 DEF buffer_vars, wire_vars
  <2> QED
    BY <1>1, <1>2, <1>4, <1>5, <2>1, <2>2 DEF Holds, Flushing
<1>7. Worthwhile'
  BY <1>2, <1>4, <1>5 DEF Worthwhile, OrderInv
<1>8. WireHolds' /\ ManagerHolds'
  BY <1>1, SameWire, SameManager DEF OrderInv, manager_vars
<1> QED
  BY <1>4, <1>5, <1>6, <1>7, <1>8 DEF OrderInv

\* A device is opened again when everything is out: no request is left over.
LEMMA OpenOrder ==
  ASSUME OrderInv, TypeInv', Open
  PROVE  OrderInv'
<1>1. /\ UNCHANGED <<buffer_vars, flags, writer_vars, manager_vars, tc, handler, sent, garbled>>
      /\ handler = "wait" /\ ~ opened /\ opened'
      /\ available = 0 /\ \A w \in Writers : pc[w] = "idle"
      /\ dma' = [dma EXCEPT !.open = TRUE]
      /\ dma \in DmaStates /\ accepted \in Nat /\ sent \in Nat
      /\ WireHolds /\ OneTransfer /\ Worthwhile
  BY DEF Open, OthersRun, OrderInv, TypeInv, TypeOK
<1>2. /\ dma'.open /\ dma'.size = dma.size
      /\ dma'.done = dma.done /\ dma'.busy = dma.busy
  BY <1>1, DmaOpens
<1>3. ~ InFlight
  BY <1>1 DEF Worthwhile
<1>4. available' = available /\ full' = full /\ space' = space /\ base' = base
  BY <1>1, SameBuffer DEF base, buffer_vars
<1>5. /\ Posting' <=> Posting
      /\ Queued' <=> Queued
      /\ QueuedOnce' <=> QueuedOnce
      /\ Managed' <=> Managed
      /\ Pending' <=> Pending
      /\ handler' = handler /\ tc' = tc /\ style' = style
  BY <1>1 DEF Posting, Queued, QueuedOnce, IsTransfer, Managed, Pending, writer_vars, manager_vars
<1>6. ~ InFlight'
  BY <1>2, <1>3, <1>5 DEF InFlight
<1>7. OneTransfer'
  BY <1>1, <1>5, <1>6 DEF OneTransfer, InFlight
<1>8. \A w \in Writers : Holds(w)'
  <2> SUFFICES ASSUME NEW w \in Writers PROVE Holds(w)'
    OBVIOUS
  <2>1. Holds(w) /\ pc[w] = "idle"
    BY <1>1 DEF OrderInv
  <2> QED
    BY <1>1, <1>4, <1>5, <1>6, <2>1 DEF Holds, Flushing, buffer_vars, writer_vars
<1>9. Worthwhile'
  BY <1>6 DEF Worthwhile
<1>10. WireHolds'
  <2>1. sent = base
    BY <1>1 DEF WireHolds, base
  <2> QED
    BY <1>1, <1>2, <1>3, <1>4, <1>5, <1>6, <2>1 DEF WireHolds, InFlight, buffer_vars
<1>11. ManagerHolds'
  BY <1>1, SameManager DEF OrderInv, manager_vars
<1> QED
  BY <1>5, <1>7, <1>8, <1>9, <1>10, <1>11 DEF OrderInv

LEMMA ClearFlagsOrder ==
  ASSUME OrderInv, TypeInv', ClearFlags
  PROVE  OrderInv'
<1>1. /\ UNCHANGED <<buffer_vars, opened, opens, writer_vars, dropped, manager, wire_vars>>
      /\ handler = "wait" /\ opened /\ "Close" \in flags /\ flags' = {}
      /\ events' = events \/ events' = Append(events, "other")
      /\ events \in Seq({"transfer", "other"})
      /\ WireHolds /\ OneTransfer
  BY DEF ClearFlags, OthersRun, OrderInv, TypeInv, TypeOK
<1>2. (Queued' <=> Queued) /\ QueuedOnce'
  <2>1. CASE events' = events
    BY <1>1, <2>1 DEF OneTransfer, Queued, QueuedOnce, IsTransfer
  <2>2. CASE events' = Append(events, "other")
    BY <1>1, <2>2, QueueTakesOther DEF OneTransfer
  <2> QED
    BY <1>1, <2>1, <2>2
<1>3. available' = available /\ full' = full /\ space' = space
  BY <1>1, SameBuffer DEF buffer_vars
<1>4. /\ Posting' <=> Posting
      /\ Managed' <=> Managed
      /\ Pending' <=> Pending
      /\ dma' = dma /\ handler' = handler /\ tc' = tc /\ style' = style
  BY <1>1 DEF Posting, Managed, Pending, writer_vars, wire_vars
<1>5. (InFlight' <=> InFlight) /\ OneTransfer'
  BY <1>1, <1>2, <1>4 DEF InFlight, OneTransfer
<1>6. \A w \in Writers : Holds(w)'
  <2> SUFFICES ASSUME NEW w \in Writers PROVE Holds(w)'
    OBVIOUS
  <2>1. Holds(w) /\ pc[w] = "idle"
    BY <1>1 DEF OrderInv, Holds
  <2> QED
    BY <1>1, <1>3, <1>4, <1>5, <2>1 DEF Holds, Flushing, buffer_vars, writer_vars, wire_vars
<1>7. Worthwhile'
  BY <1>3, <1>4, <1>5 DEF Worthwhile, OrderInv
<1>8. WireHolds' /\ ManagerHolds'
  BY <1>1, SameWire, SameManager DEF OrderInv
<1> QED
  BY <1>4, <1>5, <1>6, <1>7, <1>8 DEF OrderInv

-------------------------------------------------------------------------------
(* The theorems *)

\* The device is used in one of the two styles that have a rule for the buffer.
KeepsToStyle == "mixed" \notin Styles

LEMMA InitOrder ==
  ASSUME KeepsToStyle
  PROVE  Init => OrderInv
<1> SUFFICES ASSUME Init PROVE OrderInv
  OBVIOUS
<1>1. TypeInv
  BY InitTypes
<1>2. style \in {"fills", "flushes"}
  BY StylesAssumption DEF Init, KeepsToStyle
<1>3. accepted = 0 /\ head = 0 /\ sent = 0 /\ tc = 0 /\ ~ garbled
      /\ events = <<>> /\ handler = "wait" /\ flags = {} /\ opened
      /\ manager.at = "receive"
      /\ ~ dma.busy /\ dma.done = 0 /\ dma.size = 0
      /\ \A w \in Writers : pc[w] = "idle" /\ goal[w] = 0
  BY DEF Init
<1>4. available = 0
  <2>1. 0 \in Nat /\ 0 \in Slots
    BY SizesAssumption DEF Slots
  <2>2. Dist(0, (0 - 0) % N) = 0 /\ 0 % N = 0
    BY <2>1, DistIs, ModSmall
  <2> QED
    BY <1>3, <2>2, AvailableIsDist
<1>5. ~ Queued /\ QueuedOnce
  BY <1>3, EmptySeq DEF Queued, QueuedOnce
<1>6. ~ Posting /\ ~ Managed /\ ~ Pending
  BY <1>3 DEF Posting, Managed, Pending
<1>7. ~ InFlight
  BY <1>3, <1>5, <1>6 DEF InFlight
<1>8. OneTransfer
  BY <1>3, <1>5, <1>6, <1>7 DEF OneTransfer
<1>9. \A w \in Writers : Holds(w)
  <2> SUFFICES ASSUME NEW w \in Writers PROVE Holds(w)
    OBVIOUS
  <2>1. goal[w] <= accepted
    BY <1>3
  <2> QED
    BY <1>3, <1>7, <2>1 DEF Holds, Flushing
<1>10. base = 0
  BY <1>3, <1>4 DEF base
<1>11. WireHolds
  BY <1>3, <1>6, <1>10 DEF WireHolds
<1>12. Worthwhile /\ ManagerHolds
  BY <1>3, <1>7 DEF Worthwhile, ManagerHolds
<1> QED
  BY <1>1, <1>2, <1>8, <1>9, <1>11, <1>12 DEF OrderInv

LEMMA StutterOrder ==
  ASSUME OrderInv, TypeInv', UNCHANGED vars
  PROVE  OrderInv'
<1>1. UNCHANGED <<buffer_vars, device_vars, writer_vars, manager_vars, wire_vars>>
  BY DEF vars
<1>2. available' = available /\ full' = full
  BY <1>1, SameBuffer DEF buffer_vars
<1>3. /\ Posting' <=> Posting
      /\ Queued' <=> Queued
      /\ QueuedOnce' <=> QueuedOnce
      /\ Managed' <=> Managed
      /\ Pending' <=> Pending
      /\ dma' = dma /\ handler' = handler /\ tc' = tc /\ style' = style
  BY <1>1 DEF Posting, Queued, QueuedOnce, IsTransfer, Managed, Pending, writer_vars,
              manager_vars, wire_vars
<1>4. (InFlight' <=> InFlight) /\ OneTransfer'
  BY <1>3 DEF InFlight, OneTransfer, OrderInv
<1>5. \A w \in Writers : Holds(w)'
  BY <1>1, <1>4, SameWriters DEF buffer_vars, wire_vars
<1>6. Worthwhile'
  BY <1>2, <1>3, <1>4 DEF Worthwhile, OrderInv
<1>7. WireHolds' /\ ManagerHolds'
  BY <1>1, SameWire, SameManager DEF OrderInv, device_vars, manager_vars
<1> QED
  BY <1>3, <1>4, <1>5, <1>6, <1>7 DEF OrderInv

LEMMA NextOrder ==
  ASSUME OneWriter, OrderInv, [Next]_vars
  PROVE  OrderInv'
<1>1. TypeInv'
  BY NextTypes DEF OrderInv
<1>2. CASE UNCHANGED vars
  BY <1>1, <1>2, StutterOrder
<1>3. ASSUME NEW w \in Writers, CallWrite(w) \/ CallFlush(w) \/ Continue(w) \/ Expire(w)
      PROVE  OrderInv'
  BY <1>1, <1>3, CallWriteOrder, CallFlushOrder, CheckOrder, WaitOrder, WriteOrder,
     FilledOrder, PostOrder, FlushWaitOrder, FlushOKOrder, ExpireOrder DEF Continue
<1>4. CASE Managing \/ PostOther
  BY <1>1, <1>4, PostOtherOrder, ReceiveOrder, ReadIndicesOrder, CopyOutOrder, SendOrder
     DEF Managing
<1>5. CASE Transferring
  BY <1>1, <1>5, TransmitOrder, InterruptOrder, CompleteOrder, FinishOrder DEF Transferring
<1>6. CASE Closing \/ Opening
  BY <1>1, <1>6, DeinitOrder, CloseOrder, SetCloseOrder, OpenOrder, ClearFlagsOrder
     DEF Closing, Opening
<1> QED
  BY <1>2, <1>3, <1>4, <1>5, <1>6 DEF Next

LEMMA OrderCorrect ==
  ASSUME OneWriter, KeepsToStyle
  PROVE  Spec => []OrderInv
<1>1. Init => OrderInv
  BY InitOrder
<1>2. OrderInv /\ [Next]_vars => OrderInv'
  BY NextOrder
<1> QED
  BY <1>1, <1>2, PTL DEF Spec

\* Bytes come out in the order in which write accepted them, each once and none left
\* out: the indices that output_start reads at different times, the copy it makes
\* and the transfer it starts belong to one request, through close and open.
THEOREM WireKeepsOrder ==
  ASSUME OneWriter, KeepsToStyle
  PROVE  Spec => []WireInOrder
<1>1. Spec => []OrderInv
  BY OrderCorrect
<1>2. OrderInv => WireInOrder
  BY DEF OrderInv, WireHolds, WireInOrder
<1> QED
  BY <1>1, <1>2, PTL

\* flush returns OK only when every byte accepted before it was called is out: the
\* Transmit_Finish it finds set is never the one of an earlier transfer.
THEOREM FlushTellsTheTruth ==
  ASSUME OneWriter, KeepsToStyle
  PROVE  Spec => FlushMeansSent
<1>1. Spec => []OrderInv
  BY OrderCorrect
<1>2. OrderInv => \A w \in Writers : pc[w] = "flushed" /\ pc'[w] = "idle"
                                       => goal[w] <= sent /\ ~ garbled
  BY DEF OrderInv, Holds, WireHolds
<1> QED
  BY <1>1, <1>2, PTL DEF FlushMeansSent

-------------------------------------------------------------------------------
(* The refinement *)

LEMMA WriteAccepts ==
  ASSUME OrderInv, NEW w \in Writers, Write(w)
  PROVE  Channel!Accept \/ UNCHANGED Channel!vars
<1>1. UNCHANGED <<head, sent>>
  BY DEF Write, wire_vars
<1>2. CASE ~ opened
  <2>1. accepted' = accepted
    BY <1>2 DEF Write
  <2> QED
    BY <1>1, <2>1, SameBuffer DEF Channel!vars
<1>3. CASE opened
  <2> DEFINE n == Least(todo[w], space)
  <2>1. accepted' = accepted + n
    BY <1>3 DEF Write
  <2>2. /\ todo[w] \in Nat /\ accepted \in Nat /\ head \in Slots
        /\ available \in Slots /\ space \in Slots /\ space = N - 1 - available
    BY BufferFacts DEF OrderInv, TypeInv, TypeOK
  <2>3. n \in 0 .. space
    BY <2>2 DEF Least, Slots
  <2> HIDE DEF n
  <2>4. available' = available + n
    BY <1>1, <2>1, <2>2, <2>3, RoomTaken
  <2>5. CASE n = 0
    <3>1. accepted' = accepted /\ available' = available
      BY <2>1, <2>2, <2>4, <2>5 DEF Slots
    <3> QED
      BY <1>1, <3>1 DEF Channel!vars
  <2>6. CASE n > 0
    <3>1. accepted' - available' = accepted - available
      BY <2>1, <2>2, <2>3, <2>4 DEF Slots
    <3>2. accepted' \in accepted + 1 .. (accepted - available) + (N - 1)
      BY <2>1, <2>2, <2>3, <2>6, SizesAssumption DEF Slots
    <3> QED
      BY <1>1, <3>1, <3>2 DEF Channel!Accept
  <2> QED
    BY <2>2, <2>3, <2>5, <2>6 DEF Slots
<1> QED
  BY <1>2, <1>3

LEMMA TransmitSends ==
  ASSUME OrderInv, Transmit
  PROVE  Channel!Send
<1>1. sent' = sent + 1 /\ sent < accepted
  BY TransmitNext
<1>2. accepted' = accepted /\ head' = head
  BY DEF Transmit, buffer_vars
<1> QED
  BY <1>1, <1>2, SameBuffer DEF Channel!Send

LEMMA CompleteGives ==
  ASSUME OrderInv, Complete
  PROVE  Channel!Release \/ UNCHANGED Channel!vars
<1>1. accepted' = accepted /\ sent' = sent
  BY DEF Complete
<1>2. CASE dma.open
  <2>1. sent = accepted /\ available' = 0 /\ base' = accepted /\ tc = 1
    BY <1>2, CompleteReleases
  <2>2. available > 0 /\ available \in Slots /\ accepted \in Nat
    BY <2>1, BufferFacts DEF OrderInv, Worthwhile, InFlight, Pending, TypeInv, TypeOK
  <2>3. accepted \in (accepted - available) + 1 .. sent
    BY <2>1, <2>2, SizesAssumption DEF Slots
  <2> QED
    BY <1>1, <2>1, <2>3 DEF Channel!Release, base
<1>3. CASE ~ dma.open
  <2>1. head' = head
    BY <1>3 DEF Complete
  <2> QED
    BY <1>1, <2>1, SameBuffer DEF Channel!vars
<1> QED
  BY <1>2, <1>3

LEMMA ChannelInit == Init => Channel!Init
<1> SUFFICES ASSUME Init PROVE Channel!Init
  OBVIOUS
<1>1. accepted = 0 /\ head = 0 /\ sent = 0
  BY DEF Init
<1>2. 0 \in Nat /\ 0 \in Slots
  BY SizesAssumption DEF Slots
<1>3. Dist(0, (0 - 0) % N) = 0 /\ 0 % N = 0
  BY <1>2, DistIs, ModSmall
<1>4. available = 0
  BY <1>1, <1>3, AvailableIsDist
<1> QED
  BY <1>1, <1>4 DEF Channel!Init

LEMMA ChannelNext ==
  ASSUME OrderInv, [Next]_vars
  PROVE  [Channel!Next]_Channel!vars
<1>1. \/ \E w \in Writers : Write(w)
      \/ Transmit
      \/ Complete
      \/ UNCHANGED <<accepted, head, sent>>
  <2>1. CASE UNCHANGED vars
    BY <2>1 DEF vars, buffer_vars, wire_vars
  <2>2. ASSUME NEW w \in Writers, CallWrite(w) \/ CallFlush(w) \/ Continue(w) \/ Expire(w)
        PROVE  Write(w) \/ UNCHANGED <<accepted, head, sent>>
    BY <2>2 DEF CallWrite, CallFlush, Continue, Expire, Check, Wait, Filled, Post,
                FlushWait, FlushOK, buffer_vars, wire_vars
  <2>3. CASE PostOther \/ Managing
    BY <2>3 DEF PostOther, Managing, Receive, ReadIndices, CopyOut, Send, buffer_vars, wire_vars
  <2>4. CASE Transferring
    BY <2>4 DEF Transferring, Interrupt, Finish, buffer_vars
  <2>5. CASE Closing \/ Opening
    BY <2>5 DEF Closing, Opening, Deinit, Close, SetClose, Open, ClearFlags,
                buffer_vars, wire_vars
  <2> QED
    BY <2>1, <2>2, <2>3, <2>4, <2>5 DEF Next
<1>2. CASE UNCHANGED <<accepted, head, sent>>
  BY <1>2, SameBuffer DEF Channel!vars
<1> QED
  BY <1>1, <1>2, WriteAccepts, TransmitSends, CompleteGives DEF Channel!Next

\* The device is a channel with room for N - 1 bytes: it accepts no byte it has no
\* room for, sends none it did not accept and gives the room of none back before
\* it is out.
THEOREM ImplementsByteChannel ==
  ASSUME OneWriter, KeepsToStyle
  PROVE  Spec => ImplementsChannel
<1>1. Spec => []OrderInv
  BY OrderCorrect
<1>2. Init => Channel!Init
  BY ChannelInit
<1>3. OrderInv /\ [Next]_vars => [Channel!Next]_Channel!vars
  BY ChannelNext
<1> QED
  BY <1>1, <1>2, <1>3, PTL DEF Spec, ImplementsChannel, Channel!Spec
===============================================================================
