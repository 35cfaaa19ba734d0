------------------------------ MODULE RingBuffer ------------------------------
(***************************************************************************)
(* Ring_Buffer_Base (src/api/system/memory/ring_buffer.hpp): the index     *)
(* arithmetic of the buffer every stream device keeps its input and its    *)
(* output in.  Each operation runs under an Interrupt_Guard, so that calls *)
(* from threads and interrupt handlers are atomic and interleave in any    *)
(* order.                                                                  *)
(*                                                                         *)
(* N is a power of two: i & (N - 1) is i modulo N, and the unsigned        *)
(* difference of two indices, masked, is their distance.                   *)
(***************************************************************************)
EXTENDS Integers, Sequences

CONSTANTS N,         \* the number of slots
          Data,      \* what an entry can be
          Zero,      \* what m_buffer is initialised with
          Inputs,    \* the arguments of write
          Requests,  \* the amounts asked of read and peek
          Careful    \* do callers roll back only what can be rolled back?

ASSUME NAssumption == N \in Nat /\ N >= 2
ASSUME DataAssumption == Zero \in Data
ASSUME InputsAssumption == Inputs \subseteq Seq(Data)
ASSUME RequestsAssumption == Requests \subseteq Nat
ASSUME CarefulAssumption == Careful \in BOOLEAN

VARIABLES head,            \* m_head
          tail,            \* m_tail
          buffer,          \* m_buffer
          roll_back_save,  \* m_roll_back_save
          reply,           \* the last call, its arguments and what it returned
          mark             \* history: what m_roll_back_save stands for

vars == <<head, tail, buffer, roll_back_save, reply, mark>>

Slots == 0 .. N - 1

Init ==
  /\ head = 0
  /\ tail = 0
  /\ buffer = [i \in Slots |-> Zero]
  /\ roll_back_save = 0
  /\ reply = [op |-> "none", given |-> <<>>, asked |-> 0, n |-> 0, data |-> <<>>]
  /\ mark = "read"

-------------------------------------------------------------------------------
Least(m, n) == IF m <= n THEN m ELSE n

\* i & (N - 1), for an index less than 2N.
Wrap(i) == IF i < N THEN i ELSE i - N

available == IF head <= tail THEN tail - head ELSE tail + N - head
space == N - 1 - available
full == Wrap(tail + 1) = head

\* The n entries from head on: a copy up to the end of the array and, for the
\* rest, one from its start.
CopiedOut(n) ==
  LET first == Least(N - head, n) IN
  [i \in 1 .. n |-> IF i <= first THEN buffer[head + i - 1] ELSE buffer[i - first - 1]]

\* Mutant: the second copy is made when the first one was enough, too.
StoredWithoutLimit(d, n) ==
  [i \in Slots |->
     IF tail <= i /\ i < tail + n THEN d[i - tail + 1] ELSE buffer[i]]

\* The array after the first n entries of d were copied in from tail on.
Stored(d, n) ==
  LET first == Least(N - tail, n) IN
  [i \in Slots |->
     IF tail <= i /\ i < tail + first THEN d[i - tail + 1]
     ELSE IF i < n - first THEN d[first + i + 1]
     ELSE buffer[i]]

Replies(op, given, asked, n, data) ==
  reply' = [op |-> op, given |-> given, asked |-> asked, n |-> n, data |-> data]

-------------------------------------------------------------------------------
\* Mutant: the buffer is filled to its last slot.
PushToTheLastSlot(d) ==
  IF available = N
  THEN Replies("push", <<d>>, 1, 0, <<>>) /\ UNCHANGED <<buffer, tail, head, roll_back_save, mark>>
  ELSE /\ Replies("push", <<d>>, 1, 1, <<>>)
       /\ buffer' = [buffer EXCEPT ![tail] = d]
       /\ tail' = tail + 1
       /\ UNCHANGED <<head, roll_back_save, mark>>

Push(d) ==
  IF full
  THEN Replies("push", <<d>>, 1, 0, <<>>) /\ UNCHANGED <<buffer, tail, head, roll_back_save, mark>>
  ELSE /\ Replies("push", <<d>>, 1, 1, <<>>)
       /\ buffer' = [buffer EXCEPT ![tail] = d]
       /\ tail' = Wrap(tail + 1)
       /\ UNCHANGED <<head, roll_back_save, mark>>

Pop ==
  IF head = tail
  THEN Replies("pop", <<>>, 1, 0, <<>>) /\ UNCHANGED <<buffer, tail, head, roll_back_save, mark>>
  ELSE /\ Replies("pop", <<>>, 1, 1, <<buffer[head]>>)
       /\ roll_back_save' = head
       /\ head' = Wrap(head + 1)
       /\ mark' = "pop"
       /\ UNCHANGED <<buffer, tail>>

\* roll_back_save is the new head: what read took out cannot be put back.
Read(request) ==
  LET n == Least(request, available) IN
  /\ Replies("read", <<>>, request, n, CopiedOut(n))
  /\ head' = Wrap(head + n)
  /\ roll_back_save' = head'
  /\ mark' = "read"
  /\ UNCHANGED <<buffer, tail>>

Write(d) ==
  LET n == Least(Len(d), space) IN
  /\ Replies("write", d, Len(d), n, <<>>)
  /\ buffer' = Stored(d, n)
  /\ tail' = Wrap(tail + n)
  /\ UNCHANGED <<head, roll_back_save, mark>>

Peek(request) ==
  LET n == Least(request, available) IN
  /\ Replies("peek", <<>>, request, n, CopiedOut(n))
  /\ UNCHANGED <<head, tail, buffer, roll_back_save, mark>>

\* A careful caller rolls back neither after clear nor when what it popped has
\* been replaced.
RollBack ==
  /\ Careful => mark # "clear" /\ (mark = "pop" => ~ full)
  /\ IF head = roll_back_save
     THEN Replies("roll_back", <<>>, 0, 0, <<>>) /\ UNCHANGED <<head, mark>>
     ELSE Replies("roll_back", <<>>, 0, 1, <<>>) /\ head' = roll_back_save /\ mark' = "read"
  /\ UNCHANGED <<buffer, tail, roll_back_save>>

\* m_roll_back_save keeps its value.
Clear ==
  /\ Replies("clear", <<>>, 0, available, <<>>)
  /\ head' = 0
  /\ tail' = 0
  /\ mark' = "clear"
  /\ UNCHANGED <<buffer, roll_back_save>>

Next ==
  \/ \E d \in Data : Push(d)
  \/ Pop
  \/ \E d \in Inputs : Write(d)
  \/ \E request \in Requests : Read(request) \/ Peek(request)
  \/ RollBack
  \/ Clear

Spec == Init /\ [][Next]_vars

-------------------------------------------------------------------------------
(* Correctness *)

\* The indices stay inside the array.
TypeOK ==
  /\ head \in Slots
  /\ tail \in Slots
  /\ buffer \in [Slots -> Data]
  /\ roll_back_save \in Slots
  /\ mark \in {"read", "pop", "clear"}

\* The entries in the buffer, the oldest first.
Contents == CopiedOut(available)

\* The buffer is a queue of N - 1 entries: whatever the callers ask, whatever
\* wraps around, no entry is lost, repeated or overtaken, a full buffer takes no
\* more, and a careful roll_back puts the last popped entry back.
Queue == INSTANCE BoundedQueue WITH
  Capacity <- N - 1,
  queue <- Contents,
  undo <- IF mark = "pop" THEN <<buffer[roll_back_save]>> ELSE <<>>
ImplementsQueue == Queue!Spec

\* A roll_back that reports success has put the last popped entry back in front
\* of the others; what is beyond recovery is reported as ROLL_OVER.
RollBackIsHonest ==
  [][reply'.op = "roll_back" /\ reply'.n = 1 /\ reply # reply' =>
       mark = "pop" /\ Contents' = <<buffer[roll_back_save]>> \o Contents]_vars
===============================================================================
