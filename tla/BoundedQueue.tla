----------------------------- MODULE BoundedQueue -----------------------------
(***************************************************************************)
(* What a ring buffer promises: a first-in first-out queue of at most      *)
(* Capacity entries whose last popped entry can be put back, as long as    *)
(* there is room and nothing else took an entry out since.  reply is the   *)
(* last call with its arguments and its answer.                            *)
(***************************************************************************)
EXTENDS Naturals, Sequences

CONSTANTS Data,      \* the entries
          Capacity,  \* the most the queue holds
          Inputs,    \* the arguments of write
          Requests   \* the amounts asked of read and peek

VARIABLES queue,  \* the entries, the oldest first
          undo,   \* the entry a roll_back brings back, if any
          reply   \* the last call: its name, what it was given and asked, and the count
                 \* and the data it returned

vars == <<queue, undo, reply>>

Init ==
  /\ queue = <<>>
  /\ undo = <<>>
  /\ reply = [op |-> "none", given |-> <<>>, asked |-> 0, n |-> 0, data |-> <<>>]

Least(m, n) == IF m <= n THEN m ELSE n

Replies(op, given, asked, n, data) ==
  reply' = [op |-> op, given |-> given, asked |-> asked, n |-> n, data |-> data]

Push(d) ==
  IF Len(queue) = Capacity
  THEN Replies("push", <<d>>, 1, 0, <<>>) /\ UNCHANGED <<queue, undo>>
  ELSE Replies("push", <<d>>, 1, 1, <<>>) /\ queue' = Append(queue, d) /\ UNCHANGED undo

Pop ==
  IF queue = <<>>
  THEN Replies("pop", <<>>, 1, 0, <<>>) /\ UNCHANGED <<queue, undo>>
  ELSE /\ Replies("pop", <<>>, 1, 1, <<Head(queue)>>)
       /\ queue' = Tail(queue)
       /\ undo' = <<Head(queue)>>

Write(d) ==
  LET n == Least(Len(d), Capacity - Len(queue)) IN
  /\ Replies("write", d, Len(d), n, <<>>)
  /\ queue' = queue \o SubSeq(d, 1, n)
  /\ UNCHANGED undo

Read(request) ==
  LET n == Least(request, Len(queue)) IN
  /\ Replies("read", <<>>, request, n, SubSeq(queue, 1, n))
  /\ queue' = SubSeq(queue, n + 1, Len(queue))
  /\ undo' = <<>>

Peek(request) ==
  LET n == Least(request, Len(queue)) IN
  /\ Replies("peek", <<>>, request, n, SubSeq(queue, 1, n))
  /\ UNCHANGED <<queue, undo>>

RollBack ==
  IF undo = <<>> \/ Len(queue) = Capacity
  THEN Replies("roll_back", <<>>, 0, 0, <<>>) /\ UNCHANGED <<queue, undo>>
  ELSE Replies("roll_back", <<>>, 0, 1, <<>>) /\ queue' = undo \o queue /\ undo' = <<>>

Clear ==
  /\ Replies("clear", <<>>, 0, Len(queue), <<>>)
  /\ queue' = <<>>
  /\ undo' = <<>>

Next ==
  \/ \E d \in Data : Push(d)
  \/ Pop
  \/ \E d \in Inputs : Write(d)
  \/ \E request \in Requests : Read(request) \/ Peek(request)
  \/ RollBack
  \/ Clear

Spec == Init /\ [][Next]_vars
===============================================================================
