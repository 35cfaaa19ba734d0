---------------------------- MODULE SignalManager ----------------------------
(***************************************************************************)
(* Signals and slots (src/api/system/signal/signal_manager.hpp and         *)
(* src/api/system/object): the table of connections behind its             *)
(* Read_Write_Lock, emissions that walk it while they hold that lock       *)
(* twice, the signal queues of objects and threads, and the destruction of *)
(* objects and signals.                                                    *)
(*                                                                         *)
(* The lock is taken at its word: it is ReadWriteExclusion, which          *)
(* ReadWriteLockProofs shows the detailed lock to implement.               *)
(***************************************************************************)
EXTENDS Integers, Sequences, FiniteSets, SequencesExt

CONSTANTS Threads,      \* thread objects that emit, connect and process signals
          Objects,      \* Object_Bases that are not threads
          QueueOwners,  \* the receivers with a signal queue
          Home,         \* Home[o]: the thread that processes o's queue and destroys o
          Signals,      \* the addresses of signals
          Connections,  \* what callers may connect, see Nodes
          Null,         \* nullptr
          MaxGroups,    \* MAX_CONNECTION_GROUP
          MaxNodes,     \* MAX_RECEIVER_NODE
          QueueSize,    \* the Queue_Size of an object
          Words,        \* sizeof(Signal_Data*), which the queue takes for a number of words
          MaxConnects,  \* bound: the calls of connect and disconnect
          MaxEmits      \* bound: the emissions

Receivers == Threads \cup Objects
Types == {"Auto", "Direct", "Object", "Thread", "Blocking"}
Nodes == [receiver : Receivers \cup {Null}, handle : {1, 2}, type : Types]

ASSUME ReceiversAssumption ==
  /\ IsFiniteSet(Receivers) /\ IsFiniteSet(Signals)
  /\ Null \notin Receivers
  /\ Threads \cap Objects = {}
  /\ QueueOwners \subseteq Receivers
  /\ Home \in [Objects -> Threads]
ASSUME ConnectionsAssumption ==
  \* a global function is connected without a type: the node's own is Direct
  /\ Connections \subseteq Nodes
  /\ \A n \in Connections : n.receiver = Null => n.type = "Direct"
\* A connection group in the table.
Groups == [nodes : Seq(Connections), blocking_count : Nat, inherited : Nat]
ASSUME NullAssumption == Null \notin Groups
ASSUME SizesAssumption ==
  /\ MaxGroups \in Nat /\ MaxNodes \in Nat
  /\ Words \in Nat \ {0} /\ QueueSize \in Nat /\ QueueSize >= Words
  /\ MaxConnects \in Nat /\ MaxEmits \in Nat

VARIABLES
  \* Signal_Hash_Table
  table,        \* table[s]: s's Connection_Group, or Null
  free_groups,  \* the blocking_counts that lie in the free blocks of m_group_pool
  free_nodes,   \* the free blocks of m_receiver_pool
  readers, writers, waiting,   \* m_lock, as ReadWriteExclusion
  \* Object_Base
  life,         \* life[o]: how far o's destruction is
  m_valid,      \* m_valid[r]
  affinity,     \* affinity[r]: m_affinity_thread
  queue,        \* queue[r]: the packages in m_signal_queue
  \* the threads
  pc,           \* pc[t]: where t is
  op,           \* op[t]: the arguments of the table operation t is in
  rest,         \* rest[t]: the nodes for_each_connection has yet to visit
  current,      \* current[t]: the package t is making of a node, or processing
  target,       \* target[t]: the queue determine_execute_type chose, or Null
  emission,     \* emission[t]: the number of t's emission, 0 outside of one
  \* emissions
  total,        \* total[e]: the Signal_Semaphore's total
  released,     \* released[e]: the permits given to its semaphore
  \* history and bounds
  owed,         \* owed[e]: the blocking connections found when the walk began
  connects,     \* the calls of connect and disconnect
  emits         \* the emissions

table_vars == <<table, free_groups, free_nodes>>
lock_vars == <<readers, writers, waiting>>
object_vars == <<life, m_valid, affinity, queue>>
thread_vars == <<pc, op, rest, current, target, emission>>
emission_vars == <<total, released, owed>>
bound_vars == <<connects, emits>>
vars == <<table_vars, lock_vars, object_vars, thread_vars, emission_vars, bound_vars>>

Lock == INSTANCE ReadWriteExclusion

Blocks(n) == n.type = "Blocking"
BlockingNodes(nodes) == Cardinality({i \in 1 .. Len(nodes) : Blocks(nodes[i])})
NodesOf(s) == IF table[s] = Null THEN <<>> ELSE table[s].nodes

\* tx_queue_create reads sizeof(T) as words: of Queue_Size messages, a quarter fits.
Capacity == QueueSize \div Words
enqueued(q) == Len(queue[q]) \div Words

\* has_signal_queue and post_signal are virtual: ~Object_Base runs as an Object_Base.
HasQueue(r) == r \in QueueOwners /\ (r \in Objects => life[r] \in {"alive", "cleared"})

\* A virtual call through the null pointer that ~Object_Base leaves is a fault;
\* nothing runs after it.
NoFault == \A t \in Threads : pc[t] # "fault"
Goes(t, from, to) == NoFault /\ pc[t] = from /\ pc' = [pc EXCEPT ![t] = to]

\* The call returns, and its locals are gone.
Returns(t, from) ==
  /\ Goes(t, from, "idle")
  /\ op' = [op EXCEPT ![t] = Null]
  /\ rest' = [rest EXCEPT ![t] = <<>>]
  /\ current' = [current EXCEPT ![t] = Null]
  /\ target' = [target EXCEPT ![t] = Null]
  /\ emission' = [emission EXCEPT ![t] = 0]

-------------------------------------------------------------------------------
(* the operations on the table, which hold the write lock *)

\* check_receiver_and_type
CanConnect(r, type) ==
  CASE type = "Object" -> HasQueue(r)
    [] type = "Thread" -> affinity[r] # Null /\ HasQueue(affinity[r])
    [] type = "Blocking" -> HasQueue(IF affinity[r] # Null THEN affinity[r] ELSE r)
    [] OTHER -> TRUE

Calls(t, operation) ==
  /\ Goes(t, "idle", "lock")
  /\ op' = [op EXCEPT ![t] = operation]

CallConnect(t) ==
  /\ connects < MaxConnects /\ connects' = connects + 1
  /\ \E s \in Signals, n \in Connections :
       /\ n.receiver \in Objects => life[n.receiver] = "alive"
       /\ n.receiver # Null => CanConnect(n.receiver, n.type)
       /\ Calls(t, [name |-> "connect", signal |-> s, node |-> n])
  /\ UNCHANGED <<table_vars, lock_vars, object_vars, rest, current, target,
                 emission, emission_vars, emits>>

CallDisconnect(t) ==
  /\ connects < MaxConnects /\ connects' = connects + 1
  /\ \E s \in Signals, n \in Connections :
       Calls(t, [name |-> "disconnect", signal |-> s, node |-> n])
  /\ UNCHANGED <<table_vars, lock_vars, object_vars, rest, current, target,
                 emission, emission_vars, emits>>

\* ~Signal
CallDisconnectSignal(t) ==
  /\ connects < MaxConnects /\ connects' = connects + 1
  /\ \E s \in Signals : Calls(t, [name |-> "disconnect_signal", signal |-> s])
  /\ UNCHANGED <<table_vars, lock_vars, object_vars, rest, current, target,
                 emission, emission_vars, emits>>

\* Write_Guard: the call has shut the readers out, then it has the lock.
AnnounceWrite(t) ==
  /\ Goes(t, "lock", "wait")
  /\ Lock!AnnounceWrite(t)
  /\ UNCHANGED <<table_vars, object_vars, op, rest, current, target, emission,
                 emission_vars, bound_vars>>

BeginWrite(t) ==
  /\ Goes(t, "wait", "write")
  /\ Lock!BeginWrite(t)
  /\ UNCHANGED <<table_vars, object_vars, op, rest, current, target, emission,
                 emission_vars, bound_vars>>

\* The operation is done and its Write_Guard goes.
Unlocks(t) == Returns(t, "write") /\ Lock!EndWrite(t)

\* The group of s, taken from the pool when s has none.  Its constructor leaves
\* blocking_count at what the block held; inherited is history, that leftover.
GroupFor(s) ==
  IF table[s] # Null THEN table[s]
  ELSE [nodes |-> <<>>, blocking_count |-> Head(free_groups), inherited |-> Head(free_groups)]

Same(m, n) == m.receiver = n.receiver /\ m.handle = n.handle

\* Mutant: every connection that posts to a queue is counted.
CountedIfQueued(n) == IF n.type # "Direct" THEN 1 ELSE 0

\* What a new connection adds to blocking_count.
Counted(n) == IF Blocks(n) THEN 1 ELSE 0

\* add_connection: a group that could be had stays, even when no node could be.
AddConnection(t) ==
  LET s == op[t].signal
      n == op[t].node
      g == GroupFor(s)
      known == \E i \in 1 .. Len(g.nodes) : Same(g.nodes[i], n)
  IN
  /\ Unlocks(t)
  /\ op[t].name = "connect"
  /\ IF table[s] = Null /\ free_groups = <<>>
     THEN UNCHANGED table_vars
     ELSE /\ free_groups' = IF table[s] = Null THEN Tail(free_groups) ELSE free_groups
          /\ IF known \/ free_nodes = 0
             THEN table' = [table EXCEPT ![s] = g] /\ UNCHANGED free_nodes
             ELSE /\ table' = [table EXCEPT ![s] =
                       [g EXCEPT !.nodes = <<n>> \o @,
                                 !.blocking_count = @ + Counted(n)]]
                  /\ free_nodes' = free_nodes - 1
  /\ UNCHANGED <<object_vars, emission_vars, bound_vars>>

\* The sequence q without the elements at the places of the set I.
Without(q, I) ==
  LET kept == (1 .. Len(q)) \ I
      Nth(k) == CHOOSE i \in kept : Cardinality({j \in kept : j <= i}) = k
  IN [k \in 1 .. Cardinality(kept) |-> q[Nth(k)]]

\* The group of s after the nodes at the places of I were taken out of its list.
Unlinked(s, I) ==
  IF table[s] = Null THEN Null
  ELSE [table[s] EXCEPT
          !.nodes = Without(@, I),
          !.blocking_count = @ - Cardinality({i \in I : Blocks(table[s].nodes[i])})]

\* remove_connection
RemoveConnection(t) ==
  LET s == op[t].signal
      gone == {i \in 1 .. Len(NodesOf(s)) : Same(NodesOf(s)[i], op[t].node)}
  IN
  /\ Unlocks(t)
  /\ op[t].name = "disconnect"
  /\ table' = [table EXCEPT ![s] = Unlinked(s, gone)]
  /\ free_nodes' = free_nodes + Cardinality(gone)
  /\ UNCHANGED free_groups
  /\ UNCHANGED <<object_vars, emission_vars, bound_vars>>

\* Mutant: the nodes of a group are freed by the loop and again with the group.
RemoveSignalTwice(t) ==
  LET s == op[t].signal IN
  /\ Unlocks(t)
  /\ op[t].name = "disconnect_signal"
  /\ IF table[s] = Null THEN UNCHANGED table_vars
     ELSE /\ table' = [table EXCEPT ![s] = Null]
          /\ free_nodes' = free_nodes + 2 * Len(table[s].nodes)
          /\ free_groups' = <<table[s].blocking_count>> \o free_groups
  /\ UNCHANGED <<object_vars, emission_vars, bound_vars>>

\* remove_signal: the freed block is the next to be taken.
RemoveSignal(t) ==
  LET s == op[t].signal IN
  /\ Unlocks(t)
  /\ op[t].name = "disconnect_signal"
  /\ IF table[s] = Null THEN UNCHANGED table_vars
     ELSE /\ table' = [table EXCEPT ![s] = Null]
          /\ free_nodes' = free_nodes + Len(table[s].nodes)
          /\ free_groups' = <<table[s].blocking_count>> \o free_groups
  /\ UNCHANGED <<object_vars, emission_vars, bound_vars>>

\* remove_receiver leaves each group's loop after the first match.
FirstNode(s, r) ==
  LET ofR == {i \in 1 .. Len(NodesOf(s)) : NodesOf(s)[i].receiver = r}
  IN {i \in ofR : \A j \in ofR : i <= j}

RemoveReceiver(t) ==
  LET r == op[t].receiver IN
  /\ Unlocks(t)
  /\ op[t].name = "disconnect_receiver"
  /\ table' = [s \in Signals |-> Unlinked(s, FirstNode(s, r))]
  /\ free_nodes' = free_nodes + Cardinality({s \in Signals : FirstNode(s, r) # {}})
  /\ life' = [life EXCEPT ![r] = "gone"]
  /\ UNCHANGED <<free_groups, m_valid, affinity, queue, emission_vars, bound_vars>>

-------------------------------------------------------------------------------
(* Signal_Manager::emit, on behalf of Signal::emit and operator() *)

Releases(e) ==
  released' = IF e = 0 THEN released ELSE [released EXCEPT ![e] = @ + 1]

CallEmit(t) ==
  /\ Goes(t, "idle", "emit")
  /\ emits < MaxEmits /\ emits' = emits + 1
  /\ emission' = [emission EXCEPT ![t] = emits + 1]
  /\ \E s \in Signals : op' = [op EXCEPT ![t] = [name |-> "emit", signal |-> s]]
  /\ UNCHANGED <<table_vars, lock_vars, object_vars, rest, current, target, emission_vars, connects>>

\* The Read_Guard of emit.
LockEmit(t) ==
  /\ Goes(t, "emit", "count")
  /\ Lock!BeginRead(t)
  /\ UNCHANGED <<table_vars, object_vars, op, rest, current, target, emission,
                 emission_vars, bound_vars>>

\* Mutant: emit has no Read_Guard around the two calls.
CountAlone(t) ==
  LET s == op[t].signal
      n == IF table[s] = Null THEN 0 ELSE table[s].blocking_count
  IN
  /\ Goes(t, "count", "walk")
  /\ writers = {} /\ waiting = {}
  /\ readers' = readers \ {t}
  /\ total' = [total EXCEPT ![emission[t]] = n]
  /\ UNCHANGED <<table_vars, writers, waiting, object_vars, op, rest, current, target, emission,
                 released, owed, bound_vars>>

\* get_blocking_connection_count, whose own Read_Guard has to be admitted as any
\* reader: it waits for a writer that waits for this thread.  Then the semaphore.
Count(t) ==
  LET s == op[t].signal
      n == IF table[s] = Null THEN 0 ELSE table[s].blocking_count
  IN
  /\ Lock!BeginRead(t)
  /\ Goes(t, "count", "walk")
  /\ total' = [total EXCEPT ![emission[t]] = n]
  /\ UNCHANGED <<table_vars, object_vars, op, rest, current, target, emission,
                 released, owed, bound_vars>>

\* m_semaphore_pool.allocate finds no block: nothing is executed.
OutOfSemaphores(t) ==
  /\ Returns(t, "walk")
  /\ total[emission[t]] > 0
  /\ Lock!EndRead(t)
  /\ UNCHANGED <<table_vars, object_vars, emission_vars, bound_vars>>

\* Mutant: the list is taken under the lock, and walked without it.
BeginWalkUnguarded(t) ==
  LET s == op[t].signal IN
  /\ Goes(t, "walk", "visit")
  /\ writers = {} /\ waiting = {}
  /\ readers' = readers \ {t}
  /\ rest' = [rest EXCEPT ![t] = NodesOf(s)]
  /\ owed' = [owed EXCEPT ![emission[t]] = BlockingNodes(NodesOf(s))]
  /\ UNCHANGED <<table_vars, writers, waiting, object_vars, op, current, target, emission, total,
                 released, bound_vars>>

\* for_each_connection, with a Read_Guard of its own.
BeginWalk(t) ==
  LET s == op[t].signal IN
  /\ Goes(t, "walk", "visit")
  /\ Lock!BeginRead(t)
  /\ rest' = [rest EXCEPT ![t] = NodesOf(s)]
  /\ owed' = [owed EXCEPT ![emission[t]] = BlockingNodes(NodesOf(s))]
  /\ UNCHANGED <<table_vars, object_vars, op, current, target, emission, total, released, bound_vars>>

\* determine_execute_type: the queue a node's package goes to, Null when the
\* handler runs here.
QueueFor(n, t) ==
  LET r == n.receiver
      elsewhere == affinity[r] # Null /\ affinity[r] # t /\ HasQueue(affinity[r])
  IN
  CASE r = Null \/ n.type = "Direct" -> Null
    [] n.type = "Object" -> IF HasQueue(r) THEN r ELSE Null
    [] n.type = "Thread" -> IF elsewhere THEN affinity[r] ELSE Null
    [] OTHER -> IF elsewhere THEN affinity[r]
                ELSE IF affinity[r] = Null /\ HasQueue(r) THEN r ELSE Null

Visit(t) ==
  /\ NoFault /\ pc[t] = "visit" /\ rest[t] # <<>>
  /\ LET n == Head(rest[t]) IN
     /\ rest' = [rest EXCEPT ![t] = Tail(@)]
     /\ current' = [current EXCEPT ![t] =
          [receiver |-> n.receiver, handle |-> n.handle,
           emission |-> IF Blocks(n) THEN emission[t] ELSE 0]]
     /\ target' = [target EXCEPT ![t] = QueueFor(n, t)]
     /\ Goes(t, "visit", IF QueueFor(n, t) = Null THEN "execute" ELSE "post")
  /\ UNCHANGED <<table_vars, lock_vars, object_vars, op, emission, emission_vars, bound_vars>>

IsValid(r) == r # Null => m_valid[r]

\* Direct and Blocking_Direct: execute finds the receiver destroyed.
ExecuteFails(t) ==
  /\ Goes(t, "execute", "visit")
  /\ ~ IsValid(current[t].receiver)
  /\ Releases(current[t].emission)
  /\ UNCHANGED <<table_vars, lock_vars, object_vars, op, rest, current, target, emission,
                 total, owed, bound_vars>>

\* Mutant: execute does not ask whether the receiver is valid.
ExecuteUnchecked(t) ==
  /\ Goes(t, "execute", "handler")
  /\ UNCHANGED <<table_vars, lock_vars, object_vars, op, rest, current, target, emission,
                 emission_vars, bound_vars>>

\* It is valid: the handler is called, which may take its time.
Execute(t) ==
  /\ Goes(t, "execute", "handler")
  /\ IsValid(current[t].receiver)
  /\ UNCHANGED <<table_vars, lock_vars, object_vars, op, rest, current, target, emission,
                 emission_vars, bound_vars>>

HandlerReturns(t) ==
  /\ Goes(t, "handler", "visit")
  /\ Releases(current[t].emission)
  /\ UNCHANGED <<table_vars, lock_vars, object_vars, op, rest, current, target, emission,
                 total, owed, bound_vars>>

\* Object, Thread and their blocking kinds: post_signal, without waiting.
Posts(t) ==
  LET q == target[t] IN
  /\ Goes(t, "post", "visit")
  /\ q # current[t].receiver => affinity[current[t].receiver] # Null
  /\ HasQueue(q) /\ Len(queue[q]) < Capacity
  /\ queue' = [queue EXCEPT ![q] = Append(@, current[t])]
  /\ UNCHANGED <<table_vars, lock_vars, life, m_valid, affinity, op, rest, current,
                 target, emission, emission_vars, bound_vars>>

\* Mutant: a package that could not be posted is destroyed, and the failure is
\* accounted for once more.
PostFailsTwice(t) ==
  /\ Goes(t, "post", "visit")
  /\ released' = IF current[t].emission = 0 THEN released
                 ELSE [released EXCEPT ![current[t].emission] = @ + 2]
  /\ UNCHANGED <<table_vars, lock_vars, object_vars, op, rest, current, target, emission,
                 total, owed, bound_vars>>

\* There was no memory for the package, or no room in the queue, or the queue is
\* gone: the package is destroyed, which releases the semaphore.
PostFails(t) ==
  /\ Goes(t, "post", "visit")
  /\ Releases(current[t].emission)
  /\ UNCHANGED <<table_vars, lock_vars, object_vars, op, rest, current, target, emission,
                 total, owed, bound_vars>>

\* receiver->get_affinity_thread()->post_signal, after ~Object_Base cleared it.
PostFaults(t) ==
  /\ Goes(t, "post", "fault")
  /\ target[t] # current[t].receiver
  /\ affinity[current[t].receiver] = Null
  /\ UNCHANGED <<table_vars, lock_vars, object_vars, op, rest, current, target, emission,
                 emission_vars, bound_vars>>

\* Mutant: one of the two Read_Guards is not given back.
EndEmitKeepsGuard(t) ==
  /\ pc[t] = "visit" /\ rest[t] = <<>>
  /\ Returns(t, "visit")
  /\ UNCHANGED <<lock_vars, table_vars, object_vars, emission_vars, bound_vars>>

\* Both Read_Guards go.  That Signal::emit then waits for the releases is left to
\* BlockingEmit: here it is one of the calls an idle thread makes at no set time.
EndEmit(t) ==
  /\ pc[t] = "visit" /\ rest[t] = <<>>
  /\ Returns(t, "visit")
  /\ Lock!EndRead(t)
  /\ UNCHANGED <<table_vars, object_vars, emission_vars, bound_vars>>

-------------------------------------------------------------------------------
(* Object::process_signal *)

ServedBy(q) == IF q \in Threads THEN q ELSE Home[q]

Receive(t) ==
  /\ Goes(t, "idle", "process")
  /\ \E q \in QueueOwners :
       /\ ServedBy(q) = t /\ HasQueue(q) /\ queue[q] # <<>>
       /\ current' = [current EXCEPT ![t] = Head(queue[q])]
       /\ queue' = [queue EXCEPT ![q] = Tail(@)]
  /\ UNCHANGED <<table_vars, lock_vars, life, m_valid, affinity, op, rest, target, emission,
                 emission_vars, bound_vars>>

Process(t) ==
  /\ Goes(t, "process", "serve")
  /\ IsValid(current[t].receiver)
  /\ UNCHANGED <<table_vars, lock_vars, object_vars, op, rest, current, target, emission,
                 emission_vars, bound_vars>>

\* destroy, after execute failed or after the handler.
DestroyPackage(t) ==
  /\ \/ Returns(t, "process") /\ ~ IsValid(current[t].receiver)
     \/ Returns(t, "serve")
  /\ Releases(current[t].emission)
  /\ UNCHANGED <<table_vars, lock_vars, object_vars, total, owed, bound_vars>>

-------------------------------------------------------------------------------
(* the destruction of an object, by the thread that processes its queue *)

Destruct(t) ==
  \E o \in Objects :
    /\ Home[o] = t /\ life[o] = "alive"
    /\ Goes(t, "idle", IF o \in QueueOwners THEN "clear" ELSE "invalidate")
    /\ op' = [op EXCEPT ![t] = [name |-> "disconnect_receiver", receiver |-> o]]
    /\ UNCHANGED <<table_vars, lock_vars, object_vars, rest, current, target, emission,
                   emission_vars, bound_vars>>

\* clear_signal: packages are received and destroyed while enqueued() is not 0.
ClearOne(t) ==
  LET o == op[t].receiver IN
  /\ Goes(t, "clear", "clear")
  /\ enqueued(o) > 0
  /\ Releases(Head(queue[o]).emission)
  /\ queue' = [queue EXCEPT ![o] = Tail(@)]
  /\ UNCHANGED <<table_vars, lock_vars, life, m_valid, affinity, op, rest, current, target,
                 emission, total, owed, bound_vars>>

Cleared(t) ==
  LET o == op[t].receiver IN
  /\ Goes(t, "clear", "invalidate")
  /\ enqueued(o) = 0
  /\ life' = [life EXCEPT ![o] = "cleared"]
  /\ UNCHANGED <<table_vars, lock_vars, m_valid, affinity, queue, op, rest, current, target,
                 emission, emission_vars, bound_vars>>

\* The queue is deleted, then ~Object_Base, up to disconnect_receiver.
Invalidate(t) ==
  LET o == op[t].receiver IN
  /\ Goes(t, "invalidate", "lock")
  /\ life' = [life EXCEPT ![o] = "invalid"]
  /\ m_valid' = [m_valid EXCEPT ![o] = FALSE]
  /\ affinity' = [affinity EXCEPT ![o] = Null]
  /\ UNCHANGED <<table_vars, lock_vars, queue, op, rest, current, target, emission,
                 emission_vars, bound_vars>>

-------------------------------------------------------------------------------
Init ==
  /\ table = [s \in Signals |-> Null]
  /\ free_groups = [i \in 1 .. MaxGroups |-> 0]
  /\ free_nodes = MaxNodes
  /\ Lock!Init
  /\ life = [o \in Objects |-> "alive"]
  /\ m_valid = [r \in Receivers |-> TRUE]
  \* a Thread is its own affinity thread; an object is given one, or none
  /\ \E f \in [Objects -> Threads \cup {Null}] :
       /\ \A o \in Objects : f[o] \in {Home[o], Null}
       /\ affinity = [r \in Receivers |-> IF r \in Threads THEN r ELSE f[r]]
  /\ queue = [r \in Receivers |-> <<>>]
  /\ pc = [t \in Threads |-> "idle"]
  /\ op = [t \in Threads |-> Null]
  /\ rest = [t \in Threads |-> <<>>]
  /\ current = [t \in Threads |-> Null]
  /\ target = [t \in Threads |-> Null]
  /\ emission = [t \in Threads |-> 0]
  /\ total = [e \in 1 .. MaxEmits |-> 0]
  /\ released = [e \in 1 .. MaxEmits |-> 0]
  /\ owed = [e \in 1 .. MaxEmits |-> 0]
  /\ connects = 0
  /\ emits = 0

TableStep(t) ==
  \/ CallConnect(t) \/ CallDisconnect(t) \/ CallDisconnectSignal(t)
  \/ AnnounceWrite(t) \/ BeginWrite(t)
  \/ AddConnection(t) \/ RemoveConnection(t) \/ RemoveSignal(t) \/ RemoveReceiver(t)

EmitStep(t) ==
  \/ CallEmit(t) \/ LockEmit(t) \/ Count(t) \/ OutOfSemaphores(t) \/ BeginWalk(t)
  \/ Visit(t) \/ Execute(t) \/ ExecuteFails(t) \/ HandlerReturns(t)
  \/ Posts(t) \/ PostFails(t) \/ PostFaults(t) \/ EndEmit(t)

ObjectStep(t) ==
  \/ Receive(t) \/ Process(t) \/ DestroyPackage(t)
  \/ Destruct(t) \/ ClearOne(t) \/ Cleared(t) \/ Invalidate(t)

Next == \E t \in Threads : TableStep(t) \/ EmitStep(t) \/ ObjectStep(t)

Spec == Init /\ [][Next]_vars

GoesOn(t) == pc[t] # "idle" /\ (TableStep(t) \/ EmitStep(t) \/ ObjectStep(t))

\* A thread goes on with a call it is in: ThreadX runs every ready thread as long as
\* those above it block, and handlers return.
FairSpec == Spec /\ \A t \in Threads : WF_vars(GoesOn(t))

-------------------------------------------------------------------------------
Packages == [receiver : Receivers \cup {Null}, handle : {1, 2}, emission : 0 .. MaxEmits]
Operations ==
  [name : {"connect", "disconnect"}, signal : Signals, node : Connections]
    \cup [name : {"disconnect_signal", "emit"}, signal : Signals]
    \cup [name : {"disconnect_receiver"}, receiver : Objects]
Labels == {"idle", "lock", "wait", "write", "emit", "count", "walk", "visit", "execute", "handler",
           "post", "fault", "process", "serve", "clear", "invalidate"}

\* The variables have their types; a queue never holds more than a quarter of
\* the messages it was declared for (message_queue.hpp:60).
TypeOK ==
  /\ table \in [Signals -> Groups \cup {Null}]
  /\ free_groups \in Seq(Nat) /\ free_nodes \in 0 .. MaxNodes
  /\ Lock!TypeOK
  /\ life \in [Objects -> {"alive", "cleared", "invalid", "gone"}]
  /\ m_valid \in [Receivers -> BOOLEAN]
  /\ affinity \in [Receivers -> Threads \cup {Null}]
  /\ queue \in [Receivers -> Seq(Packages)]
  /\ \A r \in Receivers : Len(queue[r]) <= Capacity
  /\ pc \in [Threads -> Labels]
  /\ op \in [Threads -> Operations \cup {Null}]
  /\ rest \in [Threads -> Seq(Connections)]
  /\ current \in [Threads -> Packages \cup {Null}]
  /\ target \in [Threads -> QueueOwners \cup {Null}]
  /\ emission \in [Threads -> 0 .. MaxEmits]
  /\ total \in [1 .. MaxEmits -> Nat]
  /\ released \in [1 .. MaxEmits -> Nat]
  /\ owed \in [1 .. MaxEmits -> Nat]
  /\ connects \in 0 .. MaxConnects /\ emits \in 0 .. MaxEmits

Walking == {"visit", "execute", "handler", "post"}

\* The list an emission walks does not change under it: what it has yet to visit
\* is the end of the group's list, although connections are added at the front
\* and removed anywhere by other threads (signal_manager.hpp:358).
WalkSeesTable ==
  \A t \in Threads : pc[t] \in Walking => IsSuffix(rest[t], NodesOf(op[t].signal))

\* The total a blocking emission was given is still the group's count while it
\* walks: the two are read under different Read_Guards (signal_manager.hpp:1226).
TotalIsCurrent ==
  \A t \in Threads : pc[t] \in Walking /\ table[op[t].signal] # Null =>
    total[emission[t]] = table[op[t].signal].blocking_count

\* blocking_count is the number of a group's blocking connections, and what the
\* group found in its block: after any connects, disconnects, destroyed receivers
\* and destroyed signals it has not drifted (add_connection, remove_receiver).
CountFollows ==
  \A s \in Signals : table[s] # Null =>
    table[s].blocking_count = table[s].inherited + BlockingNodes(table[s].nodes)

\* What get_blocking_connection_count says it returns: the number of blocking
\* connections (signal_manager.hpp:301-304).
CountIsExact ==
  \A s \in Signals : table[s] # Null =>
    table[s].blocking_count = BlockingNodes(table[s].nodes)

\* The packages of emission e that have not released its semaphore yet, and the
\* blocking connections it has yet to visit.
Queued(e) ==
  {x \in Receivers \X (1 .. Capacity) :
     x[2] <= Len(queue[x[1]]) /\ queue[x[1]][x[2]].emission = e}
InHand(e) ==
  {t \in Threads : /\ pc[t] \in {"execute", "handler", "post", "fault", "process", "serve"}
                    /\ current[t].emission = e}
ToVisit(e) ==
  {x \in Threads \X (1 .. MaxNodes) :
     emission[x[1]] = e /\ x[2] <= Len(rest[x[1]]) /\ Blocks(rest[x[1]][x[2]])}

\* No blocking connection an emission met releases its semaphore twice, and none is
\* lost, although a package may stay in a queue for ever.  The release is made by a
\* handler that returned, a receiver found destroyed, a package that could not be
\* made or posted, or one that clear_signal threw away; until then it is yet to be
\* visited, in a thread's hands, or in a queue, be it one of an object that is gone
\* (execute_signal, clear_signal).
ReleasedOnce ==
  \A e \in 1 .. MaxEmits :
    released[e] + Cardinality(Queued(e)) + Cardinality(InHand(e)) + Cardinality(ToVisit(e))
      = owed[e]

\* No handler runs on an object whose destructor has returned, provided that the
\* thread that processes the object's signals destroys it: the read lock keeps
\* disconnect_receiver waiting while another thread's emission runs a handler, and
\* m_valid turns away the packages that are still queued (Signal_Data::execute,
\* ~Object_Base).
HandlerHasReceiver ==
  \A t \in Threads : pc[t] \in {"handler", "serve"} /\ current[t].receiver \in Objects =>
    life[current[t].receiver] # "gone"

\* A thread that wants to change the table gets to do so, unless an emission is
\* caught between the Read_Guard it has and the one it wants, which waits for that
\* very thread (signal_manager.hpp:1224, 316 and 349),
\* or a destructor cleared the affinity thread a package was to be posted to.
CaughtBetweenGuards(u) == pc[u] \in {"count", "walk"} /\ waiting # {}
WriterGetsTable ==
  \A t \in Threads :
    pc[t] = "wait" ~> pc[t] # "wait" \/ ~ NoFault \/ \E u \in Threads : CaughtBetweenGuards(u)
===============================================================================
