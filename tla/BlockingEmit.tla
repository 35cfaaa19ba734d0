---------------------------- MODULE BlockingEmit ----------------------------
(***************************************************************************)
(* How a blocking emission waits (src/api/system/signal/signal.hpp): the   *)
(* two loops of Signal::emit and Signal::operator(), and the releases by   *)
(* the threads that process the packages (Signal_Blocking_Data::release).  *)
(* Emitter and handlers share the Signal_Semaphore, whose fields only the  *)
(* semaphore itself guards, and whose block goes back to a pool of 32.     *)
(*                                                                         *)
(* SignalManager has the walk that posts the packages; here a blocking     *)
(* emission posts one to each of some threads at once.                     *)
(***************************************************************************)
EXTENDS Integers, Sequences, FiniteSets

CONSTANTS Servers,    \* the threads that process packages
          Blocks,     \* the blocks of m_semaphore_pool
          NoBlock,
          Call,       \* the function called, "emit" or "operator()"
          Timeout,    \* its timeout argument, "finite" or "forever"
          MaxEmits    \* bound: the emissions

VARIABLES free,     \* the list of free blocks
          permits,  \* permits[b]: of b's semaphore
          total, used, is_timeout,   \* the other fields of b's Signal_Semaphore
          pc,       \* where the emitter is
          sem,      \* the emitter's block
          mine,     \* what the emitter read of used, in used++
          emits,    \* history: the emissions so far
          packages, \* packages[s]: the queue of server s
          at,       \* at[s]: where server s is
          package,  \* package[s]: the package it processes
          seen,     \* seen[s]: what s read of used, in used++
          handled,  \* history: handled[n]: the servers whose handler of emission n ended
          posted,   \* history: posted[n]: the servers emission n was posted to
          outcome   \* history: outcome[n]: how emission n's call came back

semaphore_vars == <<free, permits, total, used, is_timeout>>
emitter_vars == <<pc, sem, mine, emits, posted, outcome>>
server_vars == <<packages, at, package, seen, handled>>
vars == <<semaphore_vars, emitter_vars, server_vars>>

Goes(from, to) == pc = from /\ pc' = to
Moves(s, from, to) == at[s] = from /\ at' = [at EXCEPT ![s] = to]

-------------------------------------------------------------------------------
(* the emitter *)

Emit ==
  /\ emits < MaxEmits /\ free # <<>>
  /\ Goes("idle", IF Call = "emit" THEN "test" ELSE "acquire")
  /\ LET b == Head(free) IN
     \E S \in SUBSET Servers \ {{}} :
       /\ sem' = b
       /\ free' = Tail(free)
       /\ permits' = [permits EXCEPT ![b] = 0]
       /\ total' = [total EXCEPT ![b] = Cardinality(S)]
       /\ used' = [used EXCEPT ![b] = 0]
       /\ is_timeout' = [is_timeout EXCEPT ![b] = FALSE]
       /\ packages' = [s \in Servers |->
            IF s \in S THEN Append(packages[s], [block |-> b, emission |-> emits + 1])
            ELSE packages[s]]
       /\ posted' = [posted EXCEPT ![emits + 1] = S]
  /\ emits' = emits + 1
  /\ UNCHANGED <<mine, outcome, at, package, seen, handled>>

\* deallocate_semaphore, and the call returns what the walk returned.
ReturnsSuccess(from) ==
  /\ Goes(from, "idle")
  /\ free' = <<sem>> \o free
  /\ sem' = NoBlock
  /\ outcome' = [outcome EXCEPT ![emits] = "SUCCESS"]
  /\ UNCHANGED <<permits, total, used, is_timeout, mine, emits, posted, server_vars>>

\* while (sem->used != sem->total)
Test ==
  /\ pc = "test"
  /\ IF used[sem] = total[sem] THEN ReturnsSuccess("test")
     ELSE /\ Goes("test", "acquire")
          /\ UNCHANGED <<semaphore_vars, sem, mine, emits, posted, outcome, server_vars>>

\* sem->semaphore.acquire(timeout) succeeds; emit then counts it in used.
Acquire ==
  /\ Goes("acquire", IF Call = "emit" THEN "add" ELSE "compare")
  /\ permits[sem] > 0
  /\ permits' = [permits EXCEPT ![sem] = @ - 1]
  /\ UNCHANGED <<free, total, used, is_timeout, sem, mine, emits, posted, outcome, server_vars>>

LoadUsed ==
  /\ Goes("add", "added")
  /\ mine' = used[sem]
  /\ UNCHANGED <<semaphore_vars, sem, emits, posted, outcome, server_vars>>

StoreUsed ==
  /\ Goes("added", "test")
  /\ used' = [used EXCEPT ![sem] = mine + 1]
  /\ mine' = 0
  /\ UNCHANGED <<free, permits, total, is_timeout, sem, emits, posted, outcome, server_vars>>

\* operator(): if (sem->total == sem->used) break;
Compare ==
  /\ pc = "compare"
  /\ IF used[sem] = total[sem] THEN ReturnsSuccess("compare")
     ELSE /\ Goes("compare", "acquire")
          /\ UNCHANGED <<semaphore_vars, sem, mine, emits, posted, outcome, server_vars>>

\* acquire times out, then the handlers are told who has to free the semaphore.
Expire ==
  /\ Timeout = "finite"
  /\ Goes("acquire", "expired")
  /\ permits[sem] = 0
  /\ UNCHANGED <<semaphore_vars, sem, mine, emits, posted, outcome, server_vars>>

GiveUp ==
  /\ Goes("expired", "idle")
  /\ is_timeout' = [is_timeout EXCEPT ![sem] = TRUE]
  /\ sem' = NoBlock
  /\ outcome' = [outcome EXCEPT ![emits] = "EMIT_TIMEOUT"]
  /\ UNCHANGED <<free, permits, total, used, mine, emits, posted, server_vars>>

-------------------------------------------------------------------------------
(* a thread in process_signal *)

Receive(s) ==
  /\ packages[s] # <<>>
  /\ Moves(s, "idle", "handler")
  /\ package' = [package EXCEPT ![s] = Head(packages[s])]
  /\ packages' = [packages EXCEPT ![s] = Tail(@)]
  /\ UNCHANGED <<semaphore_vars, emitter_vars, seen, handled>>

Handle(s) ==
  /\ Moves(s, "handler", "release")
  /\ handled' = [handled EXCEPT ![package[s].emission] = @ \cup {s}]
  /\ UNCHANGED <<semaphore_vars, emitter_vars, packages, package, seen>>

\* release: semaphore->semaphore.release(), used++, and the look at is_timeout.
Release(s) ==
  /\ Moves(s, "release", "load")
  /\ permits' = [permits EXCEPT ![package[s].block] = @ + 1]
  /\ UNCHANGED <<free, total, used, is_timeout, emitter_vars, packages, package, seen, handled>>

Load(s) ==
  /\ Moves(s, "load", "store")
  /\ seen' = [seen EXCEPT ![s] = used[package[s].block]]
  /\ UNCHANGED <<semaphore_vars, emitter_vars, packages, package, handled>>

Store(s) ==
  /\ Moves(s, "store", "check")
  /\ used' = [used EXCEPT ![package[s].block] = seen[s] + 1]
  /\ seen' = [seen EXCEPT ![s] = 0]
  /\ UNCHANGED <<free, permits, total, is_timeout, emitter_vars, packages, package, handled>>

Check(s) ==
  LET b == package[s].block IN
  /\ Moves(s, "check", "idle")
  /\ free' = IF is_timeout[b] /\ used[b] = total[b] THEN <<b>> \o free ELSE free
  /\ UNCHANGED <<permits, total, used, is_timeout, emitter_vars, packages, package, seen, handled>>

-------------------------------------------------------------------------------
Init ==
  /\ free \in {f \in [1 .. Cardinality(Blocks) -> Blocks] : \A b \in Blocks : \E i \in DOMAIN f : f[i] = b}
  /\ permits = [b \in Blocks |-> 0]
  /\ total = [b \in Blocks |-> 0]
  /\ used = [b \in Blocks |-> 0]
  /\ is_timeout = [b \in Blocks |-> FALSE]
  /\ pc = "idle" /\ sem = NoBlock /\ mine = 0 /\ emits = 0
  /\ packages = [s \in Servers |-> <<>>]
  /\ at = [s \in Servers |-> "idle"]
  /\ package = [s \in Servers |-> [block |-> NoBlock, emission |-> 0]]
  /\ seen = [s \in Servers |-> 0]
  /\ handled = [n \in 1 .. MaxEmits |-> {}]
  /\ posted = [n \in 1 .. MaxEmits |-> {}]
  /\ outcome = [n \in 1 .. MaxEmits |-> "none"]

Serve(s) == Receive(s) \/ Handle(s) \/ Release(s) \/ Load(s) \/ Store(s) \/ Check(s)

Next ==
  \/ Emit \/ Test \/ Acquire \/ LoadUsed \/ StoreUsed \/ Compare \/ Expire \/ GiveUp
  \/ \E s \in Servers : Serve(s)

Spec == Init /\ [][Next]_vars

-------------------------------------------------------------------------------
\* A blocking connection waits (signal_base.hpp:23): when a call returns, and not
\* because of its timeout, every handler it was posted to has run.
ReturnMeansHandled ==
  \A n \in 1 .. MaxEmits : outcome[n] = "SUCCESS" => handled[n] = posted[n]

\* No block is free twice, or both free and in use by the emitter.
PoolIsSound ==
  /\ \A i, j \in 1 .. Len(free) : free[i] = free[j] => i = j
  /\ \A i \in 1 .. Len(free) : free[i] # sem
===============================================================================
