-------------------------- MODULE ReadWriteExclusion --------------------------
(***************************************************************************)
(* What Read_Write_Lock promises its callers (the class comment of         *)
(* src/api/system/kernel/read_write_lock.hpp, lines 15-21):                *)
(*   1. several readers may hold the lock together;                        *)
(*   2. a writer holds it alone;                                           *)
(*   3. while a writer is waiting, no new reader is admitted.              *)
(* Nothing is said of semaphores, counters or mutexes.                     *)
(***************************************************************************)
CONSTANT Threads

VARIABLES readers,   \* the threads admitted for reading
          writers,   \* the threads admitted for writing
          waiting    \* the writers that have shut the readers out and wait

vars == <<readers, writers, waiting>>

TypeOK ==
  /\ readers \subseteq Threads
  /\ writers \subseteq Threads
  /\ waiting \subseteq Threads

Init ==
  /\ readers = {}
  /\ writers = {}
  /\ waiting = {}

BeginRead(t) ==
  /\ writers = {} /\ waiting = {}
  /\ readers' = readers \cup {t}
  /\ UNCHANGED <<writers, waiting>>

EndRead(t) ==
  /\ t \in readers
  /\ readers' = readers \ {t}
  /\ UNCHANGED <<writers, waiting>>

AnnounceWrite(t) ==
  /\ t \notin writers
  /\ waiting' = waiting \cup {t}
  /\ UNCHANGED <<readers, writers>>

BeginWrite(t) ==
  /\ t \in waiting
  /\ readers = {} /\ writers = {}
  /\ waiting' = waiting \ {t}
  /\ writers' = {t}
  /\ UNCHANGED readers

WithdrawWrite(t) ==
  /\ t \in waiting
  /\ waiting' = waiting \ {t}
  /\ UNCHANGED <<readers, writers>>

EndWrite(t) ==
  /\ t \in writers
  /\ writers' = writers \ {t}
  /\ UNCHANGED <<readers, waiting>>

Next ==
  \E t \in Threads :
    \/ BeginRead(t) \/ EndRead(t)
    \/ AnnounceWrite(t) \/ BeginWrite(t) \/ WithdrawWrite(t) \/ EndWrite(t)

Spec == Init /\ [][Next]_vars
===============================================================================
