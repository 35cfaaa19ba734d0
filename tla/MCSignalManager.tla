--------------------------- MODULE MCSignalManager ---------------------------
EXTENDS SignalManager, TLC

CONSTANTS c, p, obj

\* p is a thread with a signal queue, obj an object of p's; both kinds of blocking
\* connection, two handlers of one receiver, a global function.
MCConnections ==
  {[receiver |-> obj, handle |-> 1, type |-> "Blocking"],
   [receiver |-> obj, handle |-> 2, type |-> "Auto"],
   [receiver |-> Null, handle |-> 1, type |-> "Direct"]}
MCHome == obj :> p
===============================================================================
