----------------------------- MODULE ByteChannel -----------------------------
(***************************************************************************)
(* What the output of a buffered stream device promises: the bytes it      *)
(* accepts come out one by one in that order, and the room of a byte is    *)
(* given to another one only after it came out.  Bytes are counted.        *)
(***************************************************************************)
EXTENDS Integers

CONSTANT Room   \* the bytes that may be inside

VARIABLES accepted,   \* how many went in
          sent,       \* how many came out
          released    \* how many gave their room back

vars == <<accepted, sent, released>>

Init == accepted = 0 /\ sent = 0 /\ released = 0

Accept ==
  /\ accepted' \in accepted + 1 .. released + Room
  /\ UNCHANGED <<sent, released>>

Send ==
  /\ sent < accepted
  /\ sent' = sent + 1
  /\ UNCHANGED <<accepted, released>>

Release ==
  /\ released' \in released + 1 .. sent
  /\ UNCHANGED <<accepted, sent>>

Next == Accept \/ Send \/ Release

Spec == Init /\ [][Next]_vars
===============================================================================
