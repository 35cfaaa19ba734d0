----------------------------- MODULE MCRingBuffer -----------------------------
EXTENDS RingBuffer

\* Everything a caller can hand to write, up to one entry more than fits.
MCInputs == UNION {[1 .. k -> Data] : k \in 0 .. N}
===============================================================================
