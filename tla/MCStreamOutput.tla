--------------------------- MODULE MCStreamOutput ---------------------------
EXTENDS StreamOutput

\* A write of one byte, one that wraps around, and one larger than the buffer.
MCSizes == {1, 2, 4}
===============================================================================
