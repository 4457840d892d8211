----------------------------- MODULE MCGpeEvents -----------------------------
\* Small instances of GpeEvents.
EXTENDS GpeEvents

OneBlock == <<2, 0>>

\* A method _L03
L03 == {[letter |-> "L", hi |-> 0, lo |-> 3]}
=============================================================================
