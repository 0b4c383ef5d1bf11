------------------------------ MODULE MCZwExec ------------------------------
EXTENDS ZwExec
Kind(b, s, m) == [beam |-> b, sleep_cap |-> s, mul_cmd_cap |-> m]
\* A node that needs a beam, one that sleeps and one that listens, with multi commands or not
MCKinds == {Kind(b, s, m) : b, s, m \in BOOLEAN} \ {Kind(TRUE, TRUE, m) : m \in BOOLEAN}
=============================================================================
