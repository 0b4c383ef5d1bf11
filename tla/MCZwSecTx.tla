----------------------------- MODULE MCZwSecTx -----------------------------
EXTENDS ZwSecTx

CONSTANTS a, b

\* A message in two frames and one in a single frame to the same node, and one that
\* is too long.
MCMsgs == {[id |-> 1, node |-> a, frames |-> 2, zero_key |-> FALSE],
           [id |-> 2, node |-> a, frames |-> 1, zero_key |-> TRUE],
           [id |-> 3, node |-> b, frames |-> 3, zero_key |-> FALSE]}
===========================================================================
