---------------------------- MODULE NetOpService ----------------------------
(***************************************************************************)
(* What the network layer promises its user of network operations: one is  *)
(* in progress at a time, each that is not aborted comes to an end, and    *)
(* the end of each is told once, after it.                                 *)
(***************************************************************************)
EXTENDS Integers

CONSTANT NetOps

VARIABLES
  op,     \* the operation in progress, or "NONE"
  owed    \* owed[o]: ends of operation o that the user has still to be told

svc_vars == <<op, owed>>

SvcInit ==
  /\ op \in {"NONE", "INITIALIZE"}
  /\ owed = [o \in NetOps |-> IF o = op THEN 1 ELSE 0]

Begin(o) == op = "NONE" /\ op' = o /\ owed' = [owed EXCEPT ![o] = @ + 1]
End == op # "NONE" /\ op' = "NONE" /\ UNCHANGED owed
Tell(o) ==
  /\ owed[o] > (IF op = o THEN 1 ELSE 0)
  /\ owed' = [owed EXCEPT ![o] = @ - 1] /\ UNCHANGED op
Abort == op # "NONE" /\ op' = "NONE" /\ owed' = [owed EXCEPT ![op] = @ - 1]

SvcNext == End \/ Abort \/ \E o \in NetOps : Begin(o) \/ Tell(o)
SvcSpec ==
  /\ SvcInit /\ [][SvcNext]_svc_vars
  /\ WF_svc_vars(End) /\ \A o \in NetOps : WF_svc_vars(Tell(o))
=============================================================================
