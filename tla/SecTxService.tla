---------------------------- MODULE SecTxService ----------------------------
(***************************************************************************)
(* What zwsec_send promises its callers: a message is refused, or it is    *)
(* accepted and its completion function is called with one status.  The    *)
(* messages accepted are dealt with in the order they were accepted in,    *)
(* and only a message that is the first of them may have been sent.        *)
(***************************************************************************)
EXTENDS Sequences, SequencesExt

CONSTANTS Msgs

VARIABLES
  line,     \* the messages accepted and not reported yet, the oldest first
  outcome   \* what every message has come to

svc_vars == <<line, outcome>>

SvcInit == line = <<>> /\ outcome = [m \in Msgs |-> "new"]

Refuse(m) ==
  /\ outcome[m] = "new"
  /\ outcome' = [outcome EXCEPT ![m] = "refused"]
  /\ UNCHANGED line

Accept(m) ==
  /\ outcome[m] = "new"
  /\ outcome' = [outcome EXCEPT ![m] = "accepted"]
  /\ line' = Append(line, m)

\* The first message has been sent and is reported with status s; the k messages
\* behind it cannot be sent and are reported with an error in the same step.
Report(s, k) ==
  /\ k < Len(line)
  /\ line' = SubSeq(line, k + 2, Len(line))
  /\ LET failed == {line[i] : i \in 2 .. k + 1}
     IN outcome' = [m \in Msgs |-> IF m = line[1] THEN s
                                   ELSE IF m \in failed THEN "error" ELSE outcome[m]]

SomeReport == \E s \in {"ok", "error"} : \E k \in 0 .. Len(line) - 1 : Report(s, k)

SvcNext == (\E m \in Msgs : Refuse(m) \/ Accept(m)) \/ SomeReport

SvcSpec == SvcInit /\ [][SvcNext]_svc_vars /\ WF_svc_vars(SomeReport)
===========================================================================
