------------------------------- MODULE ZwJobs -------------------------------
(* The work the library gives itself (zwnet_exec_thrd in zw_api_network.c):   *)
(* a node that resets itself is probed and, when it is silent, removed; a     *)
(* node whose firmware was updated is probed until it has restarted; the      *)
(* lifelines are set when the controller becomes the SIS.  The requests stand *)
(* in one queue which the thread empties each time it is woken; one that      *)
(* meets a network operation, or a NOP that cannot be sent yet, goes back to  *)
(* the end of the queue without waking anybody.  The thread sleeps between    *)
(* taking a request and looking at the network.                               *)
EXTENDS Integers, Sequences, SequencesExt, FiniteSets

CONSTANTS
  JobNodes,    \* the nodes' identifiers
  MaxPolls,    \* FW_UPDT_RESTART_POLL_MAX
  MaxNotes,    \* requests from outside: bound
  JobFaults    \* "send": a NOP or a command is refused, "removed": a restarting node is removed

Faulty == {"send", "removed"}
JobsAssumption == MaxPolls \in Nat \ {0} /\ MaxNotes \in Nat /\ JobFaults \subseteq Faulty

VARIABLES
  known,       \* the nodes of the network
  silent,      \* the nodes that answer nothing
  failing,     \* the chip's list of failing nodes
  exec_req, exec_sem,   \* the queue of requests and its semaphore
  awake, hand, \* the thread: it was woken; the request it took
  curr_op,     \* the network operation: "none", "rm_failed" or "other"
  failed_id,   \* the node that is being removed
  probe,       \* the NOP whose status is awaited: << >> or << request >>
  poll_tgt_cnt,\* a node's probes left
  due,         \* observation: restarts of a node that are to be told
  owed,        \* observation: nodes that said they reset themselves
  notes
jobVars == << known, silent, failing, exec_req, exec_sem, awake, hand, curr_op, failed_id,
              probe, poll_tgt_cnt, due, owed, notes >>

Req(act, n) == [action |-> act, node |-> n]
Nobody == [n \in JobNodes |-> 0]
Init ==
  /\ known = JobNodes /\ silent = {} /\ failing = {}
  /\ exec_req = << >> /\ exec_sem = 0 /\ awake = FALSE /\ hand = << >>
  /\ curr_op = "none" /\ failed_id = {} /\ probe = << >>
  /\ poll_tgt_cnt = Nobody /\ due = Nobody /\ owed = {} /\ notes = 0
-----------------------------------------------------------------------------
(* Requests from outside.                                                     *)
Posts(r) == exec_req' = Append(exec_req, r) /\ exec_sem' = exec_sem + 1
Notes == notes < MaxNotes /\ notes' = notes + 1
Chip == UNCHANGED << silent, failing >>
Net == UNCHANGED << known, curr_op, failed_id >>
Count(reqs, acts, n) ==
  Cardinality({k \in DOMAIN reqs : reqs[k].action \in acts /\ reqs[k].node = n})
Carried(acts, n) == Count(exec_req, acts, n) + Count(hand, acts, n) + Count(probe, acts, n)
Leaving(n) == n \in failed_id \/ Carried({"probe_failed", "rmv_failed"}, n) > 0
Apart(otherwise) == otherwise \/ "removed" \in JobFaults
DeviceResetLocally ==
  \E n \in known :
    /\ Apart(due[n] = 0)
    /\ Notes /\ Posts(Req("probe_failed", n)) /\ owed' = owed \union {n}
    /\ silent' \in {silent, silent \union {n}}
    /\ Net /\ UNCHANGED << failing, awake, hand, probe, poll_tgt_cnt, due >>
RestartTimeout ==
  \E n \in known :
    /\ Apart(~Leaving(n))
    /\ Notes /\ Posts(Req("probe_restart", n)) /\ due' = [due EXCEPT ![n] = @ + 1]
    /\ poll_tgt_cnt' = [poll_tgt_cnt EXCEPT ![n] = MaxPolls]
    /\ silent' \in {silent, silent \union {n}}
    /\ Net /\ UNCHANGED << failing, awake, hand, probe, owed >>
SucIdAssigned ==
  /\ Notes /\ Posts(Req("cfg_lifeline", 0))
  /\ Chip /\ Net /\ UNCHANGED << awake, hand, probe, poll_tgt_cnt, due, owed >>
-----------------------------------------------------------------------------
(* The thread.                                                                *)
World == UNCHANGED << silent, notes >>
Wakes ==
  /\ ~awake /\ exec_sem > 0 /\ exec_sem' = exec_sem - 1 /\ awake' = TRUE
  /\ World /\ Net /\ UNCHANGED << failing, exec_req, hand, probe, poll_tgt_cnt, due, owed >>
Takes ==
  /\ awake /\ hand = << >> /\ exec_req # << >>
  /\ hand' = << Head(exec_req) >> /\ exec_req' = Tail(exec_req)
  /\ World /\ Net /\ UNCHANGED << failing, exec_sem, awake, probe, poll_tgt_cnt, due, owed >>
Rests ==
  /\ awake /\ hand = << >> /\ exec_req = << >> /\ awake' = FALSE
  /\ World /\ Net
  /\ UNCHANGED << failing, exec_req, exec_sem, hand, probe, poll_tgt_cnt, due, owed >>

Has(act) == hand # << >> /\ hand[1].action = act
Kept == UNCHANGED << failing, exec_sem, awake, poll_tgt_cnt >>
Back == exec_req' = Append(exec_req, hand[1])
Restarted(n) == due' = [due EXCEPT ![n] = @ - 1]

(* zwnode_probe: sent, or the chip is still at another command.  Other        *)
(* commands than these come and go.                                           *)
Sent == probe = << >> /\ probe' = hand
ProbeFailedLost ==      \* mutated form of ProbeFailed
  /\ Has("probe_failed") /\ hand' = << >>
  /\ IF hand[1].node \notin known \/ curr_op # "none" THEN UNCHANGED << exec_req, probe, owed >>
     ELSE \/ Sent /\ UNCHANGED << exec_req, owed >>
          \/ Back /\ UNCHANGED << probe, owed >>
  /\ Kept /\ World /\ Net /\ UNCHANGED due
ProbeFailed ==
  /\ Has("probe_failed") /\ hand' = << >>
  /\ IF hand[1].node \notin known THEN UNCHANGED << exec_req, probe, owed >>
     ELSE IF curr_op # "none" THEN Back /\ UNCHANGED << probe, owed >>
     ELSE \/ Sent /\ UNCHANGED << exec_req, owed >>
          \/ Back /\ UNCHANGED << probe, owed >>
          \/ "send" \in JobFaults /\ UNCHANGED << exec_req, probe, owed >>
  /\ Kept /\ World /\ Net /\ UNCHANGED due

(* zwnet_fail: only what the chip lists is removed.                           *)
RemoveFailed ==
  /\ Has("rmv_failed") /\ hand' = << >>
  /\ LET n == hand[1].node IN
     IF n \notin known THEN UNCHANGED << exec_req, owed, curr_op, failed_id >>
     ELSE IF curr_op # "none" THEN Back /\ UNCHANGED << owed, curr_op, failed_id >>
     ELSE IF n \notin failing THEN owed' = owed \ {n} /\ UNCHANGED << exec_req, curr_op, failed_id >>
     ELSE \/ /\ curr_op' = "rm_failed" /\ failed_id' = {n}
             /\ UNCHANGED << exec_req, owed >>
          \/ "send" \in JobFaults /\ UNCHANGED << exec_req, owed, curr_op, failed_id >>
  /\ Kept /\ World /\ UNCHANGED << known, probe, due >>

(* A node that is no longer known is looked up all the same to report the     *)
(* failure: nothing follows, the program ends there.                          *)
ProbeRestart ==
  /\ Has("probe_restart") /\ hand[1].node \in known /\ hand' = << >>
  /\ IF curr_op # "none" THEN Back /\ UNCHANGED << probe, due >>
     ELSE \/ Sent /\ UNCHANGED << exec_req, due >>
          \/ Back /\ UNCHANGED << probe, due >>
          \/ Restarted(hand[1].node) /\ UNCHANGED << exec_req, probe >>
  /\ Kept /\ World /\ Net /\ UNCHANGED owed

CfgLifeline ==
  /\ Has("cfg_lifeline") /\ hand' = << >>
  /\ IF curr_op # "none" THEN Back ELSE UNCHANGED exec_req
  /\ Kept /\ World /\ Net /\ UNCHANGED << probe, due, owed >>
-----------------------------------------------------------------------------
(* The status of a NOP.  A node that does not acknowledge it gets into the    *)
(* chip's list.                                                               *)
Acknowledged(n) == n \notin silent
ProbeFailedStatus ==
  /\ probe # << >> /\ probe[1].action = "probe_failed" /\ probe' = << >>
  /\ LET n == probe[1].node IN
     IF Acknowledged(n)
     THEN owed' = owed \ {n} /\ failing' = failing \ {n} /\ UNCHANGED << exec_req, exec_sem >>
     ELSE Posts(Req("rmv_failed", n)) /\ failing' = failing \union {n} /\ UNCHANGED owed
  /\ World /\ Net /\ UNCHANGED << awake, hand, poll_tgt_cnt, due >>
ProbeRestartStatus ==
  /\ probe # << >> /\ probe[1].action = "probe_restart" /\ probe' = << >>
  /\ LET n == probe[1].node
         left == poll_tgt_cnt[n] - 1
     IN IF n \notin known THEN UNCHANGED << exec_req, exec_sem, poll_tgt_cnt, due, failing >>
        ELSE IF Acknowledged(n)
        THEN Restarted(n) /\ failing' = failing \ {n} /\ UNCHANGED << exec_req, exec_sem, poll_tgt_cnt >>
        ELSE /\ poll_tgt_cnt' = [poll_tgt_cnt EXCEPT ![n] = left] /\ failing' = failing \union {n}
             /\ IF left > 0 THEN Posts(probe[1]) /\ UNCHANGED due
                ELSE Restarted(n) /\ UNCHANGED << exec_req, exec_sem >>
  /\ World /\ Net /\ UNCHANGED << awake, hand, owed >>

(* zwnet_failed_id_rm_cb: removed, or the node is there after all.            *)
Forget(n) == known' = known \ {n} /\ owed' = owed \ {n} /\ failing' = failing \ {n}
Removed ==
  /\ curr_op = "rm_failed" /\ curr_op' = "none" /\ failed_id' = {}
  /\ \E n \in failed_id :
       IF n \in silent THEN Forget(n)
       ELSE owed' = owed \ {n} /\ failing' = failing \ {n} /\ UNCHANGED known
  /\ World
  /\ UNCHANGED << exec_req, exec_sem, awake, hand, probe, poll_tgt_cnt, due >>

(* Other network operations, nodes that are taken out of the network by       *)
(* another controller and those that answer again.                            *)
OperationBegins ==
  /\ curr_op = "none" /\ Notes /\ curr_op' = "other" /\ Chip
  /\ UNCHANGED << known, failed_id, exec_req, exec_sem, awake, hand, probe, poll_tgt_cnt, due, owed >>
OperationEnds ==
  /\ curr_op = "other" /\ curr_op' = "none" /\ Chip
  /\ UNCHANGED << known, failed_id, exec_req, exec_sem, awake, hand, probe, poll_tgt_cnt, due, owed,
                  notes >>
DeleteDone ==
  \E n \in known \ failed_id :
    /\ Apart(due[n] = 0)
    /\ Notes /\ Forget(n)
    /\ UNCHANGED << silent, curr_op, failed_id, exec_req, exec_sem, awake, hand, probe, poll_tgt_cnt,
                    due >>
AnswersAgain ==
  \E n \in silent :
    /\ silent' = silent \ {n} /\ Net
    /\ UNCHANGED << failing, exec_req, exec_sem, awake, hand, probe, poll_tgt_cnt, due, owed, notes >>

Next ==
  \/ DeviceResetLocally \/ RestartTimeout \/ SucIdAssigned
  \/ Wakes \/ Takes \/ Rests \/ ProbeFailed \/ RemoveFailed \/ ProbeRestart \/ CfgLifeline
  \/ ProbeFailedStatus \/ ProbeRestartStatus \/ Removed
  \/ OperationBegins \/ OperationEnds \/ DeleteDone \/ AnswersAgain
Spec == Init /\ [][Next]_jobVars
-----------------------------------------------------------------------------
(* A node that said it resets itself is on its way out of the network until   *)
(* it is out, answers, or is none the chip would remove; the thread does not   *)
(* sleep over the request that carries it; and a restart that is waited for is *)
(* told once: there is one probe for it until it is told, and none then.       *)
ResetIsFollowed ==
  /\ \A n \in owed : Leaving(n)
  /\ ~awake /\ exec_req # << >> => exec_sem > 0
  /\ \A n \in JobNodes : Carried({"probe_restart"}, n) = due[n]
=============================================================================
