------------------------------ MODULE MCZwPoll ------------------------------
(* The poll facility for TLC: two requests on one node, one on another;    *)
(* unlimited, once and twice; intervals around MIN_POLL_TIME.              *)
EXTENDS ZwPoll

MCRequests ==
  {[node_id |-> 1, usr_token |-> 1, interval |-> 1, poll_cnt |-> 0, rpt |-> "level"],
   [node_id |-> 1, usr_token |-> 2, interval |-> 3, poll_cnt |-> 1, rpt |-> "level"],
   [node_id |-> 2, usr_token |-> 1, interval |-> 2, poll_cnt |-> 2, rpt |-> "level"]}
=============================================================================
