---------------------------- MODULE HciCommands ----------------------------
(* The functions of lib/zw_hci_application.c that send the controller a       *)
(* command, by what tells them apart, and the completion functions the        *)
(* application gives them.  Each builds its command on the heap or the stack, *)
(* waits for the gate, calls ssn_cmd_snd, reads the response and returns with *)
(* snd_mtx released.  A completion function is kept in two places: with its   *)
(* parameter in cb_map under the function identifier of the command, for the  *)
(* callback frame, and in send_data_cb and snd_dat_cb_prm for the timeout.    *)
(* How a caller waits at the gate is HciAppl's subject and the frames of a    *)
(* command HciSession's: here the wait is a guard and ssn_cmd_snd two steps.  *)
EXTENDS Integers, Sequences

CONSTANTS
  Threads,    \* threads that call
  MaxCalls,   \* bound: calls
  MaxFuncId,  \* SESSION_FUNCID_MAX
  CmdFaults   \* "memory": calloc, "timer": plt_tmr_start

CommandsAssumption ==
  MaxCalls \in Nat /\ MaxFuncId \in Nat \ {0} /\ CmdFaults \subseteq {"memory", "timer"}

VARIABLES
  calls,         \* the calls so far: function, and whether a completion function is given
  results,       \* what they returned, "none" before
  within,        \* within[t]: << >>, or the call of t and how far it is
  answers,       \* environment: what the controller makes of the command
  wait_flg,      \* wait_cmd_cb and wait_nm_cb
  cb_tmr,        \* the call whose callback timer runs, 0 if none
  late_tmr,      \* calls whose timer has expired and whose timeout waits for snd_mtx
  send_data_cb, snd_dat_cb_prm,
  cb_map,        \* function identifier to command, completion function and parameter
  last_func_id,
  owing,         \* environment: callback frames the controller may send
  called         \* observation: the call of the application in this step, and with what
vars == << calls, results, within, answers, wait_flg, cb_tmr, late_tmr, send_data_cb,
           snd_dat_cb_prm, cb_map, last_func_id, owing, called >>
-----------------------------------------------------------------------------
(* What tells the functions apart: the command; which flag they set when it   *)
(* is accepted; whether the command is on the heap; who reads the callback    *)
(* frame; what parameter goes to cb_map; what is kept for the timeout; and    *)
(* how the response is read: as the result that an answer of 0 gives, as      *)
(* "value", as "measured" (a value, if it is long enough) or as "status".     *)
Heap(cmd, cb, resp) ==
  [cmd |-> cmd, gate |-> "none", locks |-> TRUE, heap |-> TRUE, cb |-> cb, prm |-> FALSE,
   kept |-> {}, resp |-> resp]
Asks(resp) == Heap("OTHER", "none", resp)
Stack(resp) == [Asks(resp) EXCEPT !.heap = FALSE]

zw_send_data ==
  [Heap("SEND_DATA", "send_data", "TX_Q_OVERFLOW") EXCEPT !.gate = "cmd", !.prm = TRUE, !.kept = {"cb", "prm"}]
Route(cmd) == [Heap(cmd, "generic", "ALREADY_ACTIVE") EXCEPT !.gate = "nm", !.kept = {"cb"}]
zw_assign_return_route ==
  [Route("ASSIGN_RETURN_ROUTE") EXCEPT !.prm = TRUE, !.kept = {"cb", "prm"}]
SucDelete == [Route("DELETE_RETURN_ROUTE") EXCEPT !.prm = TRUE]  \* mutated form
zw_delete_return_route ==
  [Route("DELETE_RETURN_ROUTE") EXCEPT !.prm = TRUE, !.kept = {"cb", "prm"}]
zw_assign_suc_return_route == Route("ASSIGN_SUC_RETURN_ROUTE")
zw_delete_suc_return_route == Route("DELETE_SUC_RETURN_ROUTE")

zw_request_network_update == Heap("REQUEST_NETWORK_UPDATE", "generic", "NOT_STARTED")
zw_set_suc_node_id == Heap("SET_SUC_NODE_ID", "generic", "NOT_STARTED")
zw_send_suc_id == Heap("SEND_SUC_ID", "generic", "NOT_STARTED")
zw_remove_failed_node_id == Heap("REMOVE_FAILED_NODE_ID", "generic", "status")
zw_replace_failed_node == Heap("REPLACE_FAILED_NODE", "generic", "status")
zw_replication_send == Heap("REPLICATION_SEND_DATA", "generic", "TX_Q_OVERFLOW")
zw_send_node_info == Heap("SEND_NODE_INFORMATION", "generic", "TX_Q_OVERFLOW")
zw_send_test_frame == [Heap("SEND_TEST_FRAME", "generic", "TX_Q_OVERFLOW") EXCEPT !.prm = TRUE]
zw_memory_put_buffer == [Heap("MEMORY_PUT_BUFFER", "cmplt", "MEMORY") EXCEPT !.prm = TRUE]
\* The parameter is the number of the node.
zw_request_node_neighbor_update ==
  [Heap("REQUEST_NODE_NEIGHBOR_UPDATE", "generic", "none") EXCEPT !.prm = TRUE]
zw_add_node_to_network == Heap("ADD_NODE_TO_NETWORK", "node_info", "none")
zw_remove_node_from_network == Heap("REMOVE_NODE_FROM_NETWORK", "node_info", "none")
zw_create_new_primary_ctrl == Heap("CREATE_NEW_PRIMARY", "node_info", "none")
zw_controller_change == Heap("CONTROLLER_CHANGE", "node_info", "none")
zw_set_learn_mode == Heap("SET_LEARN_MODE", "learn", "none")
zw_set_default == Heap("SET_DEFAULT", "default", "none")

application_node_info == Asks("none")
zw_enable_suc == Asks("value")
zw_is_failed_node == Asks("value")
zw_memory_get_buffer == Asks("value")
zw_get_suc_node_id == Stack("value")
zw_version == Stack("value")
zw_get_controller_capabilities == Stack("value")
zw_memory_get_id == Stack("value")
zw_get_node_protocol_info == Stack("value")
zw_get_random_word == Stack("value")
zw_serial_api_capabilities == Stack("measured")
zw_serial_api_get_init_data == Stack("measured")
zw_get_rf_powerlevel == Stack("measured")
zw_set_rf_powerlevel == Stack("measured")
zw_request_node_info == Stack("TX_Q_OVERFLOW")
\* A semicolon ends the test: every response gives the error.
zw_set_rf_receive_mode == Asks("any")
zw_soft_reset == Stack("none")
zw_replication_receive_complete == Stack("none")
zw_flash_auto_prog_mode == Stack("none")
zw_send_data_abort == [Stack("none") EXCEPT !.locks = FALSE]

Functions ==
  {zw_send_data, zw_assign_return_route, zw_delete_return_route, zw_assign_suc_return_route,
   zw_delete_suc_return_route, zw_request_network_update, zw_set_suc_node_id, zw_send_suc_id,
   zw_remove_failed_node_id, zw_replace_failed_node, zw_replication_send, zw_send_node_info,
   zw_send_test_frame, zw_memory_put_buffer, zw_request_node_neighbor_update,
   zw_add_node_to_network, zw_remove_node_from_network, zw_create_new_primary_ctrl,
   zw_controller_change, zw_set_learn_mode, zw_set_default, application_node_info, zw_enable_suc,
   zw_is_failed_node, zw_memory_get_buffer, zw_get_suc_node_id, zw_version,
   zw_get_controller_capabilities, zw_memory_get_id, zw_get_node_protocol_info,
   zw_get_random_word, zw_serial_api_capabilities, zw_serial_api_get_init_data,
   zw_get_rf_powerlevel, zw_set_rf_powerlevel, zw_request_node_info, zw_set_rf_receive_mode,
   zw_soft_reset, zw_replication_receive_complete, zw_flash_auto_prog_mode, zw_send_data_abort}

(* Which of its results a response gives: "no" is an answer of 0, "short" one *)
(* that a measured value is not read from (and that is not freed), and a      *)
(* status is anything but ZW_FAILED_NODE_REMOVE_STARTED, which is 0.          *)
Result(resp, a) ==
  CASE resp \in {"none", "value"} -> "OK"
    [] resp = "measured" -> IF a = "short" THEN "UNSET" ELSE "OK"
    [] resp = "any" -> "NOT_STARTED"
    [] resp = "status" -> IF a = "no" THEN "OK" ELSE "NOT_STARTED"
    [] OTHER -> IF a = "no" THEN resp ELSE "OK"
Refuses(f, a) == f.resp # "none" /\ (a = "no") = (f.resp # "status")
-----------------------------------------------------------------------------
Nobody == [cmd |-> "none", read |-> "none", cb |-> 0, prm |-> 0]
Init ==
  /\ calls = << >> /\ results = << >> /\ answers = << >> /\ within = [t \in Threads |-> << >>]
  /\ wait_flg = [g \in {"cmd", "nm"} |-> FALSE] /\ cb_tmr = 0 /\ late_tmr = {}
  /\ send_data_cb = 0 /\ snd_dat_cb_prm = 0
  /\ cb_map = [i \in 1 .. MaxFuncId |-> Nobody] /\ last_func_id = 0
  /\ owing = {} /\ called = {}

F(n) == calls[n].fn
Prm(n) == IF F(n).prm THEN n ELSE 0
Busy == {t \in Threads : within[t] # << >>}
SndMtxFree == \A t \in Busy : ~F(within[t][1]).locks
MayWait == wait_flg["cmd"] \/ wait_flg["nm"]
tmrVars == << wait_flg, cb_tmr, late_tmr >>
cbVars == << cb_map, last_func_id, owing >>

Returns(t, n, r) ==
  within' = [within EXCEPT ![t] = << >>] /\ results' = [results EXCEPT ![n] = r]

(* appl_wait_to_snd, the command's memory, and what is kept for the timeout.  *)
Enter(t) ==
  /\ t \notin Busy /\ Len(calls) < MaxCalls
  /\ \E f \in Functions : \E given \in IF f.cb = "none" THEN {FALSE} ELSE BOOLEAN :
       LET n == Len(calls) + 1
           waits == f.locks /\ MayWait
           Ends(r) == results' = Append(results, r) /\ UNCHANGED << within, send_data_cb, snd_dat_cb_prm >>
       IN
       /\ f.locks => SndMtxFree
       /\ calls' = Append(calls, [fn |-> f, given |-> given])
       /\ \/ waits /\ Ends("WAIT_CB")
          \/ ~waits /\ f.heap /\ "memory" \in CmdFaults /\ Ends("MEMORY")
          \/ /\ ~waits
             /\ within' = [within EXCEPT ![t] = << n, "enters" >>]
             /\ results' = Append(results, "none")
             /\ send_data_cb' = IF "cb" \notin f.kept THEN send_data_cb ELSE IF given THEN n ELSE 0
             /\ snd_dat_cb_prm' = IF "prm" \in f.kept THEN n ELSE snd_dat_cb_prm
  /\ answers' = Append(answers, "lost") /\ called' = {}
  /\ UNCHANGED << tmrVars, cbVars >>

(* The first half of ssn_cmd_snd: refused while another command is under way  *)
(* or by the frame layer, or sent, and registered in cb_map.                   *)
Send(t) ==
  /\ t \in Busy /\ within[t][2] = "enters"
  /\ LET n == within[t][1]
         f == F(n)
         id == IF f.cb = "none" THEN last_func_id
               ELSE IF last_func_id < MaxFuncId THEN last_func_id + 1 ELSE 1
         busy == \E u \in Busy : within[u][2] = "sent"
     IN
     \/ Returns(t, n, "SESSION") /\ UNCHANGED << cb_map, owing, answers >>
        /\ last_func_id' \in {last_func_id} \union (IF busy THEN {} ELSE {id})
     \/ /\ ~busy
        /\ within' = [within EXCEPT ![t][2] = "sent"] /\ last_func_id' = id
        /\ cb_map' = IF f.cb = "none" THEN cb_map
                     ELSE [cb_map EXCEPT ![id] =
                            [cmd |-> f.cmd, read |-> f.cb, cb |-> IF calls[n].given THEN n ELSE 0, prm |-> Prm(n)]]
        /\ \E a \in {"lost", "yes"} \union (IF f.resp = "none" THEN {} ELSE {"no"})
                               \union (IF f.resp = "measured" THEN {"short"} ELSE {}) :
             /\ answers' = [answers EXCEPT ![n] = a]
             /\ owing' = IF f.cb = "none" \/ a = "lost" \/ Refuses(f, a) THEN owing
                         ELSE owing \union {[id |-> id, cmd |-> f.cmd, gate |-> f.gate]}
        /\ UNCHANGED results
  /\ UNCHANGED << calls, tmrVars, send_data_cb, snd_dat_cb_prm >> /\ called' = {}

(* The second half: an error, or the response; and the end of the function,   *)
(* which sets the flag and starts the timer.                                   *)
Finish(t) ==
  /\ t \in Busy /\ within[t][2] = "sent"
  /\ LET n == within[t][1]
         f == F(n)
         r == Result(f.resp, answers[n])
     IN
     \/ Returns(t, n, "SESSION") /\ UNCHANGED tmrVars
     \/ /\ answers[n] # "lost" /\ Returns(t, n, r)
        /\ IF r = "OK" /\ f.gate # "none"
           THEN /\ wait_flg' = [wait_flg EXCEPT ![f.gate] = TRUE]
                /\ cb_tmr' \in {n} \union (IF "timer" \in CmdFaults THEN {0} ELSE {})
                /\ UNCHANGED late_tmr
           ELSE UNCHANGED tmrVars
  /\ UNCHANGED << calls, answers, send_data_cb, snd_dat_cb_prm, cbVars >> /\ called' = {}
-----------------------------------------------------------------------------
(* Frames of the controller, by how much they hold.  The callback thread runs *)
(* what the read thread queues for it; it reads nothing but what is queued, so *)
(* a frame and its handling are one step.                                      *)
Lengths == {1, 6}
Run(cb, prm, by) == [cb |-> cb, prm |-> prm, by |-> by]

(* What the reader of a frame asks of it before it calls the application: an  *)
(* update of 6 has the node's information, a shorter one says it has none.    *)
zw_send_data_cb(len) == len >= 2
zw_generic_cb(len) == len >= 2
zw_cmplt_cb(len) == len >= 1
zw_node_info_cb(len) == len >= 4
zw_set_learn_mode_cb(len) == len >= 4
zw_set_default_cb(len) == TRUE
Reports(read, len) ==
  CASE read = "send_data" -> zw_send_data_cb(len)
    [] read = "generic" -> zw_generic_cb(len)
    [] read = "cmplt" -> zw_cmplt_cb(len)
    [] read = "node_info" -> zw_node_info_cb(len)
    [] read = "learn" -> zw_set_learn_mode_cb(len)
    [] read = "default" -> zw_set_default_cb(len)

(* appl_unsolicited_cmd_cb: other commands, late callbacks among them, are    *)
(* dropped.                                                                    *)
appl_cmd_hdlr(len) == len >= 3
appl_updt(len) == len > 0
Unsolicited(cmd, len) ==
  IF \/ cmd = "APPLICATION_COMMAND_HANDLER" /\ appl_cmd_hdlr(len)
     \/ cmd = "ZW_APPLICATION_UPDATE" /\ appl_updt(len)
  THEN {Run(0, 0, cmd)} ELSE {}

(* A callback frame: zw_nm_cb ends the wait, and the callback thread gets the *)
(* completion function that cb_map has for its identifier and its command.    *)
CallbackFrame ==
  /\ \E e \in owing, len \in Lengths :
       LET c == cb_map[e.id] IN
       IF c.cmd = e.cmd
       THEN /\ called' = IF c.cb # 0 /\ Reports(c.read, len) THEN {Run(c.cb, c.prm, c.read)} ELSE {}
            /\ e.gate # "none" => SndMtxFree
            /\ IF e.gate # "none" /\ wait_flg[e.gate]
               THEN wait_flg' = [wait_flg EXCEPT ![e.gate] = FALSE] /\ cb_tmr' = 0
               ELSE UNCHANGED << wait_flg, cb_tmr >>
       ELSE called' = Unsolicited(e.cmd, len) /\ UNCHANGED << wait_flg, cb_tmr >>
  /\ UNCHANGED << calls, results, within, answers, late_tmr, send_data_cb, snd_dat_cb_prm, cbVars >>

(* The controller's own commands.                                              *)
UnsolicitedFrame ==
  /\ \E cmd \in {"APPLICATION_COMMAND_HANDLER", "ZW_APPLICATION_UPDATE"}, len \in Lengths :
       called' = Unsolicited(cmd, len)
  /\ UNCHANGED << calls, results, within, answers, tmrVars, send_data_cb, snd_dat_cb_prm, cbVars >>

Expire ==
  /\ cb_tmr # 0 /\ cb_tmr' = 0 /\ late_tmr' = late_tmr \union {cb_tmr}
  /\ UNCHANGED << calls, results, within, answers, wait_flg, send_data_cb, snd_dat_cb_prm, cbVars >> /\ called' = {}

(* appl_cb_tmout_cb and appl_nm_sts_tmout_cb.                                  *)
Timeout ==
  /\ SndMtxFree
  /\ \E n \in late_tmr :
       late_tmr' = late_tmr \ {n} /\ wait_flg' = [wait_flg EXCEPT ![F(n).gate] = FALSE]
  /\ cb_tmr' = 0
  /\ called' = IF send_data_cb = 0 THEN {}
               ELSE {Run(send_data_cb, snd_dat_cb_prm, "timeout")}
  /\ UNCHANGED << calls, results, within, answers, send_data_cb, snd_dat_cb_prm, cbVars >>

Next ==
  \/ \E t \in Threads : Enter(t) \/ Send(t) \/ Finish(t)
  \/ CallbackFrame \/ UnsolicitedFrame \/ Expire \/ Timeout
Spec == Init /\ [][Next]_vars
-----------------------------------------------------------------------------
(* A completion function is run with the parameter it was given with, by the  *)
(* kind of callback its function has, whichever of the two places it is taken *)
(* from and whoever has called in between; where none is given, the timeout   *)
(* hands over that of an earlier call.  A call that returned 0 has sent its   *)
(* command, the controller has it and did not refuse it.                      *)
ToldTrue ==
  /\ \A c \in called : c.cb # 0 =>
       /\ c.prm = Prm(c.cb) \/ (c.by = "timeout" /\ ~F(c.cb).prm)
       /\ c.by \in {F(c.cb).cb, "timeout"}
  /\ \A n \in DOMAIN calls : results[n] = "OK" =>
       /\ answers[n] # "lost"
       /\ F(n).resp \in {"none", "value", "measured"} \/ ~Refuses(F(n), answers[n])
=============================================================================
