------------------------------- MODULE ZwExec -------------------------------
(***************************************************************************)
(* Sending commands to one node, src/zw_api_base.c.  zwif_exec_ex sends a  *)
(* command at once or puts it into one of two queues of its node:          *)
(*                                                                         *)
(*   - wait_cmd_q of a node that has to be woken by a beam: the report of  *)
(*     one GET is waited for (wait_rpt_flg) before the next command goes,  *)
(*     sent then by zwnode_wait_q_thrd;                                    *)
(*   - mul_cmd_q: commands of the interface functions (cmd_num is not 0)   *)
(*     for a sleeping node, sent by zwnode_cmd_q_thrd when it wakes up,    *)
(*     or to be put together in a multi command, sent by a timer.          *)
(*                                                                         *)
(* A thread keeps nw->mtx from the lookup of the node to the decision; the *)
(* transmission follows without it, and is taken here for one step with    *)
(* its result.  A callback that only informs the user is left out.         *)
(***************************************************************************)
EXTENDS Integers, Sequences, FiniteSets, SequencesExt

CONSTANTS
  Gets,      \* commands that ask for a report
  Sets,      \* commands that do not
  Kinds,     \* nodes to consider, see KindType
  FrameMax,  \* commands that a multi command holds
  Races,     \* what may happen: "cmd_num" (another thread between zwif_cmd_id_set and zwif_exec),
             \* "cancel" of queued GETs, "ctl_on" (zwnode_mul_cmd_ctl_set with commands queued)
  MaxCalls,  \* bound: commands
  MaxCtls    \* bound: changes of the node's settings

KindType == [beam : BOOLEAN, sleep_cap : BOOLEAN, mul_cmd_cap : BOOLEAN]

\* A node that listens for a beam does not sleep.
ASSUME ExecAssumption ==
  /\ Gets \cap Sets = {} /\ Kinds \subseteq KindType /\ \A k \in Kinds : ~ (k.beam /\ k.sleep_cap)
  /\ Races \subseteq {"cmd_num", "cancel", "ctl_on"}
  /\ FrameMax \in Nat \ {0} /\ MaxCalls \in Nat /\ MaxCtls \in Nat

VARIABLES
  kind,    \* what the node is
  n,       \* the node and the requests for it, protected by nw->mtx; see NodeType
  air,     \* transmissions whose status goes to zwnode_wait_tx_cb
  late,    \* expired timers whose callbacks wait for nw->mtx
  named,   \* an interface function has called zwif_cmd_id_set, zwif_exec follows
  wait_q_thrd, cmd_q_thrd, \* the threads: what they do, and with which commands
  cmd_q_req,   \* queues of nodes that woke up, for zwnode_cmd_q_thrd
  calls, ctls, \* commands and changes of settings so far
  taken, done  \* observation: commands taken on; those sent, given up or cancelled

exec_vars == <<kind, n, air, late, named, wait_q_thrd, cmd_q_thrd, cmd_q_req, calls, ctls, taken, done>>

Commands == Gets \cup Sets
Ids == 1 .. MaxCalls
Entry == [id : Ids, what : Commands, cmd_num : 0 .. 1, wait_rpt : BOOLEAN]
NoCommand == "NONE"
NodeType ==
  [there : BOOLEAN, wait_rpt_flg : BOOLEAN, wait_rpt : Gets \cup {NoCommand}, wait_cmd_q : Seq(Entry),
   cmd_num : 0 .. 1, mul_cmd_q : Seq(Entry), mul_cmd_ctl : BOOLEAN, enable_cmd_q : BOOLEAN,
   wait_tmr : BOOLEAN, mul_cmd_tmr : BOOLEAN, wait_q_req : Nat]

ExecTypeOK ==
  /\ kind \in Kinds /\ n \in NodeType /\ air \subseteq Ids /\ late \subseteq {"wait", "mul_cmd"}
  /\ named \in Commands \cup {NoCommand}
  /\ wait_q_thrd \in [at : {"idle", "serve", "send"}, cmd : Seq(Entry), retry_cnt : 0 .. 2]
  /\ Len(wait_q_thrd.cmd) = (IF wait_q_thrd.at = "send" THEN 1 ELSE 0)
  /\ cmd_q_thrd \in Seq(Entry) /\ cmd_q_req \in Seq(Seq(Entry))
  /\ calls \in 0 .. MaxCalls /\ ctls \in 0 .. MaxCtls /\ done \subseteq taken /\ taken \subseteq Ids

---------------------------------------------------------------------------
(* Parts of zwif_exec_ex.  An outcome is the node afterwards, the result,  *)
(* and the transmissions whose status is waited for.                       *)

Outcome(x, r, a) == [node |-> x, res |-> r, air |-> a]
\* ZW_ERR_NONE and ZW_ERR_QUEUED are not negative.
Accepts(o) == o.res \in {"sent", "queued", "duplicate"}

\* zwnode_wait_rpt_tmout_cb, also by way of zwnode_wait_rpt_flg_clr
WaitRptTmout(x) ==
  [x EXCEPT !.wait_tmr = FALSE, !.wait_rpt_flg = FALSE, !.wait_q_req = @ + 1]

\* zwif_multi_cmd_cmp
Same(e, f) == e.what = f.what /\ e.cmd_num = f.cmd_num
InQueue(q, e) == \E i \in DOMAIN q : Same(q[i], e)

\* Put into wait_cmd_q, of which the thread is told in any case
WaitQueued(x, e) ==
  LET y == [x EXCEPT !.wait_q_req = @ + 1]
  IN  IF InQueue(x.wait_cmd_q, e) THEN Outcome(y, "duplicate", {})
      ELSE Outcome([y EXCEPT !.wait_cmd_q = Append(@, e)], "queued", {})

\* Put into mul_cmd_q
MulQueued(x, e) ==
  LET y == [x EXCEPT !.mul_cmd_tmr = @ \/ (x.mul_cmd_ctl /\ ~ x.enable_cmd_q)]
  IN  IF InQueue(x.mul_cmd_q, e) THEN Outcome(y, "duplicate", {})
      ELSE Outcome([y EXCEPT !.mul_cmd_q = Append(@, e), !.wait_rpt_flg = @ \/ e.wait_rpt], "queued", {})

\* The transmission, by the security layer or by the application layer; an error takes
\* the flag back.
SendKeepsFlag(x, id, wait_rpt) ==  \* mutated form
  LET y == [x EXCEPT !.wait_rpt_flg = @ \/ wait_rpt]
  IN  {Outcome(y, "sent", IF wait_rpt THEN {id} ELSE {})} \cup {Outcome(y, r, {}) : r \in {"busy", "failed"}}
Send(x, id, wait_rpt) ==
  LET y == [x EXCEPT !.wait_rpt_flg = @ \/ wait_rpt]
  IN  {Outcome(y, "sent", IF wait_rpt THEN {id} ELSE {})}
        \cup {Outcome(IF wait_rpt THEN WaitRptTmout(y) ELSE y, r, {}) : r \in {"busy", "failed"}}

\* The end of zwif_exec_ex: mul_cmd_q, or the transmission
MulQ(x) == x.mul_cmd_ctl \/ x.enable_cmd_q
Queues(x, e) == MulQ(x) /\ e.cmd_num # 0

\* A command of an interface function (ZWIF_OPT_POLL: of the poll thread) that is not too
\* large, or of another part of the library; "poll" leaves cmd_num alone.
Exec(x, e, poll) ==
  LET reset == IF poll THEN x ELSE [x EXCEPT !.cmd_num = 0]
      get == e.what \in Gets
      awaits == [x EXCEPT !.wait_rpt = e.what]
      resets == [reset EXCEPT !.wait_rpt = e.what]
  IN  IF ~ x.there THEN {Outcome(x, "no_node", {})}
      ELSE IF kind.beam /\ (x.wait_rpt_flg \/ x.wait_cmd_q # <<>>) THEN {WaitQueued(reset, e)}
      ELSE IF kind.beam /\ get
           THEN IF Queues(x, e) THEN {MulQueued(resets, [e EXCEPT !.wait_rpt = TRUE])}
                ELSE Send(awaits, e.id, TRUE)
      ELSE IF Queues(x, e) THEN {MulQueued(reset, e)} ELSE Send(x, e.id, FALSE)

\* ZWIF_OPT_SKIP_WK_BEAM, ZWIF_OPT_CMD_ENTRY: a command of wait_cmd_q
ExecEntry(x, e) ==
  LET y == IF e.what \in Gets THEN [x EXCEPT !.wait_rpt = e.what] ELSE x
      f == [e EXCEPT !.wait_rpt = e.what \in Gets]
  IN  IF ~ x.there THEN {Outcome(x, "no_node", {})}
      ELSE IF Queues(x, f) THEN {MulQueued(y, f)} ELSE Send(y, e.id, f.wait_rpt)

\* ZWIF_OPT_SKIP_ALL_IMD
ExecImd(x, e, wait_rpt) ==
  IF ~ x.there THEN {Outcome(x, "no_node", {})} ELSE Send(x, e.id, wait_rpt)

\* zwnode_mul_cmd_send: one command goes as it is; of several frames only the last one
\* waits for a report, with the first command it holds
WaitsForReport(q) == \E i \in DOMAIN q : q[i].wait_rpt
LastFrame(q) == q[FrameMax * ((Len(q) - 1) \div FrameMax) + 1]
MulCmdSend(x, q) ==
  IF q = <<>> THEN {Outcome(x, "sent", {})} ELSE ExecImd(x, LastFrame(q), WaitsForReport(q))

---------------------------------------------------------------------------
(* Calls.                                                                  *)

SeqIds(q) == {q[i].id : i \in DOMAIN q}
\* What a call comes to; a command that is sent at once is done with.
Called(outcomes) ==
  \E o \in outcomes :
    /\ calls' = calls + 1 /\ n' = o.node /\ air' = air \cup o.air
    /\ taken' = IF o.res \in {"sent", "queued"} THEN taken \cup {calls + 1} ELSE taken
    /\ done' = IF o.res = "sent" THEN done \cup {calls + 1} ELSE done
NewEntry(w, k) == [id |-> calls + 1, what |-> w, cmd_num |-> k, wait_rpt |-> FALSE]

NoOtherThread == named = NoCommand \/ "cmd_num" \in Races

\* An interface function: zwif_cmd_id_set, and then zwif_exec, with a command that may be
\* too large, in which case cmd_num is left as it is
CmdIdSet(w) ==
  /\ named = NoCommand /\ calls < MaxCalls /\ n.there
  /\ named' = w /\ n' = [n EXCEPT !.cmd_num = 1]
  /\ UNCHANGED <<kind, air, late, wait_q_thrd, cmd_q_thrd, cmd_q_req, calls, ctls, taken, done>>
TooLarge(w) ==
  {Outcome(n, "too_large", {}) : k \in {w} \cap {s \in Sets : ~ (kind.beam /\ (n.wait_rpt_flg \/ n.wait_cmd_q # <<>>))}}
ApiExec ==
  /\ named # NoCommand /\ calls < MaxCalls /\ named' = NoCommand
  /\ Called(Exec(n, NewEntry(named, n.cmd_num), FALSE) \cup TooLarge(named))
  /\ UNCHANGED <<kind, late, wait_q_thrd, cmd_q_thrd, cmd_q_req, ctls>>
\* Another part of the library sends a command of its own.
LibExec(w) ==
  /\ calls < MaxCalls /\ NoOtherThread
  /\ Called(Exec(n, NewEntry(w, n.cmd_num), FALSE))
  /\ UNCHANGED <<kind, late, named, wait_q_thrd, cmd_q_thrd, cmd_q_req, ctls>>
\* zwpoll_cmd_send
PollExec(w) ==
  /\ calls < MaxCalls /\ w \in Gets
  /\ Called(Exec(n, NewEntry(w, 1), TRUE))
  /\ UNCHANGED <<kind, late, named, wait_q_thrd, cmd_q_thrd, cmd_q_req, ctls>>

---------------------------------------------------------------------------
(* Reports, statuses and timers.                                           *)

\* zwnode_wait_rpt_chk; the node reports when it likes
Report(w) ==
  /\ n.there /\ n.wait_rpt_flg /\ n.wait_rpt = w
  /\ n' = WaitRptTmout(n)
  /\ UNCHANGED <<kind, air, late, named, wait_q_thrd, cmd_q_thrd, cmd_q_req, calls, ctls, taken, done>>

\* zwnode_wait_tx_cb: the timer is restarted, or there is nothing to wait for
WaitTxCb(id, ok) ==
  /\ id \in air /\ air' = air \ {id}
  /\ n' = IF ~ n.there THEN n ELSE IF ok THEN [n EXCEPT !.wait_tmr = TRUE] ELSE WaitRptTmout(n)
  /\ UNCHANGED <<kind, late, named, wait_q_thrd, cmd_q_thrd, cmd_q_req, calls, ctls, taken, done>>

WaitTmrExpires ==
  /\ n.wait_tmr /\ n' = [n EXCEPT !.wait_tmr = FALSE] /\ late' = late \cup {"wait"}
  /\ UNCHANGED <<kind, air, named, wait_q_thrd, cmd_q_thrd, cmd_q_req, calls, ctls, taken, done>>
WaitRptTmoutCb ==
  /\ "wait" \in late /\ late' = late \ {"wait"} /\ n' = WaitRptTmout(n)
  /\ UNCHANGED <<kind, air, named, wait_q_thrd, cmd_q_thrd, cmd_q_req, calls, ctls, taken, done>>

MulCmdTmrExpires ==
  /\ n.mul_cmd_tmr /\ n' = [n EXCEPT !.mul_cmd_tmr = FALSE] /\ late' = late \cup {"mul_cmd"}
  /\ UNCHANGED <<kind, air, named, wait_q_thrd, cmd_q_thrd, cmd_q_req, calls, ctls, taken, done>>
\* mul_cmd_q is sent, whatever becomes of its frames
Flushed(x) ==
  \E o \in MulCmdSend([x EXCEPT !.mul_cmd_q = <<>>, !.mul_cmd_tmr = FALSE], x.mul_cmd_q) :
    n' = o.node /\ air' = air \cup o.air /\ done' = done \cup SeqIds(x.mul_cmd_q)
MulCmdTmoutCb ==
  /\ "mul_cmd" \in late /\ late' = late \ {"mul_cmd"} /\ Flushed(n)
  /\ UNCHANGED <<kind, named, wait_q_thrd, cmd_q_thrd, cmd_q_req, calls, ctls, taken>>

---------------------------------------------------------------------------
(* zwnode_wait_q_thrd.                                                     *)

Idle == [at |-> "idle", cmd |-> <<>>, retry_cnt |-> 0]
Serving == [Idle EXCEPT !.at = "serve"]

WaitQRequest ==
  /\ wait_q_thrd.at = "idle" /\ n.wait_q_req > 0
  /\ n' = [n EXCEPT !.wait_q_req = @ - 1] /\ wait_q_thrd' = Serving
  /\ UNCHANGED <<kind, air, late, named, cmd_q_thrd, cmd_q_req, calls, ctls, taken, done>>

\* The next command leaves the queue, unless a report is waited for.
WaitQTake ==
  /\ wait_q_thrd.at = "serve"
  /\ IF ~ n.there \/ n.wait_rpt_flg \/ n.wait_cmd_q = <<>>
     THEN wait_q_thrd' = Idle /\ UNCHANGED n
     ELSE /\ wait_q_thrd' = [at |-> "send", cmd |-> <<Head(n.wait_cmd_q)>>, retry_cnt |-> 2]
          /\ n' = [n EXCEPT !.wait_cmd_q = Tail(@)]
  /\ UNCHANGED <<kind, air, late, named, cmd_q_thrd, cmd_q_req, calls, ctls, taken, done>>

\* Another node's turn after a GET, another try if the radio was busy, or the next command
AfterSend(t, o) ==
  IF Accepts(o) THEN IF t.cmd[1].what \in Gets THEN Idle ELSE Serving
  ELSE IF o.res = "busy" /\ t.retry_cnt > 1 THEN [t EXCEPT !.retry_cnt = @ - 1]
  ELSE Serving
WaitQSend ==
  /\ wait_q_thrd.at = "send"
  /\ \E o \in ExecEntry(n, wait_q_thrd.cmd[1]) :
       /\ n' = o.node /\ air' = air \cup o.air
       /\ wait_q_thrd' = AfterSend(wait_q_thrd, o)
       /\ done' = IF wait_q_thrd'.at = "send" \/ o.res = "queued" THEN done
                  ELSE done \cup {wait_q_thrd.cmd[1].id}
  /\ UNCHANGED <<kind, late, named, cmd_q_thrd, cmd_q_req, calls, ctls, taken>>

---------------------------------------------------------------------------
(* Waking up, and zwnode_cmd_q_thrd.                                       *)

\* zwif_cmd_dequeue, from the wake up notification
DequeuedTwice(x) == x  \* mutated form
Dequeued(x) == [x EXCEPT !.mul_cmd_q = <<>>]
CmdDequeue ==
  /\ kind.sleep_cap /\ n.there /\ n.mul_cmd_q # <<>>
  /\ cmd_q_req' = Append(cmd_q_req, n.mul_cmd_q) /\ n' = Dequeued(n)
  /\ UNCHANGED <<kind, air, late, named, wait_q_thrd, cmd_q_thrd, calls, ctls, taken, done>>

CmdQRequest ==
  /\ cmd_q_thrd = <<>> /\ cmd_q_req # <<>> /\ cmd_q_req' = Tail(cmd_q_req)
  /\ LET q == Head(cmd_q_req)
     IN  IF ~ n.there
         THEN done' = done \cup SeqIds(q) /\ UNCHANGED <<n, air, cmd_q_thrd>>
         ELSE IF n.mul_cmd_ctl
         THEN /\ \E o \in MulCmdSend(n, q) : n' = o.node /\ air' = air \cup o.air
              /\ done' = done \cup SeqIds(q) /\ UNCHANGED cmd_q_thrd
         ELSE cmd_q_thrd' = q /\ UNCHANGED <<n, air, done>>
  /\ UNCHANGED <<kind, late, named, wait_q_thrd, calls, ctls, taken>>
CmdQSend ==
  /\ cmd_q_thrd # <<>> /\ cmd_q_thrd' = Tail(cmd_q_thrd)
  /\ \E o \in ExecImd(n, Head(cmd_q_thrd), FALSE) : n' = o.node /\ air' = air \cup o.air
  /\ done' = done \cup {Head(cmd_q_thrd).id}
  /\ UNCHANGED <<kind, late, named, wait_q_thrd, cmd_q_req, calls, ctls, taken>>

---------------------------------------------------------------------------
(* Settings, and the end of the node.                                      *)

Ctl == n.there /\ ctls < MaxCtls /\ ctls' = ctls + 1
Discarded(q) == done' = done \cup SeqIds(q)

\* zwnode_mul_cmd_ctl_set: off sends what is queued; on drops it
MulCmdCtlSet(on) ==
  /\ Ctl /\ kind.mul_cmd_cap
  /\ IF on
     THEN /\ n.mul_cmd_q # <<>> => "ctl_on" \in Races
          /\ n' = [n EXCEPT !.mul_cmd_ctl = TRUE, !.mul_cmd_q = <<>>] /\ UNCHANGED <<air, done>>
     ELSE Flushed([n EXCEPT !.mul_cmd_ctl = FALSE])
  /\ UNCHANGED <<kind, late, named, wait_q_thrd, cmd_q_thrd, cmd_q_req, calls, taken>>

\* zwnode_cmd_q_ena_set
CmdQEnaSet(enable) ==
  /\ Ctl /\ kind.sleep_cap
  /\ n' = [n EXCEPT !.enable_cmd_q = enable, !.mul_cmd_q = IF enable THEN @ ELSE <<>>]
  /\ Discarded(IF enable THEN <<>> ELSE n.mul_cmd_q)
  /\ UNCHANGED <<kind, air, late, named, wait_q_thrd, cmd_q_thrd, cmd_q_req, calls, taken>>

\* zwnode_cmd_q_cancel
CmdQCancel ==
  /\ Ctl /\ n.mul_cmd_q # <<>> /\ (WaitsForReport(n.mul_cmd_q) => "cancel" \in Races)
  /\ n' = [n EXCEPT !.mul_cmd_q = <<>>] /\ Discarded(n.mul_cmd_q)
  /\ UNCHANGED <<kind, air, late, named, wait_q_thrd, cmd_q_thrd, cmd_q_req, calls, taken>>

NewNode ==
  [there |-> TRUE, wait_rpt_flg |-> FALSE, wait_rpt |-> NoCommand, wait_cmd_q |-> <<>>, cmd_num |-> 0,
   mul_cmd_q |-> <<>>, mul_cmd_ctl |-> FALSE, enable_cmd_q |-> FALSE, wait_tmr |-> FALSE,
   mul_cmd_tmr |-> FALSE, wait_q_req |-> 0]
\* zwnode_rm; a timer's callback that waits for nw->mtx would use the freed node
NodeRm ==
  /\ Ctl /\ late = {}
  /\ n' = [NewNode EXCEPT !.there = FALSE, !.wait_q_req = n.wait_q_req]
  /\ done' = done \cup SeqIds(n.wait_cmd_q) \cup SeqIds(n.mul_cmd_q)
  /\ UNCHANGED <<kind, air, late, named, wait_q_thrd, cmd_q_thrd, cmd_q_req, calls, taken>>

---------------------------------------------------------------------------

ExecInit ==
  /\ kind \in Kinds /\ n = [NewNode EXCEPT !.enable_cmd_q = kind.sleep_cap, !.mul_cmd_ctl = kind.mul_cmd_cap]
  /\ air = {} /\ late = {} /\ named = NoCommand /\ wait_q_thrd = Idle
  /\ cmd_q_thrd = <<>> /\ cmd_q_req = <<>> /\ calls = 0 /\ ctls = 0 /\ taken = {} /\ done = {}

TxStatus == \E id \in air, ok \in BOOLEAN : WaitTxCb(id, ok)
WaitQStep == WaitQRequest \/ WaitQTake \/ WaitQSend
CmdQStep == CmdQRequest \/ CmdQSend
ExecNext ==
  \/ \E w \in Commands : CmdIdSet(w) \/ LibExec(w) \/ PollExec(w) \/ Report(w)
  \/ ApiExec \/ TxStatus \/ WaitTmrExpires \/ WaitRptTmoutCb \/ MulCmdTmrExpires \/ MulCmdTmoutCb
  \/ WaitQStep \/ CmdDequeue \/ CmdQStep
  \/ \E on \in BOOLEAN : MulCmdCtlSet(on) \/ CmdQEnaSet(on)
  \/ CmdQCancel \/ NodeRm

ExecSpec == ExecInit /\ [][ExecNext]_exec_vars
\* Timers expire, their callbacks get the lock, threads run, transmissions end.
ExecFairSpec ==
  /\ ExecSpec /\ WF_exec_vars(TxStatus) /\ WF_exec_vars(WaitTmrExpires) /\ WF_exec_vars(WaitRptTmoutCb)
  /\ WF_exec_vars(MulCmdTmrExpires) /\ WF_exec_vars(MulCmdTmoutCb) /\ WF_exec_vars(WaitQStep)

---------------------------------------------------------------------------
(* Properties.                                                             *)

\* Each command taken on is in one place at most: in a queue, with a thread, or sent,
\* given up or cancelled; and none disappears on its way.
Places ==
  <<SeqIds(n.wait_cmd_q), SeqIds(wait_q_thrd.cmd), SeqIds(n.mul_cmd_q), SeqIds(cmd_q_thrd), done>>
    \o [i \in DOMAIN cmd_q_req |-> SeqIds(cmd_q_req[i])]
TakenOnce ==
  /\ taken = UNION {Places[i] : i \in DOMAIN Places}
  /\ \A i, j \in DOMAIN Places : i # j => Places[i] \cap Places[j] = {}

\* While a report is waited for, something will end the wait: the status of the
\* transmission, the timer, or a timer that will send the queued GET.
WaitEnds ==
  n.wait_rpt_flg =>
    \/ air # {} \/ n.wait_tmr \/ "wait" \in late
    \/ WaitsForReport(n.mul_cmd_q) /\ (n.mul_cmd_tmr \/ "mul_cmd" \in late)

\* The queue of a node that needs a beam is worked off, whatever becomes of each command.
WaitQDrains == n.wait_cmd_q # <<>> ~> n.wait_cmd_q = <<>>
=============================================================================
