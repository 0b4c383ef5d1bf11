------------------------------- MODULE ZwPoll -------------------------------
(***************************************************************************)
(* The poll facility, src/zw_poll.c: a queue of polling requests sorted by *)
(* node, from which one command at a time is sent.  A check thread looks   *)
(* at the queue on every timer tick and goes round it; when the report of  *)
(* the current poll arrives, the next request of the same node may follow  *)
(* at once.                                                                *)
(*                                                                         *)
(* All of this is under poll_mtx, which is kept while zwif_exec_ex sends;  *)
(* zwif_exec_ex takes nw->mtx.  zwnode_rm takes the two in the other       *)
(* order.  util_list_rm looks at the list before it takes the lock.        *)
(*                                                                         *)
(* A point in time is represented by what is left until then, with 0 for a *)
(* point that has passed; the 32-bit tick counter (68 years) is not.       *)
(***************************************************************************)
EXTENDS Integers, Sequences, FiniteSets, SequencesExt

CONSTANTS
  Requests,      \* what callers may ask to be polled
  NoRpt,         \* no report is expected
  MIN_POLL_TIME, CHECK_EXPIRY_INTERVAL,  \* in ticks
  HANDLE_MAX,    \* the last handle before handle_gen wraps to 0
  MaxCmdTm,      \* bound: ticks a transmission takes
  MaxSem,        \* bound: count of tmr_sem
  MaxTx          \* bound: transmissions whose status is still to come

Nodes == {r.node_id : r \in Requests}
Tokens == {r.usr_token : r \in Requests}
Rpts == {r.rpt : r \in Requests}
Handles == 1 .. HANDLE_MAX

ASSUME PollAssumption ==
  /\ \A r \in Requests : /\ DOMAIN r = {"node_id", "usr_token", "interval", "poll_cnt", "rpt"}
                         /\ r.node_id \in Nat \ {0}
                         /\ r.interval \in Nat \ {0} /\ r.poll_cnt \in Nat
  /\ NoRpt \notin Rpts
  /\ MIN_POLL_TIME \in Nat \ {0} /\ CHECK_EXPIRY_INTERVAL \in Nat \ {0}
  /\ HANDLE_MAX \in Nat \ {0}
  /\ MaxCmdTm \in Nat \ {0}
  /\ MaxSem \in Nat \ {0} /\ MaxTx \in Nat

VARIABLES
  poll_lst,       \* the queue; left is what remains until next_poll_tm
  next_left,      \* what remains until the facility's next_poll_tm
  tmr_sem,        \* timer tick events
  handle_gen,     \* last handle generated
  cur_node_id, cur_handle, cur_node_last,  \* the current poll
  cur_rpt,        \* the report it expects (cur_cmd_cls with cur_rpt)
  cur_cmd_tm,     \* how long its transmission took
  poll_mtx,       \* who keeps poll_mtx from one step to the next; "null_deref" when
                  \* a thread that has it has followed a null list head
  snd_pos,        \* the entry that zwpoll_cmd_send holds a pointer to
  nw_mtx,         \* the node zwnode_rm is removing, or 0
  rm_q,           \* removals between the emptiness test and the lock
  tx_pend         \* transmissions whose status is still to come

cur_vars == <<cur_node_id, cur_handle, cur_node_last, cur_rpt, cur_cmd_tm>>
poll_vars == <<poll_lst, next_left, tmr_sem, handle_gen, cur_vars, poll_mtx, snd_pos,
               nw_mtx, rm_q, tx_pend>>

Later(a, b) == IF a > b THEN a ELSE b

Entries == {e \in [req : Requests, handle : Handles, cnt_left : Nat, left : Nat] :
              e.cnt_left <= e.req.poll_cnt}

PollTypeOK ==
  /\ poll_lst \in Seq(Entries)
  /\ next_left \in Nat
  /\ tmr_sem \in 0 .. MaxSem
  /\ handle_gen \in 0 .. HANDLE_MAX
  /\ cur_node_id \in Nodes \cup {0} /\ cur_handle \in 0 .. HANDLE_MAX
  /\ cur_node_last \in BOOLEAN
  /\ cur_rpt \in Rpts \cup {NoRpt}
  /\ cur_cmd_tm \in 0 .. MaxCmdTm
  /\ poll_mtx \in {"free", "chk", "rpt", "null_deref"}
  /\ snd_pos \in Nat
  /\ nw_mtx \in Nodes \cup {0}
  /\ rm_q \subseteq Handles
  /\ tx_pend \in 0 .. MaxTx

\* zwpoll_init.
PollInit ==
  /\ poll_lst = <<>>
  /\ next_left = MIN_POLL_TIME
  /\ tmr_sem = 0
  /\ handle_gen = 0
  /\ cur_node_id = 0 /\ cur_handle = 0 /\ cur_node_last = FALSE
  /\ cur_rpt = NoRpt /\ cur_cmd_tm = 0
  /\ poll_mtx = "free" /\ snd_pos = 0
  /\ nw_mtx = 0
  /\ rm_q = {}
  /\ tx_pend = 0

---------------------------------------------------------------------------
(* The queue.                                                              *)

AnyTime == TRUE  \* mutated form
PollMtxFree == poll_mtx = "free"

NodeAt(i) == poll_lst[i].req.node_id
Expired(i) == poll_lst[i].left = 0
Positions == 1 .. Len(poll_lst)

\* The first of a set of positions, or the position after the last.
First(S) == CHOOSE i \in S \cup {Len(poll_lst) + 1} : \A j \in S : i <= j

\* What is left of the queue when only the entries at the positions K stay.
InOrder(K) == {f \in [1 .. Cardinality(K) -> K] : \A i, j \in DOMAIN f : i < j => f[i] < f[j]}
Keep(K) == \E f \in InOrder(K) : poll_lst' = [i \in DOMAIN f |-> poll_lst[f[i]]]

\* A new entry goes before the first one of a higher node.
InsertPos(node_id) == First({i \in Positions : NodeAt(i) > node_id})

\* ++handle_gen, 16 bits wide in the code.
NewHandle == handle_gen + 1

\* Where the check thread begins: after the current poll; at the next node if
\* the current poll is gone, or if its node has had its turn; at the head of
\* the queue when that leads past the end.
StartPos ==
  LET higher == {i \in Positions : NodeAt(i) > cur_node_id}
      cur == {i \in Positions : NodeAt(i) = cur_node_id /\ poll_lst[i].handle = cur_handle}
      after == IF cur = {} THEN First(higher) ELSE First(cur) + 1
      begin == IF cur_node_last THEN First(higher) ELSE after
  IN IF begin \in Positions THEN begin ELSE 1

\* Going round from position s, k entries further, until the entry it began with
\* (or one that looks like it) comes up again.
Around(s, k) == ((s + k - 1) % Len(poll_lst)) + 1
SameEntry(i, j) == NodeAt(i) = NodeAt(j) /\ poll_lst[i].handle = poll_lst[j].handle
VisitedButLast(s) == {k \in 0 .. Len(poll_lst) - 2 :
                        \A j \in 1 .. k : ~ SameEntry(Around(s, j), s)}  \* mutated form
Visited(s) == {k \in 0 .. Len(poll_lst) - 1 : \A j \in 1 .. k : ~ SameEntry(Around(s, j), s)}

\* The first expired entry on the way round, or 0.
FirstDue == LET s == StartPos
                due == {k \in Visited(s) : Expired(Around(s, k))}
            IN IF due = {} THEN 0 ELSE Around(s, CHOOSE k \in due : \A j \in due : k <= j)

\* The entries of the current node from its first one on, while they last.
DueOfNode == {i \in Positions : NodeAt(i) = cur_node_id /\ Expired(i)}

---------------------------------------------------------------------------
(* zwpoll_cmd_send: the caller by keeps poll_mtx.                          *)

BeginSend(by, i) ==
  /\ poll_mtx' = by
  /\ snd_pos' = i
  /\ cur_node_id' = NodeAt(i)
  /\ cur_handle' = poll_lst[i].handle
  /\ cur_node_last' = FALSE

Restarted(e) == [e EXCEPT !.left = Later(e.req.interval, MIN_POLL_TIME),
                          !.cnt_left = IF @ > 1 THEN @ - 1 ELSE @]

\* zwif_exec_ex gets nw->mtx, and sends, queues or fails; then the entry is
\* updated, and removed if it has been polled often enough.
EndSend ==
  /\ poll_mtx \in {"chk", "rpt"} /\ nw_mtx = 0
  /\ \/ tx_pend < MaxTx /\ tx_pend' = tx_pend + 1
     \/ UNCHANGED tx_pend
  /\ LET e == poll_lst[snd_pos]
     IN /\ cur_rpt' = e.req.rpt
        /\ poll_lst' = IF e.cnt_left = 1 THEN RemoveAt(poll_lst, snd_pos)
                       ELSE [poll_lst EXCEPT ![snd_pos] = Restarted(e)]
  /\ cur_cmd_tm' = 0
  /\ next_left' = MIN_POLL_TIME
  /\ poll_mtx' = "free"
  /\ snd_pos' = 0
  /\ UNCHANGED <<tmr_sem, handle_gen, cur_node_id, cur_handle, cur_node_last, nw_mtx, rm_q>>

---------------------------------------------------------------------------
(* The timer and the check thread.                                         *)

Sooner(t) == IF t > 0 THEN t - 1 ELSE 0

Tick ==
  /\ poll_lst' = [i \in Positions |-> [poll_lst[i] EXCEPT !.left = Sooner(@)]]
  /\ next_left' = Sooner(next_left)
  /\ tmr_sem' = IF tmr_sem < MaxSem THEN tmr_sem + 1 ELSE tmr_sem
  /\ UNCHANGED <<handle_gen, cur_node_id, cur_handle, cur_node_last, cur_rpt, cur_cmd_tm,
                 poll_mtx, snd_pos, nw_mtx, rm_q, tx_pend>>

ChkThrd ==
  /\ tmr_sem > 0 /\ PollMtxFree
  /\ tmr_sem' = tmr_sem - 1
  /\ \/ /\ next_left > 0
        /\ UNCHANGED <<next_left, cur_node_id, cur_handle, cur_node_last, poll_mtx, snd_pos>>
     \/ /\ next_left = 0 /\ FirstDue = 0
        /\ next_left' = IF poll_lst = <<>> THEN MIN_POLL_TIME ELSE CHECK_EXPIRY_INTERVAL
        /\ UNCHANGED <<cur_node_id, cur_handle, cur_node_last, poll_mtx, snd_pos>>
     \/ /\ next_left = 0 /\ FirstDue # 0
        /\ BeginSend("chk", FirstDue)
        /\ UNCHANGED next_left
  /\ UNCHANGED <<poll_lst, handle_gen, cur_rpt, cur_cmd_tm, nw_mtx, rm_q, tx_pend>>

---------------------------------------------------------------------------
(* Callbacks of the layers below.                                          *)

\* zwpoll_rpt_chk: the report that the current poll expects, which may also be
\* one that nobody asked for.  The flag cur_node_last is set when entries of
\* the node are in the queue, and none has expired.
RptChk ==
  /\ PollMtxFree
  /\ cur_rpt # NoRpt
  /\ cur_rpt' = NoRpt
  /\ next_left' = cur_cmd_tm + MIN_POLL_TIME
  /\ IF DueOfNode # {}
     THEN BeginSend("rpt", First(DueOfNode))
     ELSE /\ cur_node_last' = (cur_node_last \/ \E i \in Positions : NodeAt(i) = cur_node_id)
          /\ UNCHANGED <<cur_node_id, cur_handle, poll_mtx, snd_pos>>
  /\ UNCHANGED <<poll_lst, tmr_sem, handle_gen, cur_cmd_tm, nw_mtx, rm_q, tx_pend>>

\* zwpoll_tx_cb or zwpoll_beam_tx_cb: the status of the current poll, or of an
\* earlier one.
TxCb ==
  /\ tx_pend > 0 /\ PollMtxFree
  /\ tx_pend' = tx_pend - 1
  /\ \/ \E tm \in 1 .. MaxCmdTm : cur_cmd_tm' = tm /\ next_left' = tm + MIN_POLL_TIME
     \/ next_left' = MIN_POLL_TIME /\ UNCHANGED cur_cmd_tm
  /\ UNCHANGED <<poll_lst, tmr_sem, handle_gen, cur_node_id, cur_handle, cur_node_last,
                 cur_rpt, poll_mtx, snd_pos, nw_mtx, rm_q>>

---------------------------------------------------------------------------
(* The application's calls.                                                *)

\* zwpoll_add.  Bound: handle_gen does not wrap.
Add(r) ==
  /\ PollMtxFree
  /\ handle_gen < HANDLE_MAX
  /\ handle_gen' = NewHandle
  /\ poll_lst' = InsertAt(poll_lst, InsertPos(r.node_id),
                          [req |-> r, handle |-> NewHandle, cnt_left |-> r.poll_cnt,
                           left |-> r.interval])
  /\ IF poll_lst = <<>>
     THEN /\ next_left' = r.interval
          /\ cur_node_id' = r.node_id
          /\ cur_handle' = NewHandle
          /\ cur_rpt' = NoRpt
          /\ cur_node_last' = FALSE
     ELSE UNCHANGED <<next_left, cur_node_id, cur_handle, cur_rpt, cur_node_last>>
  /\ UNCHANGED <<tmr_sem, cur_cmd_tm, poll_mtx, snd_pos, nw_mtx, rm_q, tx_pend>>

others_of_rm == <<next_left, tmr_sem, handle_gen, cur_vars, snd_pos, tx_pend>>

\* zwpoll_rm: util_list_rm tests *head without the lock ...
Rm(h) ==
  /\ h <= handle_gen /\ rm_q = {}
  /\ poll_lst # <<>>
  /\ rm_q' = {h}
  /\ UNCHANGED <<others_of_rm, poll_lst, poll_mtx, nw_mtx>>

\* ... and dereferences it with the lock.
RmLocked(h) ==
  /\ h \in rm_q /\ PollMtxFree
  /\ rm_q' = rm_q \ {h}
  /\ LET i == First({j \in Positions : poll_lst[j].handle = h})
     IN poll_lst' = IF i \in Positions THEN RemoveAt(poll_lst, i) ELSE poll_lst
  /\ poll_mtx' = IF poll_lst = <<>> THEN "null_deref" ELSE poll_mtx
  /\ UNCHANGED <<others_of_rm, nw_mtx>>

\* zwpoll_rm_mul.
RmMul(token) ==
  /\ PollMtxFree
  /\ Keep({i \in Positions : poll_lst[i].req.usr_token # token})
  /\ UNCHANGED <<others_of_rm, poll_mtx, nw_mtx, rm_q>>

\* zwnode_rm, also zwnet_node_rm_all: with nw->mtx held, zwpoll_node_rm.
ZwnodeRm(node_id) ==
  /\ nw_mtx = 0
  /\ nw_mtx' = node_id
  /\ UNCHANGED <<others_of_rm, poll_lst, poll_mtx, rm_q>>

ZwpollNodeRm ==
  /\ nw_mtx # 0 /\ PollMtxFree
  /\ Keep({i \in Positions : NodeAt(i) # nw_mtx})
  /\ nw_mtx' = 0
  /\ UNCHANGED <<others_of_rm, poll_mtx, rm_q>>

---------------------------------------------------------------------------

PollNext ==
  \/ Tick \/ ChkThrd \/ EndSend \/ RptChk \/ TxCb
  \/ \E r \in Requests : Add(r)
  \/ \E t \in Tokens : RmMul(t)
  \/ \E h \in Handles : Rm(h) \/ RmLocked(h)
  \/ \E node_id \in Nodes : ZwnodeRm(node_id)
  \/ ZwpollNodeRm

PollSpec == PollInit /\ [][PollNext]_poll_vars

\* The timer, the check thread, a send and the removal of a node go on when
\* they get the mutex they need.
PollFairness == /\ WF_poll_vars(Tick) /\ WF_poll_vars(ChkThrd)
                /\ WF_poll_vars(EndSend) /\ WF_poll_vars(ZwpollNodeRm)

PollFairSpec == PollSpec /\ PollFairness

---------------------------------------------------------------------------
(* Properties.                                                             *)

\* The queue is sorted by node, which is what the search for a starting point
\* and the walk over one node's entries in zwpoll_rpt_chk rely on.
QueueSorted == \A i, j \in Positions : i < j => NodeAt(i) <= NodeAt(j)

\* Until handle_gen wraps, a handle names one request: removing by handle
\* removes the caller's own, and going round the queue ends where it began.
HandlesUnique ==
  \A i, j \in Positions : poll_lst[i].handle = poll_lst[j].handle => i = j

\* zwpoll_cmd_send's pointer is to an entry that is still in the queue when
\* zwif_exec_ex returns, although requests and nodes are removed meanwhile.
EntryInUse ==
  poll_mtx \in {"chk", "rpt"} =>
    snd_pos \in Positions /\ poll_lst[snd_pos].handle = cur_handle

\* poll_mtx and nw->mtx are each waited for by the holder of the other.
Stuck == poll_mtx \in {"chk", "rpt"} /\ nw_mtx # 0

DueRequest(h) == \E i \in Positions : poll_lst[i].handle = h /\ Expired(i)

\* The facility never falls asleep: while a request's time has come, one is
\* about to be sent, whatever reports, statuses, additions and removals have
\* moved next_poll_tm.
PollingGoesOn ==
  (\E i \in Positions : Expired(i)) ~>
    poll_mtx \in {"chk", "rpt", "null_deref"} \/ \A i \in Positions : ~ Expired(i)

---------------------------------------------------------------------------
(* What documents and comments say and the code does not do: the           *)
(* formulas below do not hold, and TLC shows how.                           *)

\* "interval: Polling interval in seconds": a request whose time has come is
\* polled or removed in the end, unless the two mutexes stop everything.
NoStarvation == \A h \in Handles : DueRequest(h) ~> ~ DueRequest(h) \/ Stuck

\* "zwnode_rm - Remove a node from the network": it returns.
NodeRmReturns == nw_mtx # 0 ~> nw_mtx = 0 \/ poll_mtx = "null_deref"

\* util_list_rm returns "non-zero on success, zero on failure": it does not
\* follow a null list head.
RmReturns == poll_mtx # "null_deref"
=============================================================================
