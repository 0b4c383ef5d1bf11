------------------------------- MODULE ZwLife -------------------------------
(* The start and the end of the library (zwnet_init and zwnet_exit in         *)
(* zw_api_network.c, zwsec_init, zwsec_exit, zwpoll_init, zwpoll_shutdown and *)
(* zwpoll_exit): what is acquired on the way up, what is given back when a    *)
(* step of it fails, and how the threads end before what they use goes.       *)
EXTENDS Integers, Sequences, SequencesExt, FiniteSets

CONSTANTS
  MaxBusy,           \* threads that have something to do at once: bound
  LifeFaults         \* "late": a thread has not begun when it is asked to stop, "slow": it
                     \* works for longer than the exit waits, "frame": a frame comes after the
                     \* queues were emptied, "secure": security is used until the end, "taken":
                     \* the callback thread is asked to stop with a request in its hands

LifeAssumption ==
  MaxBusy \in Nat /\ LifeFaults \subseteq {"late", "slow", "frame", "secure", "taken"}

VARIABLES
  secure,   \* the security layer is asked for
  at,       \* where the caller is: [in, k], in: "init", "up", "exit" or "out"
  held,     \* what is acquired and not given back
  run, sts, \* the threads' flags: to go on, and running
  thrd,     \* each thread: "none", "born", "waits", "works" or "gone"
  sems,     \* each thread's semaphore
  enabled   \* sec_enable and poll_enable
lifeVars == << secure, at, held, run, sts, thrd, sems, enabled >>

Workers == {"cmd_q", "wait_q", "exec", "cb"}
AllThreads == Workers \union {"poll_chk"}
Starting(b) ==
  /\ secure = b /\ at = [in |-> "init", k |-> 1] /\ held = {}
  /\ run = {} /\ sts = {} /\ enabled = {}
  /\ thrd = [t \in AllThreads |-> "none"] /\ sems = [t \in AllThreads |-> 0]
Init == \E b \in BOOLEAN : Starting(b)
-----------------------------------------------------------------------------
(* The way up.  What the first steps acquire, before anything else runs, is   *)
(* given back from the label they jump to on; everything later ends through   *)
(* zwnet_exit.                                                                 *)
Memory == << "dev_cfg", "groups", "sec_ctx", "poll_ctx", "plt", "mtx", "cmd_q_sem", "cmd_q_mtx",
             "exec_sem", "exec_mtx", "cb_sem", "cb_mtx", "wait_q_sem" >>
InitSteps == Memory \o << "hci", "node_info", "ctlr_info", "cmd_q", "wait_q", "exec", "cb",
                          "sec_init", "poll_init" >>
LabelOf(k) == IF k = 1 THEN 1 ELSE k - 1    \* label n gives back Memory[n] and all before it
UnwoundToTheNext(k) == {Memory[l] : l \in 1 .. k - 2}      \* mutated form of Unwound
Unwound(k) == {Memory[l] : l \in 1 .. LabelOf(k)}

Step == InitSteps[at.k]
Gets(s) ==
  CASE s = "sec_init" -> IF secure THEN {"sec_mtx", "sec_tick"} ELSE {}
    [] s = "poll_init" -> {"poll_mtx", "tmr_sem", "poll_tick"}
    [] s = "ctlr_info" -> {"nodes"}
    [] s = "sec_ctx" -> IF secure THEN {s} ELSE {}
    [] s \in ToSet(Memory) \union {"hci"} -> {s}
    [] OTHER -> {}
Begins(s) == IF s = "poll_init" THEN {"poll_chk"} ELSE {s} \intersect Workers
Turns(s) ==
  CASE s = "sec_init" /\ secure -> {"sec"} [] s = "poll_init" -> {"poll"} [] OTHER -> {}
Early == Len(Memory) + 1
Got(k) == UNION {Gets(InitSteps[j]) : j \in 1 .. k}
InitEarly ==
  /\ at.in = "init" /\ at.k = 1
  /\ held' = Got(Early) /\ at' = [at EXCEPT !.k = Early + 1]
  /\ UNCHANGED << secure, run, sts, thrd, sems, enabled >>
InitFailsEarly ==
  /\ at.in = "init" /\ at.k = 1
  /\ \E k \in 1 .. Early :
       (InitSteps[k] = "sec_ctx" => secure) /\ held' = Got(k - 1) \ Unwound(k)
  /\ at' = [in |-> "out", k |-> 0]
  /\ UNCHANGED << secure, run, sts, thrd, sems, enabled >>
InitStep ==
  /\ at.in = "init" /\ at.k > Early
  /\ held' = held \union Gets(Step) /\ enabled' = enabled \union Turns(Step)
  /\ run' = run \union Begins(Step)
  /\ thrd' = [t \in AllThreads |-> IF t \in Begins(Step) THEN "born" ELSE thrd[t]]
  /\ at' = IF at.k = Len(InitSteps) THEN [in |-> "up", k |-> 0] ELSE [at EXCEPT !.k = @ + 1]
  /\ UNCHANGED << secure, sts, sems >>
InitFailsLate ==
  /\ at.in = "init" /\ at.k > Early /\ (Step = "sec_init" => secure)
  /\ at' = [in |-> "exit", k |-> 1]
  /\ run' = run \union (Begins(Step) \intersect Workers)
  /\ held' \in {held, held \union (Gets(Step) \intersect {"nodes"})}
  /\ UNCHANGED << secure, sts, thrd, sems, enabled >>
-----------------------------------------------------------------------------
(* The threads.  Two of them look at their flag for each request as well,     *)
(* which they have taken out of the queue by then: only one of them frees it. *)
Still == UNCHANGED << secure, at, run, enabled >>
Same == Still /\ UNCHANGED held
ThreadStarts(t) ==
  /\ thrd[t] = "born"
  /\ thrd' = [thrd EXCEPT ![t] = "waits"] /\ sts' = sts \union {t}
  /\ Same /\ UNCHANGED sems
Ends(t) == thrd' = [thrd EXCEPT ![t] = "gone"] /\ sts' = sts \ {t}
ThreadWakes(t) ==
  /\ thrd[t] = "waits" /\ sems[t] > 0 /\ sems' = [sems EXCEPT ![t] = @ - 1]
  /\ IF t \in run THEN thrd' = [thrd EXCEPT ![t] = "works"] /\ UNCHANGED sts ELSE Ends(t)
  /\ Same
Dropped(t) == IF t = "cb" THEN {"cb_req"} ELSE {}
ThreadIsDone(t) ==
  /\ thrd[t] = "works"
  /\ \/ thrd' = [thrd EXCEPT ![t] = "waits"] /\ UNCHANGED << sts, held >>
     \/ /\ t \in {"exec", "cb"} \ run /\ (t = "cb" => "taken" \in LifeFaults)
        /\ Ends(t) /\ held' = held \union Dropped(t)
  /\ Still /\ UNCHANGED sems

(* What makes them work: calls of the application, frames and ticks.          *)
Requests == [t \in Workers |->
  CASE t = "cmd_q" -> "cmd_reqs" [] t = "wait_q" -> "wait_reqs" [] t = "exec" -> "exec_reqs"
    [] t = "cb" -> "cb_reqs"]
Queued(ts) == {Requests[t] : t \in ts \intersect Workers}
Flushed == at.in = "exit" /\ at.k > 6
Work(t) ==
  /\ "hci" \in held /\ sems[t] = 0
  /\ Cardinality({u \in AllThreads \ {t} : sems[u] > 0 \/ thrd[u] = "works"}) < MaxBusy
  /\ t = "poll_chk" => "poll_tick" \in held
  /\ t = "exec" \/ (at.in # "init" /\ ~Flushed) \/ "frame" \in LifeFaults
  /\ sems' = [sems EXCEPT ![t] = 1] /\ held' = held \union Queued({t})
  /\ UNCHANGED << secure, at, run, sts, thrd, enabled >>
PowerTimerStarts ==
  /\ at.in = "up" /\ held' = held \union {"power_tmr"}
  /\ UNCHANGED << secure, at, run, sts, thrd, sems, enabled >>
-----------------------------------------------------------------------------
(* The way down.                                                              *)
ExitCalled ==
  /\ at.in = "up" /\ at' = [in |-> "exit", k |-> 1]
  /\ UNCHANGED << secure, held, run, sts, thrd, sems, enabled >>
ExitSteps == << "stop", "cmd_q", "wait_q", "exec", "cb", "flush", "sec_exit", "poll_shutdown",
                "poll_chk", "hci_exit", "poll_exit", "free" >>
Doing(s) == at.in = "exit" /\ ExitSteps[at.k] = s
Goes == at' = IF at.k = Len(ExitSteps) THEN [in |-> "out", k |-> 0] ELSE [at EXCEPT !.k = @ + 1]
Keep == UNCHANGED << secure, sts, thrd, enabled >>
TellsTheFlags(ts) == run' = run \ ts /\ UNCHANGED sems      \* mutated form of Tells
Tells(ts) ==
  run' = run \ ts /\ sems' = [t \in AllThreads |-> sems[t] + (IF t \in ts THEN 1 ELSE 0)]
Frees(what) == held' = held \ what /\ UNCHANGED << run, sems >>
ExitStops ==
  Doing("stop") /\ held' = held \ {"power_tmr"} /\ Tells(Workers) /\ Goes /\ Keep

(* The exit waits until the status tells that a thread is gone, or for some   *)
(* seconds.                                                                    *)
Stuck(t) == thrd[t] = "waits" /\ sems[t] = 0
ExitWaits ==
  \E t \in AllThreads :
    /\ Doing(t)
    /\ t \notin sts \/ Stuck(t) \/ "slow" \in LifeFaults
    /\ thrd[t] # "born" \/ "late" \in LifeFaults
    /\ Goes /\ Keep /\ UNCHANGED << held, run, sems >>
ExitFlushes ==
  /\ Doing("flush") /\ Frees(Queued({"cmd_q", "wait_q", "cb"}))
  /\ Goes /\ Keep
ExitSecures ==
  /\ Doing("sec_exit") /\ Frees(IF "sec" \in enabled THEN {"sec_mtx", "sec_tick"} ELSE {})
  /\ Goes /\ Keep
ExitShutsPoll ==
  /\ Doing("poll_shutdown") /\ Goes /\ Keep
  /\ IF "poll" \in enabled THEN held' = held \ {"poll_tick"} /\ Tells({"poll_chk"})
     ELSE UNCHANGED << held, run, sems >>
ExitCloses == Doing("hci_exit") /\ Frees({"hci"}) /\ Goes /\ Keep
ExitPolls ==
  /\ Doing("poll_exit") /\ Goes /\ Keep
  /\ Frees({"nodes"} \union Queued({"exec"})
           \union IF "poll" \in enabled THEN {"poll_mtx", "tmr_sem"} ELSE {})
ExitFrees ==
  /\ Doing("free") /\ Goes /\ Keep
  /\ Frees({"groups", "wait_q_sem", "cmd_q_sem", "exec_sem", "cb_sem", "cmd_q_mtx", "mtx",
            "exec_mtx", "cb_mtx", "plt", "dev_cfg", "poll_ctx", "sec_ctx"})

Next ==
  \/ InitEarly \/ InitFailsEarly \/ InitStep \/ InitFailsLate \/ PowerTimerStarts \/ ExitCalled
  \/ \E t \in AllThreads : ThreadStarts(t) \/ ThreadWakes(t) \/ ThreadIsDone(t) \/ Work(t)
  \/ ExitStops \/ ExitWaits \/ ExitFlushes \/ ExitSecures \/ ExitShutsPoll \/ ExitCloses
  \/ ExitPolls \/ ExitFrees
Spec == Init /\ [][Next]_lifeVars
-----------------------------------------------------------------------------
Uses(t) ==
  CASE t = "cmd_q" -> {"plt", "mtx", "cmd_q_mtx", "cmd_q_sem"}
    [] t = "wait_q" -> {"plt", "mtx", "wait_q_sem"}
    [] t = "exec" -> {"plt", "mtx", "exec_mtx", "exec_sem", "hci"}
    [] t = "cb" -> {"plt", "cb_mtx", "cb_sem"}
    [] t = "poll_chk" ->
         {"plt", "mtx", "poll_mtx", "tmr_sem", "hci"}
         \union IF "sec" \in enabled /\ "secure" \in LifeFaults THEN {"sec_mtx"} ELSE {}

(* Nothing is given back while a thread that uses it, or a frame that is      *)
(* received, may still come.                                                  *)
UsedWhileThere ==
  /\ \A t \in AllThreads : thrd[t] \in {"born", "waits", "works"} => Uses(t) \subseteq held
  /\ "hci" \in held => {"plt", "mtx", "exec_mtx", "exec_sem", "cb_mtx", "cb_sem", "wait_q_sem"} \subseteq held

(* Whichever step of the start failed, and after the end, nothing is left:    *)
(* no lock, timer, list or thing acquired on the way up, no queue, and no     *)
(* request that a thread had in its hands.                                     *)
NothingLeft == at.in = "out" => held = {}
=============================================================================
