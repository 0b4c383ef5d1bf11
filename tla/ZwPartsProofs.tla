--------------------------- MODULE ZwPartsProofs ---------------------------
(***************************************************************************)
(* Theorems about what the library does by itself: its start and end, the  *)
(* work it gives itself, the controller as another node sees it, the       *)
(* commands it gives the chip, the answers that come in several reports,   *)
(* and the values in commands and reports.  They share no state.  Each     *)
(* part has an invariant of its own, and a part that is not shown keeps    *)
(* its initial state.                                                      *)
(***************************************************************************)
EXTENDS ZwParts, TLAPS, SequenceTheorems, FiniteSetTheorems

---------------------------------------------------------------------------
(***************************************************************************)
(* The start and the end of the library.                                   *)
(*                                                                         *)
(* What each step of the exit gives back is not acquired again (GivenBack):*)
(* only the thread that executes requests gets any after the queues were   *)
(* emptied, and none once the chip's interface is closed.  A thread that is *)
(* told to end has something to wake it and a flag that it reads then, so   *)
(* that the exit does not pass it by (Told).                               *)
(***************************************************************************)

\* A step of the library's start and end, or of another part.
LEMMA LifeSteps ==
  [Next]_vars => /\ side' = side
                 /\ (side = "life" /\ L!Next) \/ UNCHANGED lifeVars
BY DEF Next, vars

LEMMA MemorySteps ==
  /\ Len(L!Memory) = 13 /\ Len(L!InitSteps) = 22 /\ L!Early = 14
  /\ \A j \in 1 .. 13 : L!InitSteps[j] = L!Memory[j]
  /\ L!InitSteps[14] = "hci"
BY DEF L!Memory, L!InitSteps, L!Early

LEMMA LateSteps ==
  /\ L!InitSteps[15] = "node_info" /\ L!InitSteps[16] = "ctlr_info" /\ L!InitSteps[17] = "cmd_q"
  /\ L!InitSteps[18] = "wait_q" /\ L!InitSteps[19] = "exec" /\ L!InitSteps[20] = "cb"
  /\ L!InitSteps[21] = "sec_init" /\ L!InitSteps[22] = "poll_init"
BY DEF L!Memory, L!InitSteps

LEMMA ExitStepNames ==
  /\ Len(L!ExitSteps) = 12
  /\ L!ExitSteps[1] = "stop" /\ L!ExitSteps[2] = "cmd_q" /\ L!ExitSteps[3] = "wait_q"
  /\ L!ExitSteps[4] = "exec" /\ L!ExitSteps[5] = "cb" /\ L!ExitSteps[6] = "flush"
  /\ L!ExitSteps[7] = "sec_exit" /\ L!ExitSteps[8] = "poll_shutdown"
  /\ L!ExitSteps[9] = "poll_chk" /\ L!ExitSteps[10] = "hci_exit"
  /\ L!ExitSteps[11] = "poll_exit" /\ L!ExitSteps[12] = "free"
BY DEF L!ExitSteps

\* What can be held: what the first steps acquire, and the rest.
Mem == {"dev_cfg", "groups", "sec_ctx", "poll_ctx", "plt", "mtx", "cmd_q_sem", "cmd_q_mtx",
        "exec_sem", "exec_mtx", "cb_sem", "cb_mtx", "wait_q_sem"}
SecThings == {"sec_mtx", "sec_tick"}
PollThings == {"poll_mtx", "tmr_sem"}
Flushable == {"cmd_reqs", "wait_reqs", "cb_reqs"}
Things == Mem \cup SecThings \cup PollThings \cup Flushable
          \cup {"hci", "nodes", "exec_reqs", "cb_req", "poll_tick", "power_tmr"}

\* The library is there: the start has come past its first steps.
Begun == at.in \in {"up", "exit"} \/ (at.in = "init" /\ at.k > 14)

LifeTypes ==
  /\ at \in [in : {"init", "up", "exit", "out"}, k : Nat]
  /\ held \subseteq Things /\ secure \in BOOLEAN
  /\ run \subseteq L!AllThreads /\ sts \subseteq L!AllThreads
  /\ thrd \in [L!AllThreads -> {"none", "born", "waits", "works", "gone"}]
  /\ sems \in [L!AllThreads -> Nat] /\ enabled \subseteq {"sec", "poll"}
  /\ at.in = "init" => at.k = 1 \/ at.k \in 15 .. 22
  /\ at.in = "exit" => at.k \in 1 .. 12

\* What frames that come too late leave, and what the callback thread does.
LeftOver ==
  (IF "frame" \in LifeFaults THEN Flushable ELSE {}) \cup (IF "taken" \in LifeFaults THEN {"cb_req"} ELSE {})

\* Nothing is held before the start and after the end, the memory in between; and what
\* the two layers hold goes by their flags.
Held ==
  /\ ~ Begun => held \subseteq LeftOver
  /\ Begun => Mem \ {"sec_ctx"} \subseteq held
  /\ Begun /\ (at.in = "exit" => at.k <= 10) => "hci" \in held
  /\ held \cap {"cb_req"} \subseteq LeftOver
  /\ held \cap SecThings # {} => "sec" \in enabled
  /\ held \cap (PollThings \cup {"poll_tick"}) # {} => "poll" \in enabled

\* What an exit has given back stays away.
Away(k, what) == at.in = "exit" /\ at.k > k => held \cap what = {}
GivenBack ==
  /\ Away(1, {"power_tmr"}) /\ Away(6, Flushable \ LeftOver) /\ Away(7, SecThings) /\ Away(8, {"poll_tick"})
  /\ Away(10, {"hci"}) /\ Away(11, PollThings \cup {"nodes", "exec_reqs"})

HeldInv == LifeTypes /\ Held /\ GivenBack

\* A thread that may still look at its flag and use what it uses.
Alive(t) == thrd[t] \in {"born", "waits", "works"}
\* The step of the exit that waits for a thread, and the one that tells it to end.
StopsAt(t) ==
  CASE t = "cmd_q" -> 2 [] t = "wait_q" -> 3 [] t = "exec" -> 4 [] t = "cb" -> 5 [] t = "poll_chk" -> 9
ToldAt(t) == IF t = "poll_chk" THEN 8 ELSE 1

\* A thread that is told to end has something to wake it.
Told(t) == at.in = "exit" /\ at.k > ToldAt(t) /\ Alive(t) => t \notin run /\ sems[t] > 0
\* A thread is born by its step of the start, and not before.
BornAt(t) ==
  CASE t = "cmd_q" -> 17 [] t = "wait_q" -> 18 [] t = "exec" -> 19 [] t = "cb" -> 20 [] t = "poll_chk" -> 22
NotYet(t) == at.in = "init" /\ at.k <= BornAt(t) => thrd[t] = "none"
ThreadInv ==
  /\ \A t \in L!AllThreads :
       /\ NotYet(t)
       /\ t \in sts <=> thrd[t] \in {"waits", "works"}
       /\ Alive(t) => Begun /\ (at.in = "exit" => at.k <= StopsAt(t))
       /\ Told(t)
  /\ Alive("poll_chk") => PollThings \subseteq held

LEMMA ThreadNames == L!AllThreads = {"cmd_q", "wait_q", "exec", "cb", "poll_chk"}
BY DEF L!AllThreads, L!Workers

LEMMA MemoryNames ==
  /\ {L!Memory[l] : l \in 1 .. 13} = Mem
  /\ L!ToSet(L!Memory) = Mem
<1>1. DOMAIN L!Memory = 1 .. 13
  BY DEF L!Memory
<1>2. {L!Memory[l] : l \in 1 .. 13} = Mem
  BY DEF Mem, L!Memory
<1> QED
  BY <1>1, <1>2 DEF L!ToSet

\* Each of the first steps gets what it is named for, if anything.
LEMMA EarlyGets ==
  /\ \A j \in 1 .. 14 : L!Gets(L!InitSteps[j]) \subseteq {L!InitSteps[j]}
  /\ L!Got(14) \subseteq Mem \cup {"hci"}
  /\ (Mem \ {"sec_ctx"}) \cup {"hci"} \subseteq L!Got(14)
<1>1. \A j \in 1 .. 14 : L!InitSteps[j] \in Mem \cup {"hci"}
  BY MemorySteps, MemoryNames
<1>2. \A s \in Mem \cup {"hci"} :
        L!Gets(s) \subseteq {s} /\ (s # "sec_ctx" => L!Gets(s) = {s})
  BY MemoryNames DEF L!Gets, Mem
<1>3. L!Got(14) \subseteq Mem \cup {"hci"}
  BY <1>1, <1>2 DEF L!Got
<1>4. ASSUME NEW s \in Mem \cup {"hci"}
      PROVE  \E j \in 1 .. 14 : L!InitSteps[j] = s
  <2>1. CASE s = "hci"
    BY <2>1, MemorySteps
  <2>2. CASE s \in Mem
    <3>1. PICK l \in 1 .. 13 : L!Memory[l] = s
      BY <2>2, MemoryNames
    <3>2. l \in 1 .. 14 /\ L!InitSteps[l] = s
      BY <3>1, MemorySteps
    <3> QED
      BY <3>2
  <2> QED
    BY <2>1, <2>2
<1>5. (Mem \ {"sec_ctx"}) \cup {"hci"} \subseteq L!Got(14)
  <2> SUFFICES ASSUME NEW s \in Mem \cup {"hci"}, s # "sec_ctx" PROVE s \in L!Got(14)
    BY DEF Mem
  <2>1. PICK j \in 1 .. 14 : L!InitSteps[j] = s
    BY <1>4
  <2>2. s \in L!Gets(L!InitSteps[j])
    BY <1>2, <2>1
  <2> QED
    BY <2>2 DEF L!Got
<1>6. \A j \in 1 .. 14 : L!Gets(L!InitSteps[j]) \subseteq {L!InitSteps[j]}
  <2> TAKE j \in 1 .. 14
  <2>1. L!InitSteps[j] \in Mem \cup {"hci"}
    BY <1>1
  <2> QED
    BY <1>2, <2>1
<1> QED
  BY <1>3, <1>5, <1>6

\* The way up: what is acquired is named, and what fails early is given back.
LEMMA HeldOnTheWayUp ==
  ASSUME HeldInv, L!InitEarly \/ L!InitFailsEarly \/ L!InitStep \/ L!InitFailsLate
  PROVE  HeldInv'
<1> USE DEF Begun, Away
<1>1. CASE L!InitEarly
  <2>1. held' = L!Got(14) /\ at' = [at EXCEPT !.k = 15] /\ at.in = "init"
        /\ UNCHANGED <<secure, run, sts, thrd, sems, enabled>>
    BY <1>1, MemorySteps DEF L!InitEarly
  <2>2. at' \in [in : {"init", "up", "exit", "out"}, k : Nat] /\ at'.in = "init" /\ at'.k = 15
    BY <2>1 DEF HeldInv, LifeTypes
  <2>3. held' \subseteq Mem \cup {"hci"} /\ Mem \ {"sec_ctx"} \subseteq held' /\ "hci" \in held'
    BY <2>1, EarlyGets
  <2>4. LifeTypes'
    BY <2>1, <2>2, <2>3 DEF HeldInv, LifeTypes, Things
  <2>5. Held' /\ GivenBack'
    BY <2>2, <2>3 DEF Held, GivenBack, Mem, SecThings, PollThings
  <2> QED
    BY <2>4, <2>5 DEF HeldInv
<1>2. CASE L!InitFailsEarly
  <2>1. PICK k \in 1 .. 14 : held' = L!Got(k - 1) \ L!Unwound(k)
    BY <1>2, MemorySteps DEF L!InitFailsEarly
  <2>2. L!Got(k - 1) \subseteq L!Unwound(k)
    <3> SUFFICES ASSUME NEW j \in 1 .. k - 1 PROVE L!Gets(L!InitSteps[j]) \subseteq L!Unwound(k)
      BY DEF L!Got
    <3>1. j \in 1 .. 14 /\ j \in 1 .. 13 /\ j \in 1 .. L!LabelOf(k)
      BY DEF L!LabelOf
    <3>2. L!Gets(L!InitSteps[j]) \subseteq {L!Memory[j]}
      BY <3>1, EarlyGets, MemorySteps
    <3> QED
      BY <3>1, <3>2 DEF L!Unwound
  <2>3. held' = {} /\ at' = [in |-> "out", k |-> 0] /\ UNCHANGED <<secure, run, sts, thrd, sems, enabled>>
    BY <1>2, <2>1, <2>2 DEF L!InitFailsEarly
  <2> QED
    BY <2>3 DEF HeldInv, LifeTypes, Held, GivenBack
<1>3. CASE L!InitStep
  <2> DEFINE s == L!InitSteps[at.k]
  <2>1. /\ at.in = "init" /\ at.k \in 15 .. 22 /\ Begun
        /\ s \in {"node_info", "ctlr_info", "cmd_q", "wait_q", "exec", "cb", "sec_init", "poll_init"}
    BY <1>3, MemorySteps, LateSteps DEF L!InitStep, HeldInv, LifeTypes
  <2>2. /\ held' = held \cup L!Gets(s) /\ enabled' = enabled \cup L!Turns(s)
        /\ run' = run \cup L!Begins(s)
        /\ thrd' = [t \in L!AllThreads |-> IF t \in L!Begins(s) THEN "born" ELSE thrd[t]]
        /\ at' = IF at.k = 22 THEN [in |-> "up", k |-> 0] ELSE [at EXCEPT !.k = @ + 1]
        /\ UNCHANGED <<secure, sts, sems>>
    BY <1>3, MemorySteps DEF L!InitStep, L!Step
  <2>3. /\ L!Gets(s) \subseteq {"nodes"} \cup SecThings \cup PollThings \cup {"poll_tick"}
        /\ L!Gets(s) \cap SecThings # {} => "sec" \in L!Turns(s)
        /\ L!Gets(s) \cap (PollThings \cup {"poll_tick"}) # {} => "poll" \in L!Turns(s)
        /\ L!Turns(s) \subseteq {"sec", "poll"} /\ L!Begins(s) \subseteq L!AllThreads
    BY <2>1, MemoryNames, ThreadNames DEF L!Gets, L!Turns, L!Begins, SecThings, PollThings, Mem, L!Workers
  <2>4. at' \in [in : {"init", "up", "exit", "out"}, k : Nat] /\ Begun' /\ at'.in # "exit"
        /\ (at'.in = "init" => at'.k \in 15 .. 22)
    BY <2>1, <2>2 DEF HeldInv, LifeTypes
  <2> HIDE DEF s
  <2>5. LifeTypes'
    BY <2>2, <2>3, <2>4 DEF HeldInv, LifeTypes, Things
  <2>6. GivenBack'
    BY <2>4 DEF GivenBack
  <2>7. /\ held' \cap SecThings # {} => "sec" \in enabled'
        /\ held' \cap (PollThings \cup {"poll_tick"}) # {} => "poll" \in enabled'
    BY <2>2, <2>3 DEF HeldInv, Held
  <2>8. "cb_req" \in held' => "cb_req" \in held
    BY <2>2, <2>3 DEF SecThings, PollThings
  <2>9. Held'
    BY <2>1, <2>2, <2>4, <2>7, <2>8 DEF HeldInv, Held
  <2> QED
    BY <2>5, <2>6, <2>9 DEF HeldInv
<1>4. CASE L!InitFailsLate
  <2>1. at.in = "init" /\ at.k > 14 /\ at' = [in |-> "exit", k |-> 1]
    BY <1>4, MemorySteps DEF L!InitFailsLate
  <2>2. /\ held' \subseteq held \cup {"nodes"} /\ held \subseteq held'
        /\ run' \subseteq run \cup L!AllThreads /\ UNCHANGED <<secure, sts, thrd, sems, enabled>>
    BY <1>4 DEF L!InitFailsLate, L!AllThreads
  <2>3. LifeTypes'
    BY <2>1, <2>2 DEF HeldInv, LifeTypes, Things
  <2>4. Held' /\ GivenBack'
    BY <2>1, <2>2 DEF HeldInv, Held, GivenBack, SecThings, PollThings
  <2> QED
    BY <2>3, <2>4 DEF HeldInv
<1> QED
  BY <1>1, <1>2, <1>3, <1>4

\* The threads: only a request is held, where it can still be given back.
LEMMA HeldByThreads ==
  ASSUME HeldInv, NEW t \in L!AllThreads,
         L!ThreadStarts(t) \/ L!ThreadWakes(t) \/ L!ThreadIsDone(t) \/ L!Work(t)
  PROVE  HeldInv'
<1>1. CASE L!ThreadStarts(t) \/ L!ThreadWakes(t) \/ L!ThreadIsDone(t)
  <2>1. UNCHANGED <<secure, at, run, enabled>> /\ held' \in {held, held \cup ({"cb_req"} \cap LeftOver)}
    <3>1. CASE L!ThreadStarts(t) \/ L!ThreadWakes(t)
      BY <3>1 DEF L!ThreadStarts, L!ThreadWakes, L!Same, L!Still
    <3>2. CASE L!ThreadIsDone(t)
      BY <3>2 DEF L!ThreadIsDone, L!Still, L!Dropped, LeftOver
    <3> QED
      BY <1>1, <3>1, <3>2
  <2>2. /\ thrd' \in [L!AllThreads -> {"none", "born", "waits", "works", "gone"}]
        /\ sts' \subseteq L!AllThreads
    BY <1>1 DEF HeldInv, LifeTypes, L!ThreadStarts, L!ThreadWakes, L!ThreadIsDone, L!Ends
  <2>3. sems' \in [L!AllThreads -> Nat]
    BY <1>1 DEF HeldInv, LifeTypes, L!ThreadStarts, L!ThreadWakes, L!ThreadIsDone
  <2>4. LifeTypes'
    BY <2>1, <2>2, <2>3 DEF HeldInv, LifeTypes, Things
  <2>5. Held'
    BY <2>1 DEF HeldInv, Held, Begun, Mem, SecThings, PollThings
  <2>6. GivenBack'
    BY <2>1 DEF HeldInv, GivenBack, Away, SecThings, PollThings, Flushable
  <2> QED
    BY <2>4, <2>5, <2>6 DEF HeldInv
<1>2. CASE L!Work(t)
  <2>1. /\ held' = held \cup L!Queued({t}) /\ "hci" \in held
        /\ sems' = [sems EXCEPT ![t] = 1] /\ UNCHANGED <<secure, at, run, sts, thrd, enabled>>
        /\ t = "exec" \/ (at.in # "init" /\ ~ L!Flushed) \/ "frame" \in LifeFaults
    BY <1>2 DEF L!Work
  <2>2. L!Queued({t}) \subseteq IF t = "exec" THEN {"exec_reqs"} ELSE Flushable
    BY DEF L!Queued, L!Requests, L!Workers, L!AllThreads, Flushable
  <2>3. Begun /\ (at.in = "exit" => at.k <= 10)
    BY <2>1 DEF HeldInv, LifeTypes, Held, GivenBack, Away, LeftOver, Flushable
  <2>4. LifeTypes'
    BY <2>1, <2>2 DEF HeldInv, LifeTypes, Things, Flushable
  <2>5. Held'
    BY <2>1, <2>2, <2>3 DEF HeldInv, Held, Begun, Flushable, SecThings, PollThings
  <2>6. at.in = "exit" /\ at.k > 6 => L!Queued({t}) \subseteq {"exec_reqs"} \cup LeftOver
    BY <2>1, <2>2 DEF L!Flushed, LeftOver
  <2>7. GivenBack'
    BY <2>1, <2>2, <2>3, <2>6 DEF HeldInv, LifeTypes, GivenBack, Away, Flushable, SecThings, PollThings
  <2> QED
    BY <2>4, <2>5, <2>7 DEF HeldInv
<1> QED
  BY <1>1, <1>2

\* Where the exit is, and where it goes.
LEMMA ExitGoes ==
  ASSUME LifeTypes, NEW s, L!Doing(s), L!Goes
  PROVE  /\ at.in = "exit" /\ L!ExitSteps[at.k] = s
         /\ IF at.k = 12 THEN at' = [in |-> "out", k |-> 0]
            ELSE at'.in = "exit" /\ at'.k = at.k + 1
         /\ at' \in [in : {"init", "up", "exit", "out"}, k : Nat]
         /\ at'.in = "exit" => at'.k \in 1 .. 12
BY ExitStepNames DEF LifeTypes, L!Doing, L!Goes

\* A step of the exit gives back its own.
LEMMA HeldOnTheWayDown ==
  ASSUME HeldInv,
         \/ L!ExitStops \/ L!ExitWaits \/ L!ExitFlushes \/ L!ExitSecures \/ L!ExitShutsPoll
         \/ L!ExitCloses \/ L!ExitPolls \/ L!ExitFrees
  PROVE  HeldInv'
<1> USE DEF Begun, Away
<1>0. /\ LifeTypes /\ UNCHANGED <<secure, sts, thrd, enabled>>
      /\ run' \subseteq L!AllThreads /\ sems' \in [L!AllThreads -> Nat]
  <2>1. UNCHANGED <<secure, sts, thrd, enabled>>
    BY DEF L!ExitStops, L!ExitWaits, L!ExitFlushes, L!ExitSecures, L!ExitShutsPoll,
       L!ExitCloses, L!ExitPolls, L!ExitFrees, L!Keep
  <2>2. UNCHANGED <<run, sems>> \/ \E ts \in SUBSET L!AllThreads : L!Tells(ts)
    BY DEF L!ExitStops, L!ExitWaits, L!ExitFlushes, L!ExitSecures, L!ExitShutsPoll,
       L!ExitCloses, L!ExitPolls, L!ExitFrees, L!Frees, L!AllThreads
  <2> QED
    BY <2>1, <2>2 DEF HeldInv, LifeTypes, L!Tells
<1>1. ASSUME NEW s, L!Doing(s), L!Goes, NEW what, held' = held \ what,
             s # "free",
             s = "stop" => what = {"power_tmr"},
             s \in {"cmd_q", "wait_q", "exec", "cb", "poll_chk"} => what = {},
             s = "flush" => what = Flushable,
             s = "sec_exit" => what \subseteq SecThings /\ held \cap SecThings \subseteq what,
             s = "poll_shutdown" => \A x \in held : x \in what <=> x = "poll_tick",
             s = "hci_exit" => what = {"hci"},
             s = "poll_exit" => /\ what \subseteq PollThings \cup {"nodes", "exec_reqs"}
                                /\ held \cap (PollThings \cup {"nodes", "exec_reqs"}) \subseteq what
      PROVE  HeldInv'
  <2>1. /\ at.in = "exit" /\ L!ExitSteps[at.k] = s /\ at.k \in 1 .. 12
        /\ IF at.k = 12 THEN at' = [in |-> "out", k |-> 0]
           ELSE at'.in = "exit" /\ at'.k = at.k + 1
        /\ at' \in [in : {"init", "up", "exit", "out"}, k : Nat]
        /\ at'.in = "exit" => at'.k \in 1 .. 12
    BY <1>0, <1>1, ExitGoes DEF LifeTypes
  <2>2. at.k # 12
    BY <1>1, <2>1, ExitStepNames
  <2>3. LifeTypes'
    BY <1>0, <1>1, <2>1, <2>2 DEF LifeTypes
  <2>4. /\ held \cap what \cap Mem = {}
        /\ "hci" \in held \cap what => at.k = 10
    BY <1>1, <2>1, <2>2, ExitStepNames DEF Mem, Flushable, SecThings, PollThings
  <2>5. Held'
    BY <1>0, <1>1, <2>1, <2>2, <2>4 DEF HeldInv, Held
  <2>6. GivenBack'
    BY <1>1, <2>1, <2>2, ExitStepNames DEF HeldInv, GivenBack
  <2> QED
    BY <2>3, <2>5, <2>6 DEF HeldInv
<1>2. CASE L!ExitStops
  <2> DEFINE what == {"power_tmr"}
  <2>1. L!Doing("stop") /\ L!Goes /\ held' = held \ what /\ what = {"power_tmr"}
    BY <1>2 DEF L!ExitStops
  <2> HIDE DEF what
  <2> QED
    BY <1>1, <2>1
<1>3. CASE L!ExitWaits
  <2>1. PICK t \in L!AllThreads : L!Doing(t) /\ L!Goes /\ held' = held \ {}
    BY <1>3 DEF L!ExitWaits
  <2>2. t \in {"cmd_q", "wait_q", "exec", "cb", "poll_chk"}
    BY ThreadNames
  <2> QED
    BY <1>1, <2>1, <2>2
<1>4. CASE L!ExitFlushes
  <2>1. L!Doing("flush") /\ L!Goes /\ held' = held \ Flushable
    BY <1>4 DEF L!ExitFlushes, L!Frees, L!Queued, L!Requests, L!Workers, Flushable
  <2> QED
    BY <1>1, <2>1
<1>5. CASE L!ExitSecures
  <2>1. /\ L!Doing("sec_exit") /\ L!Goes
        /\ held' = held \ IF "sec" \in enabled THEN SecThings ELSE {}
    BY <1>5 DEF L!ExitSecures, L!Frees, SecThings
  <2>2. held \cap SecThings \subseteq IF "sec" \in enabled THEN SecThings ELSE {}
    BY DEF HeldInv, Held
  <2> QED
    BY <1>1, <2>1, <2>2
<1>6. CASE L!ExitShutsPoll
  <2> DEFINE what == IF "poll" \in enabled THEN {"poll_tick"} ELSE {}
  <2>1. L!Doing("poll_shutdown") /\ L!Goes /\ held' = held \ what
    BY <1>6 DEF L!ExitShutsPoll
  <2>2. \A x \in held : x \in what <=> x = "poll_tick"
    BY DEF HeldInv, Held
  <2> HIDE DEF what
  <2> QED
    BY <1>1, <2>1, <2>2
<1>7. CASE L!ExitCloses
  <2> DEFINE what == {"hci"}
  <2>1. L!Doing("hci_exit") /\ L!Goes /\ held' = held \ what /\ what = {"hci"}
    BY <1>7 DEF L!ExitCloses, L!Frees
  <2> HIDE DEF what
  <2> QED
    BY <1>1, <2>1
<1>8. CASE L!ExitPolls
  <2> DEFINE what == {"nodes", "exec_reqs"} \cup IF "poll" \in enabled THEN PollThings ELSE {}
  <2>1. L!Queued({"exec"}) = {"exec_reqs"}
    BY DEF L!Queued, L!Requests, L!Workers
  <2>2. L!Doing("poll_exit") /\ L!Goes /\ held' = held \ what
    BY <1>8, <2>1 DEF L!ExitPolls, L!Frees, PollThings
  <2>3. /\ what \subseteq PollThings \cup {"nodes", "exec_reqs"}
        /\ held \cap (PollThings \cup {"nodes", "exec_reqs"}) \subseteq what
    BY DEF HeldInv, Held
  <2> HIDE DEF what
  <2> QED
    BY <1>1, <2>2, <2>3
<1>9. CASE L!ExitFrees
  <2>1. L!Doing("free") /\ L!Goes /\ held' = held \ Mem
    BY <1>9 DEF L!ExitFrees, L!Frees, Mem
  <2>2. /\ at.in = "exit" /\ L!ExitSteps[at.k] = "free" /\ at.k \in 1 .. 12
        /\ IF at.k = 12 THEN at' = [in |-> "out", k |-> 0]
           ELSE at'.in = "exit" /\ at'.k = at.k + 1
    BY <1>0, <2>1, ExitGoes DEF LifeTypes
  <2>3. at.k = 12 /\ at' = [in |-> "out", k |-> 0]
    BY <2>2, ExitStepNames
  <2>4. held' \subseteq LeftOver
    <3>1. /\ held \cap {"power_tmr", "poll_tick", "hci", "nodes", "exec_reqs"} = {}
          /\ held \cap (SecThings \cup PollThings) = {} /\ held \cap Flushable \subseteq LeftOver
      BY <2>2, <2>3 DEF HeldInv, GivenBack
    <3>2. held \cap {"cb_req"} \subseteq LeftOver
      BY DEF HeldInv, Held
    <3> QED
      BY <1>0, <2>1, <3>1, <3>2 DEF LifeTypes, Things
  <2>5. LifeTypes'
    BY <1>0, <2>3, <2>4 DEF LifeTypes, LeftOver, Flushable, Things
  <2>6. Held' /\ GivenBack'
    BY <2>3, <2>4 DEF Held, GivenBack, LeftOver, Flushable, SecThings, PollThings
  <2> QED
    BY <2>5, <2>6 DEF HeldInv
<1> QED
  BY <1>2, <1>3, <1>4, <1>5, <1>6, <1>7, <1>8, <1>9

\* The caller and the timer of the power level change nothing that is at stake.
LEMMA HeldOtherwise ==
  ASSUME HeldInv, L!PowerTimerStarts \/ L!ExitCalled
  PROVE  HeldInv'
<1>1. CASE L!PowerTimerStarts
  BY <1>1 DEF L!PowerTimerStarts, HeldInv, LifeTypes, Held, GivenBack, Begun, Away, Things, SecThings,
     PollThings
<1>2. CASE L!ExitCalled
  <2>1. at.in = "up" /\ at' = [in |-> "exit", k |-> 1]
        /\ UNCHANGED <<secure, held, run, sts, thrd, sems, enabled>>
    BY <1>2 DEF L!ExitCalled
  <2>2. LifeTypes'
    BY <2>1 DEF HeldInv, LifeTypes
  <2>3. Held' /\ GivenBack'
    BY <2>1 DEF HeldInv, Held, GivenBack, Begun, Away
  <2> QED
    BY <2>2, <2>3 DEF HeldInv
<1> QED
  BY <1>1, <1>2

LEMMA HeldInvInit == Init => HeldInv
<1> SUFFICES ASSUME Init PROVE HeldInv
  OBVIOUS
<1>1. \E b \in BOOLEAN : L!Starting(b)
  <2>1. CASE side = "life"
    BY <2>1 DEF Init, L!Init
  <2>2. CASE side # "life"
    BY <2>2 DEF Init, NoLife
  <2> QED
    BY <2>1, <2>2
<1> QED
  BY <1>1 DEF L!Starting, HeldInv, LifeTypes, Held, GivenBack, Begun, Away, SecThings, PollThings

LEMMA HeldInvStep == HeldInv /\ [Next]_vars => HeldInv'
<1> SUFFICES ASSUME HeldInv, [Next]_vars PROVE HeldInv'
  OBVIOUS
<1>1. CASE UNCHANGED lifeVars
  BY <1>1 DEF lifeVars, HeldInv, LifeTypes, Held, GivenBack, Begun, Away
<1>2. CASE L!Next
  BY <1>2, HeldOnTheWayUp, HeldByThreads, HeldOnTheWayDown, HeldOtherwise DEF L!Next
<1> QED
  BY <1>1, <1>2, LifeSteps

\* Whichever step of zwnet_init fails, and after zwnet_exit, nothing is left, if no
\* frame comes after the queues were emptied and zwnet_cb_thrd is not asked to end with
\* a request in its hands: however slow or late the threads are.
THEOREM NothingIsLeft ==
  ASSUME LifeFaults \cap {"frame", "taken"} = {}
  PROVE  Spec => []NothingLeft
<1>1. HeldInv => NothingLeft
  BY DEF HeldInv, Held, Begun, NothingLeft, L!NothingLeft, LeftOver
<1> QED
  BY <1>1, HeldInvInit, HeldInvStep, PTL DEF Spec

---------------------------------------------------------------------------
(***************************************************************************)
(* What a thread uses is there.  A thread that is told to end (Told) does   *)
(* not wait without a token, so that the wait for it ends with the thread.  *)
(***************************************************************************)
LEMMA StopNames ==
  /\ \A t \in L!AllThreads : StopsAt(t) \in {2, 3, 4, 5, 9} /\ ToldAt(t) < StopsAt(t)
  /\ \A t \in L!AllThreads : L!ExitSteps[StopsAt(t)] = t
  /\ \A t \in L!AllThreads, k \in 1 .. 12 : L!ExitSteps[k] = t => k = StopsAt(t)
<1>1. \A t \in L!AllThreads :
        StopsAt(t) = CASE t = "cmd_q" -> 2 [] t = "wait_q" -> 3 [] t = "exec" -> 4 [] t = "cb" -> 5
                       [] t = "poll_chk" -> 9
  BY DEF StopsAt
<1> QED
  BY <1>1, ThreadNames, ExitStepNames DEF ToldAt

LEMMA ThreadsOnTheWayUp ==
  ASSUME HeldInv, ThreadInv,
         L!InitEarly \/ L!InitFailsEarly \/ L!InitStep \/ L!InitFailsLate
  PROVE  ThreadInv'
<1>1. CASE L!InitEarly \/ L!InitFailsEarly
  <2>1. at.in = "init" /\ at.k = 1 /\ UNCHANGED <<run, sts, thrd, sems>>
    BY <1>1 DEF L!InitEarly, L!InitFailsEarly
  <2>2. \A t \in L!AllThreads : thrd[t] = "none"
    BY <2>1, ThreadNames DEF ThreadInv, NotYet, BornAt
  <2> QED
    BY <2>1, <2>2, ThreadNames DEF ThreadInv, Alive, Told, NotYet
<1>2. CASE L!InitStep
  <2> DEFINE s == L!InitSteps[at.k]
  <2>1. /\ at.in = "init" /\ at.k \in 15 .. 22
        /\ s \in {"node_info", "ctlr_info", "cmd_q", "wait_q", "exec", "cb", "sec_init", "poll_init"}
    BY <1>2, MemorySteps, LateSteps DEF L!InitStep, HeldInv, LifeTypes
  <2>2. /\ held' = held \cup L!Gets(s)
        /\ thrd' = [t \in L!AllThreads |-> IF t \in L!Begins(s) THEN "born" ELSE thrd[t]]
        /\ at' = IF at.k = 22 THEN [in |-> "up", k |-> 0] ELSE [at EXCEPT !.k = @ + 1]
        /\ UNCHANGED <<sts, sems>>
    BY <1>2, MemorySteps DEF L!InitStep, L!Step
  <2>3. Begun' /\ at'.in # "exit" /\ (at'.in = "init" => at.k < 22 /\ at'.in = "init" /\ at'.k = at.k + 1)
    BY <2>1, <2>2 DEF HeldInv, LifeTypes, Begun
  <2>4. \A t \in L!AllThreads :
          /\ t \in L!Begins(s) => at.k = BornAt(t)
          /\ t = "poll_chk" /\ t \in L!Begins(s) => PollThings \subseteq L!Gets(s)
    BY <2>1, LateSteps, ThreadNames, MemoryNames DEF L!Begins, L!Gets, L!Workers, BornAt, PollThings, Mem
  <2> HIDE DEF s
  <2>5. ASSUME NEW t \in L!AllThreads
        PROVE  /\ NotYet(t)' /\ Told(t)'
               /\ t \in sts' <=> thrd'[t] \in {"waits", "works"}
               /\ Alive(t)' => Begun' /\ (at'.in = "exit" => at'.k <= StopsAt(t))
               /\ Alive(t)' => t \in L!Begins(s) \/ Alive(t)
    <3>1. thrd'[t] = IF t \in L!Begins(s) THEN "born" ELSE thrd[t]
      BY <2>2
    <3>2. t \in L!Begins(s) => thrd[t] = "none" /\ t \notin sts
      BY <2>1, <2>4 DEF ThreadInv, NotYet
    <3>3. NotYet(t)'
      <4> SUFFICES ASSUME at'.in = "init", at'.k <= BornAt(t) PROVE thrd'[t] = "none"
        BY DEF NotYet
      <4>1. at.k < BornAt(t) /\ t \notin L!Begins(s)
        BY <2>1, <2>3, <2>4, ThreadNames DEF BornAt
      <4> QED
        BY <2>1, <3>1, <4>1, ThreadNames DEF ThreadInv, NotYet, BornAt
    <3> QED
      BY <2>2, <2>3, <3>1, <3>2, <3>3 DEF ThreadInv, Alive, Told
  <2>6. Alive("poll_chk")' => PollThings \subseteq held'
    BY <2>2, <2>4, <2>5, ThreadNames DEF ThreadInv
  <2> QED
    BY <2>5, <2>6 DEF ThreadInv
<1>3. CASE L!InitFailsLate
  <2>1. at.in = "init" /\ at.k > 14 /\ at' = [in |-> "exit", k |-> 1]
        /\ held \subseteq held' /\ UNCHANGED <<sts, thrd, sems>>
    BY <1>3, MemorySteps DEF L!InitFailsLate
  <2> QED
    BY <2>1, StopNames, ThreadNames DEF ThreadInv, NotYet, Alive, Told, Begun, ToldAt
<1> QED
  BY <1>1, <1>2, <1>3

\* A thread that wakes after it was told to end reads its flag, and is gone.
LEMMA ThreadsThemselves ==
  ASSUME HeldInv, ThreadInv, NEW t \in L!AllThreads,
         L!ThreadStarts(t) \/ L!ThreadWakes(t) \/ L!ThreadIsDone(t) \/ L!Work(t)
  PROVE  ThreadInv'
<1>1. CASE L!ThreadStarts(t) \/ L!ThreadWakes(t) \/ L!ThreadIsDone(t)
  <2>1. UNCHANGED <<at, run>> /\ held \subseteq held' /\ Alive(t)
    BY <1>1 DEF L!ThreadStarts, L!ThreadWakes, L!ThreadIsDone, L!Same, L!Still, Alive
  <2>2. /\ \A u \in L!AllThreads \ {t} :
             thrd'[u] = thrd[u] /\ sems'[u] = sems[u] /\ (u \in sts' <=> u \in sts)
        /\ thrd'[t] \in {"waits", "works", "gone"}
        /\ t \in sts' <=> thrd'[t] \in {"waits", "works"}
    BY <1>1 DEF HeldInv, LifeTypes, ThreadInv, L!ThreadStarts, L!ThreadWakes, L!ThreadIsDone, L!Ends
  <2>3. sems'[t] = sems[t] \/ thrd'[t] = "gone" \/ t \in run
    BY <1>1 DEF L!ThreadStarts, L!ThreadWakes, L!ThreadIsDone, L!Ends, HeldInv, LifeTypes
  <2>4. Told(t)'
    BY <2>1, <2>2, <2>3 DEF ThreadInv, Told, Alive
  <2>5. ASSUME NEW u \in L!AllThreads
        PROVE  /\ NotYet(u)' /\ Told(u)'
               /\ u \in sts' <=> thrd'[u] \in {"waits", "works"}
               /\ Alive(u)' => Begun' /\ (at'.in = "exit" => at'.k <= StopsAt(u))
               /\ Alive(u)' => Alive(u)
    <3>1. CASE u = t
      BY <2>1, <2>2, <2>4, <3>1 DEF ThreadInv, NotYet, Alive, Begun
    <3>2. CASE u # t
      BY <2>1, <2>2, <3>2 DEF ThreadInv, NotYet, Told, Alive, Begun
    <3> QED
      BY <3>1, <3>2
  <2> QED
    BY <2>1, <2>5, ThreadNames DEF ThreadInv
<1>2. CASE L!Work(t)
  <2>1. /\ held \subseteq held' /\ sems' = [sems EXCEPT ![t] = 1]
        /\ UNCHANGED <<at, run, sts, thrd>>
    BY <1>2 DEF L!Work
  <2>2. \A u \in L!AllThreads : sems[u] > 0 => sems'[u] > 0
    BY <2>1 DEF HeldInv, LifeTypes
  <2> QED
    BY <2>1, <2>2 DEF ThreadInv, NotYet, Told, Alive, Begun
<1> QED
  BY <1>1, <1>2

\* The exit goes on past a thread's step only when that thread is gone: it tells a thread
\* to end before, and a thread that was told so does not wait without a token.
LEMMA ThreadsOnTheWayDown ==
  ASSUME HeldInv, ThreadInv, LifeFaults \cap {"late", "slow"} = {},
         \/ L!ExitStops \/ L!ExitWaits \/ L!ExitFlushes \/ L!ExitSecures \/ L!ExitShutsPoll
         \/ L!ExitCloses \/ L!ExitPolls \/ L!ExitFrees
  PROVE  ThreadInv'
<1>1. ASSUME NEW s, L!Doing(s), L!Goes, UNCHANGED <<sts, thrd>>,
             \A t \in L!AllThreads : s = t => ~ Alive(t),
             \A t \in L!AllThreads :
               (t \notin run => t \notin run') /\ (sems[t] > 0 => sems'[t] > 0),
             s = "stop" => \A t \in L!Workers : t \notin run' /\ sems'[t] > 0,
             s = "poll_shutdown" /\ Alive("poll_chk") => "poll_chk" \notin run' /\ sems'["poll_chk"] > 0,
             s # "poll_exit" => PollThings \cap held \subseteq held'
      PROVE  ThreadInv'
  <2>1. /\ at.in = "exit" /\ L!ExitSteps[at.k] = s /\ at.k \in 1 .. 12
        /\ IF at.k = 12 THEN at' = [in |-> "out", k |-> 0]
           ELSE at'.in = "exit" /\ at'.k = at.k + 1
    BY <1>1, ExitGoes DEF HeldInv, LifeTypes
  <2>2. ASSUME NEW t \in L!AllThreads, Alive(t)
        PROVE  at.k < StopsAt(t)
    <3>1. at.k <= StopsAt(t)
      BY <2>1, <2>2 DEF ThreadInv
    <3>2. at.k # StopsAt(t)
      BY <1>1, <2>1, <2>2, StopNames
    <3> QED
      BY <2>1, <3>1, <3>2, StopNames
  <2>3. ASSUME NEW t \in L!AllThreads, Alive(t), at.k >= ToldAt(t)
        PROVE  t \notin run' /\ sems'[t] > 0
    <3>1. CASE at.k = ToldAt(t)
      BY <1>1, <2>1, <2>3, <3>1, ExitStepNames, ThreadNames DEF ToldAt, L!Workers
    <3>2. CASE at.k > ToldAt(t)
      <4>1. t \notin run /\ sems[t] > 0
        BY <2>1, <2>3, <3>2 DEF ThreadInv, Told
      <4> QED
        BY <1>1, <4>1
    <3> QED
      BY <2>1, <2>3, <3>1, <3>2 DEF ToldAt
  <2>4. ASSUME NEW t \in L!AllThreads
        PROVE  /\ NotYet(t)' /\ Told(t)'
               /\ t \in sts' <=> thrd'[t] \in {"waits", "works"}
               /\ Alive(t)' => Begun' /\ (at'.in = "exit" => at'.k <= StopsAt(t))
    <3>1. Alive(t) => at.k # 12 /\ at'.in = "exit" /\ at'.k = at.k + 1 /\ at'.k <= StopsAt(t)
      BY <2>1, <2>2, StopNames
    <3> QED
      BY <1>1, <2>1, <2>3, <3>1 DEF ThreadInv, NotYet, Told, Alive, Begun, ToldAt
  <2>5. Alive("poll_chk") => PollThings \subseteq held /\ s # "poll_exit"
    BY <2>1, <2>2, ThreadNames, ExitStepNames DEF ThreadInv, StopsAt
  <2> QED
    BY <1>1, <2>4, <2>5 DEF ThreadInv, Alive
<1>2. CASE L!ExitStops
  <2>1. /\ L!Doing("stop") /\ L!Goes /\ UNCHANGED <<sts, thrd>>
        /\ held' = held \ {"power_tmr"} /\ L!Tells(L!Workers)
    BY <1>2 DEF L!ExitStops, L!Keep
  <2>2. \A t \in L!AllThreads :
          /\ (t \notin run => t \notin run') /\ (sems[t] > 0 => sems'[t] > 0)
          /\ t \in L!Workers => t \notin run' /\ sems'[t] > 0
    BY <2>1 DEF L!Tells, HeldInv, LifeTypes
  <2>3. L!Workers \subseteq L!AllThreads /\ "stop" \notin L!AllThreads /\ PollThings \cap held \subseteq held'
    BY <2>1, ThreadNames DEF L!Workers, PollThings
  <2> QED
    BY <1>1, <2>1, <2>2, <2>3
<1>3. CASE L!ExitWaits
  <2>1. PICK t \in L!AllThreads :
          /\ L!Doing(t) /\ L!Goes /\ UNCHANGED <<sts, thrd, held, run, sems>>
          /\ t \notin sts \/ L!Stuck(t)
          /\ thrd[t] # "born"
    BY <1>3 DEF L!ExitWaits, L!Keep
  <2>2. at.in = "exit" /\ at.k = StopsAt(t)
    BY <2>1, StopNames, ExitGoes DEF HeldInv, LifeTypes
  <2>3. ~ L!Stuck(t)
    BY <2>2, StopNames DEF ThreadInv, Told, Alive, L!Stuck
  <2>4. ~ Alive(t)
    BY <2>1, <2>3 DEF ThreadInv, Alive
  <2> QED
    BY <1>1, <2>1, <2>4, ThreadNames
<1>4. CASE L!ExitShutsPoll
  <2>1. /\ L!Doing("poll_shutdown") /\ L!Goes /\ UNCHANGED <<sts, thrd>>
        /\ IF "poll" \in enabled THEN held' = held \ {"poll_tick"} /\ L!Tells({"poll_chk"})
           ELSE UNCHANGED <<held, run, sems>>
    BY <1>4 DEF L!ExitShutsPoll, L!Keep
  <2>2. \A t \in L!AllThreads : (t \notin run => t \notin run') /\ (sems[t] > 0 => sems'[t] > 0)
    BY <2>1 DEF L!Tells, HeldInv, LifeTypes
  <2>3. Alive("poll_chk") => "poll" \in enabled
    BY DEF HeldInv, Held, ThreadInv, PollThings
  <2>4. Alive("poll_chk") => "poll_chk" \notin run' /\ sems'["poll_chk"] > 0
    BY <2>1, <2>3, ThreadNames DEF L!Tells, HeldInv, LifeTypes
  <2>5. "poll_shutdown" \notin L!AllThreads /\ PollThings \cap held \subseteq held'
    BY <2>1, ThreadNames DEF PollThings
  <2> QED
    BY <1>1, <2>1, <2>2, <2>4, <2>5
<1>5. CASE L!ExitFlushes \/ L!ExitSecures \/ L!ExitCloses \/ L!ExitPolls \/ L!ExitFrees
  <2>1. PICK s \in {"flush", "sec_exit", "hci_exit", "poll_exit", "free"} :
          /\ L!Doing(s) /\ L!Goes /\ UNCHANGED <<sts, thrd, run, sems>>
          /\ s # "poll_exit" => PollThings \cap held \subseteq held'
    BY <1>5 DEF L!ExitFlushes, L!ExitSecures, L!ExitCloses, L!ExitPolls, L!ExitFrees, L!Keep, L!Frees,
       L!Queued, L!Requests, L!Workers, PollThings
  <2>2. s \notin L!AllThreads /\ s # "stop" /\ s # "poll_shutdown"
    BY ThreadNames
  <2> QED
    BY <1>1, <2>1, <2>2
<1> QED
  BY <1>2, <1>3, <1>4, <1>5

LEMMA ThreadInvInit == Init => ThreadInv
<1> SUFFICES ASSUME Init PROVE ThreadInv
  OBVIOUS
<1>1. \E b \in BOOLEAN : L!Starting(b)
  <2>1. CASE side = "life"
    BY <2>1 DEF Init, L!Init
  <2>2. CASE side # "life"
    BY <2>2 DEF Init, NoLife
  <2> QED
    BY <2>1, <2>2
<1> QED
  BY <1>1, ThreadNames DEF L!Starting, ThreadInv, NotYet, Told, Alive

LEMMA ThreadInvStep ==
  ASSUME HeldInv, ThreadInv, LifeFaults \cap {"late", "slow"} = {}, [Next]_vars
  PROVE  ThreadInv'
<1>1. CASE UNCHANGED lifeVars
  BY <1>1 DEF lifeVars, ThreadInv, NotYet, Told, Alive, Begun
<1>2. CASE L!PowerTimerStarts \/ L!ExitCalled
  <2>1. /\ held \subseteq held' /\ UNCHANGED <<run, sts, thrd, sems>>
        /\ at.in = "up" /\ (at' = at \/ at' = [in |-> "exit", k |-> 1])
    BY <1>2 DEF L!PowerTimerStarts, L!ExitCalled
  <2> QED
    BY <2>1, StopNames DEF ThreadInv, NotYet, Told, Alive, Begun, ToldAt
<1>3. CASE L!Next
  BY <1>2, <1>3, ThreadsOnTheWayUp, ThreadsThemselves, ThreadsOnTheWayDown DEF L!Next
<1> QED
  BY <1>1, <1>3, LifeSteps

\* Nothing is given back while a thread that uses it may come, if every thread has begun
\* when it is told to end, none works for longer than the exit waits, and nothing is sent
\* secured after the security layer's end.
THEOREM WhatIsUsedIsThere ==
  ASSUME LifeFaults \cap {"late", "slow", "secure"} = {}
  PROVE  Spec => []UsedWhileThere
<1>1. HeldInv /\ ThreadInv => UsedWhileThere
  <2> SUFFICES ASSUME HeldInv, ThreadInv PROVE UsedWhileThere
    OBVIOUS
  <2>1. ASSUME NEW t \in L!AllThreads, Alive(t) PROVE L!Uses(t) \subseteq held
    <3>1. Begun /\ (at.in = "exit" => at.k <= StopsAt(t))
      BY <2>1 DEF ThreadInv
    <3>2. Mem \ {"sec_ctx"} \subseteq held /\ "hci" \in held
      BY <3>1, StopNames DEF HeldInv, LifeTypes, Held
    <3>3. t = "poll_chk" => PollThings \subseteq held
      BY <2>1 DEF ThreadInv
    <3> QED
      BY <3>2, <3>3, ThreadNames DEF L!Uses, Mem, PollThings
  <2>2. "hci" \in held => Mem \ {"sec_ctx"} \subseteq held
    BY DEF HeldInv, Held, LeftOver, Flushable
  <2> QED
    BY <2>1, <2>2 DEF UsedWhileThere, L!UsedWhileThere, Alive, Mem
<1>2. HeldInv /\ ThreadInv /\ [Next]_vars => HeldInv' /\ ThreadInv'
  BY HeldInvStep, ThreadInvStep
<1> QED
  BY <1>1, <1>2, HeldInvInit, ThreadInvInit, PTL DEF Spec

---------------------------------------------------------------------------
(***************************************************************************)
(* The work the library gives itself.  A node that said it resets itself is *)
(* followed by one request, wherever it is (Carried), and so is a restart   *)
(* that is waited for; one node is in one of the two at a time.             *)
(***************************************************************************)
JobReqs ==
  {r \in [action : {"probe_failed", "rmv_failed", "probe_restart", "cfg_lifeline"},
          node : JobNodes \cup {0}] : r.action = "probe_restart" => r.node \in JobNodes}
Fits(r, acts, n) == r.action \in acts /\ r.node = n
One(r, acts, n) == IF Fits(r, acts, n) THEN 1 ELSE 0
Chosen(s, acts, n) == {k \in DOMAIN s : Fits(s[k], acts, n)}

LEMMA SameCardinality == ASSUME NEW Z PROVE J!Cardinality(Z) = Cardinality(Z)
BY DEF J!Cardinality, Cardinality

LEMMA CountIs ==
  ASSUME NEW s, NEW acts, NEW n
  PROVE  J!Count(s, acts, n) = Cardinality(Chosen(s, acts, n))
BY SameCardinality DEF J!Count, Chosen, Fits

LEMMA NumNat ==
  ASSUME NEW s \in Seq(JobReqs), NEW acts, NEW n
  PROVE  IsFiniteSet(Chosen(s, acts, n)) /\ J!Count(s, acts, n) \in Nat
<1>1. DOMAIN s = 1 .. Len(s) /\ Len(s) \in Nat
  BY LenProperties
<1>2. IsFiniteSet(1 .. Len(s))
  BY <1>1, FS_Interval
<1>3. Chosen(s, acts, n) \in SUBSET (1 .. Len(s))
  BY <1>1 DEF Chosen
<1> QED
  BY <1>2, <1>3, FS_Subset, FS_CardinalityType, CountIs

LEMMA NumFew ==
  ASSUME NEW acts, NEW n
  PROVE  /\ J!Count(<< >>, acts, n) = 0
         /\ \A r \in JobReqs : J!Count(<<r>>, acts, n) = One(r, acts, n)
<1>1. J!Count(<< >>, acts, n) = 0
  <2>1. Chosen(<< >>, acts, n) = {}
    BY EmptySeq DEF Chosen
  <2> QED
    BY <2>1, FS_EmptySet, CountIs
<1>2. ASSUME NEW r \in JobReqs PROVE J!Count(<<r>>, acts, n) = One(r, acts, n)
  <2>1. Chosen(<<r>>, acts, n) = IF Fits(r, acts, n) THEN {1} ELSE {}
    BY DEF Chosen
  <2> QED
    BY <2>1, FS_EmptySet, FS_Singleton, CountIs DEF One
<1> QED
  BY <1>1, <1>2

LEMMA NumAppend ==
  ASSUME NEW s \in Seq(JobReqs), NEW r \in JobReqs, NEW acts, NEW n
  PROVE  J!Count(Append(s, r), acts, n) = J!Count(s, acts, n) + One(r, acts, n)
<1> DEFINE K == Chosen(s, acts, n)
           A == Append(s, r)
<1>1. /\ DOMAIN s = 1 .. Len(s) /\ Len(s) \in Nat /\ DOMAIN A = 1 .. Len(s) + 1
      /\ \A k \in 1 .. Len(s) : A[k] = s[k]
      /\ A[Len(s) + 1] = r
  BY AppendProperties, LenProperties
<1>2. Chosen(A, acts, n) = IF Fits(r, acts, n) THEN K \cup {Len(s) + 1} ELSE K
  BY <1>1 DEF Chosen
<1>3. Len(s) + 1 \notin K
  BY <1>1 DEF Chosen
<1>5. IsFiniteSet(K) /\ Cardinality(K) = J!Count(s, acts, n) /\ J!Count(s, acts, n) \in Nat
  BY NumNat, CountIs
<1> HIDE DEF K, A
<1>4. Cardinality(K \cup {Len(s) + 1}) = Cardinality(K) + 1
  BY <1>3, <1>5, FS_AddElement
<1>6. J!Count(A, acts, n) = Cardinality(Chosen(A, acts, n))
  BY CountIs
<1> HIDE DEF A
<1>7. J!Count(A, acts, n) = J!Count(s, acts, n) + One(r, acts, n)
  BY <1>2, <1>4, <1>5, <1>6 DEF One
<1> QED
  BY <1>7 DEF A

LEMMA NumTail ==
  ASSUME NEW s \in Seq(JobReqs), s # << >>, NEW acts, NEW n
  PROVE  J!Count(s, acts, n) = J!Count(Tail(s), acts, n) + One(Head(s), acts, n)
<1> DEFINE T == Chosen(Tail(s), acts, n)
           K == Chosen(s, acts, n)
           Others == K \ {1}
           f == [k \in T |-> k + 1]
<1>1. /\ Len(s) \in Nat \ {0} /\ DOMAIN s = 1 .. Len(s) /\ Tail(s) \in Seq(JobReqs)
      /\ Len(Tail(s)) = Len(s) - 1 /\ DOMAIN Tail(s) = 1 .. Len(s) - 1 /\ Head(s) = s[1]
      /\ \A k \in 1 .. Len(s) - 1 : Tail(s)[k] = s[k + 1]
  BY HeadTailProperties, LenProperties, EmptySeq
<1>2. f \in Bijection(T, Others)
  <2>1. f \in [T -> Others]
    BY <1>1 DEF Chosen
  <2>2. \A a, b \in T : f[a] = f[b] => a = b
    BY <1>1 DEF Chosen
  <2>3. \A y \in Others : \E x \in T : f[x] = y
    <3> TAKE y \in Others
    <3>1. y - 1 \in T /\ f[y - 1] = y
      BY <1>1 DEF Chosen
    <3> QED
      BY <3>1
  <2>5. DOMAIN f = T
    OBVIOUS
  <2> HIDE DEF f, T, Others, K
  <2>4. f \in Injection(T, Others) /\ f \in Surjection(T, Others)
    BY <2>1, <2>2, <2>3, <2>5 DEF Injection, Surjection, IsInjective
  <2> QED
    BY <2>4 DEF Bijection
<1>3. IsFiniteSet(T) /\ IsFiniteSet(K)
  BY <1>1, NumNat
<1>4. 1 \in K <=> Fits(Head(s), acts, n)
  BY <1>1 DEF Chosen
<1>5. J!Count(s, acts, n) = Cardinality(K) /\ J!Count(Tail(s), acts, n) = Cardinality(T)
      /\ Cardinality(K) \in Nat /\ Cardinality(T) \in Nat
  BY <1>1, NumNat, CountIs
<1> HIDE DEF f, T, K
<1>6. Cardinality(Others) = Cardinality(T)
  BY <1>2, <1>3, FS_Bijection DEF ExistsBijection
<1>7. Cardinality(Others) = IF 1 \in K THEN Cardinality(K) - 1 ELSE Cardinality(K)
  BY <1>3, FS_RemoveElement
<1> QED
  BY <1>4, <1>5, <1>6, <1>7 DEF One

Handed == {<< >>} \cup {<<r>> : r \in JobReqs}
JobTypes ==
  /\ known \subseteq JobNodes /\ owed \subseteq known /\ failed_id \in {{}} \cup {{n} : n \in JobNodes}
  /\ curr_op \in {"none", "rm_failed", "other"}
  /\ exec_req \in Seq(JobReqs) /\ exec_sem \in Nat /\ awake \in BOOLEAN
  /\ hand \in Handed /\ probe \in Handed
  /\ probe # << >> => probe[1].action \in {"probe_failed", "probe_restart"}
  /\ due \in [JobNodes -> Int]

JobInv ==
  /\ JobTypes
  /\ curr_op # "rm_failed" => failed_id = {}
  /\ hand # << >> => awake
  /\ J!ResetIsFollowed
  /\ \A n \in JobNodes : due[n] > 0 => n \in known /\ ~ J!Leaving(n)

LEMMA JobSteps ==
  [Next]_vars => (side = "jobs" /\ J!Next) \/ UNCHANGED jobVars
BY DEF Next, vars

LEMMA CarriedNum ==
  ASSUME NEW acts, NEW n
  PROVE  /\ J!Carried(acts, n)
            = J!Count(exec_req, acts, n) + J!Count(hand, acts, n) + J!Count(probe, acts, n)
         /\ J!Carried(acts, n)'
            = J!Count(exec_req', acts, n) + J!Count(hand', acts, n) + J!Count(probe', acts, n)
BY DEF J!Carried

\* A request is followed from the queue to the hand and to the probe.
LEMMA CarriedGoes ==
  ASSUME JobTypes, JobTypes', NEW acts, NEW n
  PROVE
  /\ J!Carried(acts, n) \in Nat /\ J!Carried(acts, n)' \in Nat
  /\ UNCHANGED <<exec_req, hand, probe>> => J!Carried(acts, n)' = J!Carried(acts, n)
  /\ \A r \in JobReqs :
       exec_req' = Append(exec_req, r) /\ UNCHANGED <<hand, probe>>
       => J!Carried(acts, n)' = J!Carried(acts, n) + One(r, acts, n)
  /\ /\ exec_req # << >> /\ hand = << >>
     /\ hand' = <<Head(exec_req)>> /\ exec_req' = Tail(exec_req) /\ probe' = probe
     => J!Carried(acts, n)' = J!Carried(acts, n)
  /\ hand # << >> /\ hand' = << >> /\ exec_req' = Append(exec_req, hand[1]) /\ probe' = probe
     => J!Carried(acts, n)' = J!Carried(acts, n)
  /\ hand # << >> /\ hand' = << >> /\ probe = << >> /\ probe' = hand /\ exec_req' = exec_req
     => J!Carried(acts, n)' = J!Carried(acts, n)
  /\ hand # << >> /\ hand' = << >> /\ UNCHANGED <<exec_req, probe>>
     => J!Carried(acts, n)' = J!Carried(acts, n) - One(hand[1], acts, n)
  /\ probe # << >> /\ probe' = << >> /\ UNCHANGED <<exec_req, hand>>
     => J!Carried(acts, n)' = J!Carried(acts, n) - One(probe[1], acts, n)
  /\ \A r \in JobReqs :
       probe # << >> /\ probe' = << >> /\ exec_req' = Append(exec_req, r) /\ hand' = hand
       => J!Carried(acts, n)' = J!Carried(acts, n) - One(probe[1], acts, n) + One(r, acts, n)
<1> DEFINE N(s) == J!Count(s, acts, n)
<1>1. J!Carried(acts, n) = N(exec_req) + N(hand) + N(probe)
      /\ J!Carried(acts, n)' = N(exec_req') + N(hand') + N(probe')
  BY CarriedNum
<1>2. /\ exec_req \in Seq(JobReqs) /\ exec_req' \in Seq(JobReqs)
      /\ N(exec_req) \in Nat /\ N(exec_req') \in Nat
  BY NumNat DEF JobTypes
<1>3. \A h \in Handed : h # << >> => h[1] \in JobReqs /\ h = <<h[1]>>
  BY DEF Handed
<1>4. \A h \in Handed : N(h) = IF h = << >> THEN 0 ELSE One(h[1], acts, n)
  <2> TAKE h \in Handed
  <2>1. CASE h = << >>
    BY <2>1, NumFew
  <2>2. CASE h # << >>
    <3>1. h[1] \in JobReqs /\ h = <<h[1]>>
      BY <1>3, <2>2
    <3>2. N(<<h[1]>>) = One(h[1], acts, n)
      BY <3>1, NumFew
    <3> QED
      BY <2>2, <3>1, <3>2
  <2> QED
    BY <2>1, <2>2
<1>5. hand \in Handed /\ hand' \in Handed /\ probe \in Handed /\ probe' \in Handed
  BY DEF JobTypes
<1>6. \A r : One(r, acts, n) \in {0, 1}
  BY DEF One
<1>7. \A r \in JobReqs : N(Append(exec_req, r)) = N(exec_req) + One(r, acts, n)
  BY <1>2, NumAppend
<1>8. exec_req # << >> => N(exec_req) = N(Tail(exec_req)) + One(Head(exec_req), acts, n)
  BY <1>2, NumTail
<1>9. exec_req # << >> => Head(exec_req) \in JobReqs /\ N(<<Head(exec_req)>>) = One(Head(exec_req), acts, n)
  BY <1>2, HeadTailProperties, NumFew
<1>10. /\ N(hand) = IF hand = << >> THEN 0 ELSE One(hand[1], acts, n)
       /\ N(hand') = IF hand' = << >> THEN 0 ELSE One(hand'[1], acts, n)
       /\ N(probe) = IF probe = << >> THEN 0 ELSE One(probe[1], acts, n)
       /\ N(probe') = IF probe' = << >> THEN 0 ELSE One(probe'[1], acts, n)
  BY <1>4, <1>5
<1>11. N(hand) \in Nat /\ N(hand') \in Nat /\ N(probe) \in Nat /\ N(probe') \in Nat
  BY <1>6, <1>10
<1>12. hand # << >> => hand[1] \in JobReqs
  BY <1>3, <1>5
<1> HIDE DEF N
<1>20. J!Carried(acts, n) \in Nat /\ J!Carried(acts, n)' \in Nat
       /\ (UNCHANGED <<exec_req, hand, probe>> => J!Carried(acts, n)' = J!Carried(acts, n))
  BY <1>1, <1>2, <1>11
<1>21. \A r \in JobReqs :
       exec_req' = Append(exec_req, r) /\ UNCHANGED <<hand, probe>>
       => J!Carried(acts, n)' = J!Carried(acts, n) + One(r, acts, n)
  BY <1>1, <1>2, <1>6, <1>7, <1>11
<1>22. /\ exec_req # << >> /\ hand = << >>
       /\ hand' = <<Head(exec_req)>> /\ exec_req' = Tail(exec_req) /\ probe' = probe
       => J!Carried(acts, n)' = J!Carried(acts, n)
  BY <1>1, <1>2, <1>6, <1>8, <1>9, <1>10, <1>11
<1>23. hand # << >> /\ hand' = << >> /\ exec_req' = Append(exec_req, hand[1]) /\ probe' = probe
       => J!Carried(acts, n)' = J!Carried(acts, n)
  BY <1>1, <1>2, <1>6, <1>7, <1>10, <1>11, <1>12
<1>24. hand # << >> /\ hand' = << >> /\ probe = << >> /\ probe' = hand /\ exec_req' = exec_req
       => J!Carried(acts, n)' = J!Carried(acts, n)
  BY <1>1, <1>2, <1>10, <1>11
<1>25. hand # << >> /\ hand' = << >> /\ UNCHANGED <<exec_req, probe>>
       => J!Carried(acts, n)' = J!Carried(acts, n) - One(hand[1], acts, n)
  BY <1>1, <1>2, <1>6, <1>10, <1>11
<1>26. probe # << >> /\ probe' = << >> /\ UNCHANGED <<exec_req, hand>>
       => J!Carried(acts, n)' = J!Carried(acts, n) - One(probe[1], acts, n)
  BY <1>1, <1>2, <1>6, <1>10, <1>11
<1>27. \A r \in JobReqs :
       probe # << >> /\ probe' = << >> /\ exec_req' = Append(exec_req, r) /\ hand' = hand
       => J!Carried(acts, n)' = J!Carried(acts, n) - One(probe[1], acts, n) + One(r, acts, n)
  BY <1>1, <1>2, <1>6, <1>7, <1>10, <1>11
<1> QED
  BY <1>20, <1>21, <1>22, <1>23, <1>24, <1>25, <1>26, <1>27

\* What the invariant says of a node.
FailActs == {"probe_failed", "rmv_failed"}
NodeFollowed(n) ==
  /\ n \in owed => J!Leaving(n)
  /\ J!Carried({"probe_restart"}, n) = due[n]
  /\ due[n] > 0 => n \in known /\ ~ J!Leaving(n)

NodesAre ==
  /\ JobTypes /\ (curr_op # "rm_failed" => failed_id = {}) /\ (hand # << >> => awake)
  /\ ~awake /\ exec_req # << >> => exec_sem > 0
  /\ \A n \in JobNodes : NodeFollowed(n)
LEMMA NodesFollowed == (JobInv <=> NodesAre) /\ (JobInv' <=> NodesAre')
BY DEF JobInv, J!ResetIsFollowed, NodeFollowed, NodesAre, JobTypes

\* Requests from outside.
LEMMA JobsFromOutside ==
  ASSUME JobInv, JobFaults = {}, J!DeviceResetLocally \/ J!RestartTimeout \/ J!SucIdAssigned
  PROVE  JobInv'
<1>0. JobTypes /\ (curr_op # "rm_failed" => failed_id = {}) /\ (hand # << >> => awake)
      /\ \A n \in JobNodes : NodeFollowed(n)
  BY NodesFollowed DEF NodesAre
<1>1. ASSUME NEW r \in JobReqs, J!Posts(r), UNCHANGED <<known, curr_op, failed_id, awake, hand, probe>>,
             owed' \subseteq known, due' \in [JobNodes -> Int],
             \A n \in JobNodes :
               \/ n \in owed' /\ n \notin owed /\ n = r.node /\ r.action = "probe_failed" /\ due'[n] = 0 /\ due[n] = 0
               \/ (n \in owed' <=> n \in owed) /\ due'[n] = due[n] + One(r, {"probe_restart"}, n)
                  /\ (r.node = n /\ r.action \in FailActs => due[n] = 0)
                  /\ (r.node = n /\ r.action = "probe_restart" => n \in known /\ ~ J!Leaving(n))
      PROVE  JobInv'
  <2>1. exec_req' = Append(exec_req, r) /\ exec_req' \in Seq(JobReqs) /\ exec_sem' = exec_sem + 1
        /\ exec_req' # << >>
    BY <1>0, <1>1, AppendProperties DEF JobTypes, J!Posts
  <2>2. JobTypes'
    BY <1>0, <1>1, <2>1 DEF JobTypes
  <2>3. ASSUME NEW n \in JobNodes PROVE NodeFollowed(n)'
    <3>1. /\ J!Carried(FailActs, n)' = J!Carried(FailActs, n) + One(r, FailActs, n)
          /\ J!Carried(FailActs, n) \in Nat
          /\ J!Carried({"probe_restart"}, n)' = J!Carried({"probe_restart"}, n) + One(r, {"probe_restart"}, n)
          /\ J!Carried({"probe_restart"}, n) \in Nat
      BY <1>0, <1>1, <2>1, <2>2, CarriedGoes
    <3>2. NodeFollowed(n) /\ due[n] \in Int
      BY <1>0 DEF JobTypes
    <3>3. /\ J!Leaving(n) <=> n \in failed_id \/ J!Carried(FailActs, n) > 0
          /\ J!Leaving(n)' <=> n \in failed_id' \/ J!Carried(FailActs, n)' > 0
      BY DEF J!Leaving, FailActs
    <3> QED
      BY <1>1, <3>1, <3>2, <3>3 DEF NodeFollowed, One, Fits, FailActs
  <2> QED
    BY <1>0, <1>1, <2>1, <2>2, <2>3, NodesFollowed DEF NodesAre, JobTypes
<1>2. CASE J!DeviceResetLocally
  <2>1. PICK n \in known :
          /\ due[n] = 0 /\ J!Posts(J!Req("probe_failed", n)) /\ owed' = owed \cup {n}
          /\ UNCHANGED <<known, curr_op, failed_id, awake, hand, probe, due>>
    BY <1>2 DEF J!DeviceResetLocally, J!Apart, J!Net
  <2> DEFINE r == J!Req("probe_failed", n)
  <2>2. r \in JobReqs /\ r.action = "probe_failed" /\ r.node = n
    BY <1>0, <2>1 DEF J!Req, JobReqs, JobTypes
  <2>3. \A m \in JobNodes : One(r, {"probe_restart"}, m) = 0
    BY <2>2 DEF One, Fits
  <2>4. n \in JobNodes /\ owed' \subseteq known /\ due' \in [JobNodes -> Int]
    BY <1>0, <2>1 DEF JobTypes
  <2> HIDE DEF r
  <2> QED
    BY <1>0, <1>1, <2>1, <2>2, <2>3, <2>4 DEF JobTypes, FailActs, r
<1>3. CASE J!RestartTimeout
  <2>1. PICK n \in known :
          /\ ~ J!Leaving(n) /\ J!Posts(J!Req("probe_restart", n))
          /\ due' = [due EXCEPT ![n] = @ + 1]
          /\ UNCHANGED <<known, curr_op, failed_id, awake, hand, probe, owed>>
    BY <1>3 DEF J!RestartTimeout, J!Apart, J!Net
  <2> DEFINE r == J!Req("probe_restart", n)
  <2>2. r \in JobReqs /\ r.action = "probe_restart" /\ r.node = n
    BY <1>0, <2>1 DEF J!Req, JobReqs, JobTypes
  <2>3. \A m \in JobNodes : due'[m] = due[m] + One(r, {"probe_restart"}, m)
    BY <1>0, <2>1, <2>2 DEF One, Fits, JobTypes
  <2>4. owed' \subseteq known /\ due' \in [JobNodes -> Int]
    BY <1>0, <2>1 DEF JobTypes
  <2> HIDE DEF r
  <2> QED
    BY <1>0, <1>1, <2>1, <2>2, <2>3, <2>4 DEF FailActs, r
<1>4. CASE J!SucIdAssigned
  <2> DEFINE r == J!Req("cfg_lifeline", 0)
  <2>1. J!Posts(r) /\ UNCHANGED <<known, curr_op, failed_id, awake, hand, probe, owed, due>>
    BY <1>4 DEF J!SucIdAssigned, J!Net
  <2>2. r \in JobReqs /\ r.action = "cfg_lifeline"
    BY DEF J!Req, JobReqs
  <2>3. \A m \in JobNodes : One(r, {"probe_restart"}, m) = 0 /\ due[m] + 0 = due[m]
    BY <1>0, <2>2 DEF One, Fits, JobTypes
  <2>4. owed' \subseteq known /\ due' \in [JobNodes -> Int]
    BY <1>0, <2>1 DEF JobTypes
  <2> HIDE DEF r
  <2> QED
    BY <1>0, <1>1, <2>1, <2>2, <2>3, <2>4 DEF FailActs
<1> QED
  BY <1>2, <1>3, <1>4

\* The thread: a request is moved, or is given up with what it was for.
LEMMA JobsOfTheThread ==
  ASSUME JobInv, JobFaults = {},
         \/ J!Wakes \/ J!Takes \/ J!Rests
         \/ J!ProbeFailed \/ J!RemoveFailed \/ J!ProbeRestart \/ J!CfgLifeline
  PROVE  JobInv'
<1>0. NodesAre /\ JobTypes
  BY NodesFollowed DEF NodesAre
<1>1. /\ \A n : J!Leaving(n) <=> n \in failed_id \/ J!Carried(FailActs, n) > 0
      /\ \A n : J!Leaving(n)' <=> n \in failed_id' \/ J!Carried(FailActs, n)' > 0
  BY DEF J!Leaving, FailActs
<1>2. ASSUME JobTypes', hand' # << >> => awake', ~awake' /\ exec_req' # << >> => exec_sem' > 0,
             UNCHANGED <<known, curr_op, failed_id, due, owed>>,
             \A n \in JobNodes : /\ J!Carried(FailActs, n)' = J!Carried(FailActs, n)
                                 /\ J!Carried({"probe_restart"}, n)' = J!Carried({"probe_restart"}, n)
      PROVE  JobInv'
  <2>1. ASSUME NEW n \in JobNodes PROVE NodeFollowed(n)'
    <3>1. NodeFollowed(n)
      BY <1>0 DEF NodesAre
    <3> QED
      BY <3>1, <1>1, <1>2 DEF NodeFollowed
  <2> QED
    BY <1>0, <1>2, <2>1, NodesFollowed DEF NodesAre
<1>3. CASE J!Wakes \/ J!Rests
  <2>1. /\ UNCHANGED <<known, curr_op, failed_id, exec_req, hand, probe, due, owed>>
        /\ \/ awake' = TRUE /\ exec_sem' = exec_sem - 1 /\ exec_sem > 0
           \/ awake' = FALSE /\ exec_sem' = exec_sem /\ exec_req = << >> /\ hand = << >>
    BY <1>3 DEF J!Wakes, J!Rests, J!Net
  <2>4. exec_sem' \in Nat
    BY <1>0, <2>1 DEF JobTypes
  <2>5. awake' \in BOOLEAN
    BY <2>1
  <2>2. JobTypes'
    BY <1>0, <2>1, <2>4, <2>5, Zenon DEF JobTypes
  <2>3. \A n \in JobNodes : /\ J!Carried(FailActs, n)' = J!Carried(FailActs, n)
                            /\ J!Carried({"probe_restart"}, n)' = J!Carried({"probe_restart"}, n)
    BY <1>0, <2>1, <2>2, CarriedGoes
  <2> QED
    BY <1>2, <2>1, <2>2, <2>3
<1>4. CASE J!Takes
  <2>1. /\ awake /\ hand = << >> /\ exec_req # << >>
        /\ hand' = <<Head(exec_req)>> /\ exec_req' = Tail(exec_req)
        /\ UNCHANGED <<known, curr_op, failed_id, exec_sem, awake, probe, due, owed>>
    BY <1>4 DEF J!Takes, J!Net
  <2>2. Head(exec_req) \in JobReqs /\ Tail(exec_req) \in Seq(JobReqs)
    BY <1>0, <2>1, HeadTailProperties DEF JobTypes
  <2>3. JobTypes'
    BY <1>0, <2>1, <2>2 DEF JobTypes, Handed
  <2> QED
    BY <1>2, <2>1, <2>3, <1>0, CarriedGoes
\* What keeps a request: back to the queue, or sent.
<1>5. ASSUME hand # << >>, hand' = << >>,
             UNCHANGED <<known, curr_op, failed_id, exec_sem, awake, due, owed>>,
             \/ exec_req' = Append(exec_req, hand[1]) /\ probe' = probe
             \/ /\ hand[1].action \in {"probe_failed", "probe_restart"}
                /\ probe = << >> /\ probe' = hand /\ exec_req' = exec_req
      PROVE  JobInv'
  <2>1. hand[1] \in JobReqs /\ hand \in Handed /\ awake
    BY <1>0, <1>5 DEF JobTypes, Handed, NodesAre
  <2>2. exec_req' \in Seq(JobReqs)
    BY <1>0, <1>5, <2>1, AppendProperties DEF JobTypes
  <2>3. JobTypes'
    BY <1>0, <1>5, <2>1, <2>2 DEF JobTypes, Handed
  <2>4. \A n \in JobNodes : /\ J!Carried(FailActs, n)' = J!Carried(FailActs, n)
                            /\ J!Carried({"probe_restart"}, n)' = J!Carried({"probe_restart"}, n)
    BY <1>0, <1>5, <2>3, CarriedGoes
  <2> QED
    BY <1>2, <1>5, <2>1, <2>3, <2>4
\* What gives it up: nobody waits for it.
<1>6. ASSUME NEW m, hand # << >>, hand' = << >>, hand[1].node = m,
             UNCHANGED <<known, exec_req, probe, exec_sem, awake>>,
             JobTypes', curr_op' # "rm_failed" => failed_id' = {},
             \A n \in JobNodes : due'[n] = due[n] - One(hand[1], {"probe_restart"}, n),
             \A n \in JobNodes :
               \/ failed_id' = failed_id /\ ~ Fits(hand[1], FailActs, n) /\ owed' \subseteq owed
               \/ failed_id = {} /\ failed_id' = {m} /\ hand[1].action \in FailActs /\ owed' = owed
               \/ failed_id' = failed_id /\ n \notin owed' /\ owed' \subseteq owed
      PROVE  JobInv'
  <2>1. ASSUME NEW n \in JobNodes PROVE NodeFollowed(n)'
    <3>1. /\ J!Carried(FailActs, n)' = J!Carried(FailActs, n) - One(hand[1], FailActs, n)
          /\ J!Carried({"probe_restart"}, n)'
             = J!Carried({"probe_restart"}, n) - One(hand[1], {"probe_restart"}, n)
          /\ J!Carried(FailActs, n) \in Nat /\ J!Carried({"probe_restart"}, n) \in Nat
          /\ J!Carried(FailActs, n)' \in Nat /\ J!Carried({"probe_restart"}, n)' \in Nat
      BY <1>0, <1>6, CarriedGoes
    <3>2. NodeFollowed(n) /\ due[n] \in Int
      BY <1>0 DEF NodesAre, JobTypes
    <3> QED
      BY <3>1, <3>2, <1>1, <1>6 DEF NodeFollowed, One, Fits
  <2> QED
    BY <1>0, <1>6, <2>1, NodesFollowed DEF NodesAre
<1>7. CASE J!ProbeFailed
  <2>1. /\ hand # << >> /\ hand[1].action = "probe_failed" /\ hand' = << >>
        /\ UNCHANGED <<known, curr_op, failed_id, exec_sem, awake, due>>
        /\ \/ hand[1].node \notin known /\ UNCHANGED <<exec_req, probe, owed>>
           \/ exec_req' = Append(exec_req, hand[1]) /\ UNCHANGED <<probe, owed>>
           \/ probe = << >> /\ probe' = hand /\ UNCHANGED <<exec_req, owed>>
    BY <1>7 DEF J!ProbeFailed, J!Has, J!Kept, J!World, J!Net, J!Back, J!Sent
  <2>2. CASE hand[1].node \notin known /\ UNCHANGED <<exec_req, probe, owed>>
    <3>1. JobTypes' /\ \A n \in JobNodes : due'[n] = due[n] - One(hand[1], {"probe_restart"}, n)
      BY <1>0, <2>1, <2>2 DEF JobTypes, Handed, One, Fits
    <3>2. \A n \in JobNodes : ~ Fits(hand[1], FailActs, n) \/ n \notin owed'
      BY <1>0, <2>2 DEF JobTypes, Fits
    <3>3. curr_op' # "rm_failed" => failed_id' = {}
      BY <1>0, <2>1 DEF NodesAre
    <3> QED
      BY <1>6, <2>1, <2>2, <3>1, <3>2, <3>3
  <2>3. CASE ~ (hand[1].node \notin known /\ UNCHANGED <<exec_req, probe, owed>>)
    BY <1>5, <2>1, <2>3
  <2> QED
    BY <2>2, <2>3
<1>8. CASE J!RemoveFailed
  <2> DEFINE n == hand[1].node
  <2>1. /\ hand # << >> /\ hand[1].action = "rmv_failed" /\ hand' = << >>
        /\ UNCHANGED <<known, exec_sem, awake, due, probe>>
        /\ \/ n \notin known /\ UNCHANGED <<exec_req, owed, curr_op, failed_id>>
           \/ exec_req' = Append(exec_req, hand[1]) /\ UNCHANGED <<owed, curr_op, failed_id>>
           \/ n \in known /\ owed' = owed \ {n} /\ UNCHANGED <<exec_req, curr_op, failed_id>>
           \/ /\ curr_op = "none" /\ n \in known
              /\ curr_op' = "rm_failed" /\ failed_id' = {n} /\ UNCHANGED <<exec_req, owed>>
    BY <1>8 DEF J!RemoveFailed, J!Has, J!Kept, J!World, J!Back
  <2>2. CASE exec_req' = Append(exec_req, hand[1]) /\ UNCHANGED <<owed, curr_op, failed_id>>
    BY <1>5, <2>1, <2>2
  <2>3. CASE \/ n \notin known /\ UNCHANGED <<exec_req, owed, curr_op, failed_id>>
             \/ n \in known /\ owed' = owed \ {n} /\ UNCHANGED <<exec_req, curr_op, failed_id>>
    <3>1. JobTypes' /\ \A m \in JobNodes : due'[m] = due[m] - One(hand[1], {"probe_restart"}, m)
      BY <1>0, <2>1, <2>3 DEF JobTypes, Handed, One, Fits
    <3>2. \A m \in JobNodes : ~ Fits(hand[1], FailActs, m) \/ m \notin owed'
      BY <1>0, <2>3 DEF JobTypes, Fits
    <3>3. curr_op' # "rm_failed" => failed_id' = {}
      BY <1>0, <2>3 DEF NodesAre
    <3> QED
      BY <1>6, <2>1, <2>3, <3>1, <3>2, <3>3
  <2>4. CASE /\ curr_op = "none" /\ n \in known
             /\ curr_op' = "rm_failed" /\ failed_id' = {n} /\ UNCHANGED <<exec_req, owed>>
    <3>1. JobTypes' /\ \A m \in JobNodes : due'[m] = due[m] - One(hand[1], {"probe_restart"}, m)
      BY <1>0, <2>1, <2>4 DEF JobTypes, Handed, One, Fits
    <3>2. failed_id = {}
      BY <1>0, <2>4 DEF NodesAre
    <3>3. hand[1].action \in FailActs /\ curr_op' = "rm_failed" /\ failed_id' = {n}
          /\ UNCHANGED <<exec_req, owed>>
      BY <2>1, <2>4 DEF FailActs
    <3> HIDE DEF n
    <3> QED
      BY <1>6, <2>1, <3>1, <3>2, <3>3 DEF n
  <2> QED
    BY <2>1, <2>2, <2>3, <2>4
<1>9. CASE J!ProbeRestart
  <2>1. /\ hand # << >> /\ hand[1].action = "probe_restart" /\ hand' = << >> /\ hand[1].node \in known
        /\ UNCHANGED <<known, curr_op, failed_id, exec_sem, awake, owed>>
        /\ \/ exec_req' = Append(exec_req, hand[1]) /\ UNCHANGED <<probe, due>>
           \/ probe = << >> /\ probe' = hand /\ UNCHANGED <<exec_req, due>>
           \/ due' = [due EXCEPT ![hand[1].node] = @ - 1] /\ UNCHANGED <<exec_req, probe>>
    BY <1>9 DEF J!ProbeRestart, J!Has, J!Kept, J!World, J!Net, J!Back, J!Sent, J!Restarted
  <2>2. CASE due' = [due EXCEPT ![hand[1].node] = @ - 1] /\ UNCHANGED <<exec_req, probe>>
    <3>1. JobTypes'
      BY <1>0, <2>1, <2>2 DEF JobTypes, Handed
    <3>2. \A n \in JobNodes : due'[n] = due[n] - One(hand[1], {"probe_restart"}, n)
      BY <1>0, <2>1, <2>2 DEF JobTypes, One, Fits
    <3>3. \A n \in JobNodes : ~ Fits(hand[1], FailActs, n)
      BY <2>1 DEF Fits, FailActs
    <3>4. curr_op' # "rm_failed" => failed_id' = {}
      BY <1>0, <2>1 DEF NodesAre
    <3> QED
      BY <1>6, <2>1, <2>2, <3>1, <3>2, <3>3, <3>4
  <2>3. CASE \/ exec_req' = Append(exec_req, hand[1]) /\ UNCHANGED <<probe, due>>
             \/ probe = << >> /\ probe' = hand /\ UNCHANGED <<exec_req, due>>
    BY <1>5, <2>1, <2>3
  <2> QED
    BY <2>1, <2>2, <2>3
<1>10. CASE J!CfgLifeline
  <2>1. /\ hand # << >> /\ hand[1].action = "cfg_lifeline" /\ hand' = << >>
        /\ UNCHANGED <<known, curr_op, failed_id, exec_sem, awake, owed, due, probe>>
        /\ exec_req' = Append(exec_req, hand[1]) \/ UNCHANGED exec_req
    BY <1>10 DEF J!CfgLifeline, J!Has, J!Kept, J!World, J!Net, J!Back
  <2>2. CASE exec_req' = Append(exec_req, hand[1])
    BY <1>5, <2>1, <2>2
  <2>3. CASE UNCHANGED exec_req
    <3>1. JobTypes' /\ \A n \in JobNodes : due'[n] = due[n] - One(hand[1], {"probe_restart"}, n)
      BY <1>0, <2>1, <2>3 DEF JobTypes, Handed, One, Fits
    <3>2. \A n \in JobNodes : ~ Fits(hand[1], FailActs, n)
      BY <2>1 DEF Fits, FailActs
    <3>3. curr_op' # "rm_failed" => failed_id' = {}
      BY <1>0, <2>1 DEF NodesAre
    <3> QED
      BY <1>6, <2>1, <2>3, <3>1, <3>2, <3>3
  <2> QED
    BY <2>1, <2>2, <2>3
<1> QED
  BY <1>3, <1>4, <1>7, <1>8, <1>9, <1>10

\* The statuses of the probes and of the removal, and the world around.
LEMMA JobsAround ==
  ASSUME JobInv, JobFaults = {},
         \/ J!ProbeFailedStatus \/ J!ProbeRestartStatus \/ J!Removed
         \/ J!OperationBegins \/ J!OperationEnds \/ J!DeleteDone \/ J!AnswersAgain
  PROVE  JobInv'
<1>0. NodesAre /\ JobTypes
  BY NodesFollowed DEF NodesAre
<1>1. /\ \A n : J!Leaving(n) <=> n \in failed_id \/ J!Carried(FailActs, n) > 0
      /\ \A n : J!Leaving(n)' <=> n \in failed_id' \/ J!Carried(FailActs, n)' > 0
  BY DEF J!Leaving, FailActs
\* A probe's status: what was for its node is over, or is asked for again.
<1>2. ASSUME probe # << >>, probe' = << >>, NEW n, n = probe[1].node,
             UNCHANGED <<known, curr_op, failed_id, awake, hand>>,
             \/ /\ \E r \in JobReqs :
                     /\ exec_req' = Append(exec_req, r) /\ r.node = n
                     /\ r.action \in FailActs <=> probe[1].action \in FailActs
                     /\ r.action = "probe_restart" <=> probe[1].action = "probe_restart"
                /\ exec_sem' = exec_sem + 1 /\ UNCHANGED <<due, owed>>
             \/ /\ probe[1].action \in FailActs /\ owed' = owed \ {n} /\ UNCHANGED <<exec_req, exec_sem, due>>
             \/ /\ probe[1].action = "probe_restart" /\ n \in JobNodes
                /\ due' = [due EXCEPT ![n] = @ - 1] /\ UNCHANGED <<exec_req, exec_sem, owed>>
      PROVE  JobInv'
  <2>1. probe[1] \in JobReqs /\ probe \in Handed
    BY <1>0, <1>2 DEF JobTypes, Handed
  <2>2. exec_req' \in Seq(JobReqs) /\ exec_sem' \in Nat
    BY <1>0, <1>2, AppendProperties DEF JobTypes
  <2>3. owed' \subseteq owed /\ due' \in [JobNodes -> Int]
    BY <1>0, <1>2 DEF JobTypes
  <2>4. JobTypes'
    BY <1>0, <1>2, <2>2, <2>3 DEF JobTypes, Handed
  <2>5. ASSUME NEW m \in JobNodes PROVE NodeFollowed(m)'
    <3>1. NodeFollowed(m) /\ due[m] \in Int
      BY <1>0 DEF NodesAre, JobTypes
    <3>2. /\ J!Carried(FailActs, m) \in Nat /\ J!Carried({"probe_restart"}, m) \in Nat
          /\ J!Carried(FailActs, m)' \in Nat /\ J!Carried({"probe_restart"}, m)' \in Nat
      BY <1>0, <2>4, CarriedGoes
    <3>3. CASE exec_req' # exec_req
      <4>1. PICK r \in JobReqs :
              /\ exec_req' = Append(exec_req, r) /\ r.node = n
              /\ r.action \in FailActs <=> probe[1].action \in FailActs
              /\ r.action = "probe_restart" <=> probe[1].action = "probe_restart"
              /\ UNCHANGED <<due, owed>>
        BY <1>2, <3>3
      <4>2. One(r, FailActs, m) = One(probe[1], FailActs, m)
            /\ One(r, {"probe_restart"}, m) = One(probe[1], {"probe_restart"}, m)
            /\ One(r, FailActs, m) \in {0, 1} /\ One(r, {"probe_restart"}, m) \in {0, 1}
        BY <4>1, <1>2 DEF One, Fits
      <4>3. /\ J!Carried(FailActs, m)'
               = J!Carried(FailActs, m) - One(probe[1], FailActs, m) + One(r, FailActs, m)
            /\ J!Carried({"probe_restart"}, m)'
               = J!Carried({"probe_restart"}, m) - One(probe[1], {"probe_restart"}, m)
                 + One(r, {"probe_restart"}, m)
        BY <1>0, <1>2, <2>4, <4>1, CarriedGoes
      <4> QED
        BY <1>1, <1>2, <3>1, <3>2, <4>1, <4>2, <4>3 DEF NodeFollowed
    <3>4. CASE exec_req' = exec_req
      <4>1. /\ J!Carried(FailActs, m)' = J!Carried(FailActs, m) - One(probe[1], FailActs, m)
            /\ J!Carried({"probe_restart"}, m)'
               = J!Carried({"probe_restart"}, m) - One(probe[1], {"probe_restart"}, m)
        BY <1>0, <1>2, <2>4, <3>4, CarriedGoes
      <4>2. ~ (\E r \in JobReqs : exec_req' = Append(exec_req, r))
        <5> SUFFICES ASSUME NEW r \in JobReqs PROVE exec_req # Append(exec_req, r)
          BY <3>4
        <5>1. Len(Append(exec_req, r)) = Len(exec_req) + 1 /\ Len(exec_req) \in Nat
          BY <1>0, AppendProperties, LenProperties DEF JobTypes
        <5> QED
          BY <5>1
      <4>3. CASE probe[1].action \in FailActs /\ owed' = owed \ {n} /\ due' = due
        BY <1>1, <1>2, <3>1, <3>2, <4>1, <4>3 DEF NodeFollowed, One, Fits, FailActs
      <4>4. CASE probe[1].action = "probe_restart" /\ due' = [due EXCEPT ![n] = @ - 1] /\ owed' = owed
        <5>1. due'[m] = due[m] - One(probe[1], {"probe_restart"}, m)
          BY <1>0, <1>2, <4>4 DEF JobTypes, One, Fits
        <5> QED
          BY <1>1, <1>2, <3>1, <3>2, <4>1, <4>4, <5>1 DEF NodeFollowed, One, Fits, FailActs
      <4> QED
        BY <1>2, <4>2, <4>3, <4>4
    <3> QED
      BY <3>3, <3>4
  <2>6. ~awake' /\ exec_req' # << >> => exec_sem' > 0
    BY <1>0, <1>2 DEF NodesAre, JobTypes
  <2> QED
    BY <1>0, <1>2, <2>4, <2>5, <2>6, NodesFollowed DEF NodesAre
<1>3. CASE J!ProbeFailedStatus
  <2> DEFINE n == probe[1].node
             r == J!Req("rmv_failed", n)
  <2>1. /\ probe # << >> /\ probe[1].action = "probe_failed" /\ probe' = << >>
        /\ UNCHANGED <<known, curr_op, failed_id, awake, hand, due>>
        /\ \/ owed' = owed \ {n} /\ UNCHANGED <<exec_req, exec_sem>>
           \/ exec_req' = Append(exec_req, r) /\ exec_sem' = exec_sem + 1 /\ owed' = owed
    BY <1>3 DEF J!ProbeFailedStatus, J!World, J!Net, J!Posts
  <2>2. r \in JobReqs /\ r.action = "rmv_failed" /\ r.node = n
    BY <1>0, <2>1 DEF JobTypes, Handed, JobReqs, J!Req
  <2> HIDE DEF r, n
  <2> QED
    BY <1>2, <2>1, <2>2 DEF FailActs, n
<1>4. CASE J!ProbeRestartStatus
  <2> DEFINE n == probe[1].node
  <2>1. probe # << >> /\ probe[1].action = "probe_restart" /\ probe[1] \in JobReqs /\ n \in JobNodes
    BY <1>0, <1>4 DEF J!ProbeRestartStatus, JobTypes, Handed, JobReqs
  <2>2. n \in known
    <3>1. J!Carried({"probe_restart"}, n) > 0
      <4>1. /\ J!Count(exec_req, {"probe_restart"}, n) \in Nat
            /\ J!Count(hand, {"probe_restart"}, n) \in Nat
            /\ J!Count(probe, {"probe_restart"}, n) = 1
        <5>1. probe = <<probe[1]>> /\ (hand = << >> \/ (hand = <<hand[1]>> /\ hand[1] \in JobReqs))
          BY <1>0, <2>1 DEF JobTypes, Handed
        <5>2. J!Count(<<probe[1]>>, {"probe_restart"}, n) = 1
          BY <2>1, NumFew DEF One, Fits
        <5>3. J!Count(hand, {"probe_restart"}, n) \in Nat
          <6>1. CASE hand = << >>
            BY <6>1, NumFew
          <6>2. CASE hand = <<hand[1]>> /\ hand[1] \in JobReqs
            <7>1. J!Count(<<hand[1]>>, {"probe_restart"}, n) \in {0, 1}
              BY <6>2, NumFew DEF One
            <7> QED
              BY <6>2, <7>1
          <6> QED
            BY <5>1, <6>1, <6>2
        <5> QED
          BY <1>0, <5>1, <5>2, <5>3, NumNat DEF JobTypes
      <4> QED
        BY <4>1, CarriedNum
    <3> QED
      BY <1>0, <2>1, <3>1 DEF NodesAre, NodeFollowed
  <2>3. /\ probe' = << >> /\ UNCHANGED <<known, curr_op, failed_id, awake, hand, owed>>
        /\ \/ exec_req' = Append(exec_req, probe[1]) /\ exec_sem' = exec_sem + 1 /\ due' = due
           \/ due' = [due EXCEPT ![n] = @ - 1] /\ UNCHANGED <<exec_req, exec_sem>>
    BY <1>4, <2>2 DEF J!ProbeRestartStatus, J!World, J!Net, J!Posts, J!Restarted
  <2> HIDE DEF n
  <2> QED
    BY <1>2, <2>1, <2>3 DEF n
\* No request is moved.
<1>5. ASSUME UNCHANGED <<exec_req, exec_sem, awake, hand, probe, due>>, JobTypes',
             curr_op' # "rm_failed" => failed_id' = {},
             \A n \in JobNodes : /\ n \in owed' => n \in owed /\ (n \in failed_id => n \in failed_id')
                                 /\ n \in failed_id' => n \in failed_id
                                 /\ n \in known /\ due[n] > 0 => n \in known'
      PROVE  JobInv'
  <2>1. ASSUME NEW n \in JobNodes PROVE NodeFollowed(n)'
    <3>1. NodeFollowed(n)
      BY <1>0 DEF NodesAre
    <3>2. /\ J!Carried(FailActs, n)' = J!Carried(FailActs, n)
          /\ J!Carried({"probe_restart"}, n)' = J!Carried({"probe_restart"}, n)
      BY <1>0, <1>5, CarriedGoes
    <3> QED
      BY <3>1, <3>2, <1>1, <1>5 DEF NodeFollowed
  <2> QED
    BY <1>0, <1>5, <2>1, NodesFollowed DEF NodesAre
<1>6. CASE J!Removed
  <2>1. PICK n \in failed_id :
          /\ curr_op' = "none" /\ failed_id' = {} /\ owed' = owed \ {n} /\ known' \in {known, known \ {n}}
          /\ UNCHANGED <<exec_req, exec_sem, awake, hand, probe, due>>
    BY <1>6 DEF J!Removed, J!World, J!Forget
  <2>2. failed_id = {n} /\ n \in JobNodes
    BY <1>0, <2>1 DEF JobTypes
  <2>3. due[n] <= 0
    BY <1>0, <1>1, <2>2 DEF NodesAre, NodeFollowed, JobTypes
  <2>4. JobTypes'
    BY <1>0, <2>1 DEF JobTypes
  <2> QED
    BY <1>0, <1>5, <2>1, <2>2, <2>3, <2>4 DEF JobTypes
<1>7. CASE J!OperationBegins \/ J!OperationEnds \/ J!AnswersAgain
  <2>1. /\ UNCHANGED <<known, failed_id, exec_req, exec_sem, awake, hand, probe, due, owed>>
        /\ curr_op' = curr_op \/ (curr_op # "rm_failed" /\ curr_op' \in {"none", "other"})
    BY <1>7 DEF J!OperationBegins, J!OperationEnds, J!AnswersAgain, J!Net
  <2>2. JobTypes' /\ (curr_op' # "rm_failed" => failed_id' = {})
    BY <1>0, <2>1 DEF NodesAre, JobTypes
  <2> QED
    BY <1>5, <2>1, <2>2
<1>8. CASE J!DeleteDone
  <2>1. PICK n \in known :
          /\ due[n] = 0 /\ known' = known \ {n} /\ owed' = owed \ {n}
          /\ UNCHANGED <<curr_op, failed_id, exec_req, exec_sem, awake, hand, probe, due>>
    BY <1>8 DEF J!DeleteDone, J!Apart, J!Forget
  <2>2. JobTypes' /\ (curr_op' # "rm_failed" => failed_id' = {})
    BY <1>0, <2>1 DEF NodesAre, JobTypes
  <2> QED
    BY <1>5, <2>1, <2>2
<1> QED
  BY <1>3, <1>4, <1>6, <1>7, <1>8

LEMMA JobInvStep == JobFaults = {} /\ JobInv /\ [Next]_vars => JobInv'
<1> SUFFICES ASSUME JobFaults = {}, JobInv, [Next]_vars PROVE JobInv'
  OBVIOUS
<1>1. CASE UNCHANGED jobVars
  <2>1. NodesAre
    BY NodesFollowed
  <2>2. JobTypes'
    BY <1>1, <2>1 DEF jobVars, NodesAre, JobTypes
  <2>3. ASSUME NEW n \in JobNodes PROVE NodeFollowed(n)'
    <3>1. NodeFollowed(n)
      BY <2>1 DEF NodesAre
    <3>2. /\ J!Carried(FailActs, n)' = J!Carried(FailActs, n)
          /\ J!Carried({"probe_restart"}, n)' = J!Carried({"probe_restart"}, n)
      BY <1>1, <2>1, <2>2, CarriedGoes DEF jobVars, NodesAre
    <3> QED
      BY <1>1, <3>1, <3>2 DEF jobVars, NodeFollowed, J!Leaving, FailActs
  <2> QED
    BY <1>1, <2>1, <2>2, <2>3, NodesFollowed DEF jobVars, NodesAre
<1>2. CASE J!Next
  BY <1>2, JobsFromOutside, JobsOfTheThread, JobsAround DEF J!Next
<1> QED
  BY <1>1, <1>2, JobSteps

\* A node that said it resets itself is followed until it is out or answers, the thread
\* does not sleep over a request, and a restart is told as often as it is waited for, if
\* nothing is refused and no node that restarts is removed.
THEOREM ResetsAreFollowed ==
  ASSUME JobFaults = {}
  PROVE  Spec => []ResetIsFollowed
<1>1. Init => JobInv
  <2> SUFFICES ASSUME Init PROVE JobInv
    OBVIOUS
  <2>1. J!Init
    BY DEF Init
  <2>4. exec_req = << >> /\ hand = << >> /\ probe = << >> /\ exec_req \in Seq(JobReqs)
    BY <2>1, EmptySeq DEF J!Init
  <2>5. due \in [JobNodes -> Int] /\ known = JobNodes /\ owed = {} /\ failed_id = {}
        /\ curr_op = "none" /\ exec_sem = 0 /\ awake = FALSE
    BY <2>1 DEF J!Init, J!Nobody
  <2>6. << >> \in Handed
    BY DEF Handed
  <2>2. JobTypes
    BY <2>4, <2>5, <2>6 DEF JobTypes
  <2>3. ASSUME NEW n \in JobNodes PROVE NodeFollowed(n)
    <3>1. J!Count(<< >>, FailActs, n) = 0 /\ J!Count(<< >>, {"probe_restart"}, n) = 0
      BY NumFew
    <3>2. J!Carried(FailActs, n) = 0 /\ J!Carried({"probe_restart"}, n) = 0
      BY <2>1, <3>1 DEF J!Init, J!Carried
    <3> QED
      BY <2>1, <3>2 DEF J!Init, J!Nobody, NodeFollowed, J!Leaving, FailActs
  <2> QED
    BY <2>1, <2>2, <2>3, NodesFollowed DEF NodesAre, J!Init
<1>2. JobInv => ResetIsFollowed
  BY DEF JobInv, ResetIsFollowed
<1> QED
  BY <1>1, <1>2, JobInvStep, PTL DEF Spec

---------------------------------------------------------------------------
(***************************************************************************)
(* The controller as another node sees it.  Whoever turned the radio down   *)
(* for a time has left something that turns it up again: the half of the    *)
(* set that starts the timer, a timer with seconds left, the tick that waits *)
(* for the chip, or the test that is under way.  With one test at a time,    *)
(* what is counted is counted for it.                                        *)
(***************************************************************************)
LEMMA ServerSteps ==
  [Next]_vars => (side = "server" /\ S!Next) \/ UNCHANGED serverVars
BY DEF Next, vars

\* What may be in a frame.
CmdsOf(f) == {f.cmds[k] : k \in DOMAIN f.cmds}
SrvCmds == UNION {CmdsOf(f) : f \in Frames}
LEMMA CmdsOfFrames ==
  ASSUME NEW f \in Frames
  PROVE  /\ f.cmds \in Seq(SrvCmds)
         /\ \A c \in SrvCmds : c.op = "power_set" => c.secs \in Nat
<1>1. f.cmds \in Seq(CmdsOf(f))
  BY PartsAssumption DEF PartsAssumption, S!ServerAssumption, CmdsOf
<1>2. CmdsOf(f) \subseteq SrvCmds
  BY DEF SrvCmds
<1>3. ASSUME NEW c \in SrvCmds, c.op = "power_set" PROVE c.secs \in Nat
  <2>1. PICK g \in Frames : c \in CmdsOf(g)
    BY <1>3 DEF SrvCmds
  <2>2. PICK k \in DOMAIN g.cmds : c = g.cmds[k]
    BY <2>1 DEF CmdsOf
  <2>3. c.secs \in 0 .. 255
    BY <1>3, <2>2, PartsAssumption DEF PartsAssumption, S!ServerAssumption
  <2> QED
    BY <2>3
<1> QED
  BY <1>1, <1>2, <1>3, SeqMonotonic

LowInv ==
  /\ pending \in Seq(SrvCmds) /\ left \in Nat
  /\ half # << >> => half[1].secs \in Nat \ {0}
  /\ S!LowPowerEnds

\* A step that takes the next command.
LEMMA TakesOne ==
  ASSUME pending \in Seq(SrvCmds), NEW op, S!Takes(op), S!Done
  PROVE  /\ pending' \in Seq(SrvCmds) /\ S!C \in SrvCmds /\ S!C.op = op /\ half = << >>
         /\ pending # << >> /\ pending' = Tail(pending) /\ S!C = pending[1]
BY HeadTailProperties DEF S!Takes, S!Done, S!C

LEMMA LowInvStep ==
  ASSUME LowInv, PowerFaults \subseteq {"overlap"}, [Next]_vars
  PROVE  LowInv'
<1>1. CASE UNCHANGED serverVars
  BY <1>1 DEF serverVars, LowInv, S!LowPowerEnds
<1>2. CASE S!Receives \/ S!Drops
  <2>1. /\ UNCHANGED <<half, tick, chains, level, left, tmr, forever>>
        /\ pending' = pending \/ \E f \in Frames : pending' = f.cmds
    BY <1>2 DEF S!Receives, S!Drops, S!power
  <2> QED
    BY <2>1, CmdsOfFrames DEF LowInv, S!LowPowerEnds
<1>3. CASE S!Refuses \/ S!Answers \/ S!AssociationSet \/ S!AssociationRemove
  <2>1. /\ UNCHANGED <<half, tick, chains, level, left, tmr, forever>>
        /\ pending # << >> /\ pending' = Tail(pending)
    BY <1>3 DEF S!Refuses, S!Answers, S!AssociationSet, S!AssociationRemove, S!power, S!Done, S!Takes
  <2>2. pending' \in Seq(SrvCmds)
    BY <2>1, HeadTailProperties DEF LowInv
  <2> QED
    BY <2>1, <2>2 DEF LowInv, S!LowPowerEnds
<1>4. CASE S!PowerSet
  <2>1. /\ S!Takes("power_set") /\ S!Done /\ UNCHANGED <<left, tmr, tick, chains>>
        /\ \/ /\ level' = S!C.level /\ forever' = (S!C.secs = 0)
              /\ half' = IF S!C.secs = 0 THEN << >> ELSE <<S!C>>
           \/ UNCHANGED <<level, forever, half>>
    BY <1>4 DEF S!PowerSet
  <2>2. pending' \in Seq(SrvCmds) /\ S!C.secs \in Nat /\ half = << >>
    <3>1. S!C \in SrvCmds /\ S!C.op = "power_set" /\ pending' \in Seq(SrvCmds) /\ half = << >>
      BY <2>1, TakesOne DEF LowInv
    <3>2. \E f \in Frames : TRUE
      BY <3>1 DEF SrvCmds
    <3> QED
      BY <3>1, <3>2, CmdsOfFrames
  <2>3. CASE UNCHANGED <<level, forever, half>>
    BY <2>1, <2>2, <2>3 DEF LowInv, S!LowPowerEnds
  <2>4. CASE half' = << >> /\ forever' = TRUE
    BY <2>1, <2>2, <2>4 DEF LowInv, S!LowPowerEnds
  <2>5. CASE half' = <<S!C>> /\ S!C.secs # 0
    <3>1. half'[1].secs \in Nat \ {0} /\ half' # << >>
      BY <2>2, <2>5
    <3> QED
      BY <2>1, <2>2, <3>1 DEF LowInv, S!LowPowerEnds
  <2> QED
    BY <2>1, <2>3, <2>4, <2>5
<1>5. CASE S!PowerTimed
  BY <1>5 DEF S!PowerTimed, LowInv, S!LowPowerEnds
<1>6. CASE S!SecondPasses
  BY <1>6 DEF S!SecondPasses, S!power, LowInv, S!LowPowerEnds
<1>7. CASE S!TickCounts
  BY <1>7 DEF S!TickCounts, LowInv, S!LowPowerEnds
<1>8. CASE S!TickRestores
  BY <1>8 DEF S!TickRestores, LowInv, S!LowPowerEnds
<1>9. CASE S!TestNodeSet
  <2>1. /\ S!Takes("test_set") /\ S!Done /\ UNCHANGED <<half, left, tmr, tick>>
        /\ chains' = chains \cup {S!Chain(S!C)} \/ UNCHANGED <<level, forever, chains>>
    BY <1>9 DEF S!TestNodeSet
  <2>2. pending' \in Seq(SrvCmds)
    BY <2>1, TakesOne DEF LowInv
  <2> QED
    BY <2>1, <2>2 DEF LowInv, S!LowPowerEnds
<1>10. CASE S!TestFrameStatus
  <2>1. /\ UNCHANGED <<pending, half, left, tmr, tick>>
        /\ level' = 0 \/ (chains' # {} /\ UNCHANGED <<level, forever>>)
    BY <1>10 DEF S!TestFrameStatus, S!TestStatus, S!Ends, S!GoesOn
  <2> QED
    BY <2>1 DEF LowInv, S!LowPowerEnds
<1> QED
  BY <1>1, <1>2, <1>3, <1>4, <1>5, <1>6, <1>7, <1>8, <1>9, <1>10, ServerSteps DEF S!Next

\* A radio that was turned down for a while or for a test comes back by itself, if the
\* chip does what it is told: also with several tests at once.
THEOREM LowPowerIsEnded ==
  ASSUME PowerFaults \subseteq {"overlap"}
  PROVE  Spec => []LowPowerEnds
<1>1. Init => LowInv
  BY EmptySeq DEF Init, S!Init, LowInv, S!LowPowerEnds
<1>2. LowInv /\ [Next]_vars => LowInv'
  BY LowInvStep
<1>3. LowInv => LowPowerEnds
  BY DEF LowInv, LowPowerEnds
<1> QED
  BY <1>1, <1>2, <1>3, PTL DEF Spec

\* One test is under way at a time, and test holds what it has come to.
Tests(k) == pending[k].op = "test_set"
TestInv ==
  /\ pending \in Seq(SrvCmds)
  /\ \A j, k \in DOMAIN pending : Tests(j) /\ Tests(k) => j = k
  /\ \A c, d \in chains : c = d
  /\ chains # {} => \A k \in DOMAIN pending : ~ Tests(k)
  /\ DOMAIN test = {"node", "sts", "acks"}
  /\ \A c \in chains :
       /\ DOMAIN c = {"src", "enc", "node", "level", "count", "sent", "got"}
       /\ c.node = test.node /\ c.got = test.acks
  /\ S!TestReportTrue

\* No frame holds two commands that begin a test.
OneTestEach ==
  \A f \in Frames : \A j, k \in DOMAIN f.cmds :
    f.cmds[j].op = "test_set" /\ f.cmds[k].op = "test_set" => j = k

LEMMA TestInvStep ==
  ASSUME TestInv, "overlap" \notin PowerFaults, OneTestEach, [Next]_vars
  PROVE  TestInv'
<1>1. CASE UNCHANGED serverVars
  BY <1>1 DEF serverVars, TestInv, Tests, S!TestReportTrue
<1>2. CASE S!Receives
  <2>1. PICK f \in Frames :
          /\ (\E k \in DOMAIN f.cmds : f.cmds[k].op = "test_set") => chains = {}
          /\ pending' = f.cmds
    BY <1>2 DEF S!Receives
  <2>2. UNCHANGED <<chains, test, ended>>
    BY <1>2 DEF S!Receives
  <2>3. \A j, k \in DOMAIN pending' : Tests(j)' /\ Tests(k)' => j = k
    BY <2>1 DEF OneTestEach, Tests
  <2> QED
    BY <2>1, <2>2, <2>3, CmdsOfFrames DEF TestInv, Tests, S!TestReportTrue
<1>3. CASE UNCHANGED <<pending, chains, test, ended>>
  BY <1>3 DEF TestInv, Tests, S!TestReportTrue
\* The next command is taken.
<1>4. ASSUME pending # << >>, pending' = Tail(pending)
      PROVE  /\ pending' \in Seq(SrvCmds)
             /\ \A k \in DOMAIN pending' : k + 1 \in DOMAIN pending /\ (Tests(k)' <=> Tests(k + 1))
             /\ \A j, k \in DOMAIN pending' : Tests(j)' /\ Tests(k)' => j = k
             /\ Tests(1) => \A k \in DOMAIN pending' : ~ Tests(k)'
  <2>1. /\ pending' \in Seq(SrvCmds) /\ Len(pending) \in Nat \ {0} /\ DOMAIN pending = 1 .. Len(pending)
        /\ DOMAIN pending' = 1 .. Len(pending) - 1
        /\ \A k \in 1 .. Len(pending) - 1 : pending'[k] = pending[k + 1]
    BY <1>4, HeadTailProperties, LenProperties, EmptySeq DEF TestInv
  <2>2. \A k \in DOMAIN pending' : k \in Nat /\ k + 1 \in DOMAIN pending /\ (Tests(k)' <=> Tests(k + 1))
    BY <2>1 DEF Tests
  <2>3. 1 \in DOMAIN pending
    BY <2>1
  <2> QED
    BY <2>1, <2>2, <2>3 DEF TestInv
<1>5. CASE pending # << >> /\ pending' = Tail(pending) /\ UNCHANGED <<chains, test, ended>>
  BY <1>4, <1>5 DEF TestInv, S!TestReportTrue
<1>6. CASE S!TestNodeSet /\ ~ UNCHANGED <<chains, test, ended>>
  <2>1. /\ S!Takes("test_set") /\ S!Done /\ UNCHANGED ended
        /\ test' = [node |-> S!C.node, sts |-> "in_progress", acks |-> 0]
        /\ chains' = chains \cup {S!Chain(S!C)} \/ chains' = chains
    BY <1>6 DEF S!TestNodeSet
  <2>2. pending # << >> /\ pending' = Tail(pending) /\ Tests(1)
    BY <2>1, TakesOne DEF Tests, TestInv
  <2>3. chains = {}
    <3>1. 1 \in DOMAIN pending
      BY <2>2, LenProperties, EmptySeq DEF TestInv
    <3> QED
      BY <2>2, <3>1 DEF TestInv
  <2>4. /\ DOMAIN test' = {"node", "sts", "acks"}
        /\ test'.node = S!C.node /\ test'.acks = 0
    BY <2>1
  <2>5. \A c \in chains' :
          /\ DOMAIN c = {"src", "enc", "node", "level", "count", "sent", "got"}
          /\ c.node = test'.node /\ c.got = test'.acks
    BY <2>1, <2>3, <2>4 DEF S!Chain
  <2> QED
    BY <1>4, <2>1, <2>2, <2>3, <2>4, <2>5 DEF TestInv, S!TestReportTrue
<1>7. CASE S!TestFrameStatus
  <2>1. PICK c \in chains, ok \in BOOLEAN : S!TestStatus(c, ok) /\ pending' = pending
    BY <1>7 DEF S!TestFrameStatus
  <2> DEFINE acks == test.acks + (IF ok THEN 1 ELSE 0)
             got == c.got + (IF ok THEN 1 ELSE 0)
  <2>2. acks = got /\ chains = {c} /\ c.node = test.node
    BY <2>1 DEF TestInv
  <2>3. S!Ends(c, acks, got) \/ S!GoesOn(c, acks, got)
    BY <2>1 DEF S!TestStatus
  <2> HIDE DEF acks, got
  <2>4. CASE S!Ends(c, acks, got)
    <3> DEFINE t == [test EXCEPT !.acks = acks, !.sts = IF acks > 0 THEN "success" ELSE "failed"]
               e == [c EXCEPT !.got = got]
    <3>1. /\ test' = t /\ chains' = {}
          /\ ended' = <<e, S!Sends(c.src, c.enc, <<"test_get", t.node, t.sts, t.acks>>)>>
      BY <2>2, <2>4 DEF S!Ends
    <3>2. /\ DOMAIN t = {"node", "sts", "acks"}
          /\ t.node = test.node /\ t.acks = acks /\ t.sts = IF acks > 0 THEN "success" ELSE "failed"
      BY DEF TestInv
    <3>3. e.src = c.src /\ e.enc = c.enc /\ e.node = c.node /\ e.got = got
      BY <2>1 DEF TestInv
    <3> HIDE DEF t, e
    <3>4. S!TestReportTrue'
      BY <2>2, <3>1, <3>2, <3>3 DEF S!TestReportTrue, S!Sends
    <3> QED
      BY <2>1, <3>1, <3>2, <3>4 DEF TestInv, Tests
  <2>5. CASE S!GoesOn(c, acks, got)
    <3> DEFINE d == [c EXCEPT !.sent = @ + 1, !.got = got]
    <3>1. test' = [test EXCEPT !.acks = acks] /\ chains' \in {{}, {d}} /\ ended' = ended
      BY <2>2, <2>5 DEF S!GoesOn
    <3>2. /\ DOMAIN test' = {"node", "sts", "acks"}
          /\ test'.node = test.node /\ test'.acks = acks
      BY <3>1 DEF TestInv
    <3>3. /\ DOMAIN d = {"src", "enc", "node", "level", "count", "sent", "got"}
          /\ d.node = c.node /\ d.got = got
      BY <2>1 DEF TestInv
    <3> HIDE DEF d
    <3> QED
      BY <2>1, <2>2, <3>1, <3>2, <3>3 DEF TestInv, Tests, S!TestReportTrue
  <2> QED
    BY <2>3, <2>4, <2>5
<1> QED
  <2>1. ASSUME S!Next, ~ S!Receives, ~ S!TestFrameStatus
        PROVE  \/ UNCHANGED <<pending, chains, test, ended>>
               \/ pending # << >> /\ pending' = Tail(pending)
                  /\ (UNCHANGED <<chains, test, ended>> \/ S!TestNodeSet)
    BY <2>1 DEF S!Next, S!Drops, S!Refuses, S!Answers, S!AssociationSet, S!AssociationRemove, S!PowerSet,
       S!PowerTimed, S!SecondPasses, S!TickCounts, S!TickRestores, S!TestNodeSet, S!Takes, S!Done
  <2> QED
    BY <1>1, <1>2, <1>3, <1>5, <1>6, <1>7, <2>1, ServerSteps

\* The report of a link test tells its own node and its own frames, if no test is begun
\* before the last has ended.
THEOREM TestsReportTrue ==
  ASSUME "overlap" \notin PowerFaults, OneTestEach
  PROVE  Spec => []TestReportTrue
<1>1. Init => TestInv
  BY EmptySeq DEF Init, S!Init, TestInv, S!TestReportTrue
<1>2. TestInv /\ [Next]_vars => TestInv'
  BY TestInvStep
<1>3. TestInv => TestReportTrue
  BY DEF TestInv, TestReportTrue
<1> QED
  BY <1>1, <1>2, <1>3, PTL DEF Spec
---------------------------------------------------------------------------
(***************************************************************************)
(* The commands for the chip.  A call that is under way has no result yet   *)
(* and is one thread's own, so that what the controller makes of a command   *)
(* is not changed after the result was read; and a completion function is    *)
(* entered in cb_map, and kept for the timeout, together with its parameter. *)
(***************************************************************************)
LEMMA CommandSteps ==
  [Next]_vars => (side = "commands" /\ H!Next) \/ UNCHANGED commandVars
BY DEF Next, vars

\* What tells a function apart.
Resps == {"none", "value", "measured", "any", "status", "TX_Q_OVERFLOW", "ALREADY_ACTIVE",
          "NOT_STARTED", "MEMORY"}
FnIs(f) == /\ f.resp \in Resps
           /\ "cb" \in f.kept /\ f.prm => "prm" \in f.kept
           /\ "prm" \in f.kept => "cb" \in f.kept
LEMMA FunctionsAre == \A f \in H!Functions : FnIs(f)
<1>1. ASSUME NEW resp \in Resps, NEW cmd, NEW cb
      PROVE  /\ FnIs(H!Heap(cmd, cb, resp)) /\ FnIs([H!Heap(cmd, cb, resp) EXCEPT !.prm = TRUE])
             /\ FnIs(H!Asks(resp)) /\ FnIs(H!Stack(resp))
             /\ FnIs([H!Stack(resp) EXCEPT !.locks = FALSE])
             /\ FnIs(H!Route(cmd))
             /\ FnIs([H!Route(cmd) EXCEPT !.prm = TRUE, !.kept = {"cb", "prm"}])
             /\ FnIs([H!Heap(cmd, cb, resp) EXCEPT !.gate = "cmd", !.prm = TRUE, !.kept = {"cb", "prm"}])
  BY <1>1 DEF FnIs, H!Heap, H!Asks, H!Stack, H!Route, Resps
<1>2. \A r \in {"none", "value", "measured", "any", "status", "TX_Q_OVERFLOW", "NOT_STARTED", "MEMORY"} :
        r \in Resps
  BY DEF Resps
<1>3. FnIs(H!zw_send_data) /\ FnIs(H!zw_assign_return_route) /\ FnIs(H!zw_delete_return_route)
      /\ FnIs(H!zw_assign_suc_return_route) /\ FnIs(H!zw_delete_suc_return_route)
  BY <1>1, <1>2 DEF H!zw_send_data, H!zw_assign_return_route, H!zw_delete_return_route,
     H!zw_assign_suc_return_route, H!zw_delete_suc_return_route
<1>4. /\ FnIs(H!zw_request_network_update) /\ FnIs(H!zw_set_suc_node_id) /\ FnIs(H!zw_send_suc_id)
      /\ FnIs(H!zw_remove_failed_node_id) /\ FnIs(H!zw_replace_failed_node)
      /\ FnIs(H!zw_replication_send) /\ FnIs(H!zw_send_node_info) /\ FnIs(H!zw_send_test_frame)
      /\ FnIs(H!zw_memory_put_buffer) /\ FnIs(H!zw_request_node_neighbor_update)
  BY <1>1, <1>2 DEF H!zw_request_network_update, H!zw_set_suc_node_id, H!zw_send_suc_id,
     H!zw_remove_failed_node_id, H!zw_replace_failed_node, H!zw_replication_send, H!zw_send_node_info,
     H!zw_send_test_frame, H!zw_memory_put_buffer, H!zw_request_node_neighbor_update
<1>5. /\ FnIs(H!zw_add_node_to_network) /\ FnIs(H!zw_remove_node_from_network)
      /\ FnIs(H!zw_create_new_primary_ctrl) /\ FnIs(H!zw_controller_change)
      /\ FnIs(H!zw_set_learn_mode) /\ FnIs(H!zw_set_default)
  BY <1>1, <1>2 DEF H!zw_add_node_to_network, H!zw_remove_node_from_network,
     H!zw_create_new_primary_ctrl, H!zw_controller_change, H!zw_set_learn_mode, H!zw_set_default
<1>6. /\ FnIs(H!application_node_info) /\ FnIs(H!zw_enable_suc) /\ FnIs(H!zw_is_failed_node)
      /\ FnIs(H!zw_memory_get_buffer) /\ FnIs(H!zw_get_suc_node_id) /\ FnIs(H!zw_version)
      /\ FnIs(H!zw_get_controller_capabilities) /\ FnIs(H!zw_memory_get_id)
      /\ FnIs(H!zw_get_node_protocol_info) /\ FnIs(H!zw_get_random_word)
  BY <1>1, <1>2 DEF H!application_node_info, H!zw_enable_suc, H!zw_is_failed_node,
     H!zw_memory_get_buffer, H!zw_get_suc_node_id, H!zw_version, H!zw_get_controller_capabilities,
     H!zw_memory_get_id, H!zw_get_node_protocol_info, H!zw_get_random_word
<1>7. /\ FnIs(H!zw_serial_api_capabilities) /\ FnIs(H!zw_serial_api_get_init_data)
      /\ FnIs(H!zw_get_rf_powerlevel) /\ FnIs(H!zw_set_rf_powerlevel)
      /\ FnIs(H!zw_request_node_info) /\ FnIs(H!zw_set_rf_receive_mode) /\ FnIs(H!zw_soft_reset)
      /\ FnIs(H!zw_replication_receive_complete) /\ FnIs(H!zw_flash_auto_prog_mode)
      /\ FnIs(H!zw_send_data_abort)
  BY <1>1, <1>2 DEF H!zw_serial_api_capabilities, H!zw_serial_api_get_init_data,
     H!zw_get_rf_powerlevel, H!zw_set_rf_powerlevel, H!zw_request_node_info,
     H!zw_set_rf_receive_mode, H!zw_soft_reset, H!zw_replication_receive_complete,
     H!zw_flash_auto_prog_mode, H!zw_send_data_abort
<1> QED
  BY <1>3, <1>4, <1>5, <1>6, <1>7 DEF H!Functions

\* A result of 0 is of a response that tells so.
OkIsTold(f, a) == f.resp \in {"none", "value", "measured"} \/ ~ H!Refuses(f, a)
LEMMA ResultIsTold ==
  ASSUME NEW f \in H!Functions, NEW a, H!Result(f.resp, a) = "OK"
  PROVE  OkIsTold(f, a)
BY FunctionsAre DEF FnIs, Resps, H!Result, OkIsTold, H!Refuses

CmdResults == {"none", "WAIT_CB", "MEMORY", "SESSION", "OK", "UNSET", "TX_Q_OVERFLOW", "ALREADY_ACTIVE",
               "NOT_STARTED"}
CmdAnswers == {"lost", "yes", "no", "short"}
CmdTypes ==
  /\ calls \in Seq([fn : H!Functions, given : BOOLEAN])
  /\ results \in Seq(CmdResults) /\ answers \in Seq(CmdAnswers)
  /\ Len(results) = Len(calls) /\ Len(answers) = Len(calls)
  /\ within \in [Threads -> {<< >>} \cup (Nat \X {"enters", "sent"})]
  /\ DOMAIN cb_map = 1 .. MaxFuncId /\ last_func_id \in 0 .. MaxFuncId
  /\ \A e \in owing : e.id \in 1 .. MaxFuncId

\* The function of a call, and the parameter it has in cb_map.
Fn(cs, n) == cs[n].fn
Par(cs, n) == IF cs[n].fn.prm THEN n ELSE 0
Called == 1 .. Len(calls)
\* A call under way is one thread's and has no result.
UnderWay ==
  \A t \in Threads :
    within[t] # << >> =>
      /\ within[t][1] \in Called /\ results[within[t][1]] = "none"
      /\ \A u \in Threads : u # t /\ within[u] # << >> => within[u][1] # within[t][1]
\* A completion function is entered with its parameter.
Pair(cs, e) ==
  e.cb # 0 => e.cb \in 1 .. Len(cs) /\ e.prm = Par(cs, e.cb) /\ e.read = Fn(cs, e.cb).cb
Kept(cs, cb, prm) ==
  cb # 0 => cb \in 1 .. Len(cs) /\ (Fn(cs, cb).prm => prm = cb)
Entered ==
  /\ \A i \in 1 .. MaxFuncId : Pair(calls, cb_map[i])
  /\ Kept(calls, send_data_cb, snd_dat_cb_prm)
True(cs, c) ==
  c.cb # 0 =>
    /\ c.prm = Par(cs, c.cb) \/ (c.by = "timeout" /\ ~ Fn(cs, c.cb).prm)
    /\ c.by \in {Fn(cs, c.cb).cb, "timeout"}
RunsTrue == \A c \in called : True(calls, c)
ResultTrue(f, r, a) == r = "OK" => a # "lost" /\ OkIsTold(f, a)
ResultsTrue == \A n \in Called : ResultTrue(Fn(calls, n), results[n], answers[n])
CommandInv == CmdTypes /\ UnderWay /\ Entered /\ RunsTrue /\ ResultsTrue

LEMMA CalledAre ==
  ASSUME CmdTypes
  PROVE  /\ Len(calls) \in Nat
         /\ DOMAIN calls = Called /\ DOMAIN results = Called /\ DOMAIN answers = Called
         /\ \A n \in Called : Fn(calls, n) \in H!Functions
<1>1. /\ Len(calls) \in Nat
      /\ DOMAIN calls = Called /\ DOMAIN results = Called /\ DOMAIN answers = Called
  BY LenProperties DEF CmdTypes, Called
<1>2. ASSUME NEW n \in Called PROVE Fn(calls, n) \in H!Functions
  <2>1. calls[n] \in [fn : H!Functions, given : BOOLEAN]
    BY ElementOfSeq DEF CmdTypes, Called
  <2> QED
    BY <2>1 DEF Fn
<1> QED
  BY <1>1, <1>2

\* Calls that are added leave those that were there.
LEMMA CallsKept ==
  ASSUME NEW cs, NEW ds, Len(cs) \in Nat, Len(ds) = Len(cs) + 1,
         \A k \in 1 .. Len(cs) : ds[k] = cs[k]
  PROVE  /\ \A e : Pair(cs, e) => Pair(ds, e)
         /\ \A cb, prm : Kept(cs, cb, prm) => Kept(ds, cb, prm)
BY DEF Pair, Kept, Par, Fn

LEMMA EnterKeeps ==
  ASSUME CommandInv, NEW t \in Threads, H!Enter(t)
  PROVE  CommandInv'
<1>0. PICK n : n = Len(calls) + 1
  OBVIOUS
<1>1. PICK f \in H!Functions, given \in BOOLEAN :
        /\ calls' = Append(calls, [fn |-> f, given |-> given])
        /\ \/ /\ results' = Append(results, "WAIT_CB") \/ results' = Append(results, "MEMORY")
              /\ UNCHANGED <<within, send_data_cb, snd_dat_cb_prm>>
           \/ /\ within' = [within EXCEPT ![t] = <<n, "enters">>]
              /\ results' = Append(results, "none")
              /\ send_data_cb' = IF "cb" \notin f.kept THEN send_data_cb ELSE IF given THEN n ELSE 0
              /\ snd_dat_cb_prm' = IF "prm" \in f.kept THEN n ELSE snd_dat_cb_prm
  BY <1>0 DEF H!Enter
<1>2. /\ answers' = Append(answers, "lost") /\ called' = {} /\ within[t] = << >>
      /\ UNCHANGED <<cb_map, last_func_id, owing>>
  BY DEF H!Enter, H!Busy, H!cbVars
<1>3. PICK r \in {"WAIT_CB", "MEMORY", "none"} : results' = Append(results, r)
  BY <1>1
<1>4. /\ calls \in Seq([fn : H!Functions, given : BOOLEAN]) /\ results \in Seq(CmdResults)
      /\ answers \in Seq(CmdAnswers) /\ Len(results) = Len(calls) /\ Len(answers) = Len(calls)
      /\ Len(calls) \in Nat /\ n \in Nat /\ n # 0 /\ n \notin Called
  BY <1>0, LenProperties DEF CommandInv, CmdTypes, Called
<1>5. /\ calls' \in Seq([fn : H!Functions, given : BOOLEAN]) /\ Len(calls') = n
      /\ calls'[n] = [fn |-> f, given |-> given] /\ \A k \in Called : calls'[k] = calls[k]
  BY <1>0, <1>1, <1>4, AppendProperties DEF Called
<1>15. r \in CmdResults /\ "lost" \in CmdAnswers
  BY <1>3 DEF CmdResults, CmdAnswers
<1>6. /\ results' \in Seq(CmdResults) /\ Len(results') = n
      /\ results'[n] = r /\ \A k \in Called : results'[k] = results[k]
  BY <1>0, <1>3, <1>4, <1>15, AppendProperties DEF Called
<1>7. /\ answers' \in Seq(CmdAnswers) /\ Len(answers') = n
      /\ answers'[n] = "lost" /\ \A k \in Called : answers'[k] = answers[k]
  BY <1>0, <1>2, <1>4, <1>15, AppendProperties DEF Called
<1>8. Called' = Called \cup {n}
  BY <1>0, <1>4, <1>5 DEF Called
<1>9. /\ \A k \in Called : Fn(calls', k) = Fn(calls, k)
      /\ Fn(calls', n) = f
  BY <1>5 DEF Fn
<1>10. CmdTypes'
  <2>1. within' \in [Threads -> {<< >>} \cup (Nat \X {"enters", "sent"})]
    <3>1. within \in [Threads -> {<< >>} \cup (Nat \X {"enters", "sent"})]
      BY DEF CommandInv, CmdTypes
    <3>2. <<n, "enters">> \in {<< >>} \cup (Nat \X {"enters", "sent"})
      BY <1>4
    <3> QED
      BY <1>1, <3>1, <3>2
  <2> QED
    BY <1>2, <1>5, <1>6, <1>7, <2>1 DEF CommandInv, CmdTypes
<1>11. UnderWay'
  <2> SUFFICES ASSUME NEW u \in Threads, within'[u] # << >>
               PROVE  /\ within'[u][1] \in Called' /\ results'[within'[u][1]] = "none"
                      /\ \A v \in Threads : v # u /\ within'[v] # << >> => within'[v][1] # within'[u][1]
    BY DEF UnderWay
  <2>1. CASE within' = within
    BY <1>6, <1>8, <2>1 DEF CommandInv, UnderWay
  <2>2. CASE within' = [within EXCEPT ![t] = <<n, "enters">>] /\ results' = Append(results, "none")
    <3>1. within'[t] = <<n, "enters">> /\ \A v \in Threads : v # t => within'[v] = within[v]
      BY <2>2 DEF CommandInv, CmdTypes
    <3>2. results'[n] = "none"
      BY <1>4, <1>0, <2>2, AppendProperties
    <3>3. \A v \in Threads : v # t /\ within[v] # << >> =>
            within[v][1] \in Called /\ results'[within[v][1]] = "none" /\ within[v][1] # n
      BY <1>4, <1>6 DEF CommandInv, UnderWay
    <3>4. \A v, w \in Threads : v # w /\ within[v] # << >> /\ within[w] # << >> => within[v][1] # within[w][1]
      BY DEF CommandInv, UnderWay
    <3> QED
      BY <1>8, <3>1, <3>2, <3>3, <3>4
  <2> QED
    BY <1>1, <2>1, <2>2
<1>12. Entered'
  <2>1. FnIs(f)
    BY FunctionsAre
  <2>2. /\ \A e : Pair(calls, e) => Pair(calls', e)
        /\ \A cb, prm : Kept(calls, cb, prm) => Kept(calls', cb, prm)
    BY <1>0, <1>4, <1>5, CallsKept DEF Called
  <2>3. \A prm : Kept(calls', 0, prm) /\ (f.prm => prm = n) => Kept(calls', n, prm)
    BY <1>4, <1>5, <1>9 DEF Kept
  <2>4. \A prm : Kept(calls', 0, prm)
    BY DEF Kept
  <2>5. Kept(calls', send_data_cb', snd_dat_cb_prm')
    BY <1>1, <2>1, <2>2, <2>3, <2>4 DEF CommandInv, Entered, FnIs
  <2> QED
    BY <1>2, <2>2, <2>5 DEF CommandInv, Entered
<1>13. RunsTrue'
  BY <1>2 DEF RunsTrue
<1>14. ResultsTrue'
  <2>1. ASSUME NEW k \in Called PROVE ResultTrue(Fn(calls', k), results'[k], answers'[k])
    BY <2>1, <1>6, <1>7, <1>9 DEF CommandInv, ResultsTrue
  <2>2. ResultTrue(Fn(calls', n), results'[n], answers'[n])
    BY <1>6 DEF ResultTrue
  <2> QED
    BY <1>8, <2>1, <2>2 DEF ResultsTrue
<1> QED
  BY <1>10, <1>11, <1>12, <1>13, <1>14 DEF CommandInv

\* A call that ends has its result; one that goes on has none.
LEMMA ReturnKeeps ==
  ASSUME CommandInv, NEW t \in Threads, within[t] # << >>, NEW n, n = within[t][1], NEW r \in CmdResults,
         H!Returns(t, n, r), UNCHANGED <<calls, answers>>, ResultTrue(Fn(calls, n), r, answers[n])
  PROVE  /\ results' \in Seq(CmdResults) /\ Len(results') = Len(calls')
         /\ within' \in [Threads -> {<< >>} \cup (Nat \X {"enters", "sent"})]
         /\ UnderWay' /\ ResultsTrue'
<1>1. within' = [within EXCEPT ![t] = << >>] /\ results' = [results EXCEPT ![n] = r]
  BY DEF H!Returns
<1>2. /\ results \in Seq(CmdResults) /\ DOMAIN results = Called /\ n \in Called /\ Len(results) = Len(calls)
      /\ within \in [Threads -> {<< >>} \cup (Nat \X {"enters", "sent"})]
  BY CalledAre DEF CommandInv, CmdTypes, UnderWay
<1>3. results' \in Seq(CmdResults) /\ Len(results') = Len(results)
  BY <1>1, <1>2, ExceptSeq DEF Called
<1>4. \A k \in Called : results'[k] = IF k = n THEN r ELSE results[k]
  BY <1>1, <1>2
<1>5. within'[t] = << >> /\ \A u \in Threads : u # t => within'[u] = within[u]
  BY <1>1, <1>2
<1>6. UnderWay'
  BY <1>4, <1>5 DEF CommandInv, UnderWay, Called
<1>7. ResultsTrue'
  <2>1. ASSUME NEW k \in Called PROVE ResultTrue(Fn(calls', k), results'[k], answers'[k])
    BY <2>1, <1>4 DEF CommandInv, ResultsTrue
  <2> QED
    BY <2>1 DEF ResultsTrue, Called
<1>8. within' \in [Threads -> {<< >>} \cup (Nat \X {"enters", "sent"})]
  BY <1>1, <1>2
<1> QED
  BY <1>2, <1>3, <1>6, <1>7, <1>8

LEMMA SendKeeps ==
  ASSUME CommandInv, NEW t \in Threads, H!Send(t)
  PROVE  CommandInv'
<1> DEFINE m == within[t][1]
           f == H!F(m)
           id == IF f.cb = "none" THEN last_func_id
                 ELSE IF last_func_id < MaxFuncId THEN last_func_id + 1 ELSE 1
<1>1. /\ within[t] # << >> /\ called' = {} /\ UNCHANGED <<calls, send_data_cb, snd_dat_cb_prm>>
      /\ \/ H!Returns(t, m, "SESSION") /\ UNCHANGED <<cb_map, owing, answers>>
            /\ last_func_id' \in {last_func_id, id}
         \/ /\ within' = [within EXCEPT ![t][2] = "sent"] /\ last_func_id' = id /\ results' = results
            /\ cb_map' = IF f.cb = "none" THEN cb_map
                         ELSE [cb_map EXCEPT ![id] =
                                [cmd |-> f.cmd, read |-> f.cb, cb |-> IF calls[m].given THEN m ELSE 0,
                                 prm |-> H!Prm(m)]]
            /\ \E a \in {"lost", "yes", "no", "short"} : answers' = [answers EXCEPT ![m] = a]
            /\ \/ owing' = owing
               \/ f.cb # "none" /\ owing' = owing \cup {[id |-> id, cmd |-> f.cmd, gate |-> f.gate]}
  BY DEF H!Send, H!Busy
<1>2. PICK n : n = m
  OBVIOUS
<1>3. n \in Called /\ results[n] = "none" /\ n \in Nat /\ n # 0
  BY <1>1, <1>2 DEF CommandInv, UnderWay, Called
<1>4. f = Fn(calls, n) /\ H!Prm(m) = Par(calls, n)
  BY <1>2 DEF H!F, H!Prm, Fn, Par
<1>5. PICK i : i = id
  OBVIOUS
<1>6. i \in 0 .. MaxFuncId /\ (f.cb # "none" => i \in 1 .. MaxFuncId) /\ last_func_id \in 0 .. MaxFuncId
  BY <1>5, PartsAssumption DEF CommandInv, CmdTypes, PartsAssumption, H!CommandsAssumption
<1> HIDE DEF m, f, id
<1>7. /\ Kept(calls', send_data_cb', snd_dat_cb_prm')
      /\ RunsTrue'
  BY <1>1 DEF CommandInv, Entered, RunsTrue
<1>8. CASE H!Returns(t, m, "SESSION") /\ UNCHANGED <<cb_map, owing, answers>>
           /\ last_func_id' \in {last_func_id, id}
  <2>1. ResultTrue(Fn(calls, n), "SESSION", answers[n]) /\ "SESSION" \in CmdResults
    BY DEF ResultTrue, CmdResults
  <2>2. /\ results' \in Seq(CmdResults) /\ Len(results') = Len(calls')
        /\ within' \in [Threads -> {<< >>} \cup (Nat \X {"enters", "sent"})]
        /\ UnderWay' /\ ResultsTrue'
    BY <1>1, <1>2, <1>8, <2>1, ReturnKeeps DEF m
  <2>3. CmdTypes'
    BY <1>1, <1>5, <1>6, <1>8, <2>2 DEF CommandInv, CmdTypes
  <2>4. Entered'
    BY <1>1, <1>7, <1>8 DEF CommandInv, Entered
  <2> QED
    BY <1>7, <2>2, <2>3, <2>4 DEF CommandInv
<1>9. CASE /\ within' = [within EXCEPT ![t][2] = "sent"] /\ last_func_id' = id /\ results' = results
           /\ cb_map' = IF f.cb = "none" THEN cb_map
                        ELSE [cb_map EXCEPT ![id] =
                               [cmd |-> f.cmd, read |-> f.cb, cb |-> IF calls[m].given THEN m ELSE 0,
                                prm |-> H!Prm(m)]]
           /\ \E a \in {"lost", "yes", "no", "short"} : answers' = [answers EXCEPT ![m] = a]
           /\ \/ owing' = owing
              \/ f.cb # "none" /\ owing' = owing \cup {[id |-> id, cmd |-> f.cmd, gate |-> f.gate]}
  <2>1. /\ within'[t] # << >> /\ within'[t][1] = n
        /\ \A u \in Threads : u # t => within'[u] = within[u]
        /\ within' \in [Threads -> {<< >>} \cup (Nat \X {"enters", "sent"})]
    <3>1. within \in [Threads -> {<< >>} \cup (Nat \X {"enters", "sent"})]
      BY DEF CommandInv, CmdTypes
    <3>2. PICK p \in {"enters", "sent"} : within[t] = <<n, p>>
      BY <1>1, <1>2, <3>1 DEF m
    <3>3. [within[t] EXCEPT ![2] = "sent"] = <<n, "sent">>
      BY <3>2
    <3>4. within' = [within EXCEPT ![t] = <<n, "sent">>]
      BY <1>9, <3>3
    <3> QED
      BY <1>3, <3>1, <3>4
  <2>2. PICK a \in {"lost", "yes", "no", "short"} : answers' = [answers EXCEPT ![n] = a]
    BY <1>2, <1>9
  <2>3. /\ answers' \in Seq(CmdAnswers) /\ Len(answers') = Len(calls')
        /\ \A k \in Called : k # n => answers'[k] = answers[k]
    <3>1. answers \in Seq(CmdAnswers) /\ Len(answers) = Len(calls) /\ DOMAIN answers = Called /\ a \in CmdAnswers
      BY CalledAre, <2>2 DEF CommandInv, CmdTypes, CmdAnswers
    <3>2. answers' \in Seq(CmdAnswers) /\ Len(answers') = Len(answers)
      BY <1>3, <2>2, <3>1, ExceptSeq
    <3> QED
      BY <1>1, <2>2, <3>1, <3>2
  <2>4. UnderWay'
    BY <1>1, <1>2, <1>3, <1>9, <2>1 DEF CommandInv, UnderWay, Called, m
  <2>5. ResultsTrue'
    <3>1. ASSUME NEW k \in Called PROVE ResultTrue(Fn(calls', k), results'[k], answers'[k])
      <4>1. CASE k = n
        BY <1>3, <1>9, <4>1 DEF ResultTrue
      <4>2. CASE k # n
        BY <1>1, <1>9, <2>3, <4>2 DEF CommandInv, ResultsTrue
      <4> QED
        BY <4>1, <4>2
    <3> QED
      BY <1>1, <3>1 DEF ResultsTrue, Called
  <2>6. CASE f.cb = "none"
    <3>1. CmdTypes'
      BY <1>1, <1>5, <1>6, <1>9, <2>1, <2>3, <2>6 DEF CommandInv, CmdTypes
    <3>2. Entered'
      BY <1>1, <1>7, <1>9, <2>6 DEF CommandInv, Entered
    <3> QED
      BY <1>7, <2>4, <2>5, <3>1, <3>2 DEF CommandInv
  <2>7. CASE f.cb # "none"
    <3> DEFINE e == [cmd |-> f.cmd, read |-> f.cb, cb |-> IF calls[m].given THEN m ELSE 0, prm |-> H!Prm(m)]
    <3>1. Pair(calls, e)
      BY <1>2, <1>3, <1>4 DEF Pair, Called
    <3> HIDE DEF e
    <3>2. cb_map' = [cb_map EXCEPT ![i] = e]
      BY <1>5, <1>9, <2>7 DEF e
    <3>3. DOMAIN cb_map' = 1 .. MaxFuncId /\ \A j \in 1 .. MaxFuncId : Pair(calls, cb_map'[j])
      BY <3>1, <3>2, <2>7, <1>6 DEF CommandInv, CmdTypes, Entered
    <3>4. \A o \in owing' : o.id \in 1 .. MaxFuncId
      BY <1>5, <1>6, <1>9, <2>7 DEF CommandInv, CmdTypes
    <3>5. CmdTypes'
      BY <1>1, <1>5, <1>6, <1>9, <2>1, <2>3, <3>3, <3>4 DEF CommandInv, CmdTypes
    <3>6. Entered'
      BY <1>1, <1>7, <3>3 DEF Entered
    <3> QED
      BY <1>7, <2>4, <2>5, <3>5, <3>6 DEF CommandInv
  <2> QED
    BY <2>6, <2>7
<1> QED
  BY <1>1, <1>8, <1>9

LEMMA FinishKeeps ==
  ASSUME CommandInv, NEW t \in Threads, H!Finish(t)
  PROVE  CommandInv'
<1> DEFINE m == within[t][1]
<1>1. /\ within[t] # << >> /\ called' = {}
      /\ UNCHANGED <<calls, answers, send_data_cb, snd_dat_cb_prm, cb_map, last_func_id, owing>>
      /\ \/ H!Returns(t, m, "SESSION")
         \/ answers[m] # "lost" /\ H!Returns(t, m, H!Result(H!F(m).resp, answers[m]))
  BY DEF H!Finish, H!Busy, H!cbVars
<1>2. PICK n : n = m
  OBVIOUS
<1>3. n \in Called
  BY <1>1, <1>2 DEF CommandInv, UnderWay
<1>4. PICK r : H!Returns(t, m, r) /\ r \in CmdResults /\ ResultTrue(Fn(calls, n), r, answers[n])
  <2>1. H!F(m) = Fn(calls, n) /\ Fn(calls, n) \in H!Functions
    BY <1>2, <1>3, CalledAre DEF H!F, Fn, CommandInv
  <2>2. H!Result(Fn(calls, n).resp, answers[n]) \in CmdResults
    <3>1. Fn(calls, n).resp \in Resps
      BY <2>1, FunctionsAre DEF FnIs
    <3> QED
      BY <3>1 DEF Resps, H!Result, CmdResults
  <2>3. ResultTrue(Fn(calls, n), "SESSION", answers[n]) /\ "SESSION" \in CmdResults
    BY DEF ResultTrue, CmdResults
  <2>4. answers[n] # "lost" =>
          ResultTrue(Fn(calls, n), H!Result(Fn(calls, n).resp, answers[n]), answers[n])
    BY <2>1, ResultIsTold DEF ResultTrue
  <2> QED
    BY <1>1, <1>2, <2>1, <2>2, <2>3, <2>4
<1> HIDE DEF m
<1>5. /\ results' \in Seq(CmdResults) /\ Len(results') = Len(calls')
      /\ within' \in [Threads -> {<< >>} \cup (Nat \X {"enters", "sent"})]
      /\ UnderWay' /\ ResultsTrue'
  BY <1>1, <1>2, <1>4, ReturnKeeps DEF m
<1>6. CmdTypes'
  BY <1>1, <1>5 DEF CommandInv, CmdTypes
<1>7. Entered' /\ RunsTrue'
  BY <1>1 DEF CommandInv, Entered, RunsTrue
<1> QED
  BY <1>5, <1>6, <1>7 DEF CommandInv

LEMMA CallbackKeeps ==
  ASSUME CommandInv, H!CallbackFrame
  PROVE  CommandInv'
<1>1. UNCHANGED <<calls, results, within, answers, send_data_cb, snd_dat_cb_prm, cb_map, last_func_id, owing>>
  BY DEF H!CallbackFrame, H!cbVars
<1>2. PICK e \in owing, len \in H!Lengths :
        IF cb_map[e.id].cmd = e.cmd
        THEN called' = IF cb_map[e.id].cb # 0 /\ H!Reports(cb_map[e.id].read, len)
                       THEN {H!Run(cb_map[e.id].cb, cb_map[e.id].prm, cb_map[e.id].read)} ELSE {}
        ELSE called' = H!Unsolicited(e.cmd, len)
  BY DEF H!CallbackFrame
<1>3. e.id \in 1 .. MaxFuncId
  BY DEF CommandInv, CmdTypes
<1>4. PICK c : c = cb_map[e.id]
  OBVIOUS
<1>5. Pair(calls, c)
  BY <1>3, <1>4 DEF CommandInv, Entered
<1>6. RunsTrue'
  <2>1. True(calls, H!Run(c.cb, c.prm, c.read))
    BY <1>5 DEF True, H!Run, Pair
  <2>2. \A x \in H!Unsolicited(e.cmd, len) : True(calls, x)
    BY DEF True, H!Unsolicited, H!Run
  <2>3. called' \subseteq {H!Run(c.cb, c.prm, c.read)} \cup H!Unsolicited(e.cmd, len)
    BY <1>2, <1>4
  <2> QED
    BY <1>1, <2>1, <2>2, <2>3 DEF RunsTrue
<1> QED
  BY <1>1, <1>6 DEF CommandInv, CmdTypes, UnderWay, Entered, ResultsTrue, Called

LEMMA CommandRests ==
  ASSUME CommandInv,
         UNCHANGED <<calls, results, within, answers, send_data_cb, snd_dat_cb_prm, cb_map, last_func_id, owing>>,
         \A x \in called' : True(calls, x)
  PROVE  CommandInv'
BY DEF CommandInv, CmdTypes, UnderWay, Entered, RunsTrue, ResultsTrue, Called

LEMMA CommandStep ==
  ASSUME CommandInv, H!Next
  PROVE  CommandInv'
<1>1. ASSUME NEW t \in Threads, H!Enter(t) \/ H!Send(t) \/ H!Finish(t) PROVE CommandInv'
  BY <1>1, EnterKeeps, SendKeeps, FinishKeeps
<1>2. CASE H!CallbackFrame
  BY <1>2, CallbackKeeps
<1>3. CASE H!UnsolicitedFrame
  <2>1. \A x \in called' : True(calls, x)
    BY <1>3 DEF H!UnsolicitedFrame, H!Unsolicited, True, H!Run
  <2> QED
    BY <1>3, <2>1, CommandRests DEF H!UnsolicitedFrame, H!cbVars
<1>4. CASE H!Expire
  BY <1>4, CommandRests DEF H!Expire, H!cbVars
<1>5. CASE H!Timeout
  <2>1. Kept(calls, send_data_cb, snd_dat_cb_prm)
    BY DEF CommandInv, Entered
  <2>2. send_data_cb # 0 => True(calls, H!Run(send_data_cb, snd_dat_cb_prm, "timeout"))
    BY <2>1 DEF True, Kept, Par, Fn, H!Run
  <2>3. \A x \in called' : True(calls, x)
    BY <1>5, <2>2 DEF H!Timeout
  <2> QED
    BY <1>5, <2>3, CommandRests DEF H!Timeout, H!cbVars
<1> QED
  BY <1>1, <1>2, <1>3, <1>4, <1>5 DEF H!Next

\* Whoever calls in between, and whichever of the two places it is taken from,
\* a completion function is run with the parameter it was given with, by the
\* kind of callback its function has (appl_send_data_cb, zw_generic_cb,
\* appl_cb_tmout_cb); and a call that returned 0 has sent its command, which
\* the controller has and did not refuse.
THEOREM ToldIsTrue == Spec => []ToldTrue
<1>1. Init => CommandInv
  <2> SUFFICES ASSUME Init PROVE CommandInv
    OBVIOUS
  <2>1. H!Init
    BY DEF Init
  <2>2. calls = << >> /\ results = << >> /\ answers = << >> /\ Len(calls) = 0
    BY <2>1 DEF H!Init
  <2>3. CmdTypes
    BY <2>1, <2>2, PartsAssumption DEF CmdTypes, H!Init, PartsAssumption, H!CommandsAssumption
  <2>4. UnderWay /\ RunsTrue /\ ResultsTrue
    BY <2>1, <2>2 DEF UnderWay, RunsTrue, ResultsTrue, Called, H!Init
  <2>5. Entered
    BY <2>1 DEF Entered, Pair, Kept, H!Init, H!Nobody
  <2> QED
    BY <2>3, <2>4, <2>5 DEF CommandInv
<1>2. CommandInv /\ [Next]_vars => CommandInv'
  <2> SUFFICES ASSUME CommandInv, [Next]_vars PROVE CommandInv'
    OBVIOUS
  <2>1. CASE H!Next
    BY <2>1, CommandStep
  <2>2. CASE UNCHANGED commandVars
    BY <2>2 DEF commandVars, CommandInv, CmdTypes, UnderWay, Entered, RunsTrue, ResultsTrue, Called
  <2> QED
    BY <2>1, <2>2, CommandSteps
<1>3. CommandInv => ToldTrue
  <2> SUFFICES ASSUME CommandInv PROVE ToldTrue
    OBVIOUS
  <2>1. ASSUME NEW c \in called, c.cb # 0
        PROVE  /\ c.prm = H!Prm(c.cb) \/ (c.by = "timeout" /\ ~ H!F(c.cb).prm)
               /\ c.by \in {H!F(c.cb).cb, "timeout"}
    BY <2>1 DEF CommandInv, RunsTrue, True, Par, Fn, H!Prm, H!F
  <2>2. ASSUME NEW n \in DOMAIN calls, results[n] = "OK"
        PROVE  /\ answers[n] # "lost"
               /\ H!F(n).resp \in {"none", "value", "measured"} \/ ~ H!Refuses(H!F(n), answers[n])
    <3>1. n \in Called
      BY CalledAre DEF CommandInv
    <3> QED
      BY <2>2, <3>1 DEF CommandInv, ResultsTrue, ResultTrue, OkIsTold, Fn, H!F
  <2> QED
    BY <2>1, <2>2 DEF ToldTrue, H!ToldTrue
<1> QED
  BY <1>1, <1>2, <1>3, PTL DEF Spec
---------------------------------------------------------------------------
(***************************************************************************)
(* The answers that come in several reports.                               *)
(*                                                                         *)
(* Each kind has its own account of what is on its way from the node that  *)
(* was asked and of what the place for the answer holds: of an association *)
(* or a security answer the rest is on its way and the place holds what     *)
(* came before (RunOk); a second report of a wake-up or a meter finds the   *)
(* first one of its node (PairOk); of an AV answer, the reports on their   *)
(* way are no further than the one that is awaited, whatever was repeated, *)
(* and the first ones come before all the others (AvOk).                   *)
(***************************************************************************)

\* A step of an answer, or of another part.
LEMMA ReportSteps ==
  [Next]_vars => /\ side' = side
                 /\ (side = "reports" /\ R!Next) \/ UNCHANGED reportVars
BY DEF Next, vars

\* One question of a kind at a time, repeated before its answer has come, or lost on
\* the way, where the handler bears it.
OneAnswer ==
  /\ Overlap = {} /\ Again \subseteq {"wake_up", "meter"}
  /\ Fails \subseteq {"av", "wake_up", "meter"}

RepItem == Nodes \X Nat
RepReport == [num : Nat, left : Int, items : Seq(RepItem)]
RepPlace ==
  [key : {0} \cup {Group[n] : n \in Nodes}, items : Seq(RepItem), total : Int, num : Nat, has : BOOLEAN,
   known : SUBSET Nodes]

\* The first parts of a node's answer.
FirstParts(n, i) == [j \in 1 .. i |-> <<n, j>>]

RunOk(k, n, q, a) ==
  LET got == Parts[n][k] - Len(q) IN
  /\ got >= 0
  /\ \A i \in 1 .. Len(q) : q[i] = R!Report(n, k, got + i)
  /\ a.items = FirstParts(n, got)
  /\ k = "asc" => (got > 0 => a.key = Group[n])
  /\ k = "sec" => (a.has <=> got > 0)

PairOk(k, n, q, a) ==
  \A i \in 1 .. Len(q) :
    \/ q[i] = R!Report(n, k, 1)
    \/ /\ q[i] = R!Report(n, k, 2) /\ Parts[n][k] = 2
       /\ Len(a.items) >= 1 /\ a.items[1] = <<n, 1>>

AvOk(n, q, a) ==
  /\ \A i \in 1 .. Len(q) :
       \/ q[i].num = 0 /\ q[i].left = Parts[n]["av"]
       \/ q[i].num \in 1 .. Parts[n]["av"] /\ q[i] = R!Report(n, "av", q[i].num)
  /\ \A i, j \in 1 .. Len(q) : i < j /\ q[j].num = 0 => q[i].num = 0
  /\ \A i \in 1 .. Len(q) : q[i].num > 0 =>
       /\ a.total = Parts[n]["av"] /\ a.num <= a.total /\ q[i].num <= a.num + 1
       /\ a.num < a.total => a.items = FirstParts(n, a.num)
       /\ a.num > 0 => \A j \in 1 .. Len(q) : q[j].num > 0

AnswerOk(k, n, q, a) ==
  /\ k \in {"asc", "sec"} => RunOk(k, n, q, a)
  /\ k \in {"wake_up", "meter"} => PairOk(k, n, q, a)
  /\ k = "av" => AvOk(n, q, a)

ReportTypes ==
  /\ air \in [Nodes -> [Kinds -> Seq(RepReport)]] /\ acc \in [Kinds -> RepPlace]
  /\ asks \in Nat

\* The place is empty when no answer is on its way.
PlaceFree(k) ==
  k \in {"asc", "sec"} /\ (\A n \in Nodes : air[n][k] = << >>) =>
    acc[k].items = << >> /\ (k = "sec" => ~ acc[k].has)

ReportInv ==
  /\ ReportTypes
  /\ \A k \in Kinds :
       /\ \A m, n \in Nodes : air[m][k] # << >> /\ air[n][k] # << >> => m = n
       /\ \A n \in Nodes : air[n][k] # << >> => AnswerOk(k, n, air[n][k], acc[k])
       /\ PlaceFree(k)
  /\ R!WholeAnswer

\* What the assumption says of the sizes of answers.
LEMMA AnswerSizes ==
  /\ Kinds \subseteq {"asc", "sec", "av", "wake_up", "meter"}
  /\ \A n \in Nodes, k \in Kinds : Parts[n][k] \in 1 .. 3
  /\ \A n \in Nodes : "wake_up" \in Kinds => Parts[n]["wake_up"] \in 1 .. 2
  /\ \A n \in Nodes : "meter" \in Kinds => Parts[n]["meter"] = 2
BY PartsAssumption DEF R!ReportsAssumption, R!AllKinds

LEMMA ReportTyped ==
  ASSUME NEW n \in Nodes, NEW k \in Kinds, NEW i \in Nat
  PROVE  /\ R!Report(n, k, i) \in RepReport
         /\ R!Report(n, k, i).num = i /\ R!Report(n, k, i).left = Parts[n][k] - i
         /\ R!Report(n, k, i).items = <<<<n, i>>>>
<1>1. <<<<n, i>>>> \in Seq(RepItem)
  BY DEF RepItem
<1> QED
  BY <1>1, AnswerSizes DEF R!Report, RepReport

LEMMA FewReports ==
  ASSUME NEW n \in Nodes, NEW k \in Kinds
  PROVE  /\ R!Report(n, k, 1).num = 1 /\ R!Report(n, k, 1).items = <<<<n, 1>>>>
         /\ R!Report(n, k, 2).num = 2 /\ R!Report(n, k, 2).items = <<<<n, 2>>>>
BY DEF R!Report

LEMMA NothingTyped ==
  /\ R!Nothing \in RepPlace
  /\ R!Nothing.items = << >> /\ R!Nothing.num = 0 /\ ~ R!Nothing.has
<1>1. << >> \in Seq(RepItem)
  BY EmptySeq
<1> QED
  BY <1>1 DEF R!Nothing, RepPlace

LEMMA OneElement ==
  ASSUME NEW G, NEW s \in Seq(G), Len(s) = 1
  PROVE  s = <<s[1]>>
<1>1. s[1] \in G
  BY ElementOfSeq
<1>2. <<s[1]>> \in Seq(G) /\ Len(<<s[1]>>) = 1 /\ <<s[1]>>[1] = s[1]
  BY <1>1
<1>3. \A i \in 1 .. Len(s) : s[i] = <<s[1]>>[i]
  BY <1>2
<1> QED
  BY <1>2, <1>3, SeqEqual

LEMMA FirstPartsTyped ==
  ASSUME NEW n \in Nodes, NEW i \in Nat
  PROVE  /\ FirstParts(n, i) \in Seq(RepItem)
         /\ Len(FirstParts(n, i)) = i
         /\ FirstParts(n, i) \o <<<<n, i + 1>>>> = FirstParts(n, i + 1)
<1>1. FirstParts(n, i) \in Seq(RepItem) /\ Len(FirstParts(n, i)) = i
  BY DEF FirstParts, RepItem
<1>2. FirstParts(n, i) \o <<<<n, i + 1>>>> = FirstParts(n, i + 1)
  <2> DEFINE u == <<<<n, i + 1>>>>
             s == FirstParts(n, i) \o u
             t == FirstParts(n, i + 1)
  <2>0. u \in Seq(RepItem) /\ Len(u) = 1 /\ u[1] = <<n, i + 1>>
    BY DEF RepItem
  <2> HIDE DEF u
  <2>1. s \in Seq(RepItem) /\ Len(s) = i + 1
        /\ \A j \in 1 .. i + 1 : s[j] = IF j <= i THEN FirstParts(n, i)[j] ELSE <<n, i + 1>>
    <3>1. /\ s \in Seq(RepItem) /\ Len(s) = i + 1
          /\ \A j \in 1 .. i + 1 : s[j] = IF j <= i THEN FirstParts(n, i)[j] ELSE u[j - i]
      <4> DEFINE f == FirstParts(n, i)
      <4>1. f \in Seq(RepItem) /\ Len(f) = i
        BY <1>1
      <4> HIDE DEF f
      <4>2. /\ f \o u \in Seq(RepItem) /\ Len(f \o u) = Len(f) + Len(u)
            /\ \A j \in 1 .. Len(f) + Len(u) : (f \o u)[j] = IF j <= Len(f) THEN f[j] ELSE u[j - Len(f)]
        BY <2>0, <4>1, ConcatProperties
      <4> QED
        BY <2>0, <4>1, <4>2 DEF f
    <3>2. ASSUME NEW j \in 1 .. i + 1, ~ (j <= i) PROVE j - i = 1
      BY <3>2
    <3> HIDE DEF s
    <3> QED
      BY <2>0, <3>1, <3>2
  <2>2. t \in Seq(RepItem) /\ Len(t) = i + 1 /\ \A j \in 1 .. i + 1 : t[j] = <<n, j>>
    BY DEF FirstParts, RepItem
  <2>3. \A j \in 1 .. i : FirstParts(n, i)[j] = <<n, j>>
    BY DEF FirstParts
  <2> HIDE DEF s, t
  <2>4. \A j \in 1 .. Len(s) : s[j] = t[j]
    <3> SUFFICES ASSUME NEW j \in 1 .. i + 1 PROVE s[j] = t[j]
      BY <2>1
    <3>1. CASE j <= i
      <4>1. j \in 1 .. i
        BY <3>1
      <4>2. s[j] = FirstParts(n, i)[j]
        BY <2>1, <3>1
      <4> QED
        BY <2>2, <2>3, <4>1, <4>2
    <3>2. CASE j = i + 1
      BY <2>1, <2>2, <3>2
    <3> QED
      BY <3>1, <3>2
  <2>5. s = t
    BY <2>1, <2>2, <2>4, SeqEqual
  <2> QED
    BY <2>5 DEF s, t, u
<1> QED
  BY <1>1, <1>2

LEMMA FewParts ==
  ASSUME NEW n \in Nodes
  PROVE  /\ FirstParts(n, 0) = << >> /\ FirstParts(n, 1) = <<<<n, 1>>>>
         /\ FirstParts(n, 2) = <<<<n, 1>>, <<n, 2>>>>
         /\ FirstParts(n, 1) \in Seq(RepItem) /\ FirstParts(n, 2) \in Seq(RepItem)
         /\ Len(FirstParts(n, 1)) = 1 /\ Len(FirstParts(n, 2)) = 2
         /\ FirstParts(n, 1)[1] = <<n, 1>> /\ FirstParts(n, 2)[1] = <<n, 1>>
         /\ FirstParts(n, 1) \o <<<<n, 2>>>> = FirstParts(n, 2)
<1>1. FirstParts(n, 1) \o <<<<n, 1 + 1>>>> = FirstParts(n, 1 + 1) /\ 1 + 1 = 2
  BY FirstPartsTyped
<1> QED
  BY <1>1 DEF FirstParts, RepItem

\* Of a queue without its first element, or with one more, what holds of its elements.
LEMMA TailOf ==
  ASSUME NEW G, NEW q \in Seq(G), q # << >>
  PROVE  /\ Head(q) = q[1] /\ Head(q) \in G /\ Tail(q) \in Seq(G) /\ Len(q) \in Nat \ {0}
         /\ Len(Tail(q)) = Len(q) - 1
         /\ \A i \in 1 .. Len(q) - 1 : Tail(q)[i] = q[i + 1]
BY HeadTailProperties, EmptySeq, LenProperties

LEMMA WholeParts ==
  ASSUME NEW n \in Nodes, NEW k \in Kinds
  PROVE  R!Whole(n, k) = FirstParts(n, Parts[n][k])
BY DEF R!Whole, FirstParts

\* The place when a report has been handled, and the reports on their way then.
PlaceAfter(k, n, q, a) ==
  LET h == R!Handle(k, a, n, Head(q)) IN IF h.cb THEN R!Cleared(k, h.acc) ELSE h.acc
OnTheirWay(k, n, q, a, twice) ==
  LET h == R!Handle(k, a, n, Head(q)) IN
  (IF twice THEN q ELSE Tail(q)) \o (IF h.next = 0 THEN << >> ELSE << R!Report(n, k, h.next) >>)

\* A report of a run adds its part, and the last one completes the answer.
LEMMA RunHead ==
  ASSUME NEW n \in Nodes, NEW k \in Kinds, k \in {"asc", "sec"}, NEW q \in Seq(RepReport), q # << >>,
         NEW a \in RepPlace, RunOk(k, n, q, a)
  PROVE  LET h == R!Handle(k, a, n, Head(q)) IN
         /\ h.next = 0 /\ (h.cb <=> Tail(q) = << >>)
         /\ PlaceAfter(k, n, q, a) \in RepPlace
         /\ Tail(q) # << >> => RunOk(k, n, Tail(q), PlaceAfter(k, n, q, a))
         /\ h.cb => /\ h.acc.items = R!Whole(n, k)
                    /\ PlaceAfter(k, n, q, a).items = << >>
                    /\ k = "sec" => ~ PlaceAfter(k, n, q, a).has
<1> DEFINE r == Head(q)
           got == Parts[n][k] - Len(q)
           b == IF k = "asc" THEN [a EXCEPT !.key = Group[n], !.items = FirstParts(n, got + 1)]
                ELSE [a EXCEPT !.items = FirstParts(n, got + 1), !.has = TRUE]
           h == R!Handle(k, a, n, r)
<1>1. /\ r = R!Report(n, k, got + 1) /\ got \in Nat /\ got + 1 \in Nat /\ Len(q) \in Nat \ {0}
      /\ a.items = FirstParts(n, got)
      /\ k = "asc" => (got > 0 => a.key = Group[n])
      /\ k = "sec" => (a.has <=> got > 0)
  <2>1. Len(q) \in Nat \ {0} /\ r = q[1] /\ Parts[n][k] \in Nat
    BY TailOf, AnswerSizes
  <2>2. got >= 0 /\ q[1] = R!Report(n, k, got + 1) /\ a.items = FirstParts(n, got)
        /\ (k = "asc" => (got > 0 => a.key = Group[n])) /\ (k = "sec" => (a.has <=> got > 0))
    BY <2>1 DEF RunOk
  <2> QED
    BY <2>1, <2>2
<1> HIDE DEF r, got
<1>2. /\ r.items = <<<<n, got + 1>>>> /\ r.left = Parts[n][k] - (got + 1) /\ r.num = got + 1
      /\ FirstParts(n, got) \o r.items = FirstParts(n, got + 1)
      /\ (FirstParts(n, got) = << >> <=> got = 0)
      /\ got = 0 => r.items = FirstParts(n, got + 1)
      /\ FirstParts(n, got + 1) \in Seq(RepItem)
  <2>1. /\ r.items = <<<<n, got + 1>>>> /\ r.left = Parts[n][k] - (got + 1) /\ r.num = got + 1
    BY <1>1, ReportTyped
  <2>2. /\ FirstParts(n, got) \in Seq(RepItem) /\ Len(FirstParts(n, got)) = got
        /\ FirstParts(n, got) \o <<<<n, got + 1>>>> = FirstParts(n, got + 1)
        /\ FirstParts(n, got + 1) \in Seq(RepItem)
    BY <1>1, FirstPartsTyped
  <2>3. FirstParts(n, got) = << >> <=> got = 0
    BY <2>2, EmptySeq
  <2>4. got = 0 => got + 1 = 1 /\ FirstParts(n, got + 1) = <<<<n, got + 1>>>>
    <3>1. FirstParts(n, 1) = <<<<n, 1>>>>
      BY FewParts
    <3>2. 0 + 1 = 1
      OBVIOUS
    <3> QED
      BY <3>1, <3>2
  <2> QED
    BY <2>1, <2>2, <2>3, <2>4
<1>3. h = R!Then(b, 0, r.left = 0)
  <2>1. CASE k = "asc"
    <3>1. (a.items # << >> /\ a.key = Group[n]) <=> got > 0
      <4>1. a.items # << >> <=> got > 0
        BY <1>1, <1>2
      <4> QED
        BY <1>1, <2>1, <4>1
    <3>2. (IF a.items # << >> /\ a.key = Group[n] THEN a.items \o r.items ELSE r.items)
            = FirstParts(n, got + 1)
      <4>1. CASE got > 0
        BY <1>1, <1>2, <3>1, <4>1
      <4>2. CASE got = 0
        BY <1>1, <1>2, <3>1, <4>2
      <4> QED
        BY <1>1, <4>1, <4>2
    <3> QED
      BY <2>1, <3>2 DEF R!Handle, R!AscReport, RepPlace
  <2>2. CASE k = "sec"
    <3>1. (IF a.has THEN a.items \o r.items ELSE r.items) = FirstParts(n, got + 1)
      <4>1. a.has <=> got > 0
        BY <1>1, <2>2
      <4>2. CASE got > 0
        BY <1>1, <1>2, <4>1, <4>2
      <4>3. CASE got = 0
        BY <1>1, <1>2, <4>1, <4>3
      <4> QED
        BY <1>1, <4>2, <4>3
    <3> QED
      BY <2>2, <3>1 DEF R!Handle, R!SecReport, RepPlace
  <2> QED
    BY <2>1, <2>2
<1>4. /\ b \in RepPlace /\ b.items = FirstParts(n, got + 1)
      /\ (k = "asc" => b.key = Group[n]) /\ (k = "sec" => b.has)
  BY <1>2 DEF RepPlace
<1> HIDE DEF b, h
<1>5. h.acc = b /\ h.next = 0 /\ (h.cb <=> r.left = 0)
  <2>1. h.cb = (r.left = 0)
    BY <1>3 DEF R!Then
  <2>2. h.acc = b /\ h.next = 0
    BY <1>3 DEF R!Then
  <2> QED
    BY <2>1, <2>2
<1>6. r.left = 0 <=> Tail(q) = << >>
  <2>1. Len(Tail(q)) = Len(q) - 1 /\ Tail(q) \in Seq(RepReport)
    BY TailOf
  <2>2. Tail(q) = << >> <=> Len(Tail(q)) = 0
    BY <2>1, EmptySeq
  <2>3. r.left = Len(q) - 1
    <3>1. Parts[n][k] \in Nat /\ got = Parts[n][k] - Len(q)
      BY AnswerSizes DEF got
    <3>2. r.left = Parts[n][k] - (got + 1)
      BY <1>2
    <3> QED
      BY <1>1, <3>1, <3>2
  <2> QED
    BY <1>1, <2>1, <2>2, <2>3
<1>7. R!Cleared(k, b) \in RepPlace /\ R!Cleared(k, b).items = << >>
      /\ (k = "sec" => ~ R!Cleared(k, b).has)
  <2>1. << >> \in Seq(RepItem)
    BY EmptySeq
  <2>2. CASE k = "asc"
    <3>1. R!Cleared(k, b) = [b EXCEPT !.items = << >>]
      BY <2>2 DEF R!Cleared
    <3> QED
      BY <1>4, <2>1, <2>2, <3>1 DEF RepPlace
  <2>3. CASE k = "sec"
    <3>1. R!Cleared(k, b) = [b EXCEPT !.items = << >>, !.has = FALSE]
      BY <2>3 DEF R!Cleared
    <3> QED
      BY <1>4, <2>1, <3>1 DEF RepPlace
  <2> QED
    BY <2>2, <2>3
<1>8. PlaceAfter(k, n, q, a) = IF h.cb THEN R!Cleared(k, b) ELSE b
  BY <1>5 DEF PlaceAfter, h, r
<1>9. ASSUME Tail(q) # << >> PROVE RunOk(k, n, Tail(q), b)
  <2>1. /\ Len(Tail(q)) = Len(q) - 1 /\ \A i \in 1 .. Len(q) - 1 : Tail(q)[i] = q[i + 1]
    BY TailOf
  <2>2. Parts[n][k] - Len(Tail(q)) = got + 1
    BY <1>1, <2>1, AnswerSizes DEF got
  <2>3. \A i \in 1 .. Len(q) : q[i] = R!Report(n, k, got + i)
    BY DEF RunOk, got
  <2>4. ASSUME NEW i \in 1 .. Len(q) - 1 PROVE Tail(q)[i] = R!Report(n, k, (got + 1) + i)
    <3>1. i + 1 \in 1 .. Len(q) /\ got + (i + 1) = (got + 1) + i
      BY <1>1
    <3> QED
      BY <2>1, <2>3, <3>1
  <2> QED
    BY <1>1, <1>4, <2>1, <2>2, <2>4 DEF RunOk
<1>10. h.cb => h.acc.items = R!Whole(n, k)
  <2>1. r.left = 0 => got + 1 = Parts[n][k]
    BY <1>1, <1>2, AnswerSizes
  <2> QED
    BY <1>4, <1>5, <2>1, WholeParts
<1> QED
  <2>1. h = R!Handle(k, a, n, Head(q))
    BY DEF h, r
  <2> QED
    BY <1>4, <1>5, <1>6, <1>7, <1>8, <1>9, <1>10, <2>1

\* The reports of a question that is asked.
LEMMA AnswerBegins ==
  ASSUME NEW n \in Nodes, NEW k \in Kinds, NEW a \in RepPlace, 
         k \in {"asc", "sec"} => a.items = << >> /\ (k = "sec" => ~ a.has)
  PROVE  /\ R!FirstAnswer(n, k) \in Seq(RepReport)
         /\ AnswerOk(k, n, R!FirstAnswer(n, k), a)
<1> DEFINE q == R!FirstAnswer(n, k)
           p == Parts[n][k]
<1>0. p \in 1 .. 3
  BY AnswerSizes
<1>1. CASE k \in {"asc", "sec"}
  <2>1. q = [i \in 1 .. p |-> R!Report(n, k, i)]
    BY <1>1 DEF R!FirstAnswer
  <2>2. q \in Seq(RepReport) /\ Len(q) = p /\ \A i \in 1 .. p : q[i] = R!Report(n, k, i)
    <3>1. \A i \in 1 .. p : R!Report(n, k, i) \in RepReport
      BY <1>0, ReportTyped
    <3>2. p \in Nat
      BY <1>0
    <3> HIDE DEF q, p
    <3> QED
      BY <2>1, <3>1, <3>2
  <2>3. p - Len(q) = 0 /\ \A i \in 1 .. p : 0 + i = i
    BY <1>0, <2>2
  <2> HIDE DEF q
  <2>4. RunOk(k, n, q, a)
    <3>1. FirstParts(n, 0) = << >>
      BY FewParts
    <3>2. \A i \in 1 .. Len(q) : q[i] = R!Report(n, k, (p - Len(q)) + i)
      BY <2>2, <2>3
    <3> QED
      BY <1>1, <2>3, <3>1, <3>2 DEF RunOk
  <2> QED
    BY <1>1, <2>2, <2>4 DEF AnswerOk, q
<1>2. CASE k = "av"
  <2>1. q = <<[num |-> 0, left |-> p, items |-> << >>]>>
    BY <1>2 DEF R!FirstAnswer
  <2>2. q \in Seq(RepReport) /\ Len(q) = 1 /\ q[1].num = 0 /\ q[1].left = p
    BY <1>0, <2>1 DEF RepReport
  <2> HIDE DEF q
  <2>3. AvOk(n, q, a)
    BY <1>2, <2>2 DEF AvOk
  <2> QED
    BY <1>2, <2>2, <2>3 DEF AnswerOk, q
<1>3. CASE k \in {"wake_up", "meter"}
  <2>1. q = <<R!Report(n, k, 1)>>
    BY <1>3 DEF R!FirstAnswer
  <2>2. q \in Seq(RepReport) /\ Len(q) = 1 /\ q[1] = R!Report(n, k, 1)
    BY <2>1, ReportTyped
  <2> HIDE DEF q
  <2>3. PairOk(k, n, q, a)
    BY <2>2 DEF PairOk
  <2> QED
    BY <1>3, <2>2, <2>3 DEF AnswerOk, q
<1> QED
  BY <1>1, <1>2, <1>3, AnswerSizes

\* What is on its way after a report came: what was before, and the next part.
LEMMA NextOnTheirWay ==
  ASSUME NEW n \in Nodes, NEW k \in Kinds, NEW q \in Seq(RepReport), q # << >>, NEW a,
         NEW twice \in BOOLEAN, R!Handle(k, a, n, Head(q)).next \in Nat
  PROVE  LET o == OnTheirWay(k, n, q, a, twice)
             next == R!Handle(k, a, n, Head(q)).next
             d == IF twice THEN 0 ELSE 1
         IN /\ o \in Seq(RepReport) /\ Len(o) \in Nat
            /\ \A i \in 1 .. Len(o) : i \in 1 .. Len(q) - d => o[i] = q[i + d]
            /\ \A i \in 1 .. Len(o) : i \notin 1 .. Len(q) - d =>
                 i = Len(q) - d + 1 /\ next # 0 /\ o[i] = R!Report(n, k, next)
            /\ \A i \in 1 .. Len(q) - d : i + d \in 1 .. Len(q)
<1> DEFINE next == R!Handle(k, a, n, Head(q)).next
           d == IF twice THEN 0 ELSE 1
           p == IF twice THEN q ELSE Tail(q)
           e == IF next = 0 THEN << >> ELSE <<R!Report(n, k, next)>>
           o == p \o e
<1>1. /\ p \in Seq(RepReport) /\ Len(p) = Len(q) - d /\ Len(q) \in Nat \ {0} /\ d \in 0 .. 1
      /\ \A i \in 1 .. Len(p) : p[i] = q[i + d]
  <2>1. /\ Tail(q) \in Seq(RepReport) /\ Len(q) \in Nat \ {0} /\ Len(Tail(q)) = Len(q) - 1
        /\ \A i \in 1 .. Len(q) - 1 : Tail(q)[i] = q[i + 1]
    BY TailOf
  <2>2. CASE twice
    BY <2>1, <2>2
  <2>3. CASE ~ twice
    BY <2>1, <2>3
  <2> QED
    BY <2>2, <2>3
<1>2. /\ e \in Seq(RepReport) /\ Len(e) \in 0 .. 1
      /\ Len(e) = 1 => next # 0 /\ e[1] = R!Report(n, k, next)
  <2> HIDE DEF next
  <2>1. CASE next = 0
    BY <2>1
  <2>2. CASE next # 0
    <3>1. R!Report(n, k, next) \in RepReport
      BY ReportTyped DEF next
    <3> QED
      BY <2>2, <3>1
  <2> QED
    BY <2>1, <2>2
<1> HIDE DEF next, d, p, e
<1>3. /\ o \in Seq(RepReport) /\ Len(o) = Len(p) + Len(e)
      /\ \A i \in 1 .. Len(p) + Len(e) : o[i] = IF i <= Len(p) THEN p[i] ELSE e[i - Len(p)]
  BY <1>1, <1>2, ConcatProperties
<1>4. o = OnTheirWay(k, n, q, a, twice)
  BY DEF OnTheirWay, p, e, next
<1> HIDE DEF o
<1>5. ASSUME NEW i \in 1 .. Len(o), i \in 1 .. Len(q) - d PROVE o[i] = q[i + d]
  BY <1>1, <1>2, <1>3, <1>5
<1>6. ASSUME NEW i \in 1 .. Len(o), i \notin 1 .. Len(q) - d
      PROVE  i = Len(q) - d + 1 /\ next # 0 /\ o[i] = R!Report(n, k, next)
  <2>1. Len(p) \in Nat /\ i \in 1 .. Len(p) + Len(e) /\ i \notin 1 .. Len(p)
    BY <1>1, <1>3, <1>6
  <2>2. ~ (i <= Len(p)) /\ i - Len(p) = 1 /\ Len(e) = 1
    <3>1. ASSUME NEW x \in Nat, NEW y \in 0 .. 1, NEW z \in 1 .. x + y, z \notin 1 .. x
          PROVE  ~ (z <= x) /\ z - x = 1 /\ y = 1
      BY <3>1
    <3> QED
      BY <1>2, <2>1, <3>1
  <2> QED
    BY <1>1, <1>2, <1>3, <2>1, <2>2
<1>7. \A i \in 1 .. Len(q) - d : i + d \in 1 .. Len(q)
  BY <1>1
<1>8. Len(o) \in Nat
  BY <1>1, <1>2, <1>3
<1> QED
  BY <1>3, <1>4, <1>5, <1>6, <1>7, <1>8 DEF next, d

\* The second report of a wake-up or a meter finds the first one of its node.
LEMMA PairHead ==
  ASSUME NEW n \in Nodes, NEW k \in Kinds, k \in {"wake_up", "meter"}, NEW q \in Seq(RepReport),
         q # << >>, NEW a \in RepPlace, PairOk(k, n, q, a), NEW twice \in BOOLEAN
  PROVE  LET h == R!Handle(k, a, n, Head(q)) IN
         /\ h.next \in Nat
         /\ PlaceAfter(k, n, q, a) \in RepPlace
         /\ PairOk(k, n, OnTheirWay(k, n, q, a, twice), PlaceAfter(k, n, q, a))
         /\ h.cb => h.acc.items = R!Whole(n, k)
<1> DEFINE r == Head(q)
           h == R!Handle(k, a, n, r)
           b == PlaceAfter(k, n, q, a)
<1>1. /\ Len(q) \in Nat \ {0} /\ r = q[1]
      /\ (k = "meter" => Parts[n][k] = 2) /\ Parts[n][k] \in {1, 2}
  BY TailOf, AnswerSizes
<1>2. /\ h.next \in {0, 2} /\ b \in RepPlace /\ Len(b.items) >= 1 /\ b.items[1] = <<n, 1>>
      /\ (h.next = 2 => Parts[n][k] = 2) /\ (h.cb => h.acc.items = R!Whole(n, k))
  <2>1. CASE r = R!Report(n, k, 1)
    <3>1. r.num = 1 /\ r.items = FirstParts(n, 1)
      BY <2>1, FewReports, FewParts
    <3> DEFINE whole == k = "wake_up" /\ Parts[n]["wake_up"] = 1
               kept == k = "wake_up" /\ ~ whole /\ n \in a.known
               f == IF k = "wake_up" THEN a ELSE R!Nothing
               g == [f EXCEPT !.items = FirstParts(n, IF kept THEN 2 ELSE 1)]
    <3>2. r.items \o <<<<n, 2>>>> = FirstParts(n, 2)
      BY <3>1, FewParts
    <3>3. h = IF whole \/ kept THEN R!Then(g, 0, TRUE) ELSE R!Then(g, 2, FALSE)
      <4>1. CASE k = "wake_up"
        <5>1. h = R!WakeUpReport(a, n, r)
          BY <4>1 DEF R!Handle
        <5>2. r.num # 2
          BY <3>1
        <5> QED
          BY <3>1, <3>2, <4>1, <5>1, <5>2 DEF R!WakeUpReport
      <4>2. CASE k = "meter"
        BY <3>1, <4>2 DEF R!Handle, R!MeterReport
      <4> QED
        BY <4>1, <4>2
    <3>4. g \in RepPlace /\ g.items = FirstParts(n, IF kept THEN 2 ELSE 1)
      <4>1. f \in RepPlace /\ FirstParts(n, IF kept THEN 2 ELSE 1) \in Seq(RepItem)
        BY FewParts, NothingTyped
      <4> HIDE DEF f, kept
      <4> QED
        BY <4>1 DEF RepPlace
    <3> HIDE DEF g, h
    <3>5. Len(g.items) >= 1 /\ g.items[1] = <<n, 1>>
      <4>1. \A i \in {1, 2} : Len(FirstParts(n, i)) >= 1 /\ FirstParts(n, i)[1] = <<n, 1>>
        <5>1. /\ Len(FirstParts(n, 1)) = 1 /\ Len(FirstParts(n, 2)) = 2
              /\ FirstParts(n, 1)[1] = <<n, 1>> /\ FirstParts(n, 2)[1] = <<n, 1>>
          BY FewParts, Zenon
        <5> QED
          BY <5>1
      <4>2. \E i \in {1, 2} : g.items = FirstParts(n, i)
        <5> HIDE DEF kept
        <5> QED
          BY <3>4
      <4> QED
        BY <4>1, <4>2
    <3>6. /\ h.acc = g /\ h.next = (IF whole \/ kept THEN 0 ELSE 2)
          /\ h.cb = (IF whole \/ kept THEN TRUE ELSE FALSE)
      BY <3>3 DEF R!Then
    <3>7. b = g
      BY <3>6 DEF PlaceAfter, R!Cleared, h, r
    <3>8. h.cb => Parts[n][k] = IF kept THEN 2 ELSE 1
      BY <1>1, <3>6
    <3>9. h.next = 2 => Parts[n][k] = 2
      BY <1>1, <3>6
    <3> QED
      BY <3>4, <3>5, <3>6, <3>7, <3>8, <3>9, WholeParts
  <2>2. CASE r = R!Report(n, k, 2) /\ Parts[n][k] = 2 /\ Len(a.items) >= 1 /\ a.items[1] = <<n, 1>>
    <3>1. r.num = 2 /\ r.items = <<<<n, 2>>>>
      BY <2>2, FewReports
    <3>2. SubSeq(a.items, 1, 1) = <<<<n, 1>>>>
      <4>1. a.items \in Seq(RepItem) /\ Len(a.items) \in Nat
        BY LenProperties DEF RepPlace
      <4>2. \A i \in 1 .. 1 : a.items[i] \in RepItem
        BY <2>2, <4>1, ElementOfSeq
      <4> DEFINE s == SubSeq(a.items, 1, 1)
      <4>3. s \in Seq(RepItem) /\ Len(s) = 1 /\ \A i \in 1 .. 1 : s[i] = a.items[1 + i - 1]
        BY <4>2, SubSeqProperties
      <4> HIDE DEF s
      <4>4. s[1] = <<n, 1>>
        BY <2>2, <4>3
      <4>5. s = <<<<n, 1>>>>
        BY <4>3, <4>4, OneElement
      <4> QED
        BY <4>5 DEF s
    <3>3. SubSeq(a.items, 1, 1) \o r.items = FirstParts(n, 2)
      BY <3>1, <3>2, FewParts
    <3> DEFINE kept == IF k = "wake_up" THEN a.known \cup {n} ELSE a.known
               g == [a EXCEPT !.items = FirstParts(n, 2), !.known = kept]
    <3>4. h = R!Then(g, 0, TRUE)
      <4>1. CASE k = "wake_up"
        <5>1. g = [a EXCEPT !.items = SubSeq(@, 1, 1) \o r.items, !.known = @ \cup {n}]
          BY <3>3, <4>1 DEF RepPlace
        <5>2. h = R!WakeUpReport(a, n, r)
          BY <4>1 DEF R!Handle
        <5> HIDE DEF g, r, h
        <5> QED
          BY <3>1, <5>1, <5>2 DEF R!WakeUpReport
      <4>2. CASE k = "meter"
        <5>1. g = [a EXCEPT !.items = SubSeq(@, 1, 1) \o r.items]
          BY <3>3, <4>2 DEF RepPlace
        <5>2. h = R!MeterReport(a, n, r)
          BY <4>2 DEF R!Handle
        <5> HIDE DEF g, r, h
        <5> QED
          BY <3>1, <5>1, <5>2 DEF R!MeterReport
      <4> QED
        BY <4>1, <4>2
    <3>5. g \in RepPlace /\ g.items = FirstParts(n, 2)
      <4>1. FirstParts(n, 2) \in Seq(RepItem) /\ kept \in SUBSET Nodes
        BY FewParts DEF RepPlace
      <4> HIDE DEF kept
      <4> QED
        BY <4>1 DEF RepPlace
    <3>6. Len(g.items) = 2 /\ g.items[1] = <<n, 1>>
      BY <3>5, FewParts
    <3> HIDE DEF g, h
    <3>7. h.acc = g /\ h.next = 0
      BY <3>4 DEF R!Then
    <3>8. b = g
      BY <3>7 DEF PlaceAfter, R!Cleared, h, r
    <3> QED
      BY <2>2, <3>5, <3>6, <3>7, <3>8, WholeParts
  <2> QED
    BY <1>1, <2>1, <2>2 DEF PairOk
<1> DEFINE o == OnTheirWay(k, n, q, a, twice)
           d == IF twice THEN 0 ELSE 1
<1>3. /\ \A i \in 1 .. Len(o) : i \in 1 .. Len(q) - d => o[i] = q[i + d]
      /\ \A i \in 1 .. Len(o) : i \notin 1 .. Len(q) - d =>
           i = Len(q) - d + 1 /\ h.next # 0 /\ o[i] = R!Report(n, k, h.next)
      /\ \A i \in 1 .. Len(q) - d : i + d \in 1 .. Len(q)
  BY <1>2, NextOnTheirWay
<1> HIDE DEF h, b, o, d
<1>4. ASSUME NEW i \in 1 .. Len(o)
      PROVE  \/ o[i] = R!Report(n, k, 1)
             \/ /\ o[i] = R!Report(n, k, 2) /\ Parts[n][k] = 2
                /\ Len(b.items) >= 1 /\ b.items[1] = <<n, 1>>
  <2>1. CASE i \in 1 .. Len(q) - d
    <3>1. i + d \in 1 .. Len(q) /\ o[i] = q[i + d]
      BY <1>3, <2>1
    <3> QED
      BY <1>2, <3>1 DEF PairOk
  <2>2. CASE i \notin 1 .. Len(q) - d
    BY <1>2, <1>3, <2>2
  <2> QED
    BY <2>1, <2>2
<1> QED
  <2>1. PairOk(k, n, o, b)
    BY <1>4 DEF PairOk
  <2>2. h.next \in Nat
    BY <1>2
  <2> QED
    BY <1>2, <2>1, <2>2 DEF h, b, o, r

\* A report of an AV answer is taken if it is the one that is awaited, and the first one
\* begins the answer anew.
LEMMA AvHead ==
  ASSUME NEW n \in Nodes, "av" \in Kinds, NEW q \in Seq(RepReport), q # << >>,
         NEW a \in RepPlace, AvOk(n, q, a), NEW twice \in BOOLEAN
  PROVE  LET h == R!Handle("av", a, n, Head(q)) IN
         /\ h.next \in Nat
         /\ PlaceAfter("av", n, q, a) \in RepPlace
         /\ AvOk(n, OnTheirWay("av", n, q, a, twice), PlaceAfter("av", n, q, a))
         /\ h.cb => h.acc.items = R!Whole(n, "av")
<1> DEFINE p == Parts[n]["av"]
           r == Head(q)
           h == R!Handle("av", a, n, r)
           b == PlaceAfter("av", n, q, a)
           o == OnTheirWay("av", n, q, a, twice)
           d == IF twice THEN 0 ELSE 1
<1>1. p \in 1 .. 3 /\ Len(q) \in Nat \ {0} /\ r = q[1] /\ 1 \in 1 .. Len(q) /\ d \in 0 .. 1
  BY TailOf, AnswerSizes
<1>2. \A i \in 1 .. Len(q) : q[i] \in RepReport /\ q[i].num \in Nat
  <2>1. \A i \in 1 .. Len(q) : q[i] \in RepReport
    BY ElementOfSeq
  <2> QED
    BY <2>1 DEF RepReport
<1>3. a.items \in Seq(RepItem) /\ a.num \in Nat
  BY DEF RepPlace
<1>4. h = R!AvReport(a, n, r)
  BY DEF R!Handle
<1>5. b = IF h.cb THEN [h.acc EXCEPT !.items = << >>] ELSE h.acc
  BY DEF PlaceAfter, R!Cleared
<1>6. /\ \A i \in 1 .. Len(q) :
           \/ q[i].num = 0 /\ q[i].left = p
           \/ q[i].num \in 1 .. p /\ q[i] = R!Report(n, "av", q[i].num)
      /\ \A i, j \in 1 .. Len(q) : i < j /\ q[j].num = 0 => q[i].num = 0
      /\ \A i \in 1 .. Len(q) : q[i].num > 0 =>
           /\ a.total = p /\ a.num <= p /\ q[i].num <= a.num + 1
           /\ a.num < p => a.items = FirstParts(n, a.num)
           /\ a.num > 0 => \A j \in 1 .. Len(q) : q[j].num > 0
  BY DEF AvOk
<1>7. h.next \in Nat =>
        /\ o \in Seq(RepReport) /\ Len(o) \in Nat
        /\ \A i \in 1 .. Len(o) : i \in 1 .. Len(q) - d => o[i] = q[i + d]
        /\ \A i \in 1 .. Len(o) : i \notin 1 .. Len(q) - d =>
             i = Len(q) - d + 1 /\ h.next # 0 /\ o[i] = R!Report(n, "av", h.next)
        /\ \A i \in 1 .. Len(q) - d : i + d \in 1 .. Len(q)
  BY NextOnTheirWay
<1> HIDE DEF h, b, o, d, p
<1>8. CASE r.num = 0
  <2> DEFINE g == [R!Nothing EXCEPT !.total = r.left]
  <2>1. h = R!Then(g, 1, FALSE) /\ r.left = p
    BY <1>1, <1>4, <1>6, <1>8 DEF R!AvReport
  <2>2. g \in RepPlace /\ g.total = p /\ g.num = 0 /\ g.items = FirstParts(n, 0)
    <3>1. p \in Int
      BY <1>1
    <3> QED
      BY <2>1, <3>1, NothingTyped, FewParts DEF RepPlace
  <2> HIDE DEF g
  <2>3. h.next = 1 /\ b = g /\ ~ h.cb
    BY <1>5, <2>1 DEF R!Then
  <2>4. R!Report(n, "av", 1).num = 1
    BY FewReports
  <2>5. \A i \in 1 .. Len(q) : q[i].num <= 1
    BY <1>1, <1>2, <1>3, <1>6, <1>8
  <2>6. ASSUME NEW i \in 1 .. Len(o)
        PROVE  /\ \/ o[i].num = 0 /\ o[i].left = p
                  \/ o[i].num \in 1 .. p /\ o[i] = R!Report(n, "av", o[i].num)
               /\ o[i].num <= 1
               /\ o[i].num = 0 => i \in 1 .. Len(q) - d
    <3>1. CASE i \in 1 .. Len(q) - d
      BY <1>6, <1>7, <2>3, <2>5, <3>1
    <3>2. CASE i \notin 1 .. Len(q) - d
      BY <1>1, <1>7, <2>3, <2>4, <3>2
    <3> QED
      BY <3>1, <3>2
  <2>7. ASSUME NEW i \in 1 .. Len(o), NEW j \in 1 .. Len(o), i < j, o[j].num = 0 PROVE o[i].num = 0
    <3>1. j \in 1 .. Len(q) - d
      BY <2>6, <2>7
    <3>2. i \in 1 .. Len(q) - d /\ i + d < j + d
      BY <1>1, <2>7, <3>1
    <3> QED
      BY <1>6, <1>7, <2>3, <2>7, <3>1, <3>2
  <2>8. AvOk(n, o, g)
    <3>1. g.num <= p
      BY <1>1, <2>2
    <3> QED
      BY <2>2, <2>6, <2>7, <3>1 DEF AvOk, p
  <2> QED
    BY <2>2, <2>3, <2>8 DEF h, b, o
<1>9. CASE r.num > 0 /\ a.num >= r.num
  <2>1. h = R!Then(a, 0, FALSE)
    <3>1. r.num # 0
      BY <1>1, <1>2, <1>9
    <3> HIDE DEF r
    <3> QED
      BY <1>4, <1>9, <3>1 DEF R!AvReport
  <2>2. h.next = 0 /\ b = a /\ ~ h.cb
    BY <1>5, <2>1 DEF R!Then
  <2>3. \A i \in 1 .. Len(o) : i + d \in 1 .. Len(q) /\ o[i] = q[i + d]
    BY <1>7, <2>2
  <2>4. \A i, j \in 1 .. Len(o) : i < j => i + d < j + d
    BY <1>1
  <2>5. AvOk(n, o, a)
    BY <1>6, <2>3, <2>4 DEF AvOk, p
  <2> QED
    BY <2>2, <2>5 DEF h, b, o
<1>10. CASE r.num > 0 /\ ~ (a.num >= r.num)
  <2> DEFINE j == r.num
  <2>1. /\ j = a.num + 1 /\ j \in 1 .. p /\ a.total = p /\ a.items = FirstParts(n, a.num)
        /\ r = R!Report(n, "av", j)
    BY <1>1, <1>2, <1>3, <1>6, <1>10
  <2>2. ASSUME NEW i \in 1 .. Len(q) PROVE q[i].num \in 1 .. p /\ q[i].num <= j
    <3>1. q[i].num # 0
      BY <1>1, <1>2, <1>6, <1>10
    <3> QED
      BY <1>2, <1>6, <2>1, <3>1
  <2>3. r.items = <<<<n, j>>>>
    BY <1>2, <2>1, ReportTyped
  <2>4. a.items \o r.items = FirstParts(n, j) /\ FirstParts(n, j) \in Seq(RepItem)
    <3>1. /\ FirstParts(n, a.num) \o <<<<n, a.num + 1>>>> = FirstParts(n, a.num + 1)
          /\ FirstParts(n, a.num) \in Seq(RepItem)
      BY <1>3, FirstPartsTyped
    <3>2. FirstParts(n, a.num + 1) \in Seq(RepItem)
      <4>1. a.num + 1 \in Nat
        BY <1>3
      <4> QED
        BY <4>1, FirstPartsTyped
    <3> QED
      BY <2>1, <2>3, <3>1, <3>2
  <2> DEFINE g == [a EXCEPT !.items = FirstParts(n, j), !.num = j]
  <2>5. h = IF a.total = j THEN R!Then(g, 0, TRUE) ELSE R!Then(g, j + 1, FALSE)
    <3>1. g = [a EXCEPT !.items = @ \o r.items, !.num = r.num]
      BY <2>4 DEF RepPlace
    <3>2. r.num # 0
      BY <1>1, <1>2, <1>10
    <3> HIDE DEF g, r
    <3> QED
      BY <1>4, <1>10, <3>1, <3>2 DEF R!AvReport
  <2>6. g \in RepPlace /\ g.items = FirstParts(n, j) /\ g.num = j /\ g.total = p
    <3>1. j \in Nat
      BY <1>1, <1>2
    <3> HIDE DEF j
    <3> QED
      BY <2>1, <2>4, <3>1 DEF RepPlace
  <2> HIDE DEF g, j
  <2>7. CASE j = p
    <3>1. h = R!Then(g, 0, TRUE)
      BY <2>1, <2>5, <2>7
    <3>2. h.next = 0 /\ h.cb /\ h.acc = g
      BY <3>1 DEF R!Then
    <3> DEFINE c == [g EXCEPT !.items = << >>]
    <3>3. b = c
      BY <1>5, <3>2
    <3>4. c \in RepPlace /\ c.num = p /\ c.total = p
      <4>1. << >> \in Seq(RepItem)
        BY EmptySeq
      <4> QED
        BY <2>6, <2>7, <4>1 DEF RepPlace
    <3> HIDE DEF c
    <3>5. \A i \in 1 .. Len(o) : i + d \in 1 .. Len(q) /\ o[i] = q[i + d]
      BY <1>7, <3>2
    <3>6. ASSUME NEW i \in 1 .. Len(o)
          PROVE  /\ o[i].num \in 1 .. p /\ o[i].num <= p + 1
                 /\ o[i] = R!Report(n, "av", o[i].num)
      <4>1. q[i + d].num \in 1 .. p /\ i + d \in 1 .. Len(q) /\ o[i] = q[i + d]
        BY <2>2, <3>5
      <4> QED
        BY <1>1, <1>6, <4>1
    <3>7. AvOk(n, o, c)
      <4>1. p <= p /\ ~ (p < p)
        BY <1>1
      <4>2. \A i \in 1 .. Len(o) : o[i].num # 0 /\ o[i].num > 0
        BY <1>1, <3>6
      <4> QED
        BY <3>4, <3>6, <4>1, <4>2 DEF AvOk, p
    <3>8. h.acc.items = R!Whole(n, "av")
      BY <2>6, <2>7, <3>2, WholeParts DEF p
    <3> QED
      BY <3>2, <3>3, <3>4, <3>7, <3>8 DEF h, b, o
  <2>8. CASE j # p
    <3>1. h = R!Then(g, j + 1, FALSE)
      BY <2>1, <2>5, <2>8
    <3>2. h.next = j + 1 /\ ~ h.cb /\ h.acc = g /\ b = g /\ j \in Nat /\ j + 1 \in 1 .. p
          /\ h.next \in Nat
      <4>1. h.next = j + 1 /\ h.cb = FALSE /\ h.acc = g
        BY <3>1 DEF R!Then
      <4> QED
        BY <1>1, <1>5, <2>1, <2>8, <4>1
    <3>3. R!Report(n, "av", j + 1).num = j + 1
      BY <3>2, ReportTyped
    <3>4. ASSUME NEW i \in 1 .. Len(o)
          PROVE  o[i].num \in 1 .. p /\ o[i].num <= j + 1 /\ o[i] = R!Report(n, "av", o[i].num)
      <4>1. CASE i \in 1 .. Len(q) - d
        <5>1. i + d \in 1 .. Len(q) /\ o[i] = q[i + d]
          BY <1>7, <3>2, <4>1
        <5>2. q[i + d].num \in 1 .. p /\ q[i + d].num <= j
          BY <2>2, <5>1
        <5>3. q[i + d] = R!Report(n, "av", q[i + d].num)
          BY <1>1, <1>6, <5>1, <5>2
        <5> QED
          BY <1>1, <3>2, <5>1, <5>2, <5>3
      <4>2. CASE i \notin 1 .. Len(q) - d
        BY <1>7, <3>2, <3>3, <4>2
      <4> QED
        BY <4>1, <4>2
    <3>5. AvOk(n, o, g)
      <4>1. g.num <= p
        BY <1>1, <2>1, <2>6
      <4>2. \A i \in 1 .. Len(o) : o[i].num # 0 /\ o[i].num > 0
        BY <1>1, <3>4
      <4> QED
        BY <2>6, <3>4, <4>1, <4>2 DEF AvOk, p
    <3> QED
      BY <2>6, <3>2, <3>5 DEF h, b, o
  <2> QED
    BY <2>7, <2>8
<1> QED
  BY <1>1, <1>2, <1>3, <1>8, <1>9, <1>10

\* A step of a kind of answer.
LEMMA ReportArrivesInv ==
  ASSUME OneAnswer, ReportInv, NEW n \in Nodes, NEW k \in Kinds, NEW twice \in BOOLEAN,
         twice => k \in Fails, R!Arrives(n, k, twice)
  PROVE  ReportInv'
<1> DEFINE q == air[n][k]
           a == acc[k]
           h == R!Handle(k, a, n, Head(q))
           b == PlaceAfter(k, n, q, a)
           o == OnTheirWay(k, n, q, a, twice)
<1>1. q \in Seq(RepReport) /\ q # << >> /\ a \in RepPlace /\ AnswerOk(k, n, q, a)
  BY DEF ReportInv, ReportTypes, R!Arrives
<1>2. /\ air' = [air EXCEPT ![n][k] = o]
      /\ acc' = [acc EXCEPT ![k] = b]
      /\ told' = IF h.cb THEN [kind |-> k, node |-> n, items |-> h.acc.items] ELSE told
      /\ asks' = asks
  BY DEF R!Arrives, PlaceAfter, OnTheirWay
<1> HIDE DEF q, a, h, b, o
<1>3. /\ o \in Seq(RepReport) /\ b \in RepPlace
      /\ o # << >> => AnswerOk(k, n, o, b)
      /\ k \in {"asc", "sec"} /\ o = << >> => b.items = << >> /\ (k = "sec" => ~ b.has)
      /\ h.cb => h.acc.items = R!Whole(n, k)
  <2>1. CASE k \in {"asc", "sec"}
    <3>1. RunOk(k, n, q, a) /\ ~ twice
      BY <1>1, <2>1 DEF AnswerOk, OneAnswer
    <3>2. /\ h.next = 0 /\ (h.cb <=> Tail(q) = << >>) /\ b \in RepPlace
          /\ Tail(q) # << >> => RunOk(k, n, Tail(q), b)
          /\ h.cb => h.acc.items = R!Whole(n, k) /\ b.items = << >> /\ (k = "sec" => ~ b.has)
      BY <1>1, <2>1, <3>1, RunHead DEF h, b
    <3>3. o = Tail(q) \o << >> /\ Tail(q) \in Seq(RepReport)
      BY <1>1, <3>1, <3>2, TailOf DEF o, OnTheirWay, h
    <3>4. o = Tail(q)
      BY <3>3, ConcatEmptySeq
    <3> QED
      BY <2>1, <3>2, <3>3, <3>4 DEF AnswerOk
  <2>2. CASE k \in {"wake_up", "meter"}
    <3>1. PairOk(k, n, q, a)
      BY <1>1, <2>2 DEF AnswerOk
    <3>2. h.next \in Nat /\ b \in RepPlace /\ PairOk(k, n, o, b) /\ (h.cb => h.acc.items = R!Whole(n, k))
      BY <1>1, <2>2, <3>1, PairHead DEF h, b, o
    <3>3. o \in Seq(RepReport)
      BY <1>1, <3>2, NextOnTheirWay DEF h, o
    <3> QED
      BY <2>2, <3>2, <3>3 DEF AnswerOk
  <2>3. CASE k = "av"
    <3>1. AvOk(n, q, a)
      BY <1>1, <2>3 DEF AnswerOk
    <3>2. h.next \in Nat /\ b \in RepPlace /\ AvOk(n, o, b) /\ (h.cb => h.acc.items = R!Whole(n, k))
      BY <1>1, <2>3, <3>1, AvHead DEF h, b, o
    <3>3. o \in Seq(RepReport)
      BY <1>1, <3>2, NextOnTheirWay DEF h, o
    <3> QED
      BY <2>3, <3>2, <3>3 DEF AnswerOk
  <2> QED
    BY <2>1, <2>2, <2>3, AnswerSizes
<1>4. ReportTypes'
  BY <1>2, <1>3 DEF ReportInv, ReportTypes
<1>5. /\ \A m \in Nodes, j \in Kinds : air'[m][j] = IF m = n /\ j = k THEN o ELSE air[m][j]
      /\ \A j \in Kinds : acc'[j] = IF j = k THEN b ELSE acc[j]
  BY <1>2 DEF ReportInv, ReportTypes
<1>6. \A m \in Nodes : air[m][k] # << >> => m = n
  BY <1>1 DEF ReportInv, q
<1>7. ASSUME NEW j \in Kinds
      PROVE  /\ \A m, l \in Nodes : air'[m][j] # << >> /\ air'[l][j] # << >> => m = l
             /\ \A m \in Nodes : air'[m][j] # << >> => AnswerOk(j, m, air'[m][j], acc'[j])
             /\ PlaceFree(j)'
  <2>1. CASE j = k
    BY <1>3, <1>5, <1>6, <2>1 DEF PlaceFree
  <2>2. CASE j # k
    BY <1>5, <2>2 DEF ReportInv, PlaceFree
  <2> QED
    BY <2>1, <2>2
<1>8. R!WholeAnswer'
  <2>1. CASE h.cb
    <3>1. told' = [kind |-> k, node |-> n, items |-> R!Whole(n, k)]
      BY <1>2, <1>3, <2>1
    <3> QED
      BY <3>1 DEF R!WholeAnswer
  <2>2. CASE ~ h.cb
    BY <1>2, <2>2 DEF ReportInv, R!WholeAnswer
  <2> QED
    BY <2>1, <2>2
<1> QED
  BY <1>4, <1>7, <1>8 DEF ReportInv

LEMMA ReportInvStep ==
  ASSUME OneAnswer, ReportInv, [Next]_vars
  PROVE  ReportInv'
<1>1. CASE UNCHANGED reportVars
  BY <1>1 DEF reportVars, ReportInv, ReportTypes, PlaceFree, R!WholeAnswer
<1>2. ASSUME NEW n \in Nodes, NEW k \in Kinds, R!Ask(n, k) PROVE ReportInv'
  <2> DEFINE e == R!FirstAnswer(n, k)
             o == air[n][k] \o e
  <2>1. /\ air' = [air EXCEPT ![n][k] = o] /\ acc' = acc /\ told' = told /\ asks' = asks + 1
    BY <1>2 DEF R!Ask
  <2>2. \A m \in Nodes : air[m][k] # << >> => m = n /\ k \in Again
    BY <1>2 DEF R!Ask, OneAnswer
  <2>3. acc[k] \in RepPlace /\ air[n][k] \in Seq(RepReport)
    BY DEF ReportInv, ReportTypes
  <2>4. ASSUME air[n][k] = << >>
        PROVE  o \in Seq(RepReport) /\ AnswerOk(k, n, o, acc[k])
    <3>1. k \in {"asc", "sec"} => acc[k].items = << >> /\ (k = "sec" => ~ acc[k].has)
      BY <2>2, <2>4 DEF ReportInv, PlaceFree
    <3>2. e \in Seq(RepReport) /\ AnswerOk(k, n, e, acc[k])
      BY <2>3, <3>1, AnswerBegins
    <3>3. o = e
      BY <2>4, <3>2, ConcatEmptySeq
    <3> QED
      BY <3>2, <3>3
  <2>5. ASSUME air[n][k] # << >>
        PROVE  o \in Seq(RepReport) /\ AnswerOk(k, n, o, acc[k])
    <3>1. k \in {"wake_up", "meter"}
      BY <2>2, <2>5 DEF OneAnswer
    <3>2. AnswerOk(k, n, air[n][k], acc[k])
      BY <2>5 DEF ReportInv
    <3>3. PairOk(k, n, air[n][k], acc[k])
      BY <3>1, <3>2 DEF AnswerOk
    <3>4. e = <<R!Report(n, k, 1)>> /\ R!Report(n, k, 1) \in RepReport
      BY <3>1, ReportTyped DEF R!FirstAnswer
    <3> DEFINE q == air[n][k]
    <3> HIDE DEF e
    <3>5. e \in Seq(RepReport) /\ Len(e) = 1 /\ e[1] = R!Report(n, k, 1)
      BY <3>4
    <3>6. /\ o \in Seq(RepReport) /\ Len(o) = Len(q) + Len(e) /\ Len(q) \in Nat
          /\ \A i \in 1 .. Len(q) + Len(e) : o[i] = IF i <= Len(q) THEN q[i] ELSE e[i - Len(q)]
      BY <2>3, <3>5, ConcatProperties, LenProperties
    <3> HIDE DEF o
    <3>7. ASSUME NEW i \in 1 .. Len(o) 
          PROVE  (i \in 1 .. Len(q) /\ o[i] = q[i]) \/ o[i] = R!Report(n, k, 1)
      <4>1. CASE i <= Len(q)
        BY <3>5, <3>6, <4>1
      <4>2. CASE i = Len(q) + 1
        <5>1. i - Len(q) = 1 /\ ~ (i <= Len(q))
          BY <3>6, <4>2
        <5> QED
          BY <3>5, <3>6, <5>1
      <4> QED
        BY <3>5, <3>6, <4>1, <4>2
    <3>8. PairOk(k, n, o, acc[k])
      BY <3>3, <3>7 DEF PairOk
    <3> QED
      BY <3>1, <3>6, <3>8 DEF AnswerOk
  <2>6. o \in Seq(RepReport) /\ AnswerOk(k, n, o, acc[k])
    BY <2>4, <2>5
  <2> HIDE DEF o
  <2>7. ReportTypes'
    BY <2>1, <2>6 DEF ReportInv, ReportTypes
  <2>8. \A m \in Nodes, j \in Kinds : air'[m][j] = IF m = n /\ j = k THEN o ELSE air[m][j]
    BY <2>1 DEF ReportInv, ReportTypes
  <2>9. ASSUME o = << >> PROVE air[n][k] = << >>
    <3>1. R!Nothing \in RepPlace /\ R!Nothing.items = << >> /\ ~ R!Nothing.has
      BY NothingTyped
    <3>2. e \in Seq(RepReport)
      BY <3>1, AnswerBegins
    <3> HIDE DEF e
    <3> QED
      BY <2>3, <2>9, <3>2, ConcatSimplifications DEF o
  <2>10. ASSUME NEW j \in Kinds
         PROVE  /\ \A m, l \in Nodes : air'[m][j] # << >> /\ air'[l][j] # << >> => m = l
                /\ \A m \in Nodes : air'[m][j] # << >> => AnswerOk(j, m, air'[m][j], acc'[j])
                /\ PlaceFree(j)'
    <3>1. CASE j = k
      BY <2>1, <2>2, <2>6, <2>8, <2>9, <3>1 DEF PlaceFree, ReportInv
    <3>2. CASE j # k
      BY <2>1, <2>8, <3>2 DEF ReportInv, PlaceFree
    <3> QED
      BY <3>1, <3>2
  <2> QED
    BY <2>1, <2>7, <2>10 DEF ReportInv, R!WholeAnswer
<1>3. CASE R!ReportArrives
  BY <1>3, ReportArrivesInv DEF R!ReportArrives
<1>4. CASE R!ArrivesTwice
  <2>1. PICK n \in Nodes, k \in Fails : R!Arrives(n, k, TRUE)
    BY <1>4 DEF R!ArrivesTwice
  <2>2. k \in Kinds
    BY PartsAssumption DEF R!ReportsAssumption
  <2> QED
    BY <2>1, <2>2, ReportArrivesInv
<1>5. CASE R!IsLost
  <2>1. PICK n \in Nodes, k \in Fails : air[n][k] # << >> /\ air' = [air EXCEPT ![n][k] = Tail(@)]
    BY <1>5 DEF R!IsLost
  <2>2. k \in Kinds /\ k \in {"av", "wake_up", "meter"} /\ UNCHANGED <<asks, acc, told>>
    BY <1>5, PartsAssumption DEF R!ReportsAssumption, R!IsLost, OneAnswer
  <2> DEFINE q == air[n][k]
             o == Tail(q)
  <2>3. /\ q \in Seq(RepReport) /\ o \in Seq(RepReport) /\ Len(q) \in Nat \ {0} /\ Len(o) = Len(q) - 1
        /\ \A i \in 1 .. Len(o) : o[i] = q[i + 1]
    BY <2>1, <2>2, TailOf DEF ReportInv, ReportTypes
  <2>4. AnswerOk(k, n, q, acc[k])
    BY <2>1, <2>2 DEF ReportInv
  <2> HIDE DEF q, o
  <2>5. /\ \A i \in 1 .. Len(o) : i + 1 \in 1 .. Len(q)
        /\ \A i, j \in 1 .. Len(o) : i < j => i + 1 < j + 1
    BY <2>3
  <2>6. AnswerOk(k, n, o, acc[k])
    <3>1. CASE k = "av"
      <4>1. AvOk(n, q, acc[k])
        BY <2>4, <3>1 DEF AnswerOk
      <4>2. AvOk(n, o, acc[k])
        BY <2>3, <2>5, <4>1 DEF AvOk
      <4> QED
        BY <3>1, <4>2 DEF AnswerOk
    <3>2. CASE k \in {"wake_up", "meter"}
      <4>1. PairOk(k, n, q, acc[k])
        BY <2>4, <3>2 DEF AnswerOk
      <4>2. PairOk(k, n, o, acc[k])
        BY <2>3, <2>5, <4>1 DEF PairOk
      <4> QED
        BY <3>2, <4>2 DEF AnswerOk
    <3> QED
      BY <2>2, <3>1, <3>2
  <2>7. air' = [air EXCEPT ![n][k] = o]
    BY <2>1 DEF o, q
  <2>8. \A m \in Nodes, j \in Kinds : air'[m][j] = IF m = n /\ j = k THEN o ELSE air[m][j]
    BY <2>2, <2>7 DEF ReportInv, ReportTypes
  <2>9. \A m \in Nodes : air[m][k] # << >> => m = n
    BY <2>1, <2>2 DEF ReportInv
  <2>10. ASSUME NEW j \in Kinds
         PROVE  /\ \A m, l \in Nodes : air'[m][j] # << >> /\ air'[l][j] # << >> => m = l
                /\ \A m \in Nodes : air'[m][j] # << >> => AnswerOk(j, m, air'[m][j], acc'[j])
                /\ PlaceFree(j)'
    <3>1. CASE j = k
      BY <2>2, <2>6, <2>8, <2>9, <3>1 DEF PlaceFree
    <3>2. CASE j # k
      BY <2>2, <2>8, <3>2 DEF ReportInv, PlaceFree
    <3> QED
      BY <3>1, <3>2
  <2>11. ReportTypes'
    BY <2>2, <2>3, <2>7 DEF ReportInv, ReportTypes
  <2> QED
    BY <2>2, <2>10, <2>11 DEF ReportInv, R!WholeAnswer
<1> QED
  BY <1>1, <1>2, <1>3, <1>4, <1>5, ReportSteps DEF R!Next

\* The callback is given the whole answer of the node it is named for, each part once
\* and in order, whatever was repeated or lost on the way.
THEOREM AnswersAreWhole ==
  ASSUME OneAnswer
  PROVE  Spec => []WholeAnswer
<1>1. Init => ReportInv
  <2> SUFFICES ASSUME R!Init PROVE ReportInv
    BY DEF Init
  <2>1. ReportTypes
    <3>1. << >> \in Seq(RepReport)
      BY EmptySeq
    <3> QED
      BY <3>1, NothingTyped DEF R!Init, ReportTypes
  <2>2. \A n \in Nodes, k \in Kinds : air[n][k] = << >>
    BY DEF R!Init
  <2>3. \A k \in Kinds : acc[k].items = << >> /\ ~ acc[k].has
    BY NothingTyped DEF R!Init
  <2>4. R!WholeAnswer
    BY DEF R!Init, R!WholeAnswer
  <2> QED
    BY <2>1, <2>2, <2>3, <2>4 DEF ReportInv, PlaceFree
<1>2. ReportInv /\ [Next]_vars => ReportInv'
  BY ReportInvStep
<1>3. ReportInv => WholeAnswer
  BY DEF ReportInv, WholeAnswer
<1> QED
  BY <1>1, <1>2, <1>3, PTL DEF Spec

---------------------------------------------------------------------------
(***************************************************************************)
(* The values in commands and reports.  For each kind, whatever the         *)
(* function lets through comes back out of the bytes it has written: the    *)
(* parts of a byte do not reach into each other, a sign or a size is read    *)
(* as it was written, and what marks the unused or the reserved is none of   *)
(* the values.                                                               *)
(***************************************************************************)

\* One byte, whole or its lower five bits.
LEMMA OneByteComesBack ==
  ASSUME NEW v
  PROVE  C!BasicRead(C!OneByte(v)) = << v >>
  BY DEF C!BasicRead, C!OneByte, C!From, C!Value

LEMMA ModeComesBack ==
  ASSUME NEW v \in 0 .. 31
  PROVE  C!ThrmoMdRead(C!OneByte(v)) = << v >>
  BY DEF C!ThrmoMdRead, C!OneByte, C!From, C!Value

\* The three bytes of the wake-up interval.
LEMMA WakeupComesBack ==
  ASSUME NEW v \in C!Wakeups
  PROVE  C!WakeupRead(C!WakeupBytes(v)) = << v >>
<1>1. v.secs \in Nat /\ v = [secs |-> v.secs, node |-> v.node]
  BY DEF C!Wakeups
<1> DEFINE h == v.secs \div 256
           m == h \div 256
<1>2. m \in 0 .. 255
  BY DEF C!Wakeups, C!Byte
<1>3. h \in Nat /\ h * 256 + (v.secs % 256) = v.secs
  BY <1>1
<1>4. m * 256 + (h % 256) = h
  BY <1>3
<1>5. m % 256 = m
  BY <1>2
<1>6. C!WakeupBytes(v) = << m % 256, h % 256, v.secs % 256, v.node >>
  BY DEF C!WakeupBytes
<1> HIDE DEF m
<1>7. C!WakeupRead(C!WakeupBytes(v))
        = << [secs |-> (m * 256 + (h % 256)) * 256 + (v.secs % 256), node |-> v.node] >>
  BY <1>5, <1>6 DEF C!Value, C!WakeupRead, C!From
<1> HIDE DEF h
<1> QED
  BY <1>1, <1>3, <1>4, <1>7

\* Two parts of one byte.
LEMMA ClockComesBack ==
  ASSUME NEW v \in C!Clocks
  PROVE  C!ClockRead(C!ClockBytes(v)) = << v >>
<1>1. /\ v.weekday \in 0 .. 7 /\ v.hour \in 0 .. 23 /\ v.minute \in 0 .. 59
      /\ v = [weekday |-> v.weekday, hour |-> v.hour, minute |-> v.minute]
  BY DEF C!Clocks
<1>2. (v.weekday * 32 + v.hour) \div 32 = v.weekday /\ (v.weekday * 32 + v.hour) % 32 = v.hour
  BY <1>1
<1> QED
  BY <1>1, <1>2 DEF C!Value, C!ClockBytes, C!ClockRead, C!From

LEMMA LockComesBack ==
  ASSUME NEW v \in C!Locks
  PROVE  C!DlckCfgRead(C!DlckCfgBytes(v)) = << v >>
<1>1. /\ v.out \in 0 .. 15 /\ v.in \in 0 .. 15
      /\ v.type # 2 => v.min = 254 /\ v.sec = 254
      /\ v = [type |-> v.type, out |-> v.out, in |-> v.in, min |-> v.min, sec |-> v.sec]
  BY DEF C!Locks
<1>2. (v.out * 16 + v.in) \div 16 = v.out /\ (v.out * 16 + v.in) % 16 = v.in
  BY <1>1
<1> QED
  BY <1>1, <1>2 DEF C!Value, C!DlckCfgBytes, C!DlckCfgRead, C!From

LEMMA FanModeComesBack ==
  ASSUME NEW e \in Nat, NEW v \in C!FanModes(e)
  PROVE  C!FanMdRead(e, C!FanMdBytes(v)) = << [off |-> v.off /\ e >= 3, mode |-> v.mode] >>
<1>1. v.off \in BOOLEAN /\ v.mode \in 0 .. 15
  BY DEF C!FanModes
<1>2. v.mode % 16 = v.mode /\ (v.mode + 128) % 16 = v.mode /\ v.mode < 128
  BY <1>1
<1>3. CASE v.off
  BY <1>1, <1>2, <1>3 DEF C!Value, C!FanMdBytes, C!FanMdRead, C!From
<1>4. CASE ~v.off
  BY <1>1, <1>2, <1>4 DEF C!Value, C!FanMdBytes, C!FanMdRead, C!From
<1> QED
  BY <1>1, <1>3, <1>4

\* A report without its second byte.
LEMMA ProtectionComesBack ==
  ASSUME NEW e \in Nat, NEW v \in C!Protections(e)
  PROVE  C!ProtRead(C!ProtBytes(e, v)) =
           << [local |-> v.local, rf |-> IF e < 2 THEN 0 ELSE v.rf] >>
  BY DEF C!Value, C!ProtBytes, C!ProtRead, C!From

LEMMA PowerComesBack ==
  ASSUME NEW v \in C!Powers
  PROVE  C!PowerRead(C!PowerBytes(v)) = << v >>
<1>1. v = [level |-> v.level, timeout |-> v.timeout]
  BY DEF C!Powers
<1> QED
  BY <1>1 DEF C!Value, C!PowerBytes, C!PowerRead, C!From

\* Tenths of a degree with their sign, clear of the bytes with a meaning of their own.
LEMMA StateComesBack ==
  ASSUME NEW s \in C!States \union {C!Named("unused")}
  PROVE  C!SetbRead(C!SetbByte(s)) = << s >>
<1>1. CASE s \in {C!Setback(t) : t \in -128 .. 120}
  <2>1. PICK t \in -128 .. 120 : s = C!Setback(t)
    BY <1>1
  <2>2. s.state = "setback" /\ s.tenths = t
    BY <2>1 DEF C!Setback
  <2>3. C!SetbByte(s) = t % 256
    BY <2>2 DEF C!SetbByte, C!ByteOf
  <2>4. t % 256 = (IF t < 0 THEN t + 256 ELSE t)
    OBVIOUS
  <2>5. t % 256 \notin 121 .. 127 /\ C!IntOf(t % 256) = t
    BY <2>4 DEF C!IntOf
  <2> QED
    BY <2>1, <2>3, <2>5 DEF C!SetbRead, C!Value
<1>2. CASE s \in {C!Named("frost"), C!Named("energy"), C!Named("unused")}
  BY <1>2 DEF C!SetbByte, C!SetbRead, C!Value, C!Named
<1> QED
  BY <1>1, <1>2 DEF C!States

LEMMA SetbackComesBack ==
  ASSUME NEW v \in C!Setbacks
  PROVE  /\ C!SetbackRead(C!SetbackBytes(v)) = << v >>
         /\ C!OvrRead(C!OvrBytes(v)) = << v >>
<1>1. /\ v.type \in 0 .. 2 /\ v.setb \in C!States \union {C!Named("unused")}
      /\ v = [type |-> v.type, setb |-> v.setb]
  BY DEF C!Setbacks
<1>2. C!SetbRead(C!SetbByte(v.setb)) = << v.setb >>
  BY <1>1, StateComesBack
<1> QED
  BY <1>1, <1>2 DEF C!Value, C!SetbackBytes, C!SetbackRead, C!OvrBytes, C!OvrRead, C!From, C!Dropped

\* What follows the first bytes of a command.
LEMMA EndOfBytes ==
  ASSUME NEW a \in Seq(Int), NEW d \in Seq(Int)
  PROVE  /\ a \o d \in Seq(Int) /\ Len(a \o d) = Len(a) + Len(d)
         /\ \A i \in 1 .. Len(a) : (a \o d)[i] = a[i]
         /\ SubSeq(a \o d, Len(a) + 1, Len(a) + Len(d)) = d
<1>1. a \o d \in Seq(Int) /\ Len(a \o d) = Len(a) + Len(d) /\ \A i \in 1 .. Len(a) : (a \o d)[i] = a[i]
  BY ConcatProperties
<1> DEFINE s == SubSeq(a \o d, Len(a) + 1, Len(a) + Len(d))
<1>2. s \in Seq(Int) /\ Len(s) = Len(d) /\ \A i \in 1 .. Len(d) : s[i] = (a \o d)[Len(a) + i]
  BY <1>1, SubSeqProperties
<1>3. \A i \in 1 .. Len(d) : (a \o d)[Len(a) + i] = d[i]
  BY ConcatProperties
<1> HIDE DEF s
<1>4. s = d
  BY <1>2, <1>3, SeqEqual
<1> QED
  BY <1>1, <1>4 DEF s

LEMMA SizedBytes ==
  ASSUME NEW x \in Int, NEW y \in Int, NEW d \in Seq(Int)
  PROVE  /\ Len(<< x, y >> \o d) = 2 + Len(d)
         /\ (<< x, y >> \o d)[1] = x /\ (<< x, y >> \o d)[2] = y
         /\ SubSeq(<< x, y >> \o d, 3, 2 + Len(d)) = d
<1>1. << x, y >> \in Seq(Int) /\ Len(<< x, y >>) = 2
  OBVIOUS
<1> QED
  BY <1>1, EndOfBytes

LEMMA BytesAreInts ==
  ASSUME NEW T \in SUBSET Int, NEW d \in Seq(T)
  PROVE  d \in Seq(Int)
<1>1. Len(d) \in Nat /\ d \in [1 .. Len(d) -> T]
  BY LenProperties
<1>2. d \in [1 .. Len(d) -> Int]
  BY <1>1
<1> QED
  BY <1>1, <1>2, SeqDef

LEMMA SizedData ==
  ASSUME NEW d \in C!Sized
  PROVE  d \in Seq(Int) /\ Len(d) \in {1, 2, 4}
<1>1. d \in Seq(C!Byte) /\ Len(d) \in {1, 2, 4} /\ C!Byte \in SUBSET Int
  BY DEF C!Sized, C!Byte
<1> QED
  BY <1>1, BytesAreInts

\* Precision, unit and size in one byte.
LEMMA Octet ==
  ASSUME NEW p \in 0 .. 7, NEW u \in 0 .. 1, NEW n \in {1, 2, 4}
  PROVE  LET y == p * 32 + u * 8 + n IN
         /\ y \in Int /\ y % 8 = n /\ y \div 32 = p /\ (y \div 8) % 4 = u
         /\ ~(n > 4) /\ 2 + n >= 3 /\ ~(2 + n < 2 + n) /\ n \in Int
<1>1. (p * 32 + u * 8 + n) \div 8 = p * 4 + u
  OBVIOUS
<1>2. (p * 4 + u) % 4 = u
  OBVIOUS
<1> QED
  BY <1>1, <1>2

\* Data with its size before it.
LEMMA ConfigComesBack ==
  ASSUME NEW v \in C!Configs
  PROVE  C!ConfigRead(C!ConfigBytes(v)) = << v >>
<1>1. v.num \in Int /\ v.data \in C!Sized /\ v = [num |-> v.num, data |-> v.data]
  BY DEF C!Configs, C!Byte
<1>2. v.data \in Seq(Int) /\ Len(v.data) \in {1, 2, 4}
  BY <1>1, SizedData
<1> DEFINE b == C!ConfigBytes(v)
           n == Len(v.data)
<1>3. n % 8 = n /\ ~(n > 4) /\ 2 + n >= 3 /\ ~(2 + n < 2 + n) /\ n \in Int
  <2>1. n \in {1, 2, 4}
    BY <1>2
  <2> HIDE DEF n
  <2> QED
    BY <2>1
<1>4. Len(b) = 2 + n /\ b[1] = v.num /\ b[2] = n /\ SubSeq(b, 3, 2 + n) = v.data
  BY <1>1, <1>2, <1>3, SizedBytes DEF C!ConfigBytes
<1> HIDE DEF b, n
<1>5. C!ConfigRead(b) = << [num |-> v.num, data |-> v.data] >>
  BY <1>3, <1>4 DEF C!ConfigRead, C!From, C!Value
<1> QED
  BY <1>1, <1>5 DEF b

LEMMA CodeComesBack ==
  ASSUME NEW v \in C!Codes
  PROVE  C!UsrcodRead(C!UsrcodBytes(v)) = << v >>
<1>1. /\ v.id \in Int /\ v.sts \in Int /\ v.code \in Seq(48 .. 57) /\ Len(v.code) \in 4 .. 10
      /\ v = [id |-> v.id, sts |-> v.sts, code |-> v.code]
  <2> DEFINE cs == {c \in Seq(48 .. 57) : Len(c) \in 4 .. 10}
  <2>1. v \in [id : C!Byte, sts : {0, 1, 2, 254}, code : cs]
    BY DEF C!Codes
  <2>2. \A c \in cs : c \in Seq(48 .. 57) /\ Len(c) \in 4 .. 10
    OBVIOUS
  <2> HIDE DEF cs
  <2>3. v.code \in cs /\ v = [id |-> v.id, sts |-> v.sts, code |-> v.code]
    BY <2>1
  <2>4. v.id \in Int /\ v.sts \in Int
    BY <2>1 DEF C!Byte
  <2> QED
    BY <2>2, <2>3, <2>4
<1>2. v.code \in Seq(Int)
  <2>1. 48 .. 57 \in SUBSET Int
    OBVIOUS
  <2> QED
    BY <1>1, <2>1, BytesAreInts
<1> DEFINE b == C!UsrcodBytes(v)
           n == Len(v.code)
<1>3. 2 + n >= 2 /\ ~((2 + n) - 2 > 10)
  <2>1. n \in 4 .. 10
    BY <1>1
  <2> HIDE DEF n
  <2> QED
    BY <2>1
<1>4. Len(b) = 2 + n /\ b[1] = v.id /\ b[2] = v.sts /\ SubSeq(b, 3, 2 + n) = v.code
  BY <1>1, <1>2, SizedBytes DEF C!UsrcodBytes
<1> HIDE DEF b, n
<1>5. C!UsrcodRead(b) = << [id |-> v.id, sts |-> v.sts, code |-> v.code] >>
  BY <1>3, <1>4 DEF C!UsrcodRead, C!From, C!Value
<1> QED
  BY <1>1, <1>5 DEF b

LEMMA SetpointComesBack ==
  ASSUME NEW v \in C!Setpoints
  PROVE  C!SetpRead(C!SetpBytes(v)) = << v >>
<1>1. /\ v.type \in 0 .. 15 /\ v.precision \in 0 .. 7 /\ v.unit \in 0 .. 1 /\ v.data \in C!Sized
      /\ v = [type |-> v.type, precision |-> v.precision, unit |-> v.unit, data |-> v.data]
  BY DEF C!Setpoints
<1>2. v.data \in Seq(Int) /\ Len(v.data) \in {1, 2, 4}
  BY <1>1, SizedData
<1> DEFINE b == C!SetpBytes(v)
           n == Len(v.data)
           y == v.precision * 32 + v.unit * 8 + n
<1>3. v.type % 16 \in Int /\ (v.type % 16) % 16 = v.type
  BY <1>1
<1>4. /\ y \in Int /\ y % 8 = n /\ y \div 32 = v.precision /\ (y \div 8) % 4 = v.unit
      /\ ~(n > 4) /\ 2 + n >= 3 /\ ~(2 + n < 2 + n)
  BY <1>1, <1>2, Octet
<1>5. b = << v.type % 16, y >> \o v.data
  BY DEF C!SetpBytes
<1> HIDE DEF y, b
<1>6. /\ Len(b) = 2 + n /\ b[1] = v.type % 16 /\ b[2] = y /\ SubSeq(b, 3, 2 + n) = v.data
  BY <1>2, <1>3, <1>4, <1>5, SizedBytes
<1> HIDE DEF n
<1>7. C!SetpRead(b) = << [type |-> v.type, precision |-> v.precision, unit |-> v.unit, data |-> v.data] >>
  BY <1>3, <1>4, <1>6 DEF C!SetpRead, C!From, C!Value
<1> QED
  BY <1>1, <1>7 DEF b

LEMMA JoinedBytes ==
  ASSUME NEW a \in Seq(Int), NEW d \in Seq(Int)
  PROVE  /\ a \o d \in Seq(Int) /\ Len(a \o d) = Len(a) + Len(d)
         /\ \A j \in Int : 1 <= j /\ j <= Len(a) => (a \o d)[j] = a[j]
         /\ \A j \in Int : Len(a) < j /\ j <= Len(a) + Len(d) => (a \o d)[j] = d[j - Len(a)]
  BY ConcatProperties

\* The report has a byte more than the command, in front of the length.
LEMMA GroupCmdComesBack ==
  ASSUME NEW v \in C!GroupCmds
  PROVE  C!GroupCmdRead(C!GroupCmdReport(C!GroupCmdBytes(v))) = << v >>
<1>1. /\ v.group \in Int /\ v.node \in Int /\ v.cmd \in Seq(C!Byte)
      /\ v = [group |-> v.group, node |-> v.node, cmd |-> v.cmd]
  <2> DEFINE cs == {c \in Seq(C!Byte) : Len(c) <= 250}
  <2>1. v \in [group : 1 .. 255, node : 1 .. 255, cmd : cs]
    BY DEF C!GroupCmds
  <2>2. \A c \in cs : c \in Seq(C!Byte)
    OBVIOUS
  <2> HIDE DEF cs
  <2>3. v.cmd \in cs /\ v = [group |-> v.group, node |-> v.node, cmd |-> v.cmd]
    BY <2>1
  <2>4. v.group \in Int /\ v.node \in Int
    BY <2>1
  <2> QED
    BY <2>2, <2>3, <2>4
<1>2. v.cmd \in Seq(Int) /\ Len(v.cmd) \in Nat
  <2>1. C!Byte \in SUBSET Int
    BY DEF C!Byte
  <2> QED
    BY <1>1, <2>1, BytesAreInts, LenProperties
<1>3. PICK n \in Nat : n = Len(v.cmd)
  BY <1>2
<1> DEFINE a == << v.group, v.node, n >>
           b == C!GroupCmdBytes(v)
           hd == SubSeq(b, 1, 2)
           tl == SubSeq(b, 3, Len(b))
           h == hd \o << 128 >>
           r == h \o tl
<1>4. a \in Seq(Int) /\ Len(a) = 3 /\ a[1] = v.group /\ a[2] = v.node /\ a[3] = n
  BY <1>1, <1>3
<1>5. /\ b \in Seq(Int) /\ Len(b) = 3 + n
      /\ b[1] = v.group /\ b[2] = v.node /\ b[3] = n
      /\ \A j \in 4 .. 3 + n : b[j] = v.cmd[j - 3]
  <2>1. b = a \o v.cmd
    BY <1>3 DEF C!GroupCmdBytes
  <2> HIDE DEF a, b
  <2>2. /\ b \in Seq(Int) /\ Len(b) = 3 + n
        /\ \A j \in Int : 1 <= j /\ j <= 3 => b[j] = a[j]
        /\ \A j \in Int : 3 < j /\ j <= 3 + n => b[j] = v.cmd[j - 3]
    <3>1. /\ b \in Seq(Int) /\ Len(b) = Len(a) + Len(v.cmd)
          /\ \A j \in Int : 1 <= j /\ j <= Len(a) => b[j] = a[j]
          /\ \A j \in Int : Len(a) < j /\ j <= Len(a) + Len(v.cmd) => b[j] = v.cmd[j - Len(a)]
      BY <1>2, <1>4, <2>1, JoinedBytes
    <3>2. Len(a) = 3 /\ Len(v.cmd) = n
      BY <1>3, <1>4
    <3>3. \A j \in Int : 1 <= j /\ j <= 3 => b[j] = a[j]
      BY <3>1, <3>2
    <3>4. \A j \in Int : 3 < j /\ j <= 3 + n => b[j] = v.cmd[j - 3]
      BY <3>1, <3>2
    <3> QED
      BY <3>1, <3>2, <3>3, <3>4
  <2>3. b[1] = a[1] /\ b[2] = a[2] /\ b[3] = a[3]
    BY <2>2
  <2> QED
    BY <1>4, <2>2, <2>3
<1>6. C!GroupCmdReport(b) = r
  BY DEF C!GroupCmdReport
<1> HIDE DEF a, b
<1>7. hd \in Seq(Int) /\ Len(hd) = 2 /\ hd[1] = b[1] /\ hd[2] = b[2]
  BY <1>5, SubSeqProperties
<1>8. tl \in Seq(Int) /\ Len(tl) = 1 + n /\ \A i \in 1 .. 1 + n : tl[i] = b[2 + i]
  BY <1>5, SubSeqProperties
<1> HIDE DEF hd, tl
<1>9. h \in Seq(Int) /\ Len(h) = 3 /\ h[1] = b[1] /\ h[2] = b[2]
  <2>1. << 128 >> \in Seq(Int) /\ Len(<< 128 >>) = 1
    OBVIOUS
  <2>2. h = hd \o << 128 >>
    OBVIOUS
  <2> HIDE DEF h
  <2>3. h \in Seq(Int) /\ Len(h) = 2 + 1 /\ \A j \in Int : 1 <= j /\ j <= 2 => h[j] = hd[j]
    <3>1. /\ h \in Seq(Int) /\ Len(h) = Len(hd) + Len(<< 128 >>)
          /\ \A j \in Int : 1 <= j /\ j <= Len(hd) => h[j] = hd[j]
      BY <1>7, <2>1, <2>2, JoinedBytes
    <3> QED
      BY <1>7, <2>1, <3>1
  <2>4. h[1] = hd[1] /\ h[2] = hd[2]
    BY <2>3
  <2> QED
    BY <1>7, <2>3, <2>4
<1> HIDE DEF h
<1>10. /\ r \in Seq(Int) /\ Len(r) = 4 + n /\ r[1] = b[1] /\ r[2] = b[2]
       /\ \A j \in 4 .. 4 + n : r[j] = b[j - 1]
  <2>0. r = h \o tl /\ 1 + n \in Nat
    OBVIOUS
  <2> HIDE DEF r
  <2>1. /\ r \in Seq(Int) /\ Len(r) = 3 + (1 + n)
        /\ \A j \in Int : 1 <= j /\ j <= 3 => r[j] = h[j]
        /\ \A j \in Int : 3 < j /\ j <= 3 + (1 + n) => r[j] = tl[j - 3]
    <3>1. /\ r \in Seq(Int) /\ Len(r) = Len(h) + Len(tl)
          /\ \A j \in Int : 1 <= j /\ j <= Len(h) => r[j] = h[j]
          /\ \A j \in Int : Len(h) < j /\ j <= Len(h) + Len(tl) => r[j] = tl[j - Len(h)]
      BY <1>8, <1>9, <2>0, JoinedBytes
    <3> QED
      BY <1>8, <1>9, <3>1
  <2>2. ASSUME NEW j \in 4 .. 4 + n
        PROVE  r[j] = b[j - 1]
    <3>1. j - 3 \in 1 .. 1 + n /\ 2 + (j - 3) = j - 1 /\ 3 < j /\ j <= 3 + (1 + n)
      OBVIOUS
    <3>2. r[j] = tl[j - 3]
      BY <2>1, <3>1
    <3>3. tl[j - 3] = b[2 + (j - 3)]
      BY <1>8, <3>1
    <3> QED
      BY <3>1, <3>2, <3>3
  <2>3. r[1] = h[1] /\ r[2] = h[2]
    BY <2>1
  <2> QED
    BY <1>9, <2>1, <2>2, <2>3
<1> HIDE DEF r
<1>11. SubSeq(r, 5, 4 + n) = v.cmd
  <2> DEFINE s == SubSeq(r, 5, 4 + n)
  <2>1. s \in Seq(Int) /\ Len(s) = n /\ \A i \in 1 .. n : s[i] = r[4 + i]
    BY <1>10, SubSeqProperties
  <2>2. \A i \in 1 .. n : s[i] = v.cmd[i]
    <3> TAKE i \in 1 .. n
    <3>1. /\ 4 + i \in 4 .. 4 + n /\ (4 + i) - 1 = 3 + i
          /\ 3 + i \in 4 .. 3 + n /\ (3 + i) - 3 = i
      OBVIOUS
    <3>2. r[4 + i] = b[3 + i]
      BY <1>10, <3>1
    <3>3. b[3 + i] = v.cmd[i]
      BY <1>5, <3>1
    <3> QED
      BY <2>1, <3>2, <3>3
  <2> HIDE DEF s
  <2>3. s = v.cmd
    BY <1>2, <1>3, <2>1, <2>2, SeqEqual
  <2> QED
    BY <2>3 DEF s
<1>12. r[4] = n /\ Len(r) >= 4 /\ ~(Len(r) < 4 + n)
  <2>1. 4 \in 4 .. 4 + n /\ 4 - 1 = 3
    OBVIOUS
  <2>2. r[4] = b[3]
    BY <1>10, <2>1
  <2> QED
    BY <1>5, <1>10, <2>2
<1>13. C!GroupCmdRead(r) = << [group |-> v.group, node |-> v.node, cmd |-> v.cmd] >>
  BY <1>5, <1>10, <1>11, <1>12 DEF C!GroupCmdRead, C!From, C!Value
<1> QED
  BY <1>1, <1>6, <1>13 DEF b

\* The byte of a switch point in use.
LEMMA StateByte ==
  ASSUME NEW s \in C!States
  PROVE  C!SetbByte(s) \in Int /\ C!SetbByte(s) \notin 123 .. 127
<1>1. CASE s \in {C!Setback(t) : t \in -128 .. 120}
  <2>1. PICK t \in -128 .. 120 : s = C!Setback(t)
    BY <1>1
  <2>2. C!SetbByte(s) = t % 256
    BY <2>1 DEF C!SetbByte, C!ByteOf, C!Setback
  <2>3. t % 256 = (IF t < 0 THEN t + 256 ELSE t)
    OBVIOUS
  <2> QED
    BY <2>2, <2>3
<1>2. CASE s \in {C!Named("frost"), C!Named("energy")}
  BY <1>2 DEF C!SetbByte, C!Named
<1> QED
  BY <1>1, <1>2 DEF C!States

\* The list ends at its first unused point, at none in use.
LEMMA ScheduleComesBack ==
  ASSUME NEW v \in C!Schedules
  PROVE  C!SchdRead(C!SchdBytes(v)) = << v >>
<1> DEFINE P == [hour : 0 .. 23, minute : 0 .. 59, setb : C!States]
<1>1. /\ v.weekday \in 1 .. 7 /\ v.points \in Seq(P) /\ Len(v.points) <= 9
      /\ v = [weekday |-> v.weekday, points |-> v.points]
  BY DEF C!Schedules
<1>2. PICK n \in 0 .. 9 : n = Len(v.points)
  <2>1. PICK n \in Nat : n = Len(v.points)
    BY <1>1
  <2>2. n <= 9
    BY <1>1, <2>1
  <2>3. n \in 0 .. 9
    BY <2>2
  <2> QED
    BY <2>1, <2>3
<1>3. ASSUME NEW i \in 1 .. n
      PROVE  LET p == v.points[i] IN
             /\ p.hour \in 0 .. 23 /\ p.minute \in 0 .. 59 /\ p.setb \in C!States
             /\ p = [hour |-> p.hour, minute |-> p.minute, setb |-> p.setb]
             /\ C!Point(v, i) = << p.hour, p.minute, C!SetbByte(p.setb) >>
  <2>1. v.points[i] \in P
    BY <1>1, <1>2, ElementOfSeq
  <2>2. C!Point(v, i) = C!PointBytes(v.points[i])
    BY <1>2 DEF C!Point
  <2> QED
    BY <2>1, <2>2 DEF C!PointBytes
<1>4. ASSUME NEW i \in 1 .. 9, i > n
      PROVE  C!Point(v, i) = << 0, 0, 127 >>
  BY <1>2, <1>4 DEF C!Point
<1>5. ASSUME NEW i \in 1 .. 9, NEW j \in 1 .. 3
      PROVE  C!Point(v, i)[j] \in Int
  <2>1. CASE i > n
    BY <1>4, <2>1
  <2>2. CASE i <= n
    <3>1. i \in 1 .. n
      BY <2>2
    <3>2. C!SetbByte(v.points[i].setb) \in Int
      BY <1>3, <3>1, StateByte
    <3>3. /\ C!Point(v, i) = << v.points[i].hour, v.points[i].minute, C!SetbByte(v.points[i].setb) >>
          /\ v.points[i].hour \in 0 .. 23 /\ v.points[i].minute \in 0 .. 59
      BY <1>3, <3>1
    <3>4. v.points[i].hour \in Int /\ v.points[i].minute \in Int
      BY <3>3
    <3> QED
      BY <3>2, <3>3, <3>4
  <2> QED
    BY <2>1, <2>2
<1> DEFINE b == C!SchdBytes(v)
           slot(i) == SubSeq(b, 3 * i - 1, 3 * i + 1)
<1>6. Len(b) = 28 /\ b[1] = v.weekday
  BY DEF C!SchdBytes
<1>7. ASSUME NEW i \in 1 .. 9, NEW j \in 1 .. 3
      PROVE  b[3 * i - 2 + j] = C!Point(v, i)[j]
  <2> DEFINE x == 3 * i - 2 + j
  <2>1. x \in 2 .. 28 /\ (x + 1) \div 3 = i /\ 1 + ((x + 1) % 3) = j
    BY Z3
  <2> QED
    BY <2>1 DEF C!SchdBytes
<1> HIDE DEF b
<1>8. ASSUME NEW i \in 1 .. 9, NEW j \in 1 .. 3
      PROVE  slot(i)[j] = C!Point(v, i)[j]
  <2>1. ASSUME NEW x \in 3 * i - 1 .. 3 * i + 1
        PROVE  b[x] \in Int
    <3>1. PICK y \in 1 .. 3 : x = 3 * i - 2 + y
      <4>1. x - (3 * i - 2) \in 1 .. 3 /\ x = 3 * i - 2 + (x - (3 * i - 2))
        OBVIOUS
      <4> QED
        BY <4>1
    <3> QED
      BY <1>5, <1>7, <3>1
  <2>2. slot(i)[j] = b[(3 * i - 1) + j - 1]
    <3>1. 3 * i - 1 \in Int /\ 3 * i + 1 \in Int /\ j \in 1 .. (3 * i + 1) - (3 * i - 1) + 1
      OBVIOUS
    <3> QED
      BY <2>1, <3>1, SubSeqProperties
  <2>3. (3 * i - 1) + j - 1 = 3 * i - 2 + j
    OBVIOUS
  <2> QED
    BY <1>7, <2>2, <2>3
<1> HIDE DEF slot
<1>9. \A i \in 1 .. n : slot(i)[3] \notin 123 .. 127
  <2> TAKE i \in 1 .. n
  <2>1. slot(i)[3] = C!SetbByte(v.points[i].setb)
    <3>1. i \in 1 .. 9 /\ slot(i)[3] = C!Point(v, i)[3]
      BY <1>8
    <3>2. C!Point(v, i) = << v.points[i].hour, v.points[i].minute, C!SetbByte(v.points[i].setb) >>
      BY <1>3
    <3> QED
      BY <3>1, <3>2
  <2> QED
    BY <1>3, <2>1, StateByte
<1>10. n < 9 => slot(n + 1)[3] = 127
  <2> HAVE n < 9
  <2>1. n + 1 \in 1 .. 9 /\ n + 1 > n
    OBVIOUS
  <2> QED
    BY <1>4, <1>8, <2>1
<1> DEFINE last(k) == (k < 9 => slot(k + 1)[3] = 127) /\ \A i \in 1 .. k : slot(i)[3] # 127
<1>11. last(n)
  BY <1>9, <1>10
<1>12. ASSUME NEW k \in 0 .. 9, last(k)
       PROVE  k = n
  <2>1. CASE k < n
    <3>1. k + 1 \in 1 .. n /\ k < 9
      BY <2>1
    <3> QED
      BY <1>9, <1>12, <3>1
  <2>2. CASE n < k
    <3>1. n + 1 \in 1 .. k /\ n < 9
      BY <2>2
    <3> QED
      BY <1>10, <1>12, <3>1
  <2> QED
    BY <2>1, <2>2
<1> DEFINE m == CHOOSE k \in 0 .. 9 : last(k)
<1>13. m = n
  <2> HIDE DEF last
  <2> QED
    BY <1>11, <1>12
<1> DEFINE read(k) ==
             [i \in 1 .. k |-> [hour |-> slot(i)[1] % 32, minute |-> slot(i)[2] % 64,
                                setb |-> C!SetbRead(slot(i)[3])[1]]]
<1>14. read(n) = v.points
  <2>1. ASSUME NEW i \in 1 .. n
        PROVE  [hour |-> slot(i)[1] % 32, minute |-> slot(i)[2] % 64, setb |-> C!SetbRead(slot(i)[3])[1]]
                 = v.points[i]
    <3> DEFINE p == v.points[i]
    <3>0. /\ p.hour \in 0 .. 23 /\ p.minute \in 0 .. 59 /\ p.setb \in C!States
          /\ p = [hour |-> p.hour, minute |-> p.minute, setb |-> p.setb]
          /\ C!Point(v, i) = << p.hour, p.minute, C!SetbByte(p.setb) >>
      BY <1>3
    <3> HIDE DEF p
    <3>1. slot(i)[1] = p.hour /\ slot(i)[2] = p.minute /\ slot(i)[3] = C!SetbByte(p.setb)
      <4>1. i \in 1 .. 9 /\ \A j \in 1 .. 3 : slot(i)[j] = C!Point(v, i)[j]
        BY <1>8
      <4> QED
        BY <3>0, <4>1
    <3>2. C!SetbRead(C!SetbByte(p.setb)) = << p.setb >>
      BY <3>0, StateComesBack
    <3>3. p.hour % 32 = p.hour /\ p.minute % 64 = p.minute
      BY <3>0
    <3> QED
      BY <3>0, <3>1, <3>2, <3>3 DEF p
  <2>2. v.points = [i \in 1 .. n |-> v.points[i]]
    BY <1>1, <1>2
  <2> QED
    BY <2>1, <2>2
<1>15. C!SchdRead(b) = IF \E i \in 1 .. m : slot(i)[3] \in 123 .. 126 THEN << >>
                       ELSE << [weekday |-> b[1] % 8, points |-> read(m)] >>
  BY <1>6 DEF C!SchdRead, C!From, C!Value, C!Dropped, slot
<1>16. v.weekday % 8 = v.weekday
  BY <1>1
<1> HIDE DEF read, m
<1> QED
  BY <1>1, <1>6, <1>9, <1>13, <1>14, <1>15, <1>16 DEF b

\* What the report handler makes of the bytes of a report, by its kind.
ByteKinds == {"basic", "switch", "level", "indicator", "prot_ec", "prot_tmout"}
ReadsAs(b, r) ==
  /\ kind \in ByteKinds => C!BasicRead(b) = r
  /\ kind = "thrmo_md" => C!ThrmoMdRead(b) = r
  /\ kind = "wakeup" => C!WakeupRead(b) = r
  /\ kind = "config" => C!ConfigRead(b) = r
  /\ kind = "dlck_cfg" => C!DlckCfgRead(b) = r
  /\ kind = "usrcod" => C!UsrcodRead(b) = r
  /\ kind = "fan_md" => C!FanMdRead(ver, b) = r
  /\ kind = "setback" => C!SetbackRead(b) = r
  /\ kind = "setpoint" => C!SetpRead(b) = r
  /\ kind = "clock" => C!ClockRead(b) = r
  /\ kind = "schedule" => C!SchdRead(b) = r
  /\ kind = "override" => C!OvrRead(b) = r
  /\ kind = "prot" => C!ProtRead(b) = r
  /\ kind = "power" => C!PowerRead(b) = r
  /\ kind = "group_cmd" => C!GroupCmdRead(b) = r
\* A report on its way reads as what was set.
ValueInv ==
  /\ ver \in Nat
  /\ bytes # << >> => set # << >> /\ ReadsAs(bytes[1], << C!Told(set[1]) >>)
  /\ C!SetIsHeard

LEMMA ToldOtherwise ==
  ASSUME NEW v, kind \notin {"fan_md", "prot"}
  PROVE  C!Told(v) = v
  BY DEF C!Told

LEMMA NodeIsTold ==
  ASSUME ValueInv, NEW v, NEW b, C!Tell(v, b), UNCHANGED << kind, ver, heard >>,
         ReadsAs(b, << C!Told(v) >>)
  PROVE  ValueInv'
<1>1. bytes'[1] = b /\ bytes' # << >> /\ set'[1] = v /\ set' # << >>
  BY DEF C!Tell, C!Value
<1>2. C!Told(v)' = C!Told(v)
  BY DEF C!Told
<1>3. ReadsAs(b, << C!Told(v) >>)'
  BY <1>2 DEF ReadsAs
<1> QED
  BY <1>1, <1>2, <1>3 DEF ValueInv, C!SetIsHeard, C!Dropped

LEMMA NodeIsHeard ==
  ASSUME ValueInv, NEW r, C!Hear(r), r = << C!Told(set[1]) >>
  PROVE  ValueInv'
  BY DEF ValueInv, C!Hear, C!SetIsHeard, C!Dropped, C!Value, C!Told

\* One function after the other.
LEMMA SettingIsTold ==
  ASSUME ValueInv, C!Set
  PROVE  ValueInv'
<1>1. CASE C!SetBasic \/ C!SetSwitch \/ C!SetLevel \/ C!SetIndicator \/ C!SetProtEc \/ C!SetProtTmout
  <2>1. PICK v : C!Tell(v, C!OneByte(v)) /\ kind \in ByteKinds /\ UNCHANGED << kind, ver, heard >>
    BY <1>1 DEF C!SetBasic, C!SetSwitch, C!SetLevel, C!SetIndicator, C!SetProtEc, C!SetProtTmout, C!Sets,
                ByteKinds
  <2>2. ReadsAs(C!OneByte(v), << C!Told(v) >>)
    BY <2>1, OneByteComesBack, ToldOtherwise DEF ReadsAs, ByteKinds
  <2> QED
    BY <2>1, <2>2, NodeIsTold
<1>2. CASE C!SetThrmoMd
  <2>1. PICK v \in 0 .. 31 : C!Tell(v, C!OneByte(v))
    BY <1>2 DEF C!SetThrmoMd
  <2>2. kind = "thrmo_md" /\ UNCHANGED << kind, ver, heard >>
    BY <1>2 DEF C!SetThrmoMd, C!Sets
  <2>3. ReadsAs(C!OneByte(v), << C!Told(v) >>)
    BY <2>2, ModeComesBack, ToldOtherwise DEF ReadsAs, ByteKinds
  <2> QED
    BY <2>1, <2>2, <2>3, NodeIsTold
<1>3. CASE C!SetWakeup
  <2>1. PICK v \in C!Wakeups : C!Tell(v, C!WakeupBytes(v))
    BY <1>3 DEF C!SetWakeup
  <2>2. kind = "wakeup" /\ UNCHANGED << kind, ver, heard >>
    BY <1>3 DEF C!SetWakeup, C!Sets
  <2>3. ReadsAs(C!WakeupBytes(v), << C!Told(v) >>)
    BY <2>2, WakeupComesBack, ToldOtherwise DEF ReadsAs, ByteKinds
  <2> QED
    BY <2>1, <2>2, <2>3, NodeIsTold
<1>4. CASE C!SetConfig
  <2>1. PICK v \in C!Configs : C!Tell(v, C!ConfigBytes(v))
    BY <1>4 DEF C!SetConfig
  <2>2. kind = "config" /\ UNCHANGED << kind, ver, heard >>
    BY <1>4 DEF C!SetConfig, C!Sets
  <2>3. ReadsAs(C!ConfigBytes(v), << C!Told(v) >>)
    BY <2>2, ConfigComesBack, ToldOtherwise DEF ReadsAs, ByteKinds
  <2> QED
    BY <2>1, <2>2, <2>3, NodeIsTold
<1>5. CASE C!SetDlckCfg
  <2>1. PICK v \in C!Locks : C!Tell(v, C!DlckCfgBytes(v))
    BY <1>5 DEF C!SetDlckCfg
  <2>2. kind = "dlck_cfg" /\ UNCHANGED << kind, ver, heard >>
    BY <1>5 DEF C!SetDlckCfg, C!Sets
  <2>3. ReadsAs(C!DlckCfgBytes(v), << C!Told(v) >>)
    BY <2>2, LockComesBack, ToldOtherwise DEF ReadsAs, ByteKinds
  <2> QED
    BY <2>1, <2>2, <2>3, NodeIsTold
<1>6. CASE C!SetUsrcod
  <2>1. PICK v \in C!Codes : C!Tell(v, C!UsrcodBytes(v))
    BY <1>6 DEF C!SetUsrcod
  <2>2. kind = "usrcod" /\ UNCHANGED << kind, ver, heard >>
    BY <1>6 DEF C!SetUsrcod, C!Sets
  <2>3. ReadsAs(C!UsrcodBytes(v), << C!Told(v) >>)
    BY <2>2, CodeComesBack, ToldOtherwise DEF ReadsAs, ByteKinds
  <2> QED
    BY <2>1, <2>2, <2>3, NodeIsTold
<1>7. CASE C!SetSetback
  <2>1. PICK v \in C!Setbacks : C!Tell(v, C!SetbackBytes(v))
    BY <1>7 DEF C!SetSetback
  <2>2. kind = "setback" /\ UNCHANGED << kind, ver, heard >>
    BY <1>7 DEF C!SetSetback, C!Sets
  <2>3. ReadsAs(C!SetbackBytes(v), << C!Told(v) >>)
    BY <2>2, SetbackComesBack, ToldOtherwise DEF ReadsAs, ByteKinds
  <2> QED
    BY <2>1, <2>2, <2>3, NodeIsTold
<1>8. CASE C!SetSetp
  <2>1. PICK v \in C!Setpoints : C!Tell(v, C!SetpBytes(v))
    BY <1>8 DEF C!SetSetp
  <2>2. kind = "setpoint" /\ UNCHANGED << kind, ver, heard >>
    BY <1>8 DEF C!SetSetp, C!Sets
  <2>3. ReadsAs(C!SetpBytes(v), << C!Told(v) >>)
    BY <2>2, SetpointComesBack, ToldOtherwise DEF ReadsAs, ByteKinds
  <2> QED
    BY <2>1, <2>2, <2>3, NodeIsTold
<1>9. CASE C!SetClock
  <2>1. PICK v \in C!Clocks : C!Tell(v, C!ClockBytes(v))
    BY <1>9 DEF C!SetClock
  <2>2. kind = "clock" /\ UNCHANGED << kind, ver, heard >>
    BY <1>9 DEF C!SetClock, C!Sets
  <2>3. ReadsAs(C!ClockBytes(v), << C!Told(v) >>)
    BY <2>2, ClockComesBack, ToldOtherwise DEF ReadsAs, ByteKinds
  <2> QED
    BY <2>1, <2>2, <2>3, NodeIsTold
<1>10. CASE C!SetSchd
  <2>1. PICK v \in C!Schedules : C!Tell(v, C!SchdBytes(v))
    BY <1>10 DEF C!SetSchd
  <2>2. kind = "schedule" /\ UNCHANGED << kind, ver, heard >>
    BY <1>10 DEF C!SetSchd, C!Sets
  <2>3. ReadsAs(C!SchdBytes(v), << C!Told(v) >>)
    BY <2>2, ScheduleComesBack, ToldOtherwise DEF ReadsAs, ByteKinds
  <2> QED
    BY <2>1, <2>2, <2>3, NodeIsTold
<1>11. CASE C!SetOvr
  <2>1. PICK v \in C!Setbacks : C!Tell(v, C!OvrBytes(v))
    BY <1>11 DEF C!SetOvr
  <2>2. kind = "override" /\ UNCHANGED << kind, ver, heard >>
    BY <1>11 DEF C!SetOvr, C!Sets
  <2>3. ReadsAs(C!OvrBytes(v), << C!Told(v) >>)
    BY <2>2, SetbackComesBack, ToldOtherwise DEF ReadsAs, ByteKinds
  <2> QED
    BY <2>1, <2>2, <2>3, NodeIsTold
<1>12. CASE C!SetPower
  <2>1. PICK v \in C!Powers : C!Tell(v, C!PowerBytes(v))
    BY <1>12 DEF C!SetPower
  <2>2. kind = "power" /\ UNCHANGED << kind, ver, heard >>
    BY <1>12 DEF C!SetPower, C!Sets
  <2>3. ReadsAs(C!PowerBytes(v), << C!Told(v) >>)
    BY <2>2, PowerComesBack, ToldOtherwise DEF ReadsAs, ByteKinds
  <2> QED
    BY <2>1, <2>2, <2>3, NodeIsTold
<1>13. CASE C!SetGroupCmd
  <2>1. PICK v \in C!GroupCmds : C!Tell(v, C!GroupCmdReport(C!GroupCmdBytes(v)))
    BY <1>13 DEF C!SetGroupCmd
  <2>2. kind = "group_cmd" /\ UNCHANGED << kind, ver, heard >>
    BY <1>13 DEF C!SetGroupCmd, C!Sets
  <2>3. ReadsAs(C!GroupCmdReport(C!GroupCmdBytes(v)), << C!Told(v) >>)
    BY <2>2, GroupCmdComesBack, ToldOtherwise DEF ReadsAs, ByteKinds
  <2> QED
    BY <2>1, <2>2, <2>3, NodeIsTold
<1>14. CASE C!SetFanMd
  <2>1. PICK v \in C!FanModes(ver) : C!Tell(v, C!FanMdBytes(v))
    BY <1>14 DEF C!SetFanMd
  <2>2. kind = "fan_md" /\ UNCHANGED << kind, ver, heard >>
    BY <1>14 DEF C!SetFanMd, C!Sets
  <2>3. C!Told(v) = [off |-> v.off /\ ver >= 3, mode |-> v.mode]
    <3>1. v.off \in BOOLEAN /\ v = [off |-> v.off, mode |-> v.mode] /\ ver \in Nat
      BY DEF C!FanModes, ValueInv
    <3>2. CASE ver < 3
      <4>1. C!Told(v) = [off |-> FALSE, mode |-> v.mode]
        BY <2>2, <3>1, <3>2 DEF C!Told
      <4>2. ~ (ver >= 3)
        BY <3>1, <3>2
      <4>3. (v.off /\ ver >= 3) = FALSE
        BY <4>2, Zenon
      <4> QED
        BY <4>1, <4>3, Zenon
    <3>3. CASE ~ (ver < 3)
      <4>1. C!Told(v) = v
        BY <2>2, <3>3 DEF C!Told
      <4>2. ver >= 3
        BY <3>1, <3>3
      <4>3. (v.off /\ ver >= 3) = v.off
        BY <3>1, <4>2, Zenon
      <4> QED
        BY <3>1, <4>1, <4>3, Zenon
    <3> QED
      BY <3>2, <3>3
  <2>4. ReadsAs(C!FanMdBytes(v), << C!Told(v) >>)
    BY <2>2, <2>3, FanModeComesBack DEF ReadsAs, ByteKinds, ValueInv
  <2> QED
    BY <2>1, <2>2, <2>4, NodeIsTold
<1>15. CASE C!SetProt
  <2>1. PICK v \in C!Protections(ver) : C!Tell(v, C!ProtBytes(ver, v))
    BY <1>15 DEF C!SetProt
  <2>2. kind = "prot" /\ UNCHANGED << kind, ver, heard >>
    BY <1>15 DEF C!SetProt, C!Sets
  <2>3. C!Told(v) = [local |-> v.local, rf |-> IF ver < 2 THEN 0 ELSE v.rf]
    BY <2>2 DEF C!Told, ValueInv, C!Protections
  <2>4. ReadsAs(C!ProtBytes(ver, v), << C!Told(v) >>)
    BY <2>2, <2>3, ProtectionComesBack DEF ReadsAs, ByteKinds, ValueInv
  <2> QED
    BY <2>1, <2>2, <2>4, NodeIsTold
<1> QED
  BY <1>1, <1>2, <1>3, <1>4, <1>5, <1>6, <1>7, <1>8, <1>9, <1>10, <1>11, <1>12, <1>13, <1>14, <1>15 DEF C!Set

LEMMA ReportIsHeard ==
  ASSUME ValueInv, C!ReportArrives
  PROVE  ValueInv'
<1> DEFINE b == bytes[1]
           t == << C!Told(set[1]) >>
<1>1. bytes # << >>
  BY DEF C!ReportArrives, C!Hear, C!Dropped
<1>2. ReadsAs(b, t)
  BY <1>1 DEF ValueInv
<1> HIDE DEF b, t
<1>3. \E r : C!Hear(r) /\ r = t
  <2>1. CASE kind \in ByteKinds
    <3>1. C!BasicRead(b) = t
      BY <1>2, <2>1 DEF ReadsAs
    <3>2. /\ C!LevelRead(b) = t /\ C!SwitchRead(b) = t /\ C!IndRead(b) = t
          /\ C!ProtEcRead(b) = t /\ C!ProtTmoutRead(b) = t
      BY <3>1 DEF C!BasicRead, C!LevelRead, C!SwitchRead, C!IndRead, C!ProtEcRead, C!ProtTmoutRead
    <3>3. C!Hear(t)
      BY <2>1, <3>1, <3>2 DEF C!ReportArrives, ByteKinds, b
    <3> QED
      BY <3>3
  <2>2. CASE kind \notin ByteKinds
    BY <1>2, <2>2 DEF C!ReportArrives, ByteKinds, ReadsAs, b
  <2> QED
    BY <2>1, <2>2
<1> QED
  BY <1>3, NodeIsHeard DEF t

\* A step of a setting, or of another part.
LEMMA ValueSteps ==
  [Next]_vars => (side = "values" /\ C!Next) \/ UNCHANGED valueVars
BY DEF Next, vars

\* Whatever a function lets through comes back: the application hears of the node the
\* value it has set there, for every value, of every kind, in every version of the class.
THEOREM SettingsAreHeard == Spec => []SetIsHeard
<1>1. Init => ValueInv
  <2> SUFFICES ASSUME Init PROVE ValueInv
    OBVIOUS
  <2>1. ver \in Nat
    <3>1. ver \in Vers \/ ver = 0
      BY DEF Init, C!Init, NoValue
    <3>2. Vers \subseteq Nat
      BY PartsAssumption DEF C!CodecAssumption
    <3>3. CASE ver \in Vers
      BY <3>2, <3>3
    <3>4. CASE ver = 0
      BY <3>4
    <3> QED
      BY <3>1, <3>3, <3>4
  <2>2. set = << >> /\ bytes = << >>
    BY DEF Init, C!Init, NoValue, C!Dropped
  <2> QED
    BY <2>1, <2>2 DEF ValueInv, C!SetIsHeard, C!Dropped
<1>2. ValueInv /\ [Next]_vars => ValueInv'
  <2> SUFFICES ASSUME ValueInv, [Next]_vars PROVE ValueInv'
    OBVIOUS
  <2>1. CASE UNCHANGED valueVars
    BY <2>1 DEF valueVars, ValueInv, ReadsAs, C!SetIsHeard, C!Told
  <2>2. CASE C!Next
    BY <2>2, SettingIsTold, ReportIsHeard DEF C!Next
  <2> QED
    BY <2>1, <2>2, ValueSteps
<1>3. ValueInv => SetIsHeard
  BY DEF ValueInv, SetIsHeard
<1> QED
  BY <1>1, <1>2, <1>3, PTL DEF Spec
=============================================================================
