------------------------------ MODULE ZwParts ------------------------------
(* Parts of the library that share no state, each of them a specification of *)
(* its own: of the command class interfaces the calls of the application's   *)
(* threads (ZwIntf), the values a command and its report carry (ZwCodec) and  *)
(* the answers that come in several reports (ZwReports); what is known of the *)
(* nodes (ZwNodeDb) and the file it is kept in (ZwStore); the controller as   *)
(* other nodes see it (ZwServer); the update of a node's firmware             *)
(* (ZwFirmware); the work the library gives itself (ZwJobs); its start and    *)
(* end (ZwLife); the commands for the chip (HciCommands) and the bytes it     *)
(* sends (HciFrameRx).  A behaviour shows one of them.                        *)
EXTENDS Integers, Sequences

CONSTANTS
  Threads, Versions, MaxOpen, MaxSem, Faults,
  Vers, Settable,
  Nodes, Kinds, Parts, Group, Overlap, Again, Fails, MaxAsks,
  Devices, BASIC, MULTI, MaxNews,
  Ctl, NodeIds, Found, OldFiles, Keys, MaxChanges,
  Frames, Barred, SecureOnly, SuppCls, MaxLevel, PowerFaults,
  Files, FragSizes, Targets, MaxNum, DfltSize, MinSize, MaxCount, MaxReqs, MaxRetries, FwFaults,
  JobNodes, MaxPolls, MaxNotes, JobFaults,
  MaxBusy, LifeFaults,
  MaxCalls, MaxFuncId, CmdFaults,
  Messages, TmoutCb, MaxMsgs, MaxTries, MaxSaid, MaxErrors

VARIABLES
  side,
  intf, there, data_cnt, rpt_cb, cmd_num, cmd_q, todo, reg, open, cb_req, cb_sem, drains, untold,
  kind, ver, set, bytes, heard,
  asks, air, acc, told,
  dev, routed, db, steady, cap, news,
  table, nodes, key, grp_node, file, job, rest, rdr, loaded, saved, changes,
  from, pending, out, half, level, left, tmr, tick, test, chains, ended, forever, lifeline,
  target, fw_cb, fw, restrt_tmr, to, in, tgt, lossy, reqs, retries,
  known, silent, failing, exec_req, exec_sem, awake, hand, curr_op, failed_id, probe, poll_tgt_cnt,
  due, owed, notes,
  secure, at, held, run, sts, thrd, sems, enabled,
  calls, results, within, answers, wait_flg, cb_tmr, late_tmr, send_data_cb, snd_dat_cb_prm, cb_map,
  last_func_id, owing, called,
  line, frm_buf, wr_req, msg, tries, msgs, errors, said, taken, up

I == INSTANCE ZwIntf
C == INSTANCE ZwCodec
R == INSTANCE ZwReports
D == INSTANCE ZwNodeDb
F == INSTANCE ZwStore
S == INSTANCE ZwServer
W == INSTANCE ZwFirmware
J == INSTANCE ZwJobs
L == INSTANCE ZwLife
H == INSTANCE HciCommands
B == INSTANCE HciFrameRx

ASSUME PartsAssumption ==
  /\ I!IntfAssumption /\ C!CodecAssumption /\ R!ReportsAssumption
  /\ D!NodeDbAssumption /\ F!StoreAssumption /\ S!ServerAssumption
  /\ W!FirmwareAssumption /\ J!JobsAssumption /\ L!LifeAssumption
  /\ H!CommandsAssumption /\ B!RxAssumption

callVars ==
  << intf, there, data_cnt, rpt_cb, cmd_num, cmd_q, todo, reg, open, cb_req, cb_sem, drains, untold >>
valueVars == << kind, ver, set, bytes, heard >>
reportVars == << asks, air, acc, told >>
nodeVars == << dev, routed, db, steady, cap, news >>
fileVars == << table, nodes, key, grp_node, file, job, rest, rdr, loaded, saved, changes >>
serverVars ==
  << from, pending, out, half, level, left, tmr, tick, test, chains, ended, forever, lifeline >>
fwVars == << target, fw_cb, fw, restrt_tmr, to, in, tgt, lossy, reqs, retries >>
jobVars ==
  << known, silent, failing, exec_req, exec_sem, awake, hand, curr_op, failed_id, probe, poll_tgt_cnt,
     due, owed, notes >>
lifeVars == << secure, at, held, run, sts, thrd, sems, enabled >>
commandVars ==
  << calls, results, within, answers, wait_flg, cb_tmr, late_tmr, send_data_cb, snd_dat_cb_prm, cb_map,
     last_func_id, owing, called >>
byteVars == << line, frm_buf, wr_req, msg, tries, msgs, errors, said, taken, up >>
vars ==
  << side, callVars, valueVars, reportVars, nodeVars, fileVars, serverVars, fwVars,
     jobVars, lifeVars, commandVars, byteVars >>

(* The sides that are not shown.                                              *)
NoCalls ==
  /\ intf = [cls |-> "BASIC", ver |-> 0, mc |-> FALSE] /\ there = FALSE /\ data_cnt = FALSE
  /\ rpt_cb = {} /\ cmd_num = FALSE /\ cmd_q = FALSE
  /\ todo = [t \in Threads |-> << >>] /\ reg = [t \in Threads |-> {}]
  /\ open = {} /\ cb_req = << >> /\ cb_sem = 0 /\ drains = FALSE /\ untold = {}
NoValue == kind = "basic" /\ ver = 0 /\ set = << >> /\ bytes = << >> /\ heard = << >>
NoNodes ==
  /\ dev = << >> /\ routed = {} /\ db = << >> /\ steady = {} /\ cap = << >> /\ news = 0
NoFile ==
  /\ table = {} /\ nodes = << >> /\ key = 0 /\ grp_node = 0 /\ file = << >> /\ job = "off" /\ rest = << >>
  /\ rdr = << >> /\ loaded = FALSE /\ saved = << >> /\ changes = 0
NoUpdate == target = << >> /\ W!Starts
NoLife == L!Starting(FALSE)

Init ==
  /\ side \in {"calls", "values", "reports", "nodes", "file", "server", "firmware", "jobs", "life",
              "commands", "bytes"}
  /\ IF side = "calls" THEN I!Init ELSE NoCalls
  /\ IF side = "values" THEN C!Init ELSE NoValue
  /\ R!Init
  /\ IF side = "nodes" THEN D!Init ELSE NoNodes
  /\ IF side = "file" THEN F!Init ELSE NoFile
  /\ S!Init
  /\ IF side = "firmware" THEN W!Init ELSE NoUpdate
  /\ J!Init
  /\ IF side = "life" THEN L!Init ELSE NoLife
  /\ H!Init /\ B!Init

Next ==
  /\ UNCHANGED side
  /\ \/ /\ side = "calls" /\ I!Next
        /\ UNCHANGED << valueVars, reportVars, nodeVars, fileVars, serverVars, fwVars,
                        jobVars, lifeVars, commandVars, byteVars >>
     \/ /\ side = "values" /\ C!Next
        /\ UNCHANGED << callVars, reportVars, nodeVars, fileVars, serverVars, fwVars,
                        jobVars, lifeVars, commandVars, byteVars >>
     \/ /\ side = "reports" /\ R!Next
        /\ UNCHANGED << callVars, valueVars, nodeVars, fileVars, serverVars, fwVars,
                        jobVars, lifeVars, commandVars, byteVars >>
     \/ /\ side = "nodes" /\ D!Next
        /\ UNCHANGED << callVars, valueVars, reportVars, fileVars, serverVars, fwVars,
                        jobVars, lifeVars, commandVars, byteVars >>
     \/ /\ side = "file" /\ F!Next
        /\ UNCHANGED << callVars, valueVars, reportVars, nodeVars, serverVars, fwVars,
                        jobVars, lifeVars, commandVars, byteVars >>
     \/ /\ side = "server" /\ S!Next
        /\ UNCHANGED << callVars, valueVars, reportVars, nodeVars, fileVars, fwVars,
                        jobVars, lifeVars, commandVars, byteVars >>
     \/ /\ side = "firmware" /\ W!Next
        /\ UNCHANGED << callVars, valueVars, reportVars, nodeVars, fileVars, serverVars,
                        jobVars, lifeVars, commandVars, byteVars >>
     \/ /\ side = "jobs" /\ J!Next
        /\ UNCHANGED << callVars, valueVars, reportVars, nodeVars, fileVars, serverVars,
                        fwVars, lifeVars, commandVars, byteVars >>
     \/ /\ side = "life" /\ L!Next
        /\ UNCHANGED << callVars, valueVars, reportVars, nodeVars, fileVars, serverVars,
                        fwVars, jobVars, commandVars, byteVars >>
     \/ /\ side = "commands" /\ H!Next
        /\ UNCHANGED << callVars, valueVars, reportVars, nodeVars, fileVars, serverVars,
                        fwVars, jobVars, lifeVars, byteVars >>
     \/ /\ side = "bytes" /\ B!Next
        /\ UNCHANGED << callVars, valueVars, reportVars, nodeVars, fileVars, serverVars,
                        fwVars, jobVars, lifeVars, commandVars >>
Spec == Init /\ [][Next]_vars
-----------------------------------------------------------------------------
(* The identifier a call leaves with a node that queues is taken into the queue. *)
IdIsTaken == I!IdIsTaken

(* Who registers a callback and asks is answered through that callback.      *)
AskedIsHeard == I!AskedIsHeard

(* A call answered with ZW_ERR_QUEUED gets its callback.                      *)
QueuedIsTold == I!QueuedIsTold

(* What is set at a node is what is read in its report.                       *)
SetIsHeard == C!SetIsHeard

(* A callback is given the whole answer of one node.                          *)
WholeAnswer == R!WholeAnswer

(* What was found out of a node is kept, once, while the node stays what it is. *)
NothingLost == [][D!StillKnown /\ D!NoTwins']_nodeVars

(* What is loaded from the file is what was saved, and all of it.             *)
LoadedIsSaved == F!LoadedIsSaved

(* A radio that was turned down for a while or a test comes back by itself.  *)
LowPowerEnds == S!LowPowerEnds

(* The report of a link test tells its own node and its own frames.           *)
TestReportTrue == S!TestReportTrue

(* A node that has the last fragment has the whole file it was asked to load. *)
ImageIsFile == W!ImageIsFile

(* An update rests only where something was lost.                             *)
NoStall == W!NoStall

(* A node that said it resets itself is followed until it is out or answers,  *)
(* and a restart that is waited for is told once.                             *)
ResetIsFollowed == J!ResetIsFollowed

(* Nothing is given back while a thread or a frame may still use it.          *)
UsedWhileThere == L!UsedWhileThere

(* A failed start and an end leave nothing behind.                            *)
NothingLeft == L!NothingLeft

(* 0 is the answer of the controller, and a completion function gets its own  *)
(* parameter.                                                                  *)
ToldTrue == H!ToldTrue

(* What the chip sends is heard as it was sent, though a byte is lost.        *)
HeardAsSent == B!HeardAsSent
=============================================================================
