------------------------------ MODULE ZwServer ------------------------------
(* The controller as another node sees it (appl_cmd_hdlr,                     *)
(* application_command_handler_cb and handle_association in zw_api_network.c):*)
(* it answers questions about itself, keeps the lifeline association, and    *)
(* turns its radio down for a while or for a test of the link to a third      *)
(* node.  Frames and transmit statuses come in one thread, the second's tick  *)
(* in the timer thread.                                                        *)
EXTENDS Integers, Sequences, FiniteSets, SequencesExt

CONSTANTS
  Frames,     \* what is received: [src, enc, whole, cmds]
  Barred,     \* nodes whose secure inclusion failed
  SecureOnly, \* interfaces of other nodes that take secure commands only: <<node, end point, class>>
  SuppCls,    \* the classes the controller has, with their version
  MaxLevel,   \* POWERLEVEL_SET_MINUS9DBM
  PowerFaults      \* what may go wrong: "frame", "power", "overlap", "lost"

ServerAssumption ==
  /\ MaxLevel \in Nat \ {0} /\ PowerFaults \subseteq {"frame", "power", "overlap", "lost"}
  /\ \A f \in Frames :
       /\ f.enc \in {"none", "crc16", "secure"} /\ f.whole \in BOOLEAN
       /\ f.cmds \in Seq({f.cmds[k] : k \in DOMAIN f.cmds})
       /\ \A k \in DOMAIN f.cmds : f.cmds[k].op = "power_set" => f.cmds[k].secs \in 0 .. 255

VARIABLES
  from,      \* the frame in hand
  pending,   \* its commands yet to be handled
  out,       \* observation: what was sent back for it
  half,      \* the POWERLEVEL_SET between its two halves, or << >>
  level,     \* the radio's power level, 0 is normal
  left,      \* nw->byPowerLvlTimeout
  tmr,       \* nw->pPowerLvl_tmr_ctx is set
  tick,      \* the timer thread: "idle", "due" for the lock, or "waits" for the chip
  test,      \* [node, sts, acks]: the last power level test
  chains,    \* test frames on the air: [src, enc, node, level, count, sent, got]
  ended,     \* observation: the last test that ended and its report
  forever,   \* observation: the level was set without a time
  lifeline   \* the node of group 1, or 0
vars == << from, pending, out, half, level, left, tmr, tick, test, chains, ended, forever, lifeline >>
power == << level, left, tmr, forever >>

Nobody == [src |-> 0, enc |-> "none", whole |-> TRUE, cmds |-> << >>]
OnlyGroup == 1

Init ==
  /\ from = Nobody /\ pending = << >> /\ out = << >> /\ half = << >>
  /\ level = 0 /\ left = 0 /\ tmr = FALSE /\ tick = "idle" /\ forever = FALSE
  /\ test = [node |-> 0, sts |-> "failed", acks |-> 0]
  /\ chains = {} /\ ended = << >> /\ lifeline = 0
-----------------------------------------------------------------------------
(* zwnet_rpt_send: to whom asked, the way it asked.                           *)
Sends(to, enc, body) == [to |-> to, enc |-> enc, body |-> body]
Silent == out' = out
TestReport == << "test_get", test.node, test.sts, test.acks >>

(* A secure or CRC-16 frame that is not whole is dropped, a secure one of a   *)
(* node that failed its inclusion is not opened; one that encapsulates        *)
(* several commands is taken apart.                                            *)
Opened(f) == f.whole /\ ~(f.enc = "secure" /\ f.src \in Barred)
Idle == pending = << >> /\ half = << >>
Receives ==
  /\ Idle
  /\ \E f \in Frames :
       /\ (\E k \in DOMAIN f.cmds : f.cmds[k].op = "test_set") => (chains = {} \/ "overlap" \in PowerFaults)
       /\ Opened(f)
       /\ from' = f /\ pending' = f.cmds /\ out' = << >>
  /\ UNCHANGED << half, tick, test, chains, ended, lifeline >> /\ UNCHANGED power
Drops ==
  /\ Idle
  /\ \E f \in Frames : ~Opened(f) /\ from' = [f EXCEPT !.cmds = << >>] /\ out' = << >>
  /\ UNCHANGED << pending, half, tick, test, chains, ended, lifeline >> /\ UNCHANGED power

(* A command of an interface that its node keeps secure is not taken          *)
(* otherwise; an encapsulation for an end point may hold nothing.             *)
Refused(c) == c.empty \/ (<< from.src, c.ep, c.cls >> \in SecureOnly /\ from.enc # "secure")
Takes(op) == pending # << >> /\ half = << >> /\ Head(pending).op = op /\ ~Refused(Head(pending))
Done == pending' = Tail(pending) /\ UNCHANGED from
C == Head(pending)
Refuses ==
  /\ pending # << >> /\ half = << >> /\ Refused(C)
  /\ Done /\ Silent
  /\ UNCHANGED << half, tick, test, chains, ended, lifeline >> /\ UNCHANGED power

(* Questions about the controller, and reports, which go to the interface's  *)
(* handler.                                                                    *)
Version(cls) == IF cls \in DOMAIN SuppCls THEN SuppCls[cls] ELSE 0
Group1(g, body) == IF g = OnlyGroup THEN << body >> ELSE << >>
Answer(c) ==
  CASE c.op = "class_get" -> << << c.op, Version(c.arg) >> >>
    [] c.op = "sec_sup_get" -> IF from.enc = "secure" THEN << << c.op >> >> ELSE << >>
    [] c.op = "association_get" -> << << c.op, OnlyGroup, lifeline >> >>
    [] c.op = "group_info_get" -> Group1(IF c.all THEN OnlyGroup ELSE c.arg, << c.op, OnlyGroup >>)
    [] c.op \in {"group_name_get", "group_cmds_get"} -> Group1(c.arg, << c.op, OnlyGroup >>)
    [] c.op = "power_get" -> << << c.op, level, left >> >>
    [] c.op = "test_get" -> << TestReport >>
    [] c.op = "report" -> << >>
    [] OTHER -> << << c.op >> >>
Questions == {"manufacturer_get", "serial_get", "version_get", "class_get", "zwplus_get", "sec_sup_get",
              "groupings_get", "specific_group_get", "association_get", "group_info_get",
              "group_name_get", "group_cmds_get", "power_get", "test_get", "report"}
Answers ==
  /\ \E op \in Questions : Takes(op)
  /\ out' = out \o [k \in DOMAIN Answer(C) |-> Sends(from.src, from.enc, Answer(C)[k])]
  /\ Done /\ UNCHANGED << half, tick, test, chains, ended, lifeline >> /\ UNCHANGED power

(* The lifeline takes one node, and the next only after it was removed.       *)
AssociationSet ==
  /\ Takes("association_set")
  /\ lifeline' = IF lifeline = 0 THEN C.node ELSE lifeline
  /\ Done /\ Silent /\ UNCHANGED << half, tick, test, chains, ended >> /\ UNCHANGED power
AssociationRemove ==
  /\ Takes("association_remove")
  /\ lifeline' = IF C.arg = OnlyGroup /\ C.node \in {0, lifeline} THEN 0 ELSE lifeline
  /\ Done /\ Silent /\ UNCHANGED << half, tick, test, chains, ended >> /\ UNCHANGED power
-----------------------------------------------------------------------------
(* POWERLEVEL_SET: first the radio, then, with nw->mtx, the timer.            *)
PowerSet ==
  /\ Takes("power_set")
  /\ \/ /\ C.level \in 0 .. MaxLevel
        /\ level' = C.level /\ forever' = (C.secs = 0)
        /\ half' = IF C.secs = 0 THEN << >> ELSE << C >>
     \/ /\ C.level \notin 0 .. MaxLevel \/ "power" \in PowerFaults
        /\ UNCHANGED << level, forever, half >>
  /\ Done /\ Silent /\ UNCHANGED << left, tmr, tick, test, chains, ended, lifeline >>
PowerTimed ==
  /\ half # << >> /\ tick # "waits"
  /\ left' = half[1].secs /\ tmr' = TRUE /\ half' = << >>
  /\ UNCHANGED << from, pending, out, level, forever, tick, test, chains, ended, lifeline >>

(* A second passes; zwnet_power_lvl_tmr_cb runs in the timer thread itself    *)
(* and keeps nw->mtx while the chip is told.                                   *)
SecondPasses ==
  /\ tmr /\ tick = "idle"
  /\ tick' = "due"
  /\ UNCHANGED << from, pending, out, half, test, chains, ended, lifeline >> /\ UNCHANGED power
TickCounts ==
  /\ tick = "due"
  /\ left' = IF left > 0 THEN left - 1 ELSE 0
  /\ IF left = 1 /\ tmr THEN tmr' = FALSE /\ tick' = "waits"
     ELSE tick' = "idle" /\ UNCHANGED tmr
  /\ UNCHANGED << from, pending, out, half, level, forever, test, chains, ended, lifeline >>
TickRestores ==
  /\ tick = "waits"
  /\ \/ level' = 0 /\ forever' = FALSE /\ tick' = "idle"
     \/ "power" \in PowerFaults /\ tick' = "idle" /\ UNCHANGED << level, forever >>
     \/ "lost" \in PowerFaults /\ tick' = "stuck" /\ UNCHANGED << level, forever >>
  /\ UNCHANGED << from, pending, out, half, left, tmr, test, chains, ended, lifeline >>
-----------------------------------------------------------------------------
(* POWERLEVEL_TEST_NODE_SET and zwnet_power_lvl_testframe_cb: frame after     *)
(* frame, each sent when the status of the one before has come.               *)
Chain(c) == [src |-> from.src, enc |-> from.enc, node |-> c.node, level |-> c.level,
             count |-> c.count, sent |-> 1, got |-> 0]
TestNodeSet ==
  /\ Takes("test_set")
  /\ \/ /\ C.level \in 0 .. MaxLevel /\ C.count # 0
        /\ level' = C.level /\ forever' = FALSE
        /\ test' = [node |-> C.node, sts |-> "in_progress", acks |-> 0]
        /\ \/ chains' = chains \union {Chain(C)}
           \/ "frame" \in PowerFaults /\ UNCHANGED chains
     \/ /\ ~(C.level \in 0 .. MaxLevel /\ C.count # 0) \/ "power" \in PowerFaults
        /\ UNCHANGED << level, forever, test, chains >>
  /\ Done /\ Silent /\ UNCHANGED << half, left, tmr, tick, ended, lifeline >>

(* What the last status of a test does: the radio is normal again and who     *)
(* asked is told.                                                              *)
EndsTurnedDown(c, acks, got) ==      \* mutated form of Ends
  LET t == [test EXCEPT !.acks = acks, !.sts = IF acks > 0 THEN "success" ELSE "failed"] IN
  /\ test' = t /\ chains' = chains \ {c}
  /\ ended' = << [c EXCEPT !.got = got],
                 Sends(c.src, c.enc, << "test_get", t.node, t.sts, t.acks >>) >>
  /\ IF acks > 0 THEN level' = 0 /\ forever' = FALSE ELSE UNCHANGED << level, forever >>
Ends(c, acks, got) ==
  LET t == [test EXCEPT !.acks = acks, !.sts = IF acks > 0 THEN "success" ELSE "failed"] IN
  /\ test' = t /\ chains' = chains \ {c}
  /\ ended' = << [c EXCEPT !.got = got],
                 Sends(c.src, c.enc, << "test_get", t.node, t.sts, t.acks >>) >>
  /\ \/ level' = 0 /\ forever' = FALSE
     \/ "power" \in PowerFaults /\ UNCHANGED << level, forever >>
GoesOn(c, acks, got) ==
  /\ test' = [test EXCEPT !.acks = acks]
  /\ \/ chains' = (chains \ {c}) \union {[c EXCEPT !.sent = @ + 1, !.got = got]}
     \/ "frame" \in PowerFaults /\ chains' = chains \ {c}
  /\ UNCHANGED << ended, level, forever >>
TestStatusCountsAll(c, ok) ==      \* mutated form of TestStatus
  LET acks == test.acks + 1
      got == c.got + (IF ok THEN 1 ELSE 0)
  IN IF c.sent >= c.count THEN Ends(c, acks, got) ELSE GoesOn(c, acks, got)
TestStatus(c, ok) ==
  LET acks == test.acks + (IF ok THEN 1 ELSE 0)
      got == c.got + (IF ok THEN 1 ELSE 0)
  IN IF c.sent >= c.count THEN Ends(c, acks, got) ELSE GoesOn(c, acks, got)
TestFrameStatus ==
  /\ Idle
  /\ \E c \in chains, ok \in BOOLEAN : TestStatus(c, ok)
  /\ UNCHANGED << from, pending, out, half, left, tmr, tick, lifeline >>

Next ==
  \/ Receives \/ Drops \/ Refuses \/ Answers \/ AssociationSet \/ AssociationRemove
  \/ PowerSet \/ PowerTimed \/ SecondPasses \/ TickCounts \/ TickRestores
  \/ TestNodeSet \/ TestFrameStatus
Spec == Init /\ [][Next]_vars
-----------------------------------------------------------------------------
(* A radio that was turned down comes back by itself, unless it was turned    *)
(* down without a time: a test, the timer or the half of a set that starts it *)
(* will see to it.                                                             *)
LowPowerEnds ==
  level # 0 => forever \/ chains # {} \/ half # << >> \/ (tmr /\ left > 0) \/ tick = "waits"

(* The report of a test goes to who asked for it, names the node it tested    *)
(* and counts the frames of this test that were acknowledged.                 *)
TestReportTrue ==
  ended # << >> =>
    LET c == ended[1] IN
    ended[2] = Sends(c.src, c.enc,
                     << "test_get", c.node, IF c.got > 0 THEN "success" ELSE "failed", c.got >>)
=============================================================================
