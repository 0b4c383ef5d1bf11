----------------------------- MODULE ZwFirmware -----------------------------
(* The firmware update of a node (zwif_fw_updt_req, zwif_fw_tx,               *)
(* zwif_fw_frag_get and zwif_fw_tx_cb in zw_api_intf.c, the firmware part of *)
(* zwif_rep_hdlr in zw_api_base.c): the node asks for some fragments, of      *)
(* which each is read from the file and sent when the status of the one       *)
(* before has come.  Requests come from a thread of the application, the      *)
(* node's commands and the statuses one by one in the callback thread.        *)
EXTENDS Integers, Sequences, SequencesExt

CONSTANTS
  Files,      \* the firmware files, with their size; 0 for one that cannot be opened
  FragSizes,  \* fragment sizes the application may ask for
  Targets,    \* what the node is: [ver, max]
  MaxNum,     \* the greatest fragment number, 0x7FFF
  DfltSize, MinSize,  \* ZW_FW_FRAG_SZ_V1 (and V2), ZW_FW_FRAG_SZ_MIN_V3
  MaxCount,   \* fragments the node asks for at once: bound
  MaxReqs, MaxRetries,  \* bounds
  FwFaults    \* what may go wrong beside lost frames: a "second" request, and a file so
              \* "long" that the last number a question covers is beyond MaxNum + 1

Min2(a, b) == IF a < b THEN a ELSE b
Pieces(f, size) == (Files[f] + size - 1) \div size
FirmwareAssumption ==
  /\ DOMAIN Files \subseteq Nat \ {0} /\ \A f \in DOMAIN Files : Files[f] \in Nat
  /\ FragSizes \subseteq Nat /\ Targets \subseteq [ver : Nat, max : Nat] /\ MaxNum \in Nat
  /\ {MinSize, DfltSize, MaxCount} \subseteq Nat \ {0}
  /\ FwFaults \subseteq {"second", "long"}
  /\ "long" \in FwFaults \/ \A f \in DOMAIN Files, s \in FragSizes :
                              s > 0 => Pieces(f, s) + MaxCount <= MaxNum + 2

VARIABLES
  target,   \* what the node is
  fw_cb,    \* the interface's registered callbacks
  fw,       \* its temporary data, << >> until the node's information came
  restrt_tmr, \* the restart timer runs
  to, in,   \* commands on their way to the node; commands and statuses to the callback thread
  tgt,      \* the node: [sta, file, size, next, asked, got]
  lossy,    \* observation: something was lost since the node's last question
  reqs, retries
fwVars == << target, fw_cb, fw, restrt_tmr, to, in, tgt, lossy, reqs, retries >>

Idle == [sta |-> "idle", file |-> 0, size |-> 0, next |-> 0, asked |-> 0, got |-> << >>]
Starts ==
  /\ fw_cb = {} /\ fw = << >> /\ restrt_tmr = FALSE /\ to = << >> /\ in = << >>
  /\ tgt = Idle /\ lossy = FALSE /\ reqs = 0 /\ retries = 0
Init == target \in Targets /\ Starts
-----------------------------------------------------------------------------
(* zwif_fw_info_get, once before the first update, and the node's report.     *)
FwInfoGet ==
  /\ reqs < MaxReqs /\ to = << >> /\ in = << >> /\ fw = << >>
  /\ fw_cb' = fw_cb \union {"info"} /\ to' = << [op |-> "info_get"] >>
  /\ UNCHANGED << target, fw, restrt_tmr, in, tgt, lossy, reqs, retries >>
InfoReport ==
  LET v3 == target.ver >= 3
      old == IF fw = << >>
             THEN [frag_sz |-> 0, file |-> 0, rpt_cnt |-> 0, rpt_num |-> 0] ELSE fw[1]
  IN fw' = IF "info" \notin fw_cb THEN fw
           ELSE << [max |-> IF v3 THEN target.max ELSE DfltSize, fixed |-> ~v3,
                    frag_sz |-> old.frag_sz, file |-> old.file,
                    rpt_cnt |-> old.rpt_cnt, rpt_num |-> old.rpt_num] >>

(* zwif_fw_updt_req: the callbacks are registered before anything is          *)
(* checked, the size is kept before the file is opened.                       *)
Refused(size) ==
  \/ target.ver < 3 /\ size # DfltSize
  \/ fw = << >>
  \/ fw # << >> /\ IF fw[1].fixed THEN size # fw[1].max ELSE size \notin MinSize .. fw[1].max
NoneRuns ==
  /\ tgt.sta # "loading"
  /\ \A k \in DOMAIN in : in[k].op # "done"
  /\ \A k \in DOMAIN to : to[k].op # "req_get"
FwUpdtReq ==
  /\ reqs < MaxReqs
  /\ NoneRuns \/ "second" \in FwFaults
  /\ reqs' = reqs + 1 /\ fw_cb' = fw_cb \union {"sts", "cmplt", "tx"}
  /\ \E f \in DOMAIN Files, size \in FragSizes :
       IF Refused(size) THEN UNCHANGED << fw, to >>
       ELSE \/ /\ Files[f] > 0
               /\ fw' = << [fw[1] EXCEPT !.frag_sz = size, !.file = f] >>
               /\ to' = Append(to, [op |-> "req_get", file |-> f, size |-> size])
            \/ /\ fw' = << [fw[1] EXCEPT !.frag_sz = size, !.file = 0] >>
               /\ UNCHANGED to
  /\ UNCHANGED << target, restrt_tmr, in, tgt, lossy, retries >>
-----------------------------------------------------------------------------
FragOneOn(f, num, size) ==      \* mutated form of zwif_fw_frag_get
  LET offset == num * size
      len == IF offset >= Files[f] THEN 0 ELSE Min2(size, Files[f] - offset)
  IN [from |-> offset, len |-> len, last |-> offset + len = Files[f]]
(* The piece of the file that has this number.                                *)
zwif_fw_frag_get(f, num, size) ==
  LET offset == (num - 1) * size
      len == IF offset >= Files[f] THEN 0 ELSE Min2(size, Files[f] - offset)
  IN [from |-> offset, len |-> len, last |-> offset + len = Files[f]]

(* A fragment's number shares its field with the mark of the last one.        *)
Fragment(f, num, p) ==
  [op |-> "frag", num |-> num % (MaxNum + 1), last |-> p.last \/ num > MaxNum,
   file |-> f, from |-> p.from, len |-> p.len]
FwTxCountsTwice(num, cnt) ==      \* mutated form of zwif_fw_tx
  IF num = 0 \/ cnt = 0 \/ fw[1].file = 0 \/ fw[1].frag_sz = 0
  THEN UNCHANGED << fw, to, lossy >>
  ELSE LET p == zwif_fw_frag_get(fw[1].file, num, fw[1].frag_sz) IN
       /\ fw' = << [fw[1] EXCEPT !.rpt_cnt = IF p.last \/ cnt < 2 THEN 0 ELSE cnt - 2, !.rpt_num = num + 1] >>
       /\ \/ to' = Append(to, Fragment(fw[1].file, num, p)) /\ UNCHANGED lossy
          \/ lossy' = TRUE /\ UNCHANGED to
(* zwif_fw_tx: what follows is kept first; that nothing could be sent is not  *)
(* noticed.                                                                    *)
zwif_fw_tx(num, cnt) ==
  IF num = 0 \/ cnt = 0 \/ fw[1].file = 0 \/ fw[1].frag_sz = 0
  THEN UNCHANGED << fw, to, lossy >>
  ELSE LET p == zwif_fw_frag_get(fw[1].file, num, fw[1].frag_sz) IN
       /\ fw' = << [fw[1] EXCEPT !.rpt_cnt = IF p.last THEN 0 ELSE cnt - 1, !.rpt_num = num + 1] >>
       /\ \/ to' = Append(to, Fragment(fw[1].file, num, p)) /\ UNCHANGED lossy
          \/ lossy' = TRUE /\ UNCHANGED to

(* The callback thread takes what came: the node's commands and the statuses. *)
Takes(op) == in # << >> /\ Head(in).op = op /\ in' = Tail(in)
Rest == UNCHANGED << target, fw_cb, tgt, reqs, retries >>
TakesInfo ==
  /\ Takes("info") /\ InfoReport
  /\ Rest /\ UNCHANGED << restrt_tmr, to, lossy >>
TakesGet ==
  /\ Takes("get")
  /\ IF "tx" \in fw_cb /\ fw # << >> THEN zwif_fw_tx(Head(in).num, Head(in).cnt)
     ELSE UNCHANGED << fw, to, lossy >>
  /\ Rest /\ UNCHANGED << restrt_tmr >>
TakesStatus ==
  /\ Takes("status")
  /\ IF Head(in).ok /\ fw[1].rpt_cnt > 0 THEN zwif_fw_tx(fw[1].rpt_num, fw[1].rpt_cnt)
     ELSE UNCHANGED << fw, to, lossy >>
  /\ Rest /\ UNCHANGED << restrt_tmr >>
TakesAnswer ==
  /\ Takes("answer")
  /\ Rest /\ UNCHANGED << fw, restrt_tmr, to, lossy >>
TakesDone ==
  /\ Takes("done") /\ "cmplt" \in fw_cb /\ fw # << >>
  /\ fw' = << [fw[1] EXCEPT !.frag_sz = 0, !.file = 0] >>
  /\ restrt_tmr' = (restrt_tmr \/ (target.ver >= 3 /\ Head(in).restart))
  /\ Rest /\ UNCHANGED << to, lossy >>
RestartTimeout ==
  /\ restrt_tmr /\ restrt_tmr' = FALSE
  /\ UNCHANGED << target, fw_cb, fw, to, in, tgt, lossy, reqs, retries >>
-----------------------------------------------------------------------------
(* The node.  A frame may be lost, and so may the acknowledgement of one that *)
(* came; the sender learns its status either way.                             *)
Status(m, ok) == IF m.op = "frag" THEN << [op |-> "status", ok |-> ok] >> ELSE << >>
Asks(next, cnt) == << [op |-> "get", num |-> next, cnt |-> cnt] >>
FrameLost ==
  /\ to # << >> /\ to' = Tail(to)
  /\ in' = in \o Status(Head(to), FALSE) /\ lossy' = TRUE
  /\ UNCHANGED << target, fw_cb, fw, restrt_tmr, tgt, reqs, retries >>
Reaches(op) == to # << >> /\ Head(to).op = op /\ to' = Tail(to)
Env == UNCHANGED << target, fw_cb, fw, restrt_tmr, reqs, retries >>
NodeInforms ==
  /\ Reaches("info_get") /\ in' = Append(in, [op |-> "info"])
  /\ Env /\ UNCHANGED << tgt, lossy >>
NodeAccepts ==
  /\ Reaches("req_get")
  /\ \E c \in 1 .. MaxCount :
       /\ in' = in \o << [op |-> "answer"] >> \o Asks(1, c)
       /\ tgt' = [sta |-> "loading", file |-> Head(to).file, size |-> Head(to).size,
                  next |-> 1, asked |-> c, got |-> << >>]
  /\ lossy' = FALSE /\ Env
NodeRefuses ==
  /\ Reaches("req_get") /\ in' = Append(in, [op |-> "answer"])
  /\ tgt' = Idle /\ Env /\ UNCHANGED lossy

(* It takes the fragment it needs next, and asks again when it has all it     *)
(* asked for; the answer may be on its way before the acknowledgement.        *)
Wanted(m) == tgt.sta = "loading" /\ m.num = tgt.next
NodeTakes ==
  /\ Reaches("frag") /\ Wanted(Head(to))
  /\ LET m == Head(to)
         got == Append(tgt.got, [file |-> m.file, from |-> m.from, len |-> m.len])
     IN \E ok \in BOOLEAN, restart \in BOOLEAN, c \in 1 .. MaxCount :
          LET says == IF m.last THEN << [op |-> "done", restart |-> restart] >>
                      ELSE IF tgt.asked = 1 THEN Asks(tgt.next + 1, c) ELSE << >>
          IN /\ in' \in {in \o Status(m, ok) \o says, in \o says \o Status(m, ok)}
             /\ tgt' = IF m.last THEN [tgt EXCEPT !.sta = "done", !.next = 0, !.asked = 0, !.got = got]
                       ELSE [tgt EXCEPT !.next = @ + 1, !.got = got,
                                        !.asked = IF @ = 1 THEN c ELSE @ - 1]
             /\ lossy' = (says = << >> /\ (lossy \/ ~ok))
  /\ Env
NodeIgnores ==
  /\ Reaches("frag") /\ ~Wanted(Head(to))
  /\ \E ok \in BOOLEAN : in' = in \o Status(Head(to), ok) /\ lossy' = (lossy \/ ~ok)
  /\ Env /\ UNCHANGED tgt
NodeAsksAgain ==
  /\ tgt.sta = "loading" /\ retries < MaxRetries
  /\ \E c \in 1 .. MaxCount : in' = in \o Asks(tgt.next, c) /\ tgt' = [tgt EXCEPT !.asked = c]
  /\ retries' = retries + 1 /\ lossy' = FALSE
  /\ UNCHANGED << target, fw_cb, fw, restrt_tmr, to, reqs >>
NodeGivesUp ==
  /\ tgt.sta = "loading"
  /\ tgt' = Idle /\ in' \in {in, Append(in, [op |-> "done", restart |-> FALSE])}
  /\ Env /\ UNCHANGED << to, lossy >>

Next ==
  \/ FwInfoGet \/ FwUpdtReq
  \/ TakesInfo \/ TakesGet \/ TakesStatus \/ TakesAnswer \/ TakesDone \/ RestartTimeout
  \/ FrameLost \/ NodeInforms \/ NodeAccepts \/ NodeRefuses \/ NodeTakes \/ NodeIgnores
  \/ NodeAsksAgain \/ NodeGivesUp
Spec == Init /\ [][Next]_fwVars
-----------------------------------------------------------------------------
(* A node that has the last fragment has the file it was asked to load, every *)
(* piece of it once and in order, whatever was lost, asked again or left over *)
(* from an earlier update.                                                     *)
ImageIsFile ==
  tgt.sta = "done" =>
    tgt.got = [k \in 1 .. Pieces(tgt.file, tgt.size) |->
                [file |-> tgt.file, from |-> (k - 1) * tgt.size,
                 len |-> Min2(tgt.size, Files[tgt.file] - (k - 1) * tgt.size)]]

(* The transfer does not come to rest while the node waits for a fragment it  *)
(* asked for, unless a frame or a status was lost since it asked last.        *)
NoStall == to = << >> /\ in = << >> /\ tgt.sta = "loading" => lossy
=============================================================================
