---------------------------- MODULE HciFrameRx ----------------------------
(* Receiving bytes of the chip: the read thread of lib/zw_hci_transport.c and *)
(* the automaton of lib/zw_hci_frame.c that makes frames of them, which it    *)
(* answers through the write thread.  The chip sends one frame at a time,     *)
(* with the acknowledgements of what it receives in between, and sends a      *)
(* frame again when it is asked to or hears nothing.  A byte may be lost on   *)
(* the way, and an answer on its way back.  That the read thread tells the    *)
(* automaton of a silence is so under Windows only.                           *)
EXTENDS Integers, Sequences, SequencesExt

CONSTANTS
  Messages,   \* type, command and data of the frames the chip sends
  TmoutCb,    \* whether tpt_rd_tmout_cb is called
  MaxMsgs,    \* bound: messages of the chip
  MaxTries,   \* how often the chip sends one
  MaxSaid,    \* bound: acknowledgements of the chip
  MaxErrors   \* bound: bytes and answers lost

RxAssumption ==
  /\ Messages \subseteq Seq(0 .. 255) /\ TmoutCb \in BOOLEAN
  /\ MaxMsgs \in Nat /\ MaxTries \in Nat \ {0} /\ MaxSaid \in Nat /\ MaxErrors \in Nat

VARIABLES
  line,     \* bytes on their way to the host
  frm_buf,  \* what the automaton has of a frame: its length is frm_sta and frm_offset
  wr_req,   \* answers for the write thread
  msg,      \* environment: the message the chip sends, << >> if none
  tries,    \* environment: how often it has been sent
  msgs,     \* environment: messages so far
  errors,   \* bytes and answers lost so far
  said,     \* environment: the acknowledgements the chip has sent
  taken,    \* observation: those the sending side was told of
  up        \* observation: what the session was given since the chip took msg up
vars == << line, frm_buf, wr_req, msg, tries, msgs, errors, said, taken, up >>
chipVars == << msg, tries, msgs, said >>

SOF == 1
ACK == 6
NAK == 21
CAN == 24
Controls == {ACK, NAK, CAN}
REQ == 0
RES == 1
FRAME_HEADER_LEN == 3

Init ==
  /\ line = << >> /\ frm_buf = << >> /\ wr_req = << >> /\ msg = << >> /\ tries = 0 /\ msgs = 0
  /\ errors = 0 /\ said = [c \in Controls |-> 0] /\ taken = said /\ up = {}

(* The exclusive or of the bytes from the length to the last before it.       *)
Bits == << 1, 2, 4, 8, 16, 32, 64, 128 >>
Xor(a, b) == FoldLeft(LAMBDA sum, bit : sum + bit * ((a \div bit + b \div bit) % 2), 0, Bits)
frm_chksm_cal(s) == FoldLeft(Xor, 255, s)
Frame(m) == LET s == << Len(m) + 1 >> \o m IN << SOF >> \o Append(s, frm_chksm_cal(s))
frm_chksm_get(frame) == frame[Len(frame)]
Unchecked(frame) == TRUE  \* mutated form
Whole(frame) == frm_chksm_cal(SubSeq(frame, 2, Len(frame) - 1)) = frm_chksm_get(frame)
-----------------------------------------------------------------------------
(* frm_sta_machine with a byte, by the state the automaton is in.             *)
Idle(b) ==
  /\ frm_buf = << >>
  /\ frm_buf' = IF b = SOF THEN << b >> ELSE << >>
  /\ taken' = IF b \in Controls THEN [taken EXCEPT ![b] = @ + 1] ELSE taken
  /\ UNCHANGED << wr_req, up >>

Stores(b, valid) == frm_buf' = (IF valid THEN Append(frm_buf, b) ELSE << >>) /\ UNCHANGED << wr_req, taken, up >>
FoundDataFrame(b) == Len(frm_buf) = 1 /\ Stores(b, b >= FRAME_HEADER_LEN)
FoundLength(b) == Len(frm_buf) = 2 /\ Stores(b, b \in {REQ, RES})

WaitCompleteFrame(b) ==
  LET frame == Append(frm_buf, b)
      pending_rx_bytes == frame[2] + 2 - Len(frame)
  IN
  /\ Len(frm_buf) > 2
  /\ \/ pending_rx_bytes > 0 /\ Stores(b, TRUE)
     \/ /\ pending_rx_bytes <= 0
        /\ frm_buf' = << >>
        /\ IF Whole(frame)
           THEN wr_req' = Append(wr_req, ACK) /\ up' = up \union {SubSeq(frame, 3, Len(frame) - 1)}
           ELSE wr_req' = Append(wr_req, NAK) /\ UNCHANGED up
        /\ UNCHANGED taken

(* The read thread: a byte.                                                    *)
frm_sta_machine ==
  /\ line # << >> /\ line' = Tail(line)
  /\ LET b == Head(line) IN Idle(b) \/ FoundDataFrame(b) \/ FoundLength(b) \/ WaitCompleteFrame(b)
  /\ UNCHANGED << chipVars, errors >>

(* The read thread: nothing for tpt_rd_tmout milliseconds.                     *)
frm_tpt_rd_tmout_cb ==
  /\ TmoutCb /\ line = << >> /\ frm_buf # << >>
  /\ frm_buf' = << >>
  /\ UNCHANGED << line, wr_req, chipVars, errors, taken, up >>

Sends(m) == line' = line \o Frame(m)

(* The write thread: the answer gets to the chip, which is done, or sends the *)
(* frame again or gives it up.  Or it does not: the request could not be       *)
(* queued or the write failed, which nobody is told.                           *)
tpt_wr_thrd ==
  /\ wr_req # << >> /\ wr_req' = Tail(wr_req)
  /\ \/ /\ Head(wr_req) = ACK \/ tries \in {0, MaxTries}
        /\ tries' = 0 /\ UNCHANGED << line, errors >>
     \/ /\ Head(wr_req) = NAK /\ tries \in 1 .. MaxTries - 1
        /\ Sends(msg) /\ tries' = tries + 1 /\ UNCHANGED errors
     \/ errors < MaxErrors /\ errors' = errors + 1 /\ UNCHANGED << line, tries >>
  /\ UNCHANGED << frm_buf, msg, msgs, said, taken, up >>
-----------------------------------------------------------------------------
(* The chip.                                                                   *)
ChipSends ==
  /\ tries = 0 /\ msgs < MaxMsgs
  /\ \E m \in Messages : msg' = m /\ Sends(m)
  /\ tries' = 1 /\ msgs' = msgs + 1 /\ up' = {}
  /\ UNCHANGED << frm_buf, wr_req, errors, said, taken >>

ChipHearsNothing ==
  /\ tries # 0 /\ line = << >> /\ wr_req = << >>
  /\ IF tries < MaxTries THEN Sends(msg) /\ tries' = tries + 1 ELSE tries' = 0 /\ UNCHANGED line
  /\ UNCHANGED << frm_buf, wr_req, msg, msgs, errors, said, taken, up >>

ChipAcknowledges ==
  /\ \E c \in Controls : line' = Append(line, c) /\ said' = [said EXCEPT ![c] = @ + 1]
  /\ said[ACK] + said[NAK] + said[CAN] < MaxSaid
  /\ UNCHANGED << frm_buf, wr_req, msg, tries, msgs, errors, taken, up >>

Lose ==
  /\ errors < MaxErrors /\ errors' = errors + 1
  /\ line # << >> /\ line' = Tail(line)
  /\ UNCHANGED << frm_buf, wr_req, chipVars, taken, up >>

Next ==
  \/ frm_sta_machine \/ frm_tpt_rd_tmout_cb \/ tpt_wr_thrd
  \/ ChipSends \/ ChipHearsNothing \/ ChipAcknowledges \/ Lose
Spec == Init /\ [][Next]_vars
-----------------------------------------------------------------------------
(* What is handed up is what the chip is sending, whole; the sending side is  *)
(* told what the chip has said; and one byte lost costs no message: even when *)
(* the rest of a frame is read as the beginning of the next, or as if it were *)
(* none.                                                                       *)
HeardAsSent ==
  /\ up \subseteq {msg}
  /\ \A c \in Controls : taken[c] <= said[c]
  /\ tries = 0 /\ msgs > 0 /\ errors < 2 => up = {msg}
=============================================================================
