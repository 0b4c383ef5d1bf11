-------------------------- MODULE ZwCallsProofs --------------------------
(***************************************************************************)
(* Theorems about the calls of the command class interfaces: the update of *)
(* a node's firmware, the calls that are queued, and every call step by    *)
(* step; and about the file of what they found out.  Each part has an      *)
(* invariant of its own, and a part that is not shown keeps its initial    *)
(* state.                                                                  *)
(***************************************************************************)
EXTENDS ZwParts, TLAPS, SequenceTheorems, FiniteSetTheorems

---------------------------------------------------------------------------
(***************************************************************************)
(* The update of a node's firmware.  From the request until the node is done *)
(* or gives up, the library's file and size of a fragment are those the node *)
(* was asked to load: every fragment behind the request, and every fragment  *)
(* while the node loads, is a piece of that file, and the node has the first *)
(* next - 1 of them.  No update is reported done meanwhile, which would take  *)
(* the file away.                                                            *)
(***************************************************************************)
FwConstants ==
  /\ \A f \in DOMAIN Files : f \in Nat /\ f # 0 /\ Files[f] \in Nat
  /\ \A s \in FragSizes : s \in Nat
  /\ MaxNum \in Nat /\ MaxCount \in Nat \ {0} /\ MinSize \in Nat \ {0} /\ DfltSize \in Nat \ {0}
  /\ \A t \in Targets : t.ver \in Nat /\ t.max \in Nat
LEMMA FwConstantsAre == FwConstants
BY PartsAssumption DEF PartsAssumption, W!FirmwareAssumption, FwConstants

LEMMA FwSteps == [Next]_vars => (side = "firmware" /\ side' = side /\ W!Next) \/ UNCHANGED <<side, fwVars>>
BY DEF Next, vars

\* A file of Z bytes has P pieces of G bytes, of which the last one is not full.
Offset(n, G) == (n - 1) * G
LEMMA ManyPieces ==
  ASSUME NEW Z \in Nat \ {0}, NEW G \in Nat \ {0}, NEW P, P = (Z + G - 1) \div G
  PROVE  P \in Nat \ {0} /\ P * G <= Z + G - 1 /\ Z <= P * G
<1>1. P \in Int /\ Z + G - 1 \in Nat /\ Z + G - 1 >= G
  OBVIOUS
<1>2. P * G <= Z + G - 1 /\ Z + G - 1 < P * G + G
  BY <1>1
<1>3. P >= 1
  BY <1>1, <1>2
<1> QED
  BY <1>1, <1>2, <1>3

LEMMA Times ==
  ASSUME NEW a \in Int, NEW b \in Int, NEW G \in Nat, a <= b
  PROVE  a * G <= b * G
<1>1. (b - a) * G >= 0
  OBVIOUS
<1>2. (b - a) * G = b * G - a * G
  OBVIOUS
<1> QED
  BY <1>1, <1>2

LEMMA PieceIs ==
  ASSUME NEW f \in DOMAIN Files, Files[f] > 0, NEW s \in FragSizes, s > 0,
         NEW n \in Nat \ {0}, n <= W!Pieces(f, s)
  PROVE  /\ W!zwif_fw_frag_get(f, n, s).from = Offset(n, s)
         /\ W!zwif_fw_frag_get(f, n, s).len = W!Min2(s, Files[f] - Offset(n, s))
         /\ W!zwif_fw_frag_get(f, n, s).last <=> n = W!Pieces(f, s)
<1>1. Files[f] \in Nat \ {0} /\ s \in Nat \ {0}
  BY FwConstantsAre DEF FwConstants
<1>2. PICK P : P = W!Pieces(f, s)
  OBVIOUS
<1>3. P \in Nat \ {0} /\ P * s <= Files[f] + s - 1 /\ Files[f] <= P * s
  BY <1>1, <1>2, ManyPieces DEF W!Pieces
<1>4. PICK o \in Int : o = Offset(n, s)
  BY <1>1 DEF Offset
<1>5. /\ o + s = n * s /\ (P - 1) * s + s = P * s /\ (P - 1) * s \in Int
      /\ n * s \in Int /\ P * s \in Int
  BY <1>1, <1>3, <1>4 DEF Offset
<1>8. PICK l : l = IF o >= Files[f] THEN 0 ELSE W!Min2(s, Files[f] - o)
  OBVIOUS
<1>11. PICK b \in BOOLEAN : b = (o + l = Files[f])
  OBVIOUS
<1>9. W!zwif_fw_frag_get(f, n, s) = [from |-> o, len |-> l, last |-> b]
  BY <1>4, <1>8, <1>11 DEF W!zwif_fw_frag_get, Offset
<1>10. /\ W!zwif_fw_frag_get(f, n, s).from = o /\ W!zwif_fw_frag_get(f, n, s).len = l
       /\ W!zwif_fw_frag_get(f, n, s).last <=> o + l = Files[f]
  <2>1. W!zwif_fw_frag_get(f, n, s).last = b
    BY <1>9
  <2>2. W!zwif_fw_frag_get(f, n, s).last <=> b
    BY <2>1, Zenon
  <2>3. b <=> o + l = Files[f]
    BY <1>11, Zenon
  <2> QED
    BY <1>9, <2>2, <2>3
<1>6. CASE n = P
  <2>1. o < Files[f] /\ Files[f] - o <= s
    BY <1>1, <1>3, <1>4, <1>5, <1>6
  <2>2. W!Min2(s, Files[f] - o) = Files[f] - o
    BY <1>1, <1>4, <2>1 DEF W!Min2
  <2>3. l = Files[f] - o /\ o + l = Files[f]
    BY <1>1, <1>4, <1>8, <2>1, <2>2
  <2> QED
    BY <1>2, <1>4, <1>6, <1>10, <2>2, <2>3
<1>7. CASE n < P
  <2>1. n * s <= (P - 1) * s
    BY <1>1, <1>3, <1>7, Times
  <2>2. (P - 1) * s < Files[f]
    BY <1>1, <1>3, <1>5
  <2>3. o + s < Files[f] /\ o < Files[f]
    <3>1. n * s < Files[f]
      BY <1>1, <1>5, <2>1, <2>2
    <3>2. o + s < Files[f]
      BY <1>5, <3>1
    <3> QED
      BY <1>1, <1>4, <3>2
  <2>4. W!Min2(s, Files[f] - o) = s
    BY <1>1, <1>4, <2>3 DEF W!Min2
  <2>5. l = s /\ o + l # Files[f] /\ n # P
    BY <1>1, <1>3, <1>4, <1>7, <1>8, <2>3, <2>4
  <2> QED
    BY <1>2, <1>4, <1>10, <2>4, <2>5
<1> QED
  BY <1>2, <1>3, <1>6, <1>7

FwRecs == [max : Nat, fixed : BOOLEAN, frag_sz : Nat, file : Nat, rpt_cnt : Nat, rpt_num : Nat]
Top == MaxNum + 2 - MaxCount
ToMsgs ==
  [op : {"info_get"}] \cup [op : {"req_get"}, file : Nat, size : Nat]
  \cup [op : {"frag"}, num : Nat, last : BOOLEAN, file : Nat, from : Int, len : Int]
InMsgs ==
  [op : {"info", "answer"}] \cup [op : {"status"}, ok : BOOLEAN]
  \cup [op : {"get"}, num : 1 .. Top, cnt : 1 .. MaxCount] \cup [op : {"done"}, restart : BOOLEAN]
\* A file that is open, and a size that was accepted.
Opened(f, s) == f \in DOMAIN Files /\ Files[f] > 0 /\ s \in FragSizes /\ s > 0
FwShape ==
  /\ fw = << >> \/ \E r \in FwRecs :
       /\ fw = << r >>
       /\ r.fixed => r.max = DfltSize
       /\ r.file # 0 => Opened(r.file, r.frag_sz)
       /\ r.rpt_cnt > 0 => r.rpt_num >= 1 /\ r.rpt_num + r.rpt_cnt <= MaxNum + 2
  /\ to \in Seq(ToMsgs) /\ in \in Seq(InMsgs)
  /\ DOMAIN tgt = {"sta", "file", "size", "next", "asked", "got"}
  /\ tgt.sta \in {"idle", "loading", "done"}
  /\ side = "firmware" => target \in Targets

\* What zwif_fw_tx makes of number n.
Sent(f, s, n) == W!Fragment(f, n, W!zwif_fw_frag_get(f, n, s))
OfFile(f, s, m) == m.op = "frag" => \E n \in 1 .. MaxNum + 1 : m = Sent(f, s, n)
Image(f, s, n) ==
  [k \in 1 .. n |-> [file |-> f, from |-> (k - 1) * s, len |-> W!Min2(s, Files[f] - (k - 1) * s)]]
NoneDone == \A k \in DOMAIN in : in[k].op # "done"
Holds(f, s) == fw # << >> /\ fw[1].file = f /\ fw[1].frag_sz = s /\ Opened(f, s)
Quiet ==
  fw = << >> => /\ \A k \in DOMAIN to : to[k].op = "info_get"
                /\ \A k \in DOMAIN in : in[k].op = "info"
Requested ==
  \A k \in DOMAIN to : to[k].op = "req_get" =>
    /\ tgt.sta # "loading" /\ NoneDone /\ Holds(to[k].file, to[k].size)
    /\ \A j \in DOMAIN to : j # k => to[j].op # "req_get"
    /\ \A j \in DOMAIN to : j > k => OfFile(to[k].file, to[k].size, to[j])
Loads ==
  tgt.sta = "loading" =>
    /\ NoneDone /\ Holds(tgt.file, tgt.size)
    /\ \A j \in DOMAIN to : to[j].op # "req_get" /\ OfFile(tgt.file, tgt.size, to[j])
    /\ tgt.next \in 1 .. W!Pieces(tgt.file, tgt.size)
    /\ tgt.got = Image(tgt.file, tgt.size, tgt.next - 1)
FwDone == tgt.sta = "done" => tgt.got = Image(tgt.file, tgt.size, W!Pieces(tgt.file, tgt.size))
FwInv == FwShape /\ Quiet /\ Requested /\ Loads /\ FwDone

LEMMA SomePieces ==
  ASSUME NEW f, NEW s, Opened(f, s)
  PROVE  /\ W!Pieces(f, s) \in Nat \ {0}
         /\ "long" \notin FwFaults => W!Pieces(f, s) <= Top
<1>1. Files[f] \in Nat \ {0} /\ s \in Nat \ {0} /\ MaxNum \in Nat /\ MaxCount \in Nat
  BY FwConstantsAre DEF FwConstants, Opened
<1>2. W!Pieces(f, s) \in Nat \ {0}
  BY <1>1, ManyPieces DEF W!Pieces
<1>3. "long" \notin FwFaults => W!Pieces(f, s) + MaxCount <= MaxNum + 2
  BY PartsAssumption DEF PartsAssumption, W!FirmwareAssumption, Opened
<1> QED
  BY <1>1, <1>2, <1>3 DEF Top

\* What is added to a queue: an OfFile frame of the file that is held, if any.
NewTo(m) ==
  /\ m.op # "req_get" /\ (fw = << >> => m.op = "info_get")
  /\ \A f, s : Holds(f, s) => OfFile(f, s, m)
NewIn(m) == m.op # "done" /\ (fw = << >> => m.op = "info")
LEMMA FwKeeps ==
  ASSUME FwInv, FwShape',
         fw' = << >> => fw = << >>,
         fw # << >> => fw'[1].file = fw[1].file /\ fw'[1].frag_sz = fw[1].frag_sz,
         tgt'.sta = tgt.sta, tgt'.file = tgt.file, tgt'.size = tgt.size, tgt'.next = tgt.next,
         tgt'.got = tgt.got,
         \A k \in DOMAIN in' : (\E j \in DOMAIN in : in'[k] = in[j]) \/ NewIn(in'[k]),
         NEW d \in Nat,
         \A k \in DOMAIN to' : (k + d \in DOMAIN to /\ to'[k] = to[k + d])
                               \/ (k + d \notin DOMAIN to /\ NewTo(to'[k]))
  PROVE  FwInv'
<1>1. /\ Len(to) \in Nat /\ Len(to') \in Nat /\ DOMAIN to = 1 .. Len(to) /\ DOMAIN to' = 1 .. Len(to')
  BY LenProperties DEF FwInv, FwShape
<1>2. NoneDone => NoneDone'
  BY DEF NoneDone, NewIn
<1>3. \A f, s : Holds(f, s) => Holds(f, s)'
  BY DEF Holds
<1>4. Quiet'
  BY DEF FwInv, Quiet, NewTo, NewIn
<1>5. Requested'
  <2> SUFFICES ASSUME NEW k \in DOMAIN to', to'[k].op = "req_get"
               PROVE  /\ tgt'.sta # "loading" /\ NoneDone' /\ Holds(to[k].file, to[k].size)'
                      /\ \A j \in DOMAIN to' : j # k => to'[j].op # "req_get"
                      /\ \A j \in DOMAIN to' : j > k => OfFile(to'[k].file, to'[k].size, to'[j])
    BY DEF Requested
  <2>1. PICK i : i = k + d /\ i \in DOMAIN to /\ to'[k] = to[i]
    BY DEF NewTo
  <2>2. /\ tgt.sta # "loading" /\ NoneDone /\ Holds(to[i].file, to[i].size)
        /\ \A j \in DOMAIN to : j # i => to[j].op # "req_get"
        /\ \A j \in DOMAIN to : j > i => OfFile(to[i].file, to[i].size, to[j])
    BY <2>1 DEF FwInv, Requested
  <2>3. ASSUME NEW j \in DOMAIN to' PROVE j # k => to'[j].op # "req_get"
    BY <1>1, <2>1, <2>2, <2>3 DEF NewTo
  <2>4. ASSUME NEW j \in DOMAIN to', j > k PROVE OfFile(to'[k].file, to'[k].size, to'[j])
    BY <1>1, <2>1, <2>2, <2>4 DEF NewTo
  <2> QED
    BY <1>2, <1>3, <2>1, <2>2, <2>3, <2>4
<1>6. Loads'
  BY <1>2, <1>3 DEF FwInv, Loads, NewTo
<1>7. FwDone'
  BY DEF FwInv, FwDone
<1> QED
  BY <1>4, <1>5, <1>6, <1>7 DEF FwInv

LEMMA TailHas ==
  ASSUME NEW G, NEW q \in Seq(G), q # << >>
  PROVE  /\ Tail(q) \in Seq(G) /\ Head(q) \in G /\ 1 \in DOMAIN q /\ Head(q) = q[1]
         /\ \A k \in DOMAIN Tail(q) : k \in Nat \ {0} /\ k + 1 \in DOMAIN q /\ Tail(q)[k] = q[k + 1]
<1>1. Len(q) \in Nat /\ Len(q) > 0 /\ DOMAIN q = 1 .. Len(q)
  BY LenProperties, EmptySeq
<1>2. Tail(q) \in Seq(G) /\ Len(Tail(q)) = Len(q) - 1 /\ Head(q) \in G
      /\ \A k \in 1 .. Len(Tail(q)) : Tail(q)[k] = q[k + 1]
  BY <1>1, HeadTailProperties
<1>3. DOMAIN Tail(q) = 1 .. Len(Tail(q))
  BY <1>2, LenProperties
<1> QED
  BY <1>1, <1>2, <1>3

LEMMA JoinHas ==
  ASSUME NEW G, NEW q \in Seq(G), NEW r \in Seq(G)
  PROVE  /\ q \o r \in Seq(G)
         /\ \A k \in DOMAIN (q \o r) :
              (k \in DOMAIN q /\ (q \o r)[k] = q[k])
              \/ (k \notin DOMAIN q /\ \E j \in DOMAIN r : (q \o r)[k] = r[j])
<1>1. /\ Len(q) \in Nat /\ Len(r) \in Nat /\ DOMAIN q = 1 .. Len(q) /\ DOMAIN r = 1 .. Len(r)
  BY LenProperties
<1>2. /\ q \o r \in Seq(G) /\ Len(q \o r) = Len(q) + Len(r)
      /\ \A k \in 1 .. Len(q) + Len(r) :
           (q \o r)[k] = IF k <= Len(q) THEN q[k] ELSE r[k - Len(q)]
  BY ConcatProperties
<1>3. DOMAIN (q \o r) = 1 .. Len(q) + Len(r)
  BY <1>2, LenProperties
<1> QED
  BY <1>1, <1>2, <1>3

LEMMA OneMore ==
  ASSUME NEW G, NEW q \in Seq(G), NEW x \in G
  PROVE  /\ Append(q, x) \in Seq(G)
         /\ \A k \in DOMAIN Append(q, x) :
              k \in Nat /\ ((k \in DOMAIN q /\ Append(q, x)[k] = q[k])
                            \/ (k \notin DOMAIN q /\ k = Len(q) + 1 /\ Append(q, x)[k] = x))
<1>1. Len(q) \in Nat /\ DOMAIN q = 1 .. Len(q)
  BY LenProperties
<1>2. Append(q, x) \in Seq(G) /\ Len(Append(q, x)) = Len(q) + 1
      /\ \A k \in 1 .. Len(q) : Append(q, x)[k] = q[k]
      /\ Append(q, x)[Len(q) + 1] = x
  BY <1>1, AppendProperties
<1>3. DOMAIN Append(q, x) = 1 .. Len(q) + 1
  BY <1>2, LenProperties
<1> QED
  BY <1>1, <1>2, <1>3

LEMMA SentIs ==
  ASSUME NEW f, NEW s, Opened(f, s), NEW n \in 1 .. MaxNum + 1
  PROVE  /\ Sent(f, s, n) \in ToMsgs /\ Sent(f, s, n).op = "frag"
         /\ Sent(f, s, n).num = n % (MaxNum + 1) /\ Sent(f, s, n).file = f
         /\ Sent(f, s, n).from = W!zwif_fw_frag_get(f, n, s).from
         /\ Sent(f, s, n).len = W!zwif_fw_frag_get(f, n, s).len
         /\ n <= MaxNum => (Sent(f, s, n).last <=> W!zwif_fw_frag_get(f, n, s).last)
<1>1. Files[f] \in Nat /\ s \in Nat /\ f \in Nat /\ MaxNum \in Nat
  BY FwConstantsAre DEF FwConstants, Opened
<1>2. PICK p : p = W!zwif_fw_frag_get(f, n, s)
  OBVIOUS
<1>3. PICK o \in Int : o = (n - 1) * s
  BY <1>1
<1>4. p.from \in Int /\ p.len \in Int
  BY <1>1, <1>2, <1>3 DEF W!zwif_fw_frag_get, W!Min2
<1>5. PICK l \in BOOLEAN : l = (p.last \/ n > MaxNum)
  OBVIOUS
<1>6. PICK k \in Nat : k = n % (MaxNum + 1)
  BY <1>1
<1>7. Sent(f, s, n) = [op |-> "frag", num |-> k, last |-> l, file |-> f, from |-> p.from, len |-> p.len]
  BY <1>2, <1>5, <1>6 DEF Sent, W!Fragment
<1>8. Sent(f, s, n) \in ToMsgs
  BY <1>1, <1>4, <1>7 DEF ToMsgs
<1>9. n <= MaxNum => (Sent(f, s, n).last <=> p.last)
  <2>1. Sent(f, s, n).last = l
    BY <1>7
  <2>2. n <= MaxNum => ~ (n > MaxNum)
    BY <1>1
  <2>3. ~ (n > MaxNum) => (l <=> p.last)
    BY <1>5, Zenon
  <2>4. Sent(f, s, n).last <=> l
    BY <2>1, Zenon
  <2> QED
    BY <2>2, <2>3, <2>4, Zenon
<1> QED
  BY <1>2, <1>6, <1>7, <1>8, <1>9

LEMMA FwHeld ==
  ASSUME FwInv, fw # << >>
  PROVE  \E r \in FwRecs :
           /\ fw = << r >> /\ fw[1] = r
           /\ r.fixed => r.max = DfltSize
           /\ r.file # 0 => Opened(r.file, r.frag_sz)
           /\ r.rpt_cnt > 0 => r.rpt_num >= 1 /\ r.rpt_num + r.rpt_cnt <= MaxNum + 2
<1>1. PICK r \in FwRecs :
        /\ fw = << r >>
        /\ r.fixed => r.max = DfltSize
        /\ r.file # 0 => Opened(r.file, r.frag_sz)
        /\ r.rpt_cnt > 0 => r.rpt_num >= 1 /\ r.rpt_num + r.rpt_cnt <= MaxNum + 2
  BY DEF FwInv, FwShape
<1> QED
  BY <1>1

\* zwif_fw_tx changes the count and the number, and adds a piece of the file.
LEMMA TxKeeps ==
  ASSUME FwInv, fw # << >>, NEW n \in Nat, NEW c \in Nat, n + c <= MaxNum + 2,
         W!zwif_fw_tx(n, c), in' \in Seq(InMsgs), UNCHANGED <<target, tgt, side>>,
         \A k \in DOMAIN in' : \E j \in DOMAIN in : in'[k] = in[j]
  PROVE  FwInv'
<1>1. PICK r \in FwRecs :
        /\ fw = << r >> /\ fw[1] = r
        /\ r.fixed => r.max = DfltSize
        /\ r.file # 0 => Opened(r.file, r.frag_sz)
        /\ r.rpt_cnt > 0 => r.rpt_num >= 1 /\ r.rpt_num + r.rpt_cnt <= MaxNum + 2
  BY FwHeld
<1>2. to \in Seq(ToMsgs)
  BY DEF FwInv, FwShape
<1>3. CASE UNCHANGED <<fw, to>>
  <2>1. FwShape'
    BY <1>3 DEF FwInv, FwShape
  <2>2. \A k \in DOMAIN to' : k + 0 \in DOMAIN to /\ to'[k] = to[k + 0]
    BY <1>2, <1>3, LenProperties
  <2> QED
    BY <1>3, <2>1, <2>2, FwKeeps
<1>4. CASE ~ UNCHANGED <<fw, to>>
  <2>1. n # 0 /\ c # 0 /\ r.file # 0 /\ r.frag_sz # 0
    BY <1>1, <1>4 DEF W!zwif_fw_tx
  <2>2. PICK p : p = W!zwif_fw_frag_get(r.file, n, r.frag_sz)
    OBVIOUS
  <2>3. PICK x \in Nat : x = (IF p.last THEN 0 ELSE c - 1) /\ x <= c - 1
    BY <2>1
  <2>4. /\ fw' = << [r EXCEPT !.rpt_cnt = x, !.rpt_num = n + 1] >>
        /\ to' = Append(to, W!Fragment(r.file, n, p)) \/ to' = to
    BY <1>1, <2>1, <2>2, <2>3 DEF W!zwif_fw_tx
  <2>5. PICK q : q = [r EXCEPT !.rpt_cnt = x, !.rpt_num = n + 1]
    OBVIOUS
  <2>6. /\ q \in FwRecs /\ q.fixed = r.fixed /\ q.max = r.max /\ q.file = r.file /\ q.frag_sz = r.frag_sz
        /\ q.rpt_cnt = x /\ q.rpt_num = n + 1
    <3>1. /\ q.fixed = r.fixed /\ q.max = r.max /\ q.file = r.file /\ q.frag_sz = r.frag_sz
          /\ q.rpt_cnt = x /\ q.rpt_num = n + 1
      BY <2>5 DEF FwRecs
    <3>2. q = [max |-> r.max, fixed |-> r.fixed, frag_sz |-> r.frag_sz, file |-> r.file,
               rpt_cnt |-> x, rpt_num |-> n + 1]
      BY <2>5 DEF FwRecs
    <3>3. r.max \in Nat /\ r.fixed \in BOOLEAN /\ r.frag_sz \in Nat /\ r.file \in Nat /\ n + 1 \in Nat
      BY DEF FwRecs
    <3>4. q \in FwRecs
      BY <3>2, <3>3 DEF FwRecs
    <3> QED
      BY <3>1, <3>4
  <2>7. MaxNum \in Nat
    BY FwConstantsAre DEF FwConstants
  <2>8. q.rpt_cnt > 0 => q.rpt_num >= 1 /\ q.rpt_num + q.rpt_cnt <= MaxNum + 2
    BY <2>3, <2>6, <2>7
  <2>9. n \in 1 .. MaxNum + 1
    BY <2>1, <2>7
  <2>10. PICK m \in ToMsgs : m = W!Fragment(r.file, n, p) /\ m = Sent(r.file, r.frag_sz, n) /\ m.op = "frag"
    BY <1>1, <2>1, <2>2, <2>9, SentIs DEF Sent
  <2>11. to' \in Seq(ToMsgs)
    <3>1. Append(to, m) \in Seq(ToMsgs)
      BY <1>2, OneMore
    <3> QED
      BY <1>2, <2>4, <2>10, <3>1
  <2>12. FwShape'
    BY <1>1, <2>4, <2>5, <2>6, <2>8, <2>11 DEF FwInv, FwShape
  <2>13. NewTo(m)
    BY <1>1, <2>9, <2>10 DEF NewTo, Holds, OfFile
  <2>14. fw'[1] = q /\ fw' # << >>
    BY <2>4, <2>5
  <2>15. \A k \in DOMAIN to' : (k + 0 \in DOMAIN to /\ to'[k] = to[k + 0])
                               \/ (k + 0 \notin DOMAIN to /\ NewTo(to'[k]))
    <3>1. CASE to' = to
      BY <1>2, <3>1, LenProperties
    <3>2. CASE to' = Append(to, m)
      <4>1. \A k \in DOMAIN to' : k \in Nat /\ ((k \in DOMAIN to /\ to'[k] = to[k])
                                                \/ (k \notin DOMAIN to /\ to'[k] = m))
        BY <1>2, <3>2, OneMore
      <4> QED
        BY <2>13, <4>1
    <3> QED
      BY <2>4, <2>10, <3>1, <3>2
  <2> QED
    BY <1>1, <2>6, <2>12, <2>14, <2>15, FwKeeps
<1> QED
  BY <1>3, <1>4

\* The callback thread.
LEMMA TakesKeeps ==
  ASSUME FwInv, side = "firmware", side' = side,
         W!TakesInfo \/ W!TakesGet \/ W!TakesStatus \/ W!TakesAnswer \/ W!TakesDone
  PROVE  FwInv'
<1>1. /\ in # << >> /\ in' = Tail(in) /\ UNCHANGED <<target, tgt>>
      /\ to \in Seq(ToMsgs) /\ in \in Seq(InMsgs)
  BY DEF W!TakesInfo, W!TakesGet, W!TakesStatus, W!TakesAnswer, W!TakesDone, W!Takes, W!Rest,
     FwInv, FwShape
<1>2. PICK m \in InMsgs : m = Head(in) /\ m = in[1] /\ 1 \in DOMAIN in
  BY <1>1, TailHas
<1>3. in' \in Seq(InMsgs) /\ \A k \in DOMAIN in' : \E j \in DOMAIN in : in'[k] = in[j]
  BY <1>1, TailHas
<1>4. m.op # "info" => fw # << >>
  BY <1>2 DEF FwInv, Quiet
<1>5. \A k \in DOMAIN to : k + 0 \in DOMAIN to /\ to[k] = to[k + 0]
  BY <1>1, LenProperties
<1>6. CASE UNCHANGED <<fw, to>>
  <2>1. FwShape'
    BY <1>1, <1>3, <1>6 DEF FwInv, FwShape
  <2>2. \A k \in DOMAIN to' : k + 0 \in DOMAIN to /\ to'[k] = to[k + 0]
    BY <1>5, <1>6
  <2> QED
    BY <1>1, <1>3, <1>6, <2>1, <2>2, FwKeeps
<1>7. CASE W!TakesInfo
  <2>1. to' = to /\ W!InfoReport
    BY <1>7 DEF W!TakesInfo
  <2>2. CASE fw' = fw
    BY <1>6, <2>1, <2>2
  <2>3. CASE fw' # fw
    <3> DEFINE old == IF fw = << >> THEN [frag_sz |-> 0, file |-> 0, rpt_cnt |-> 0, rpt_num |-> 0] ELSE fw[1]
               v3 == target.ver >= 3
    <3>1. fw' = << [max |-> IF v3 THEN target.max ELSE DfltSize, fixed |-> ~ v3,
                    frag_sz |-> old.frag_sz, file |-> old.file,
                    rpt_cnt |-> old.rpt_cnt, rpt_num |-> old.rpt_num] >>
      BY <2>1, <2>3 DEF W!InfoReport
    <3>2. target.ver \in Nat /\ target.max \in Nat /\ DfltSize \in Nat
      BY FwConstantsAre DEF FwConstants, FwInv, FwShape
    <3>3. PICK max \in Nat, fixed \in BOOLEAN :
            max = (IF v3 THEN target.max ELSE DfltSize) /\ fixed = ~ v3 /\ (fixed => max = DfltSize)
      BY <3>2
    <3>4. /\ old.frag_sz \in Nat /\ old.file \in Nat /\ old.rpt_cnt \in Nat /\ old.rpt_num \in Nat
          /\ old.file # 0 => Opened(old.file, old.frag_sz)
          /\ old.rpt_cnt > 0 => old.rpt_num >= 1 /\ old.rpt_num + old.rpt_cnt <= MaxNum + 2
          /\ fw # << >> => old.file = fw[1].file /\ old.frag_sz = fw[1].frag_sz
      <4>1. CASE fw = << >>
        BY <4>1
      <4>2. CASE fw # << >>
        BY <4>2, FwHeld DEF FwRecs
      <4> QED
        BY <4>1, <4>2
    <3>5. PICK a, b, c, d : a = old.frag_sz /\ b = old.file /\ c = old.rpt_cnt /\ d = old.rpt_num
      OBVIOUS
    <3> HIDE DEF old, v3
    <3>6. PICK q : q = [max |-> max, fixed |-> fixed, frag_sz |-> a, file |-> b, rpt_cnt |-> c, rpt_num |-> d]
      OBVIOUS
    <3>7. /\ q \in FwRecs /\ q.fixed = fixed /\ q.max = max /\ q.frag_sz = a /\ q.file = b
          /\ q.rpt_cnt = c /\ q.rpt_num = d
      BY <3>4, <3>5, <3>6 DEF FwRecs
    <3>8. fw' = << q >>
      BY <3>1, <3>3, <3>5, <3>6
    <3>9. FwShape'
      BY <1>1, <1>3, <2>1, <3>3, <3>4, <3>5, <3>7, <3>8 DEF FwInv, FwShape
    <3>10. fw' # << >> /\ fw'[1] = q
      BY <3>8
    <3>11. \A k \in DOMAIN to' : k + 0 \in DOMAIN to /\ to'[k] = to[k + 0]
      BY <1>5, <2>1
    <3> QED
      BY <1>1, <1>3, <3>4, <3>5, <3>7, <3>9, <3>10, <3>11, FwKeeps
  <2> QED
    BY <2>2, <2>3
<1>8. CASE W!TakesGet
  <2>1. CASE "tx" \in fw_cb /\ fw # << >>
    <3>1. m.op = "get" /\ W!zwif_fw_tx(m.num, m.cnt)
      BY <1>2, <1>8, <2>1 DEF W!TakesGet, W!Takes
    <3>2. m.num \in 1 .. Top /\ m.cnt \in 1 .. MaxCount
      BY <3>1 DEF InMsgs
    <3>3. m.num \in Nat /\ m.cnt \in Nat /\ m.num + m.cnt <= MaxNum + 2
      BY <3>2, FwConstantsAre DEF Top, FwConstants
    <3> QED
      BY <1>1, <1>3, <2>1, <3>1, <3>3, TxKeeps
  <2>2. CASE ~ ("tx" \in fw_cb /\ fw # << >>)
    BY <1>6, <1>8, <2>2 DEF W!TakesGet
  <2> QED
    BY <2>1, <2>2
<1>9. CASE W!TakesStatus
  <2>1. m.op = "status" /\ fw # << >>
    BY <1>2, <1>4, <1>9 DEF W!TakesStatus, W!Takes
  <2>2. PICK r \in FwRecs :
          /\ fw = << r >> /\ fw[1] = r
          /\ r.rpt_cnt > 0 => r.rpt_num >= 1 /\ r.rpt_num + r.rpt_cnt <= MaxNum + 2
    BY <2>1, FwHeld
  <2>3. CASE m.ok /\ r.rpt_cnt > 0
    <3>1. W!zwif_fw_tx(r.rpt_num, r.rpt_cnt)
      BY <1>2, <1>9, <2>2, <2>3 DEF W!TakesStatus
    <3>2. r.rpt_num \in Nat /\ r.rpt_cnt \in Nat
      BY DEF FwRecs
    <3> QED
      BY <1>1, <1>3, <2>1, <2>2, <2>3, <3>1, <3>2, TxKeeps
  <2>4. CASE ~ (m.ok /\ r.rpt_cnt > 0)
    BY <1>2, <1>6, <1>9, <2>2, <2>4 DEF W!TakesStatus
  <2> QED
    BY <2>3, <2>4
<1>10. CASE W!TakesAnswer
  BY <1>6, <1>10 DEF W!TakesAnswer
\* The node is done: no other update has begun meanwhile.
<1>11. CASE W!TakesDone
  <2>1. m.op = "done" /\ fw # << >> /\ to' = to
        /\ fw' = << [fw[1] EXCEPT !.frag_sz = 0, !.file = 0] >>
    BY <1>2, <1>11 DEF W!TakesDone, W!Takes
  <2>2. PICK r \in FwRecs :
          /\ fw = << r >> /\ fw[1] = r
          /\ r.fixed => r.max = DfltSize
          /\ r.rpt_cnt > 0 => r.rpt_num >= 1 /\ r.rpt_num + r.rpt_cnt <= MaxNum + 2
    BY <2>1, FwHeld
  <2>3. PICK q : q = [r EXCEPT !.frag_sz = 0, !.file = 0]
    OBVIOUS
  <2>4. /\ q.fixed = r.fixed /\ q.max = r.max /\ q.file = 0 /\ q.frag_sz = 0
        /\ q.rpt_cnt = r.rpt_cnt /\ q.rpt_num = r.rpt_num
    BY <2>3 DEF FwRecs
  <2>5. q = [max |-> r.max, fixed |-> r.fixed, frag_sz |-> 0, file |-> 0,
             rpt_cnt |-> r.rpt_cnt, rpt_num |-> r.rpt_num]
    BY <2>3 DEF FwRecs
  <2>6. r.max \in Nat /\ r.fixed \in BOOLEAN /\ r.rpt_cnt \in Nat /\ r.rpt_num \in Nat
    BY DEF FwRecs
  <2>7. q \in FwRecs
    BY <2>5, <2>6 DEF FwRecs
  <2>13. fw[1] = r
    BY <2>2
  <2>8. fw' = << q >>
    BY <2>1, <2>13, <2>3
  <2>14. /\ q.fixed => q.max = DfltSize
         /\ q.file # 0 => Opened(q.file, q.frag_sz)
         /\ q.rpt_cnt > 0 => q.rpt_num >= 1 /\ q.rpt_num + q.rpt_cnt <= MaxNum + 2
    BY <2>2, <2>4
  <2>9. FwShape'
    BY <1>1, <1>3, <2>1, <2>7, <2>8, <2>14 DEF FwInv, FwShape
  <2>10. ~ NoneDone
    BY <1>2, <2>1 DEF NoneDone
  <2>11. tgt.sta # "loading" /\ \A k \in DOMAIN to : to[k].op # "req_get"
    BY <2>10 DEF FwInv, Requested, Loads
  <2>12. Quiet' /\ Requested' /\ Loads' /\ FwDone'
    BY <1>1, <2>1, <2>8, <2>11 DEF FwInv, Quiet, Requested, Loads, FwDone
  <2> QED
    BY <2>9, <2>12 DEF FwInv
<1> QED
  BY <1>7, <1>8, <1>9, <1>10, <1>11

\* The application asks.
LEMMA RequestKeeps ==
  ASSUME FwInv, side = "firmware", side' = side, "second" \notin FwFaults, W!FwUpdtReq
  PROVE  FwInv'
<1>1. /\ W!NoneRuns /\ UNCHANGED <<target, in, tgt>>
      /\ to \in Seq(ToMsgs) /\ in \in Seq(InMsgs) /\ Len(to) \in Nat /\ DOMAIN to = 1 .. Len(to)
  BY LenProperties DEF W!FwUpdtReq, FwInv, FwShape
<1>2. /\ tgt.sta # "loading" /\ NoneDone /\ \A k \in DOMAIN to : to[k].op # "req_get"
  BY <1>1 DEF W!NoneRuns, NoneDone
<1>3. PICK f \in DOMAIN Files, size \in FragSizes :
        IF W!Refused(size) THEN UNCHANGED <<fw, to>>
        ELSE \/ /\ Files[f] > 0
                /\ fw' = << [fw[1] EXCEPT !.frag_sz = size, !.file = f] >>
                /\ to' = Append(to, [op |-> "req_get", file |-> f, size |-> size])
             \/ /\ fw' = << [fw[1] EXCEPT !.frag_sz = size, !.file = 0] >>
                /\ UNCHANGED to
  BY DEF W!FwUpdtReq
<1>4. CASE UNCHANGED <<fw, to>>
  BY <1>1, <1>4 DEF FwInv, FwShape, Quiet, Requested, Loads, FwDone, NoneDone, Holds
<1>5. CASE ~ W!Refused(size)
  <2>1. fw # << >>
    BY <1>5 DEF W!Refused
  <2>2. PICK r \in FwRecs :
          /\ fw = << r >> /\ fw[1] = r
          /\ r.fixed => r.max = DfltSize
          /\ r.rpt_cnt > 0 => r.rpt_num >= 1 /\ r.rpt_num + r.rpt_cnt <= MaxNum + 2
    BY <2>1, FwHeld
  <2>20. fw[1] = r
    BY <2>2
  <2>3. size \in Nat /\ size > 0 /\ f \in Nat /\ f # 0
    <3>1. (r.fixed /\ size = r.max) \/ size \in MinSize .. r.max
      BY <1>5, <2>1, <2>20 DEF W!Refused
    <3>2. size \in Nat /\ MinSize \in Nat \ {0} /\ DfltSize \in Nat \ {0} /\ f \in Nat /\ f # 0 /\ r.max \in Nat
      BY FwConstantsAre DEF FwConstants, FwRecs
    <3>3. size > 0
      <4>1. CASE r.fixed /\ size = r.max
        <5>1. size = DfltSize
          BY <2>2, <4>1
        <5> QED
          BY <3>2, <5>1
      <4>2. CASE size \in MinSize .. r.max
        BY <3>2, <4>2
      <4> QED
        BY <3>1, <4>1, <4>2
    <3> QED
      BY <3>2, <3>3
  <2>4. PICK g \in Nat :
          /\ fw' = << [r EXCEPT !.frag_sz = size, !.file = g] >>
          /\ \/ g = 0 /\ to' = to
             \/ /\ g = f /\ Files[f] > 0
                /\ to' = Append(to, [op |-> "req_get", file |-> f, size |-> size])
    <3>1. CASE /\ Files[f] > 0
               /\ fw' = << [fw[1] EXCEPT !.frag_sz = size, !.file = f] >>
               /\ to' = Append(to, [op |-> "req_get", file |-> f, size |-> size])
      BY <2>3, <2>20, <3>1
    <3>2. CASE fw' = << [fw[1] EXCEPT !.frag_sz = size, !.file = 0] >> /\ to' = to
      BY <2>20, <3>2
    <3> QED
      BY <1>3, <1>5, <3>1, <3>2
  <2>5. PICK q : q = [r EXCEPT !.frag_sz = size, !.file = g]
    OBVIOUS
  <2>6. /\ q.fixed = r.fixed /\ q.max = r.max /\ q.file = g /\ q.frag_sz = size
        /\ q.rpt_cnt = r.rpt_cnt /\ q.rpt_num = r.rpt_num
    BY <2>5 DEF FwRecs
  <2>7. q = [max |-> r.max, fixed |-> r.fixed, frag_sz |-> size, file |-> g,
             rpt_cnt |-> r.rpt_cnt, rpt_num |-> r.rpt_num]
    BY <2>5 DEF FwRecs
  <2>8. r.max \in Nat /\ r.fixed \in BOOLEAN /\ r.rpt_cnt \in Nat /\ r.rpt_num \in Nat
    BY DEF FwRecs
  <2>9. q \in FwRecs
    BY <2>3, <2>7, <2>8 DEF FwRecs
  <2>10. fw' = << q >> /\ fw'[1] = q /\ fw' # << >>
    BY <2>4, <2>5
  <2>11. g # 0 => Opened(f, size) /\ g = f
    BY <2>3, <2>4 DEF Opened
  <2>12. PICK m : m = [op |-> "req_get", file |-> f, size |-> size]
    OBVIOUS
  <2>13. m \in ToMsgs /\ m.op = "req_get" /\ m.file = f /\ m.size = size
    BY <2>3, <2>12 DEF ToMsgs
  <2>14. /\ Append(to, m) \in Seq(ToMsgs)
         /\ \A k \in DOMAIN Append(to, m) :
              (k \in DOMAIN to /\ Append(to, m)[k] = to[k]) \/ (k = Len(to) + 1 /\ Append(to, m)[k] = m)
    BY <1>1, <2>13, OneMore
  <2>15. to' \in Seq(ToMsgs)
    BY <1>1, <2>4, <2>12, <2>14
  <2>16. FwShape'
    <3>1. /\ q.fixed => q.max = DfltSize
          /\ q.file # 0 => Opened(q.file, q.frag_sz)
          /\ q.rpt_cnt > 0 => q.rpt_num >= 1 /\ q.rpt_num + q.rpt_cnt <= MaxNum + 2
      BY <2>2, <2>6, <2>11
    <3> QED
      BY <1>1, <2>9, <2>10, <2>15, <3>1 DEF FwInv, FwShape
  <2>17. Quiet' /\ Loads' /\ FwDone' /\ NoneDone'
    BY <1>1, <1>2, <2>10 DEF FwInv, Quiet, Loads, FwDone, NoneDone
  <2>18. Requested'
    <3>1. CASE to' = to
      BY <1>2, <3>1 DEF Requested
    <3>2. CASE g = f /\ Files[f] > 0 /\ to' = Append(to, m)
      <4> SUFFICES ASSUME NEW k \in DOMAIN to', to'[k].op = "req_get"
                   PROVE  /\ tgt'.sta # "loading" /\ NoneDone' /\ Holds(to[k].file, to[k].size)'
                          /\ \A j \in DOMAIN to' : j # k => to'[j].op # "req_get"
                          /\ \A j \in DOMAIN to' : j > k => OfFile(to'[k].file, to'[k].size, to'[j])
        BY DEF Requested
      <4>1. k = Len(to) + 1 /\ to'[k] = m
        BY <1>2, <2>14, <3>2
      <4>2. Holds(to[k].file, to[k].size)'
        BY <2>3, <2>6, <2>10, <2>11, <2>13, <3>2, <4>1 DEF Holds
      <4>3. ASSUME NEW j \in DOMAIN to', j # k PROVE to'[j].op # "req_get" /\ ~ (j > k)
        BY <1>1, <1>2, <2>14, <3>2, <4>1, <4>3
      <4> QED
        BY <1>1, <1>2, <2>17, <4>2, <4>3
    <3> QED
      BY <2>4, <2>12, <3>1, <3>2
  <2> QED
    BY <2>16, <2>17, <2>18 DEF FwInv
<1> QED
  BY <1>3, <1>4, <1>5

LEMMA ImageNone == \A f, s : Image(f, s, 0) = << >>
BY DEF Image

LEMMA ImageMore ==
  ASSUME NEW f, NEW s, NEW n \in Nat \ {0}, NEW x,
         x = [file |-> f, from |-> (n - 1) * s, len |-> W!Min2(s, Files[f] - (n - 1) * s)]
  PROVE  Append(Image(f, s, n - 1), x) = Image(f, s, n)
<1>1. PICK g : g = Image(f, s, n - 1)
  OBVIOUS
<1>2. /\ DOMAIN g = 1 .. n - 1
      /\ \A k \in 1 .. n - 1 : g[k] = [file |-> f, from |-> (k - 1) * s, len |-> W!Min2(s, Files[f] - (k - 1) * s)]
  BY <1>1 DEF Image
<1>3. PICK G : G = {g[k] : k \in 1 .. n - 1} \cup {x}
  OBVIOUS
<1>4. g \in Seq(G)
  <2>1. g = [k \in 1 .. n - 1 |-> g[k]]
    BY <1>1 DEF Image
  <2>2. n - 1 \in Nat /\ \A k \in 1 .. n - 1 : g[k] \in G
    BY <1>3
  <2>3. g \in [1 .. n - 1 -> G]
    BY <1>2, <2>1, <2>2
  <2> QED
    BY <2>2, <2>3, SeqDef
<1>5. Len(g) = n - 1
  BY <1>2, <1>4, LenProperties
<1>6. PICK h : h = Append(g, x)
  OBVIOUS
<1>7. /\ h \in Seq(G) /\ Len(h) = n /\ h[n] = x
      /\ \A k \in 1 .. n - 1 : h[k] = g[k]
  BY <1>3, <1>4, <1>5, <1>6, AppendProperties
<1>8. DOMAIN h = 1 .. n
  BY <1>7, LenProperties
<1>9. \A k \in 1 .. n : h[k] = [file |-> f, from |-> (k - 1) * s, len |-> W!Min2(s, Files[f] - (k - 1) * s)]
  <2>1. \A k \in 1 .. n : k = n \/ k \in 1 .. n - 1
    OBVIOUS
  <2> QED
    BY <1>2, <1>7, <2>1
<1>10. h = [k \in 1 .. n |-> h[k]]
  BY <1>7, <1>8
<1> QED
  BY <1>1, <1>6, <1>9, <1>10 DEF Image

LEMMA OneIs ==
  ASSUME NEW G, NEW x \in G
  PROVE  << x >> \in Seq(G) /\ DOMAIN << x >> = {1} /\ << x >>[1] = x
OBVIOUS

LEMMA StatusIs ==
  ASSUME NEW m, NEW ok \in BOOLEAN
  PROVE  /\ W!Status(m, ok) \in Seq(InMsgs)
         /\ \A j \in DOMAIN W!Status(m, ok) : W!Status(m, ok)[j].op = "status"
         /\ m.op # "frag" => W!Status(m, ok) = << >>
<1>1. PICK x : x = [op |-> "status", ok |-> ok]
  OBVIOUS
<1>2. x \in InMsgs /\ x.op = "status"
  BY <1>1 DEF InMsgs
<1>3. CASE m.op = "frag"
  <2>1. W!Status(m, ok) = << x >>
    BY <1>1, <1>3 DEF W!Status
  <2> QED
    BY <1>2, <1>3, <2>1, OneIs
<1>4. CASE m.op # "frag"
  <2>1. W!Status(m, ok) = << >>
    BY <1>4 DEF W!Status
  <2> QED
    BY <1>4, <2>1
<1> QED
  BY <1>3, <1>4

LEMMA AsksIs ==
  ASSUME NEW n \in 1 .. Top, NEW c \in 1 .. MaxCount
  PROVE  /\ W!Asks(n, c) \in Seq(InMsgs)
         /\ \A j \in DOMAIN W!Asks(n, c) : W!Asks(n, c)[j].op = "get"
<1>1. PICK x : x = [op |-> "get", num |-> n, cnt |-> c]
  OBVIOUS
<1>2. x \in InMsgs /\ x.op = "get"
  BY <1>1 DEF InMsgs
<1>3. W!Asks(n, c) = << x >>
  BY <1>1 DEF W!Asks
<1> QED
  BY <1>2, <1>3, OneIs

\* A frame leaves the queue and the node does not care, but for what it says.
LEMMA NodePasses ==
  ASSUME FwInv, to # << >>, to' = Tail(to), UNCHANGED <<fw, tgt, target, side>>,
         NEW r \in Seq(InMsgs), in' = in \o r, \A j \in DOMAIN r : NewIn(r[j])
  PROVE  FwInv'
<1>1. to \in Seq(ToMsgs) /\ in \in Seq(InMsgs)
  BY DEF FwInv, FwShape
<1>2. to' \in Seq(ToMsgs) /\ \A k \in DOMAIN to' : k + 1 \in DOMAIN to /\ to'[k] = to[k + 1]
  BY <1>1, TailHas
<1>3. /\ in' \in Seq(InMsgs)
      /\ \A k \in DOMAIN in' : (\E j \in DOMAIN in : in'[k] = in[j]) \/ NewIn(in'[k])
  BY <1>1, JoinHas
<1>4. FwShape'
  BY <1>2, <1>3 DEF FwInv, FwShape
<1> QED
  BY <1>2, <1>3, <1>4, FwKeeps

LEMMA NodeQuietKeeps ==
  ASSUME FwInv, side' = side, W!FrameLost \/ W!NodeInforms \/ W!NodeIgnores
  PROVE  FwInv'
<1>1. to # << >> /\ to' = Tail(to) /\ UNCHANGED <<fw, tgt, target>>
  BY DEF W!FrameLost, W!NodeInforms, W!NodeIgnores, W!Reaches, W!Env
<1>2. to \in Seq(ToMsgs) /\ in \in Seq(InMsgs)
  BY DEF FwInv, FwShape
<1>3. PICK m : m = Head(to) /\ m = to[1] /\ 1 \in DOMAIN to
  BY <1>1, <1>2, TailHas
<1>4. fw = << >> => m.op = "info_get"
  BY <1>3 DEF FwInv, Quiet
<1>5. CASE W!FrameLost \/ W!NodeIgnores
  <2>1. PICK ok \in BOOLEAN : in' = in \o W!Status(m, ok)
    BY <1>3, <1>5 DEF W!FrameLost, W!NodeIgnores
  <2>2. W!Status(m, ok) \in Seq(InMsgs) /\ \A j \in DOMAIN W!Status(m, ok) : NewIn(W!Status(m, ok)[j])
    BY <1>4, StatusIs DEF NewIn
  <2> QED
    BY <1>1, <2>1, <2>2, NodePasses
<1>6. CASE W!NodeInforms
  <2>1. PICK x : x = [op |-> "info"]
    OBVIOUS
  <2>2. x \in InMsgs /\ x.op = "info" /\ NewIn(x)
    BY <2>1 DEF InMsgs, NewIn
  <2>3. in' = Append(in, x)
    BY <1>6, <2>1 DEF W!NodeInforms
  <2>4. /\ in' \in Seq(InMsgs)
        /\ \A k \in DOMAIN in' : (\E j \in DOMAIN in : in'[k] = in[j]) \/ NewIn(in'[k])
    BY <1>2, <2>2, <2>3, OneMore
  <2>5. to' \in Seq(ToMsgs) /\ \A k \in DOMAIN to' : k + 1 \in DOMAIN to /\ to'[k] = to[k + 1]
    BY <1>1, <1>2, TailHas
  <2>6. FwShape'
    BY <1>1, <2>4, <2>5 DEF FwInv, FwShape
  <2> QED
    BY <1>1, <2>4, <2>5, <2>6, FwKeeps
<1> QED
  BY <1>5, <1>6

LEMMA AsksAgainKeeps ==
  ASSUME FwInv, side' = side, "long" \notin FwFaults, W!NodeAsksAgain
  PROVE  FwInv'
<1>1. PICK c \in 1 .. MaxCount : in' = in \o W!Asks(tgt.next, c) /\ tgt' = [tgt EXCEPT !.asked = c]
  BY DEF W!NodeAsksAgain
<1>2. tgt.sta = "loading" /\ UNCHANGED <<fw, to, target>>
  BY DEF W!NodeAsksAgain
<1>3. /\ to \in Seq(ToMsgs) /\ in \in Seq(InMsgs)
      /\ DOMAIN tgt = {"sta", "file", "size", "next", "asked", "got"}
  BY DEF FwInv, FwShape
<1>4. /\ tgt'.sta = tgt.sta /\ tgt'.file = tgt.file /\ tgt'.size = tgt.size /\ tgt'.next = tgt.next
      /\ tgt'.got = tgt.got /\ DOMAIN tgt' = {"sta", "file", "size", "next", "asked", "got"}
  BY <1>1, <1>3
<1>5. fw # << >> /\ tgt.next \in 1 .. Top
  <2>1. Holds(tgt.file, tgt.size) /\ tgt.next \in 1 .. W!Pieces(tgt.file, tgt.size)
    BY <1>2 DEF FwInv, Loads
  <2>2. W!Pieces(tgt.file, tgt.size) \in Nat /\ W!Pieces(tgt.file, tgt.size) <= Top
    BY <2>1, SomePieces DEF Holds
  <2>3. Top \in Int
    BY FwConstantsAre DEF FwConstants, Top
  <2> QED
    BY <2>1, <2>2, <2>3 DEF Holds
<1>6. /\ in' \in Seq(InMsgs)
      /\ \A k \in DOMAIN in' : (\E j \in DOMAIN in : in'[k] = in[j]) \/ NewIn(in'[k])
  <2>1. W!Asks(tgt.next, c) \in Seq(InMsgs)
        /\ \A j \in DOMAIN W!Asks(tgt.next, c) : NewIn(W!Asks(tgt.next, c)[j])
    BY <1>5, AsksIs DEF NewIn
  <2> QED
    BY <1>1, <1>3, <2>1, JoinHas
<1>7. \A k \in DOMAIN to' : k + 0 \in DOMAIN to /\ to'[k] = to[k + 0]
  BY <1>2, <1>3, LenProperties
<1>8. FwShape'
  BY <1>2, <1>3, <1>4, <1>6 DEF FwInv, FwShape
<1> QED
  BY <1>2, <1>4, <1>6, <1>7, <1>8, FwKeeps

LEMMA GivesUpKeeps ==
  ASSUME FwInv, side' = side, W!NodeGivesUp
  PROVE  FwInv'
<1>1. tgt.sta = "loading" /\ tgt' = W!Idle /\ UNCHANGED <<fw, to, target>>
      /\ in' \in {in, Append(in, [op |-> "done", restart |-> FALSE])}
  BY DEF W!NodeGivesUp, W!Env
<1>2. to \in Seq(ToMsgs) /\ in \in Seq(InMsgs)
  BY DEF FwInv, FwShape
<1>3. fw # << >> /\ \A j \in DOMAIN to : to[j].op # "req_get"
  BY <1>1 DEF FwInv, Loads, Holds
<1>4. in' \in Seq(InMsgs)
  <2>1. PICK x : x = [op |-> "done", restart |-> FALSE]
    OBVIOUS
  <2>2. x \in InMsgs
    BY <2>1 DEF InMsgs
  <2>3. Append(in, x) \in Seq(InMsgs)
    BY <1>2, <2>2, OneMore
  <2> QED
    BY <1>1, <1>2, <2>1, <2>3
<1>5. DOMAIN tgt' = {"sta", "file", "size", "next", "asked", "got"} /\ tgt'.sta = "idle"
  BY <1>1 DEF W!Idle
<1>6. FwShape'
  BY <1>1, <1>4, <1>5 DEF FwInv, FwShape
<1>7. Quiet' /\ Requested' /\ Loads' /\ FwDone'
  BY <1>1, <1>3, <1>5 DEF Quiet, Requested, Loads, FwDone
<1> QED
  BY <1>6, <1>7 DEF FwInv

LEMMA AnswersKeeps ==
  ASSUME FwInv, side' = side, "long" \notin FwFaults, W!NodeAccepts \/ W!NodeRefuses
  PROVE  FwInv'
<1>1. to # << >> /\ to' = Tail(to) /\ UNCHANGED <<fw, target>>
  BY DEF W!NodeAccepts, W!NodeRefuses, W!Reaches, W!Env
<1>2. to \in Seq(ToMsgs) /\ in \in Seq(InMsgs)
  BY DEF FwInv, FwShape
<1>3. PICK m : m = Head(to) /\ m = to[1] /\ 1 \in DOMAIN to /\ m.op = "req_get"
  BY <1>1, <1>2, TailHas DEF W!NodeAccepts, W!NodeRefuses, W!Reaches
<1>4. /\ NoneDone /\ Holds(m.file, m.size)
      /\ \A j \in DOMAIN to : j # 1 => to[j].op # "req_get"
      /\ \A j \in DOMAIN to : j > 1 => OfFile(m.file, m.size, to[j])
  BY <1>3 DEF FwInv, Requested
<1>5. /\ to' \in Seq(ToMsgs)
      /\ \A k \in DOMAIN to' : to'[k].op # "req_get" /\ OfFile(m.file, m.size, to'[k])
  <2>1. \A k \in DOMAIN to' : k \in Nat \ {0} /\ k + 1 \in DOMAIN to /\ to'[k] = to[k + 1]
    BY <1>1, <1>2, TailHas
  <2>2. to' \in Seq(ToMsgs)
    BY <1>1, <1>2, TailHas
  <2> QED
    BY <1>4, <2>1, <2>2
<1>6. PICK x : x = [op |-> "answer"]
  OBVIOUS
<1>7. x \in InMsgs /\ x.op = "answer"
  BY <1>6 DEF InMsgs
<1>8. fw # << >>
  BY <1>4 DEF Holds
<1>9. CASE W!NodeAccepts
  <2>1. PICK c \in 1 .. MaxCount :
          /\ in' = in \o << x >> \o W!Asks(1, c)
          /\ tgt' = [sta |-> "loading", file |-> m.file, size |-> m.size, next |-> 1, asked |-> c, got |-> << >>]
    BY <1>3, <1>6, <1>9 DEF W!NodeAccepts
  <2>2. W!Pieces(m.file, m.size) \in Nat \ {0} /\ W!Pieces(m.file, m.size) <= Top
    BY <1>4, SomePieces DEF Holds
  <2>3. 1 \in 1 .. Top
    BY <2>2, FwConstantsAre DEF FwConstants, Top
  <2>4. W!Asks(1, c) \in Seq(InMsgs) /\ \A j \in DOMAIN W!Asks(1, c) : W!Asks(1, c)[j].op = "get"
    BY <2>3, AsksIs
  <2>5. PICK y : y = in \o << x >>
    OBVIOUS
  <2>6. y \in Seq(InMsgs) /\ \A k \in DOMAIN y : y[k].op # "done"
    <3>1. << x >> \in Seq(InMsgs) /\ \A j \in DOMAIN << x >> : << x >>[j].op # "done"
      BY <1>7, OneIs
    <3> QED
      BY <1>2, <1>4, <2>5, <3>1, JoinHas DEF NoneDone
  <2>7. in' \in Seq(InMsgs) /\ \A k \in DOMAIN in' : in'[k].op # "done"
    BY <2>1, <2>4, <2>5, <2>6, JoinHas
  <2>8. /\ DOMAIN tgt' = {"sta", "file", "size", "next", "asked", "got"}
        /\ tgt'.sta = "loading" /\ tgt'.file = m.file /\ tgt'.size = m.size /\ tgt'.next = 1
        /\ tgt'.got = << >>
    BY <2>1
  <2>9. FwShape'
    BY <1>1, <1>5, <2>7, <2>8 DEF FwInv, FwShape
  <2>10. Loads'
    BY <1>1, <1>4, <1>5, <2>2, <2>7, <2>8, ImageNone DEF Loads, NoneDone, Holds
  <2>11. Quiet' /\ Requested' /\ FwDone'
    BY <1>1, <1>5, <1>8, <2>8 DEF Quiet, Requested, FwDone
  <2> QED
    BY <2>9, <2>10, <2>11 DEF FwInv
<1>10. CASE W!NodeRefuses
  <2>1. in' = Append(in, x) /\ tgt' = W!Idle
    BY <1>6, <1>10 DEF W!NodeRefuses
  <2>2. in' \in Seq(InMsgs)
    BY <1>2, <1>7, <2>1, OneMore
  <2>3. DOMAIN tgt' = {"sta", "file", "size", "next", "asked", "got"} /\ tgt'.sta = "idle"
    BY <2>1 DEF W!Idle
  <2>4. FwShape'
    BY <1>1, <1>5, <2>2, <2>3 DEF FwInv, FwShape
  <2>5. Quiet' /\ Requested' /\ Loads' /\ FwDone'
    BY <1>1, <1>5, <1>8, <2>3 DEF Quiet, Requested, Loads, FwDone
  <2> QED
    BY <2>4, <2>5 DEF FwInv
<1> QED
  BY <1>9, <1>10

\* The fragment the node waits for is the next piece, and it is marked as the
\* last one if and only if it is.
LEMMA WantedIsNext ==
  ASSUME FwInv, tgt.sta = "loading", to # << >>, NEW m, m = Head(to), m.op = "frag", m.num = tgt.next
  PROVE  /\ m.file = tgt.file /\ m.from = (tgt.next - 1) * tgt.size
         /\ m.len = W!Min2(tgt.size, Files[tgt.file] - (tgt.next - 1) * tgt.size)
         /\ m.last <=> tgt.next = W!Pieces(tgt.file, tgt.size)
<1>1. PICK f, s, i : f = tgt.file /\ s = tgt.size /\ i = tgt.next
  OBVIOUS
<1>2. m = to[1] /\ 1 \in DOMAIN to
  BY TailHas DEF FwInv, FwShape
<1>3. Holds(f, s) /\ OfFile(f, s, m) /\ i \in 1 .. W!Pieces(f, s)
  BY <1>1, <1>2 DEF FwInv, Loads
<1>4. Opened(f, s) /\ W!Pieces(f, s) \in Nat \ {0}
  BY <1>3, SomePieces DEF Holds
<1>5. i \in Nat \ {0} /\ MaxNum \in Nat
  BY <1>3, <1>4, FwConstantsAre DEF FwConstants
<1>6. PICK n \in 1 .. MaxNum + 1 : m = Sent(f, s, n)
  BY <1>3 DEF OfFile
<1>7. /\ m.num = n % (MaxNum + 1) /\ m.file = f
      /\ m.from = W!zwif_fw_frag_get(f, n, s).from /\ m.len = W!zwif_fw_frag_get(f, n, s).len
      /\ n <= MaxNum => (m.last <=> W!zwif_fw_frag_get(f, n, s).last)
  BY <1>4, <1>6, SentIs
<1>8. n = i /\ n <= MaxNum
  <2>1. CASE n = MaxNum + 1
    <3>1. n % (MaxNum + 1) = 0
      BY <1>5, <2>1
    <3> QED
      BY <1>1, <1>5, <1>7, <3>1
  <2>2. CASE n # MaxNum + 1
    <3>1. n \in Nat /\ n < MaxNum + 1
      BY <1>5, <2>2
    <3>2. n % (MaxNum + 1) = n
      BY <1>5, <3>1
    <3> QED
      BY <1>1, <1>5, <1>7, <3>1, <3>2
  <2> QED
    BY <2>1, <2>2
<1>9. /\ W!zwif_fw_frag_get(f, i, s).from = Offset(i, s)
      /\ W!zwif_fw_frag_get(f, i, s).len = W!Min2(s, Files[f] - Offset(i, s))
      /\ W!zwif_fw_frag_get(f, i, s).last <=> i = W!Pieces(f, s)
  BY <1>3, <1>4, <1>5, PieceIs DEF Opened
<1> QED
  BY <1>1, <1>7, <1>8, <1>9 DEF Offset

LEMMA TakenKeeps ==
  ASSUME FwInv, side' = side, "long" \notin FwFaults, W!NodeTakes
  PROVE  FwInv'
<1>1. to # << >> /\ to' = Tail(to) /\ UNCHANGED <<fw, target>>
  BY DEF W!NodeTakes, W!Reaches, W!Env
<1>2. /\ to \in Seq(ToMsgs) /\ in \in Seq(InMsgs)
      /\ DOMAIN tgt = {"sta", "file", "size", "next", "asked", "got"}
  BY DEF FwInv, FwShape
<1>3. PICK m : m = Head(to)
  OBVIOUS
<1>4. m.op = "frag" /\ tgt.sta = "loading" /\ m.num = tgt.next
  BY <1>3 DEF W!NodeTakes, W!Reaches, W!Wanted
<1>5. PICK f, s, i, p : f = tgt.file /\ s = tgt.size /\ i = tgt.next /\ p = W!Pieces(tgt.file, tgt.size)
  OBVIOUS
<1>6. /\ m.file = f /\ m.from = (i - 1) * s
      /\ m.len = W!Min2(s, Files[f] - (i - 1) * s)
      /\ m.last <=> i = p
  BY <1>1, <1>3, <1>4, <1>5, WantedIsNext
<1>7. /\ NoneDone /\ Holds(f, s) /\ i \in 1 .. p /\ tgt.got = Image(f, s, i - 1)
      /\ \A j \in DOMAIN to : to[j].op # "req_get" /\ OfFile(f, s, to[j])
  BY <1>4, <1>5 DEF FwInv, Loads
<1>8. p \in Nat \ {0} /\ p <= Top /\ Top \in Int /\ fw # << >> /\ i \in Nat \ {0}
  <2>1. p \in Nat \ {0} /\ p <= Top
    BY <1>5, <1>7, SomePieces DEF Holds
  <2> QED
    BY <1>7, <2>1, FwConstantsAre DEF Holds, FwConstants, Top
<1>9. PICK got : got = Append(tgt.got, [file |-> m.file, from |-> m.from, len |-> m.len])
  OBVIOUS
<1>10. got = Image(f, s, i)
  BY <1>6, <1>7, <1>8, <1>9, ImageMore
<1>11. PICK ok, restart, c, says :
         /\ ok \in BOOLEAN /\ restart \in BOOLEAN /\ c \in 1 .. MaxCount
         /\ says = IF m.last THEN << [op |-> "done", restart |-> restart] >>
                   ELSE IF tgt.asked = 1 THEN W!Asks(tgt.next + 1, c) ELSE << >>
         /\ in' \in {in \o W!Status(m, ok) \o says, in \o says \o W!Status(m, ok)}
         /\ tgt' = IF m.last THEN [tgt EXCEPT !.sta = "done", !.next = 0, !.asked = 0, !.got = got]
                   ELSE [tgt EXCEPT !.next = @ + 1, !.got = got,
                                    !.asked = IF @ = 1 THEN c ELSE @ - 1]
  BY <1>3, <1>9 DEF W!NodeTakes
<1>12. /\ to' \in Seq(ToMsgs)
       /\ \A k \in DOMAIN to' : to'[k].op # "req_get" /\ OfFile(f, s, to'[k])
  <2>1. to' \in Seq(ToMsgs) /\ \A k \in DOMAIN to' : k + 1 \in DOMAIN to /\ to'[k] = to[k + 1]
    BY <1>1, <1>2, TailHas
  <2> QED
    BY <1>7, <2>1
<1>13. says \in Seq(InMsgs) /\ (~ m.last => \A j \in DOMAIN says : says[j].op # "done")
  <2>1. CASE m.last
    <3>1. PICK x : x = [op |-> "done", restart |-> restart]
      OBVIOUS
    <3>2. x \in InMsgs
      BY <1>11, <3>1 DEF InMsgs
    <3>3. says = << x >>
      BY <1>11, <2>1, <3>1
    <3> QED
      BY <2>1, <3>2, <3>3, OneIs
  <2>2. CASE ~ m.last /\ tgt.asked = 1
    <3>1. i + 1 \in 1 .. Top /\ says = W!Asks(i + 1, c)
      BY <1>5, <1>6, <1>7, <1>8, <1>11, <2>2
    <3> QED
      BY <1>11, <3>1, AsksIs
  <2>3. CASE ~ m.last /\ tgt.asked # 1
    <3>1. says = << >>
      BY <1>11, <2>3
    <3> QED
      BY <3>1
  <2> QED
    BY <2>1, <2>2, <2>3
<1>14. in' \in Seq(InMsgs) /\ (~ m.last => \A k \in DOMAIN in' : in'[k].op # "done")
  <2>1. PICK st : st = W!Status(m, ok)
    OBVIOUS
  <2>2. st \in Seq(InMsgs) /\ \A j \in DOMAIN st : st[j].op # "done"
    BY <1>11, <2>1, StatusIs
  <2>3. CASE in' = in \o st \o says
    <3>1. PICK y : y = in \o st
      OBVIOUS
    <3>2. y \in Seq(InMsgs) /\ \A k \in DOMAIN y : y[k].op # "done"
      BY <1>2, <1>7, <2>2, <3>1, JoinHas DEF NoneDone
    <3>3. in' = y \o says
      BY <2>3, <3>1
    <3> QED
      BY <1>13, <3>2, <3>3, JoinHas
  <2>4. CASE in' = in \o says \o st
    <3>1. PICK y : y = in \o says
      OBVIOUS
    <3>2. y \in Seq(InMsgs) /\ (~ m.last => \A k \in DOMAIN y : y[k].op # "done")
      BY <1>2, <1>7, <1>13, <3>1, JoinHas DEF NoneDone
    <3>3. in' = y \o st
      BY <2>4, <3>1
    <3> QED
      BY <2>2, <3>2, <3>3, JoinHas
  <2> QED
    BY <1>11, <2>1, <2>3, <2>4
<1>15. CASE m.last
  <2>1. /\ DOMAIN tgt' = {"sta", "file", "size", "next", "asked", "got"}
        /\ tgt'.sta = "done" /\ tgt'.file = f /\ tgt'.size = s /\ tgt'.got = Image(f, s, p)
    BY <1>2, <1>5, <1>6, <1>10, <1>11, <1>15
  <2>2. FwShape'
    BY <1>1, <1>12, <1>14, <2>1 DEF FwInv, FwShape
  <2>3. FwDone'
    BY <1>5, <2>1 DEF FwDone
  <2>4. Quiet' /\ Requested' /\ Loads'
    BY <1>1, <1>8, <1>12, <2>1 DEF Quiet, Requested, Loads
  <2> QED
    BY <2>2, <2>3, <2>4 DEF FwInv
<1>16. CASE ~ m.last
  <2>1. /\ DOMAIN tgt' = {"sta", "file", "size", "next", "asked", "got"}
        /\ tgt'.sta = "loading" /\ tgt'.file = f /\ tgt'.size = s /\ tgt'.next = i + 1
        /\ tgt'.got = Image(f, s, i)
    BY <1>2, <1>4, <1>5, <1>10, <1>11, <1>16
  <2>2. FwShape'
    BY <1>1, <1>12, <1>14, <2>1 DEF FwInv, FwShape
  <2>3. tgt'.next \in 1 .. p /\ tgt'.next - 1 = i
    BY <1>6, <1>7, <1>8, <1>16, <2>1
  <2>4. NoneDone' /\ Holds(f, s)'
    BY <1>1, <1>7, <1>14, <1>16 DEF NoneDone, Holds
  <2>5. Loads'
    BY <1>5, <1>12, <2>1, <2>3, <2>4 DEF Loads, Holds
  <2>6. Quiet' /\ Requested' /\ FwDone'
    BY <1>1, <1>8, <1>12, <2>1 DEF Quiet, Requested, FwDone
  <2> QED
    BY <2>2, <2>5, <2>6 DEF FwInv
<1> QED
  BY <1>15, <1>16

LEMMA FwStep ==
  ASSUME FwInv, side = "firmware", side' = side, FwFaults = {}, W!Next
  PROVE  FwInv'
<1>1. CASE W!TakesInfo \/ W!TakesGet \/ W!TakesStatus \/ W!TakesAnswer \/ W!TakesDone
  BY <1>1, TakesKeeps
<1>2. CASE W!FwUpdtReq
  BY <1>2, RequestKeeps
<1>3. CASE W!FrameLost \/ W!NodeInforms \/ W!NodeIgnores
  BY <1>3, NodeQuietKeeps
<1>4. CASE W!NodeAccepts \/ W!NodeRefuses
  BY <1>4, AnswersKeeps
<1>5. CASE W!NodeTakes
  BY <1>5, TakenKeeps
<1>6. CASE W!NodeAsksAgain
  BY <1>6, AsksAgainKeeps
<1>7. CASE W!NodeGivesUp
  BY <1>7, GivesUpKeeps
<1>8. CASE W!FwInfoGet
  <2>1. /\ to = << >> /\ in = << >> /\ fw = << >> /\ UNCHANGED <<target, fw, in, tgt>>
        /\ to' = << [op |-> "info_get"] >>
    BY <1>8 DEF W!FwInfoGet
  <2>2. PICK x : x = [op |-> "info_get"]
    OBVIOUS
  <2>3. x \in ToMsgs /\ x.op = "info_get" /\ to' = << x >>
    BY <2>1, <2>2 DEF ToMsgs
  <2>4. to' \in Seq(ToMsgs) /\ DOMAIN to' = {1} /\ to'[1] = x
    BY <2>3, OneIs
  <2>5. FwShape'
    BY <2>1, <2>4 DEF FwInv, FwShape
  <2>6. Quiet' /\ Requested'
    BY <2>1, <2>3, <2>4 DEF FwInv, Quiet, Requested
  <2>7. Loads' /\ FwDone'
    BY <2>1 DEF FwInv, Loads, FwDone, Holds
  <2> QED
    BY <2>5, <2>6, <2>7 DEF FwInv
<1>9. CASE W!RestartTimeout
  BY <1>9 DEF W!RestartTimeout, FwInv, FwShape, Quiet, Requested, Loads, FwDone, NoneDone, Holds
<1> QED
  BY <1>1, <1>2, <1>3, <1>4, <1>5, <1>6, <1>7, <1>8, <1>9 DEF W!Next

\* A node that has the last fragment has the whole file it was asked to load,
\* every piece once and in order, whatever was lost, asked again or left over
\* from an earlier update (zwif_fw_tx, zwif_fw_frag_get): where no second update
\* is asked for during the first, and no fragment that is asked for has a
\* number beyond the 15 bits and one that the field of the number holds.
THEOREM ImageIsTheFile ==
  ASSUME FwFaults = {}
  PROVE  Spec => []ImageIsFile
<1>1. Init => FwInv
  <2> SUFFICES ASSUME Init PROVE FwInv
    OBVIOUS
  <2>1. /\ fw = << >> /\ to = << >> /\ in = << >> /\ tgt = W!Idle
        /\ side = "firmware" => target \in Targets
    BY DEF Init, W!Init, NoUpdate, W!Starts
  <2>2. DOMAIN tgt = {"sta", "file", "size", "next", "asked", "got"} /\ tgt.sta = "idle"
    BY <2>1 DEF W!Idle
  <2> QED
    BY <2>1, <2>2 DEF FwInv, FwShape, Quiet, Requested, Loads, FwDone
<1>2. FwInv /\ [Next]_vars => FwInv'
  <2> SUFFICES ASSUME FwInv, [Next]_vars PROVE FwInv'
    OBVIOUS
  <2>1. CASE side = "firmware" /\ side' = side /\ W!Next
    BY <2>1, FwStep
  <2>2. CASE UNCHANGED <<side, fwVars>>
    BY <2>2 DEF fwVars, FwInv, FwShape, Quiet, Requested, Loads, FwDone, NoneDone, Holds
  <2> QED
    BY <2>1, <2>2, FwSteps
<1>3. FwInv => ImageIsFile
  BY DEF FwInv, FwDone, Image, ImageIsFile, W!ImageIsFile
<1> QED
  BY <1>1, <1>2, <1>3, PTL DEF Spec
---------------------------------------------------------------------------
(***************************************************************************)
(* The transfer of a firmware file goes on.  While the node loads, and       *)
(* nothing was lost since it asked last, its last question is still on its   *)
(* way, or the library has answered it: then every fragment from the one the *)
(* node needs to the one that was sent last is on its way, in this order,    *)
(* and as long as the library has more to send a status is going to come.    *)
(***************************************************************************)
NoGet(q) == \A k \in DOMAIN q : q[k].op # "get"
AskedLast(q, n, e) ==
  \E i \in DOMAIN q : /\ q[i].op = "get" /\ q[i].num <= n /\ q[i].num + q[i].cnt = e
                      /\ \A j \in DOMAIN q : j > i => q[j].op # "get"
InOrder(q, n, r) ==
  \E p : \A j \in n .. r - 1 : /\ p[j] \in DOMAIN q /\ q[p[j]].op = "frag" /\ q[p[j]].num = j
                               /\ \A i \in n .. j - 1 : p[i] < p[j]
SomeFrag(q) == \E i \in DOMAIN q : q[i].op = "frag"
SomeOk(q) == \E i \in DOMAIN q : q[i].op = "status" /\ q[i].ok

LEMMA JoinIs ==
  ASSUME NEW G, NEW q \in Seq(G), NEW r \in Seq(G)
  PROVE  /\ Len(q) \in Nat /\ Len(r) \in Nat /\ DOMAIN q = 1 .. Len(q) /\ DOMAIN r = 1 .. Len(r)
         /\ q \o r \in Seq(G) /\ DOMAIN (q \o r) = 1 .. Len(q) + Len(r)
         /\ \A k \in DOMAIN q : (q \o r)[k] = q[k]
         /\ \A k \in DOMAIN r : (q \o r)[Len(q) + k] = r[k]
         /\ \A k \in 1 .. Len(q) + Len(r) : k > Len(q) => k - Len(q) \in DOMAIN r /\ (q \o r)[k] = r[k - Len(q)]
<1>1. /\ Len(q) \in Nat /\ Len(r) \in Nat /\ DOMAIN q = 1 .. Len(q) /\ DOMAIN r = 1 .. Len(r)
  BY LenProperties
<1>2. /\ q \o r \in Seq(G) /\ Len(q \o r) = Len(q) + Len(r)
      /\ \A k \in 1 .. Len(q) + Len(r) :
           (q \o r)[k] = IF k <= Len(q) THEN q[k] ELSE r[k - Len(q)]
  BY ConcatProperties
<1>3. DOMAIN (q \o r) = 1 .. Len(q) + Len(r)
  BY <1>2, LenProperties
<1>4. \A k \in DOMAIN q : (q \o r)[k] = q[k]
  BY <1>1, <1>2
<1>5. \A k \in DOMAIN r : (q \o r)[Len(q) + k] = r[k]
  BY <1>1, <1>2
<1>6. \A k \in 1 .. Len(q) + Len(r) : k > Len(q) => k - Len(q) \in DOMAIN r /\ (q \o r)[k] = r[k - Len(q)]
  BY <1>1, <1>2
<1> QED
  BY <1>1, <1>2, <1>3, <1>4, <1>5, <1>6

\* What else is put behind the question does not matter, nor does an answer that was early.
LEMMA AskedStays ==
  ASSUME NEW G, NEW q \in Seq(G), NEW r \in Seq(G), NoGet(r), NEW n \in Int, NEW m \in Int, NEW e,
         \A k \in DOMAIN q : q[k].op = "get" => q[k].num \in Int,
         AskedLast(q, n, e), n <= m
  PROVE  AskedLast(q \o r, m, e)
<1>1. PICK i \in DOMAIN q : /\ q[i].op = "get" /\ q[i].num <= n /\ q[i].num + q[i].cnt = e
                            /\ \A j \in DOMAIN q : j > i => q[j].op # "get"
  BY DEF AskedLast
<1> DEFINE u == q \o r
<1>2. /\ Len(q) \in Nat /\ Len(r) \in Nat /\ DOMAIN q = 1 .. Len(q) /\ DOMAIN u = 1 .. Len(q) + Len(r)
      /\ \A k \in DOMAIN q : u[k] = q[k]
      /\ \A k \in 1 .. Len(q) + Len(r) : k > Len(q) => k - Len(q) \in DOMAIN r /\ u[k] = r[k - Len(q)]
  BY JoinIs
<1> HIDE DEF u
<1>3. i \in DOMAIN u /\ u[i] = q[i] /\ q[i].num <= m
  BY <1>1, <1>2
<1>4. ASSUME NEW j \in DOMAIN u, j > i PROVE u[j].op # "get"
  <2>1. CASE j \in DOMAIN q
    BY <1>1, <1>2, <1>4, <2>1
  <2>2. CASE j \notin DOMAIN q
    BY <1>2, <2>2 DEF NoGet
  <2> QED
    BY <2>1, <2>2
<1> QED
  BY <1>1, <1>3, <1>4 DEF AskedLast, u

LEMMA AsksLast ==
  ASSUME NEW G, NEW q \in Seq(G), NEW n \in Int, NEW c \in Int, NEW m \in Int, n <= m,
         W!Asks(n, c) \in Seq(G)
  PROVE  AskedLast(q \o W!Asks(n, c), m, n + c)
<1> DEFINE x == [op |-> "get", num |-> n, cnt |-> c]
           r == << x >>
           u == q \o r
<1>1. r = W!Asks(n, c) /\ r \in Seq(G)
  BY DEF W!Asks
<1>2. x.op = "get" /\ x.num = n /\ x.cnt = c
  OBVIOUS
<1>3. DOMAIN r = {1} /\ r[1] = x /\ Len(r) = 1
  OBVIOUS
<1> HIDE DEF x, r
<1>4. /\ Len(q) \in Nat /\ DOMAIN u = 1 .. Len(q) + Len(r)
      /\ \A k \in DOMAIN r : u[Len(q) + k] = r[k]
  BY <1>1, JoinIs
<1> HIDE DEF u
<1>5. Len(q) + 1 \in DOMAIN u /\ u[Len(q) + 1] = x /\ \A j \in DOMAIN u : ~ (j > Len(q) + 1)
  BY <1>3, <1>4
<1>6. AskedLast(u, m, n + c)
  BY <1>2, <1>5 DEF AskedLast
<1> QED
  BY <1>1, <1>6 DEF u

LEMMA AskedTaken ==
  ASSUME NEW G, NEW q \in Seq(G), q # << >>, NEW n, NEW e, AskedLast(q, n, e)
  PROVE  \/ AskedLast(Tail(q), n, e)
         \/ /\ Head(q).op = "get" /\ Head(q).num <= n /\ Head(q).num + Head(q).cnt = e
            /\ NoGet(Tail(q))
<1>1. PICK i \in DOMAIN q : /\ q[i].op = "get" /\ q[i].num <= n /\ q[i].num + q[i].cnt = e
                            /\ \A j \in DOMAIN q : j > i => q[j].op # "get"
  BY DEF AskedLast
<1> DEFINE u == Tail(q)
<1>2. /\ Head(q) = q[1] /\ DOMAIN q = 1 .. Len(q) /\ Len(q) \in Nat
      /\ \A k \in DOMAIN u : k \in Nat \ {0} /\ k + 1 \in DOMAIN q /\ u[k] = q[k + 1]
  BY TailHas, LenProperties
<1>3. DOMAIN u = 1 .. Len(q) - 1
  <2>1. Len(u) = Len(q) - 1 /\ u \in Seq(G)
    BY HeadTailProperties
  <2> QED
    BY <2>1, LenProperties
<1> HIDE DEF u
<1>4. CASE i = 1
  <2>1. NoGet(u)
    BY <1>1, <1>2, <1>4 DEF NoGet
  <2> QED
    BY <1>1, <1>2, <1>4, <2>1 DEF u
<1>5. CASE i # 1
  <2>1. i - 1 \in DOMAIN u /\ u[i - 1] = q[i]
    BY <1>2, <1>3, <1>5
  <2>2. ASSUME NEW j \in DOMAIN u, j > i - 1 PROVE u[j].op # "get"
    BY <1>1, <1>2, <1>3, <2>2
  <2>3. AskedLast(u, n, e)
    BY <1>1, <2>1, <2>2 DEF AskedLast
  <2> QED
    BY <2>3 DEF u
<1> QED
  BY <1>4, <1>5

LEMMA NoGetStays ==
  ASSUME NEW G, NEW q \in Seq(G), NoGet(q)
  PROVE  /\ q # << >> => NoGet(Tail(q))
         /\ \A r \in Seq(G) : NoGet(r) => NoGet(q \o r)
<1>1. ASSUME q # << >> PROVE NoGet(Tail(q))
  BY <1>1, TailHas DEF NoGet
<1>2. ASSUME NEW r \in Seq(G), NoGet(r) PROVE NoGet(q \o r)
  BY <1>2, JoinHas DEF NoGet
<1> QED
  BY <1>1, <1>2

\* A fragment that is sent joins those on their way; the next one leaves them.
LEMMA OrderGrows ==
  ASSUME NEW G, NEW q \in Seq(G), NEW x \in G, NEW n \in Int, NEW r \in Int, InOrder(q, n, r),
         x.op = "frag", x.num = r
  PROVE  InOrder(Append(q, x), n, r + 1)
<1>1. PICK p : \A j \in n .. r - 1 : /\ p[j] \in DOMAIN q /\ q[p[j]].op = "frag" /\ q[p[j]].num = j
                                     /\ \A i \in n .. j - 1 : p[i] < p[j]
  BY DEF InOrder
<1> DEFINE u == Append(q, x)
           o == [j \in n .. r |-> IF j = r THEN Len(q) + 1 ELSE p[j]]
<1>2. /\ Len(q) \in Nat /\ DOMAIN q = 1 .. Len(q) /\ DOMAIN u = 1 .. Len(q) + 1
      /\ u[Len(q) + 1] = x /\ \A k \in 1 .. Len(q) : u[k] = q[k]
  <2>1. Len(q) \in Nat /\ DOMAIN q = 1 .. Len(q)
    BY LenProperties
  <2>2. u \in Seq(G) /\ Len(u) = Len(q) + 1 /\ u[Len(q) + 1] = x /\ \A k \in 1 .. Len(q) : u[k] = q[k]
    BY <2>1, AppendProperties
  <2> QED
    BY <2>1, <2>2, LenProperties
<1> HIDE DEF u
<1>3. \A j \in n .. r : o[j] = IF j = r THEN Len(q) + 1 ELSE p[j]
  OBVIOUS
<1> HIDE DEF o
<1>4. ASSUME NEW j \in n .. (r + 1) - 1
      PROVE  /\ o[j] \in DOMAIN u /\ u[o[j]].op = "frag" /\ u[o[j]].num = j
             /\ \A i \in n .. j - 1 : o[i] < o[j]
  <2>1. CASE j = r
    <3>1. o[j] = Len(q) + 1 /\ Len(q) + 1 \in DOMAIN u
      BY <1>2, <1>3, <2>1
    <3>2. ASSUME NEW i \in n .. j - 1 PROVE o[i] < o[j]
      <4>1. o[i] = p[i] /\ p[i] \in 1 .. Len(q)
        BY <1>1, <1>2, <1>3, <2>1
      <4> QED
        BY <1>2, <3>1, <4>1
    <3> QED
      BY <1>2, <2>1, <3>1, <3>2
  <2>2. CASE j # r
    <3>1. j \in n .. r - 1 /\ o[j] = p[j] /\ p[j] \in 1 .. Len(q)
      BY <1>1, <1>2, <1>3, <2>2
    <3>2. u[o[j]] = q[p[j]] /\ o[j] \in DOMAIN u
      BY <1>2, <3>1
    <3>3. ASSUME NEW i \in n .. j - 1 PROVE o[i] < o[j]
      <4>1. i \in n .. r - 1 /\ i # r /\ o[i] = p[i]
        BY <1>3, <3>1
      <4> QED
        BY <1>1, <3>1, <4>1
    <3> QED
      BY <1>1, <3>1, <3>2, <3>3
  <2> QED
    BY <2>1, <2>2
<1> QED
  BY <1>4 DEF InOrder, u

LEMMA OrderShrinks ==
  ASSUME NEW G, NEW q \in Seq(G), q # << >>, NEW n \in Int, NEW r \in Int, InOrder(q, n, r), NEW m \in {n, n + 1},
         m = n => Head(q).op # "frag" \/ Head(q).num # n
  PROVE  InOrder(Tail(q), m, r)
<1>1. PICK p : \A j \in n .. r - 1 : /\ p[j] \in DOMAIN q /\ q[p[j]].op = "frag" /\ q[p[j]].num = j
                                     /\ \A i \in n .. j - 1 : p[i] < p[j]
  BY DEF InOrder
<1> DEFINE u == Tail(q)
           o == [j \in m .. r - 1 |-> p[j] - 1]
<1>2. /\ Head(q) = q[1] /\ Len(q) \in Nat /\ DOMAIN q = 1 .. Len(q) /\ DOMAIN u = 1 .. Len(q) - 1
      /\ \A k \in 1 .. Len(q) - 1 : u[k] = q[k + 1]
  <2>1. Len(u) = Len(q) - 1 /\ u \in Seq(G) /\ \A k \in 1 .. Len(u) : u[k] = q[k + 1]
    BY HeadTailProperties
  <2>2. Head(q) = q[1]
    BY TailHas
  <2> QED
    BY <2>1, <2>2, LenProperties
<1> HIDE DEF u
<1>3. \A j \in m .. r - 1 : o[j] = p[j] - 1
  OBVIOUS
<1> HIDE DEF o
<1>4. ASSUME NEW j \in m .. r - 1
      PROVE  p[j] \in 2 .. Len(q)
  <2>1. j \in n .. r - 1 /\ n \in n .. r - 1 /\ p[j] \in 1 .. Len(q) /\ p[n] \in 1 .. Len(q)
    BY <1>1, <1>2
  <2>2. CASE j = n
    <3>1. m = n /\ q[p[n]].op = "frag" /\ q[p[n]].num = n
      BY <1>1, <2>1, <2>2
    <3>2. p[n] # 1
      BY <1>2, <3>1
    <3> QED
      BY <1>2, <2>1, <2>2, <3>2
  <2>3. CASE j # n
    <3>1. n \in n .. j - 1
      BY <2>1, <2>3
    <3>2. p[n] < p[j]
      BY <1>1, <2>1, <3>1
    <3> QED
      BY <1>2, <2>1, <3>2
  <2> QED
    BY <2>2, <2>3
<1>5. ASSUME NEW j \in m .. r - 1
      PROVE  /\ o[j] \in DOMAIN u /\ u[o[j]].op = "frag" /\ u[o[j]].num = j
             /\ \A i \in m .. j - 1 : o[i] < o[j]
  <2>1. j \in n .. r - 1 /\ o[j] = p[j] - 1 /\ p[j] \in 2 .. Len(q)
    BY <1>3, <1>4
  <2>2. o[j] \in 1 .. Len(q) - 1 /\ u[o[j]] = q[p[j]]
    BY <1>2, <2>1
  <2>3. ASSUME NEW i \in m .. j - 1 PROVE o[i] < o[j]
    <3>1. i \in m .. r - 1 /\ i \in n .. j - 1
      OBVIOUS
    <3>2. o[i] = p[i] - 1 /\ p[i] \in 2 .. Len(q) /\ p[i] < p[j]
      BY <1>1, <1>3, <1>4, <2>1, <3>1
    <3> QED
      BY <1>2, <2>1, <3>2
  <2> QED
    BY <1>1, <1>2, <2>1, <2>2, <2>3
<1> QED
  BY <1>5 DEF InOrder, u

LEMMA FragAdded ==
  ASSUME NEW G, NEW q \in Seq(G), NEW x \in G, x.op = "frag"
  PROVE  SomeFrag(Append(q, x))
<1>1. /\ Append(q, x) \in Seq(G) /\ Len(Append(q, x)) = Len(q) + 1 /\ Append(q, x)[Len(q) + 1] = x
      /\ Len(q) \in Nat
  BY AppendProperties, LenProperties
<1>2. Len(q) + 1 \in DOMAIN Append(q, x)
  BY <1>1, LenProperties
<1> QED
  BY <1>1, <1>2 DEF SomeFrag

LEMMA SomeTaken ==
  ASSUME NEW G, NEW q \in Seq(G), q # << >>
  PROVE  /\ SomeFrag(q) /\ Head(q).op # "frag" => SomeFrag(Tail(q))
         /\ SomeOk(q) /\ ~ (Head(q).op = "status" /\ Head(q).ok) => SomeOk(Tail(q))
<1>1. ASSUME NEW i \in DOMAIN q, q[i] # Head(q)
      PROVE  i - 1 \in DOMAIN Tail(q) /\ Tail(q)[i - 1] = q[i]
  <2>1. /\ Len(Tail(q)) = Len(q) - 1 /\ Tail(q) \in Seq(G)
        /\ \A k \in 1 .. Len(Tail(q)) : Tail(q)[k] = q[k + 1]
    BY HeadTailProperties
  <2>2. Head(q) = q[1] /\ Len(q) \in Nat /\ DOMAIN q = 1 .. Len(q)
    BY TailHas, LenProperties
  <2>3. i \in 2 .. Len(q)
    BY <1>1, <2>2
  <2>4. i - 1 \in 1 .. Len(Tail(q)) /\ DOMAIN Tail(q) = 1 .. Len(Tail(q))
    BY <2>1, <2>2, <2>3, LenProperties
  <2> QED
    BY <2>1, <2>3, <2>4
<1>2. ASSUME SomeFrag(q), Head(q).op # "frag" PROVE SomeFrag(Tail(q))
  <2>1. PICK i \in DOMAIN q : q[i].op = "frag"
    BY <1>2 DEF SomeFrag
  <2>2. i - 1 \in DOMAIN Tail(q) /\ Tail(q)[i - 1] = q[i]
    BY <1>1, <1>2, <2>1
  <2> QED
    BY <2>1, <2>2 DEF SomeFrag
<1>3. ASSUME SomeOk(q), ~ (Head(q).op = "status" /\ Head(q).ok) PROVE SomeOk(Tail(q))
  <2>1. PICK i \in DOMAIN q : q[i].op = "status" /\ q[i].ok
    BY <1>3 DEF SomeOk
  <2>2. i - 1 \in DOMAIN Tail(q) /\ Tail(q)[i - 1] = q[i]
    BY <1>1, <1>3, <2>1
  <2> QED
    BY <2>1, <2>2 DEF SomeOk
<1> QED
  BY <1>2, <1>3

LEMMA SomeJoined ==
  ASSUME NEW G, NEW q \in Seq(G), NEW r \in Seq(G), SomeOk(q) \/ SomeOk(r)
  PROVE  SomeOk(q \o r)
<1>1. /\ Len(q) \in Nat /\ DOMAIN q = 1 .. Len(q)
      /\ Len(r) \in Nat /\ DOMAIN r = 1 .. Len(r) /\ DOMAIN (q \o r) = 1 .. Len(q) + Len(r)
      /\ \A k \in DOMAIN q : (q \o r)[k] = q[k]
      /\ \A k \in DOMAIN r : (q \o r)[Len(q) + k] = r[k]
  BY JoinIs
<1>2. ASSUME SomeOk(q) PROVE SomeOk(q \o r)
  <2>1. PICK i \in DOMAIN q : q[i].op = "status" /\ q[i].ok
    BY <1>2 DEF SomeOk
  <2>2. i \in DOMAIN (q \o r) /\ (q \o r)[i] = q[i]
    BY <1>1
  <2> QED
    BY <2>1, <2>2 DEF SomeOk
<1>3. ASSUME SomeOk(r) PROVE SomeOk(q \o r)
  <2>1. PICK i \in DOMAIN r : r[i].op = "status" /\ r[i].ok
    BY <1>3 DEF SomeOk
  <2>2. Len(q) + i \in DOMAIN (q \o r) /\ (q \o r)[Len(q) + i] = r[i]
    BY <1>1
  <2> QED
    BY <2>1, <2>2 DEF SomeOk
<1> QED
  BY <1>2, <1>3

\* What a status says of the fragment it is about.
LEMMA StatusSays ==
  ASSUME NEW m, m.op = "frag", NEW ok \in BOOLEAN
  PROVE  NoGet(W!Status(m, ok)) /\ (ok => SomeOk(W!Status(m, ok)))
<1>1. PICK x : x = [op |-> "status", ok |-> ok]
  OBVIOUS
<1>2. x \in InMsgs /\ x.op = "status" /\ x.ok = ok
  BY <1>1 DEF InMsgs
<1>3. W!Status(m, ok) = << x >>
  BY <1>1 DEF W!Status
<1>4. W!Status(m, ok) \in Seq(InMsgs) /\ DOMAIN W!Status(m, ok) = {1} /\ W!Status(m, ok)[1] = x
  BY <1>2, <1>3, OneIs
<1> QED
  BY <1>2, <1>4 DEF NoGet, SomeOk

Covers(u, v, n, e, p, r, k) ==
  /\ NoGet(v) /\ InOrder(u, n, r)
  /\ r + k = e \/ (k = 0 /\ r = p + 1)
  /\ k > 0 => r <= p /\ (SomeFrag(u) \/ SomeOk(v))
Pending == AskedLast(in, tgt.next, tgt.next + tgt.asked)
Covered == Covers(to, in, tgt.next, tgt.next + tgt.asked, W!Pieces(tgt.file, tgt.size),
                  fw[1].rpt_num, fw[1].rpt_cnt)
Registers ==
  /\ \A k \in DOMAIN to : to[k].op = "req_get" => "tx" \in fw_cb
  /\ tgt.sta = "loading" => "tx" \in fw_cb /\ tgt.asked \in 1 .. MaxCount
Flows == tgt.sta = "loading" /\ ~ lossy => Pending \/ Covered
TransferInv == FwInv /\ Registers /\ Flows
Fits == \A f \in DOMAIN Files, s \in FragSizes : s > 0 => W!Pieces(f, s) <= MaxNum

LEMMA Loading ==
  ASSUME FwInv, Fits, tgt.sta = "loading"
  PROVE  /\ fw # << >> /\ fw[1].file = tgt.file /\ fw[1].frag_sz = tgt.size /\ Opened(tgt.file, tgt.size)
         /\ fw[1].rpt_cnt \in Nat /\ fw[1].rpt_num \in Nat /\ NoneDone
         /\ W!Pieces(tgt.file, tgt.size) \in Nat \ {0} /\ W!Pieces(tgt.file, tgt.size) <= MaxNum
         /\ tgt.next \in 1 .. W!Pieces(tgt.file, tgt.size) /\ tgt.next \in Nat \ {0}
         /\ MaxNum \in Nat /\ MaxCount \in Nat
<1>1. Holds(tgt.file, tgt.size) /\ NoneDone /\ tgt.next \in 1 .. W!Pieces(tgt.file, tgt.size)
  BY DEF FwInv, Loads
<1>2. W!Pieces(tgt.file, tgt.size) \in Nat \ {0}
  BY <1>1, SomePieces DEF Holds
<1>3. W!Pieces(tgt.file, tgt.size) <= MaxNum
  BY <1>1 DEF Holds, Opened, Fits
<1>4. fw[1].rpt_cnt \in Nat /\ fw[1].rpt_num \in Nat
  BY <1>1, FwHeld DEF Holds, FwRecs
<1> QED
  BY <1>1, <1>2, <1>3, <1>4, FwConstantsAre DEF Holds, FwConstants

LEMMA InHas ==
  ASSUME FwInv
  PROVE  /\ to \in Seq(ToMsgs) /\ in \in Seq(InMsgs)
         /\ \A k \in DOMAIN in : in[k] \in InMsgs /\ (in[k].op = "get" => in[k].num \in Nat \ {0} /\ in[k].cnt \in Nat \ {0})
<1>1. to \in Seq(ToMsgs) /\ in \in Seq(InMsgs)
  BY DEF FwInv, FwShape
<1>2. MaxNum \in Nat /\ MaxCount \in Nat \ {0} /\ Top \in Int
  BY FwConstantsAre DEF FwConstants, Top
<1>3. ASSUME NEW k \in DOMAIN in
      PROVE  in[k] \in InMsgs /\ (in[k].op = "get" => in[k].num \in Nat \ {0} /\ in[k].cnt \in Nat \ {0})
  <2>1. in[k] \in InMsgs
    BY <1>1
  <2>2. PICK x \in InMsgs : x = in[k]
    BY <2>1
  <2>3. x.op = "get" => x.num \in 1 .. Top /\ x.cnt \in 1 .. MaxCount
    BY DEF InMsgs
  <2> QED
    BY <1>2, <2>2, <2>3
<1> QED
  BY <1>1, <1>3

\* zwif_fw_tx sends the next fragment, and keeps what has to follow.
LEMMA TxCovers ==
  ASSUME FwInv, Fits, tgt.sta = "loading", NEW m \in Nat \ {0}, NEW c \in Nat \ {0},
         m <= W!Pieces(tgt.file, tgt.size), InOrder(to, tgt.next, m), NoGet(in'),
         W!zwif_fw_tx(m, c), ~ lossy'
  PROVE  Covers(to', in', tgt.next, m + c, W!Pieces(tgt.file, tgt.size), fw'[1].rpt_num, fw'[1].rpt_cnt)
<1>1. PICK f, s, p, n : f = tgt.file /\ s = tgt.size /\ p = W!Pieces(f, s) /\ n = tgt.next
  OBVIOUS
<1>2. /\ fw # << >> /\ fw[1].file = f /\ fw[1].frag_sz = s /\ Opened(f, s)
      /\ p \in Nat \ {0} /\ p <= MaxNum /\ n \in Nat \ {0} /\ MaxNum \in Nat
  BY <1>1, Loading
<1>3. PICK r \in FwRecs : fw = << r >> /\ fw[1] = r
  BY <1>2, FwHeld
<1>4. f # 0 /\ s # 0
  BY <1>2, FwConstantsAre DEF Opened, FwConstants
<1>5. PICK y : y = W!zwif_fw_frag_get(f, m, s)
  OBVIOUS
<1>6. y.last <=> m = p
  BY <1>1, <1>2, <1>5, PieceIs DEF Opened
<1>7. PICK x \in Nat : x = (IF y.last THEN 0 ELSE c - 1)
  OBVIOUS
<1>8. /\ fw' = << [r EXCEPT !.rpt_cnt = x, !.rpt_num = m + 1] >>
      /\ to' = Append(to, W!Fragment(f, m, y))
  BY <1>2, <1>3, <1>4, <1>5, <1>7 DEF W!zwif_fw_tx
<1>9. fw'[1].rpt_cnt = x /\ fw'[1].rpt_num = m + 1
  <2>1. PICK q : q = [r EXCEPT !.rpt_cnt = x, !.rpt_num = m + 1]
    OBVIOUS
  <2>2. q.rpt_cnt = x /\ q.rpt_num = m + 1
    BY <2>1 DEF FwRecs
  <2> QED
    BY <1>8, <2>1, <2>2
<1>10. PICK z : z = Sent(f, s, m)
  OBVIOUS
<1>11. m \in 1 .. MaxNum + 1 /\ m % (MaxNum + 1) = m
  BY <1>1, <1>2
<1>12. z \in ToMsgs /\ z.op = "frag" /\ z.num = m /\ to' = Append(to, z)
  BY <1>2, <1>5, <1>8, <1>10, <1>11, SentIs DEF Sent
<1>13. to \in Seq(ToMsgs)
  BY InHas
<1>14. InOrder(to', n, m + 1)
  BY <1>1, <1>2, <1>12, <1>13, OrderGrows
<1>15. SomeFrag(to')
  BY <1>12, <1>13, FragAdded
<1>16. (m + 1) + x = m + c \/ (x = 0 /\ m + 1 = p + 1)
  BY <1>6, <1>7
<1>17. x > 0 => m + 1 <= p
  BY <1>1, <1>2, <1>6, <1>7
<1> QED
  BY <1>1, <1>9, <1>14, <1>15, <1>16, <1>17 DEF Covers

\* Of fragments that are not asked for any more none has to be on its way.
LEMMA EmptyOrder == \A u : \A n \in Int, m \in Int : m <= n => InOrder(u, n, m)
BY DEF InOrder

\* The callback thread.
LEMMA TakesFlows ==
  ASSUME TransferInv, Fits, tgt.sta = "loading", ~ lossy',
         W!TakesInfo \/ W!TakesGet \/ W!TakesStatus \/ W!TakesAnswer \/ W!TakesDone
  PROVE  Pending' \/ Covered'
<1>1. /\ in # << >> /\ in' = Tail(in) /\ UNCHANGED tgt /\ "tx" \in fw_cb /\ tgt.asked \in 1 .. MaxCount
      /\ to \in Seq(ToMsgs) /\ in \in Seq(InMsgs) /\ FwInv
  BY InHas DEF W!TakesInfo, W!TakesGet, W!TakesStatus, W!TakesAnswer, W!TakesDone, W!Takes, W!Rest,
     TransferInv, Registers
<1>2. PICK h : h = Head(in) /\ h = in[1] /\ 1 \in DOMAIN in
  BY <1>1, TailHas
<1>3. h.op = "get" => h.num \in Nat \ {0} /\ h.cnt \in Nat \ {0}
  BY <1>1, <1>2, InHas
<1>4. PICK n, e, p : n = tgt.next /\ e = tgt.next + tgt.asked /\ p = W!Pieces(tgt.file, tgt.size)
  OBVIOUS
<1>5. /\ fw # << >> /\ fw[1].rpt_cnt \in Nat /\ fw[1].rpt_num \in Nat /\ NoneDone
      /\ p \in Nat \ {0} /\ p <= MaxNum /\ n \in 1 .. p /\ n \in Nat \ {0}
  BY <1>1, <1>4, Loading
<1>6. ~ W!TakesDone
  BY <1>1, <1>2, <1>5 DEF W!TakesDone, W!Takes, NoneDone
<1>7. ~ lossy
  BY <1>6 DEF W!TakesInfo, W!TakesGet, W!TakesStatus, W!TakesAnswer, W!zwif_fw_tx
<1>8. CASE AskedLast(in', n, e)
  BY <1>1, <1>4, <1>8 DEF Pending
<1>9. CASE /\ h.op = "get" /\ h.num <= n /\ h.num + h.cnt = e /\ NoGet(in')
  <2>1. W!zwif_fw_tx(h.num, h.cnt)
    BY <1>1, <1>2, <1>5, <1>6, <1>9 DEF W!TakesInfo, W!TakesGet, W!TakesStatus, W!TakesAnswer, W!Takes
  <2>2. InOrder(to, n, h.num)
    BY <1>3, <1>5, <1>9, EmptyOrder
  <2>3. h.num <= p
    BY <1>3, <1>5, <1>9
  <2>4. Covers(to', in', tgt.next, h.num + h.cnt, W!Pieces(tgt.file, tgt.size), fw'[1].rpt_num, fw'[1].rpt_cnt)
    BY <1>1, <1>3, <1>4, <1>9, <2>1, <2>2, <2>3, TxCovers
  <2> QED
    BY <1>1, <1>4, <1>9, <2>4 DEF Covered
<1>10. CASE Covered
  <2>1. PICK r, k : r = fw[1].rpt_num /\ k = fw[1].rpt_cnt
    OBVIOUS
  <2>2. /\ NoGet(in) /\ InOrder(to, n, r) /\ (r + k = e \/ (k = 0 /\ r = p + 1))
        /\ k > 0 => r <= p /\ (SomeFrag(to) \/ SomeOk(in))
    BY <1>4, <1>10, <2>1 DEF Covered, Covers
  <2>3. NoGet(in') /\ h.op # "get"
    <3>1. NoGet(Tail(in))
      BY <1>1, <2>2, NoGetStays
    <3> QED
      BY <1>1, <1>2, <2>2, <3>1 DEF NoGet
  <2>4. CASE W!TakesStatus /\ h.ok /\ k > 0
    <3>1. W!zwif_fw_tx(r, k)
      BY <1>2, <2>1, <2>4 DEF W!TakesStatus
    <3>2. r + k = e /\ r <= p
      BY <1>5, <2>1, <2>2, <2>4
    <3>3. r \in Nat \ {0} /\ k \in Nat \ {0}
      BY <1>1, <1>5, <2>1, <2>4, FwHeld
    <3>4. InOrder(to, tgt.next, r) /\ r <= W!Pieces(tgt.file, tgt.size)
      BY <1>4, <2>2, <3>2
    <3>5. Covers(to', in', tgt.next, r + k, W!Pieces(tgt.file, tgt.size), fw'[1].rpt_num, fw'[1].rpt_cnt)
      BY <1>1, <2>3, <3>1, <3>3, <3>4, TxCovers
    <3>6. r + k = tgt'.next + tgt'.asked
      BY <1>1, <1>4, <3>2
    <3> QED
      BY <1>1, <3>5, <3>6 DEF Covered
  <2>5. CASE ~ (W!TakesStatus /\ h.ok /\ k > 0)
    <3>1. to' = to /\ fw'[1].rpt_num = r /\ fw'[1].rpt_cnt = k
      <4>1. CASE W!TakesInfo
        <5>1. to' = to /\ W!InfoReport
          BY <4>1 DEF W!TakesInfo
        <5> QED
          BY <1>5, <2>1, <5>1 DEF W!InfoReport
      <4>2. CASE ~ W!TakesInfo
        BY <1>2, <1>6, <2>1, <2>3, <2>5, <4>2 DEF W!TakesGet, W!TakesStatus, W!TakesAnswer, W!Takes
      <4> QED
        BY <4>1, <4>2
    <3>2. k > 0 => SomeFrag(to) \/ SomeOk(in')
      <4>1. k > 0 /\ SomeOk(in) => ~ (h.op = "status" /\ h.ok)
        BY <1>2, <1>6, <2>5 DEF W!TakesInfo, W!TakesGet, W!TakesStatus, W!TakesAnswer, W!Takes
      <4> QED
        BY <1>1, <1>2, <2>2, <4>1, SomeTaken
    <3>3. Covers(to, in', n, e, p, r, k)
      BY <2>2, <2>3, <3>2, Zenon DEF Covers
    <3> QED
      BY <1>1, <1>4, <3>1, <3>3 DEF Covered
  <2> QED
    BY <2>4, <2>5
<1>11. Pending => AskedLast(in', n, e) \/ (h.op = "get" /\ h.num <= n /\ h.num + h.cnt = e /\ NoGet(in'))
  BY <1>1, <1>2, <1>4, AskedTaken DEF Pending
<1> QED
  BY <1>7, <1>8, <1>9, <1>10, <1>11 DEF TransferInv, Flows

\* A frame leaves the queue; a fragment's status comes, or it is lost.
LEMMA LeavesFlows ==
  ASSUME TransferInv, Fits, tgt.sta = "loading", ~ lossy, to # << >>, to' = Tail(to), UNCHANGED <<fw, tgt>>,
         ~ (Head(to).op = "frag" /\ Head(to).num = tgt.next),
         NEW q \in Seq(InMsgs), in' = in \o q, NoGet(q), Head(to).op = "frag" => SomeOk(q)
  PROVE  Pending' \/ Covered'
<1>1. to \in Seq(ToMsgs) /\ in \in Seq(InMsgs) /\ FwInv /\ tgt.asked \in 1 .. MaxCount
  BY InHas DEF TransferInv, Registers
<1>2. PICK n, e, p, r, k : /\ n = tgt.next /\ e = tgt.next + tgt.asked /\ p = W!Pieces(tgt.file, tgt.size)
                           /\ r = fw[1].rpt_num /\ k = fw[1].rpt_cnt
  OBVIOUS
<1>3. n \in Nat \ {0} /\ r \in Nat /\ k \in Nat
  BY <1>1, <1>2, Loading
<1>4. \A j \in DOMAIN in : in[j].op = "get" => in[j].num \in Int
  BY <1>1, InHas
<1>5. CASE Pending
  <2>1. AskedLast(in', n, e)
    BY <1>1, <1>2, <1>3, <1>4, <1>5, AskedStays DEF Pending
  <2> QED
    BY <1>2, <2>1 DEF Pending
<1>6. CASE Covered
  <2>1. /\ NoGet(in) /\ InOrder(to, n, r) /\ (r + k = e \/ (k = 0 /\ r = p + 1))
        /\ k > 0 => r <= p /\ (SomeFrag(to) \/ SomeOk(in))
    BY <1>2, <1>6 DEF Covered, Covers
  <2>2. NoGet(in')
    BY <1>1, <2>1, NoGetStays
  <2>3. InOrder(to', n, r)
    <3>1. Head(to).op # "frag" \/ Head(to).num # n
      BY <1>2
    <3>2. \A m \in {n, n + 1} : m = n => InOrder(Tail(to), m, r)
      BY <1>1, <1>3, <2>1, <3>1, OrderShrinks
    <3> QED
      BY <3>2
  <2>4. k > 0 => SomeFrag(to') \/ SomeOk(in')
    <3>1. k > 0 /\ SomeFrag(to) /\ Head(to).op # "frag" => SomeFrag(to')
      BY <1>1, SomeTaken
    <3>2. SomeOk(in) \/ SomeOk(q) => SomeOk(in')
      BY <1>1, SomeJoined
    <3> QED
      BY <2>1, <3>1, <3>2
  <2>5. Covers(to', in', n, e, p, r, k)
    BY <2>1, <2>2, <2>3, <2>4, Zenon DEF Covers
  <2> QED
    BY <1>2, <2>5 DEF Covered
<1> QED
  BY <1>5, <1>6 DEF TransferInv, Flows

LEMMA PassFlows ==
  ASSUME TransferInv, Fits, tgt.sta = "loading", ~ lossy', W!FrameLost \/ W!NodeInforms \/ W!NodeIgnores
  PROVE  Pending' \/ Covered'
<1>1. ~ W!FrameLost
  BY DEF W!FrameLost
<1>2. CASE W!NodeInforms
  <2>1. PICK x : x = [op |-> "info"]
    OBVIOUS
  <2>2. x \in InMsgs /\ x.op = "info"
    BY <2>1 DEF InMsgs
  <2>3. /\ to # << >> /\ to' = Tail(to) /\ UNCHANGED <<fw, tgt>> /\ Head(to).op = "info_get" /\ in' = Append(in, x)
        /\ ~ lossy
    BY <1>2, <2>1 DEF W!NodeInforms, W!Reaches, W!Env
  <2>4. << x >> \in Seq(InMsgs) /\ NoGet(<< x >>)
    BY <2>2, OneIs DEF NoGet
  <2>5. in \in Seq(InMsgs)
    BY InHas DEF TransferInv
  <2>6. in' = in \o << x >>
    BY <2>2, <2>3, <2>5, AppendIsConcat
  <2> QED
    BY <2>3, <2>4, <2>6, LeavesFlows
<1>3. CASE W!NodeIgnores
  <2>1. PICK ok \in BOOLEAN : in' = in \o W!Status(Head(to), ok) /\ lossy' = (lossy \/ ~ ok)
    BY <1>3 DEF W!NodeIgnores
  <2>2. /\ to # << >> /\ to' = Tail(to) /\ UNCHANGED <<fw, tgt>> /\ Head(to).op = "frag" /\ Head(to).num # tgt.next
        /\ ~ lossy /\ ok
    BY <1>3, <2>1 DEF W!NodeIgnores, W!Reaches, W!Env, W!Wanted
  <2>3. PICK q : q = W!Status(Head(to), ok)
    OBVIOUS
  <2>4. q \in Seq(InMsgs) /\ NoGet(q) /\ SomeOk(q)
    BY <2>2, <2>3, StatusIs, StatusSays
  <2> QED
    BY <2>1, <2>2, <2>3, <2>4, LeavesFlows
<1> QED
  BY <1>1, <1>2, <1>3

\* The node takes the fragment it needs: it asks again, or more is to come.
LEMMA TakenFlows ==
  ASSUME TransferInv, Fits, "long" \notin FwFaults, W!NodeTakes, tgt'.sta = "loading"
  PROVE  tgt'.asked \in 1 .. MaxCount /\ (~ lossy' => Pending' \/ Covered')
<1>1. /\ to # << >> /\ to' = Tail(to) /\ UNCHANGED fw /\ tgt.sta = "loading"
      /\ Head(to).op = "frag" /\ Head(to).num = tgt.next
  BY DEF W!NodeTakes, W!Reaches, W!Env, W!Wanted
<1>2. /\ to \in Seq(ToMsgs) /\ in \in Seq(InMsgs) /\ FwInv /\ tgt.asked \in 1 .. MaxCount
      /\ DOMAIN tgt = {"sta", "file", "size", "next", "asked", "got"}
  BY <1>1, InHas DEF TransferInv, Registers, FwInv, FwShape
<1>3. PICK n, a, p, r, k : /\ n = tgt.next /\ a = tgt.asked /\ p = W!Pieces(tgt.file, tgt.size)
                           /\ r = fw[1].rpt_num /\ k = fw[1].rpt_cnt
  OBVIOUS
<1>4. /\ n \in 1 .. p /\ p \in Nat \ {0} /\ n \in Nat \ {0} /\ a \in Nat \ {0} /\ r \in Nat /\ k \in Nat
      /\ MaxCount \in Nat /\ Opened(tgt.file, tgt.size)
  BY <1>1, <1>2, <1>3, Loading
<1>5. PICK m : m = Head(to)
  OBVIOUS
<1>6. PICK got : got = Append(tgt.got, [file |-> m.file, from |-> m.from, len |-> m.len])
  OBVIOUS
<1>7. PICK ok \in BOOLEAN, restart \in BOOLEAN, c \in 1 .. MaxCount :
          LET says == IF m.last THEN << [op |-> "done", restart |-> restart] >>
                      ELSE IF tgt.asked = 1 THEN W!Asks(tgt.next + 1, c) ELSE << >>
          IN /\ in' \in {in \o W!Status(m, ok) \o says, in \o says \o W!Status(m, ok)}
             /\ tgt' = IF m.last THEN [tgt EXCEPT !.sta = "done", !.next = 0, !.asked = 0, !.got = got]
                       ELSE [tgt EXCEPT !.next = @ + 1, !.got = got,
                                        !.asked = IF @ = 1 THEN c ELSE @ - 1]
             /\ lossy' = (says = << >> /\ (lossy \/ ~ ok))
  BY <1>5, <1>6, Zenon DEF W!NodeTakes
<1>8. PICK says : says = IF m.last THEN << [op |-> "done", restart |-> restart] >>
                          ELSE IF tgt.asked = 1 THEN W!Asks(tgt.next + 1, c) ELSE << >>
  OBVIOUS
<1>9. /\ ok \in BOOLEAN /\ restart \in BOOLEAN /\ c \in 1 .. MaxCount
      /\ in' \in {in \o W!Status(m, ok) \o says, in \o says \o W!Status(m, ok)}
      /\ tgt' = IF m.last THEN [tgt EXCEPT !.sta = "done", !.next = 0, !.asked = 0, !.got = got]
                ELSE [tgt EXCEPT !.next = @ + 1, !.got = got,
                                 !.asked = IF @ = 1 THEN c ELSE @ - 1]
  BY <1>7, <1>8, Zenon
<1>10. lossy' = (says = << >> /\ (lossy \/ ~ ok))
  BY <1>7, <1>8, Zenon
<1>11. says = << >> /\ ~ lossy' => ~ lossy /\ ok
  BY <1>10, Zenon
<1>12. ~ m.last
  <2>1. CASE m.last
    <3>1. tgt'.sta = "done"
      BY <1>2, <1>9, <2>1
    <3> QED
      BY <3>1
  <2> QED
    BY <2>1
<1>13. n # p /\ n + 1 \in 1 .. p
  BY <1>1, <1>2, <1>3, <1>4, <1>5, <1>12, WantedIsNext
<1>14. /\ tgt'.next = n + 1 /\ tgt'.asked = (IF a = 1 THEN c ELSE a - 1)
       /\ tgt'.file = tgt.file /\ tgt'.size = tgt.size
  BY <1>2, <1>3, <1>9, <1>12
<1>15. PICK st : st = W!Status(m, ok)
  OBVIOUS
<1>16. st \in Seq(InMsgs) /\ NoGet(st) /\ (ok => SomeOk(st))
  BY <1>1, <1>5, <1>9, <1>15, StatusIs, StatusSays
<1>17. \A j \in DOMAIN in : in[j].op = "get" => in[j].num \in Int
  BY <1>2, InHas
<1>18. CASE a = 1
  <2>1. PICK b, y : b = n + 1 /\ y = W!Asks(b, c)
    OBVIOUS
  <2>2. says = y /\ in' \in {in \o st \o y, in \o y \o st}
    BY <1>3, <1>8, <1>9, <1>12, <1>15, <1>18, <2>1
  <2>3. b \in 1 .. Top /\ b \in Int /\ c \in Int /\ c \in 1 .. MaxCount /\ b <= b
    <3>1. p <= Top
      BY <1>3, <1>4, SomePieces
    <3>2. Top \in Int
      BY FwConstantsAre DEF FwConstants, Top
    <3> QED
      BY <1>4, <1>9, <1>13, <2>1, <3>1, <3>2
  <2>4. y \in Seq(InMsgs)
    BY <2>1, <2>3, AsksIs
  <2>5. AskedLast(in', b, b + c)
    <3>1. CASE in' = in \o st \o y
      <4>1. PICK u : u = in \o st
        OBVIOUS
      <4>2. u \in Seq(InMsgs)
        BY <1>2, <1>16, <4>1, JoinHas
      <4>3. AskedLast(u \o W!Asks(b, c), b, b + c)
        BY <2>1, <2>3, <2>4, <4>2, AsksLast
      <4> QED
        BY <2>1, <3>1, <4>1, <4>3
    <3>2. CASE in' = in \o y \o st
      <4>1. PICK u : u = in \o y
        OBVIOUS
      <4>2. u \in Seq(InMsgs)
        BY <1>2, <2>4, <4>1, JoinHas
      <4>3. AskedLast(u, b, b + c)
        <5>1. AskedLast(in \o W!Asks(b, c), b, b + c)
          BY <1>2, <2>1, <2>3, <2>4, AsksLast
        <5> QED
          BY <2>1, <4>1, <5>1
      <4>4. \A j \in DOMAIN u : u[j].op = "get" => u[j].num \in Int
        <5>1. \A g \in InMsgs : g.op = "get" => g.num \in Int
          BY DEF InMsgs
        <5> QED
          BY <4>2, <5>1
      <4>5. AskedLast(u \o st, b, b + c)
        BY <1>16, <2>3, <4>2, <4>3, <4>4, AskedStays
      <4> QED
        BY <3>2, <4>1, <4>5
    <3> QED
      BY <2>2, <3>1, <3>2
  <2>6. tgt'.next = b /\ tgt'.asked = c
    BY <1>14, <1>18, <2>1
  <2> QED
    BY <2>3, <2>5, <2>6 DEF Pending
<1>19. CASE a # 1
  <2>1. says = << >> /\ tgt'.asked = a - 1 /\ tgt'.asked \in 1 .. MaxCount
    BY <1>2, <1>3, <1>4, <1>8, <1>12, <1>14, <1>19
  <2>2. in' = in \o st
    <3>1. in \o st \in Seq(InMsgs)
      BY <1>2, <1>16, JoinHas
    <3>2. (in \o st) \o << >> = in \o st
      BY <3>1, ConcatEmptySeq
    <3>3. in \o << >> = in
      BY <1>2, ConcatEmptySeq
    <3> QED
      BY <1>9, <1>15, <2>1, <3>2, <3>3
  <2>3. ASSUME ~ lossy' PROVE Pending' \/ Covered'
    <3>1. ~ lossy /\ ok
      BY <1>11, <2>1, <2>3
    <3>2. CASE Pending
      <4>1. PICK b, e : b = n + 1 /\ e = n + a
        OBVIOUS
      <4>2. AskedLast(in, n, e)
        BY <1>3, <3>2, <4>1 DEF Pending
      <4>3. n \in Int /\ b \in Int /\ n <= b /\ e = b + (a - 1)
        BY <1>4, <4>1
      <4>4. AskedLast(in \o st, b, e)
        BY <1>2, <1>16, <1>17, <4>2, <4>3, AskedStays
      <4> QED
        BY <1>14, <2>1, <2>2, <4>1, <4>3, <4>4 DEF Pending
    <3>3. CASE Covered
      <4>1. /\ NoGet(in) /\ InOrder(to, n, r) /\ (r + k = n + a \/ (k = 0 /\ r = p + 1))
            /\ k > 0 => r <= p /\ (SomeFrag(to) \/ SomeOk(in))
        BY <1>3, <3>3 DEF Covered, Covers
      <4>2. NoGet(in')
        BY <1>2, <1>16, <2>2, <4>1, NoGetStays
      <4>3. InOrder(to', n + 1, r)
        <5>1. \A x \in {n, n + 1} : x # n => InOrder(Tail(to), x, r)
          BY <1>1, <1>2, <1>4, <4>1, OrderShrinks
        <5> QED
          BY <1>1, <1>4, <5>1
      <4>4. SomeOk(in')
        BY <1>2, <1>16, <2>2, <3>1, SomeJoined
      <4>5. n + a = (n + 1) + (a - 1)
        BY <1>4
      <4>6. Covers(to', in', n + 1, n + a, p, r, k)
        BY <4>1, <4>2, <4>3, <4>4, Zenon DEF Covers
      <4>7. Covered' <=> Covers(to', in', n + 1, (n + 1) + (a - 1), p, r, k)
        BY <1>1, <1>3, <1>14, <2>1 DEF Covered, W!Pieces
      <4> QED
        BY <4>5, <4>6, <4>7
    <3> QED
      BY <1>1, <3>1, <3>2, <3>3 DEF TransferInv, Flows
  <2> QED
    BY <2>1, <2>3
<1> QED
  BY <1>18, <1>19

LEMMA SeqGrows ==
  ASSUME NEW G, NEW q \in Seq(G), NEW x
  PROVE  q \in Seq(G \cup {x})
OBVIOUS

\* The node's question is the last one that was put.
LEMMA AsksFlows ==
  ASSUME TransferInv, Fits, "long" \notin FwFaults, W!NodeAccepts \/ W!NodeAsksAgain
  PROVE  Pending' /\ tgt'.asked \in 1 .. MaxCount /\ "tx" \in fw_cb
<1>1. /\ to \in Seq(ToMsgs) /\ in \in Seq(InMsgs) /\ FwInv
      /\ DOMAIN tgt = {"sta", "file", "size", "next", "asked", "got"}
  BY InHas DEF TransferInv, FwInv, FwShape
<1>2. CASE W!NodeAccepts
  <2>1. PICK x : x = [op |-> "answer"]
    OBVIOUS
  <2>2. x \in InMsgs
    BY <2>1 DEF InMsgs
  <2>3. /\ to # << >> /\ Head(to).op = "req_get" /\ 1 \in DOMAIN to /\ Head(to) = to[1]
    BY <1>1, <1>2, TailHas DEF W!NodeAccepts, W!Reaches
  <2>4. "tx" \in fw_cb
    BY <2>3 DEF TransferInv, Registers
  <2>5. PICK c \in 1 .. MaxCount :
          /\ in' = in \o << x >> \o W!Asks(1, c)
          /\ tgt' = [sta |-> "loading", file |-> Head(to).file, size |-> Head(to).size,
                     next |-> 1, asked |-> c, got |-> << >>]
    BY <1>2, <2>1 DEF W!NodeAccepts
  <2>6. tgt'.next = 1 /\ tgt'.asked = c
    BY <2>5
  <2>7. 1 \in 1 .. Top /\ c \in Int
    <3>1. Opened(Head(to).file, Head(to).size)
      BY <1>1, <2>3 DEF FwInv, Requested, Holds
    <3>2. W!Pieces(Head(to).file, Head(to).size) \in Nat \ {0} /\ W!Pieces(Head(to).file, Head(to).size) <= Top
      BY <3>1, SomePieces
    <3> QED
      BY <2>5, <3>2, FwConstantsAre DEF FwConstants, Top
  <2>8. PICK u : u = in \o << x >>
    OBVIOUS
  <2>9. u \in Seq(InMsgs)
    BY <1>1, <2>2, <2>8, JoinHas, OneIs
  <2>10. W!Asks(1, c) \in Seq(InMsgs)
    BY <2>5, <2>7, AsksIs
  <2>11. AskedLast(u \o W!Asks(1, c), 1, 1 + c)
    BY <2>7, <2>9, <2>10, AsksLast
  <2> QED
    BY <2>4, <2>5, <2>6, <2>8, <2>11 DEF Pending
<1>3. CASE W!NodeAsksAgain
  <2>1. PICK c \in 1 .. MaxCount : in' = in \o W!Asks(tgt.next, c) /\ tgt' = [tgt EXCEPT !.asked = c]
    BY <1>3 DEF W!NodeAsksAgain
  <2>2. tgt.sta = "loading"
    BY <1>3 DEF W!NodeAsksAgain
  <2>3. "tx" \in fw_cb
    BY <2>2 DEF TransferInv, Registers
  <2>4. PICK n : n = tgt.next
    OBVIOUS
  <2>5. n \in 1 .. Top /\ n \in Int /\ c \in Int
    <3>1. /\ n \in 1 .. W!Pieces(tgt.file, tgt.size) /\ W!Pieces(tgt.file, tgt.size) \in Nat
          /\ Opened(tgt.file, tgt.size)
      BY <1>1, <2>2, <2>4, Loading
    <3>2. W!Pieces(tgt.file, tgt.size) <= Top
      BY <3>1, SomePieces
    <3> QED
      BY <2>1, <3>1, <3>2, FwConstantsAre DEF FwConstants, Top
  <2>6. tgt'.next = n /\ tgt'.asked = c
    BY <1>1, <2>1, <2>4
  <2>7. W!Asks(n, c) \in Seq(InMsgs)
    BY <2>1, <2>5, AsksIs
  <2>8. AskedLast(in \o W!Asks(n, c), n, n + c)
    BY <1>1, <2>5, <2>7, AsksLast
  <2> QED
    BY <2>1, <2>3, <2>4, <2>6, <2>8 DEF Pending
<1> QED
  BY <1>2, <1>3

\* The callbacks are registered before the node is asked anything.
LEMMA RegisteredStays ==
  ASSUME TransferInv, W!Next
  PROVE  /\ \A k \in DOMAIN to' : to'[k].op = "req_get" => "tx" \in fw_cb'
         /\ "tx" \in fw_cb => "tx" \in fw_cb'
<1>1. to \in Seq(ToMsgs) /\ \A k \in DOMAIN to : to[k].op = "req_get" => "tx" \in fw_cb
  BY InHas DEF TransferInv, Registers
<1>2. CASE UNCHANGED fw_cb /\ to # << >> /\ to' = Tail(to)
  <2>1. \A k \in DOMAIN to' : k + 1 \in DOMAIN to /\ to'[k] = to[k + 1]
    BY <1>1, <1>2, TailHas
  <2> QED
    BY <1>1, <1>2, <2>1
<1>3. CASE UNCHANGED <<fw_cb, to>>
  BY <1>1, <1>3
<1>4. CASE W!FwInfoGet
  <2>1. PICK x : x = [op |-> "info_get"]
    OBVIOUS
  <2>2. x \in ToMsgs /\ x.op = "info_get" /\ to' = << x >> /\ fw_cb \subseteq fw_cb'
    BY <1>4, <2>1 DEF W!FwInfoGet, ToMsgs
  <2>3. \A k \in DOMAIN to' : to'[k] = x
    BY <2>2, OneIs
  <2> QED
    BY <2>2, <2>3
<1>5. CASE W!FwUpdtReq
  BY <1>5 DEF W!FwUpdtReq
<1>6. CASE UNCHANGED fw_cb /\ \E m, c : W!zwif_fw_tx(m, c)
  <2>1. PICK m, c : W!zwif_fw_tx(m, c)
    BY <1>6
  <2>2. CASE to' = to
    BY <1>3, <1>6, <2>2
  <2>3. CASE to' # to
    <3>1. PICK f, y : to' = Append(to, W!Fragment(f, m, y))
      BY <2>1, <2>3 DEF W!zwif_fw_tx
    <3>2. PICK x : x = W!Fragment(f, m, y)
      OBVIOUS
    <3>3. x.op = "frag"
      BY <3>2 DEF W!Fragment
    <3>4. to \in Seq(ToMsgs \cup {x}) /\ x \in ToMsgs \cup {x}
      BY <1>1, SeqGrows
    <3>5. \A k \in DOMAIN to' : (k \in DOMAIN to /\ to'[k] = to[k]) \/ to'[k] = x
      BY <3>1, <3>2, <3>4, OneMore
    <3> QED
      BY <1>1, <1>6, <3>3, <3>5
  <2> QED
    BY <2>2, <2>3
<1>7. CASE W!TakesInfo \/ W!TakesAnswer \/ W!TakesDone \/ W!RestartTimeout \/ W!NodeAsksAgain \/ W!NodeGivesUp
  BY <1>3, <1>7 DEF W!TakesInfo, W!TakesAnswer, W!TakesDone, W!RestartTimeout, W!NodeAsksAgain, W!NodeGivesUp,
     W!Rest, W!Env
<1>8. CASE W!TakesGet \/ W!TakesStatus
  <2>1. UNCHANGED fw_cb
    BY <1>8 DEF W!TakesGet, W!TakesStatus, W!Rest
  <2>2. to' = to \/ \E m, c : W!zwif_fw_tx(m, c)
    BY <1>8 DEF W!TakesGet, W!TakesStatus
  <2> QED
    BY <1>3, <1>6, <2>1, <2>2
<1>9. CASE \/ W!FrameLost \/ W!NodeInforms \/ W!NodeAccepts \/ W!NodeRefuses \/ W!NodeTakes \/ W!NodeIgnores
  BY <1>2, <1>9 DEF W!FrameLost, W!NodeInforms, W!NodeAccepts, W!NodeRefuses, W!NodeTakes, W!NodeIgnores,
     W!Reaches, W!Env
<1> QED
  BY <1>4, <1>5, <1>7, <1>8, <1>9 DEF W!Next

LEMMA TransferStep ==
  ASSUME TransferInv, Fits, FwFaults = {}, side = "firmware", side' = side, W!Next
  PROVE  TransferInv'
<1>1. FwInv'
  BY FwStep DEF TransferInv
<1>2. FwInv /\ Registers /\ Flows /\ "long" \notin FwFaults
  BY DEF TransferInv
<1>3. /\ \A k \in DOMAIN to' : to'[k].op = "req_get" => "tx" \in fw_cb'
      /\ "tx" \in fw_cb => "tx" \in fw_cb'
  BY RegisteredStays
<1>4. ASSUME tgt'.sta = "loading"
      PROVE  "tx" \in fw_cb /\ tgt'.asked \in 1 .. MaxCount /\ (~ lossy' => Pending' \/ Covered')
  <2>1. CASE W!NodeAccepts \/ W!NodeAsksAgain
    BY <1>2, <2>1, AsksFlows
  <2>2. CASE W!NodeRefuses \/ W!NodeGivesUp
    BY <1>4, <2>2 DEF W!NodeRefuses, W!NodeGivesUp, W!Idle
  <2>3. CASE W!NodeTakes
    <3>1. tgt.sta = "loading"
      BY <2>3 DEF W!NodeTakes, W!Wanted
    <3> QED
      BY <1>2, <1>4, <2>3, <3>1, TakenFlows DEF Registers
  <2>4. CASE ~ (W!NodeAccepts \/ W!NodeAsksAgain \/ W!NodeRefuses \/ W!NodeGivesUp \/ W!NodeTakes)
    <3>1. UNCHANGED tgt
      BY <2>4 DEF W!Next, W!FwInfoGet, W!FwUpdtReq, W!TakesInfo, W!TakesGet, W!TakesStatus, W!TakesAnswer,
         W!TakesDone, W!RestartTimeout, W!FrameLost, W!NodeInforms, W!NodeIgnores, W!Rest, W!Env
    <3>2. tgt.sta = "loading" /\ "tx" \in fw_cb /\ tgt'.asked \in 1 .. MaxCount
      BY <1>2, <1>4, <3>1 DEF Registers
    <3>3. CASE W!TakesInfo \/ W!TakesGet \/ W!TakesStatus \/ W!TakesAnswer \/ W!TakesDone
      BY <3>2, <3>3, TakesFlows
    <3>4. CASE W!FrameLost \/ W!NodeInforms \/ W!NodeIgnores
      BY <3>2, <3>4, PassFlows
    <3>5. CASE W!RestartTimeout
      <4>1. UNCHANGED <<tgt, to, in, fw, lossy>>
        BY <3>5 DEF W!RestartTimeout
      <4> QED
        BY <1>2, <3>2, <4>1 DEF Flows, Pending, Covered, W!Pieces
    <3>6. ~ W!FwInfoGet
      BY <1>2, <3>2, Loading DEF W!FwInfoGet
    <3>7. ~ W!FwUpdtReq
      BY <3>2 DEF W!FwUpdtReq, W!NoneRuns
    <3> QED
      BY <2>4, <3>2, <3>3, <3>4, <3>5, <3>6, <3>7 DEF W!Next
  <2> QED
    BY <2>1, <2>2, <2>3, <2>4
<1>5. Registers'
  BY <1>3, <1>4 DEF Registers
<1>6. Flows'
  BY <1>4 DEF Flows
<1> QED
  BY <1>1, <1>5, <1>6 DEF TransferInv

\* The transfer does not come to rest while the node waits for a fragment it
\* asked for, unless a frame or a status was lost since it asked last
\* (zwif_fw_tx and its callback, from the node's question to the last fragment
\* of its answer): where no second update is asked for during the first, and
\* the last fragment's number fits its 15 bits; one more goes out as number 0,
\* which no node waits for.
THEOREM TransferGoesOn ==
  ASSUME FwFaults = {}, \A f \in DOMAIN Files, s \in FragSizes : s > 0 => W!Pieces(f, s) <= MaxNum
  PROVE  Spec => []NoStall
<1>1. Fits
  BY DEF Fits
<1>2. Init => TransferInv
  <2> SUFFICES ASSUME Init PROVE TransferInv
    OBVIOUS
  <2>1. /\ fw = << >> /\ to = << >> /\ in = << >> /\ tgt = W!Idle
        /\ side = "firmware" => target \in Targets
    BY DEF Init, W!Init, NoUpdate, W!Starts
  <2>2. DOMAIN tgt = {"sta", "file", "size", "next", "asked", "got"} /\ tgt.sta = "idle"
    BY <2>1 DEF W!Idle
  <2> QED
    BY <2>1, <2>2 DEF TransferInv, Registers, Flows, FwInv, FwShape, Quiet, Requested, Loads, FwDone
<1>3. TransferInv /\ [Next]_vars => TransferInv'
  <2> SUFFICES ASSUME TransferInv, [Next]_vars PROVE TransferInv'
    OBVIOUS
  <2>1. CASE side = "firmware" /\ side' = side /\ W!Next
    BY <1>1, <2>1, TransferStep
  <2>2. CASE UNCHANGED <<side, fwVars>>
    <3>1. FwInv'
      BY <2>2 DEF TransferInv, fwVars, FwInv, FwShape, Quiet, Requested, Loads, FwDone, NoneDone, Holds
    <3>2. Registers' /\ Flows'
      BY <2>2 DEF TransferInv, fwVars, Registers, Flows, Pending, Covered, W!Pieces
    <3> QED
      BY <3>1, <3>2 DEF TransferInv
  <2> QED
    BY <2>1, <2>2, FwSteps
<1>4. TransferInv => NoStall
  <2> SUFFICES ASSUME TransferInv, to = << >>, in = << >>, tgt.sta = "loading", ~ lossy PROVE FALSE
    BY DEF NoStall, W!NoStall
  <2>1. DOMAIN to = {} /\ DOMAIN in = {}
    OBVIOUS
  <2>2. ~ Pending
    BY <2>1 DEF Pending, AskedLast
  <2>3. PICK n, a, p, r, k : /\ n = tgt.next /\ a = tgt.asked /\ p = W!Pieces(tgt.file, tgt.size)
                             /\ r = fw[1].rpt_num /\ k = fw[1].rpt_cnt
    OBVIOUS
  <2>4. n \in 1 .. p /\ n \in Nat \ {0} /\ p \in Nat /\ r \in Nat /\ k \in Nat /\ a \in 1 .. MaxCount /\ MaxCount \in Nat
    BY <1>1, <2>3, Loading DEF TransferInv, Registers
  <2>5. Covers(to, in, n, n + a, p, r, k)
    BY <2>2, <2>3 DEF TransferInv, Flows, Covered
  <2>6. /\ InOrder(to, n, r) /\ (r + k = n + a \/ (k = 0 /\ r = p + 1))
        /\ ~ (k > 0)
    BY <2>1, <2>5 DEF Covers, SomeFrag, SomeOk
  <2>7. n \in n .. r - 1
    BY <2>4, <2>6
  <2> QED
    BY <2>1, <2>6, <2>7 DEF InOrder
<1> QED
  BY <1>2, <1>3, <1>4, PTL DEF Spec
---------------------------------------------------------------------------
(***************************************************************************)
(* The calls that are answered with ZW_ERR_QUEUED.  As long as the node is    *)
(* there what is untold is still among the requests, and while there is a     *)
(* request the callback thread is at work or will be woken.                   *)
(***************************************************************************)
LEMMA IntfSteps == [Next]_vars => I!Next \/ UNCHANGED callVars
BY DEF Next, vars

ReportedTypes == I!ClimateTypes \cup I!GroupTypes \cup I!OtherTypes
QueuedInv ==
  /\ \E G : cb_req \in Seq(G)
  /\ cb_sem \in Nat
  /\ cb_req # << >> => drains \/ cb_sem > 0
  /\ there => /\ untold # {} => data_cnt
              /\ \A x \in untold \cap ReportedTypes : \E k \in DOMAIN cb_req : cb_req[k] = x

LEMMA QueuedStep ==
  ASSUME QueuedInv, I!Next
  PROVE  QueuedInv'
<1>1. CASE UNCHANGED <<there, data_cnt, cb_req, cb_sem, drains, untold>>
  BY <1>1 DEF QueuedInv
<1>2. PICK G : cb_req \in Seq(G)
  BY DEF QueuedInv
<1>3. ASSUME NEW t \in Threads, I!AnswersFromCache(t) PROVE QueuedInv'
  <2>1. CASE there /\ data_cnt
    <3>1. PICK x : x = I!Arg(t)
      OBVIOUS
    <3>2. /\ cb_req' = Append(cb_req, x) /\ cb_sem' = cb_sem + 1 /\ untold' = untold \cup {x}
          /\ there' = there /\ data_cnt' = data_cnt
      BY <1>3, <2>1, <3>1 DEF I!AnswersFromCache
    <3>3. PICK T : T = G \cup {x}
      OBVIOUS
    <3>4. cb_req \in Seq(T) /\ x \in T
      BY <1>2, <3>3, SeqMonotonic
    <3>5. /\ Append(cb_req, x) \in Seq(T) /\ Len(cb_req) \in Nat /\ DOMAIN cb_req = 1 .. Len(cb_req)
          /\ Len(Append(cb_req, x)) = Len(cb_req) + 1 /\ Append(cb_req, x)[Len(cb_req) + 1] = x
          /\ \A k \in 1 .. Len(cb_req) : Append(cb_req, x)[k] = cb_req[k]
      BY <3>4, AppendProperties, LenProperties
    <3>6. DOMAIN cb_req' = 1 .. Len(cb_req) + 1 /\ cb_req' \in Seq(T)
      BY <3>2, <3>5, LenProperties
    <3>7. \A y \in untold' \cap ReportedTypes : \E k \in DOMAIN cb_req' : cb_req'[k] = y
      <4>1. Len(cb_req) + 1 \in DOMAIN cb_req' /\ cb_req'[Len(cb_req) + 1] = x
        BY <3>2, <3>5, <3>6
      <4>2. ASSUME NEW y \in untold \cap ReportedTypes PROVE \E k \in DOMAIN cb_req' : cb_req'[k] = y
        <5>1. PICK k \in DOMAIN cb_req : cb_req[k] = y
          BY <2>1 DEF QueuedInv
        <5>2. k \in DOMAIN cb_req' /\ cb_req'[k] = y
          BY <3>2, <3>5, <3>6, <5>1
        <5> QED
          BY <5>2
      <4> QED
        BY <3>2, <4>1, <4>2
    <3>8. cb_sem' \in Nat /\ cb_sem' > 0
      BY <3>2 DEF QueuedInv
    <3> QED
      BY <2>1, <3>2, <3>6, <3>7, <3>8 DEF QueuedInv
  <2>2. CASE ~ (there /\ data_cnt)
    BY <1>1, <1>3, <2>2 DEF I!AnswersFromCache
  <2> QED
    BY <2>1, <2>2
<1>4. CASE I!CallbackWakes
  BY <1>4 DEF I!CallbackWakes, QueuedInv
<1>5. CASE I!CallbackTakes
  <2>1. CASE cb_req = << >>
    BY <1>5, <2>1 DEF I!CallbackTakes, QueuedInv
  <2>2. CASE cb_req # << >>
    <3>1. /\ drains /\ drains' = drains /\ cb_req' = Tail(cb_req) /\ UNCHANGED <<there, data_cnt, cb_sem>>
          /\ untold' = IF I!Reported(Head(cb_req)) THEN untold \ {Head(cb_req)} ELSE untold
      BY <1>5, <2>2 DEF I!CallbackTakes
    <3>2. /\ Tail(cb_req) \in Seq(G) /\ Head(cb_req) = cb_req[1]
          /\ Len(cb_req) \in Nat /\ Len(cb_req) > 0 /\ DOMAIN cb_req = 1 .. Len(cb_req)
          /\ Len(Tail(cb_req)) = Len(cb_req) - 1
          /\ \A k \in 1 .. Len(cb_req) - 1 : Tail(cb_req)[k] = cb_req[k + 1]
      BY <1>2, <2>2, HeadTailProperties, LenProperties, EmptySeq
    <3>3. DOMAIN cb_req' = 1 .. Len(cb_req) - 1
      BY <3>1, <3>2, LenProperties
    <3>4. ASSUME there, NEW y \in untold' \cap ReportedTypes
          PROVE  \E k \in DOMAIN cb_req' : cb_req'[k] = y
      <4>1. y \in untold /\ data_cnt
        BY <3>1, <3>4 DEF QueuedInv
      <4>2. PICK k \in DOMAIN cb_req : cb_req[k] = y
        BY <3>4, <4>1 DEF QueuedInv
      <4>3. k # 1
        BY <3>1, <3>2, <3>4, <4>1, <4>2 DEF I!Reported, ReportedTypes
      <4>4. k - 1 \in DOMAIN cb_req' /\ cb_req'[k - 1] = y
        BY <3>1, <3>2, <3>3, <4>2, <4>3
      <4> QED
        BY <4>4
    <3>5. there /\ untold' # {} => data_cnt'
      BY <3>1 DEF QueuedInv
    <3> QED
      BY <3>1, <3>2, <3>4, <3>5 DEF QueuedInv
  <2> QED
    BY <2>1, <2>2
<1>6. CASE I!NodeRemoved
  BY <1>6 DEF I!NodeRemoved, QueuedInv
<1>7. CASE I!NodeAnswers
  BY <1>1, <1>7 DEF I!NodeAnswers
<1>9. CASE I!SwitchesQueue
  BY <1>1, <1>9 DEF I!SwitchesQueue
<1>8. ASSUME NEW t \in Threads,
             \/ I!Call(t) \/ I!Registers(t) \/ I!SetsId(t) \/ I!Sends(t) \/ I!Polls(t)
             \/ I!Allocates(t) \/ I!Returns(t)
      PROVE  UNCHANGED <<there, data_cnt, cb_req, cb_sem, drains, untold>>
  BY <1>8 DEF I!Call, I!Registers, I!SetsId, I!Sends, I!Polls, I!Allocates, I!Returns
<1> QED
  BY <1>1, <1>3, <1>4, <1>5, <1>6, <1>7, <1>8, <1>9 DEF I!Next, I!CallbackThread

\* A call answered with ZW_ERR_QUEUED gets its callback: zwnet_cb_thrd does not
\* go to sleep on a request of a node that is still there (zwif_cached_cb), of
\* any type but the one it has no case for.
THEOREM QueuedAreTold == Spec => []QueuedIsTold
<1>1. Init => QueuedInv
  <2> SUFFICES ASSUME Init PROVE QueuedInv
    OBVIOUS
  <2>1. cb_req = << >> /\ cb_sem = 0 /\ untold = {}
    BY DEF Init, I!Init, NoCalls
  <2> QED
    BY <2>1 DEF QueuedInv
<1>2. QueuedInv /\ [Next]_vars => QueuedInv'
  <2> SUFFICES ASSUME QueuedInv, [Next]_vars PROVE QueuedInv'
    OBVIOUS
  <2>1. CASE UNCHANGED callVars
    BY <2>1 DEF callVars, QueuedInv
  <2> QED
    BY <2>1, QueuedStep, IntfSteps
<1>3. QueuedInv => QueuedIsTold
  <2> SUFFICES ASSUME QueuedInv, ~ drains, cb_sem = 0, there
               PROVE  untold \cap ReportedTypes = {}
    BY DEF QueuedIsTold, I!QueuedIsTold, ReportedTypes
  <2>1. cb_req = << >>
    BY DEF QueuedInv
  <2> QED
    BY <2>1 DEF QueuedInv
<1> QED
  BY <1>1, <1>2, <1>3, PTL DEF Spec
---------------------------------------------------------------------------
(***************************************************************************)
(* The calls of the application.  In each the identifier is set just before *)
(* the command that takes it with it, but for memory that is allocated in   *)
(* between (TakesId); and where a callback is registered and the node is     *)
(* asked, a callback that must be registered is for the report that answers *)
(* (HearsAnswer).  Both hold of the rest of a call that is under way.       *)
(***************************************************************************)
Sending == {"exec", "exec_rr", "get_report"}

\* The rest of a call sends a command before it can fail.
WillSend(s) ==
  \E k \in 1 .. Len(s) : s[k].do \in Sending /\ \A j \in 1 .. k - 1 : s[j].do = "alloc"
TakesId(s) ==
  \A i \in 1 .. Len(s) : s[i].do = "cmd_id" =>
    \E k \in i + 1 .. Len(s) : s[k].do \in Sending /\ \A j \in i + 1 .. k - 1 : s[j].do = "alloc"
HearsAnswer(cls, s, r) ==
  \A k \in 1 .. Len(s) : s[k].do = "get_report" =>
    \/ r = {} /\ \A j \in 1 .. k - 1 : s[j].do \notin {"set_report", "try_report"}
    \/ I!Answer(cls, s[k].arg) \in r
    \/ \E j \in 1 .. k - 1 : s[j].do = "set_report" /\ s[j].arg = I!Answer(cls, s[k].arg)

\* A call of an interface.
GoodCall(f, s) ==
  /\ \E G : s \in Seq(G)
  /\ HearsAnswer(f.cls, s, {})
  /\ Faults = {} => TakesId(s)

\* Calls of one to five steps.
LEMMA CallOf1 ==
  ASSUME NEW f, NEW a, a.do # "cmd_id"
  PROVE  GoodCall(f, <<a>>)
<1> DEFINE s == <<a>>
<1>1. s \in Seq({a}) /\ Len(s) = 1 /\ s[1] = a
  OBVIOUS
<1> HIDE DEF s
<1>2. HearsAnswer(f.cls, s, {})
  BY <1>1 DEF HearsAnswer
<1>3. TakesId(s)
  BY <1>1 DEF TakesId, Sending
<1> QED
  BY <1>1, <1>2, <1>3 DEF GoodCall, s

LEMMA CallOf2 ==
  ASSUME NEW f, NEW a, NEW b,
         \/ a.do = "cmd_id" /\ b.do \in Sending
         \/ Faults # {} /\ a.do = "cmd_id" /\ b.do = "return"
  PROVE  GoodCall(f, <<a, b>>)
<1> DEFINE s == <<a, b>>
<1>1. s \in Seq({a, b}) /\ Len(s) = 2 /\ s[1] = a /\ s[2] = b
  OBVIOUS
<1> HIDE DEF s
<1>2. HearsAnswer(f.cls, s, {})
  BY <1>1 DEF HearsAnswer
<1>3. Faults = {} => TakesId(s)
  BY <1>1 DEF TakesId, Sending
<1> QED
  BY <1>1, <1>2, <1>3 DEF GoodCall, s

LEMMA Joined ==
  /\ \A a : << >> \o <<a>> = <<a>>
  /\ \A a, b, c : << >> \o <<a, b, c>> = <<a, b, c>>
  /\ \A a, b : <<a>> \o <<b>> = <<a, b>>
  /\ \A a, b, c : <<a>> \o <<b, c>> = <<a, b, c>>
  /\ \A a, b, c, d : <<a>> \o <<b, c, d>> = <<a, b, c, d>>
  /\ \A a, b, c, d : <<a, b>> \o <<c, d>> = <<a, b, c, d>>
  /\ \A a, b, c, d, e : <<a, b, c>> \o <<d, e>> = <<a, b, c, d, e>>
<1>1. ASSUME NEW G, NEW s \in Seq(G), NEW t \in Seq(G), NEW u \in Seq(G), Len(u) = Len(s) + Len(t),
             \A i \in 1 .. Len(s) : u[i] = s[i],
             \A i \in 1 .. Len(t) : u[Len(s) + i] = t[i]
      PROVE  s \o t = u
  <2>1. /\ s \o t \in Seq(G) /\ Len(s \o t) = Len(s) + Len(t)
        /\ \A i \in 1 .. Len(s) + Len(t) : (s \o t)[i] = IF i <= Len(s) THEN s[i] ELSE t[i - Len(s)]
    BY ConcatProperties
  <2>2. Len(s) \in Nat /\ Len(t) \in Nat
    BY LenProperties
  <2> DEFINE v == s \o t
  <2> HIDE DEF v
  <2>3. ASSUME NEW i \in 1 .. Len(v) PROVE v[i] = u[i]
    <3>1. CASE i <= Len(s)
      BY <1>1, <2>1, <2>2, <3>1 DEF v
    <3>2. CASE ~ (i <= Len(s))
      <4>1. i - Len(s) \in 1 .. Len(t) /\ Len(s) + (i - Len(s)) = i
        BY <2>1, <2>2, <3>2 DEF v
      <4> QED
        BY <1>1, <2>1, <2>2, <3>2, <4>1 DEF v
    <3> QED
      BY <3>1, <3>2
  <2>4. v \in Seq(G) /\ Len(v) = Len(u)
    BY <1>1, <2>1 DEF v
  <2>5. v = u
    BY <2>3, <2>4, SeqEqual
  <2> QED
    BY <2>5 DEF v
<1>2. ASSUME NEW a, NEW b
      PROVE  <<a>> \o <<b>> = <<a, b>>
  <2> DEFINE s == <<a>>
             t == <<b>>
             u == <<a, b>>
             G == {a, b}
  <2>1. /\ s \in Seq(G) /\ Len(s) = 1 /\ s[1] = a
        /\ t \in Seq(G) /\ Len(t) = 1 /\ t[1] = b
        /\ u \in Seq(G) /\ Len(u) = 2 /\ u[1] = a /\ u[2] = b
    OBVIOUS
  <2> HIDE DEF s, t, u, G
  <2>2. /\ Len(u) = Len(s) + Len(t)
        /\ \A i \in 1 .. Len(s) : u[i] = s[i]
        /\ \A i \in 1 .. Len(t) : u[Len(s) + i] = t[i]
    BY <2>1
  <2>3. s \o t = u
    BY <1>1, <2>1, <2>2
  <2> QED
    BY <2>3 DEF s, t, u
<1>3. ASSUME NEW a, NEW b, NEW c
      PROVE  <<a>> \o <<b, c>> = <<a, b, c>>
  <2> DEFINE s == <<a>>
             t == <<b, c>>
             u == <<a, b, c>>
             G == {a, b, c}
  <2>1. /\ s \in Seq(G) /\ Len(s) = 1 /\ s[1] = a
        /\ t \in Seq(G) /\ Len(t) = 2 /\ t[1] = b /\ t[2] = c
        /\ u \in Seq(G) /\ Len(u) = 3 /\ u[1] = a /\ u[2] = b /\ u[3] = c
    OBVIOUS
  <2> HIDE DEF s, t, u, G
  <2>2. /\ Len(u) = Len(s) + Len(t)
        /\ \A i \in 1 .. Len(s) : u[i] = s[i]
        /\ \A i \in 1 .. Len(t) : u[Len(s) + i] = t[i]
    BY <2>1
  <2>3. s \o t = u
    BY <1>1, <2>1, <2>2
  <2> QED
    BY <2>3 DEF s, t, u
<1>4. ASSUME NEW a, NEW b, NEW c, NEW d
      PROVE  <<a>> \o <<b, c, d>> = <<a, b, c, d>>
  <2> DEFINE s == <<a>>
             t == <<b, c, d>>
             u == <<a, b, c, d>>
             G == {a, b, c, d}
  <2>1. /\ s \in Seq(G) /\ Len(s) = 1 /\ s[1] = a
        /\ t \in Seq(G) /\ Len(t) = 3 /\ t[1] = b /\ t[2] = c /\ t[3] = d
        /\ u \in Seq(G) /\ Len(u) = 4 /\ u[1] = a /\ u[2] = b /\ u[3] = c /\ u[4] = d
    OBVIOUS
  <2> HIDE DEF s, t, u, G
  <2>2. /\ Len(u) = Len(s) + Len(t)
        /\ \A i \in 1 .. Len(s) : u[i] = s[i]
        /\ \A i \in 1 .. Len(t) : u[Len(s) + i] = t[i]
    BY <2>1
  <2>3. s \o t = u
    BY <1>1, <2>1, <2>2
  <2> QED
    BY <2>3 DEF s, t, u
<1>5. ASSUME NEW a, NEW b, NEW c, NEW d
      PROVE  <<a, b>> \o <<c, d>> = <<a, b, c, d>>
  <2> DEFINE s == <<a, b>>
             t == <<c, d>>
             u == <<a, b, c, d>>
             G == {a, b, c, d}
  <2>1. /\ s \in Seq(G) /\ Len(s) = 2 /\ s[1] = a /\ s[2] = b
        /\ t \in Seq(G) /\ Len(t) = 2 /\ t[1] = c /\ t[2] = d
        /\ u \in Seq(G) /\ Len(u) = 4 /\ u[1] = a /\ u[2] = b /\ u[3] = c /\ u[4] = d
    OBVIOUS
  <2> HIDE DEF s, t, u, G
  <2>2. /\ Len(u) = Len(s) + Len(t)
        /\ \A i \in 1 .. Len(s) : u[i] = s[i]
        /\ \A i \in 1 .. Len(t) : u[Len(s) + i] = t[i]
    BY <2>1
  <2>3. s \o t = u
    BY <1>1, <2>1, <2>2
  <2> QED
    BY <2>3 DEF s, t, u
<1>6. ASSUME NEW a, NEW b, NEW c, NEW d, NEW e
      PROVE  <<a, b, c>> \o <<d, e>> = <<a, b, c, d, e>>
  <2> DEFINE s == <<a, b, c>>
             t == <<d, e>>
             u == <<a, b, c, d, e>>
             G == {a, b, c, d, e}
  <2>1. /\ s \in Seq(G) /\ Len(s) = 3 /\ s[1] = a /\ s[2] = b /\ s[3] = c
        /\ t \in Seq(G) /\ Len(t) = 2 /\ t[1] = d /\ t[2] = e
        /\ u \in Seq(G) /\ Len(u) = 5 /\ u[1] = a /\ u[2] = b /\ u[3] = c /\ u[4] = d /\ u[5] = e
    OBVIOUS
  <2> HIDE DEF s, t, u, G
  <2>2. /\ Len(u) = Len(s) + Len(t)
        /\ \A i \in 1 .. Len(s) : u[i] = s[i]
        /\ \A i \in 1 .. Len(t) : u[Len(s) + i] = t[i]
    BY <2>1
  <2>3. s \o t = u
    BY <1>1, <2>1, <2>2
  <2> QED
    BY <2>3 DEF s, t, u
<1>7. ASSUME NEW a PROVE << >> \o <<a>> = <<a>>
  <2>1. <<a>> \in Seq({a})
    OBVIOUS
  <2> QED
    BY <2>1, ConcatEmptySeq
<1>8. ASSUME NEW a, NEW b, NEW c PROVE << >> \o <<a, b, c>> = <<a, b, c>>
  <2>1. <<a, b, c>> \in Seq({a, b, c})
    OBVIOUS
  <2> QED
    BY <2>1, ConcatEmptySeq
<1> QED
  BY <1>2, <1>3, <1>4, <1>5, <1>6, <1>7, <1>8

LEMMA CallOf3 ==
  ASSUME NEW f, NEW a, NEW b, NEW c,
         \/ /\ a.do = "set_report" /\ b.do = "cmd_id" /\ c.do = "get_report"
            /\ a.arg = I!Answer(f.cls, c.arg)
         \/ a.do \in {"alloc", "cmd_id"} /\ b.do \in {"alloc", "cmd_id"} /\ a.do # b.do
            /\ c.do \in {"exec", "exec_rr"}
  PROVE  GoodCall(f, <<a, b, c>>)
<1> DEFINE s == <<a, b, c>>
<1>1. s \in Seq({a, b, c}) /\ Len(s) = 3 /\ s[1] = a /\ s[2] = b /\ s[3] = c
  OBVIOUS
<1> HIDE DEF s
<1>2. HearsAnswer(f.cls, s, {})
  BY <1>1 DEF HearsAnswer
<1>3. TakesId(s)
  BY <1>1 DEF TakesId, Sending
<1> QED
  BY <1>1, <1>2, <1>3 DEF GoodCall, s

LEMMA CallOf4 ==
  ASSUME NEW f, NEW a, NEW b, NEW c, NEW d,
         \/ /\ {a.do, b.do} \in SUBSET {"cached", "set_report", "try_report"}
            /\ c.do = "cmd_id" /\ d.do = "get_report"
            /\ \/ a.do = "set_report" /\ a.arg = I!Answer(f.cls, d.arg)
               \/ b.do = "set_report" /\ b.arg = I!Answer(f.cls, d.arg)
         \/ a.do = "cmd_id" /\ b.do = "exec" /\ c.do = "cmd_id" /\ d.do = "exec"
  PROVE  GoodCall(f, <<a, b, c, d>>)
<1> DEFINE s == <<a, b, c, d>>
<1>1. s \in Seq({a, b, c, d}) /\ Len(s) = 4 /\ s[1] = a /\ s[2] = b /\ s[3] = c /\ s[4] = d
  OBVIOUS
<1> HIDE DEF s
<1>2. HearsAnswer(f.cls, s, {})
  BY <1>1 DEF HearsAnswer
<1>3. TakesId(s)
  BY <1>1 DEF TakesId, Sending
<1> QED
  BY <1>1, <1>2, <1>3 DEF GoodCall, s

LEMMA CallOf5 ==
  ASSUME NEW f, NEW a, NEW b, NEW c, NEW d,
         NEW e, a.do = "cached", b.do = "set_report", c.do \in {"set_report", "try_report"},
         d.do = "cmd_id", e.do = "get_report", b.arg = I!Answer(f.cls, e.arg)
  PROVE  GoodCall(f, <<a, b, c, d, e>>)
<1> DEFINE s == <<a, b, c, d, e>>
<1>1. s \in Seq({a, b, c, d, e}) /\ Len(s) = 5 /\ s[1] = a /\ s[2] = b /\ s[3] = c /\ s[4] = d /\ s[5] = e
  OBVIOUS
<1> HIDE DEF s
<1>2. HearsAnswer(f.cls, s, {})
  BY <1>1 DEF HearsAnswer
<1>3. TakesId(s)
  BY <1>1 DEF TakesId, Sending
<1> QED
  BY <1>1, <1>2, <1>3 DEF GoodCall, s

\* The steps, and what the patterns the functions are made of come to.
LEMMA StepsAre ==
  ASSUME NEW c
  PROVE  /\ I!Rpt(c).do = "set_report" /\ I!Rpt(c).arg = c
         /\ I!TryRpt(c).do = "try_report"
         /\ I!Send(c).do = "exec"
         /\ I!GetRpt(c).do = "get_report" /\ I!GetRpt(c).arg = c
         /\ I!GetRptPoll(c).do = "poll"
         /\ I!Cached(c).do = "cached"
         /\ I!Step("exec_rr", c).do = "exec_rr"
         /\ I!Step("return", c).do = "return"
BY DEF I!Rpt, I!TryRpt, I!Send, I!GetRpt, I!GetRptPoll, I!Cached, I!Step

LEMMA PlainSteps ==
  /\ I!Id.do = "cmd_id"
  /\ I!Alloc.do = "alloc"
  /\ I!Peek.do = "peek"
BY DEF I!Id, I!Alloc, I!Peek, I!Step

LEMMA SimpleCalls ==
  ASSUME NEW f, NEW c, NEW p \in BOOLEAN
  PROVE  /\ GoodCall(f, I!Refused(c)) /\ GoodCall(f, <<I!Rpt(c)>>) /\ GoodCall(f, <<I!Peek>>)
         /\ GoodCall(f, I!Set(c)) /\ GoodCall(f, I!Fetch(c)) /\ GoodCall(f, I!FetchOrPoll(p, c))
         /\ GoodCall(f, <<I!Id, I!Alloc, I!Send(c)>>)
         /\ GoodCall(f, <<I!Id, I!Alloc, I!Step("exec_rr", c)>>)
         /\ GoodCall(f, <<I!Alloc>> \o I!Set(c))
<1>1. GoodCall(f, I!Refused(c)) /\ GoodCall(f, <<I!Rpt(c)>>) /\ GoodCall(f, <<I!Peek>>)
      /\ GoodCall(f, <<I!GetRptPoll(c)>>)
  BY StepsAre, PlainSteps, CallOf1 DEF I!Refused
<1>2. GoodCall(f, I!Set(c)) /\ GoodCall(f, I!Fetch(c))
  BY StepsAre, PlainSteps, CallOf2 DEF I!Set, I!Fetch, Sending
<1>3. GoodCall(f, <<I!Id, I!Alloc, I!Send(c)>>) /\ GoodCall(f, <<I!Id, I!Alloc, I!Step("exec_rr", c)>>)
      /\ GoodCall(f, <<I!Alloc, I!Id, I!Send(c)>>)
  BY StepsAre, PlainSteps, CallOf3
<1>4. <<I!Alloc>> \o I!Set(c) = <<I!Alloc, I!Id, I!Send(c)>>
  BY StepsAre, PlainSteps, Joined DEF I!Set
<1> QED
  BY <1>1, <1>2, <1>3, <1>4 DEF I!FetchOrPoll

LEMMA AskForms ==
  ASSUME NEW f, NEW c, NEW r, NEW t,
         I!Answer(f.cls, c) = r
  PROVE  /\ GoodCall(f, I!Ask(r, c)) /\ GoodCall(f, <<I!Cached(t)>> \o I!Ask(r, c))
         /\ GoodCall(f, <<I!Rpt(r), I!TryRpt(t)>> \o I!Fetch(c)) /\ GoodCall(f, << >> \o I!Ask(r, c))
<1>1. I!Ask(r, c) = <<I!Rpt(r), I!Id, I!GetRpt(c)>>
  BY StepsAre, PlainSteps, Joined DEF I!Ask, I!Fetch
<1>2. <<I!Cached(t)>> \o I!Ask(r, c) = <<I!Cached(t), I!Rpt(r), I!Id, I!GetRpt(c)>>
  BY <1>1, StepsAre, PlainSteps, Joined
<1>3. <<I!Rpt(r), I!TryRpt(t)>> \o I!Fetch(c) = <<I!Rpt(r), I!TryRpt(t), I!Id, I!GetRpt(c)>>
  BY StepsAre, PlainSteps, Joined DEF I!Fetch
<1>4. GoodCall(f, I!Ask(r, c))
  BY <1>1, StepsAre, PlainSteps, CallOf3
<1>5. GoodCall(f, <<I!Cached(t), I!Rpt(r), I!Id, I!GetRpt(c)>>)
      /\ GoodCall(f, <<I!Rpt(r), I!TryRpt(t), I!Id, I!GetRpt(c)>>)
  BY StepsAre, PlainSteps, CallOf4
<1>6. << >> \o I!Ask(r, c) = I!Ask(r, c)
  BY <1>1, Joined
<1> QED
  BY <1>2, <1>3, <1>4, <1>5, <1>6

\* A call of a function for one class, which asks with or without the cache first.
LEMMA AskCall ==
  ASSUME NEW f, NEW cls, NEW c, NEW r, I!Answer(cls, c) = r
  PROVE  f.cls = cls => GoodCall(f, I!Ask(r, c))
BY AskForms
LEMMA CachedAskCall ==
  ASSUME NEW f, NEW cls, NEW c, NEW r, NEW t, I!Answer(cls, c) = r
  PROVE  f.cls = cls => GoodCall(f, <<I!Cached(t)>> \o I!Ask(r, c))
BY AskForms
LEMMA TryAskCall ==
  ASSUME NEW f, NEW cls, NEW c, NEW r, NEW t, I!Answer(cls, c) = r
  PROVE  f.cls = cls => GoodCall(f, <<I!Rpt(r), I!TryRpt(t)>> \o I!Fetch(c))
BY AskForms

LEMMA CachedCalls ==
  ASSUME NEW f, NEW c, NEW r, NEW q, NEW t,
         I!Answer(f.cls, c) = r
  PROVE  /\ GoodCall(f, <<I!Cached(t), I!Rpt(r), I!TryRpt(q)>> \o I!Fetch(c))
         /\ GoodCall(f, <<I!Cached(t), I!Rpt(r), I!Rpt(q)>> \o I!Fetch(c))
<1>1. <<I!Cached(t), I!Rpt(r), I!TryRpt(q)>> \o I!Fetch(c)
        = <<I!Cached(t), I!Rpt(r), I!TryRpt(q), I!Id, I!GetRpt(c)>>
  BY StepsAre, PlainSteps, Joined DEF I!Fetch
<1>2. <<I!Cached(t), I!Rpt(r), I!Rpt(q)>> \o I!Fetch(c)
        = <<I!Cached(t), I!Rpt(r), I!Rpt(q), I!Id, I!GetRpt(c)>>
  BY StepsAre, PlainSteps, Joined DEF I!Fetch
<1>3. /\ GoodCall(f, <<I!Cached(t), I!Rpt(r), I!TryRpt(q), I!Id, I!GetRpt(c)>>)
      /\ GoodCall(f, <<I!Cached(t), I!Rpt(r), I!Rpt(q), I!Id, I!GetRpt(c)>>)
  BY StepsAre, PlainSteps, CallOf5
<1> QED
  BY <1>1, <1>2, <1>3

\* The refused second step of a call whose identifier is set.
LEMMA LateCalls ==
  ASSUME NEW f, NEW e, Faults # {}
  PROVE  GoodCall(f, <<I!Id>> \o I!Refused(e))
<1>1. <<I!Id>> \o I!Refused(e) = <<I!Id, I!Step("return", e)>>
  BY Joined DEF I!Refused
<1>2. I!Id.do = "cmd_id" /\ I!Step("return", e).do = "return"
  BY StepsAre, PlainSteps
<1>3. GoodCall(f, <<I!Id, I!Step("return", e)>>)
  BY <1>2, CallOf2
<1> QED
  BY <1>1, <1>3

\* A function's own class and version, and what is wrong with its arguments.
LEMMA OfGood ==
  ASSUME NEW f, NEW cls, NEW s
  PROVE  (f.cls = cls => GoodCall(f, s)) => GoodCall(f, I!Of(f, cls, s))
BY SimpleCalls DEF I!Of
LEMMA FromGood ==
  ASSUME NEW f, NEW v, NEW s
  PROVE  GoodCall(f, s) => GoodCall(f, I!From(f, v, s))
BY SimpleCalls DEF I!From
LEMMA ValidGood ==
  ASSUME NEW f, NEW ok, NEW s
  PROVE  GoodCall(f, s) => GoodCall(f, I!Valid(ok, s))
BY SimpleCalls DEF I!Valid

LEMMA HomePlain ==
  ASSUME NEW f, NEW p \in BOOLEAN, NEW v, NEW l, NEW x, NEW y, NEW z, NEW q \in BOOLEAN
  PROVE  /\ GoodCall(f, I!BsensorRptSet(f)) /\ GoodCall(f, I!SensorRptSet(f))
         /\ GoodCall(f, I!SensorSupCacheGet(f)) /\ GoodCall(f, I!MeterRptSet(f))
         /\ GoodCall(f, I!MeterReset(f)) /\ GoodCall(f, I!MeterSetAdmin(f))
         /\ GoodCall(f, I!PulsemeterRptSet(f)) /\ GoodCall(f, I!PulsemeterGet(f))
         /\ GoodCall(f, I!ConfigSet(f, v)) /\ GoodCall(f, I!ConfigRptSet(f)) /\ GoodCall(f, I!ConfigGet(f))
         /\ GoodCall(f, I!LevelSet(f, v)) /\ GoodCall(f, I!LevelStart(f, l, q, x, y, z))
         /\ GoodCall(f, I!LevelStop(f)) /\ GoodCall(f, I!LevelRptSet(f))
         /\ GoodCall(f, I!SwitchSet(f)) /\ GoodCall(f, I!SwitchRptSet(f))
         /\ GoodCall(f, I!BsensorGet(f, p)) /\ GoodCall(f, I!MeterGet(f, p))
         /\ GoodCall(f, I!LevelGet(f, p)) /\ GoodCall(f, I!SwitchGet(f, p))
BY SimpleCalls, OfGood, FromGood, ValidGood
   DEF I!BsensorRptSet, I!SensorRptSet, I!SensorSupCacheGet, I!MeterRptSet, I!MeterReset,
       I!MeterSetAdmin, I!PulsemeterRptSet, I!PulsemeterGet, I!ConfigSet, I!ConfigRptSet, I!ConfigGet,
       I!LevelSet, I!LevelStart, I!LevelStop, I!LevelRptSet, I!SwitchSet, I!SwitchRptSet,
       I!BsensorGet, I!MeterGet, I!LevelGet, I!SwitchGet

LEMMA HomeAsks ==
  ASSUME NEW f, NEW n
  PROVE  /\ GoodCall(f, I!SensorSupGet(f)) /\ GoodCall(f, I!SensorUnitGet(f, n)) 
         /\ GoodCall(f, I!MeterSupGet(f)) /\ GoodCall(f, I!MeterGetDesc(f)) /\ GoodCall(f, I!AvCaps(f))
         /\ GoodCall(f, I!LevelSupGet(f))
<1>1. /\ I!Answer("SENSOR_MULTILEVEL", "SENSOR_SUPPORTED_GET_SENSOR") = "SENSOR_SUPPORTED_SENSOR_REPORT"
      /\ I!Answer("SENSOR_MULTILEVEL", "SENSOR_SUPPORTED_GET_SCALE") = "SENSOR_SUPPORTED_SCALE_REPORT"
      /\ I!Answer("METER", "METER_SUPPORTED_GET") = "METER_SUPPORTED_REPORT"
      /\ I!Answer("METER_TBL_MONITOR", "METER_TBL_TABLE_ID_GET") = "METER_TBL_TABLE_ID_REPORT"
      /\ I!Answer("SIMPLE_AV_CONTROL", "SIMPLE_AV_CONTROL_GET") = "SIMPLE_AV_CONTROL_REPORT"
      /\ I!Answer("SWITCH_MULTILEVEL", "SWITCH_MULTILEVEL_SUPPORTED_GET")
           = "SWITCH_MULTILEVEL_SUPPORTED_REPORT"
  BY SMT DEF I!Answer, I!cmd_get_resp_tbl
<1>2. GoodCall(f, I!SensorSupGet(f)) /\ GoodCall(f, I!SensorUnitGet(f, n)) /\ GoodCall(f, I!MeterSupGet(f))
      /\ GoodCall(f, I!LevelSupGet(f))
  BY <1>1, AskCall, CachedAskCall, OfGood, FromGood, ValidGood
     DEF I!SensorSupGet, I!SensorUnitGet, I!MeterSupGet, I!LevelSupGet
<1>3. GoodCall(f, I!MeterGetDesc(f)) /\ GoodCall(f, I!AvCaps(f))
  BY <1>1, CachedCalls, OfGood DEF I!MeterGetDesc, I!AvCaps
<1> QED
  BY <1>2, <1>3
LEMMA HomeOthers ==
  ASSUME NEW f, NEW p \in BOOLEAN
  PROVE  /\ GoodCall(f, I!NamelocSet(f)) /\ GoodCall(f, I!SensorGet(f, 1, 0, p))
         /\ "late" \in Faults => GoodCall(f, I!SensorGet(f, 1, 4, FALSE))
<1>1. GoodCall(f, I!NamelocSet(f))
  <2> DEFINE a == I!Send("NODE_NAME_SET")
             b == I!Send("NODE_LOCATION_SET")
  <2>1. I!Set("NODE_NAME_SET") \o I!Set("NODE_LOCATION_SET") = <<I!Id, a, I!Id, b>>
    BY Joined DEF I!Set
  <2>2. a.do = "exec" /\ b.do = "exec" /\ I!Id.do = "cmd_id"
    BY StepsAre, PlainSteps
  <2> HIDE DEF a, b
  <2>3. GoodCall(f, <<I!Id, a, I!Id, b>>)
    BY <2>2, CallOf4
  <2> QED
    BY <2>1, <2>3, OfGood DEF I!NamelocSet
<1>2. GoodCall(f, I!SensorGet(f, 1, 0, p))
  <2>1. ~ (f.ver >= 5 /\ 1 # 0 /\ 0 > 3)
    OBVIOUS
  <2> QED
    BY <2>1, SimpleCalls, OfGood DEF I!SensorGet
<1>3. ASSUME "late" \in Faults PROVE GoodCall(f, I!SensorGet(f, 1, 4, FALSE))
  BY <1>3, SimpleCalls, LateCalls, OfGood DEF I!SensorGet
<1> QED
  BY <1>1, <1>2, <1>3

LEMMA HomeSetsGood ==
  ASSUME NEW f, NEW s \in I!HomeSets(f)
  PROVE  GoodCall(f, s)
<1>1. CASE s \in {I!NamelocSet(f), I!BsensorRptSet(f), I!SensorRptSet(f), I!SensorSupGet(f),
                   I!SensorSupCacheGet(f), I!SensorUnitGet(f, 0)}
  BY <1>1, HomePlain, HomeAsks, HomeOthers
<1>2. CASE s \in {I!SensorUnitGet(f, 1), I!MeterRptSet(f), I!MeterSupGet(f), I!MeterReset(f),
                   I!MeterSetAdmin(f), I!MeterGetDesc(f)}
  BY <1>2, HomePlain, HomeAsks, HomeOthers
<1>3. CASE s \in {I!PulsemeterRptSet(f), I!PulsemeterGet(f), I!AvCaps(f), I!ConfigSet(f, 2),
                   I!ConfigSet(f, 3), I!ConfigRptSet(f)}
  BY <1>3, HomePlain, HomeAsks, HomeOthers
<1>4. CASE s \in {I!ConfigGet(f), I!LevelStart(f, 0, TRUE, 0, 0, 0),
                   I!LevelStart(f, 0, FALSE, 2, 0, 0), I!LevelStop(f), I!LevelRptSet(f),
                   I!LevelSupGet(f)}
  BY <1>4, HomePlain, HomeAsks, HomeOthers
<1>5. CASE s \in {I!SwitchSet(f), I!SwitchRptSet(f)}
  BY <1>5, HomePlain, HomeAsks, HomeOthers
<1>6. CASE s \in {I!LevelSet(f, 99), I!LevelSet(f, 100)}
  <2>1. \E u : s = I!LevelSet(f, u)
    BY <1>6, SMT
  <2> QED
    BY <2>1, HomePlain
<1>7. \/ s \in {I!NamelocSet(f), I!BsensorRptSet(f), I!SensorRptSet(f), I!SensorSupGet(f),
                I!SensorSupCacheGet(f), I!SensorUnitGet(f, 0)}
      \/ s \in {I!SensorUnitGet(f, 1), I!MeterRptSet(f), I!MeterSupGet(f), I!MeterReset(f),
                I!MeterSetAdmin(f), I!MeterGetDesc(f)}
      \/ s \in {I!PulsemeterRptSet(f), I!PulsemeterGet(f), I!AvCaps(f), I!ConfigSet(f, 2),
                I!ConfigSet(f, 3), I!ConfigRptSet(f)}
      \/ s \in {I!ConfigGet(f), I!LevelStart(f, 0, TRUE, 0, 0, 0),
                I!LevelStart(f, 0, FALSE, 2, 0, 0), I!LevelStop(f), I!LevelRptSet(f),
                I!LevelSupGet(f)}
      \/ s \in {I!SwitchSet(f), I!SwitchRptSet(f)}
      \/ s \in {I!LevelSet(f, 99), I!LevelSet(f, 100)}
  BY Zenon DEF I!HomeSets
<1> QED
  BY <1>1, <1>2, <1>3, <1>4, <1>5, <1>6, <1>7

LEMMA HomeGetsGood ==
  ASSUME NEW f, NEW p \in BOOLEAN, NEW s \in I!HomeGets(f, p)
  PROVE  GoodCall(f, s)
<1>1. \/ s = I!BsensorGet(f, p)
      \/ s = I!SensorGet(f, 1, 0, p)
      \/ s = I!MeterGet(f, p)
      \/ s = I!LevelGet(f, p)
      \/ s = I!SwitchGet(f, p)
  BY DEF I!HomeGets
<1> QED
  BY <1>1, HomePlain, HomeAsks, HomeOthers

LEMMA HomeGood ==
  ASSUME NEW f, NEW s \in I!HomeCalls(f)
  PROVE  GoodCall(f, s)
<1>1. \/ s \in I!HomeSets(f) \/ s \in I!HomeGets(f, TRUE) \/ s \in I!HomeGets(f, FALSE)
      \/ s \in I!HomeLate(f)
  BY DEF I!HomeCalls
<1>2. ASSUME s \in I!HomeLate(f) PROVE GoodCall(f, s)
  BY <1>2, HomeOthers DEF I!HomeLate
<1> QED
  BY <1>1, <1>2, HomeSetsGood, HomeGetsGood
LEMMA GroupsGood ==
  ASSUME NEW f, NEW s
  PROVE  (f.cls \in {"ASSOCIATION", "MULTI_CHANNEL_ASSOCIATION"} => GoodCall(f, s)) =>
           GoodCall(f, I!OfGroups(f, s))
BY SimpleCalls DEF I!OfGroups

LEMMA AdminPlain ==
  ASSUME NEW f, NEW p \in BOOLEAN, NEW u, NEW v, NEW w, NEW q \in BOOLEAN
  PROVE  /\ GoodCall(f, I!GroupCmdSet(f, u, v)) /\ GoodCall(f, I!GroupInfoGet(f))
         /\ GoodCall(f, I!WakeupSet(f, u)) /\ GoodCall(f, I!BasicSet(f))
         /\ GoodCall(f, I!BasicRptSet(f)) /\ GoodCall(f, I!DlckOpSet(f, u))
         /\ GoodCall(f, I!DlckOpRptSet(f)) /\ GoodCall(f, I!DlckCfgSet(f, u, v, w))
         /\ GoodCall(f, I!UsrcodSet(f, u, v, q)) /\ GoodCall(f, I!AlrmRptSet(f))
         /\ GoodCall(f, I!AlrmSet(f)) /\ GoodCall(f, I!BatteryRptSet(f))
         /\ GoodCall(f, I!PowerLevelRptSet(f)) /\ GoodCall(f, I!PowerLevelTestRptSet(f))
         /\ GoodCall(f, I!PowerLevelGet(f)) /\ GoodCall(f, I!PowerLevelSet(f, u, v))
         /\ GoodCall(f, I!PowerLevelTestGet(f)) /\ GoodCall(f, I!PowerLevelTestSet(f, u, v, w))
         /\ GoodCall(f, I!DrlogRecGet(f)) /\ GoodCall(f, I!BasicGet(f, p))
         /\ GoodCall(f, I!DlckOpGet(f, p)) /\ GoodCall(f, I!AlrmGet(f, p))
         /\ GoodCall(f, I!BatteryGet(f, p))
<1>1. /\ GoodCall(f, I!GroupCmdSet(f, u, v)) /\ GoodCall(f, I!GroupInfoGet(f))
      /\ GoodCall(f, I!BasicSet(f))
      /\ GoodCall(f, I!BasicRptSet(f)) /\ GoodCall(f, I!DlckOpSet(f, u))
  BY SimpleCalls, OfGood, FromGood, ValidGood
     DEF I!GroupCmdSet, I!GroupInfoGet, I!BasicSet, I!BasicRptSet, I!DlckOpSet
<1>2. /\ GoodCall(f, I!DlckOpRptSet(f)) /\ GoodCall(f, I!DlckCfgSet(f, u, v, w))
      /\ GoodCall(f, I!UsrcodSet(f, u, v, q)) /\ GoodCall(f, I!AlrmRptSet(f))
      /\ GoodCall(f, I!AlrmSet(f)) /\ GoodCall(f, I!BatteryRptSet(f))
  BY SimpleCalls, OfGood, FromGood, ValidGood
     DEF I!DlckOpRptSet, I!DlckCfgSet, I!UsrcodSet, I!AlrmRptSet, I!AlrmSet, I!BatteryRptSet
<1>3. /\ GoodCall(f, I!PowerLevelRptSet(f)) /\ GoodCall(f, I!PowerLevelTestRptSet(f))
      /\ GoodCall(f, I!PowerLevelGet(f)) /\ GoodCall(f, I!PowerLevelSet(f, u, v))
      /\ GoodCall(f, I!PowerLevelTestGet(f)) /\ GoodCall(f, I!PowerLevelTestSet(f, u, v, w))
  BY SimpleCalls, OfGood, FromGood, ValidGood
     DEF I!PowerLevelRptSet, I!PowerLevelTestRptSet, I!PowerLevelGet, I!PowerLevelSet,
         I!PowerLevelTestGet, I!PowerLevelTestSet
<1>4. /\ GoodCall(f, I!DrlogRecGet(f)) /\ GoodCall(f, I!BasicGet(f, p))
      /\ GoodCall(f, I!DlckOpGet(f, p)) /\ GoodCall(f, I!AlrmGet(f, p))
      /\ GoodCall(f, I!BatteryGet(f, p))
  BY SimpleCalls, OfGood, FromGood, ValidGood
     DEF I!DrlogRecGet, I!BasicGet, I!DlckOpGet, I!AlrmGet, I!BatteryGet
<1>8. GoodCall(f, I!WakeupSet(f, u))
  <2>1. \E ok : I!WakeupSet(f, u) = I!Of(f, "WAKE_UP", I!Valid(ok, I!Set("WAKE_UP_INTERVAL_SET")))
    BY SMT DEF I!WakeupSet
  <2> QED
    BY <2>1, SimpleCalls, OfGood, ValidGood
<1> QED
  BY <1>8, <1>1, <1>2, <1>3, <1>4

LEMMA GroupAsks ==
  ASSUME NEW f, NEW u, NEW v
  PROVE  /\ GoodCall(f, I!GroupGet(f, u)) /\ GoodCall(f, I!GroupSupGet(f))
         /\ GoodCall(f, I!GroupActvGet(f)) /\ GoodCall(f, I!GroupCmdSupGet(f))
         /\ GoodCall(f, I!GroupCmdGet(f, u, v))
<1>1. /\ I!Answer("ASSOCIATION", "ASSOCIATION_GET") = "ASSOCIATION_REPORT"
      /\ I!Answer("ASSOCIATION", "ASSOCIATION_GROUPINGS_GET") = "ASSOCIATION_GROUPINGS_REPORT"
      /\ I!Answer("ASSOCIATION", "ASSOCIATION_SPECIFIC_GROUP_GET") = "ASSOCIATION_SPECIFIC_GROUP_REPORT"
      /\ I!Answer("MULTI_CHANNEL_ASSOCIATION", "ASSOCIATION_GET") = "ASSOCIATION_REPORT"
      /\ I!Answer("MULTI_CHANNEL_ASSOCIATION", "ASSOCIATION_GROUPINGS_GET") = "ASSOCIATION_GROUPINGS_REPORT"
      /\ I!Answer("ASSOCIATION_COMMAND_CONFIGURATION", "COMMAND_RECORDS_SUPPORTED_GET")
           = "COMMAND_RECORDS_SUPPORTED_REPORT"
      /\ I!Answer("ASSOCIATION_COMMAND_CONFIGURATION", "COMMAND_CONFIGURATION_GET")
           = "COMMAND_CONFIGURATION_REPORT"
  BY SMT DEF I!Answer, I!cmd_get_resp_tbl
<1>2. GoodCall(f, I!GroupGet(f, u)) /\ GoodCall(f, I!GroupSupGet(f))
  <2>1. f.cls \in {"ASSOCIATION", "MULTI_CHANNEL_ASSOCIATION"} =>
          /\ GoodCall(f, I!Ask("ASSOCIATION_REPORT", "ASSOCIATION_GET"))
          /\ GoodCall(f, <<I!Cached("MAX_GROUP")>> \o
                         I!Ask("ASSOCIATION_GROUPINGS_REPORT", "ASSOCIATION_GROUPINGS_GET"))
    BY <1>1, AskCall, CachedAskCall
  <2> QED
    BY <2>1, GroupsGood, ValidGood DEF I!GroupGet, I!GroupSupGet
<1>3. GoodCall(f, I!GroupActvGet(f)) /\ GoodCall(f, I!GroupCmdSupGet(f)) /\ GoodCall(f, I!GroupCmdGet(f, u, v))
  BY <1>1, AskCall, CachedAskCall, TryAskCall, OfGood, FromGood, ValidGood
     DEF I!GroupActvGet, I!GroupCmdSupGet, I!GroupCmdGet
<1> QED
  BY <1>2, <1>3

LEMMA AdminAsks ==
  ASSUME NEW f, NEW u, NEW q \in BOOLEAN
  PROVE  /\ GoodCall(f, I!WakeupGet(f)) /\ GoodCall(f, I!DlckCfgGet(f)) /\ GoodCall(f, I!UsrcodGet(f, u))
         /\ GoodCall(f, I!UsrcodSupGet(f)) /\ GoodCall(f, I!AlrmSupGet(f))
         /\ GoodCall(f, I!AlrmSupEvtGet(f, q)) /\ GoodCall(f, I!DrlogRecSupGet(f))
         /\ GoodCall(f, I!FwInfoGet(f))
<1>1. /\ I!Answer("WAKE_UP", "WAKE_UP_INTERVAL_GET") = "WAKE_UP_INTERVAL_REPORT"
      /\ I!Answer("DOOR_LOCK", "DOOR_LOCK_CONFIGURATION_GET") = "DOOR_LOCK_CONFIGURATION_REPORT"
      /\ I!Answer("USER_CODE", "USER_CODE_GET") = "USER_CODE_REPORT"
      /\ I!Answer("USER_CODE", "USERS_NUMBER_GET") = "USERS_NUMBER_REPORT"
      /\ I!Answer("ALARM", "ALARM_TYPE_SUPPORTED_GET") = "ALARM_TYPE_SUPPORTED_REPORT"
      /\ I!Answer("ALARM", "EVENT_SUPPORTED_GET") = "EVENT_SUPPORTED_REPORT"
      /\ I!Answer("DOOR_LOCK_LOGGING", "RECORDS_SUPPORTED_GET") = "RECORDS_SUPPORTED_REPORT"
      /\ I!Answer("FIRMWARE_UPDATE_MD", "FIRMWARE_MD_GET") = "FIRMWARE_MD_REPORT"
  <2>1. I!Answer("WAKE_UP", "WAKE_UP_INTERVAL_GET") = "WAKE_UP_INTERVAL_REPORT"
    BY SMT DEF I!Answer, I!cmd_get_resp_tbl
  <2>2. I!Answer("DOOR_LOCK", "DOOR_LOCK_CONFIGURATION_GET") = "DOOR_LOCK_CONFIGURATION_REPORT"
    BY SMT DEF I!Answer, I!cmd_get_resp_tbl
  <2>3. I!Answer("USER_CODE", "USER_CODE_GET") = "USER_CODE_REPORT"
    BY SMT DEF I!Answer, I!cmd_get_resp_tbl
  <2>4. I!Answer("USER_CODE", "USERS_NUMBER_GET") = "USERS_NUMBER_REPORT"
    BY SMT DEF I!Answer, I!cmd_get_resp_tbl
  <2>5. I!Answer("ALARM", "ALARM_TYPE_SUPPORTED_GET") = "ALARM_TYPE_SUPPORTED_REPORT"
    BY SMT DEF I!Answer, I!cmd_get_resp_tbl
  <2>6. I!Answer("ALARM", "EVENT_SUPPORTED_GET") = "EVENT_SUPPORTED_REPORT"
    BY SMT DEF I!Answer, I!cmd_get_resp_tbl
  <2>7. I!Answer("DOOR_LOCK_LOGGING", "RECORDS_SUPPORTED_GET") = "RECORDS_SUPPORTED_REPORT"
    BY SMT DEF I!Answer, I!cmd_get_resp_tbl
  <2>8. I!Answer("FIRMWARE_UPDATE_MD", "FIRMWARE_MD_GET") = "FIRMWARE_MD_REPORT"
    BY SMT DEF I!Answer, I!cmd_get_resp_tbl
  <2> QED
    BY <2>1, <2>2, <2>3, <2>4, <2>5, <2>6, <2>7, <2>8
<1>2. GoodCall(f, I!WakeupGet(f)) /\ GoodCall(f, I!DlckCfgGet(f)) /\ GoodCall(f, I!UsrcodGet(f, u))
      /\ GoodCall(f, I!UsrcodSupGet(f))
  BY <1>1, AskCall, CachedAskCall, TryAskCall, OfGood, FromGood, ValidGood
     DEF I!WakeupGet, I!DlckCfgGet, I!UsrcodGet, I!UsrcodSupGet
<1>3. GoodCall(f, I!AlrmSupGet(f)) /\ GoodCall(f, I!DrlogRecSupGet(f)) /\ GoodCall(f, I!FwInfoGet(f))
  BY <1>1, AskCall, CachedAskCall, TryAskCall, OfGood, FromGood, ValidGood
     DEF I!AlrmSupGet, I!DrlogRecSupGet, I!FwInfoGet
<1>4. GoodCall(f, I!AlrmSupEvtGet(f, q))
  <2> DEFINE ask == I!Ask("EVENT_SUPPORTED_REPORT", "EVENT_SUPPORTED_GET")
  <2>1. f.cls = "ALARM" => /\ GoodCall(f, << >> \o ask)
                           /\ GoodCall(f, <<I!Cached("ALARM_EVENT")>> \o ask)
    BY <1>1, AskForms
  <2> HIDE DEF ask
  <2> QED
    BY <2>1, SimpleCalls DEF I!AlrmSupEvtGet, I!Of, I!From, ask
<1> QED
  BY <1>2, <1>3, <1>4

LEMMA AdminSetsGood ==
  ASSUME NEW f, NEW s \in I!AdminSets(f)
  PROVE  GoodCall(f, s)
<1>1. CASE s \in {I!GroupGet(f, 0), I!GroupGet(f, 1), I!GroupSupGet(f), I!GroupActvGet(f),
                   I!GroupCmdSupGet(f), I!GroupCmdSet(f, 1, 2)}
  BY <1>1, AdminPlain, GroupAsks, AdminAsks
<1>2. CASE s \in {I!GroupCmdGet(f, 1, 2), I!GroupInfoGet(f), I!WakeupSet(f, I!anHour),
                   I!WakeupGet(f), I!BasicSet(f), I!BasicRptSet(f)}
  BY <1>2, AdminPlain, GroupAsks, AdminAsks
<1>3. CASE s \in {I!DlckOpRptSet(f), I!DlckCfgSet(f, "const", 0, 0),
                   I!DlckCfgSet(f, "timed", 0, 0), I!DlckCfgGet(f), I!UsrcodSet(f, 1, 4, TRUE),
                   I!UsrcodSet(f, 1, 3, TRUE)}
  BY <1>3, AdminPlain, GroupAsks, AdminAsks
<1>4. CASE s \in {I!UsrcodGet(f, 1), I!UsrcodSupGet(f), I!AlrmRptSet(f), I!AlrmSet(f),
                   I!AlrmSupGet(f), I!AlrmSupEvtGet(f, FALSE)}
  BY <1>4, AdminPlain, GroupAsks, AdminAsks
<1>5. CASE s \in {I!AlrmSupEvtGet(f, TRUE), I!BatteryRptSet(f), I!PowerLevelRptSet(f),
                   I!PowerLevelTestRptSet(f), I!PowerLevelGet(f), I!PowerLevelSet(f, 1, 1)}
  BY <1>5, AdminPlain, GroupAsks, AdminAsks
<1>6. CASE s \in {I!PowerLevelSet(f, 1, 0), I!PowerLevelTestGet(f),
                   I!PowerLevelTestSet(f, 2, 1, 10), I!DrlogRecSupGet(f), I!DrlogRecGet(f),
                   I!FwInfoGet(f)}
  BY <1>6, AdminPlain, GroupAsks, AdminAsks
<1>7. CASE s \in {I!DlckOpSet(f, 255), I!DlckOpSet(f, 2)}
  <2>1. \E u : s = I!DlckOpSet(f, u)
    BY <1>7, SMT
  <2> QED
    BY <2>1, AdminPlain
<1>8. \/ s \in {I!GroupGet(f, 0), I!GroupGet(f, 1), I!GroupSupGet(f), I!GroupActvGet(f),
                I!GroupCmdSupGet(f), I!GroupCmdSet(f, 1, 2)}
      \/ s \in {I!GroupCmdGet(f, 1, 2), I!GroupInfoGet(f), I!WakeupSet(f, I!anHour),
                I!WakeupGet(f), I!BasicSet(f), I!BasicRptSet(f)}
      \/ s \in {I!DlckOpRptSet(f), I!DlckCfgSet(f, "const", 0, 0),
                I!DlckCfgSet(f, "timed", 0, 0), I!DlckCfgGet(f), I!UsrcodSet(f, 1, 4, TRUE),
                I!UsrcodSet(f, 1, 3, TRUE)}
      \/ s \in {I!UsrcodGet(f, 1), I!UsrcodSupGet(f), I!AlrmRptSet(f), I!AlrmSet(f),
                I!AlrmSupGet(f), I!AlrmSupEvtGet(f, FALSE)}
      \/ s \in {I!AlrmSupEvtGet(f, TRUE), I!BatteryRptSet(f), I!PowerLevelRptSet(f),
                I!PowerLevelTestRptSet(f), I!PowerLevelGet(f), I!PowerLevelSet(f, 1, 1)}
      \/ s \in {I!PowerLevelSet(f, 1, 0), I!PowerLevelTestGet(f),
                I!PowerLevelTestSet(f, 2, 1, 10), I!DrlogRecSupGet(f), I!DrlogRecGet(f),
                I!FwInfoGet(f)}
      \/ s \in {I!DlckOpSet(f, 255), I!DlckOpSet(f, 2)}
  BY Zenon DEF I!AdminSets
<1> QED
  BY <1>1, <1>2, <1>3, <1>4, <1>5, <1>6, <1>7, <1>8

LEMMA AdminGetsGood ==
  ASSUME NEW f, NEW p \in BOOLEAN, NEW s \in I!AdminGets(f, p)
  PROVE  GoodCall(f, s)
<1>1. \/ s = I!BasicGet(f, p)
      \/ s = I!DlckOpGet(f, p)
      \/ s = I!AlrmGet(f, p)
      \/ s = I!BatteryGet(f, p)
  BY DEF I!AdminGets
<1> QED
  BY <1>1, AdminPlain, GroupAsks, AdminAsks

\* Members are added and removed with the identifier set before memory is allocated.
LEMMA GroupChanges ==
  ASSUME NEW f, NEW u, NEW e, NEW s \in {I!GroupAdd(f, u, e), I!GroupDel(f, u, e)}, s # << >>,
         "late" \in Faults \/ \A i \in DOMAIN s : s[i] # I!Refused("WRONG_IF")[1]
  PROVE  GoodCall(f, s)
<1> DEFINE late == <<I!Id>> \o I!Refused("WRONG_IF")
           cmds == {I!AddCmd("MULTI_CHANNEL_ASSOCIATION_SET", e), I!AddCmd("ASSOCIATION_SET", e),
                    I!Send("MULTI_CHANNEL_ASSOCIATION_REMOVE"), I!Send("ASSOCIATION_REMOVE")}
<1>1. \/ \E x : s = I!Refused(x)
      \/ s = late
      \/ \E c \in cmds : s = <<I!Id>> \o <<I!Alloc, c>>
  BY DEF I!GroupAdd, I!GroupDel, I!GroupCall, I!OfGroups, I!Valid, I!GroupMcAdd, I!GroupMcDel
<1>2. ASSUME NEW c \in cmds PROVE GoodCall(f, <<I!Id>> \o <<I!Alloc, c>>)
  <2>1. c.do \in {"exec", "exec_rr"}
    BY StepsAre DEF I!AddCmd
  <2> HIDE DEF cmds
  <2>2. GoodCall(f, <<I!Id, I!Alloc, c>>)
    BY <2>1, PlainSteps, CallOf3
  <2>3. <<I!Id>> \o <<I!Alloc, c>> = <<I!Id, I!Alloc, c>>
    BY Joined
  <2> QED
    BY <2>2, <2>3
<1>3. ASSUME s = late PROVE GoodCall(f, s)
  <2>1. late = <<I!Id, I!Refused("WRONG_IF")[1]>>
    BY Joined DEF I!Refused
  <2>2. "late" \in Faults
    BY <1>3, <2>1
  <2> QED
    BY <1>3, <2>2, LateCalls
<1> HIDE DEF late, cmds
<1> QED
  BY <1>1, <1>2, <1>3, SimpleCalls

LEMMA AdminGood ==
  ASSUME NEW f, NEW s \in I!AdminCalls(f), s # << >>
  PROVE  GoodCall(f, s)
<1>1. \/ s \in I!AdminSets(f) \/ s \in I!AdminGets(f, TRUE) \/ s \in I!AdminGets(f, FALSE)
      \/ s \in I!GroupChanges(f)
  BY DEF I!AdminCalls
<1>2. ASSUME s \in I!GroupChanges(f) PROVE GoodCall(f, s)
  <2>1. PICK e : s \in {I!GroupAdd(f, 1, e), I!GroupDel(f, 1, e)}
    BY <1>2 DEF I!GroupChanges
  <2>2. "late" \in Faults \/ \A i \in DOMAIN s : s[i] # I!Refused("WRONG_IF")[1]
    BY <1>2 DEF I!GroupChanges
  <2> QED
    BY <2>1, <2>2, GroupChanges
<1> QED
  BY <1>1, <1>2, AdminSetsGood, AdminGetsGood

LEMMA ClimatePlain ==
  ASSUME NEW f, NEW p \in BOOLEAN, NEW q \in BOOLEAN, NEW u, NEW v, NEW w
  PROVE  /\ GoodCall(f, I!ThrmoFanMdRptSet(f)) /\ GoodCall(f, I!ThrmoFanMdGet(f))
         /\ GoodCall(f, I!ThrmoFanMdSet(f, q)) /\ GoodCall(f, I!ThrmoFanStaRptSet(f))
         /\ GoodCall(f, I!ThrmoFanStaGet(f)) /\ GoodCall(f, I!ThrmoMdRptSet(f))
         /\ GoodCall(f, I!ThrmoMdGet(f)) /\ GoodCall(f, I!ThrmoMdSet(f))
         /\ GoodCall(f, I!ThrmoOpStaRptSet(f)) /\ GoodCall(f, I!ThrmoOpStaGet(f))
         /\ GoodCall(f, I!ThrmoSetbRptSet(f)) /\ GoodCall(f, I!ThrmoSetbGet(f))
         /\ GoodCall(f, I!ThrmoSetbSet(f, u, v, w)) /\ GoodCall(f, I!ThrmoSetpRptSet(f))
         /\ GoodCall(f, I!ThrmoSetpSet(f, u, v, w)) /\ GoodCall(f, I!ThrmoSetpGet(f, p))
         /\ GoodCall(f, I!ClockSet(f, u, v, w)) /\ GoodCall(f, I!ClockRptSet(f))
         /\ GoodCall(f, I!ClockGet(f)) /\ GoodCall(f, I!ClmtCtlSchdRptSet(f))
         /\ GoodCall(f, I!ClmtCtlSchdGet(f, u)) /\ GoodCall(f, I!ClmtCtlSchdSet(f, u, v))
         /\ GoodCall(f, I!ClmtCtlSchdChgRptSet(f)) /\ GoodCall(f, I!ClmtCtlSchdChgGet(f, p))
         /\ GoodCall(f, I!ClmtCtlSchdOvrRptSet(f)) /\ GoodCall(f, I!ClmtCtlSchdOvrGet(f))
         /\ GoodCall(f, I!ClmtCtlSchdOvrSet(f, u, v, w)) /\ GoodCall(f, I!ProtRptSet(f))
         /\ GoodCall(f, I!ProtGet(f, p)) /\ GoodCall(f, I!ProtSet(f, u, v))
         /\ GoodCall(f, I!ProtEcRptSet(f)) /\ GoodCall(f, I!ProtEcGet(f))
         /\ GoodCall(f, I!ProtEcSet(f, u)) /\ GoodCall(f, I!ProtTmoutRptSet(f))
         /\ GoodCall(f, I!ProtTmoutGet(f)) /\ GoodCall(f, I!ProtTmoutSet(f, u))
         /\ GoodCall(f, I!ApplBusyRepSet(f)) /\ GoodCall(f, I!ApplRejectRepSet(f))
         /\ GoodCall(f, I!IndRptSet(f)) /\ GoodCall(f, I!IndGet(f, p)) /\ GoodCall(f, I!IndSet(f, u))
<1>1. /\ GoodCall(f, I!ThrmoFanMdRptSet(f)) /\ GoodCall(f, I!ThrmoFanMdGet(f))
      /\ GoodCall(f, I!ThrmoFanMdSet(f, q)) /\ GoodCall(f, I!ThrmoFanStaRptSet(f))
      /\ GoodCall(f, I!ThrmoFanStaGet(f)) /\ GoodCall(f, I!ThrmoMdRptSet(f))
      /\ GoodCall(f, I!ThrmoMdGet(f)) /\ GoodCall(f, I!ThrmoMdSet(f))
      /\ GoodCall(f, I!ThrmoOpStaRptSet(f)) /\ GoodCall(f, I!ThrmoOpStaGet(f))
  BY SimpleCalls, OfGood, FromGood
     DEF I!ThrmoFanMdRptSet, I!ThrmoFanMdGet, I!ThrmoFanMdSet, I!ThrmoFanStaRptSet, I!ThrmoFanStaGet,
         I!ThrmoMdRptSet, I!ThrmoMdGet, I!ThrmoMdSet, I!ThrmoOpStaRptSet, I!ThrmoOpStaGet
<1>2. /\ GoodCall(f, I!ThrmoSetbRptSet(f)) /\ GoodCall(f, I!ThrmoSetbGet(f))
      /\ GoodCall(f, I!ThrmoSetbSet(f, u, v, w)) /\ GoodCall(f, I!ThrmoSetpRptSet(f))
      /\ GoodCall(f, I!ThrmoSetpSet(f, u, v, w)) /\ GoodCall(f, I!ThrmoSetpGet(f, p))
  BY SimpleCalls, OfGood, ValidGood
     DEF I!ThrmoSetbRptSet, I!ThrmoSetbGet, I!ThrmoSetbSet, I!ThrmoSetpRptSet, I!ThrmoSetpSet,
         I!ThrmoSetpGet
<1>3. /\ GoodCall(f, I!ClockSet(f, u, v, w)) /\ GoodCall(f, I!ClockRptSet(f))
      /\ GoodCall(f, I!ClockGet(f)) /\ GoodCall(f, I!ClmtCtlSchdRptSet(f))
      /\ GoodCall(f, I!ClmtCtlSchdGet(f, u)) /\ GoodCall(f, I!ClmtCtlSchdSet(f, u, v))
      /\ GoodCall(f, I!ClmtCtlSchdChgRptSet(f)) /\ GoodCall(f, I!ClmtCtlSchdChgGet(f, p))
      /\ GoodCall(f, I!ClmtCtlSchdOvrRptSet(f)) /\ GoodCall(f, I!ClmtCtlSchdOvrGet(f))
      /\ GoodCall(f, I!ClmtCtlSchdOvrSet(f, u, v, w))
  BY SimpleCalls, OfGood, ValidGood
     DEF I!ClockSet, I!ClockRptSet, I!ClockGet, I!ClmtCtlSchdRptSet, I!ClmtCtlSchdGet,
         I!ClmtCtlSchdSet, I!ClmtCtlSchdChgRptSet, I!ClmtCtlSchdChgGet, I!ClmtCtlSchdOvrRptSet,
         I!ClmtCtlSchdOvrGet, I!ClmtCtlSchdOvrSet
<1>4. /\ GoodCall(f, I!ProtRptSet(f)) /\ GoodCall(f, I!ProtGet(f, p)) /\ GoodCall(f, I!ProtSet(f, u, v))
      /\ GoodCall(f, I!ProtEcRptSet(f)) /\ GoodCall(f, I!ProtEcGet(f))
      /\ GoodCall(f, I!ProtTmoutRptSet(f)) /\ GoodCall(f, I!ProtTmoutGet(f))
      /\ GoodCall(f, I!ApplBusyRepSet(f)) /\ GoodCall(f, I!ApplRejectRepSet(f))
      /\ GoodCall(f, I!IndRptSet(f)) /\ GoodCall(f, I!IndGet(f, p))
  BY SimpleCalls, OfGood, FromGood, ValidGood
     DEF I!ProtRptSet, I!ProtGet, I!ProtSet, I!ProtEcRptSet, I!ProtEcGet, I!ProtTmoutRptSet,
         I!ProtTmoutGet, I!ApplBusyRepSet, I!ApplRejectRepSet, I!IndRptSet, I!IndGet
<1>5. GoodCall(f, I!ProtEcSet(f, u)) /\ GoodCall(f, I!ProtTmoutSet(f, u)) /\ GoodCall(f, I!IndSet(f, u))
  <2>1. \E ok : I!ProtEcSet(f, u)
                  = I!Of(f, "PROTECTION", I!From(f, 2, I!Valid(ok, I!Set("PROTECTION_EC_SET"))))
    BY SMT DEF I!ProtEcSet
  <2>2. \E ok : I!ProtTmoutSet(f, u)
                  = I!Of(f, "PROTECTION", I!From(f, 2, I!Valid(ok, I!Set("PROTECTION_TIMEOUT_SET"))))
    BY SMT DEF I!ProtTmoutSet
  <2>3. \E ok : I!IndSet(f, u) = I!Of(f, "INDICATOR", I!Valid(ok, I!Set("INDICATOR_SET")))
    BY SMT DEF I!IndSet
  <2> QED
    BY <2>1, <2>2, <2>3, SimpleCalls, OfGood, FromGood, ValidGood
<1> QED
  BY <1>1, <1>2, <1>3, <1>4, <1>5

LEMMA ClimateAsks ==
  ASSUME NEW f
  PROVE  /\ GoodCall(f, I!ThrmoFanMdSupGet(f)) /\ GoodCall(f, I!ThrmoMdSupGet(f))
         /\ GoodCall(f, I!ThrmoSetpSupGet(f)) /\ GoodCall(f, I!ProtSupGet(f))
<1>1. I!Answer("THERMOSTAT_FAN_MODE", "THERMOSTAT_FAN_MODE_SUPPORTED_GET")
        = "THERMOSTAT_FAN_MODE_SUPPORTED_REPORT"
  BY SMT DEF I!Answer, I!cmd_get_resp_tbl
<1>2. I!Answer("THERMOSTAT_MODE", "THERMOSTAT_MODE_SUPPORTED_GET") = "THERMOSTAT_MODE_SUPPORTED_REPORT"
  BY SMT DEF I!Answer, I!cmd_get_resp_tbl
<1>3. I!Answer("THERMOSTAT_SETPOINT", "THERMOSTAT_SETPOINT_SUPPORTED_GET")
        = "THERMOSTAT_SETPOINT_SUPPORTED_REPORT"
  BY SMT DEF I!Answer, I!cmd_get_resp_tbl
<1>4. I!Answer("PROTECTION", "PROTECTION_SUPPORTED_GET") = "PROTECTION_SUPPORTED_REPORT"
  BY SMT DEF I!Answer, I!cmd_get_resp_tbl
<1> QED
  BY <1>1, <1>2, <1>3, <1>4, CachedAskCall, OfGood, FromGood
     DEF I!ThrmoFanMdSupGet, I!ThrmoMdSupGet, I!ThrmoSetpSupGet, I!ProtSupGet

LEMMA ClimateSetsGood ==
  ASSUME NEW f, NEW s \in I!ClimateSets(f)
  PROVE  GoodCall(f, s)
<1>1. CASE s \in {I!ThrmoFanMdRptSet(f), I!ThrmoFanMdGet(f), I!ThrmoFanMdSet(f, TRUE),
                   I!ThrmoFanMdSupGet(f), I!ThrmoFanStaRptSet(f), I!ThrmoFanStaGet(f)}
  BY <1>1, ClimatePlain, ClimateAsks
<1>2. CASE s \in {I!ThrmoMdRptSet(f), I!ThrmoMdGet(f), I!ThrmoMdSet(f), I!ThrmoMdSupGet(f),
                   I!ThrmoOpStaRptSet(f), I!ThrmoOpStaGet(f)}
  BY <1>2, ClimatePlain, ClimateAsks
<1>3. CASE s \in {I!ThrmoSetbRptSet(f), I!ThrmoSetbGet(f), I!ThrmoSetpRptSet(f),
                   I!ThrmoSetpSet(f, 2, 1, 0), I!ThrmoSetpSet(f, 3, 1, 0), I!ThrmoSetpSupGet(f)}
  BY <1>3, ClimatePlain, ClimateAsks
<1>4. CASE s \in {I!ClockSet(f, 1, 12, 0), I!ClockSet(f, 8, 12, 0), I!ClockRptSet(f),
                   I!ClockGet(f), I!ClmtCtlSchdRptSet(f), I!ClmtCtlSchdGet(f, 1)}
  BY <1>4, ClimatePlain, ClimateAsks
<1>5. CASE s \in {I!ClmtCtlSchdGet(f, 0), I!ClmtCtlSchdChgRptSet(f),
                   I!ClmtCtlSchdOvrRptSet(f), I!ClmtCtlSchdOvrGet(f),
                   I!ClmtCtlSchdOvrSet(f, 1, "frost", 0), I!ProtRptSet(f)}
  BY <1>5, ClimatePlain, ClimateAsks
<1>6. CASE s \in {I!ProtSet(f, 1, 0), I!ProtSet(f, 1, 3), I!ProtSupGet(f), I!ProtEcRptSet(f),
                   I!ProtEcGet(f), I!ProtEcSet(f, 5)}
  BY <1>6, ClimatePlain, ClimateAsks
<1>7. CASE s \in {I!ProtTmoutRptSet(f), I!ProtTmoutGet(f), I!ApplBusyRepSet(f),
                   I!ApplRejectRepSet(f), I!IndRptSet(f)}
  BY <1>7, ClimatePlain, ClimateAsks
<1>8. CASE s \in {I!ThrmoSetbSet(f, 1, "setback", 120), I!ThrmoSetbSet(f, 1, "setback", 121)}
  <2>1. \E u, v, w : s = I!ThrmoSetbSet(f, u, v, w)
    BY <1>8, SMT
  <2> QED
    BY <2>1, ClimatePlain
<1>9. CASE s \in {I!ProtTmoutSet(f, 60), I!ProtTmoutSet(f, 61)}
  <2>1. \E u : s = I!ProtTmoutSet(f, u)
    BY <1>9, SMT
  <2> QED
    BY <2>1, ClimatePlain
<1>10. CASE s \in {I!IndSet(f, 255), I!IndSet(f, 100)}
  <2>1. \E u : s = I!IndSet(f, u)
    BY <1>10, SMT
  <2> QED
    BY <2>1, ClimatePlain
<1>11. \/ s \in {I!ThrmoFanMdRptSet(f), I!ThrmoFanMdGet(f), I!ThrmoFanMdSet(f, TRUE),
                I!ThrmoFanMdSupGet(f), I!ThrmoFanStaRptSet(f), I!ThrmoFanStaGet(f)}
      \/ s \in {I!ThrmoMdRptSet(f), I!ThrmoMdGet(f), I!ThrmoMdSet(f), I!ThrmoMdSupGet(f),
                I!ThrmoOpStaRptSet(f), I!ThrmoOpStaGet(f)}
      \/ s \in {I!ThrmoSetbRptSet(f), I!ThrmoSetbGet(f), I!ThrmoSetpRptSet(f),
                I!ThrmoSetpSet(f, 2, 1, 0), I!ThrmoSetpSet(f, 3, 1, 0), I!ThrmoSetpSupGet(f)}
      \/ s \in {I!ClockSet(f, 1, 12, 0), I!ClockSet(f, 8, 12, 0), I!ClockRptSet(f),
                I!ClockGet(f), I!ClmtCtlSchdRptSet(f), I!ClmtCtlSchdGet(f, 1)}
      \/ s \in {I!ClmtCtlSchdGet(f, 0), I!ClmtCtlSchdChgRptSet(f), I!ClmtCtlSchdOvrRptSet(f),
                I!ClmtCtlSchdOvrGet(f), I!ClmtCtlSchdOvrSet(f, 1, "frost", 0), I!ProtRptSet(f)}
      \/ s \in {I!ProtSet(f, 1, 0), I!ProtSet(f, 1, 3), I!ProtSupGet(f), I!ProtEcRptSet(f),
                I!ProtEcGet(f), I!ProtEcSet(f, 5)}
      \/ s \in {I!ProtTmoutRptSet(f), I!ProtTmoutGet(f), I!ApplBusyRepSet(f),
                I!ApplRejectRepSet(f), I!IndRptSet(f)}
      \/ s \in {I!ThrmoSetbSet(f, 1, "setback", 120), I!ThrmoSetbSet(f, 1, "setback", 121)}
      \/ s \in {I!ProtTmoutSet(f, 60), I!ProtTmoutSet(f, 61)}
      \/ s \in {I!IndSet(f, 255), I!IndSet(f, 100)}
  BY Zenon DEF I!ClimateSets
<1> QED
  BY <1>1, <1>2, <1>3, <1>4, <1>5, <1>6, <1>7, <1>8, <1>9, <1>10, <1>11

LEMMA ClimateGetsGood ==
  ASSUME NEW f, NEW p \in BOOLEAN, NEW s \in I!ClimateGets(f, p)
  PROVE  GoodCall(f, s)
<1>1. \/ s = I!ThrmoSetpGet(f, p)
      \/ s = I!ClmtCtlSchdChgGet(f, p)
      \/ s = I!ProtGet(f, p)
      \/ s = I!IndGet(f, p)
  BY DEF I!ClimateGets
<1> QED
  BY <1>1, ClimatePlain, ClimateAsks

LEMMA ClimateGood ==
  ASSUME NEW f, NEW s \in I!ClimateCalls(f)
  PROVE  GoodCall(f, s)
<1>1. \/ s \in I!ClimateSets(f) \/ s \in I!ClimateGets(f, TRUE) \/ s \in I!ClimateGets(f, FALSE)
      \/ \E p \in I!Points : s = I!ClmtCtlSchdSet(f, 1, p)
  BY DEF I!ClimateCalls
<1> QED
  BY <1>1, ClimateSetsGood, ClimateGetsGood, ClimatePlain

LEMMA CallsGood ==
  ASSUME NEW f, NEW s \in I!Calls(f), s # << >>
  PROVE  GoodCall(f, s)
<1>1. s \in I!HomeCalls(f) \/ s \in I!AdminCalls(f) \/ s \in I!ClimateCalls(f)
  BY DEF I!Calls
<1> QED
  BY <1>1, HomeGood, AdminGood, ClimateGood

\* The rest of a call after its first step.
LEMMA RestOf ==
  ASSUME NEW G, NEW s \in Seq(G), s # << >>
  PROVE  /\ Tail(s) \in Seq(G) /\ Len(s) \in Nat /\ Len(s) >= 1 /\ Len(Tail(s)) = Len(s) - 1
         /\ Head(s) = s[1] /\ \A k \in 1 .. Len(Tail(s)) : Tail(s)[k] = s[k + 1]
         /\ Len(s) = 1 => Tail(s) = << >>
<1>1. /\ Tail(s) \in Seq(G) /\ Len(Tail(s)) = Len(s) - 1
      /\ \A k \in 1 .. Len(Tail(s)) : Tail(s)[k] = s[k + 1]
  BY HeadTailProperties
<1>2. Len(s) \in Nat /\ Len(s) # 0
  BY EmptySeq, LenProperties
<1>3. ASSUME Len(s) = 1 PROVE Tail(s) = << >>
  <2>1. Len(Tail(s)) = 0
    BY <1>1, <1>3
  <2> QED
    BY <1>1, <2>1, EmptySeq
<1> QED
  BY <1>1, <1>2, <1>3

LEMMA RestTakes ==
  ASSUME NEW G, NEW s \in Seq(G), s # << >>, TakesId(s)
  PROVE  TakesId(Tail(s)) /\ (s[1].do = "cmd_id" => WillSend(Tail(s)))
<1> DEFINE r == Tail(s)
<1>1. /\ r \in Seq(G) /\ Len(s) \in Nat /\ Len(s) >= 1 /\ Len(r) = Len(s) - 1
      /\ \A k \in 1 .. Len(r) : r[k] = s[k + 1]
  BY RestOf
<1> HIDE DEF r
<1>2. ASSUME NEW i \in 1 .. Len(r), r[i].do = "cmd_id"
      PROVE  \E k \in i + 1 .. Len(r) : r[k].do \in Sending /\ \A j \in i + 1 .. k - 1 : r[j].do = "alloc"
  <2>1. i + 1 \in 1 .. Len(s) /\ s[i + 1].do = "cmd_id"
    BY <1>1, <1>2
  <2>2. PICK k \in i + 1 + 1 .. Len(s) :
               s[k].do \in Sending /\ \A j \in i + 1 + 1 .. k - 1 : s[j].do = "alloc"
    BY <2>1 DEF TakesId
  <2>3. k - 1 \in i + 1 .. Len(r) /\ r[k - 1] = s[k]
    BY <1>1, <2>2
  <2>4. ASSUME NEW j \in i + 1 .. (k - 1) - 1 PROVE r[j].do = "alloc"
    BY <1>1, <2>2, <2>3
  <2> QED
    BY <2>2, <2>3, <2>4
<1>3. ASSUME s[1].do = "cmd_id" PROVE WillSend(r)
  <2>1. PICK k \in 2 .. Len(s) : s[k].do \in Sending /\ \A j \in 2 .. k - 1 : s[j].do = "alloc"
    BY <1>1, <1>3 DEF TakesId
  <2>2. k - 1 \in 1 .. Len(r) /\ r[k - 1] = s[k]
    BY <1>1, <2>1
  <2>3. ASSUME NEW j \in 1 .. (k - 1) - 1 PROVE r[j].do = "alloc"
    BY <1>1, <2>1, <2>2
  <2> QED
    BY <2>1, <2>2, <2>3 DEF WillSend
<1> QED
  BY <1>2, <1>3 DEF TakesId, r

LEMMA RestSends ==
  ASSUME NEW G, NEW s \in Seq(G), WillSend(s)
  PROVE  s # << >> /\ (s[1].do \in Sending \/ (s[1].do = "alloc" /\ WillSend(Tail(s))))
<1>1. PICK k \in 1 .. Len(s) : s[k].do \in Sending /\ \A j \in 1 .. k - 1 : s[j].do = "alloc"
  BY DEF WillSend
<1>2. s # << >> /\ Len(s) \in Nat
  BY <1>1, LenProperties
<1>3. CASE k = 1
  <2>1. s[1].do \in Sending
    BY <1>1, <1>3
  <2> QED
    BY <1>2, <2>1
<1>4. CASE k # 1
  <2> DEFINE r == Tail(s)
  <2>1. Len(r) = Len(s) - 1 /\ \A i \in 1 .. Len(r) : r[i] = s[i + 1]
    BY <1>2, RestOf
  <2> HIDE DEF r
  <2>2. k - 1 \in 1 .. Len(r) /\ r[k - 1] = s[k] /\ s[1].do = "alloc"
    BY <1>1, <1>2, <1>4, <2>1
  <2>3. ASSUME NEW j \in 1 .. (k - 1) - 1 PROVE r[j].do = "alloc"
    <3>1. j \in 1 .. Len(r) /\ j + 1 \in 1 .. k - 1
      BY <1>2, <2>1
    <3> QED
      BY <1>1, <2>1, <3>1
  <2>4. WillSend(r)
    BY <1>1, <2>2, <2>3 DEF WillSend
  <2> QED
    BY <1>2, <2>2, <2>4 DEF r
<1> QED
  BY <1>3, <1>4

LEMMA RestHears ==
  ASSUME NEW G, NEW s \in Seq(G), s # << >>, NEW cls, NEW r, NEW q, HearsAnswer(cls, s, r),
         \/ s[1].do # "set_report" /\ q = r
         \/ s[1].do \in {"set_report", "try_report"} /\ q = r \cup {s[1].arg}
  PROVE  HearsAnswer(cls, Tail(s), q)
<1> DEFINE u == Tail(s)
<1>1. Len(s) \in Nat /\ Len(s) >= 1 /\ Len(u) = Len(s) - 1 /\ \A k \in 1 .. Len(u) : u[k] = s[k + 1]
  BY RestOf
<1> HIDE DEF u
<1>2. ASSUME NEW k \in 1 .. Len(u), u[k].do = "get_report"
      PROVE  \/ q = {} /\ \A j \in 1 .. k - 1 : u[j].do \notin {"set_report", "try_report"}
             \/ I!Answer(cls, u[k].arg) \in q
             \/ \E j \in 1 .. k - 1 : u[j].do = "set_report" /\ u[j].arg = I!Answer(cls, u[k].arg)
  <2>1. k + 1 \in 1 .. Len(s) /\ u[k] = s[k + 1]
    BY <1>1
  <2>2. \/ r = {} /\ \A j \in 1 .. (k + 1) - 1 : s[j].do \notin {"set_report", "try_report"}
        \/ I!Answer(cls, s[k + 1].arg) \in r
        \/ \E j \in 1 .. (k + 1) - 1 :
             s[j].do = "set_report" /\ s[j].arg = I!Answer(cls, s[k + 1].arg)
    BY <1>2, <2>1 DEF HearsAnswer
  <2>3. CASE r = {} /\ \A j \in 1 .. (k + 1) - 1 : s[j].do \notin {"set_report", "try_report"}
    <3>1. s[1].do \notin {"set_report", "try_report"}
      BY <2>3
    <3>2. ASSUME NEW j \in 1 .. k - 1 PROVE u[j].do \notin {"set_report", "try_report"}
      <4>1. u[j] = s[j + 1] /\ j + 1 \in 1 .. (k + 1) - 1
        BY <1>1
      <4> QED
        BY <2>3, <4>1
    <3> QED
      BY <2>3, <3>1, <3>2
  <2>4. CASE I!Answer(cls, s[k + 1].arg) \in r
    BY <2>1, <2>4
  <2>5. ASSUME NEW j \in 1 .. (k + 1) - 1, s[j].do = "set_report",
               s[j].arg = I!Answer(cls, s[k + 1].arg)
        PROVE  \/ I!Answer(cls, u[k].arg) \in q
               \/ \E i \in 1 .. k - 1 : u[i].do = "set_report" /\ u[i].arg = I!Answer(cls, u[k].arg)
    <3>1. CASE j = 1
      BY <2>1, <2>5, <3>1
    <3>2. CASE j # 1
      <4>1. j - 1 \in 1 .. k - 1 /\ u[j - 1] = s[j]
        BY <1>1, <3>2
      <4> QED
        BY <2>1, <2>5, <4>1
    <3> QED
      BY <3>1, <3>2
  <2> QED
    BY <2>2, <2>3, <2>4, <2>5
<1> QED
  BY <1>2 DEF HearsAnswer, u

Shapes ==
  /\ todo = [t \in Threads |-> todo[t]] /\ reg = [t \in Threads |-> reg[t]]
  /\ \A t \in Threads : \E G : todo[t] \in Seq(G)

\* A thread's step takes its call on by one step, or ends it.
ThreadSteps(t) ==
  \/ I!Registers(t) \/ I!SetsId(t) \/ I!Sends(t) \/ I!Polls(t)
  \/ I!AnswersFromCache(t) \/ I!Allocates(t) \/ I!Returns(t)
LEMMA GoesOn ==
  ASSUME Shapes, NEW t \in Threads, todo[t] # << >>, I!Goes(t)
  PROVE  /\ todo' = [todo EXCEPT ![t] = Tail(todo[t])]
         /\ reg' = [reg EXCEPT ![t] = IF Len(todo[t]) = 1 THEN {} ELSE reg[t]]
<1>1. PICK G : todo[t] \in Seq(G)
  BY DEF Shapes
<1>2. Len(todo[t]) = 1 => Tail(todo[t]) = << >>
  BY <1>1, RestOf
<1>3. [reg EXCEPT ![t] = reg[t]] = reg
  BY DEF Shapes
<1> QED
  BY <1>2, <1>3 DEF I!Goes, I!Ends

LEMMA Registered ==
  ASSUME Shapes, NEW t \in Threads, I!Registers(t)
  PROVE  /\ todo[t] # << >> /\ Head(todo[t]).do \in {"set_report", "try_report"}
         /\ rpt_cb \subseteq rpt_cb' /\ UNCHANGED <<intf, there, cmd_num, cmd_q, open>>
         /\ \/ I!Ends(t)
            \/ \E r : /\ todo' = [todo EXCEPT ![t] = Tail(todo[t])] /\ reg' = [reg EXCEPT ![t] = r]
                     /\ \/ r = reg[t] /\ Head(todo[t]).do # "set_report"
                        \/ r = reg[t] \cup {Head(todo[t]).arg} /\ Head(todo[t]).arg \in rpt_cb'
<1>1. PICK G : todo[t] \in Seq(G)
  BY DEF Shapes
<1>2. todo[t] # << >> /\ Head(todo[t]).do \in {"set_report", "try_report"}
  BY DEF I!Registers, I!At
<1>3. Len(todo[t]) \in Nat /\ Len(todo[t]) >= 1
  BY <1>1, <1>2, RestOf
<1>4. PICK found : found = (there /\ I!Arg(t) \in I!Reports(intf.cls, intf.ver))
  OBVIOUS
<1> DEFINE r == IF found THEN reg[t] \cup {I!Arg(t)} ELSE reg[t]
<1>5. /\ rpt_cb' = IF found THEN rpt_cb \cup {I!Arg(t)} ELSE rpt_cb
      /\ IF ~found /\ I!At(t, "set_report") THEN I!Ends(t)
         ELSE /\ Len(todo[t]) = 1 => I!Ends(t)
              /\ Len(todo[t]) > 1 => /\ todo' = [todo EXCEPT ![t] = Tail(todo[t])]
                                     /\ reg' = [reg EXCEPT ![t] = r]
  BY <1>4 DEF I!Registers
<1>6. UNCHANGED <<intf, there, cmd_num, cmd_q, open>>
  BY DEF I!Registers
<1>7. \/ r = reg[t] /\ Head(todo[t]).do # "set_report"
      \/ r = reg[t] \cup {Head(todo[t]).arg} /\ Head(todo[t]).arg \in rpt_cb'
      \/ ~found /\ I!At(t, "set_report")
  BY <1>2, <1>5 DEF I!At, I!Arg
<1>8. rpt_cb \subseteq rpt_cb'
  BY <1>5
<1> HIDE DEF r
<1>9. I!Ends(t) \/ (/\ todo' = [todo EXCEPT ![t] = Tail(todo[t])] /\ reg' = [reg EXCEPT ![t] = r]
                   /\ ~(~found /\ I!At(t, "set_report")))
  <2> DEFINE n == Len(todo[t])
  <2>1. n = 1 \/ n > 1
    <3>1. n \in Nat /\ n >= 1
      BY <1>3
    <3> HIDE DEF n
    <3> QED
      BY <3>1, SMT
  <2> QED
    BY <1>5, <2>1, Zenon
<1> QED
  BY <1>2, <1>6, <1>7, <1>8, <1>9

LEMMA ThreadMoves ==
  ASSUME Shapes, NEW t \in Threads, ThreadSteps(t)
  PROVE  \E x, r : /\ todo' = [todo EXCEPT ![t] = x] /\ reg' = [reg EXCEPT ![t] = r]
                   /\ todo[t] # << >> /\ (x = << >> \/ x = Tail(todo[t]))
<1>1. ASSUME I!Ends(t) PROVE todo' = [todo EXCEPT ![t] = << >>] /\ reg' = [reg EXCEPT ![t] = {}]
  BY <1>1 DEF I!Ends
<1>2. CASE I!Registers(t)
  BY <1>1, <1>2, Registered
<1>3. CASE I!SetsId(t)
  <2>1. todo[t] # << >> /\ (I!Goes(t) \/ I!Ends(t))
    BY <1>3 DEF I!SetsId, I!At
  <2> QED
    BY <1>1, <2>1, GoesOn
<1>4. CASE I!Sends(t)
  <2>1. todo[t] # << >> /\ (I!Goes(t) \/ I!Ends(t))
    BY <1>4 DEF I!Sends, I!AboutToSend, I!At
  <2> QED
    BY <1>1, <2>1, GoesOn
<1>5. CASE I!Polls(t)
  <2>1. todo[t] # << >> /\ I!Goes(t)
    BY <1>5 DEF I!Polls, I!At
  <2> QED
    BY <2>1, GoesOn
<1>6. CASE I!AnswersFromCache(t)
  <2>1. todo[t] # << >> /\ (I!Goes(t) \/ I!Ends(t))
    BY <1>6 DEF I!AnswersFromCache, I!At
  <2> QED
    BY <1>1, <2>1, GoesOn
<1>7. CASE I!Allocates(t) \/ I!Returns(t)
  <2>1. todo[t] # << >> /\ (I!Goes(t) \/ I!Ends(t))
    BY <1>7 DEF I!Allocates, I!Returns, I!At
  <2> QED
    BY <1>1, <2>1, GoesOn
<1> QED
  BY <1>2, <1>3, <1>4, <1>5, <1>6, <1>7 DEF ThreadSteps

\* Of the threads no other is concerned, and of the rest of the steps none.
LEMMA CallSteps ==
  ASSUME I!Next
  PROVE  \/ \E t \in Threads : I!Call(t) \/ ThreadSteps(t)
         \/ I!NodeRemoved
         \/ I!SwitchesQueue
         \/ UNCHANGED <<intf, there, rpt_cb, cmd_num, cmd_q, todo, reg>> /\ open' \subseteq open
BY DEF I!Next, ThreadSteps, I!CallbackThread, I!CallbackWakes, I!CallbackTakes, I!NodeAnswers

LEMMA ShapesKept ==
  ASSUME Shapes, I!Next
  PROVE  Shapes'
<1>1. ASSUME NEW t \in Threads, NEW x, NEW r, NEW G, x \in Seq(G),
             todo' = [todo EXCEPT ![t] = x], reg' = [reg EXCEPT ![t] = r]
      PROVE  Shapes'
  <2>1. ASSUME NEW u \in Threads PROVE \E T : todo'[u] \in Seq(T)
    BY <1>1 DEF Shapes
  <2> QED
    BY <1>1, <2>1 DEF Shapes
<1>2. ASSUME NEW t \in Threads, I!Call(t) PROVE Shapes'
  <2>1. PICK s \in I!Calls(intf) : s # << >> /\ todo' = [todo EXCEPT ![t] = s]
    BY <1>2 DEF I!Call
  <2>2. GoodCall(intf, s)
    BY <2>1, CallsGood
  <2>3. PICK G : s \in Seq(G)
    BY <2>2 DEF GoodCall
  <2>4. reg' = [reg EXCEPT ![t] = reg[t]]
    BY <1>2 DEF I!Call, Shapes
  <2> QED
    BY <1>1, <2>1, <2>3, <2>4
<1>3. ASSUME NEW t \in Threads, ThreadSteps(t) PROVE Shapes'
  <2>1. PICK x, r : /\ todo' = [todo EXCEPT ![t] = x] /\ reg' = [reg EXCEPT ![t] = r]
                    /\ todo[t] # << >> /\ (x = << >> \/ x = Tail(todo[t]))
    BY <1>3, ThreadMoves
  <2>2. PICK G : todo[t] \in Seq(G)
    BY DEF Shapes
  <2>3. x \in Seq(G)
    BY <2>1, <2>2, RestOf, EmptySeq
  <2> QED
    BY <1>1, <2>1, <2>3
<1>4. ASSUME UNCHANGED <<todo, reg>> PROVE Shapes'
  BY <1>4 DEF Shapes
<1>5. I!NodeRemoved \/ I!SwitchesQueue => UNCHANGED <<todo, reg>>
  BY DEF I!NodeRemoved, I!SwitchesQueue
<1> QED
  BY <1>2, <1>3, <1>4, <1>5, CallSteps

\* As long as an identifier is with a node that queues, some call is about to send.
IdInv ==
  /\ Shapes
  /\ \A t \in Threads : TakesId(todo[t])
  /\ cmd_num => there
  /\ cmd_q /\ cmd_num => \E t \in Threads : WillSend(todo[t])

LEMMA NoneLeft == TakesId(<< >>) /\ ~ WillSend(<< >>)
BY DEF TakesId, WillSend

LEMMA IdStep ==
  ASSUME Faults = {}, IdInv, I!Next
  PROVE  IdInv'
<1>1. Shapes'
  BY ShapesKept DEF IdInv
<1>2. ASSUME NEW t \in Threads, I!Call(t) PROVE IdInv'
  <2>1. PICK s \in I!Calls(intf) : s # << >> /\ todo' = [todo EXCEPT ![t] = s]
    BY <1>2 DEF I!Call
  <2>2. GoodCall(intf, s)
    BY <2>1, CallsGood
  <2>3. TakesId(s)
    BY <2>2 DEF GoodCall
  <2>4. UNCHANGED <<there, cmd_num, cmd_q>> /\ todo[t] = << >>
    BY <1>2 DEF I!Call
  <2>5. ASSUME NEW u \in Threads PROVE todo'[u] = IF u = t THEN s ELSE todo[u]
    BY <2>1 DEF IdInv, Shapes
  <2>6. \A u \in Threads : TakesId(todo'[u])
    <3> TAKE u \in Threads
    <3>1. todo'[u] = s \/ todo'[u] = todo[u]
      BY <2>5
    <3> QED
      BY <2>3, <3>1 DEF IdInv
  <2>7. ASSUME cmd_q, cmd_num PROVE \E u \in Threads : WillSend(todo'[u])
    <3>1. PICK u \in Threads : WillSend(todo[u])
      BY <2>7 DEF IdInv
    <3>2. u # t
      BY <2>4, <3>1, NoneLeft
    <3>3. todo'[u] = todo[u]
      BY <2>5, <3>2
    <3> QED
      BY <2>7, <3>1, <3>3 DEF IdInv
  <2> QED
    BY <1>1, <2>4, <2>6, <2>7 DEF IdInv
<1>3. ASSUME NEW t \in Threads, ThreadSteps(t) PROVE IdInv'
  <2>1. PICK x, r : /\ todo' = [todo EXCEPT ![t] = x] /\ reg' = [reg EXCEPT ![t] = r]
                    /\ todo[t] # << >> /\ (x = << >> \/ x = Tail(todo[t]))
    BY <1>3, ThreadMoves DEF IdInv
  <2>2. PICK G : todo[t] \in Seq(G)
    BY DEF IdInv, Shapes
  <2>3. /\ TakesId(todo[t]) /\ TakesId(Tail(todo[t]))
        /\ (todo[t][1].do = "cmd_id" => WillSend(Tail(todo[t])))
    BY <2>1, <2>2, RestTakes DEF IdInv
  <2>4. ASSUME NEW u \in Threads PROVE todo'[u] = IF u = t THEN x ELSE todo[u]
    BY <2>1 DEF IdInv, Shapes
  <2>5. \A u \in Threads : TakesId(todo'[u])
    <3> TAKE u \in Threads
    <3>1. todo'[u] = << >> \/ todo'[u] = Tail(todo[t]) \/ todo'[u] = todo[u]
      BY <2>1, <2>4
    <3> QED
      BY <2>3, <3>1, NoneLeft DEF IdInv
  <2>6. Head(todo[t]) = todo[t][1]
    BY <2>1, <2>2, RestOf
  <2>7. ASSUME UNCHANGED <<there, cmd_num, cmd_q>>, todo[t][1].do \notin Sending,
               todo[t][1].do = "alloc" => x = Tail(todo[t])
        PROVE  IdInv'
    <3>1. ASSUME cmd_q, cmd_num PROVE \E u \in Threads : WillSend(todo'[u])
      <4>1. PICK u \in Threads : WillSend(todo[u])
        BY <3>1 DEF IdInv
      <4>2. CASE u = t
        <5>1. todo[t][1].do = "alloc" /\ WillSend(Tail(todo[t]))
          BY <2>2, <2>7, <4>1, <4>2, RestSends
        <5>2. todo'[t] = Tail(todo[t])
          BY <2>4, <2>7, <5>1
        <5> QED
          BY <3>1, <5>1, <5>2 DEF IdInv
      <4>3. CASE u # t
        <5>1. todo'[u] = todo[u]
          BY <2>4, <4>3
        <5> QED
          BY <3>1, <4>1, <5>1 DEF IdInv
      <4> QED
        BY <4>2, <4>3
    <3> QED
      BY <1>1, <2>5, <2>7, <3>1 DEF IdInv
  <2>8. ASSUME cmd_num' => there', ~ cmd_q' \/ ~ cmd_num' PROVE IdInv'
    BY <1>1, <2>5, <2>8 DEF IdInv
  <2>9. CASE I!Registers(t)
    BY <2>6, <2>7, <2>9, Registered DEF IdInv, Sending
  <2>10. CASE I!SetsId(t)
    <3>1. todo[t][1].do = "cmd_id" /\ there' = there /\ cmd_q' = cmd_q
      BY <2>6, <2>10 DEF I!SetsId, I!At
    <3>2. CASE there
      <4>1. I!Goes(t)
        BY <2>10, <3>2 DEF I!SetsId
      <4>2. todo' = [todo EXCEPT ![t] = Tail(todo[t])]
        BY <2>1, <4>1, GoesOn DEF IdInv
      <4>3. todo'[t] = Tail(todo[t])
        BY <4>2 DEF IdInv, Shapes
      <4> QED
        BY <1>1, <2>3, <2>5, <3>1, <3>2, <4>3 DEF IdInv
    <3>3. CASE ~ there
      <4>1. ~ cmd_num'
        BY <2>10, <3>3 DEF I!SetsId, IdInv
      <4> QED
        BY <2>8, <4>1
    <3> QED
      BY <3>2, <3>3
  <2>11. CASE I!Sends(t)
    <3>1. UNCHANGED <<there, cmd_q>>
      BY <2>11 DEF I!Sends
    <3>2. CASE ~ cmd_num'
      BY <2>8, <3>2
    <3>3. CASE cmd_num' = cmd_num /\ (there => (cmd_q => ~ cmd_num))
      BY <2>8, <3>1, <3>3 DEF IdInv
    <3> QED
      BY <2>11, <3>2, <3>3 DEF I!Sends, I!Queued, I!SentAtOnce
  <2>12. CASE I!Polls(t) \/ I!AnswersFromCache(t) \/ I!Returns(t)
    <3>1. UNCHANGED <<there, cmd_num, cmd_q>> /\ Head(todo[t]).do \in {"poll", "cached", "return", "peek"}
      BY <2>12 DEF I!Polls, I!AnswersFromCache, I!Returns, I!At
    <3> QED
      BY <2>6, <2>7, <3>1 DEF Sending
  <2>13. CASE I!Allocates(t)
    <3>1. UNCHANGED <<there, cmd_num, cmd_q>> /\ Head(todo[t]).do = "alloc" /\ I!Goes(t)
      BY <2>13 DEF I!Allocates, I!At
    <3>2. todo' = [todo EXCEPT ![t] = Tail(todo[t])]
      BY <2>1, <3>1, GoesOn DEF IdInv
    <3>3. x = Tail(todo[t])
      BY <2>1, <3>2 DEF IdInv, Shapes
    <3> QED
      BY <2>6, <2>7, <3>1, <3>3 DEF Sending
  <2> QED
    BY <1>3, <2>9, <2>10, <2>11, <2>12, <2>13 DEF ThreadSteps
<1>4. ASSUME I!NodeRemoved PROVE IdInv'
  <2>1. ~ cmd_num' /\ todo' = todo
    BY <1>4 DEF I!NodeRemoved
  <2> QED
    BY <1>1, <2>1 DEF IdInv
<1>5. ASSUME UNCHANGED <<there, cmd_num, cmd_q, todo>> PROVE IdInv'
  BY <1>1, <1>5 DEF IdInv
<1>6. ASSUME I!SwitchesQueue PROVE IdInv'
  <2>1. UNCHANGED <<there, cmd_num, todo>>
    BY <1>6 DEF I!SwitchesQueue
  <2>2. ASSUME cmd_q', cmd_num PROVE \E t \in Threads : WillSend(todo[t])
    <3>1. PICK t \in Threads : I!AboutToSend(t)
      BY <1>6, <2>2 DEF I!SwitchesQueue
    <3>2. todo[t] # << >> /\ Head(todo[t]).do \in Sending
      BY <3>1 DEF I!AboutToSend, I!At, Sending
    <3>3. PICK G : todo[t] \in Seq(G)
      BY DEF IdInv, Shapes
    <3>4. 1 \in 1 .. Len(todo[t]) /\ todo[t][1].do \in Sending
      BY <3>2, <3>3, RestOf
    <3> QED
      BY <3>4 DEF WillSend
  <2> QED
    BY <1>1, <2>1, <2>2 DEF IdInv
<1> QED
  BY <1>2, <1>3, <1>4, <1>5, <1>6, CallSteps

\* The identifier zwif_cmd_id_set leaves with a node whose commands are queued goes
\* into the queue with a command, whatever other calls are under way and however
\* often the application turns queueing on and off: when no call is under way, none
\* is left.  Faults are the ways it is left: a refusal after it is set, memory that
\* is short, and a command sent at once before queueing is turned on.
THEOREM IdentifierIsTaken ==
  ASSUME Faults = {}
  PROVE  Spec => []IdIsTaken
<1>1. Init => IdInv
  <2> SUFFICES ASSUME Init PROVE IdInv
    OBVIOUS
  <2>1. todo = [t \in Threads |-> << >>] /\ reg = [t \in Threads |-> {}] /\ cmd_num = FALSE
    BY DEF Init, I!Init, NoCalls
  <2>2. \A t \in Threads : todo[t] = << >>
    BY <2>1
  <2>3. Shapes
    <3>1. todo = [t \in Threads |-> todo[t]] /\ reg = [t \in Threads |-> reg[t]]
      BY <2>1
    <3> QED
      BY <2>2, <3>1, EmptySeq DEF Shapes
  <2> QED
    BY <2>1, <2>2, <2>3, NoneLeft DEF IdInv
<1>2. IdInv /\ [Next]_vars => IdInv'
  <2> SUFFICES ASSUME IdInv, [Next]_vars PROVE IdInv'
    OBVIOUS
  <2>1. CASE UNCHANGED callVars
    BY <2>1 DEF callVars, IdInv, Shapes
  <2> QED
    BY <2>1, IdStep, IntfSteps
<1>3. IdInv => IdIsTaken
  <2> SUFFICES ASSUME IdInv, cmd_q, \A t \in Threads : todo[t] = << >> PROVE ~ cmd_num
    BY DEF IdIsTaken, I!IdIsTaken
  <2> QED
    BY NoneLeft DEF IdInv
<1> QED
  BY <1>1, <1>2, <1>3, PTL DEF Spec

\* What a call under way has registered still has its callback, and what is asked
\* next is answered with a report that is registered, or will be by then.
AskInv ==
  /\ Shapes
  /\ \A t \in Threads : todo[t] = << >> => reg[t] = {}
  /\ there => \A t \in Threads : reg[t] \subseteq rpt_cb /\ HearsAnswer(intf.cls, todo[t], reg[t])
  /\ AskedIsHeard

LEMMA NothingAsked ==
  ASSUME NEW cls, NEW r
  PROVE  HearsAnswer(cls, << >>, r)
BY DEF HearsAnswer

\* A step of a thread t that keeps what is said of the others.
LEMMA AskMoves ==
  ASSUME AskInv, Shapes', NEW t \in Threads, NEW x, NEW r,
         todo' = [todo EXCEPT ![t] = x], reg' = [reg EXCEPT ![t] = r],
         UNCHANGED <<intf, there>>, rpt_cb \subseteq rpt_cb', x = << >> => r = {},
         there => r \subseteq rpt_cb' /\ HearsAnswer(intf.cls, x, r), AskedIsHeard'
  PROVE  AskInv'
<1>1. ASSUME NEW u \in Threads
      PROVE  /\ todo'[u] = IF u = t THEN x ELSE todo[u]
             /\ reg'[u] = IF u = t THEN r ELSE reg[u]
  BY DEF AskInv, Shapes
<1>2. ASSUME NEW u \in Threads
      PROVE  /\ todo'[u] = << >> => reg'[u] = {}
             /\ there => reg'[u] \subseteq rpt_cb' /\ HearsAnswer(intf.cls, todo'[u], reg'[u])
  <2>1. CASE u = t
    <3>1. todo'[u] = x /\ reg'[u] = r
      BY <1>1, <2>1
    <3> QED
      BY <3>1
  <2>2. CASE u # t
    <3>1. todo'[u] = todo[u] /\ reg'[u] = reg[u]
      BY <1>1, <2>2
    <3>2. todo[u] = << >> => reg[u] = {}
      BY DEF AskInv
    <3>3. there => reg[u] \subseteq rpt_cb /\ HearsAnswer(intf.cls, todo[u], reg[u])
      BY DEF AskInv
    <3> QED
      BY <3>1, <3>2, <3>3
  <2> QED
    BY <2>1, <2>2
<1> QED
  BY <1>2 DEF AskInv

LEMMA AskKept ==
  ASSUME AskedIsHeard, intf' = intf, rpt_cb \subseteq rpt_cb', open' \subseteq open
  PROVE  AskedIsHeard'
BY DEF AskedIsHeard, I!AskedIsHeard

LEMMA AskStep ==
  ASSUME AskInv, I!Next
  PROVE  AskInv'
<1>1. Shapes'
  BY ShapesKept DEF AskInv
<1>2. ASSUME NEW t \in Threads, I!Call(t) PROVE AskInv'
  <2>1. PICK s \in I!Calls(intf) : s # << >> /\ todo' = [todo EXCEPT ![t] = s]
    BY <1>2 DEF I!Call
  <2>2. HearsAnswer(intf.cls, s, {})
    BY <2>1, CallsGood DEF GoodCall
  <2>3. /\ UNCHANGED <<intf, there, rpt_cb, open>> /\ reg' = reg /\ reg[t] = {}
        /\ rpt_cb \subseteq rpt_cb' /\ open' \subseteq open
    BY <1>2 DEF I!Call, AskInv
  <2>4. reg' = [reg EXCEPT ![t] = {}]
    <3>1. reg = [u \in Threads |-> reg[u]]
      BY DEF AskInv, Shapes
    <3> QED
      BY <2>3, <3>1
  <2>5. AskedIsHeard'
    BY <2>3, AskKept DEF AskInv
  <2> QED
    BY <1>1, <2>1, <2>2, <2>3, <2>4, <2>5, AskMoves
<1>3. ASSUME NEW t \in Threads, ThreadSteps(t) PROVE AskInv'
  <2>1. todo[t] # << >>
    BY <1>3, ThreadMoves DEF AskInv
  <2>2. PICK G : todo[t] \in Seq(G)
    BY DEF AskInv, Shapes
  <2>3. Head(todo[t]) = todo[t][1] /\ Len(todo[t]) \in Nat /\ Len(todo[t]) >= 1
        /\ Tail(todo[t]) \in Seq(G) /\ Len(Tail(todo[t])) = Len(todo[t]) - 1
        /\ (Len(todo[t]) = 1 => Tail(todo[t]) = << >>)
    BY <2>1, <2>2, RestOf
  <2>4. ASSUME UNCHANGED <<intf, there>>, rpt_cb \subseteq rpt_cb', AskedIsHeard', I!Ends(t)
        PROVE  AskInv'
    <3>1. todo' = [todo EXCEPT ![t] = << >>] /\ reg' = [reg EXCEPT ![t] = {}]
      BY <2>4 DEF I!Ends
    <3>2. {} \subseteq rpt_cb'
      OBVIOUS
    <3> QED
      BY <1>1, <2>4, <3>1, <3>2, NothingAsked, AskMoves
  <2>5. ASSUME UNCHANGED <<intf, there, rpt_cb>>, AskedIsHeard', I!Goes(t),
               todo[t][1].do \notin {"set_report", "try_report"}
        PROVE  AskInv'
    <3>1. CASE Len(todo[t]) = 1
      <4>1. I!Ends(t)
        BY <2>5, <3>1 DEF I!Goes
      <4> QED
        BY <2>4, <2>5, <4>1
    <3>2. CASE Len(todo[t]) # 1
      <4>1. todo' = [todo EXCEPT ![t] = Tail(todo[t])] /\ reg' = reg
        BY <2>5, <3>2 DEF I!Goes
      <4>2. reg' = [reg EXCEPT ![t] = reg[t]]
        BY <4>1 DEF AskInv, Shapes
      <4>3. Tail(todo[t]) # << >>
        <5>1. Len(Tail(todo[t])) # 0
          BY <2>3, <3>2
        <5> QED
          BY <2>3, <5>1, EmptySeq
      <4>4. there => reg[t] \subseteq rpt_cb' /\ HearsAnswer(intf.cls, Tail(todo[t]), reg[t])
        <5> SUFFICES ASSUME there
                     PROVE  reg[t] \subseteq rpt_cb' /\ HearsAnswer(intf.cls, Tail(todo[t]), reg[t])
          OBVIOUS
        <5>1. reg[t] \subseteq rpt_cb /\ HearsAnswer(intf.cls, todo[t], reg[t])
          BY DEF AskInv
        <5>2. HearsAnswer(intf.cls, Tail(todo[t]), reg[t])
          BY <2>1, <2>2, <2>5, <5>1, RestHears
        <5> QED
          BY <2>5, <5>1, <5>2
      <4>5. rpt_cb \subseteq rpt_cb'
        BY <2>5
      <4> QED
        BY <1>1, <2>5, <4>1, <4>2, <4>3, <4>4, <4>5, AskMoves
    <3> QED
      BY <3>1, <3>2
  <2>6. CASE I!Registers(t)
    <3>1. /\ Head(todo[t]).do \in {"set_report", "try_report"} /\ open' \subseteq open
          /\ rpt_cb \subseteq rpt_cb' /\ UNCHANGED <<intf, there>>
      BY <2>6, Registered DEF AskInv
    <3>2. AskedIsHeard'
      BY <3>1, AskKept DEF AskInv
    <3>3. ASSUME NEW r, todo' = [todo EXCEPT ![t] = Tail(todo[t])], reg' = [reg EXCEPT ![t] = r],
                 \/ r = reg[t] /\ Head(todo[t]).do # "set_report"
                 \/ r = reg[t] \cup {Head(todo[t]).arg} /\ Head(todo[t]).arg \in rpt_cb',
                 Len(todo[t]) # 1
          PROVE  AskInv'
      <4>1. Tail(todo[t]) # << >>
        <5>1. Len(Tail(todo[t])) # 0
          BY <2>3, <3>3
        <5> QED
          BY <2>3, <5>1, EmptySeq
      <4>2. there => r \subseteq rpt_cb' /\ HearsAnswer(intf.cls, Tail(todo[t]), r)
        <5> SUFFICES ASSUME there
                     PROVE  r \subseteq rpt_cb' /\ HearsAnswer(intf.cls, Tail(todo[t]), r)
          OBVIOUS
        <5>1. reg[t] \subseteq rpt_cb /\ HearsAnswer(intf.cls, todo[t], reg[t])
          BY DEF AskInv
        <5>2. r \subseteq rpt_cb'
          BY <3>1, <3>3, <5>1
        <5>3. \/ todo[t][1].do # "set_report" /\ r = reg[t]
              \/ todo[t][1].do \in {"set_report", "try_report"} /\ r = reg[t] \cup {todo[t][1].arg}
          BY <2>3, <3>1, <3>3
        <5>4. HearsAnswer(intf.cls, Tail(todo[t]), r)
          BY <2>1, <2>2, <5>1, <5>3, RestHears
        <5> QED
          BY <5>2, <5>4
      <4> QED
        BY <1>1, <3>1, <3>2, <3>3, <4>1, <4>2, AskMoves
    <3>4. Len(todo[t]) = 1 => I!Ends(t)
      BY <2>6 DEF I!Registers
    <3> QED
      BY <2>4, <2>6, <3>1, <3>2, <3>3, <3>4, Registered DEF AskInv
  <2>7. CASE I!SetsId(t) \/ I!AnswersFromCache(t) \/ I!Allocates(t) \/ I!Returns(t)
    <3>1. /\ UNCHANGED <<intf, there, rpt_cb, open>>
          /\ (I!Goes(t) /\ Head(todo[t]).do \in {"cmd_id", "cached", "alloc"}) \/ I!Ends(t)
      BY <2>7 DEF I!SetsId, I!AnswersFromCache, I!Allocates, I!Returns, I!At
    <3>2. rpt_cb \subseteq rpt_cb' /\ open' \subseteq open
      BY <3>1
    <3>3. AskedIsHeard'
      BY <3>1, <3>2, AskKept DEF AskInv
    <3> QED
      BY <2>3, <2>4, <2>5, <3>1, <3>2, <3>3
  <2>8. CASE I!Polls(t)
    <3>1. /\ UNCHANGED <<intf, there, rpt_cb>> /\ I!Goes(t) /\ Head(todo[t]).do = "poll"
          /\ \A g \in open' : g \in open \/ g.rpts = {}
      BY <2>8 DEF I!Polls, I!At
    <3>2. AskedIsHeard'
      BY <3>1 DEF AskInv, AskedIsHeard, I!AskedIsHeard
    <3> QED
      BY <2>3, <2>5, <3>1, <3>2
  <2>9. CASE I!Sends(t)
    <3>1. UNCHANGED <<intf, there, rpt_cb>> /\ Head(todo[t]).do \in {"exec", "exec_rr", "get_report"}
          /\ rpt_cb \subseteq rpt_cb'
      BY <2>9 DEF I!Sends, I!AboutToSend, I!At
    <3>2. CASE ~ there
      <4>1. I!Ends(t) /\ open' \subseteq open
        BY <2>9, <3>2 DEF I!Sends
      <4>2. AskedIsHeard'
        BY <3>1, <4>1, AskKept DEF AskInv
      <4> QED
        BY <2>4, <3>1, <4>1, <4>2
    <3>3. CASE there
      <4>1. I!Goes(t)
        BY <2>9, <3>3 DEF I!Sends
      <4>2. reg[t] \subseteq rpt_cb /\ HearsAnswer(intf.cls, todo[t], reg[t])
        BY <3>3 DEF AskInv
      <4>3. \/ open' \subseteq open
            \/ /\ todo[t][1].do = "get_report"
               /\ open' = open \cup {[get |-> todo[t][1].arg, rpts |-> reg[t]]}
        BY <2>3, <2>9, <3>3 DEF I!Sends, I!AboutToSend, I!At, I!Arg
      <4>4. AskedIsHeard'
        <5>1. CASE open' \subseteq open
          BY <3>1, <5>1, AskKept DEF AskInv
        <5>2. CASE /\ todo[t][1].do = "get_report"
                   /\ open' = open \cup {[get |-> todo[t][1].arg, rpts |-> reg[t]]}
          <6>1. reg[t] = {} \/ I!Answer(intf.cls, todo[t][1].arg) \in reg[t]
            <7>1. 1 \in 1 .. Len(todo[t])
              BY <2>3
            <7> QED
              BY <4>2, <5>2, <7>1 DEF HearsAnswer
          <6>2. ASSUME NEW g \in open', g.rpts # {}
                PROVE  I!Answer(intf.cls, g.get) \in g.rpts \cap rpt_cb
            <7>1. CASE g \in open
              BY <6>2, <7>1 DEF AskInv, AskedIsHeard, I!AskedIsHeard
            <7>2. CASE g = [get |-> todo[t][1].arg, rpts |-> reg[t]]
              <8>1. g.get = todo[t][1].arg /\ g.rpts = reg[t]
                BY <7>2
              <8> QED
                BY <4>2, <6>1, <6>2, <8>1
            <7> QED
              BY <5>2, <7>1, <7>2
          <6> QED
            BY <3>1, <6>2 DEF AskedIsHeard, I!AskedIsHeard
        <5> QED
          BY <4>3, <5>1, <5>2
      <4> QED
        BY <2>3, <2>5, <3>1, <4>1, <4>4
    <3> QED
      BY <3>2, <3>3
  <2> QED
    BY <1>3, <2>6, <2>7, <2>8, <2>9 DEF ThreadSteps
<1>4. ASSUME I!NodeRemoved PROVE AskInv'
  <2>1. open' = {} /\ there' = FALSE /\ UNCHANGED <<todo, reg>>
    BY <1>4 DEF I!NodeRemoved
  <2>2. AskedIsHeard'
    BY <2>1 DEF AskedIsHeard, I!AskedIsHeard
  <2> QED
    BY <1>1, <2>1, <2>2 DEF AskInv
<1>5. ASSUME UNCHANGED <<intf, there, rpt_cb, todo, reg>>, open' \subseteq open PROVE AskInv'
  <2>1. rpt_cb \subseteq rpt_cb'
    BY <1>5
  <2>2. AskedIsHeard'
    BY <1>5, <2>1, AskKept DEF AskInv
  <2> QED
    BY <1>1, <1>5, <2>2 DEF AskInv
<1>6. I!SwitchesQueue => UNCHANGED <<intf, there, rpt_cb, todo, reg>> /\ open' \subseteq open
  BY DEF I!SwitchesQueue
<1> QED
  BY <1>2, <1>3, <1>4, <1>5, <1>6, CallSteps

\* Who registers a callback and asks is answered: the report cmd_get_resp_tbl
\* expects for the command is one the call registered for, and the interface
\* still has its callback.  It holds with the faults as well.
THEOREM AnswerIsHeard == Spec => []AskedIsHeard
<1>1. Init => AskInv
  <2> SUFFICES ASSUME Init PROVE AskInv
    OBVIOUS
  <2>1. todo = [t \in Threads |-> << >>] /\ reg = [t \in Threads |-> {}] /\ open = {}
    BY DEF Init, I!Init, NoCalls
  <2>2. \A t \in Threads : todo[t] = << >> /\ reg[t] = {}
    BY <2>1
  <2>3. Shapes
    <3>1. todo = [t \in Threads |-> todo[t]] /\ reg = [t \in Threads |-> reg[t]]
      BY <2>1
    <3> QED
      BY <2>2, <3>1, EmptySeq DEF Shapes
  <2>4. AskedIsHeard
    BY <2>1 DEF AskedIsHeard, I!AskedIsHeard
  <2>5. \A t \in Threads : reg[t] \subseteq rpt_cb /\ HearsAnswer(intf.cls, todo[t], reg[t])
    BY <2>2, NothingAsked
  <2> QED
    BY <2>2, <2>3, <2>4, <2>5 DEF AskInv
<1>2. AskInv /\ [Next]_vars => AskInv'
  <2> SUFFICES ASSUME AskInv, [Next]_vars PROVE AskInv'
    OBVIOUS
  <2>1. CASE UNCHANGED callVars
    BY <2>1 DEF callVars, AskInv, Shapes, AskedIsHeard, I!AskedIsHeard
  <2> QED
    BY <2>1, AskStep, IntfSteps
<1>3. AskInv => AskedIsHeard
  BY DEF AskInv
<1> QED
  BY <1>1, <1>2, <1>3, PTL DEF Spec

---------------------------------------------------------------------------
(***************************************************************************)
(* The node information file.  What is kept of a node when the reader has    *)
(* gone through its first k end points, and n interfaces of the last of them.*)
(***************************************************************************)
NodeIs(own, eps) == [own |-> own, flags |-> F!Queues(own), eps |-> eps]
IfsTo(s, id, k, n) == [j \in 1 .. n |-> F!KeptIf(s, s.nodes[id].eps[k].ifs[j])]
EpTo(s, id, k, n) ==
  LET e == s.nodes[id].eps[k]
  IN F!Ep(e.id, e.name, IF id = Ctl THEN 0 ELSE e.plus, IfsTo(s, id, k, n))
IfsOf(s, id, k) == Len(s.nodes[id].eps[k].ifs)
EpsTo(s, id, k, n) ==
  IF k = 0 THEN F!Blank.eps
  ELSE [j \in 1 .. k |-> EpTo(s, id, j, IF j = k THEN n ELSE IfsOf(s, id, j))]
NodeTo(s, id, k, n) == NodeIs(F!KeptOwn(id, s.nodes[id].own), EpsTo(s, id, k, n))
Before(s, id, k, n) ==
  IF k = 0 THEN F!Blank
  ELSE IF n > 0 THEN NodeTo(s, id, k, n - 1)
  ELSE NodeTo(s, id, k - 1, IF k = 1 THEN 0 ELSE IfsOf(s, id, k - 1))

\* What is known of a node when the reader comes to the place r.
KnownAt(s, r, id) ==
  IF id \notin DOMAIN s.nodes \/ id \in r.left THEN F!Blank
  ELSE IF r.at # << >> /\ r.at[1].node = id THEN Before(s, id, r.at[1].ep, r.at[1].intf)
  ELSE F!Kept(s, id)

\* A place the file has a tag for, or its end.
PlaceOk(s, r) ==
  /\ r \in F!Rests /\ r.left \subseteq DOMAIN s.nodes
  /\ IF r.at = << >> THEN r.left = {}
     ELSE /\ r.at[1].node \in DOMAIN s.nodes \ r.left
          /\ r.at[1].ep \in 0 .. Len(s.nodes[r.at[1].node].eps)
          /\ r.at[1].ep = 0 => r.at[1].intf = 0
          /\ r.at[1].ep > 0 => r.at[1].intf \in 0 .. IfsOf(s, r.at[1].node, r.at[1].ep)
\* The reader knows which end point an interface belongs to.
ReaderAt(r) ==
  r.at # << >> /\ r.at[1].ep > 0 =>
    LET there_ == r.at[1].node \in DOMAIN nodes IN
    /\ rdr.node = IF there_ THEN r.at[1].node ELSE 0
    /\ ~ there_ => rdr.ep = 0
    /\ there_ /\ r.at[1].intf > 0 => rdr.ep = r.at[1].ep

\* What may be saved, and the tags of it, in the order of the places w.
SavedOk(s) ==
  /\ Ctl \in DOMAIN s.nodes /\ DOMAIN s.nodes \subseteq NodeIds \cup {Ctl}
  /\ \A id \in DOMAIN s.nodes : F!Listed(s.nodes[id].own, s.nodes[id].eps)
TagsOf(f, s, w) ==
  /\ f.ver = s.ver /\ f.tags = [k \in 1 .. Len(w) + 1 |-> f.tags[k]]
  /\ f.tags[1].tag = "NW" /\ F!Get(f.tags[1].subs, 0) = s.grp /\ f.tags[2] = F!SecTag(s.key)
  /\ \A k \in 1 .. Len(w) - 1 : f.tags[k + 2] = F!TagAt(s.nodes, w[k].at[1])

\* The writer has come to the last place of w; the reader to its place rdr.at - 2.
InWalk(s, w) ==
  /\ w \in Seq(F!Rests) /\ w # << >> /\ w[1] = F!FromCtl(DOMAIN s.nodes)
  /\ \A k \in 1 .. Len(w) - 1 : w[k].at # << >> /\ w[k + 1] = F!Onward(s.nodes, w[k])
Now == [ver |-> F!Ver, nodes |-> nodes, key |-> key, grp |-> grp_node]
SavingAlong(w) ==
  InWalk(Now, w) /\ rest = w[Len(w)] /\ PlaceOk(Now, rest) /\ TagsOf(file, Now, w)
ReadingAlong(s, w) ==
  /\ F!Walk(s.nodes, w) /\ TagsOf(file, s, w) /\ rdr.at \in 1 .. Len(w) + 2
  /\ IF rdr.at < 3
     THEN /\ \A id \in DOMAIN nodes : nodes[id] = F!Blank
          /\ rdr.at = 2 => grp_node = s.grp
     ELSE /\ grp_node = s.grp /\ key = s.key
          /\ PlaceOk(s, w[rdr.at - 2]) /\ ReaderAt(w[rdr.at - 2])
          /\ \A id \in DOMAIN nodes : nodes[id] = KnownAt(s, w[rdr.at - 2], id)
\* A file with its checksum holds all that was saved.
SealedBy(s, w) == saved = << s >> /\ SavedOk(s) /\ F!Walk(s.nodes, w) /\ TagsOf(file, s, w)

StoreInv ==
  /\ table \subseteq NodeIds
  /\ job # "off" => nodes = [id \in table \cup {Ctl} |-> nodes[id]]
  /\ job \in {"idle", "save"} => \A id \in DOMAIN nodes : F!Listed(nodes[id].own, nodes[id].eps)
  /\ job = "init" => \A id \in DOMAIN nodes : nodes[id] = F!Blank
  /\ file = [ver |-> file.ver, tags |-> file.tags, sealed |-> file.sealed]
  /\ file.sealed => \E s, w : SealedBy(s, w)
  /\ job = "save" => ~ file.sealed /\ \E w : SavingAlong(w)
  /\ job = "load" => file.sealed /\ \E s, w : SealedBy(s, w) /\ ReadingAlong(s, w)
  /\ rdr = [at |-> rdr.at, node |-> rdr.node, ep |-> rdr.ep]
  /\ job # "load" => rdr = F!Reader
  /\ loaded => job = "idle"
  /\ LoadedIsSaved
FileInv == IF side = "file" THEN StoreInv ELSE ~ loaded
---------------------------------------------------------------------------
\* A step of the node file, or of another part.
LEMMA FileSteps ==
  [Next]_vars => /\ side' = side
                 /\ (side = "file" /\ F!Next) \/ UNCHANGED fileVars
BY DEF Next, vars

\* What is behind a sequence comes after it.
LEMMA Behind ==
  ASSUME NEW n \in Nat, NEW q, q = [j \in 1 .. n |-> q[j]], NEW x
  PROVE  /\ Append(q, x) = [j \in 1 .. n + 1 |-> IF j <= n THEN q[j] ELSE x]
         /\ Len(q) = n
<1> DEFINE Vals == {q[j] : j \in 1 .. n} \cup {x}
<1>1. q \in [1 .. n -> Vals]
  OBVIOUS
<1>2. q \in Seq(Vals) /\ Len(q) = n
  BY <1>1
<1>3. /\ Append(q, x) \in Seq(Vals) /\ Len(Append(q, x)) = n + 1
      /\ \A j \in 1 .. n + 1 : Append(q, x)[j] = IF j <= n THEN q[j] ELSE x
  BY <1>2, AppendProperties
<1>4. Append(q, x) = [j \in 1 .. n + 1 |-> Append(q, x)[j]]
  BY <1>3
<1> QED
  BY <1>2, <1>3, <1>4

LEMMA NoneIs == \A q : q = [j \in 1 .. 0 |-> q[j]] => q = << >>
OBVIOUS

LEMMA FirstIn ==
  ASSUME NEW Vals, NEW q \in Seq(Vals), q # << >>
  PROVE  q[1] \in Vals /\ Len(q) \in Nat \ {0}
<1>1. Len(q) \in Nat \ {0}
  BY EmptySeq
<1> QED
  BY <1>1


---------------------------------------------------------------------------
\* The end points and interfaces of a node that was saved.
LEMMA SavedNode ==
  ASSUME NEW s, SavedOk(s), NEW id \in DOMAIN s.nodes
  PROVE  /\ s.nodes[id].own \in F!Owns /\ s.nodes[id].eps \in Seq(F!Eps) /\ s.nodes[id].eps # << >>
         /\ Len(s.nodes[id].eps) \in Nat \ {0}
         /\ \A k \in 1 .. Len(s.nodes[id].eps) :
              /\ s.nodes[id].eps[k] \in F!Eps /\ s.nodes[id].eps[k].ifs \in Seq(F!Ifs)
              /\ IfsOf(s, id, k) \in Nat
              /\ s.nodes[id].eps[k].id = 0 <=> k = 1
              /\ \A i, j \in 1 .. IfsOf(s, id, k) :
                   s.nodes[id].eps[k].ifs[i].cls = s.nodes[id].eps[k].ifs[j].cls => i = j
<1>1. F!Listed(s.nodes[id].own, s.nodes[id].eps)
  BY DEF SavedOk
<1>2. /\ s.nodes[id].own \in F!Owns /\ s.nodes[id].eps \in Seq(F!Eps) /\ s.nodes[id].eps # << >>
      /\ Len(s.nodes[id].eps) \in Nat \ {0}
  BY <1>1, EmptySeq DEF F!Listed
<1>3. ASSUME NEW k \in 1 .. Len(s.nodes[id].eps)
      PROVE  /\ s.nodes[id].eps[k] \in F!Eps /\ s.nodes[id].eps[k].ifs \in Seq(F!Ifs)
             /\ IfsOf(s, id, k) \in Nat
             /\ s.nodes[id].eps[k].id = 0 <=> k = 1
  <2>1. s.nodes[id].eps[k] \in F!Eps
    BY <1>2
  <2>2. s.nodes[id].eps[k].ifs \in Seq(F!Ifs)
    BY <2>1 DEF F!Eps
  <2>3. k = 1 \/ k \in 2 .. Len(s.nodes[id].eps)
    BY <1>2
  <2> QED
    BY <1>1, <2>1, <2>2, <2>3 DEF F!Listed, IfsOf
<1>4. ASSUME NEW k \in 1 .. Len(s.nodes[id].eps), NEW i \in 1 .. IfsOf(s, id, k), NEW j \in 1 .. IfsOf(s, id, k),
             s.nodes[id].eps[k].ifs[i].cls = s.nodes[id].eps[k].ifs[j].cls
      PROVE  i = j
  BY <1>1, <1>4 DEF F!Listed, IfsOf
<1> QED
  BY <1>2, <1>3, <1>4

\* The last tag of a node brings the last of what is kept of it.
LEMMA KeptIsAll ==
  ASSUME NEW s, SavedOk(s), NEW id \in DOMAIN s.nodes
  PROVE  F!Kept(s, id) = NodeTo(s, id, Len(s.nodes[id].eps), IfsOf(s, id, Len(s.nodes[id].eps)))
<1> DEFINE eps == s.nodes[id].eps
           l == Len(eps)
<1>1. eps \in Seq(F!Eps) /\ l \in Nat \ {0} /\ DOMAIN eps = 1 .. l
  BY SavedNode
<1>2. ASSUME NEW k \in 1 .. l
      PROVE  F!KeptEp(s, id, eps[k]) = EpTo(s, id, k, IF k = l THEN IfsOf(s, id, l) ELSE IfsOf(s, id, k))
  <2>1. eps[k].ifs \in Seq(F!Ifs)
    BY SavedNode
  <2>2. DOMAIN eps[k].ifs = 1 .. IfsOf(s, id, k)
    BY <2>1 DEF IfsOf
  <2> QED
    BY <2>2 DEF F!KeptEp, EpTo, IfsTo
<1>3. [k \in DOMAIN eps |-> F!KeptEp(s, id, eps[k])] = EpsTo(s, id, l, IfsOf(s, id, l))
  BY <1>1, <1>2 DEF EpsTo
<1> QED
  BY <1>3 DEF F!Kept, NodeTo, NodeIs

---------------------------------------------------------------------------
\* From one place to the next.
LEMMA OnwardCases ==
  ASSUME NEW s, SavedOk(s), NEW r, PlaceOk(s, r), r.at # << >>
  PROVE  LET p == r.at[1]
             o == F!Onward(s.nodes, r) IN
         /\ p \in [node : NodeIds \cup {Ctl}, ep : Nat, intf : Nat] /\ p.node \in DOMAIN s.nodes
         /\ p.node \notin r.left /\ p.ep \in 0 .. Len(s.nodes[p.node].eps)
         /\ \/ /\ p.ep > 0 /\ p.intf < IfsOf(s, p.node, p.ep)
               /\ o = [left |-> r.left, at |-> F!At(p.node, p.ep, p.intf + 1)]
            \/ /\ p.ep < Len(s.nodes[p.node].eps) /\ p.intf = (IF p.ep = 0 THEN 0 ELSE IfsOf(s, p.node, p.ep))
               /\ o = [left |-> r.left, at |-> F!At(p.node, p.ep + 1, 0)]
            \/ /\ p.ep = Len(s.nodes[p.node].eps) /\ p.intf = IfsOf(s, p.node, p.ep)
               /\ \/ r.left = {} /\ o = [left |-> {}, at |-> << >>]
                  \/ \E i \in r.left : o = [left |-> r.left \ {i}, at |-> F!At(i, 0, 0)]
<1> DEFINE p == r.at[1]
           o == F!Onward(s.nodes, r)
           l == Len(s.nodes[p.node].eps)
<1>1. /\ r = [left |-> r.left, at |-> r.at] /\ r.left \subseteq DOMAIN s.nodes
      /\ p \in [node : NodeIds \cup {Ctl}, ep : Nat, intf : Nat]
  <2>1. r.at \in Seq([node : NodeIds \cup {Ctl}, ep : Nat, intf : Nat])
    BY DEF PlaceOk, F!Rests
  <2>2. r.at[1] \in [node : NodeIds \cup {Ctl}, ep : Nat, intf : Nat]
    BY <2>1, FirstIn
  <2>3. r = [left |-> r.left, at |-> r.at]
    BY DEF PlaceOk, F!Rests
  <2> QED
    BY <2>2, <2>3 DEF PlaceOk
<1>2. /\ p.node \in DOMAIN s.nodes /\ p.node \notin r.left /\ p.ep \in 0 .. l
      /\ p.ep = 0 => p.intf = 0
      /\ p.ep > 0 => p.intf \in 0 .. IfsOf(s, p.node, p.ep)
  BY DEF PlaceOk
<1>3. /\ l \in Nat \ {0}
      /\ p.ep > 0 => IfsOf(s, p.node, p.ep) \in Nat
  BY <1>2, SavedNode
<1>4. F!MoreIfs(s.nodes, p) <=> p.ep > 0 /\ p.intf < IfsOf(s, p.node, p.ep)
  BY DEF F!MoreIfs, IfsOf
<1>5. F!MoreEps(s.nodes, p) <=> p.ep < l
  BY DEF F!MoreEps
<1>6. CASE F!MoreIfs(s.nodes, p)
  BY <1>1, <1>2, <1>4, <1>6 DEF F!Onward
<1>7. CASE ~ F!MoreIfs(s.nodes, p) /\ F!MoreEps(s.nodes, p)
  BY <1>1, <1>2, <1>3, <1>4, <1>5, <1>7 DEF F!Onward
<1>8. CASE ~ F!MoreIfs(s.nodes, p) /\ ~ F!MoreEps(s.nodes, p)
  <2>1. o = F!NextNode(r.left)
    BY <1>8 DEF F!Onward
  <2>2. p.ep = l /\ p.intf = IfsOf(s, p.node, p.ep)
    BY <1>1, <1>2, <1>3, <1>4, <1>5, <1>8
  <2>3. CASE r.left = {}
    BY <1>1, <1>2, <2>1, <2>2, <2>3 DEF F!NextNode
  <2>4. CASE r.left # {}
    <3>1. PICK i \in r.left : o = [left |-> r.left \ {i}, at |-> F!At(i, 0, 0)]
      BY <2>1, <2>4 DEF F!NextNode
    <3> QED
      BY <1>1, <1>2, <2>2, <3>1
  <2> QED
    BY <2>3, <2>4
<1> QED
  BY <1>6, <1>7, <1>8

LEMMA PlaceAt ==
  ASSUME NEW s, NEW others, others \subseteq NodeIds, others \subseteq DOMAIN s.nodes,
         NEW i \in NodeIds \cup {Ctl}, i \in DOMAIN s.nodes \ others, NEW k \in Nat, NEW n \in Nat,
         k <= Len(s.nodes[i].eps), k = 0 => n = 0, k > 0 => n \in 0 .. IfsOf(s, i, k),
         Len(s.nodes[i].eps) \in Nat
  PROVE  PlaceOk(s, [left |-> others, at |-> F!At(i, k, n)])
<1> DEFINE P == [node : NodeIds \cup {Ctl}, ep : Nat, intf : Nat]
           o == [left |-> others, at |-> F!At(i, k, n)]
<1>1. /\ F!At(i, k, n) \in Seq(P) /\ F!At(i, k, n) # << >>
      /\ F!At(i, k, n)[1] = [node |-> i, ep |-> k, intf |-> n]
  BY DEF F!At
<1>2. o \in F!Rests /\ o.left = others /\ o.at # << >>
  BY <1>1 DEF F!Rests
<1>3. o.at[1].node = i /\ o.at[1].ep = k /\ o.at[1].intf = n
  BY <1>1
<1>4. PlaceOk(s, o)
  <2> HIDE DEF o
  <2> QED
    BY <1>2, <1>3 DEF PlaceOk
<1> QED
  BY <1>4

LEMMA OnwardOk ==
  ASSUME NEW s, SavedOk(s), NEW r, PlaceOk(s, r), r.at # << >>
  PROVE  PlaceOk(s, F!Onward(s.nodes, r))
<1> DEFINE p == r.at[1]
           o == F!Onward(s.nodes, r)
<1>1. /\ p \in [node : NodeIds \cup {Ctl}, ep : Nat, intf : Nat] /\ p.node \in DOMAIN s.nodes
      /\ p.node \notin r.left /\ p.ep \in 0 .. Len(s.nodes[p.node].eps)
  BY OnwardCases
<1>2. r.left \subseteq NodeIds /\ r.left \subseteq DOMAIN s.nodes
  BY DEF PlaceOk, F!Rests
<1>3. ASSUME NEW i \in DOMAIN s.nodes
      PROVE  /\ Len(s.nodes[i].eps) \in Nat \ {0}
             /\ \A k \in 1 .. Len(s.nodes[i].eps) : IfsOf(s, i, k) \in Nat
  BY SavedNode
<1>4. p.node \in NodeIds \cup {Ctl} /\ p.ep \in Nat /\ p.intf \in Nat
  BY <1>1
<1> HIDE DEF p
<1>5. ASSUME p.ep > 0 /\ p.intf < IfsOf(s, p.node, p.ep), o = [left |-> r.left, at |-> F!At(p.node, p.ep, p.intf + 1)]
      PROVE  PlaceOk(s, o)
  <2>1. IfsOf(s, p.node, p.ep) \in Nat
    BY <1>1, <1>3, <1>4, <1>5
  <2>2. p.intf + 1 \in Nat /\ p.intf + 1 \in 0 .. IfsOf(s, p.node, p.ep)
    BY <1>4, <1>5, <2>1
  <2>3. p.node \in DOMAIN s.nodes \ r.left /\ p.ep <= Len(s.nodes[p.node].eps)
        /\ Len(s.nodes[p.node].eps) \in Nat /\ p.ep # 0
    BY <1>1, <1>3, <1>4, <1>5
  <2> QED
    BY <1>2, <1>4, <1>5, <2>2, <2>3, PlaceAt
<1>6. ASSUME p.ep < Len(s.nodes[p.node].eps), o = [left |-> r.left, at |-> F!At(p.node, p.ep + 1, 0)]
      PROVE  PlaceOk(s, o)
  <2>1. IfsOf(s, p.node, p.ep + 1) \in Nat
    BY <1>1, <1>3, <1>4, <1>6
  <2> QED
    BY <1>1, <1>2, <1>3, <1>4, <1>6, <2>1, PlaceAt
<1>7. ASSUME r.left = {}, o = [left |-> {}, at |-> << >>]
      PROVE  PlaceOk(s, o)
  <2>1. << >> \in Seq([node : NodeIds \cup {Ctl}, ep : Nat, intf : Nat])
    BY EmptySeq
  <2> QED
    BY <1>7, <2>1 DEF PlaceOk, F!Rests
<1>8. ASSUME NEW i \in r.left, o = [left |-> r.left \ {i}, at |-> F!At(i, 0, 0)]
      PROVE  PlaceOk(s, o)
  <2>1. i \in NodeIds /\ i \in DOMAIN s.nodes
    BY <1>2
  <2>2. r.left \ {i} \subseteq NodeIds /\ r.left \ {i} \subseteq DOMAIN s.nodes
    BY <1>2
  <2>3. Len(s.nodes[i].eps) \in Nat
    BY <1>3, <2>1
  <2> QED
    BY <1>8, <2>1, <2>2, <2>3, PlaceAt
<1> QED
  BY <1>5, <1>6, <1>7, <1>8, OnwardCases DEF p

\* Behind a tag, its node is known as far as the tag goes, and the others as before.
LEMMA OnwardKnows ==
  ASSUME NEW s, SavedOk(s), NEW r, PlaceOk(s, r), r.at # << >>, NEW id
  PROVE  KnownAt(s, F!Onward(s.nodes, r), id) =
           IF id = r.at[1].node THEN NodeTo(s, id, r.at[1].ep, r.at[1].intf) ELSE KnownAt(s, r, id)
<1> DEFINE p == r.at[1]
           o == F!Onward(s.nodes, r)
<1>1. /\ p \in [node : NodeIds \cup {Ctl}, ep : Nat, intf : Nat] /\ p.node \in DOMAIN s.nodes
      /\ p.node \notin r.left /\ p.ep \in 0 .. Len(s.nodes[p.node].eps)
  BY OnwardCases
<1>2. /\ p.ep \in Nat /\ p.intf \in Nat
      /\ r.left \subseteq DOMAIN s.nodes
  BY <1>1 DEF PlaceOk
<1>3. ASSUME NEW i, NEW k, NEW n, o.at = F!At(i, k, n)
      PROVE  o.at # << >> /\ o.at[1].node = i /\ o.at[1].ep = k /\ o.at[1].intf = n
  BY <1>3 DEF F!At
<1> HIDE DEF o, p
<1> DEFINE Then == IF id = p.node THEN NodeTo(s, id, p.ep, p.intf) ELSE KnownAt(s, r, id)
<1>4. ASSUME p.ep > 0 /\ p.intf < IfsOf(s, p.node, p.ep), o = [left |-> r.left, at |-> F!At(p.node, p.ep, p.intf + 1)]
      PROVE  KnownAt(s, o, id) = Then
  <2>1. o.left = r.left /\ o.at # << >> /\ o.at[1].node = p.node /\ o.at[1].ep = p.ep /\ o.at[1].intf = p.intf + 1
    BY <1>3, <1>4
  <2>2. id = p.node => KnownAt(s, o, id) = Before(s, id, p.ep, p.intf + 1)
    BY <1>1, <2>1 DEF KnownAt
  <2>3. Before(s, p.node, p.ep, p.intf + 1) = NodeTo(s, p.node, p.ep, p.intf)
    BY <1>2, <1>4 DEF Before
  <2>4. id # p.node => KnownAt(s, o, id) = KnownAt(s, r, id)
    BY <2>1 DEF KnownAt, p
  <2> QED
    BY <2>2, <2>3, <2>4
<1>5. ASSUME p.ep < Len(s.nodes[p.node].eps), p.intf = (IF p.ep = 0 THEN 0 ELSE IfsOf(s, p.node, p.ep)),
             o = [left |-> r.left, at |-> F!At(p.node, p.ep + 1, 0)]
      PROVE  KnownAt(s, o, id) = Then
  <2>1. o.left = r.left /\ o.at # << >> /\ o.at[1].node = p.node /\ o.at[1].ep = p.ep + 1 /\ o.at[1].intf = 0
    BY <1>3, <1>5
  <2>2. id = p.node => KnownAt(s, o, id) = Before(s, id, p.ep + 1, 0)
    BY <1>1, <2>1 DEF KnownAt
  <2>3. Before(s, p.node, p.ep + 1, 0) = NodeTo(s, p.node, p.ep, p.intf)
    BY <1>2, <1>5 DEF Before
  <2>4. id # p.node => KnownAt(s, o, id) = KnownAt(s, r, id)
    BY <2>1 DEF KnownAt, p
  <2> QED
    BY <2>2, <2>3, <2>4
<1>6. ASSUME p.ep = Len(s.nodes[p.node].eps), p.intf = IfsOf(s, p.node, p.ep) PROVE F!Kept(s, p.node) = NodeTo(s, p.node, p.ep, p.intf)
  BY <1>1, <1>6, KeptIsAll
<1>7. ASSUME p.ep = Len(s.nodes[p.node].eps), p.intf = IfsOf(s, p.node, p.ep),
             r.left = {}, o = [left |-> {}, at |-> << >>]
      PROVE  KnownAt(s, o, id) = Then
  <2>1. id = p.node => KnownAt(s, o, id) = F!Kept(s, id)
    BY <1>1, <1>7 DEF KnownAt
  <2>2. id # p.node => KnownAt(s, o, id) = KnownAt(s, r, id)
    BY <1>7 DEF KnownAt, p
  <2> QED
    BY <1>6, <1>7, <2>1, <2>2
<1>8. ASSUME p.ep = Len(s.nodes[p.node].eps), p.intf = IfsOf(s, p.node, p.ep),
             NEW i \in r.left, o = [left |-> r.left \ {i}, at |-> F!At(i, 0, 0)]
      PROVE  KnownAt(s, o, id) = Then
  <2>1. o.left = r.left \ {i} /\ o.at # << >> /\ o.at[1].node = i /\ o.at[1].ep = 0 /\ o.at[1].intf = 0
    BY <1>3, <1>8
  <2>2. id = p.node => KnownAt(s, o, id) = F!Kept(s, id)
    BY <1>1, <1>8, <2>1 DEF KnownAt
  <2>3. id = i => KnownAt(s, o, id) = F!Blank /\ KnownAt(s, r, id) = F!Blank
    BY <1>2, <2>1 DEF KnownAt, Before
  <2>4. id # p.node /\ id # i => KnownAt(s, o, id) = KnownAt(s, r, id)
    BY <2>1 DEF KnownAt, p
  <2> QED
    BY <1>6, <1>8, <2>2, <2>3, <2>4
<1> QED
  BY <1>4, <1>5, <1>7, <1>8, OnwardCases DEF o, p

---------------------------------------------------------------------------
\* What is read of a tag is what was written, as far as it is kept.
LEMMA GetSub ==
  /\ \A v, none : F!Get(F!Sub(v), none) = v
  /\ \A none : F!Get(F!NoSub, none) = none
  /\ \A v : F!Get(F!IfAny(v), << >>) = v
<1>1. \A v : << v >> # << >> /\ << v >>[1] = v
  OBVIOUS
<1> QED
  BY <1>1 DEF F!Get, F!Sub, F!NoSub, F!IfAny

LEMMA OwnComesBack ==
  ASSUME NEW s, SavedOk(s), NEW id \in DOMAIN s.nodes
  PROVE  LET t == F!NodeTag(id, s.nodes[id]) IN
         /\ t.tag = "NODE" /\ t.id = id
         /\ [sleep |-> F!Get(t.subs.sleep, 0), mul_cmd |-> F!Get(t.subs.mul_cmd, 0),
             dev_id |-> F!Get(t.subs.dev_id, << >>), ext_ver |-> F!Get(t.subs.ext_ver, << >>)]
            = F!KeptOwn(id, s.nodes[id].own)
<1> DEFINE own == s.nodes[id].own
           ext == IF id = Ctl THEN F!NoSub ELSE F!IfAny(own.ext_ver)
<1>1. own \in F!Owns
  BY SavedNode
<1>2. F!Get(ext, << >>) = IF id = Ctl THEN << >> ELSE own.ext_ver
  BY GetSub
<1>3. F!KeptOwn(id, own) =
        [sleep |-> own.sleep, mul_cmd |-> own.mul_cmd, dev_id |-> own.dev_id,
         ext_ver |-> IF id = Ctl THEN << >> ELSE own.ext_ver]
  BY <1>1 DEF F!KeptOwn, F!Owns
<1> QED
  BY <1>2, <1>3, GetSub DEF F!NodeTag

LEMMA EpComesBack ==
  ASSUME NEW s, SavedOk(s), NEW id \in DOMAIN s.nodes, NEW k \in 1 .. Len(s.nodes[id].eps)
  PROVE  LET t == F!EpTag(id, s.nodes[id].eps[k]) IN
         /\ t.tag = "EP" /\ t.id = s.nodes[id].eps[k].id
         /\ F!Ep(t.id, F!Get(t.subs.name, << >>), F!Get(t.subs.plus, 0), << >>) = EpTo(s, id, k, 0)
<1> DEFINE e == s.nodes[id].eps[k]
           plus == IF e.plus = 0 \/ id = Ctl THEN F!NoSub ELSE F!Sub(e.plus)
<1>1. F!Get(plus, 0) = IF id = Ctl THEN 0 ELSE e.plus
  BY GetSub
<1>2. IfsTo(s, id, k, 0) = << >>
  BY NoneIs DEF IfsTo
<1> QED
  BY <1>1, <1>2, GetSub DEF F!EpTag, EpTo, F!Ep

IfRead(fver, t) ==
  [cls |-> t.id, ver |-> F!Get(t.subs.ver, 1),
   data |-> IF fver <= 4 /\ t.id = "ALARM" THEN << >> ELSE F!Get(t.subs.data, << >>),
   groups |-> F!GroupData(t)]

LEMMA IfComesBack ==
  ASSUME NEW s, SavedOk(s), NEW id \in DOMAIN s.nodes, NEW k \in 1 .. Len(s.nodes[id].eps),
         NEW n \in 1 .. IfsOf(s, id, k),
         NEW i, i = s.nodes[id].eps[k].ifs[n]
  PROVE  F!IfTag(i).id = i.cls /\ IfRead(s.ver, F!IfTag(i)) = F!KeptIf(s, i)
<1>1. i \in F!Ifs
  <2>1. s.nodes[id].eps[k].ifs \in Seq(F!Ifs)
    BY SavedNode
  <2> QED
    BY <2>1 DEF IfsOf
<1> QED
  BY <1>1, GetSub DEF F!IfTag, F!Ifs, F!KeptIf, F!GroupData, IfRead

\* A tag adds an end point, or an interface, to what is known.
LEMMA EpsOf ==
  ASSUME NEW s, SavedOk(s), NEW id \in DOMAIN s.nodes, NEW k \in 1 .. Len(s.nodes[id].eps), NEW n
  PROVE  /\ EpsTo(s, id, k, n) = [j \in 1 .. k |-> EpsTo(s, id, k, n)[j]]
         /\ EpsTo(s, id, k, n)[k] = EpTo(s, id, k, n)
         /\ Len(EpsTo(s, id, k, n)) = k
         /\ \A j \in 1 .. k - 1 : EpsTo(s, id, k, n)[j] = EpTo(s, id, j, IfsOf(s, id, j))
<1>1. k \in Nat \ {0}
  BY SavedNode
<1>2. EpsTo(s, id, k, n) = [j \in 1 .. k |-> EpTo(s, id, j, IF j = k THEN n ELSE IfsOf(s, id, j))]
  BY <1>1 DEF EpsTo
<1>3. /\ EpsTo(s, id, k, n) = [j \in 1 .. k |-> EpsTo(s, id, k, n)[j]]
      /\ EpsTo(s, id, k, n)[k] = EpTo(s, id, k, n)
      /\ \A j \in 1 .. k - 1 : EpsTo(s, id, k, n)[j] = EpTo(s, id, j, IfsOf(s, id, j))
  BY <1>1, <1>2
<1>4. Len(EpsTo(s, id, k, n)) = k
  BY <1>1, <1>3, Behind
<1> QED
  BY <1>3, <1>4

LEMMA FirstEp ==
  ASSUME NEW s, SavedOk(s), NEW id \in DOMAIN s.nodes
  PROVE  [F!Blank.eps EXCEPT ![1] = [EpTo(s, id, 1, 0) EXCEPT !.ifs = F!Blank.eps[1].ifs]] = EpsTo(s, id, 1, 0)
<1> DEFINE e == EpTo(s, id, 1, 0)
<1>1. F!Blank.eps = << F!Ep(0, << >>, 0, << >>) >> /\ F!Blank.eps[1].ifs = << >>
  BY DEF F!Blank, F!Ep
<1>2. e.ifs = << >>
  <2>1. IfsTo(s, id, 1, 0) = << >>
    BY NoneIs DEF IfsTo
  <2> QED
    BY <2>1 DEF EpTo, F!Ep
<1>3. [e EXCEPT !.ifs = << >>] = e
  BY <1>2 DEF EpTo, F!Ep
<1>4. [F!Blank.eps EXCEPT ![1] = e] = << e >>
  BY <1>1
<1>5. EpsTo(s, id, 1, 0) = [j \in 1 .. 1 |-> EpTo(s, id, j, IF j = 1 THEN 0 ELSE IfsOf(s, id, j))]
  BY DEF EpsTo
<1> HIDE DEF e
<1>6. << e >> = [j \in 1 .. 1 |-> e]
  OBVIOUS
<1>7. [j \in 1 .. 1 |-> EpTo(s, id, j, IF j = 1 THEN 0 ELSE IfsOf(s, id, j))] = [j \in 1 .. 1 |-> e]
  BY DEF e
<1> QED
  BY <1>1, <1>3, <1>4, <1>5, <1>6, <1>7 DEF e

LEMMA NextEp ==
  ASSUME NEW s, SavedOk(s), NEW id \in DOMAIN s.nodes, NEW k \in 2 .. Len(s.nodes[id].eps)
  PROVE  LET eps == EpsTo(s, id, k - 1, IfsOf(s, id, k - 1)) IN
         Append(eps, EpTo(s, id, k, 0)) = EpsTo(s, id, k, 0) /\ Len(eps) = k - 1
<1> DEFINE eps == EpsTo(s, id, k - 1, IfsOf(s, id, k - 1))
           e == EpTo(s, id, k, 0)
           all == EpsTo(s, id, k, 0)
<1>1. Len(s.nodes[id].eps) \in Nat
  BY SavedNode
<1>2. k - 1 \in 1 .. Len(s.nodes[id].eps) /\ k \in 1 .. Len(s.nodes[id].eps) /\ k - 1 \in Nat
  BY <1>1
<1>3. /\ eps = [j \in 1 .. k - 1 |-> eps[j]] /\ Len(eps) = k - 1
      /\ eps[k - 1] = EpTo(s, id, k - 1, IfsOf(s, id, k - 1))
      /\ \A j \in 1 .. (k - 1) - 1 : eps[j] = EpTo(s, id, j, IfsOf(s, id, j))
  BY <1>2, EpsOf
<1>4. /\ all = [j \in 1 .. k |-> all[j]] /\ all[k] = e
      /\ \A j \in 1 .. k - 1 : all[j] = EpTo(s, id, j, IfsOf(s, id, j))
  BY <1>2, EpsOf
<1> HIDE DEF eps, e, all
<1>5. Append(eps, e) = [j \in 1 .. (k - 1) + 1 |-> IF j <= k - 1 THEN eps[j] ELSE e]
  BY <1>2, <1>3, Behind
<1>6. ASSUME NEW j \in 1 .. k PROVE (IF j <= k - 1 THEN eps[j] ELSE e) = all[j]
  <2>1. j = k \/ j = k - 1 \/ j \in 1 .. (k - 1) - 1
    BY <1>2
  <2>2. CASE j = k
    BY <1>2, <1>4, <2>2
  <2>3. CASE j = k - 1
    <3>1. k - 1 \in 1 .. k - 1
      BY <1>2
    <3>2. all[k - 1] = EpTo(s, id, k - 1, IfsOf(s, id, k - 1))
      BY <1>4, <3>1
    <3> QED
      BY <1>3, <2>3, <3>1, <3>2
  <2>4. CASE j \in 1 .. (k - 1) - 1
    <3>1. j \in 1 .. k - 1 /\ j <= k - 1
      BY <1>2, <2>4
    <3> QED
      BY <1>3, <1>4, <2>4, <3>1
  <2> QED
    BY <2>1, <2>2, <2>3, <2>4
<1>7. (k - 1) + 1 = k
  BY <1>2
<1> QED
  BY <1>3, <1>4, <1>5, <1>6, <1>7 DEF eps, e, all

WithIf(eps, k, i) == [eps EXCEPT ![k] = [@ EXCEPT !.ifs = Append(eps[k].ifs, i)]]
HasIf(eps, k, cls) == \E j \in 1 .. Len(eps[k].ifs) : eps[k].ifs[j].cls = cls

LEMMA NextIf ==
  ASSUME NEW s, SavedOk(s), NEW id \in DOMAIN s.nodes, NEW k \in 1 .. Len(s.nodes[id].eps),
         NEW n \in 1 .. IfsOf(s, id, k), NEW eps, eps = EpsTo(s, id, k, n - 1),
         NEW i, i = s.nodes[id].eps[k].ifs[n]
  PROVE  ~ HasIf(eps, k, i.cls) /\ WithIf(eps, k, F!KeptIf(s, i)) = EpsTo(s, id, k, n)
<1> DEFINE ifs == eps[k].ifs
           all == EpsTo(s, id, k, n)
           e == s.nodes[id].eps[k]
<1>1. IfsOf(s, id, k) \in Nat /\ k \in Nat \ {0} /\ n \in Nat /\ n - 1 \in Nat /\ e.ifs \in Seq(F!Ifs)
  BY SavedNode
<1>2. /\ eps = [j \in 1 .. k |-> eps[j]] /\ eps[k] = EpTo(s, id, k, n - 1)
      /\ \A j \in 1 .. k - 1 : eps[j] = EpTo(s, id, j, IfsOf(s, id, j))
  BY EpsOf
<1>3. /\ all = [j \in 1 .. k |-> all[j]] /\ all[k] = EpTo(s, id, k, n)
      /\ \A j \in 1 .. k - 1 : all[j] = EpTo(s, id, j, IfsOf(s, id, j))
  BY EpsOf
<1>4. ifs = [j \in 1 .. n - 1 |-> F!KeptIf(s, e.ifs[j])]
  <2>1. EpTo(s, id, k, n - 1).ifs = IfsTo(s, id, k, n - 1)
    BY DEF EpTo, F!Ep
  <2> QED
    BY <1>2, <2>1 DEF IfsTo
<1>5. /\ Len(ifs) = n - 1
      /\ Append(ifs, F!KeptIf(s, i)) = [j \in 1 .. (n - 1) + 1 |-> IF j <= n - 1 THEN ifs[j] ELSE F!KeptIf(s, i)]
  BY <1>1, <1>4, Behind
<1>6. Append(ifs, F!KeptIf(s, i)) = [j \in 1 .. n |-> F!KeptIf(s, e.ifs[j])]
  <2>1. (n - 1) + 1 = n
    BY <1>1
  <2>2. ASSUME NEW j \in 1 .. n
        PROVE  (IF j <= n - 1 THEN ifs[j] ELSE F!KeptIf(s, i)) = F!KeptIf(s, e.ifs[j])
    <3>1. j = n \/ j \in 1 .. n - 1
      BY <1>1
    <3>2. CASE j = n
      BY <1>1, <3>2
    <3>3. CASE j \in 1 .. n - 1
      BY <1>1, <1>4, <3>3
    <3> QED
      BY <3>1, <3>2, <3>3
  <2> HIDE DEF ifs, e
  <2> QED
    BY <1>5, <2>1, <2>2
<1>7. ASSUME NEW j \in 1 .. Len(ifs) PROVE ifs[j].cls # i.cls
  <2>1. j \in 1 .. n - 1 /\ j \in 1 .. IfsOf(s, id, k) /\ j # n
    BY <1>1, <1>5
  <2>2. e.ifs[j].cls # i.cls
    BY <2>1, SavedNode
  <2>3. e.ifs[j] \in F!Ifs
    BY <1>1, <2>1 DEF IfsOf
  <2>4. ifs[j] = F!KeptIf(s, e.ifs[j])
    BY <1>4, <2>1
  <2>5. F!KeptIf(s, e.ifs[j]).cls = e.ifs[j].cls
    BY <2>3 DEF F!KeptIf, F!Ifs
  <2> QED
    BY <2>2, <2>4, <2>5
<1>8. [EpTo(s, id, k, n - 1) EXCEPT !.ifs = Append(ifs, F!KeptIf(s, i))] = EpTo(s, id, k, n)
  <2>1. Append(ifs, F!KeptIf(s, i)) = IfsTo(s, id, k, n)
    BY <1>6 DEF IfsTo
  <2>2. [EpTo(s, id, k, n - 1) EXCEPT !.ifs = IfsTo(s, id, k, n)] = EpTo(s, id, k, n)
    BY DEF EpTo, F!Ep
  <2> QED
    BY <2>1, <2>2
<1>9. [eps EXCEPT ![k] = [@ EXCEPT !.ifs = Append(ifs, F!KeptIf(s, i))]] = all
  <2> DEFINE a == Append(ifs, F!KeptIf(s, i))
  <2>1. [eps[k] EXCEPT !.ifs = a] = all[k]
    BY <1>2, <1>3, <1>8
  <2> HIDE DEF a, all
  <2>2. [eps EXCEPT ![k] = [@ EXCEPT !.ifs = a]] = [j \in 1 .. k |-> IF j = k THEN [eps[k] EXCEPT !.ifs = a] ELSE eps[j]]
    BY <1>1, <1>2
  <2>3. ASSUME NEW j \in 1 .. k PROVE (IF j = k THEN [eps[k] EXCEPT !.ifs = a] ELSE eps[j]) = all[j]
    <3>1. j = k \/ j \in 1 .. k - 1
      BY <1>1
    <3> QED
      BY <1>1, <1>2, <1>3, <2>1, <3>1
  <2>4. [eps EXCEPT ![k] = [@ EXCEPT !.ifs = a]] = all
    BY <1>3, <2>2, <2>3
  <2> QED
    BY <2>4 DEF a
<1> QED
  BY <1>7, <1>9 DEF HasIf, WithIf

---------------------------------------------------------------------------
\* The reader takes a tag: its node, if it is there, is known as far as the tag goes.
TakesTag(s, p) ==
  LET known_ == p.node \in DOMAIN nodes IN
  /\ nodes' = IF known_ THEN [nodes EXCEPT ![p.node] = NodeTo(s, p.node, p.ep, p.intf)] ELSE nodes
  /\ rdr' = [at |-> rdr.at + 1, node |-> IF known_ THEN p.node ELSE 0,
             ep |-> IF ~ known_ THEN 0 ELSE IF p.ep = 0 THEN rdr.ep ELSE p.ep]
  /\ UNCHANGED << key, grp_node >>

LEMMA BeforeIs ==
  ASSUME NEW s, NEW id, NEW k \in Nat, NEW n \in Nat
  PROVE  /\ Before(s, id, 0, 0) = F!Blank
         /\ k > 0 /\ n > 0 => Before(s, id, k, n) = NodeTo(s, id, k, n - 1)
         /\ k = 1 => Before(s, id, k, 0) = NodeTo(s, id, 0, 0)
         /\ k > 1 => Before(s, id, k, 0) = NodeTo(s, id, k - 1, IfsOf(s, id, k - 1))
BY DEF Before

LEMMA NodeEps ==
  ASSUME NEW own, NEW eps, NEW n, n = NodeIs(own, eps)
  PROVE  n.eps = eps
BY DEF NodeIs

LEMMA NodeWithEps ==
  ASSUME NEW own, NEW eps, NEW n, n = NodeIs(own, eps), NEW more
  PROVE  [n EXCEPT !.eps = more] = NodeIs(own, more)
BY DEF NodeIs

LEMMA BlankWithOwn ==
  ASSUME NEW own
  PROVE  [F!Blank EXCEPT !.own = own, !.flags = F!Queues(own)] = NodeIs(own, F!Blank.eps)
<1> DEFINE eps == << F!Ep(0, << >>, 0, << >>) >>
           none == F!NoInfo
<1>1. F!Blank = [own |-> none, flags |-> F!Queues(none), eps |-> eps]
  BY DEF F!Blank
<1> DEFINE flags == F!Queues(none)
           now == F!Queues(own)
           all == [own |-> none, flags |-> flags, eps |-> eps]
<1>2. F!Blank = all
  BY <1>1
<1> HIDE DEF eps, none, flags, now
<1>3. [all EXCEPT !.own = own, !.flags = now] = [own |-> own, flags |-> now, eps |-> eps]
  <2>1. [all EXCEPT !.own = own] = [own |-> own, flags |-> flags, eps |-> eps]
    OBVIOUS
  <2>2. [[own |-> own, flags |-> flags, eps |-> eps] EXCEPT !.flags = now] = [own |-> own, flags |-> now, eps |-> eps]
    OBVIOUS
  <2> HIDE DEF all
  <2> QED
    BY <2>1, <2>2
<1>4. all.eps = eps
  OBVIOUS
<1> QED
  BY <1>2, <1>3, <1>4 DEF NodeIs, now

LEMMA TakesNode ==
  ASSUME NEW s, SavedOk(s), NEW p, p.node \in DOMAIN s.nodes, p.ep = 0, p.intf = 0,
         p.node \in DOMAIN nodes => nodes[p.node] = F!Blank,
         NEW t, t = F!TagAt(s.nodes, p), t.tag = "NODE", F!NodeLoad(t)
  PROVE  TakesTag(s, p)
<1> DEFINE own == [sleep |-> F!Get(t.subs.sleep, 0), mul_cmd |-> F!Get(t.subs.mul_cmd, 0),
                   dev_id |-> F!Get(t.subs.dev_id, << >>), ext_ver |-> F!Get(t.subs.ext_ver, << >>)]
<1>1. t = F!NodeTag(p.node, s.nodes[p.node])
  BY DEF F!TagAt
<1>2. t.id = p.node /\ own = F!KeptOwn(p.node, s.nodes[p.node].own)
  BY <1>1, OwnComesBack
<1> HIDE DEF own
<1>3. [F!Blank EXCEPT !.own = own, !.flags = F!Queues(own)] = NodeTo(s, p.node, 0, 0)
  <2>1. NodeTo(s, p.node, 0, 0) = NodeIs(own, F!Blank.eps)
    BY <1>2 DEF NodeTo, EpsTo
  <2> QED
    BY <2>1, BlankWithOwn
<1>4. /\ nodes' = IF p.node \in DOMAIN nodes
                  THEN [nodes EXCEPT ![p.node] = [nodes[p.node] EXCEPT !.own = own, !.flags = F!Queues(own)]]
                  ELSE nodes
      /\ rdr' = [at |-> rdr.at + 1, node |-> IF p.node \in DOMAIN nodes THEN p.node ELSE 0,
                 ep |-> IF p.node \in DOMAIN nodes THEN rdr.ep ELSE 0]
      /\ UNCHANGED << key, grp_node >>
  BY <1>2 DEF F!NodeLoad, own
<1>5. p.node \in DOMAIN nodes =>
        [nodes[p.node] EXCEPT !.own = own, !.flags = F!Queues(own)] = NodeTo(s, p.node, p.ep, p.intf)
  BY <1>3
<1> QED
  BY <1>4, <1>5 DEF TakesTag

LEMMA TakesEp ==
  ASSUME NEW s, SavedOk(s), NEW p, p.node \in DOMAIN s.nodes, p.ep \in 1 .. Len(s.nodes[p.node].eps),
         p.intf = 0, p.node # 0, rdr = [at |-> rdr.at, node |-> rdr.node, ep |-> rdr.ep],
         rdr.node = IF p.node \in DOMAIN nodes THEN p.node ELSE 0,
         p.node \notin DOMAIN nodes => rdr.ep = 0,
         p.node \in DOMAIN nodes => nodes[p.node] = Before(s, p.node, p.ep, 0),
         NEW t, t = F!TagAt(s.nodes, p), t.tag = "EP", F!EpLoad(t)
  PROVE  TakesTag(s, p)
<1> DEFINE id == p.node
           k == p.ep
           e == F!Ep(t.id, F!Get(t.subs.name, << >>), F!Get(t.subs.plus, 0), << >>)
           eps == nodes[rdr.node].eps
<1>0. Len(s.nodes[id].eps) \in Nat /\ k \in Nat \ {0}
  BY SavedNode
<1>1. t = F!EpTag(id, s.nodes[id].eps[k])
  BY <1>0 DEF F!TagAt
<1>2. t.id = s.nodes[id].eps[k].id /\ e = EpTo(s, id, k, 0)
  <2>1. LET u == F!EpTag(id, s.nodes[id].eps[k]) IN
        /\ u.id = s.nodes[id].eps[k].id
        /\ F!Ep(u.id, F!Get(u.subs.name, << >>), F!Get(u.subs.plus, 0), << >>) = EpTo(s, id, k, 0)
    <3>1. id \in DOMAIN s.nodes /\ k \in 1 .. Len(s.nodes[id].eps)
      OBVIOUS
    <3> HIDE DEF id, k
    <3> QED
      BY <3>1, EpComesBack
  <2> QED
    BY <1>1, <2>1
<1>3. t.id = 0 <=> k = 1
  BY <1>2, SavedNode
<1> HIDE DEF e
<1>4. /\ UNCHANGED << key, grp_node >>
      /\ \/ rdr.node = 0 /\ rdr' = [rdr EXCEPT !.at = @ + 1] /\ UNCHANGED nodes
         \/ /\ rdr.node # 0 /\ t.id = 0
            /\ rdr' = [rdr EXCEPT !.at = @ + 1, !.ep = 1]
            /\ nodes' = [nodes EXCEPT ![rdr.node] =
                           [nodes[rdr.node] EXCEPT !.eps = [eps EXCEPT ![1] = [e EXCEPT !.ifs = eps[1].ifs]]]]
         \/ /\ rdr.node # 0 /\ t.id # 0
            /\ rdr' = [rdr EXCEPT !.at = @ + 1, !.ep = Len(eps) + 1]
            /\ nodes' = [nodes EXCEPT ![rdr.node] = [nodes[rdr.node] EXCEPT !.eps = Append(eps, e)]]
  BY DEF F!EpLoad, e
<1>5. CASE id \notin DOMAIN nodes
  <2>1. rdr.node = 0 /\ rdr.ep = 0
    BY <1>5
  <2> QED
    BY <1>4, <1>5, <2>1 DEF TakesTag
<1>6. CASE id \in DOMAIN nodes /\ k = 1
  <2>1. nodes[id] = NodeIs(F!KeptOwn(id, s.nodes[id].own), F!Blank.eps)
    <3>1. Before(s, id, k, 0) = NodeTo(s, id, 0, 0)
      BY <1>0, <1>6, BeforeIs
    <3>2. EpsTo(s, id, 0, 0) = F!Blank.eps
      BY DEF EpsTo
    <3> QED
      BY <1>6, <3>1, <3>2 DEF NodeTo
  <2>2. eps = F!Blank.eps /\ rdr.node = id
    <3>1. nodes[id].eps = F!Blank.eps
      BY <2>1, NodeEps
    <3> QED
      BY <1>6, <3>1
  <2>3. [eps EXCEPT ![1] = [e EXCEPT !.ifs = eps[1].ifs]] = EpsTo(s, id, k, 0)
    BY <1>2, <1>6, <2>2, FirstEp
  <2>4. [nodes[id] EXCEPT !.eps = EpsTo(s, id, k, 0)] = NodeTo(s, id, k, p.intf)
    BY <2>1, NodeWithEps DEF NodeTo
  <2>5. /\ nodes' = [nodes EXCEPT ![id] = NodeTo(s, id, k, p.intf)]
        /\ rdr' = [at |-> rdr.at + 1, node |-> id, ep |-> k]
    BY <1>3, <1>4, <1>6, <2>2, <2>3, <2>4
  <2> QED
    BY <1>0, <1>4, <1>6, <2>5 DEF TakesTag
<1>7. CASE id \in DOMAIN nodes /\ k # 1
  <2> DEFINE old == EpsTo(s, id, k - 1, IfsOf(s, id, k - 1))
  <2>1. nodes[id] = NodeIs(F!KeptOwn(id, s.nodes[id].own), old)
    <3>1. k > 1
      BY <1>0, <1>7
    <3>2. Before(s, id, k, 0) = NodeTo(s, id, k - 1, IfsOf(s, id, k - 1))
      BY <1>0, <3>1, BeforeIs
    <3> QED
      BY <1>7, <3>2 DEF NodeTo
  <2>2. eps = old /\ rdr.node = id
    <3>1. nodes[id].eps = old
      BY <2>1, NodeEps
    <3> QED
      BY <1>7, <3>1
  <2>3. Append(eps, e) = EpsTo(s, id, k, 0) /\ Len(eps) = k - 1
    <3>1. k \in 2 .. Len(s.nodes[id].eps)
      BY <1>0, <1>7
    <3> QED
      BY <1>2, <2>2, <3>1, NextEp
  <2>4. [nodes[id] EXCEPT !.eps = EpsTo(s, id, k, 0)] = NodeTo(s, id, k, p.intf)
    BY <2>1, NodeWithEps DEF NodeTo
  <2>5. /\ nodes' = [nodes EXCEPT ![id] = NodeTo(s, id, k, p.intf)]
        /\ rdr' = [at |-> rdr.at + 1, node |-> id, ep |-> k]
    <3>1. /\ rdr' = [rdr EXCEPT !.at = @ + 1, !.ep = Len(eps) + 1]
          /\ nodes' = [nodes EXCEPT ![rdr.node] = [nodes[rdr.node] EXCEPT !.eps = Append(eps, e)]]
      BY <1>3, <1>4, <1>7, <2>2
    <3>2. Len(eps) + 1 = k
      BY <1>0, <2>3
    <3>3. rdr' = [at |-> rdr.at + 1, node |-> id, ep |-> k]
      BY <2>2, <3>1, <3>2
    <3>4. nodes' = [nodes EXCEPT ![id] = NodeTo(s, id, k, p.intf)]
      BY <2>2, <2>3, <2>4, <3>1
    <3> QED
      BY <3>3, <3>4
  <2> QED
    BY <1>0, <1>4, <1>7, <2>5 DEF TakesTag
<1> QED
  BY <1>5, <1>6, <1>7

LEMMA TakesIf ==
  ASSUME NEW s, SavedOk(s), NEW p, p.node \in DOMAIN s.nodes, p.ep \in 1 .. Len(s.nodes[p.node].eps),
         p.intf \in 1 .. IfsOf(s, p.node, p.ep), p.node # 0, file.ver = s.ver,
         rdr = [at |-> rdr.at, node |-> rdr.node, ep |-> rdr.ep],
         rdr.node = IF p.node \in DOMAIN nodes THEN p.node ELSE 0,
         rdr.ep = IF p.node \in DOMAIN nodes THEN p.ep ELSE 0,
         p.node \in DOMAIN nodes => nodes[p.node] = Before(s, p.node, p.ep, p.intf),
         NEW t, t = F!TagAt(s.nodes, p), t.tag = "IF", F!IfLoad(t)
  PROVE  TakesTag(s, p)
<1> DEFINE id == p.node
           k == p.ep
           n == p.intf
           it == s.nodes[id].eps[k].ifs[n]
           eps == nodes[rdr.node].eps
           ifs == eps[rdr.ep].ifs
           data == IF file.ver <= 4 /\ t.id = "ALARM" THEN << >> ELSE F!Get(t.subs.data, << >>)
           i == [cls |-> t.id, ver |-> F!Get(t.subs.ver, 1), data |-> data, groups |-> F!GroupData(t)]
           skips == rdr.ep = 0 \/ \E j \in 1 .. Len(ifs) : ifs[j].cls = t.id
<1>0. Len(s.nodes[id].eps) \in Nat /\ k \in Nat \ {0} /\ IfsOf(s, id, k) \in Nat /\ n \in Nat \ {0}
  BY SavedNode
<1>1. t = F!IfTag(it)
  BY <1>0 DEF F!TagAt
<1>2. t.id = it.cls /\ i = F!KeptIf(s, it)
  <2>1. id \in DOMAIN s.nodes /\ k \in 1 .. Len(s.nodes[id].eps) /\ n \in 1 .. IfsOf(s, id, k)
    OBVIOUS
  <2>2. t.id = it.cls /\ IfRead(s.ver, t) = F!KeptIf(s, it)
    <3>1. it = s.nodes[id].eps[k].ifs[n]
      OBVIOUS
    <3> HIDE DEF id, k, n, it
    <3>2. F!IfTag(it).id = it.cls /\ IfRead(s.ver, F!IfTag(it)) = F!KeptIf(s, it)
      BY <2>1, <3>1, IfComesBack
    <3> QED
      BY <1>1, <3>2
  <2> QED
    BY <2>2 DEF IfRead
<1> HIDE DEF i, skips, it
<1>3. /\ nodes' = IF skips THEN nodes
                  ELSE [nodes EXCEPT ![rdr.node] =
                          [nodes[rdr.node] EXCEPT !.eps = [eps EXCEPT ![rdr.ep] = [eps[rdr.ep] EXCEPT !.ifs = Append(ifs, i)]]]]
      /\ rdr' = [rdr EXCEPT !.at = @ + 1] /\ UNCHANGED << key, grp_node >>
  BY DEF F!IfLoad, i, skips
<1>4. CASE id \notin DOMAIN nodes
  <2>1. rdr.node = 0 /\ rdr.ep = 0
    BY <1>4
  <2>2. skips
    BY <2>1 DEF skips
  <2> QED
    BY <1>3, <1>4, <2>1, <2>2 DEF TakesTag
<1>5. CASE id \in DOMAIN nodes
  <2> DEFINE old == EpsTo(s, id, k, n - 1)
  <2>1. nodes[id] = NodeIs(F!KeptOwn(id, s.nodes[id].own), old)
    <3>1. k \in Nat /\ n \in Nat /\ k > 0 /\ n > 0
      BY <1>0
    <3>2. Before(s, id, k, n) = NodeTo(s, id, k, n - 1)
      BY <3>1, BeforeIs
    <3> QED
      BY <1>5, <3>2 DEF NodeTo
  <2>2. eps = old /\ rdr.node = id /\ rdr.ep = k /\ k # 0
    <3>1. nodes[id].eps = old
      BY <2>1, NodeEps
    <3> QED
      BY <1>0, <1>5, <3>1
  <2>3. ~ HasIf(old, k, it.cls) /\ WithIf(old, k, F!KeptIf(s, it)) = EpsTo(s, id, k, n)
    <3>1. id \in DOMAIN s.nodes /\ k \in 1 .. Len(s.nodes[id].eps) /\ n \in 1 .. IfsOf(s, id, k)
      OBVIOUS
    <3>2. old = EpsTo(s, id, k, n - 1) /\ it = s.nodes[id].eps[k].ifs[n]
      BY DEF it
    <3> HIDE DEF id, k, n, old
    <3> QED
      BY <3>1, <3>2, NextIf
  <2> HIDE DEF old
  <2>4. ~ skips
    BY <1>2, <2>2, <2>3 DEF skips, HasIf
  <2>5. [eps EXCEPT ![rdr.ep] = [eps[rdr.ep] EXCEPT !.ifs = Append(ifs, i)]] = EpsTo(s, id, k, n)
    BY <1>2, <2>2, <2>3 DEF WithIf
  <2>6. [nodes[id] EXCEPT !.eps = EpsTo(s, id, k, n)] = NodeTo(s, id, k, n)
    BY <2>1, NodeWithEps DEF NodeTo
  <2>7. /\ nodes' = [nodes EXCEPT ![id] = NodeTo(s, id, k, n)]
        /\ rdr' = [at |-> rdr.at + 1, node |-> id, ep |-> k]
    BY <1>3, <2>2, <2>4, <2>5, <2>6
  <2> QED
    BY <1>0, <1>3, <1>5, <2>7 DEF TakesTag
<1> QED
  BY <1>4, <1>5

LEMMA TagTaken ==
  ASSUME NEW s, SavedOk(s), NEW r, PlaceOk(s, r), r.at # << >>, ReaderAt(r), file.ver = s.ver,
         \A id \in DOMAIN nodes : nodes[id] = KnownAt(s, r, id),
         rdr = [at |-> rdr.at, node |-> rdr.node, ep |-> rdr.ep],
         NEW t, t = F!TagAt(s.nodes, r.at[1]),
         F!NwLoad(t) \/ F!SecLoad(t) \/ F!NodeLoad(t) \/ F!EpLoad(t) \/ F!IfLoad(t)
  PROVE  TakesTag(s, r.at[1])
<1> DEFINE p == r.at[1]
<1>1. /\ p.node \in DOMAIN s.nodes /\ p.node \notin r.left
      /\ p.ep \in 0 .. Len(s.nodes[p.node].eps) /\ p.node \in NodeIds \cup {Ctl}
  BY OnwardCases
<1>2. /\ p.ep = 0 => p.intf = 0
      /\ p.ep > 0 => p.intf \in 0 .. IfsOf(s, p.node, p.ep)
  BY DEF PlaceOk
<1>3. p.node # 0
  BY <1>1, PartsAssumption DEF F!StoreAssumption
<1>4. p.node \in DOMAIN nodes => nodes[p.node] = Before(s, p.node, p.ep, p.intf)
  BY <1>1 DEF KnownAt
<1>5. Len(s.nodes[p.node].eps) \in Nat /\ p.ep \in Nat /\ (p.ep > 0 => IfsOf(s, p.node, p.ep) \in Nat)
  BY <1>1, SavedNode
<1>6. p.ep > 0 => /\ rdr.node = IF p.node \in DOMAIN nodes THEN p.node ELSE 0
                  /\ p.node \notin DOMAIN nodes => rdr.ep = 0
                  /\ p.node \in DOMAIN nodes /\ p.intf > 0 => rdr.ep = p.ep
  BY DEF ReaderAt
<1> HIDE DEF p
<1>7. CASE p.ep = 0
  <2>1. t = F!NodeTag(p.node, s.nodes[p.node])
    BY <1>7 DEF F!TagAt, p
  <2>2. t.tag = "NODE"
    BY <2>1 DEF F!NodeTag
  <2>3. F!NodeLoad(t)
    BY <2>2 DEF F!NwLoad, F!SecLoad, F!EpLoad, F!IfLoad
  <2>4. p.node \in DOMAIN nodes => nodes[p.node] = F!Blank
    BY <1>2, <1>4, <1>7 DEF Before
  <2>5. TakesTag(s, p)
    BY <1>1, <1>2, <1>7, <2>2, <2>3, <2>4, TakesNode DEF p
  <2> QED
    BY <2>5 DEF p
<1>8. CASE p.ep > 0 /\ p.intf = 0
  <2>1. t = F!EpTag(p.node, s.nodes[p.node].eps[p.ep])
    BY <1>8 DEF F!TagAt, p
  <2>2. t.tag = "EP"
    BY <2>1 DEF F!EpTag
  <2>3. F!EpLoad(t)
    BY <2>2 DEF F!NwLoad, F!SecLoad, F!NodeLoad, F!IfLoad
  <2>4. p.ep \in 1 .. Len(s.nodes[p.node].eps)
    BY <1>1, <1>5, <1>8
  <2>5. TakesTag(s, p)
    BY <1>1, <1>3, <1>4, <1>6, <1>8, <2>2, <2>3, <2>4, TakesEp DEF p
  <2> QED
    BY <2>5 DEF p
<1>9. CASE p.ep > 0 /\ p.intf # 0
  <2>1. t = F!IfTag(s.nodes[p.node].eps[p.ep].ifs[p.intf])
    <3>1. p.ep # 0
      BY <1>5, <1>9
    <3> QED
      BY <1>9, <3>1 DEF F!TagAt, p
  <2>2. t.tag = "IF"
    <3> DEFINE it == s.nodes[p.node].eps[p.ep].ifs[p.intf]
    <3>1. t = F!IfTag(it)
      BY <2>1
    <3> HIDE DEF it
    <3> QED
      BY <3>1 DEF F!IfTag
  <2>3. F!IfLoad(t)
    BY <2>2 DEF F!NwLoad, F!SecLoad, F!NodeLoad, F!EpLoad
  <2>4. p.ep \in 1 .. Len(s.nodes[p.node].eps) /\ p.intf \in 1 .. IfsOf(s, p.node, p.ep) /\ p.intf > 0
    BY <1>1, <1>2, <1>5, <1>9
  <2>5. rdr.ep = IF p.node \in DOMAIN nodes THEN p.ep ELSE 0
    BY <1>6, <1>9, <2>4
  <2>6. TakesTag(s, p)
    BY <1>1, <1>3, <1>4, <1>6, <1>9, <2>2, <2>3, <2>4, <2>5, TakesIf DEF p
  <2> QED
    BY <2>6 DEF p
<1>10. p.ep = 0 \/ p.ep > 0
  BY <1>5
<1> QED
  BY <1>7, <1>8, <1>9, <1>10

---------------------------------------------------------------------------
\* The writer puts a tag behind the others.
LEMMA TagsLen ==
  ASSUME NEW f, NEW s, NEW w, F!Walk(s.nodes, w) \/ InWalk(s, w), TagsOf(f, s, w)
  PROVE  /\ w \in Seq(F!Rests) /\ Len(w) \in Nat \ {0} /\ Len(f.tags) = Len(w) + 1
<1>1. w \in Seq(F!Rests) /\ w # << >>
  BY DEF F!Walk, InWalk
<1>2. Len(w) \in Nat \ {0}
  BY <1>1, FirstIn
<1>3. f.tags = [k \in 1 .. Len(w) + 1 |-> f.tags[k]]
  BY DEF TagsOf
<1> QED
  BY <1>1, <1>2, <1>3, Behind

LEMMA BlankListed == F!Listed(F!Blank.own, F!Blank.eps)
<1> DEFINE e == F!Ep(0, << >>, 0, << >>)
<1>1. F!Blank.own = F!NoInfo /\ F!Blank.eps = << e >>
  BY DEF F!Blank
<1>2. F!NoInfo \in F!Owns
  BY EmptySeq DEF F!NoInfo, F!Owns
<1>3. e \in F!Eps /\ e.id = 0 /\ e.ifs = << >>
  BY EmptySeq DEF F!Ep, F!Eps
<1> HIDE DEF e
<1>4. << e >> \in Seq(F!Eps) /\ << e >> # << >> /\ << e >>[1] = e /\ Len(<< e >>) = 1
  BY <1>3
<1>5. Len(e.ifs) = 0
  BY <1>3, EmptySeq
<1> QED
  BY <1>1, <1>2, <1>3, <1>4, <1>5 DEF F!Listed

LEMMA KeptListed ==
  ASSUME NEW s, SavedOk(s), NEW id \in DOMAIN s.nodes
  PROVE  F!Listed(F!Kept(s, id).own, F!Kept(s, id).eps)
<1> DEFINE eps == s.nodes[id].eps
           own == s.nodes[id].own
           kept == [k \in DOMAIN eps |-> F!KeptEp(s, id, eps[k])]
<1>1. F!Kept(s, id).own = F!KeptOwn(id, own) /\ F!Kept(s, id).eps = kept
  BY DEF F!Kept
<1>2. own \in F!Owns /\ eps \in Seq(F!Eps) /\ Len(eps) \in Nat \ {0} /\ DOMAIN eps = 1 .. Len(eps)
  BY SavedNode
<1>3. F!KeptOwn(id, own) \in F!Owns
  BY <1>2, EmptySeq DEF F!KeptOwn, F!Owns
<1>4. ASSUME NEW k \in 1 .. Len(eps)
      PROVE  /\ F!KeptEp(s, id, eps[k]) \in F!Eps
             /\ F!KeptEp(s, id, eps[k]).id = eps[k].id
             /\ \A i, j \in 1 .. Len(F!KeptEp(s, id, eps[k]).ifs) :
                  F!KeptEp(s, id, eps[k]).ifs[i].cls = F!KeptEp(s, id, eps[k]).ifs[j].cls => i = j
  <2> DEFINE ifs == eps[k].ifs
             some == [i \in DOMAIN ifs |-> F!KeptIf(s, ifs[i])]
             plus == IF id = Ctl THEN 0 ELSE eps[k].plus
  <2>1. ifs \in Seq(F!Ifs) /\ IfsOf(s, id, k) = Len(ifs) /\ eps[k] \in F!Eps
    BY SavedNode DEF IfsOf
  <2>2. \A i \in F!Ifs : F!KeptIf(s, i) \in F!Ifs /\ F!KeptIf(s, i).cls = i.cls
    BY EmptySeq DEF F!KeptIf, F!Ifs
  <2>3. some \in Seq(F!Ifs) /\ Len(some) = Len(ifs) /\ \A i \in 1 .. Len(ifs) : some[i].cls = ifs[i].cls
    BY <2>1, <2>2
  <2>4. F!KeptEp(s, id, eps[k]) = [id |-> eps[k].id, name |-> eps[k].name, plus |-> plus, ifs |-> some]
    BY DEF F!KeptEp, F!Ep
  <2>5. \A i, j \in 1 .. Len(ifs) : ifs[i].cls = ifs[j].cls => i = j
    BY <2>1, SavedNode
  <2>6. eps[k].id \in Nat /\ eps[k].name \in Seq(Nat) /\ plus \in Nat
    BY <2>1 DEF F!Eps
  <2> HIDE DEF some, plus, ifs, eps
  <2> QED
    BY <2>3, <2>4, <2>5, <2>6 DEF F!Eps
<1>5. kept \in Seq(F!Eps) /\ Len(kept) = Len(eps) /\ \A k \in 1 .. Len(eps) : kept[k] = F!KeptEp(s, id, eps[k])
  BY <1>2, <1>4
<1>6. eps[1].id = 0 /\ \A k \in 2 .. Len(eps) : eps[k].id # 0
  BY <1>2, SavedNode
<1>7. kept # << >>
  BY <1>2, <1>5, EmptySeq
<1> HIDE DEF kept, eps, own
<1> QED
  BY <1>1, <1>2, <1>3, <1>4, <1>5, <1>6, <1>7 DEF F!Listed

LEMMA WritesOn ==
  ASSUME SavedOk(Now), NEW w, SavingAlong(w), F!SaveWrites,
         file = [ver |-> file.ver, tags |-> file.tags, sealed |-> file.sealed]
  PROVE  (\E v : SavingAlong(v))'
<1> DEFINE all == Append(w, rest')
           n == Len(w)
<1>1. InWalk(Now, w) /\ rest = w[n] /\ PlaceOk(Now, rest) /\ TagsOf(file, Now, w) /\ rest.at # << >>
  BY DEF SavingAlong, F!SaveWrites
<1>2. w \in Seq(F!Rests) /\ n \in Nat \ {0} /\ Len(file.tags) = n + 1
  BY <1>1, TagsLen
<1>3. rest' = F!Onward(nodes, rest) /\ UNCHANGED << nodes, key, grp_node >> /\ Now.nodes = nodes
  BY DEF F!SaveWrites, Now
<1>4. Now' = Now
  BY <1>3 DEF Now
<1>5. PlaceOk(Now, rest')
  BY <1>1, <1>3, OnwardOk
<1>6. rest' \in F!Rests
  BY <1>5 DEF PlaceOk
<1> HIDE DEF n
<1>7. /\ all \in Seq(F!Rests) /\ Len(all) = n + 1 /\ all # << >>
      /\ all[n + 1] = rest' /\ \A k \in 1 .. n : all[k] = w[k]
  BY <1>2, <1>6, AppendProperties DEF n
<1>8. InWalk(Now, all)
  <2>1. all[1] = F!FromCtl(DOMAIN Now.nodes)
    BY <1>1, <1>2, <1>7 DEF InWalk
  <2>2. ASSUME NEW k \in 1 .. n PROVE all[k].at # << >> /\ all[k + 1] = F!Onward(Now.nodes, all[k])
    <3>1. CASE k = n
      BY <1>1, <1>2, <1>3, <1>7, <3>1
    <3>2. CASE k # n
      <4>1. k \in 1 .. n - 1 /\ k + 1 \in 1 .. n
        BY <1>2, <3>2
      <4> QED
        BY <1>1, <1>7, <4>1 DEF InWalk, n
    <3> QED
      BY <3>1, <3>2
  <2>3. Len(all) - 1 = n
    BY <1>2, <1>7
  <2> QED
    BY <1>7, <2>1, <2>2, <2>3 DEF InWalk
<1>9. TagsOf(file', Now, all)
  <2> DEFINE t == F!TagAt(nodes, rest.at[1])
             tags == file.tags
  <2>1. file' = [file EXCEPT !.tags = Append(@, t)]
    BY DEF F!SaveWrites
  <2>2. file'.ver = file.ver /\ file'.tags = Append(tags, t)
    BY <2>1
  <2>3. tags = [k \in 1 .. n + 1 |-> tags[k]] /\ n + 1 \in Nat
    BY <1>1, <1>2 DEF TagsOf, n
  <2> HIDE DEF t, tags
  <2>4. Append(tags, t) = [k \in 1 .. (n + 1) + 1 |-> IF k <= n + 1 THEN tags[k] ELSE t]
    BY <2>3, Behind
  <2>5. \A k \in 1 .. n + 1 : file'.tags[k] = tags[k]
    BY <1>2, <2>2, <2>4
  <2>6. file'.tags[n + 2] = t
    BY <1>2, <2>2, <2>4
  <2>7. file'.tags = [k \in 1 .. Len(all) + 1 |-> file'.tags[k]]
    BY <1>2, <1>7, <2>2, <2>4
  <2>8. /\ file'.ver = Now.ver /\ file'.tags[1].tag = "NW" /\ F!Get(file'.tags[1].subs, 0) = Now.grp
        /\ file'.tags[2] = F!SecTag(Now.key)
    BY <1>1, <1>2, <2>2, <2>5 DEF TagsOf, tags
  <2>9. ASSUME NEW k \in 1 .. n PROVE file'.tags[k + 2] = F!TagAt(Now.nodes, all[k].at[1])
    <3>1. CASE k = n
      BY <1>1, <1>2, <1>3, <1>7, <2>6, <3>1 DEF t
    <3>2. CASE k # n
      <4>1. k \in 1 .. n - 1 /\ k + 2 \in 1 .. n + 1
        BY <1>2, <3>2
      <4>2. tags[k + 2] = F!TagAt(Now.nodes, w[k].at[1])
        BY <1>1, <4>1 DEF TagsOf, tags, n
      <4> QED
        BY <1>7, <2>5, <4>1, <4>2
    <3> QED
      BY <3>1, <3>2
  <2>10. Len(all) - 1 = n
    BY <1>2, <1>7
  <2> HIDE DEF all
  <2> QED
    BY <2>7, <2>8, <2>9, <2>10 DEF TagsOf
<1>10. rest' = all[Len(all)]
  BY <1>2, <1>7
<1> HIDE DEF all
<1>11. InWalk(Now', all) /\ PlaceOk(Now', rest') /\ TagsOf(file', Now', all)
  BY <1>4, <1>5, <1>8, <1>9
<1>12. PICK v : v = all
  OBVIOUS
<1>13. SavingAlong(v)'
  BY <1>10, <1>11, <1>12 DEF SavingAlong
<1> QED
  BY <1>13
---------------------------------------------------------------------------
\* The reader takes one tag after the other.
LEMMA ReaderMoves ==
  ASSUME NEW s, SavedOk(s), NEW r, PlaceOk(s, r), r.at # << >>, TakesTag(s, r.at[1])
  PROVE  ReaderAt(F!Onward(s.nodes, r))'
<1> DEFINE p == r.at[1]
           o == F!Onward(s.nodes, r)
<1>1. p \in [node : NodeIds \cup {Ctl}, ep : Nat, intf : Nat] /\ p.ep \in Nat
  BY OnwardCases
<1>2. ASSUME NEW i, NEW k, NEW n, o.at = F!At(i, k, n)
      PROVE  o.at # << >> /\ o.at[1].node = i /\ o.at[1].ep = k /\ o.at[1].intf = n
  BY <1>2 DEF F!At
<1>3. DOMAIN nodes' = DOMAIN nodes
  BY DEF TakesTag
<1>4. /\ rdr'.node = IF p.node \in DOMAIN nodes THEN p.node ELSE 0
      /\ p.node \notin DOMAIN nodes => rdr'.ep = 0
      /\ p.node \in DOMAIN nodes /\ p.ep > 0 => rdr'.ep = p.ep
  BY <1>1 DEF TakesTag
<1> HIDE DEF p, o
<1>5. ASSUME p.ep > 0, o.at = F!At(p.node, p.ep, p.intf + 1) PROVE ReaderAt(o)'
  BY <1>2, <1>3, <1>4, <1>5 DEF ReaderAt
<1>6. ASSUME o.at = F!At(p.node, p.ep + 1, 0) PROVE ReaderAt(o)'
  BY <1>2, <1>3, <1>4, <1>6 DEF ReaderAt
<1>7. ASSUME o.at = << >> PROVE ReaderAt(o)'
  BY <1>7 DEF ReaderAt
<1>8. ASSUME NEW i, o.at = F!At(i, 0, 0) PROVE ReaderAt(o)'
  BY <1>2, <1>8 DEF ReaderAt
<1>9. \/ p.ep > 0 /\ o.at = F!At(p.node, p.ep, p.intf + 1)
      \/ o.at = F!At(p.node, p.ep + 1, 0)
      \/ o.at = << >>
      \/ \E i \in r.left : o.at = F!At(i, 0, 0)
  <2>1. \/ p.ep > 0 /\ o = [left |-> r.left, at |-> F!At(p.node, p.ep, p.intf + 1)]
        \/ o = [left |-> r.left, at |-> F!At(p.node, p.ep + 1, 0)]
        \/ o = [left |-> {}, at |-> << >>]
        \/ \E i \in r.left : o = [left |-> r.left \ {i}, at |-> F!At(i, 0, 0)]
    BY OnwardCases DEF o, p
  <2>2. ASSUME NEW i \in r.left, o = [left |-> r.left \ {i}, at |-> F!At(i, 0, 0)] PROVE o.at = F!At(i, 0, 0)
    BY <2>2
  <2> QED
    BY <2>1, <2>2
<1> QED
  BY <1>5, <1>6, <1>7, <1>8, <1>9 DEF o

LEMMA ReadsOn ==
  ASSUME NEW s, NEW w, SealedBy(s, w), ReadingAlong(s, w), F!LoadTag,
         rdr = [at |-> rdr.at, node |-> rdr.node, ep |-> rdr.ep]
  PROVE  /\ ReadingAlong(s, w)' /\ DOMAIN nodes' = DOMAIN nodes
         /\ nodes' = [id \in DOMAIN nodes |-> nodes'[id]] \/ nodes' = nodes
         /\ rdr' = [at |-> rdr'.at, node |-> rdr'.node, ep |-> rdr'.ep]
<1> DEFINE n == Len(w)
           t == file.tags[rdr.at]
<1>1. SavedOk(s) /\ F!Walk(s.nodes, w) /\ TagsOf(file, s, w)
  BY DEF SealedBy
<1>2. w \in Seq(F!Rests) /\ n \in Nat \ {0} /\ Len(file.tags) = n + 1
  BY <1>1, TagsLen
<1>3. rdr.at \in 1 .. n + 1 /\ UNCHANGED file
  BY <1>2 DEF F!LoadTag, ReadingAlong
<1>4. F!NwLoad(t) \/ F!SecLoad(t) \/ F!NodeLoad(t) \/ F!EpLoad(t) \/ F!IfLoad(t)
  BY DEF F!LoadTag
<1>5. /\ file.tags[1].tag = "NW" /\ F!Get(file.tags[1].subs, 0) = s.grp
      /\ file.tags[2] = F!SecTag(s.key)
      /\ \A k \in 1 .. n - 1 : file.tags[k + 2] = F!TagAt(s.nodes, w[k].at[1])
  BY <1>1 DEF TagsOf
<1> HIDE DEF n, t
<1>6. CASE rdr.at = 1
  <2>1. t.tag = "NW" /\ F!Get(t.subs, 0) = s.grp
    BY <1>5, <1>6 DEF t
  <2>2. F!NwLoad(t)
    BY <1>4, <2>1 DEF F!SecLoad, F!NodeLoad, F!EpLoad, F!IfLoad
  <2>3. grp_node' = s.grp /\ rdr' = [rdr EXCEPT !.at = 2] /\ UNCHANGED << nodes, key >>
    BY <1>6, <2>1, <2>2 DEF F!NwLoad
  <2>4. rdr' = [at |-> 2, node |-> rdr.node, ep |-> rdr.ep]
    BY <2>3
  <2>5. \A id \in DOMAIN nodes : nodes[id] = F!Blank
    BY <1>6 DEF ReadingAlong
  <2>6. ReadingAlong(s, w)'
    BY <1>1, <1>2, <1>3, <2>3, <2>4, <2>5 DEF ReadingAlong, n
  <2> QED
    BY <2>3, <2>4, <2>6
<1>7. CASE rdr.at = 2
  <2>1. t = F!SecTag(s.key)
    BY <1>5, <1>7 DEF t
  <2>2. t.tag = "SEC" /\ F!Get(t.subs, 0) = s.key
    BY <2>1, GetSub DEF F!SecTag
  <2>3. F!SecLoad(t)
    BY <1>4, <2>2 DEF F!NwLoad, F!NodeLoad, F!EpLoad, F!IfLoad
  <2>4. key' = s.key /\ rdr' = [rdr EXCEPT !.at = 3] /\ UNCHANGED << nodes, grp_node >>
    BY <1>7, <2>2, <2>3 DEF F!SecLoad
  <2>5. rdr' = [at |-> 3, node |-> rdr.node, ep |-> rdr.ep]
    BY <2>4
  <2>6. (\A id \in DOMAIN nodes : nodes[id] = F!Blank) /\ grp_node = s.grp
    BY <1>7 DEF ReadingAlong
  <2>7. w[1] = [left |-> DOMAIN s.nodes \ {Ctl}, at |-> F!At(Ctl, 0, 0)]
    BY <1>1 DEF F!Walk, F!FromCtl
  <2>8. PlaceOk(s, w[1])
    <3>1. Len(s.nodes[Ctl].eps) \in Nat \ {0} /\ Ctl \in DOMAIN s.nodes
      BY <1>1, SavedNode DEF SavedOk
    <3>2. DOMAIN s.nodes \ {Ctl} \subseteq NodeIds
      BY <1>1 DEF SavedOk
    <3> DEFINE others == DOMAIN s.nodes \ {Ctl}
    <3>3. /\ others \subseteq NodeIds /\ others \subseteq DOMAIN s.nodes /\ Ctl \in DOMAIN s.nodes \ others
          /\ Ctl \in NodeIds \cup {Ctl} /\ 0 <= Len(s.nodes[Ctl].eps) /\ Len(s.nodes[Ctl].eps) \in Nat
      BY <3>1, <3>2
    <3> HIDE DEF others
    <3>4. PICK i : i = Ctl
      OBVIOUS
    <3>5. others \subseteq NodeIds /\ others \subseteq DOMAIN s.nodes
          /\ i \in NodeIds \cup {Ctl} /\ i \in DOMAIN s.nodes \ others /\ Len(s.nodes[i].eps) \in Nat
      BY <3>3, <3>4
    <3>6. PICK k : k = 0
      OBVIOUS
    <3>7. k \in Nat /\ k <= Len(s.nodes[i].eps) /\ (k > 0 => k \in 0 .. IfsOf(s, i, k)) /\ (k = 0 => k = 0)
      BY <3>5, <3>6
    <3>8. PlaceOk(s, [left |-> others, at |-> F!At(i, k, k)])
      BY <3>5, <3>7, PlaceAt
    <3> QED
      BY <2>7, <3>4, <3>6, <3>8 DEF others
  <2>9. w[1].left = DOMAIN s.nodes \ {Ctl} /\ w[1].at # << >>
        /\ w[1].at[1].node = Ctl /\ w[1].at[1].ep = 0 /\ w[1].at[1].intf = 0
    BY <2>7 DEF F!At
  <2>10. \A id : KnownAt(s, w[1], id) = F!Blank
    BY <2>9 DEF KnownAt, Before
  <2>11. ReaderAt(w[1])'
    BY <2>9 DEF ReaderAt
  <2>12. rdr'.at - 2 = 1 /\ rdr'.at \in 1 .. n + 2 /\ ~ (rdr'.at < 3)
    BY <1>2, <2>5
  <2>13. ReadingAlong(s, w)'
    BY <1>1, <1>3, <2>4, <2>6, <2>8, <2>10, <2>11, <2>12 DEF ReadingAlong, n
  <2> QED
    BY <2>4, <2>5, <2>13
<1>8. CASE rdr.at > 2
  <2>1. PICK k : k = rdr.at - 2
    OBVIOUS
  <2>2. k \in 1 .. n - 1 /\ rdr.at = k + 2 /\ ~ (rdr.at < 3)
    BY <1>2, <1>3, <1>8, <2>1
  <2>3. t = F!TagAt(s.nodes, w[k].at[1])
    BY <1>5, <2>2 DEF t
  <2>4. w[k].at # << >> /\ w[k + 1] = F!Onward(s.nodes, w[k])
    BY <1>1, <2>2 DEF F!Walk, n
  <2>5. /\ grp_node = s.grp /\ key = s.key
        /\ PlaceOk(s, w[k]) /\ ReaderAt(w[k])
        /\ \A id \in DOMAIN nodes : nodes[id] = KnownAt(s, w[k], id)
    BY <2>1, <2>2 DEF ReadingAlong
  <2>6. TakesTag(s, w[k].at[1])
    <3>1. file.ver = s.ver
      BY <1>1 DEF TagsOf
    <3> QED
      BY <1>1, <1>4, <2>3, <2>4, <2>5, <3>1, TagTaken
  <2>7. PlaceOk(s, w[k + 1])
    BY <1>1, <2>4, <2>5, OnwardOk
  <2>8. ReaderAt(w[k + 1])'
    BY <1>1, <2>4, <2>5, <2>6, ReaderMoves
  <2>9. /\ DOMAIN nodes' = DOMAIN nodes /\ UNCHANGED << key, grp_node >>
        /\ rdr' = [at |-> rdr.at + 1, node |-> rdr'.node, ep |-> rdr'.ep]
        /\ nodes' = [id \in DOMAIN nodes |-> nodes'[id]] \/ nodes' = nodes
    BY <2>6 DEF TakesTag
  <2>10. ASSUME NEW id \in DOMAIN nodes PROVE nodes'[id] = KnownAt(s, w[k + 1], id)
    <3> DEFINE p == w[k].at[1]
    <3>1. KnownAt(s, w[k + 1], id) = IF id = p.node THEN NodeTo(s, id, p.ep, p.intf) ELSE KnownAt(s, w[k], id)
      BY <1>1, <2>4, <2>5, OnwardKnows
    <3>2. nodes' = IF p.node \in DOMAIN nodes THEN [nodes EXCEPT ![p.node] = NodeTo(s, p.node, p.ep, p.intf)]
                   ELSE nodes
      BY <2>6 DEF TakesTag
    <3> HIDE DEF p
    <3> QED
      BY <2>5, <3>1, <3>2
  <2>11. rdr'.at - 2 = k + 1 /\ rdr'.at \in 1 .. n + 2 /\ ~ (rdr'.at < 3)
    BY <1>2, <2>2, <2>9
  <2>12. ReadingAlong(s, w)'
    BY <1>1, <1>3, <2>5, <2>7, <2>8, <2>9, <2>10, <2>11 DEF ReadingAlong, n
  <2> QED
    BY <2>9, <2>12
<1>9. rdr.at = 1 \/ rdr.at = 2 \/ rdr.at > 2
  BY <1>2, <1>3
<1> QED
  BY <1>6, <1>7, <1>8, <1>9

\* Behind the last tag, all that was saved is known.
LEMMA AllRead ==
  ASSUME NEW s, NEW w, SealedBy(s, w), ReadingAlong(s, w), F!LoadEnds
  PROVE  /\ LoadedIsSaved'
         /\ \A id \in DOMAIN nodes : F!Listed(nodes[id].own, nodes[id].eps)
<1> DEFINE n == Len(w)
<1>1. SavedOk(s) /\ F!Walk(s.nodes, w) /\ TagsOf(file, s, w) /\ saved = << s >>
  BY DEF SealedBy
<1>2. w \in Seq(F!Rests) /\ n \in Nat \ {0} /\ Len(file.tags) = n + 1
  BY <1>1, TagsLen
<1>3. rdr.at - 2 = n /\ ~ (rdr.at < 3)
  BY <1>2 DEF F!LoadEnds, ReadingAlong
<1>4. /\ grp_node = s.grp /\ key = s.key /\ PlaceOk(s, w[n])
      /\ \A id \in DOMAIN nodes : nodes[id] = KnownAt(s, w[n], id)
  BY <1>3 DEF ReadingAlong
<1>5. w[n].at = << >>
  BY <1>1 DEF F!Walk
<1>6. w[n].left = {}
  BY <1>4, <1>5 DEF PlaceOk
<1> HIDE DEF n
<1>7. \A id \in DOMAIN nodes : nodes[id] = IF id \in DOMAIN s.nodes THEN F!Kept(s, id) ELSE F!Blank
  BY <1>4, <1>5, <1>6 DEF KnownAt
<1>8. saved[1] = s /\ saved # << >>
  BY <1>1
<1>9. UNCHANGED << nodes, key, grp_node, saved >>
  BY DEF F!LoadEnds
<1>10. LoadedIsSaved'
  BY <1>4, <1>7, <1>8, <1>9 DEF LoadedIsSaved, F!LoadedIsSaved
<1>11. ASSUME NEW id \in DOMAIN nodes PROVE F!Listed(nodes[id].own, nodes[id].eps)
  <2>1. CASE id \in DOMAIN s.nodes
    BY <1>1, <1>7, <2>1, KeptListed
  <2>2. CASE id \notin DOMAIN s.nodes
    BY <1>7, <2>2, BlankListed
  <2> QED
    BY <2>1, <2>2
<1> QED
  BY <1>10, <1>11
---------------------------------------------------------------------------
\* A file of an earlier version was written by the same tags.
LEMMA OldIsSaved ==
  ASSUME NEW o \in OldFiles
  PROVE  /\ SavedOk(o) /\ F!Walk(o.nodes, o.walk) /\ TagsOf(F!OldFile(o), o, o.walk)
         /\ F!OldFile(o) = [ver |-> F!OldFile(o).ver, tags |-> F!OldFile(o).tags, sealed |-> F!OldFile(o).sealed]
<1> DEFINE f == F!OldFile(o)
           n == Len(o.walk) - 1
           more == [k \in 1 .. n |-> F!TagAt(o.nodes, o.walk[k].at[1])]
           first == << F!NwTag(F!NoSub), F!SecTag(o.key) >>
<1>1. /\ o.grp = 0 /\ DOMAIN o.nodes \subseteq NodeIds \cup {Ctl} /\ Ctl \in DOMAIN o.nodes
      /\ \A id \in DOMAIN o.nodes : F!Listed(o.nodes[id].own, o.nodes[id].eps)
      /\ F!Walk(o.nodes, o.walk)
  BY PartsAssumption DEF F!StoreAssumption
<1>2. n \in Nat /\ Len(o.walk) = n + 1
  <2>1. o.walk \in Seq(F!Rests) /\ o.walk # << >>
    BY <1>1 DEF F!Walk
  <2> QED
    BY <2>1, FirstIn
<1>3. f = [ver |-> o.ver, sealed |-> TRUE, tags |-> first \o more]
  BY DEF F!OldFile
<1> DEFINE t1 == F!NwTag(F!NoSub)
           t2 == F!SecTag(o.key)
<1>4. t1.tag = "NW" /\ F!Get(t1.subs, 0) = 0
  BY GetSub DEF F!NwTag
<1> HIDE DEF n, t1, t2, f
<1>5. /\ first \o more = [k \in 1 .. n + 2 |-> (first \o more)[k]]
      /\ (first \o more)[1] = t1 /\ (first \o more)[2] = t2
      /\ \A k \in 1 .. n : (first \o more)[k + 2] = F!TagAt(o.nodes, o.walk[k].at[1])
  <2> DEFINE Vals == {t1, t2} \cup {more[k] : k \in 1 .. n}
             a == << t1, t2 >>
  <2>1. a \in Seq(Vals) /\ Len(a) = 2 /\ a[1] = t1 /\ a[2] = t2
    OBVIOUS
  <2>2. more \in Seq(Vals) /\ Len(more) = n
    <3>1. more \in [1 .. n -> Vals]
      OBVIOUS
    <3> HIDE DEF Vals, more
    <3> QED
      BY <1>2, <3>1
  <2>3. \A k \in 1 .. n : more[k] = F!TagAt(o.nodes, o.walk[k].at[1])
    OBVIOUS
  <2>4. first = a
    BY DEF t1, t2
  <2> HIDE DEF Vals, a, more, first
  <2>5. /\ a \o more \in Seq(Vals) /\ Len(a \o more) = n + 2
        /\ \A k \in 1 .. n + 2 : (a \o more)[k] = IF k <= 2 THEN a[k] ELSE more[k - 2]
    <3>1. /\ a \o more \in Seq(Vals) /\ Len(a \o more) = Len(a) + Len(more)
          /\ \A k \in 1 .. Len(a) + Len(more) : (a \o more)[k] = IF k <= Len(a) THEN a[k] ELSE more[k - Len(a)]
      BY <2>1, <2>2, ConcatProperties
    <3>2. Len(a) + Len(more) = n + 2
      BY <1>2, <2>1, <2>2
    <3> QED
      BY <2>1, <3>1, <3>2
  <2>6. a \o more = [k \in 1 .. n + 2 |-> (a \o more)[k]]
    <3>1. PICK q : q = a \o more
      OBVIOUS
    <3>2. q \in Seq(Vals) /\ Len(q) = n + 2
      BY <2>5, <3>1
    <3>3. q = [k \in 1 .. n + 2 |-> q[k]]
      BY <3>2
    <3> QED
      BY <3>1, <3>3
  <2>7. \A k \in 1 .. n : (a \o more)[k + 2] = more[k]
    BY <1>2, <2>5
  <2> QED
    BY <1>2, <2>1, <2>3, <2>4, <2>5, <2>6, <2>7
<1>6. f.ver = o.ver /\ f.tags = first \o more
  BY <1>3
<1> HIDE DEF first, more
<1>7. /\ f.tags = [k \in 1 .. Len(o.walk) + 1 |-> f.tags[k]]
      /\ f.tags[1] = t1 /\ f.tags[2] = F!SecTag(o.key)
      /\ \A k \in 1 .. Len(o.walk) - 1 : f.tags[k + 2] = F!TagAt(o.nodes, o.walk[k].at[1])
  <2>1. Len(o.walk) + 1 = n + 2 /\ Len(o.walk) - 1 = n
    BY <1>2
  <2> QED
    BY <1>5, <1>6, <2>1 DEF t2
<1>8. TagsOf(f, o, o.walk)
  BY <1>1, <1>4, <1>6, <1>7 DEF TagsOf
<1>9. SavedOk(o)
  BY <1>1 DEF SavedOk
<1>10. f = [ver |-> f.ver, tags |-> f.tags, sealed |-> f.sealed]
  BY <1>3
<1> QED
  BY <1>1, <1>8, <1>9, <1>10 DEF f

LEMMA StoreStarts == F!Init => StoreInv
<1> SUFFICES ASSUME F!Init PROVE StoreInv
  OBVIOUS
<1>1. /\ table \subseteq NodeIds /\ job = "off" /\ rdr = F!Reader /\ ~ loaded
      /\ F!Reader = [at |-> 1, node |-> 0, ep |-> 0]
  BY DEF F!Init, F!Reader
<1>2. CASE file = F!NoFile
  <2>1. file = [ver |-> 0, tags |-> << >>, sealed |-> FALSE]
    BY <1>2 DEF F!NoFile
  <2>2. file = [ver |-> file.ver, tags |-> file.tags, sealed |-> file.sealed] /\ ~ file.sealed
    BY <2>1
  <2> QED
    BY <1>1, <2>2 DEF StoreInv, LoadedIsSaved, F!LoadedIsSaved
<1>3. CASE \E o \in OldFiles : file = F!OldFile(o) /\ saved = << o >>
  <2>1. PICK o \in OldFiles : file = F!OldFile(o) /\ saved = << o >>
    BY <1>3
  <2>2. SealedBy(o, o.walk) /\ file = [ver |-> file.ver, tags |-> file.tags, sealed |-> file.sealed]
    BY <2>1, OldIsSaved DEF SealedBy
  <2> QED
    BY <1>1, <2>2 DEF StoreInv, LoadedIsSaved, F!LoadedIsSaved
<1> QED
  BY <1>2, <1>3 DEF F!Init
---------------------------------------------------------------------------
\* The steps that leave the file as it is.
LEMMA StaysSealed ==
  ASSUME StoreInv, UNCHANGED << file, saved >>
  PROVE  /\ file'.sealed => (\E s, w : SealedBy(s, w))'
         /\ file' = [ver |-> file'.ver, tags |-> file'.tags, sealed |-> file'.sealed]
<1>1. ASSUME NEW s, NEW w, SealedBy(s, w) PROVE SealedBy(s, w)'
  BY <1>1 DEF SealedBy
<1> QED
  BY <1>1 DEF StoreInv

LEMMA NotLoaded == ASSUME ~ loaded' PROVE LoadedIsSaved'
BY DEF LoadedIsSaved, F!LoadedIsSaved

LEMMA ProgramSteps ==
  ASSUME StoreInv, F!Starts \/ F!Loads \/ F!LoadsNothing \/ F!Stops \/ F!ChangesBehind
  PROVE  StoreInv'
<1>1. UNCHANGED << file, saved >>
  BY DEF F!Starts, F!Loads, F!LoadsNothing, F!Stops, F!ChangesBehind
<1>2. /\ file'.sealed => (\E s, w : SealedBy(s, w))'
      /\ file' = [ver |-> file'.ver, tags |-> file'.tags, sealed |-> file'.sealed]
  BY <1>1, StaysSealed
<1>3. ~ loaded'
  BY DEF StoreInv, F!Starts, F!Loads, F!LoadsNothing, F!Stops, F!ChangesBehind
<1>4. LoadedIsSaved'
  BY <1>3, NotLoaded
<1>5. CASE F!Starts
  <2>1. nodes' = [id \in table \cup {Ctl} |-> F!Blank] /\ table' = table /\ job = "off" /\ job' = "init" /\ rdr' = rdr
    BY <1>5 DEF F!Starts
  <2>2. nodes' = [id \in table' \cup {Ctl} |-> nodes'[id]] /\ \A id \in DOMAIN nodes' : nodes'[id] = F!Blank
    BY <2>1
  <2> QED
    BY <1>2, <1>3, <1>4, <2>1, <2>2 DEF StoreInv
<1>6. CASE F!Loads
  <2>1. /\ UNCHANGED << table, nodes, file, rdr, saved >> /\ job = "init"
        /\ job' = IF file.sealed THEN "load" ELSE "failed"
    BY <1>6 DEF F!Loads
  <2>2. \A id \in DOMAIN nodes : nodes[id] = F!Blank
    BY <2>1 DEF StoreInv
  <2>3. rdr.at = 1
    BY <2>1 DEF StoreInv, F!Reader
  <2>4. ASSUME NEW s, NEW w, SealedBy(s, w) PROVE SealedBy(s, w)' /\ ReadingAlong(s, w)'
    <3>1. F!Walk(s.nodes, w) /\ TagsOf(file, s, w)
      BY <2>4 DEF SealedBy
    <3>2. Len(w) \in Nat \ {0}
      BY <3>1, TagsLen
    <3>3. rdr'.at \in 1 .. Len(w) + 2 /\ rdr'.at = 1
      BY <2>1, <2>3, <3>2
    <3>4. ReadingAlong(s, w)'
      BY <2>1, <2>2, <3>1, <3>3 DEF ReadingAlong
    <3> QED
      BY <2>1, <2>4, <3>4 DEF SealedBy
  <2>5. file.sealed => (\E s, w : SealedBy(s, w) /\ ReadingAlong(s, w))'
    BY <2>4 DEF StoreInv
  <2> QED
    BY <1>2, <1>3, <1>4, <2>1, <2>5 DEF StoreInv
<1>7. CASE F!LoadsNothing
  <2>1. UNCHANGED << table, nodes, rdr >> /\ job = "init" /\ job' = "idle"
    BY <1>7 DEF F!LoadsNothing
  <2>2. \A id \in DOMAIN nodes : F!Listed(nodes[id].own, nodes[id].eps)
    BY <2>1, BlankListed DEF StoreInv
  <2> QED
    BY <1>2, <1>3, <1>4, <2>1, <2>2 DEF StoreInv
<1>8. CASE F!Stops
  <2>1. job' = "off" /\ table' = table /\ rdr' = F!Reader
    BY <1>8 DEF F!Stops
  <2> QED
    BY <1>2, <1>3, <1>4, <2>1 DEF StoreInv, F!Reader
<1>9. CASE F!ChangesBehind
  <2>1. job = "off" /\ job' = "off" /\ rdr' = rdr /\ table' \subseteq NodeIds
    BY <1>9 DEF F!ChangesBehind, StoreInv
  <2> QED
    BY <1>2, <1>3, <1>4, <2>1 DEF StoreInv
<1> QED
  BY <1>5, <1>6, <1>7, <1>8, <1>9

LEMMA NetworkSteps ==
  ASSUME StoreInv, F!Interview \/ F!NodeComes \/ F!NodeGoes \/ F!Associates
  PROVE  StoreInv'
<1>1. UNCHANGED << file, saved, rdr, job >> /\ job = "idle" /\ ~ loaded'
  BY DEF F!Interview, F!NodeComes, F!NodeGoes, F!Associates
<1>2. /\ file'.sealed => (\E s, w : SealedBy(s, w))'
      /\ file' = [ver |-> file'.ver, tags |-> file'.tags, sealed |-> file'.sealed]
  BY <1>1, StaysSealed
<1>3. LoadedIsSaved'
  BY <1>1, NotLoaded
<1>4. /\ nodes = [id \in table \cup {Ctl} |-> nodes[id]] /\ table \subseteq NodeIds
      /\ \A id \in DOMAIN nodes : F!Listed(nodes[id].own, nodes[id].eps)
  BY <1>1 DEF StoreInv
<1>5. /\ table' \subseteq NodeIds /\ nodes' = [id \in table' \cup {Ctl} |-> nodes'[id]]
      /\ \A id \in DOMAIN nodes' : F!Listed(nodes'[id].own, nodes'[id].eps)
  <2>1. CASE F!Interview
    <3>1. PICK id \in table, d \in Found :
            nodes' = [nodes EXCEPT ![id] = [own |-> d.own, flags |-> F!Queues(d.own), eps |-> d.eps]]
      BY <2>1 DEF F!Interview
    <3>2. F!Listed(d.own, d.eps)
      BY PartsAssumption DEF F!StoreAssumption
    <3> DEFINE n == [own |-> d.own, flags |-> F!Queues(d.own), eps |-> d.eps]
    <3>3. F!Listed(n.own, n.eps) /\ nodes' = [nodes EXCEPT ![id] = n]
      BY <3>1, <3>2
    <3>4. table' = table
      BY <2>1 DEF F!Interview
    <3> HIDE DEF n
    <3> QED
      BY <1>4, <3>3, <3>4
  <2>2. CASE F!NodeComes
    <3>1. PICK id \in NodeIds \ table :
            /\ table' = table \cup {id}
            /\ nodes' = [i \in table' \cup {Ctl} |-> IF i = id THEN F!Blank ELSE nodes[i]]
      BY <2>2 DEF F!NodeComes
    <3> QED
      BY <1>4, <3>1, BlankListed
  <2>3. CASE F!NodeGoes
    <3>1. PICK id \in table : table' = table \ {id} /\ nodes' = [i \in table' \cup {Ctl} |-> nodes[i]]
      BY <2>3 DEF F!NodeGoes
    <3> QED
      BY <1>4, <3>1
  <2>4. CASE F!Associates
    <3>1. UNCHANGED << table, nodes >>
      BY <2>4 DEF F!Associates
    <3> QED
      BY <1>4, <3>1
  <2> QED
    BY <2>1, <2>2, <2>3, <2>4
<1> QED
  BY <1>1, <1>2, <1>3, <1>5 DEF StoreInv

LEMMA LoadSteps ==
  ASSUME StoreInv, F!LoadTag \/ F!LoadEnds \/ F!LoadFails
  PROVE  StoreInv'
<1>1. UNCHANGED << file, saved, table >> /\ job = "load"
  BY DEF F!LoadTag, F!LoadEnds, F!LoadFails
<1>2. /\ file'.sealed => (\E s, w : SealedBy(s, w))'
      /\ file' = [ver |-> file'.ver, tags |-> file'.tags, sealed |-> file'.sealed]
  BY <1>1, StaysSealed
<1>3. /\ nodes = [id \in table \cup {Ctl} |-> nodes[id]] /\ table \subseteq NodeIds /\ ~ loaded /\ file.sealed
      /\ rdr = [at |-> rdr.at, node |-> rdr.node, ep |-> rdr.ep]
  BY <1>1 DEF StoreInv
<1>4. PICK s, w : SealedBy(s, w) /\ ReadingAlong(s, w)
  BY <1>1 DEF StoreInv
<1>5. CASE F!LoadTag
  <2>1. UNCHANGED << job, loaded >>
    BY <1>5 DEF F!LoadTag
  <2>2. /\ ReadingAlong(s, w)' /\ DOMAIN nodes' = DOMAIN nodes
        /\ nodes' = [id \in DOMAIN nodes |-> nodes'[id]] \/ nodes' = nodes
        /\ rdr' = [at |-> rdr'.at, node |-> rdr'.node, ep |-> rdr'.ep]
    BY <1>3, <1>4, <1>5, ReadsOn
  <2>3. SealedBy(s, w)'
    BY <1>1, <1>4 DEF SealedBy
  <2>4. nodes' = [id \in table' \cup {Ctl} |-> nodes'[id]]
    BY <1>1, <1>3, <2>2
  <2>5. LoadedIsSaved'
    BY <1>3, <2>1, NotLoaded
  <2>6. (\E s_, w_ : SealedBy(s_, w_) /\ ReadingAlong(s_, w_))'
    BY <2>2, <2>3
  <2> QED
    BY <1>1, <1>2, <1>3, <2>1, <2>2, <2>4, <2>5, <2>6 DEF StoreInv
<1>6. CASE F!LoadEnds
  <2>1. job' = "idle" /\ rdr' = F!Reader /\ nodes' = nodes
    BY <1>6 DEF F!LoadEnds
  <2>2. LoadedIsSaved' /\ \A id \in DOMAIN nodes : F!Listed(nodes[id].own, nodes[id].eps)
    BY <1>4, <1>6, AllRead
  <2> QED
    BY <1>1, <1>2, <1>3, <2>1, <2>2 DEF StoreInv, F!Reader
<1>7. CASE F!LoadFails
  <2>1. job' = "failed" /\ rdr' = F!Reader /\ UNCHANGED << nodes, loaded >>
    BY <1>7 DEF F!LoadFails
  <2>2. LoadedIsSaved'
    BY <1>3, <2>1, NotLoaded
  <2> QED
    BY <1>1, <1>2, <1>3, <2>1, <2>2 DEF StoreInv, F!Reader
<1> QED
  BY <1>5, <1>6, <1>7

LEMMA NowIsOk ==
  ASSUME StoreInv, job \in {"idle", "save"}
  PROVE  SavedOk(Now)
BY DEF StoreInv, SavedOk, Now

LEMMA SaveSteps ==
  ASSUME StoreInv, F!SaveBegins \/ F!SaveWrites \/ F!SaveEnds \/ F!SaveFails
  PROVE  StoreInv'
<1>1. /\ UNCHANGED << table, nodes, key, grp_node, rdr >> /\ job \in {"idle", "save"}
      /\ job' \in {"idle", "save"}
  BY DEF F!SaveBegins, F!SaveWrites, F!SaveEnds, F!SaveFails
<1>2. /\ nodes = [id \in table \cup {Ctl} |-> nodes[id]] /\ table \subseteq NodeIds
      /\ \A id \in DOMAIN nodes : F!Listed(nodes[id].own, nodes[id].eps)
      /\ rdr = [at |-> rdr.at, node |-> rdr.node, ep |-> rdr.ep] /\ rdr = F!Reader
      /\ file = [ver |-> file.ver, tags |-> file.tags, sealed |-> file.sealed]
  BY <1>1 DEF StoreInv
<1>3. SavedOk(Now) /\ Now' = Now
  BY <1>1, NowIsOk DEF Now
<1>4. Now.nodes = nodes /\ Now.key = key /\ Now.grp = grp_node /\ Now.ver = F!Ver
  BY DEF Now
<1>5. CASE F!SaveBegins
  <2> DEFINE t1 == F!NwTag(F!Sub(grp_node))
             t2 == F!SecTag(key)
             r == F!FromCtl(DOMAIN nodes)
  <2>1. /\ file' = [ver |-> F!Ver, sealed |-> FALSE, tags |-> << t1, t2 >>]
        /\ job' = "save" /\ rest' = r /\ ~ loaded'
    BY <1>5 DEF F!SaveBegins
  <2>2. t1.tag = "NW" /\ F!Get(t1.subs, 0) = grp_node
    BY GetSub DEF F!NwTag
  <2>3. PlaceOk(Now, r)
    <3> DEFINE others == DOMAIN nodes \ {Ctl}
    <3>1. r = [left |-> others, at |-> F!At(Ctl, 0, 0)]
      BY DEF F!FromCtl
    <3>2. Ctl \in DOMAIN nodes /\ DOMAIN nodes \subseteq NodeIds \cup {Ctl}
      BY <1>2
    <3>3. Len(nodes[Ctl].eps) \in Nat \ {0}
      BY <1>3, <1>4, <3>2, SavedNode
    <3>4. PICK i, k : i = Ctl /\ k = 0
      OBVIOUS
    <3>5. /\ others \subseteq NodeIds /\ others \subseteq DOMAIN nodes
          /\ i \in NodeIds \cup {Ctl} /\ i \in DOMAIN nodes \ others
          /\ k \in Nat /\ k <= Len(nodes[i].eps) /\ (k > 0 => k \in 0 .. IfsOf(Now, i, k)) /\ (k = 0 => k = 0)
          /\ Len(nodes[i].eps) \in Nat
      BY <3>2, <3>3, <3>4
    <3> HIDE DEF others
    <3>6. PlaceOk(Now, [left |-> others, at |-> F!At(i, k, k)])
      BY <1>4, <3>5, PlaceAt
    <3> QED
      BY <3>1, <3>4, <3>6
  <2>4. r \in F!Rests
    BY <2>3 DEF PlaceOk
  <2> HIDE DEF r, t1
  <2>5. PICK w : w = << r >>
    OBVIOUS
  <2>6. w \in Seq(F!Rests) /\ w # << >> /\ Len(w) = 1 /\ w[1] = r
    BY <2>4, <2>5
  <2>7. InWalk(Now, w)
    BY <1>4, <2>6 DEF InWalk, r
  <2>8. TagsOf(file', Now, w)
    <3> HIDE DEF t2
    <3>1. file'.ver = F!Ver /\ file'.tags = << t1, t2 >>
      BY <2>1
    <3>2. << t1, t2 >> = [k \in 1 .. 2 |-> << t1, t2 >>[k]] /\ << t1, t2 >>[1] = t1 /\ << t1, t2 >>[2] = t2
      OBVIOUS
    <3>3. file'.tags = [k \in 1 .. Len(w) + 1 |-> file'.tags[k]] /\ file'.tags[1] = t1 /\ file'.tags[2] = t2
      BY <2>6, <3>1, <3>2
    <3> QED
      BY <1>4, <2>2, <2>6, <3>1, <3>3 DEF TagsOf, t2
  <2>9. SavingAlong(w)'
    BY <1>3, <2>1, <2>3, <2>6, <2>7, <2>8 DEF SavingAlong
  <2>10. (\E v : SavingAlong(v))'
    BY <2>9
  <2>11. file' = [ver |-> file'.ver, tags |-> file'.tags, sealed |-> file'.sealed] /\ ~ file'.sealed
    BY <2>1
  <2>12. LoadedIsSaved'
    BY <2>1, NotLoaded
  <2> QED
    BY <1>1, <1>2, <2>1, <2>10, <2>11, <2>12 DEF StoreInv
<1>6. CASE F!SaveWrites
  <2>1. /\ file' = [file EXCEPT !.tags = Append(@, F!TagAt(nodes, rest.at[1]))] /\ job = "save"
        /\ UNCHANGED << job, loaded >>
    BY <1>6 DEF F!SaveWrites
  <2>2. PICK w : SavingAlong(w)
    BY <2>1 DEF StoreInv
  <2>3. ~ file.sealed /\ ~ loaded
    BY <2>1 DEF StoreInv
  <2>4. file' = [ver |-> file'.ver, tags |-> file'.tags, sealed |-> file'.sealed] /\ ~ file'.sealed
    BY <1>2, <2>1, <2>3
  <2>5. (\E v : SavingAlong(v))'
    BY <1>2, <1>3, <1>6, <2>2, WritesOn
  <2>6. LoadedIsSaved'
    BY <2>1, <2>3, NotLoaded
  <2> QED
    BY <1>1, <1>2, <2>1, <2>3, <2>4, <2>5, <2>6 DEF StoreInv
<1>7. CASE F!SaveEnds
  <2>1. /\ file' = [file EXCEPT !.sealed = TRUE] /\ saved' = << Now >> /\ job = "save" /\ job' = "idle"
        /\ loaded' = loaded /\ rest.at = << >>
    BY <1>7 DEF F!SaveEnds, Now
  <2>2. PICK w : SavingAlong(w)
    BY <2>1 DEF StoreInv
  <2>3. ~ loaded
    BY <2>1 DEF StoreInv
  <2>4. PICK s : s = Now
    OBVIOUS
  <2>5. file' = [ver |-> file'.ver, tags |-> file'.tags, sealed |-> file'.sealed]
        /\ file'.ver = file.ver /\ file'.tags = file.tags
    BY <1>2, <2>1
  <2>6. F!Walk(s.nodes, w)
    BY <2>1, <2>2, <2>4 DEF SavingAlong, InWalk, F!Walk
  <2>7. TagsOf(file', s, w)
    BY <2>2, <2>4, <2>5 DEF SavingAlong, TagsOf
  <2>8. SealedBy(s, w)'
    BY <1>3, <2>1, <2>4, <2>6, <2>7 DEF SealedBy
  <2>9. (\E s_, w_ : SealedBy(s_, w_))'
    BY <2>8
  <2>10. LoadedIsSaved'
    BY <2>1, <2>3, NotLoaded
  <2> QED
    BY <1>1, <1>2, <2>1, <2>3, <2>5, <2>9, <2>10 DEF StoreInv
<1>8. CASE F!SaveFails
  <2>1. UNCHANGED << file, saved, loaded >> /\ job = "save" /\ job' = "idle"
    BY <1>8 DEF F!SaveFails
  <2>2. ~ file.sealed /\ ~ loaded
    BY <2>1 DEF StoreInv
  <2>3. LoadedIsSaved'
    BY <2>1, <2>2, NotLoaded
  <2> QED
    BY <1>1, <1>2, <2>1, <2>2, <2>3 DEF StoreInv
<1> QED
  BY <1>5, <1>6, <1>7, <1>8

\* LoadedIsSaved: a node file that is loaded is one whose save came to its end,
\* and all of it (zwutl_ni_save, zwutl_ni_load).
THEOREM LoadedWasSaved == Spec => []LoadedIsSaved
<1>1. Init => FileInv
  <2> SUFFICES ASSUME Init PROVE FileInv
    OBVIOUS
  <2>1. CASE side = "file"
    BY <2>1, StoreStarts DEF Init, FileInv
  <2>2. CASE side # "file"
    BY <2>2 DEF Init, NoFile, FileInv
  <2> QED
    BY <2>1, <2>2
<1>2. FileInv /\ [Next]_vars => FileInv'
  <2> SUFFICES ASSUME FileInv, [Next]_vars PROVE FileInv'
    OBVIOUS
  <2>1. side' = side /\ ((side = "file" /\ F!Next) \/ UNCHANGED fileVars)
    BY FileSteps
  <2>2. CASE side = "file" /\ F!Next
    <3>1. StoreInv
      BY <2>2 DEF FileInv
    <3>2. StoreInv'
      BY <2>2, <3>1, ProgramSteps, NetworkSteps, LoadSteps, SaveSteps DEF F!Next
    <3> QED
      BY <2>1, <2>2, <3>2 DEF FileInv
  <2>3. CASE UNCHANGED fileVars
    <3>1. UNCHANGED << table, nodes, key, grp_node, file, job, rest, rdr, loaded, saved >>
      BY <2>3 DEF fileVars
    <3>2. CASE side = "file"
      <4>1. StoreInv
        BY <3>2 DEF FileInv
      <4>2. (\E s, w : SealedBy(s, w)) => (\E s, w : SealedBy(s, w))'
        BY <3>1 DEF SealedBy
      <4>3. (\E w : SavingAlong(w)) => (\E w : SavingAlong(w))'
        BY <3>1 DEF SavingAlong, Now
      <4>4. (\E s, w : SealedBy(s, w) /\ ReadingAlong(s, w)) => (\E s, w : SealedBy(s, w) /\ ReadingAlong(s, w))'
        BY <3>1 DEF SealedBy, ReadingAlong, ReaderAt
      <4>5. LoadedIsSaved => LoadedIsSaved'
        BY <3>1 DEF LoadedIsSaved, F!LoadedIsSaved
      <4>6. StoreInv'
        BY <3>1, <4>1, <4>2, <4>3, <4>4, <4>5 DEF StoreInv
      <4> QED
        BY <2>1, <3>2, <4>6 DEF FileInv
    <3>3. CASE side # "file"
      BY <2>1, <3>1, <3>3 DEF FileInv
    <3> QED
      BY <3>2, <3>3
  <2> QED
    BY <2>1, <2>2, <2>3
<1>3. FileInv => LoadedIsSaved
  BY DEF FileInv, StoreInv, LoadedIsSaved, F!LoadedIsSaved
<1> QED
  BY <1>1, <1>2, <1>3, PTL DEF Spec
=============================================================================
