------------------------------ MODULE ZwReports ------------------------------
(* Answers that come in several reports (zwif_rep_hdlr, zw_api_base.c).  The  *)
(* network keeps one place to put them together for each kind, whichever node *)
(* answers: nw->asc_rpt, sec_cmd_cls, av_cap, wake_up, meter_desc.  An        *)
(* association or security answer is a run of reports each telling whether    *)
(* more follow; of the others the handler asks for the next part itself.      *)
EXTENDS Integers, Sequences, FiniteSets

CONSTANTS
  Nodes, Kinds,
  Parts,      \* [Nodes -> [Kinds -> 1 .. 3]]: how many reports a node's answer takes
  Group,      \* [Nodes -> group and size an association report names]
  Overlap,    \* kinds the application asks several nodes at once
  Again,      \* kinds it asks a node again whose answer may still come
  Fails,      \* kinds whose reports may be lost or arrive twice
  MaxAsks     \* questions: bound

(* The wake-up interval and what it may be, if the node tells; a meter's name *)
(* and its number, always.                                                    *)
AllKinds == {"asc", "sec", "av", "wake_up", "meter"}
ReportsAssumption ==
  /\ Kinds \subseteq AllKinds /\ Parts \in [Nodes -> [Kinds -> 1 .. 3]]
  /\ "wake_up" \in Kinds => \A n \in Nodes : Parts[n]["wake_up"] <= 2
  /\ "meter" \in Kinds => \A n \in Nodes : Parts[n]["meter"] = 2
  /\ DOMAIN Group = Nodes /\ MaxAsks \in Nat
  /\ Overlap \subseteq Kinds /\ Again \subseteq Kinds /\ Fails \subseteq Kinds

VARIABLES
  asks,     \* questions asked
  air,      \* by node and kind: reports on their way
  acc,      \* by kind: the network's place for the answer
  told      \* what the callback was given last: none or [kind, node, items]
vars == << asks, air, acc, told >>

(* A node's part i is the item <<node, i>>; of the nodes in known the         *)
(* interface keeps the second part of the wake-up answer.                     *)
Whole(n, k) == [i \in 1 .. Parts[n][k] |-> <<n, i>>]
Nothing == [key |-> 0, items |-> << >>, total |-> 0, num |-> 0, has |-> FALSE, known |-> {}]
NoOne == [kind |-> "none"]

Init ==
  /\ asks = 0
  /\ air = [n \in Nodes |-> [k \in Kinds |-> << >>]]
  /\ acc = [k \in Kinds |-> Nothing] /\ told = NoOne

(* What node n answers: to the application's question and, part num, to the  *)
(* handler's.  A lost report is one the node is not heard of.                 *)
Report(n, k, num) == [num |-> num, left |-> Parts[n][k] - num, items |-> << <<n, num>> >>]
FirstAnswer(n, k) ==
  IF k \in {"asc", "sec"} THEN [i \in 1 .. Parts[n][k] |-> Report(n, k, i)]
  ELSE IF k = "av" THEN << [num |-> 0, left |-> Parts[n][k], items |-> << >>] >>
  ELSE << Report(n, k, 1) >>

(* A question waits until the reports of an earlier one have come or are lost*)
(* unless the application does not care.                                      *)
Ask(n, k) ==
  /\ asks < MaxAsks
  /\ k \notin Overlap =>
       \A m \in Nodes : (m = n /\ k \in Again) \/ air[m][k] = << >>
  /\ asks' = asks + 1
  /\ air' = [air EXCEPT ![n][k] = @ \o FirstAnswer(n, k)]
  /\ UNCHANGED << acc, told >>

(* The handler's steps: the place for the answer afterwards, the number of    *)
(* the part it asks for (0: none), and whether it calls back.                 *)
Then(a, next, cb) == [acc |-> a, next |-> next, cb |-> cb]

AscReport(a, n, r) ==
  LET more == a.items # << >> /\ a.key = Group[n]
      b == [a EXCEPT !.key = Group[n], !.items = IF more THEN @ \o r.items ELSE r.items]
  IN Then(b, 0, r.left = 0)
SecReport(a, n, r) ==
  Then([a EXCEPT !.items = IF a.has THEN @ \o r.items ELSE r.items, !.has = TRUE], 0, r.left = 0)
AvReport(a, n, r) ==
  IF r.num = 0 THEN Then([Nothing EXCEPT !.total = r.left], 1, FALSE)
  ELSE IF a.num >= r.num THEN Then(a, 0, FALSE)
  ELSE LET b == [a EXCEPT !.items = @ \o r.items, !.num = r.num] IN
       IF a.total = r.num THEN Then(b, 0, TRUE) ELSE Then(b, r.num + 1, FALSE)
(* A node of version 1 has no second part; the capabilities an interface has  *)
(* from an earlier answer are not asked for again.                            *)
WakeUpReportAppends(a, n, r) == \* mutated form
  IF r.num = 2 THEN Then([a EXCEPT !.items = @ \o r.items, !.known = @ \union {n}], 0, TRUE)
  ELSE IF Parts[n]["wake_up"] = 1 THEN Then([a EXCEPT !.items = r.items], 0, TRUE)
  ELSE IF n \in a.known THEN Then([a EXCEPT !.items = r.items \o << <<n, 2>> >>], 0, TRUE)
  ELSE Then([a EXCEPT !.items = r.items], 2, FALSE)
WakeUpReport(a, n, r) ==
  IF r.num = 2
  THEN Then([a EXCEPT !.items = SubSeq(@, 1, 1) \o r.items, !.known = @ \union {n}], 0, TRUE)
  ELSE IF Parts[n]["wake_up"] = 1 THEN Then([a EXCEPT !.items = r.items], 0, TRUE)
  ELSE IF n \in a.known THEN Then([a EXCEPT !.items = r.items \o << <<n, 2>> >>], 0, TRUE)
  ELSE Then([a EXCEPT !.items = r.items], 2, FALSE)
MeterReport(a, n, r) ==
  IF r.num = 1 THEN Then([Nothing EXCEPT !.items = r.items], 2, FALSE)
  ELSE Then([a EXCEPT !.items = SubSeq(@, 1, 1) \o r.items], 0, TRUE)

Handle(k, a, n, r) ==
  CASE k = "asc" -> AscReport(a, n, r)         [] k = "sec" -> SecReport(a, n, r)
    [] k = "av" -> AvReport(a, n, r)           [] k = "wake_up" -> WakeUpReport(a, n, r)
    [] OTHER -> MeterReport(a, n, r)

(* What is left when the callback has been given the answer.                  *)
Cleared(k, a) ==
  CASE k = "asc" -> [a EXCEPT !.items = << >>]
    [] k = "sec" -> [a EXCEPT !.items = << >>, !.has = FALSE]
    [] k = "av" -> [a EXCEPT !.items = << >>]
    [] OTHER -> a

Arrives(n, k, twice) ==
  /\ air[n][k] # << >>
  /\ LET r == Head(air[n][k])
         h == Handle(k, acc[k], n, r)
     IN /\ air' = [air EXCEPT ![n][k] = (IF twice THEN @ ELSE Tail(@)) \o
                                        (IF h.next = 0 THEN << >> ELSE << Report(n, k, h.next) >>)]
        /\ acc' = [acc EXCEPT ![k] = IF h.cb THEN Cleared(k, h.acc) ELSE h.acc]
        /\ told' = IF h.cb THEN [kind |-> k, node |-> n, items |-> h.acc.items] ELSE told
  /\ UNCHANGED asks
ReportArrives == \E n \in Nodes, k \in Kinds : Arrives(n, k, FALSE)
ArrivesTwice == \E n \in Nodes, k \in Fails : Len(air[n][k]) < 3 /\ Arrives(n, k, TRUE)

IsLost ==
  /\ \E n \in Nodes, k \in Fails :
       air[n][k] # << >> /\ air' = [air EXCEPT ![n][k] = Tail(@)]
  /\ UNCHANGED << asks, acc, told >>

Next == (\E n \in Nodes, k \in Kinds : Ask(n, k)) \/ ReportArrives \/ ArrivesTwice \/ IsLost
Spec == Init /\ [][Next]_vars

(* The callback is given the whole answer of the node it is named for, each  *)
(* part once and in order, whatever was asked, lost or repeated before.       *)
WholeAnswer == told # NoOne => told.items = Whole(told.node, told.kind)
=============================================================================
