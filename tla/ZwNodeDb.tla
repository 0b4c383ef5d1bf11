------------------------------ MODULE ZwNodeDb ------------------------------
(* What is known of the nodes (zwnet_node_info_update, zwnet_ep_updt,         *)
(* zwnet_ep_add and zwnet_ni_sec_updt in zw_api_network.c, called from        *)
(* application_update_cb and from the interview): a node has end points, 0    *)
(* the node itself, and each has interfaces.  Everything happens under        *)
(* nw->mtx.  A node says what it is again and again, and may have become      *)
(* something else meanwhile.                                                   *)
EXTENDS Integers, Sequences, FiniteSets, SequencesExt

CONSTANTS
  Devices,      \* what each node may be: [gen, listed, secure, eps, ident, instances]
  BASIC, MULTI, \* COMMAND_CLASS_BASIC and COMMAND_CLASS_MULTI_CHANNEL_V2
  MaxNews       \* nodes that come, go or change: bound

Ids == DOMAIN Devices
NodeDbAssumption == MaxNews \in Nat /\ BASIC # MULTI

VARIABLES
  dev,      \* what each node is
  routed,   \* the chip's routing table
  db,       \* what is known of the nodes: [gen, failed, eps]
  steady,   \* observation: the nodes that are what they were when their entry was made
  cap,      \* the end point each node was asked about, 0 for none
  news
vars == << dev, routed, db, steady, cap, news >>

Init ==
  /\ dev \in [Ids -> UNION {Devices[i] : i \in Ids}] /\ \A i \in Ids : dev[i] \in Devices[i]
  /\ routed = {} /\ db = [i \in {} |-> 0] /\ steady = {}
  /\ cap = [i \in Ids |-> 0] /\ news = 0

Put(f, i, v) == [j \in DOMAIN f \union {i} |-> IF j = i THEN v ELSE f[j]]
Drop(f, i) == [j \in DOMAIN f \ {i} |-> f[j]]
-----------------------------------------------------------------------------
(* Lists of classes and of interfaces [cls, sec, uns].                        *)
zwnet_cmd_cls_add(cls, list) ==
  IF list = << >> \/ cls \in ToSet(list) THEN list ELSE << cls >> \o list
zwnet_cmd_cls_dedup(list) ==
  FoldLeft(LAMBDA l, c : IF c \in ToSet(l) THEN l ELSE Append(l, c), << >>, list)
WithBasic(list) == zwnet_cmd_cls_dedup(zwnet_cmd_cls_add(BASIC, list))

If(cls, propty) == [cls |-> cls, sec |-> propty.sec, uns |-> propty.uns]
Unsecure == [sec |-> FALSE, uns |-> TRUE]
SecureIf == [sec |-> TRUE, uns |-> FALSE]
Classes(ifs) == {ifs[k].cls : k \in DOMAIN ifs}
Ifs(list, propty) == [k \in DOMAIN list |-> If(list[k], propty)]
zwif_count_all(ifs) == Len(ifs)      \* mutated form of zwif_count
zwif_count(ifs) == Len(SelectSeq(ifs, LAMBDA i : i.uns))
Propty(ep, cls) ==
  LET i == ep.ifs[CHOOSE k \in DOMAIN ep.ifs : ep.ifs[k].cls = cls]
  IN [sec |-> i.sec, uns |-> i.uns]
Ep(id, gen, ifs) == [id |-> id, gen |-> gen, ifs |-> ifs]
EpIds(n) == {n.eps[k].id : k \in DOMAIN n.eps}

(* zwnet_node_info_update: an entry that is not what the node says is made    *)
(* anew, and whether its secure inclusion failed goes over to the new one.    *)
NewNode(info, failed) ==
  [gen |-> info.gen, failed |-> failed,
   eps |-> << Ep(0, info.gen, Ifs(WithBasic(info.listed), Unsecure)) >>]
HasChanged(n, info) ==
  /\ WithBasic(info.listed) # << >>
  /\ \/ n.gen # info.gen
     \/ ~(ToSet(WithBasic(info.listed)) \subseteq Classes(n.eps[1].ifs))
     \/ Len(WithBasic(info.listed)) # zwif_count(n.eps[1].ifs)
Updates(i, info) ==
  LET new == i \notin DOMAIN db IN
  IF new \/ HasChanged(db[i], info)
  THEN db' = Put(db, i, NewNode(info, IF new THEN FALSE ELSE db[i].failed))
       /\ steady' = (steady \ {i}) \union (IF info = dev[i] THEN {i} ELSE {}) /\ cap' = [cap EXCEPT ![i] = 0]
  ELSE UNCHANGED << db, steady, cap >>

(* zwnet_ep_updt: as many end points as a class has instances, in the order   *)
(* of the list; a new one has the number after the one before it.             *)
OneMore(n, cls, k, propty) ==
  LET eps == IF k + 1 <= Len(n.eps) THEN n.eps
             ELSE Append(n.eps, Ep(n.eps[k].id + 1, n.gen, << If(BASIC, propty) >>))
  IN [n EXCEPT !.eps = [eps EXCEPT ![k + 1].ifs =
        IF cls \in Classes(@) THEN @ ELSE Append(@, If(cls, propty))]]
EpUpdt(n, cls, inst, propty) ==
  FoldLeft(LAMBDA m, k : OneMore(m, cls, k, propty), n, [k \in 1 .. inst |-> k])

(* zwnet_ep_add: an end point that is not what the node says is put in anew,  *)
(* behind the others.                                                          *)
EpAdd(n, id, cap_, propty) ==
  LET is(e) == e.id = id /\ e.gen = cap_.gen /\ ToSet(cap_.listed) \subseteq Classes(e.ifs) IN
  IF \E k \in DOMAIN n.eps : is(n.eps[k]) THEN n
  ELSE [n EXCEPT !.eps = Append(SelectSeq(@, LAMBDA e : e.id # id),
                                Ep(id, cap_.gen, Ifs(WithBasic(cap_.listed), propty)))]
EpAddAll(n, ids, cap_, propty) ==
  FoldLeft(LAMBDA m, id : EpAdd(m, id, cap_, propty), n, ids)

(* zwnet_ni_sec_updt: what is listed becomes secure, what is not stops being. *)
(* Behind a secure multi channel interface everything stays secure.           *)
SecUpdt(n, k, list) ==
  LET sec == zwnet_cmd_cls_add(BASIC, list)
      ifs == n.eps[k].ifs
      all == ifs \o SelectSeq(Ifs(zwnet_cmd_cls_dedup(sec), SecureIf), LAMBDA i : i.cls \notin Classes(ifs))
      keeps == n.eps[k].id > 0 /\ MULTI \in Classes(n.eps[1].ifs) /\ Propty(n.eps[1], MULTI) = SecureIf
      flag(i) == [i EXCEPT !.sec = \/ i.cls \in ToSet(sec) \union {BASIC} /\ (@ \/ i.cls \in ToSet(sec))
                                   \/ keeps /\ @]
  IN [n EXCEPT !.eps[k].ifs = [j \in DOMAIN all |-> flag(all[j])]]
-----------------------------------------------------------------------------
(* application_update_cb: a node sends its information, another controller    *)
(* has added it (with or without its information) or removed it.              *)
NodeInfoReceived ==
  /\ \E i \in routed : dev[i].listed # << >> /\ Updates(i, dev[i])
  /\ UNCHANGED << dev, routed, news >>
NewIdAssigned ==
  /\ news < MaxNews /\ news' = news + 1
  /\ \E i \in Ids \ routed :
       /\ routed' = routed \union {i}
       /\ \E info \in {dev[i], [dev[i] EXCEPT !.listed = << >>]} : Updates(i, info)
  /\ UNCHANGED dev
DeleteDone ==
  /\ news < MaxNews /\ news' = news + 1
  /\ \E i \in routed :
       /\ routed' = routed \ {i} /\ db' = Drop(db, i) /\ steady' = steady \ {i}
       /\ cap' = [cap EXCEPT ![i] = 0]
  /\ UNCHANGED dev
InclusionFails ==
  /\ \E i \in DOMAIN db : db' = [db EXCEPT ![i].failed = TRUE]
  /\ UNCHANGED << dev, routed, steady, cap, news >>
Becomes ==
  /\ news < MaxNews /\ news' = news + 1
  /\ \E i \in Ids, d \in UNION {Devices[j] : j \in Ids} :
       /\ d \in Devices[i] \ {dev[i]} /\ dev' = [dev EXCEPT ![i] = d]
       /\ steady' = steady \ {i}
  /\ UNCHANGED << routed, db, cap >>

(* The interview: the report of the secure classes of an end point, of the    *)
(* instances of a class (a node of version 1), of the number of end points    *)
(* and of what each is.                                                        *)
Multi(i) == MULTI \in Classes(db[i].eps[1].ifs)
SecureOf(d, id) ==
  IF id = 0 \/ d.secure = << >> THEN d.secure
  ELSE IF id <= Len(d.eps) THEN d.eps[id].listed ELSE << >>
SecSupReport ==
  /\ \E i \in DOMAIN db : \E k \in DOMAIN db[i].eps :
       LET list == SecureOf(dev[i], db[i].eps[k].id) IN
       /\ list # << >>
       /\ db' = [db EXCEPT ![i] = SecUpdt(@, k, list)]
  /\ UNCHANGED << dev, routed, steady, cap, news >>
MultiInstanceReport ==
  /\ \E i \in DOMAIN db :
       /\ Multi(i)
       /\ \E p \in ToSet(dev[i].instances) :
            /\ p[1] \in Classes(db[i].eps[1].ifs)
            /\ db' = [db EXCEPT ![i] = EpUpdt(@, p[1], p[2], Propty(db[i].eps[1], MULTI))]
  /\ UNCHANGED << dev, routed, steady, cap, news >>
EpNumReport ==
  /\ \E i \in DOMAIN db :
       LET n == Len(dev[i].eps) IN
       /\ Multi(i) /\ dev[i].instances = << >>
       /\ db' = [db EXCEPT ![i].eps = IF n # Cardinality(EpIds(db[i]) \ {0}) THEN << @[1] >> ELSE @]
       /\ cap' = [cap EXCEPT ![i] = IF n > 1 THEN 1 ELSE 0]
  /\ UNCHANGED << dev, routed, steady, news >>
EpCapReport ==
  /\ \E i \in DOMAIN db :
       LET n == Len(dev[i].eps)
           all == IF dev[i].ident THEN [k \in 1 .. (n + 1 - cap[i]) |-> cap[i] + k - 1] ELSE << cap[i] >>
       IN /\ Multi(i) /\ cap[i] \in 1 .. n
          /\ db' = [db EXCEPT ![i] = EpAddAll(@, all, dev[i].eps[cap[i]], Propty(db[i].eps[1], MULTI))]
          /\ cap' = [cap EXCEPT ![i] = IF dev[i].ident \/ @ = n THEN 0 ELSE @ + 1]
  /\ UNCHANGED << dev, routed, steady, news >>

Next ==
  \/ NodeInfoReceived \/ NewIdAssigned \/ DeleteDone \/ InclusionFails \/ Becomes
  \/ SecSupReport \/ MultiInstanceReport \/ EpNumReport \/ EpCapReport
Spec == Init /\ [][Next]_vars
-----------------------------------------------------------------------------
(* No end point is in the list twice, no end point has an interface twice,    *)
(* and the node itself comes first.                                            *)
NoTwins ==
  \A i \in DOMAIN db :
    LET n == db[i] IN
    /\ n.eps[1].id = 0 /\ Cardinality(EpIds(n)) = Len(n.eps)
    /\ \A k \in DOMAIN n.eps : Cardinality(Classes(n.eps[k].ifs)) = Len(n.eps[k].ifs)

(* While a node is what it was, nothing that was found out of it is lost,     *)
(* however often it says what it is: not its interfaces, not that they are    *)
(* secure, and not its end points once all of them are known.  That its       *)
(* secure inclusion failed is not forgotten even when its entry is made anew. *)
(* And what is known is known once (NoTwins).                                  *)
Keeps(n, m, d) ==
  /\ \A k \in DOMAIN n.eps :
       n.eps[k].id = 0 \/ (d.instances # << >> \/ Len(n.eps) = Len(d.eps) + 1) =>
         \E j \in DOMAIN m.eps :
           /\ m.eps[j].id = n.eps[k].id
           /\ \A x \in ToSet(n.eps[k].ifs) :
                \E y \in ToSet(m.eps[j].ifs) : y.cls = x.cls /\ y.uns = x.uns /\ (x.sec => y.sec)
StillKnown ==
  \A i \in DOMAIN db \intersect DOMAIN db' :
    /\ db[i].failed => db'[i].failed
    /\ i \in steady => Keeps(db[i], db'[i], dev[i])
NothingLost == [][StillKnown /\ NoTwins']_vars
=============================================================================
