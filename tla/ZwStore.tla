------------------------------- MODULE ZwStore -------------------------------
(* The node information file (zwutl_ni_save and zwutl_ni_load in              *)
(* zw_api_util.c, zwnet_load in zw_api_network.c): what the interview has     *)
(* found out is written as a list of tags, each a set of sub-tags, closed by *)
(* a checksum, and read again when the program starts.  The program may stop *)
(* at any moment; the file and the controller's routing table stay.           *)
EXTENDS Integers, Sequences

CONSTANTS
  Ctl,        \* the controller's node
  NodeIds,    \* the others
  Found,      \* what interviews find out: [own, eps]
  OldFiles,   \* files an earlier version of the program may have left: [ver, nodes, key, grp, walk]
  Keys,       \* network keys
  MaxChanges  \* interviews, keys, nodes coming and going: bound

VARIABLES
  table,    \* the nodes the controller chip knows
  nodes,    \* [Ctl and table -> node], while the program runs
  key,      \* the network key
  grp_node, \* the node of the controller's association group 1, or 0
  file,     \* [ver, tags, sealed]
  job,      \* the program: "off", "init", "load", "idle", "save" or "failed"
  rest,     \* where the writer is, when it writes
  rdr,      \* where the reader is, when it reads
  loaded,   \* it has loaded this file
  saved,    \* observation: what the last file that was closed held, [nodes, key]
  changes
vars == << table, nodes, key, grp_node, file, job, rest, rdr, loaded, saved, changes >>

(* A node as it is known.  The nodes the chip knows have one end point, 0,    *)
(* without interfaces.                                                         *)
Owns == [sleep : Nat, mul_cmd : Nat, dev_id : Seq(Nat), ext_ver : Seq(Nat)]
Ifs == [cls : STRING, ver : Nat, data : Seq(Nat), groups : Seq(Nat)]
Eps == [id : Nat, name : Seq(Nat), plus : Nat, ifs : Seq(Ifs)]
NoInfo == [sleep |-> 0, mul_cmd |-> 0, dev_id |-> << >>, ext_ver |-> << >>]
Queues(own) == [enable_cmd_q |-> own.sleep, mul_cmd_ctl |-> own.mul_cmd]
Ep(id, name, plus, ifs) == [id |-> id, name |-> name, plus |-> plus, ifs |-> ifs]
Blank == [own |-> NoInfo, flags |-> Queues(NoInfo),
              eps |-> << Ep(0, << >>, 0, << >>) >>]

(* The node itself comes first, and an interface once.                        *)
Listed(own, eps) ==
  /\ own \in Owns /\ eps \in Seq(Eps) /\ eps # << >> /\ eps[1].id = 0
  /\ \A k \in 2 .. Len(eps) : eps[k].id # 0
  /\ \A k \in 1 .. Len(eps) : \A i, j \in 1 .. Len(eps[k].ifs) :
       eps[k].ifs[i].cls = eps[k].ifs[j].cls => i = j

(* What is written: an empty value has no sub-tag, the controller's version  *)
(* and Z-Wave Plus information are left out.                                  *)
NoSub == << >>
Sub(v) == << v >>
IfAny(v) == IF v = << >> THEN NoSub ELSE Sub(v)
NodeTag(id, n) ==
  [tag |-> "NODE", id |-> id,
   subs |-> [sleep |-> Sub(n.own.sleep), mul_cmd |-> Sub(n.own.mul_cmd),
             dev_id |-> IfAny(n.own.dev_id),
             ext_ver |-> IF id = Ctl THEN NoSub ELSE IfAny(n.own.ext_ver)]]
EpTag(id, e) ==
  [tag |-> "EP", id |-> e.id,
   subs |-> [name |-> IfAny(e.name), plus |-> IF e.plus = 0 \/ id = Ctl THEN NoSub ELSE Sub(e.plus)]]
IfTag(i) ==
  [tag |-> "IF", id |-> i.cls,
   subs |-> [ver |-> Sub(i.ver), data |-> IfAny(i.data), agi |-> IfAny(i.groups)]]
NwTag(grp) == [tag |-> "NW", id |-> 0, subs |-> grp]
SecTag(k) == [tag |-> "SEC", id |-> 0, subs |-> Sub(k)]

(* The writer goes through the nodes, of each through its end points and of   *)
(* each of these through its interfaces: the place [node, ep, intf] of the    *)
(* tag to be written, none at the end, and the nodes left.                     *)
Rests == [left : SUBSET NodeIds,
          at : Seq([node : NodeIds \union {Ctl}, ep : Nat, intf : Nat])]
At(id, ep, intf) == << [node |-> id, ep |-> ep, intf |-> intf] >>
TagAt(ns, p) ==
  IF p.ep = 0 THEN NodeTag(p.node, ns[p.node])
  ELSE IF p.intf = 0 THEN EpTag(p.node, ns[p.node].eps[p.ep])
  ELSE IfTag(ns[p.node].eps[p.ep].ifs[p.intf])
MoreIfs(ns, p) == p.ep > 0 /\ p.intf < Len(ns[p.node].eps[p.ep].ifs)
MoreEps(ns, p) == p.ep < Len(ns[p.node].eps)
NextNode(left) ==
  IF left = {} THEN [left |-> {}, at |-> << >>]
  ELSE LET id == CHOOSE i \in left : TRUE IN [left |-> left \ {id}, at |-> At(id, 0, 0)]
Onward(ns, r) ==
  LET p == r.at[1] IN
  IF MoreIfs(ns, p) THEN [r EXCEPT !.at = At(p.node, p.ep, p.intf + 1)]
  ELSE IF MoreEps(ns, p) THEN [r EXCEPT !.at = At(p.node, p.ep + 1, 0)]
  ELSE NextNode(r.left)
FromCtl(ids) == [left |-> ids \ {Ctl}, at |-> At(Ctl, 0, 0)]
AtRest == [left |-> {}, at |-> << >>]

(* All the places there are, one after the other.                             *)
Walk(ns, w) ==
  /\ w \in Seq(Rests) /\ w # << >> /\ w[1] = FromCtl(DOMAIN ns) /\ w[Len(w)].at = << >>
  /\ \A k \in 1 .. Len(w) - 1 : w[k].at # << >> /\ w[k + 1] = Onward(ns, w[k])

(* What is read: a value without a sub-tag is the empty one.                 *)
Get(sub, none) == IF sub = NoSub THEN none ELSE sub[1]
-----------------------------------------------------------------------------
Ver == 5
NoFile == [ver |-> 0, tags |-> << >>, sealed |-> FALSE]
Stopped == [i \in {} |-> 0]
Reader == [at |-> 1, node |-> 0, ep |-> 0]

(* The file of an earlier version, written by the same tags.                 *)
OldFile(o) ==
  [ver |-> o.ver, sealed |-> TRUE,
   tags |-> << NwTag(NoSub), SecTag(o.key) >> \o
            [k \in 1 .. Len(o.walk) - 1 |-> TagAt(o.nodes, o.walk[k].at[1])]]

StoreAssumption ==
  /\ Ctl \notin NodeIds /\ 0 \notin NodeIds \union {Ctl} /\ MaxChanges \in Nat
  /\ \A d \in Found : Listed(d.own, d.eps)
  /\ \A o \in OldFiles :
       /\ o.grp = 0
       /\ DOMAIN o.nodes \subseteq NodeIds \union {Ctl} /\ Ctl \in DOMAIN o.nodes
       /\ \A id \in DOMAIN o.nodes : Listed(o.nodes[id].own, o.nodes[id].eps)
       /\ Walk(o.nodes, o.walk)

Init ==
  /\ table \in SUBSET NodeIds /\ nodes = Stopped /\ key \in Keys /\ grp_node = 0
  /\ \/ file = NoFile /\ saved = << >>
     \/ \E o \in OldFiles : file = OldFile(o) /\ saved = << o >>
  /\ job = "off" /\ rest = AtRest /\ rdr = Reader /\ loaded = FALSE /\ changes = 0

(* zwnet_init: the nodes of the routing table, nothing known of them.        *)
Starts ==
  /\ job = "off"
  /\ job' = "init" /\ nodes' = [id \in table \union {Ctl} |-> Blank]
  /\ UNCHANGED << table, key, grp_node, file, rest, rdr, loaded, saved, changes >>

(* zwnet_load with a file: nothing is taken of one whose checksum is wrong.  *)
Loads ==
  /\ job = "init"
  /\ job' = IF file.sealed THEN "load" ELSE "failed"
  /\ UNCHANGED << table, nodes, key, grp_node, file, rest, rdr, loaded, saved, changes >>
LoadsNothing ==
  /\ job = "init"
  /\ job' = "idle"
  /\ UNCHANGED << table, nodes, key, grp_node, file, rest, rdr, loaded, saved, changes >>

(* zwutl_ni_load: the tags in their order.  rdr.node is 0 where the           *)
(* controller does not know the node, rdr.ep the place of the end point.       *)
NwLoad(t) ==
  /\ t.tag = "NW" /\ grp_node' = Get(t.subs, 0)
  /\ rdr' = [rdr EXCEPT !.at = @ + 1] /\ UNCHANGED << nodes, key >>
SecLoad(t) ==
  /\ t.tag = "SEC" /\ key' = Get(t.subs, 0)
  /\ rdr' = [rdr EXCEPT !.at = @ + 1] /\ UNCHANGED << nodes, grp_node >>
NodeLoad(t) ==
  LET own == [sleep |-> Get(t.subs.sleep, 0), mul_cmd |-> Get(t.subs.mul_cmd, 0),
              dev_id |-> Get(t.subs.dev_id, << >>), ext_ver |-> Get(t.subs.ext_ver, << >>)]
      known == t.id \in DOMAIN nodes
  IN /\ t.tag = "NODE"
     /\ nodes' = IF known THEN [nodes EXCEPT ![t.id] = [@ EXCEPT !.own = own, !.flags = Queues(own)]]
                 ELSE nodes
     /\ rdr' = [at |-> rdr.at + 1, node |-> IF known THEN t.id ELSE 0, ep |-> IF known THEN rdr.ep ELSE 0]
     /\ UNCHANGED << key, grp_node >>

(* End point 0 is there already, any other is added behind it.               *)
EpLoad(t) ==
  LET eps == nodes[rdr.node].eps
      e == Ep(t.id, Get(t.subs.name, << >>), Get(t.subs.plus, 0), << >>)
  IN /\ t.tag = "EP"
     /\ \/ rdr.node = 0 /\ rdr' = [rdr EXCEPT !.at = @ + 1] /\ UNCHANGED nodes
        \/ /\ rdr.node # 0 /\ t.id = 0
           /\ rdr' = [rdr EXCEPT !.at = @ + 1, !.ep = 1]
           /\ nodes' = [nodes EXCEPT ![rdr.node] =
                          [@ EXCEPT !.eps = [eps EXCEPT ![1] = [e EXCEPT !.ifs = eps[1].ifs]]]]
        \/ /\ rdr.node # 0 /\ t.id # 0
           /\ rdr' = [rdr EXCEPT !.at = @ + 1, !.ep = Len(eps) + 1]
           /\ nodes' = [nodes EXCEPT ![rdr.node] = [@ EXCEPT !.eps = Append(eps, e)]]
     /\ UNCHANGED << key, grp_node >>

GroupData(t) == Get(t.subs.agi, << >>)

(* An interface the end point has already is skipped; the data of an alarm   *)
(* interface are not taken from an earlier version's file.                    *)
IfLoad(t) ==
  LET eps == nodes[rdr.node].eps
      ifs == eps[rdr.ep].ifs
      data == IF file.ver <= 4 /\ t.id = "ALARM" THEN << >> ELSE Get(t.subs.data, << >>)
      i == [cls |-> t.id, ver |-> Get(t.subs.ver, 1), data |-> data, groups |-> GroupData(t)]
      skips == rdr.ep = 0 \/ \E k \in 1 .. Len(ifs) : ifs[k].cls = t.id
  IN /\ t.tag = "IF"
     /\ nodes' = IF skips THEN nodes
                 ELSE [nodes EXCEPT ![rdr.node] =
                         [@ EXCEPT !.eps = [eps EXCEPT ![rdr.ep] = [@ EXCEPT !.ifs = Append(ifs, i)]]]]
     /\ rdr' = [rdr EXCEPT !.at = @ + 1] /\ UNCHANGED << key, grp_node >>
LoadTag ==
  /\ job = "load" /\ rdr.at <= Len(file.tags)
  /\ LET t == file.tags[rdr.at] IN NwLoad(t) \/ SecLoad(t) \/ NodeLoad(t) \/ EpLoad(t) \/ IfLoad(t)
  /\ UNCHANGED << table, file, job, rest, loaded, saved, changes >>
LoadEnds ==
  /\ job = "load" /\ rdr.at > Len(file.tags)
  /\ job' = "idle" /\ loaded' = TRUE /\ rdr' = Reader
  /\ UNCHANGED << table, nodes, key, grp_node, file, rest, saved, changes >>
LoadFails ==
  /\ job = "load"
  /\ job' = "failed" /\ rdr' = Reader
  /\ UNCHANGED << table, nodes, key, grp_node, file, rest, loaded, saved, changes >>

(* A node without interfaces is asked; any may be asked again.               *)
Interview ==
  /\ job = "idle" /\ changes < MaxChanges
  /\ \E id \in table, d \in Found :
       nodes' = [nodes EXCEPT ![id] = [own |-> d.own, flags |-> Queues(d.own), eps |-> d.eps]]
  /\ changes' = changes + 1 /\ loaded' = FALSE
  /\ UNCHANGED << table, key, grp_node, file, job, rest, rdr, saved >>
NodeComes ==
  /\ job = "idle" /\ changes < MaxChanges
  /\ \E id \in NodeIds \ table :
       /\ table' = table \union {id}
       /\ nodes' = [i \in table' \union {Ctl} |-> IF i = id THEN Blank ELSE nodes[i]]
  /\ changes' = changes + 1 /\ loaded' = FALSE
  /\ UNCHANGED << key, grp_node, file, job, rest, rdr, saved >>
NodeGoes ==
  /\ job = "idle" /\ changes < MaxChanges
  /\ \E id \in table :
       table' = table \ {id} /\ nodes' = [i \in table' \union {Ctl} |-> nodes[i]]
  /\ changes' = changes + 1 /\ loaded' = FALSE
  /\ UNCHANGED << key, grp_node, file, job, rest, rdr, saved >>

Associates ==
  /\ job = "idle" /\ changes < MaxChanges
  /\ grp_node' \in (NodeIds \union {0}) \ {grp_node}
  /\ changes' = changes + 1 /\ loaded' = FALSE
  /\ UNCHANGED << table, nodes, key, file, job, rest, rdr, saved >>

SaveBeginsSealed ==      \* mutated form
  /\ job = "idle"
  /\ job' = "save" /\ rest' = FromCtl(DOMAIN nodes)
  /\ file' = [ver |-> Ver, sealed |-> TRUE, tags |-> << NwTag(Sub(grp_node)), SecTag(key) >>]
  /\ saved' = << >> /\ loaded' = FALSE
  /\ UNCHANGED << table, nodes, key, grp_node, rdr, changes >>

(* zwutl_ni_save: the file is emptied and the network's tags are written,     *)
(* then with nw->mtx held those of the nodes; it is closed by its checksum.   *)
SaveBegins ==
  /\ job = "idle"
  /\ job' = "save" /\ rest' = FromCtl(DOMAIN nodes)
  /\ file' = [ver |-> Ver, sealed |-> FALSE, tags |-> << NwTag(Sub(grp_node)), SecTag(key) >>]
  /\ saved' = << >> /\ loaded' = FALSE
  /\ UNCHANGED << table, nodes, key, grp_node, rdr, changes >>
SaveWrites ==
  /\ job = "save" /\ rest.at # << >>
  /\ file' = [file EXCEPT !.tags = Append(@, TagAt(nodes, rest.at[1]))]
  /\ rest' = Onward(nodes, rest)
  /\ UNCHANGED << table, nodes, key, grp_node, job, rdr, loaded, saved, changes >>
SaveEnds ==
  /\ job = "save" /\ rest.at = << >>
  /\ file' = [file EXCEPT !.sealed = TRUE] /\ job' = "idle"
  /\ saved' = << [ver |-> Ver, nodes |-> nodes, key |-> key, grp |-> grp_node] >>
  /\ UNCHANGED << table, nodes, key, grp_node, rest, rdr, loaded, changes >>
SaveFails ==
  /\ job = "save"
  /\ job' = "idle" /\ rest' = AtRest
  /\ UNCHANGED << table, nodes, key, grp_node, file, rdr, loaded, saved, changes >>

(* The program stops, or its machine does.  Nodes may come and go by way of  *)
(* another controller meanwhile.  A new key is made when the network is.     *)
Stops ==
  /\ job # "off"
  /\ job' = "off" /\ rest' = AtRest /\ rdr' = Reader /\ nodes' = Stopped /\ loaded' = FALSE
  /\ key' \in Keys /\ grp_node' = 0
  /\ UNCHANGED << table, file, saved, changes >>
ChangesBehind ==
  /\ job = "off" /\ changes < MaxChanges
  /\ \E id \in NodeIds : table' = IF id \in table THEN table \ {id} ELSE table \union {id}
  /\ changes' = changes + 1
  /\ UNCHANGED << nodes, key, grp_node, file, job, rest, rdr, loaded, saved >>

Next ==
  \/ Starts \/ Loads \/ LoadsNothing \/ LoadTag \/ LoadEnds \/ LoadFails
  \/ Interview \/ NodeComes \/ NodeGoes \/ Associates
  \/ SaveBegins \/ SaveWrites \/ SaveEnds \/ SaveFails \/ Stops \/ ChangesBehind
Spec == Init /\ [][Next]_vars
-----------------------------------------------------------------------------
(* What a node is after it has been saved and loaded: the version's alarm    *)
(* data apart, all that was known of it.                                      *)
KeptOwn(id, own) == IF id = Ctl THEN [own EXCEPT !.ext_ver = << >>] ELSE own
KeptIf(s, i) == IF s.ver <= 4 /\ i.cls = "ALARM" THEN [i EXCEPT !.data = << >>] ELSE i
KeptEp(s, id, e) ==
  Ep(e.id, e.name, IF id = Ctl THEN 0 ELSE e.plus, [k \in DOMAIN e.ifs |-> KeptIf(s, e.ifs[k])])
Kept(s, id) ==
  LET n == s.nodes[id]
  IN [own |-> KeptOwn(id, n.own), flags |-> Queues(KeptOwn(id, n.own)),
      eps |-> [k \in DOMAIN n.eps |-> KeptEp(s, id, n.eps[k])]]

(* A file that is loaded is one whose save came to its end, and all of it:   *)
(* the network key, the lifeline's node and all that was known of every node *)
(* that is still there.  A node the file does not name is blank, to be asked. *)
LoadedIsSaved ==
  loaded =>
    /\ saved # << >> /\ key = saved[1].key /\ grp_node = saved[1].grp
    /\ \A id \in DOMAIN nodes :
         nodes[id] = IF id \in DOMAIN saved[1].nodes THEN Kept(saved[1], id) ELSE Blank
=============================================================================
