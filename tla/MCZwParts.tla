------------------------------ MODULE MCZwParts ------------------------------
EXTENDS ZwParts, FiniteSets, TLC
CONSTANTS t1, t2, n1, n2
Same == Permutations(Threads)

Classes == {1, 2, 5}
FanVersions == {1, 2, 3}
(* Settings at the ends of their ranges, and some a step beyond.              *)
Data == {<< 1 >>, << 127, 255 >>, << 0, 1, 2, 3 >>, << 1, 2, 3 >>}
Setb(s, t) == [state |-> s, tenths |-> t]
Setbs == {Setb("setback", t) : t \in {-128, -1, 0, 120, 121}}
         \union {Setb("frost", 0), Setb("energy", 0), Setb("unused", 0)}
At(h, m, s) == [hour |-> h, minute |-> m, setb |-> s]
Points ==
  {<< >>, << At(0, 0, Setb("frost", 0)) >>,
   << At(6, 30, Setb("setback", -128)), At(23, 59, Setb("setback", 120)) >>,
   << At(6, 30, Setb("frost", 0)), At(6, 30, Setb("energy", 0)) >>,
   [i \in 1 .. 9 |-> At(i, 0, Setb("energy", 0))]}
Settings ==
  [basic |-> {0, 99, 255}, level |-> {0, 99, 100, 255}, switch |-> {0, 255},
   indicator |-> {0, 99, 100, 255}, prot_ec |-> {0, 232, 233}, prot_tmout |-> {0, 1, 60, 61, 65, 255},
   wakeup |-> [secs : {0, 255, 65536, 16777215, 16777216}, node : {1, 255}],
   config |-> [num : {0, 255}, data : Data],
   dlck_cfg |-> [type : {1, 2}, out : {0, 15}, in : {0, 15}, min : {0, 1, 254}, sec : {1, 59, 254}],
   usrcod |-> [id : {1, 255}, sts : {0, 254}, code : {[i \in 1 .. n |-> 47 + i] : n \in {3, 4, 10}}],
   fan_md |-> [off : BOOLEAN, mode : {0, 15}],
   thrmo_md |-> {0, 31},
   setback |-> [type : 0 .. 2, setb : Setbs],
   setpoint |-> [type : {1, 15}, precision : {0, 7}, unit : 0 .. 1, data : Data],
   clock |-> [weekday : 0 .. 8, hour : {0, 23}, minute : {0, 59}],
   schedule |-> [weekday : 1 .. 7, points : Points],
   override |-> [type : 0 .. 2, setb : Setbs],
   prot |-> [local : 0 .. 2, rf : 0 .. 3],
   power |-> [level : {0, 9, 10}, timeout : {0, 1, 255}],
   group_cmd |-> [group : {1}, node : {0, 2}, cmd : {<< 32, 1, 255 >>, << >>}]]
Lengths == [n \in Nodes |-> [asc |-> 3, sec |-> 2, av |-> IF n = n1 THEN 3 ELSE 1,
                             wake_up |-> IF n = n1 THEN 2 ELSE 1, meter |-> 2]]
Groups == [n \in Nodes |-> 1]

(* A node with instances, one with two end points (and what it may become),   *)
(* and one whose end points are identical and that hides its classes.         *)
Dev(g, l, s, e, id, parts) ==
  [gen |-> g, listed |-> l, secure |-> s, eps |-> e, ident |-> id, instances |-> parts]
Cap(g, l) == [gen |-> g, listed |-> l]
V1 == Dev(1, << "MULTI", "SWITCH", "SWITCH", "METER" >>, << >>, << >>, FALSE,
          << << "SWITCH", 2 >>, << "METER", 1 >> >>)
V2 == Dev(1, << "MULTI", "SWITCH" >>, << "MULTI", "SWITCH", "LOCK" >>,
          << Cap(1, << "SWITCH" >>), Cap(2, << "METER", "BASIC" >>) >>, FALSE, << >>)
V3 == [V2 EXCEPT !.eps = << Cap(2, << "METER" >>), Cap(2, << "METER", "BASIC" >>) >>]
V4 == Dev(1, << "SWITCH", "BASIC" >>, << "MULTI", "LOCK" >>,
          << Cap(1, << "LOCK" >>), Cap(1, << "LOCK" >>) >>, TRUE, << >>)
NodeKinds == [i \in {2} |-> {V1, V2, V3, V4}]

(* What an interview finds out, a little and much of it.                      *)
Own(s, m, d, x) == [sleep |-> s, mul_cmd |-> m, dev_id |-> d, ext_ver |-> x]
Queueing(s, m) == [enable_cmd_q |-> s, mul_cmd_ctl |-> m]
If(c, v, d, g) == [cls |-> c, ver |-> v, data |-> d, groups |-> g]
Ep(id, name, plus, ifs) == [id |-> id, name |-> name, plus |-> plus, ifs |-> ifs]
Basic == If("BASIC", 1, << >>, << >>)
Rich == [own |-> Own(1, 1, << 7 >>, << 2, 3 >>),
         eps |-> << Ep(0, << 1 >>, 1, << Basic, If("ALARM", 3, << 5 >>, << >>) >>),
                    Ep(1, << >>, 1, << If("AGI", 1, << >>, << 4 >>) >>) >>]
Plain == [own |-> Own(0, 0, << >>, << >>), eps |-> << Ep(0, << >>, 0, << Basic >>) >>]
Interviews == {Rich, Plain}
Known ==
  [id \in {1, 2} |->
     IF id = 1
     THEN [own |-> Own(0, 0, << >>, << >>), flags |-> Queueing(0, 0), eps |-> << Ep(0, << >>, 0, << >>) >>]
     ELSE [own |-> Rich.own, flags |-> Queueing(1, 1), eps |-> Rich.eps]]
Place(ids, id, ep, k) == [left |-> ids, at |-> << [node |-> id, ep |-> ep, intf |-> k] >>]
Places ==
  << Place({2}, 1, 0, 0), Place({2}, 1, 1, 0), Place({}, 2, 0, 0),
     Place({}, 2, 1, 0), Place({}, 2, 1, 1), Place({}, 2, 1, 2),
     Place({}, 2, 2, 0), Place({}, 2, 2, 1), [left |-> {}, at |-> << >>] >>
Earlier == {[ver |-> 4, key |-> 1, grp |-> 0, nodes |-> Known, walk |-> Places]}

(* Each question, what a set may hold, and what is refused.                   *)
Cmd(op) == [op |-> op, cls |-> "X", ep |-> 0, empty |-> FALSE, arg |-> 1, all |-> FALSE,
            node |-> 3, level |-> 0, secs |-> 0, count |-> 0]
Simple == {Cmd(o) : o \in
  {"manufacturer_get", "serial_get", "version_get", "class_get", "zwplus_get", "sec_sup_get",
   "groupings_get", "specific_group_get", "association_get", "group_info_get",
   "group_name_get", "group_cmds_get", "power_get", "test_get", "report"}}
Sets ==
  {[Cmd("power_set") EXCEPT !.level = l, !.secs = s] : l \in {0, 2, 3}, s \in {0, 2}}
  \union {[Cmd("test_set") EXCEPT !.level = 1, !.count = c] : c \in {0, 2}}
  \union {[Cmd("association_set") EXCEPT !.node = 2], [Cmd("association_remove") EXCEPT !.node = 0],
          Cmd("association_remove"), [Cmd("association_remove") EXCEPT !.arg = 2]}
Odd ==
  {[Cmd("group_info_get") EXCEPT !.arg = 2, !.all = a] : a \in BOOLEAN}
  \union {[Cmd("group_name_get") EXCEPT !.arg = 2], [Cmd("version_get") EXCEPT !.empty = TRUE],
          [Cmd("class_get") EXCEPT !.arg = 5], [Cmd("version_get") EXCEPT !.cls = "VERSION"]}
Frame(s, e, w, c) == [src |-> s, enc |-> e, whole |-> w, cmds |-> c]
Test == [Cmd("test_set") EXCEPT !.level = 2, !.count = 1, !.node = 4]
Received ==
  {Frame(2, "none", TRUE, << c >>) : c \in Simple \union Sets \union Odd}
  \union {Frame(2, e, w, << Cmd("sec_sup_get"), Cmd("test_get") >>) : e \in {"crc16", "secure"}, w \in BOOLEAN}
  \union {Frame(2, "secure", TRUE, << Test, c, Cmd("power_get") >>) : c \in Odd}
  \union {Frame(4, "secure", TRUE, << Cmd("test_get") >>)}
Secured == {<< 2, 0, "VERSION" >>}
(* Two firmware files and two nodes, of the second and the third version.     *)
Images == [f \in {1, 2} |-> IF f = 1 THEN 3 ELSE 2]
Updatable == {[ver |-> 2, max |-> 0], [ver |-> 3, max |-> 2]}
Supported == [x \in {1} |-> 2]

(* A request, a response and what is too short for a parameter: no byte that  *)
(* reads as SOF or as an acknowledgement, but for the type of the response.   *)
Sendable == {<< 0, 4, 9, 12 >>, << 1, 19, 8 >>, << 0, 10 >>}
=============================================================================
