------------------------------- MODULE ZwCodec -------------------------------
(* What the application sets at a node and what the report handler makes of   *)
(* the node's report of it: the parameters of the commands the functions of   *)
(* zw_api_intf.c build, and the values zwif_rep_hdlr (zw_api_base.c) reads    *)
(* out of a report.  A report is dropped when it is too short or holds a      *)
(* reserved value.  A value is set if the function that sets it lets it       *)
(* through and its parts fit the fields of the command.                       *)
EXTENDS Integers, Sequences

CONSTANTS Vers,       \* versions of the command classes
          Settable    \* by the function that sets it, what the application may ask for
CodecAssumption == Vers \subseteq Nat \ {0}

Byte == 0 .. 255
Sized == {d \in Seq(Byte) : Len(d) \in {1, 2, 4}}     \* data_storage_sz

Dropped == << >>
From(n, b, v) == IF Len(b) >= n THEN v ELSE Dropped     \* shorter reports are dropped
Value(v) == << v >>

ByteOf(i) == i % 256                         \* int8_t and back
IntOfUnsigned(b) == b  \* mutated form
IntOf(b) == IF b > 127 THEN b - 256 ELSE b

(* Setback states: tenths of a degree, frost protection, energy saving,      *)
(* unused.                                                                    *)
Setback(t) == [state |-> "setback", tenths |-> t]
Named(s) == [state |-> s, tenths |-> 0]
SetbByte(s) ==
  IF s.state = "setback" THEN ByteOf(s.tenths)
  ELSE [frost |-> 121, energy |-> 122, unused |-> 127][s.state]
SetbRead(b) ==
  IF b \in 123 .. 126 THEN Dropped
  ELSE Value(IF b = 121 THEN Named("frost") ELSE IF b = 122 THEN Named("energy")
             ELSE IF b = 127 THEN Named("unused") ELSE Setback(IntOf(b)))
States == {Setback(t) : t \in -128 .. 120} \union {Named("frost"), Named("energy")}

(* One value: Basic, level, switch, indicator, exclusive controller and      *)
(* timeout of the protection.                                                 *)
Levels == 0 .. 99 \union {255}
Controllers == 0 .. 232
Timeouts == 1 .. 60 \union 65 .. 255
OneByte(v) == << v >>
BasicRead(b) == From(1, b, Value(b[1]))
LevelRead(b) == From(1, b, Value(b[1]))
SwitchRead(b) == From(1, b, Value(b[1]))
IndRead(b) == From(1, b, Value(b[1]))
ProtEcRead(b) == From(1, b, Value(b[1]))
ProtTmoutRead(b) == From(1, b, Value(b[1]))

(* The wake-up interval, which three bytes must hold; the node to wake up for *)
(* is the last of them.                                                       *)
Wakeups == [secs : {s \in Nat : (s \div 256) \div 256 \in Byte}, node : Byte]
WakeupBytes(v) ==
  << ((v.secs \div 256) \div 256) % 256, (v.secs \div 256) % 256, v.secs % 256, v.node >>
WakeupRead(b) ==
  From(4, b, Value([secs |-> (b[1] * 256 + b[2]) * 256 + b[3], node |-> b[4]]))

Configs == [num : Byte, data : Sized]
ConfigBytes(v) == << v.num, Len(v.data) >> \o v.data
ConfigRead(b) ==
  From(3, b, LET size == b[2] % 8 IN
             IF size > 4 \/ Len(b) < 2 + size THEN Dropped
             ELSE Value([num |-> b[1], data |-> SubSeq(b, 3, 2 + size)]))

(* A lock that stays open has no time to close: both parts of it are 254.    *)
Locks == [type : {1}, out : 0 .. 15, in : 0 .. 15, min : {254}, sec : {254}]
         \union [type : {2}, out : 0 .. 15, in : 0 .. 15, min : 1 .. 254, sec : 1 .. 59]
DlckCfgBytes(v) ==
  << v.type, v.out * 16 + v.in, IF v.type = 2 THEN v.min ELSE 254, IF v.type = 2 THEN v.sec ELSE 254 >>
DlckCfgRead(b) ==
  From(4, b, Value([type |-> b[1], out |-> b[2] \div 16, in |-> b[2] % 16,
                    min |-> b[3], sec |-> b[4]]))

Codes == [id : Byte, sts : {0, 1, 2, 254}, code : {c \in Seq(48 .. 57) : Len(c) \in 4 .. 10}]
UsrcodBytes(v) == << v.id, v.sts >> \o v.code
UsrcodRead(b) ==
  From(2, b, IF Len(b) - 2 > 10 THEN Dropped
             ELSE Value([id |-> b[1], sts |-> b[2], code |-> SubSeq(b, 3, Len(b))]))

(* The bit for "off" is sent from version 2 on and read from version 3 on.   *)
FanModes(ver) == [off : IF ver < 2 THEN {FALSE} ELSE BOOLEAN, mode : 0 .. 15]
FanMdBytes(v) == << (v.mode % 16) + (IF v.off THEN 128 ELSE 0) >>
FanMdRead(ver, b) == From(1, b, Value([off |-> ver >= 3 /\ b[1] >= 128, mode |-> b[1] % 16]))
ThrmoMdRead(b) == From(1, b, Value(b[1] % 32))

Setbacks == [type : 0 .. 2, setb : States \union {Named("unused")}]
SetbackBytes(v) == << v.type, SetbByte(v.setb) >>
SetbackRead(b) ==
  From(2, b, LET s == SetbRead(b[2]) IN
             IF s = Dropped THEN Dropped ELSE Value([type |-> b[1] % 4, setb |-> s[1]]))

Setpoints == [type : 0 .. 15, precision : 0 .. 7, unit : 0 .. 1, data : Sized]
SetpBytes(v) == << (v.type % 16), v.precision * 32 + v.unit * 8 + Len(v.data) >> \o v.data
SetpRead(b) ==
  From(3, b, LET size == b[2] % 8 IN
             IF size > 4 \/ Len(b) < 2 + size THEN Dropped
             ELSE Value([type |-> b[1] % 16, precision |-> b[2] \div 32,
                         unit |-> (b[2] \div 8) % 4, data |-> SubSeq(b, 3, 2 + size)]))

Clocks == [weekday : 0 .. 7, hour : 0 .. 23, minute : 0 .. 59]
ClockBytes(v) == << v.weekday * 32 + v.hour, v.minute >>
ClockRead(b) ==
  From(2, b, Value([weekday |-> b[1] \div 32, hour |-> b[1] % 32, minute |-> b[2]]))

(* Nine switch points of three bytes, in the order of their times; the first *)
(* unused one ends the list.                                                  *)
Before(p, q) == p.hour < q.hour \/ (p.hour = q.hour /\ p.minute < q.minute)
Schedules ==
  {v \in [weekday : 1 .. 7, points : Seq([hour : 0 .. 23, minute : 0 .. 59, setb : States])] :
     /\ Len(v.points) <= 9
     /\ \A i \in 1 .. Len(v.points) - 1 : Before(v.points[i], v.points[i + 1])}
PointBytes(p) == << p.hour, p.minute, SetbByte(p.setb) >>
Point(v, i) == IF i <= Len(v.points) THEN PointBytes(v.points[i]) ELSE << 0, 0, 127 >>
SchdBytes(v) ==
  [i \in 1 .. 28 |-> IF i = 1 THEN v.weekday ELSE Point(v, (i + 1) \div 3)[1 + ((i + 1) % 3)]]
SchdRead(b) ==
  From(28, b,
    LET at(i) == SubSeq(b, 3 * i - 1, 3 * i + 1)
        n == CHOOSE k \in 0 .. 9 : /\ k < 9 => at(k + 1)[3] = 127
                                   /\ \A i \in 1 .. k : at(i)[3] # 127
    IN IF \E i \in 1 .. n : at(i)[3] \in 123 .. 126 THEN Dropped
       ELSE Value([weekday |-> b[1] % 8,
                   points |-> [i \in 1 .. n |->
                     [hour |-> at(i)[1] % 32, minute |-> at(i)[2] % 64,
                      setb |-> SetbRead(at(i)[3])[1]]]]))

OvrBytes(v) == << v.type, SetbByte(v.setb) >>
OvrRead(b) ==
  From(2, b, LET s == SetbRead(b[2]) IN
             IF s = Dropped THEN Dropped ELSE Value([type |-> b[1] % 4, setb |-> s[1]]))

(* The protection of the radio control is sent from version 2 on; a report   *)
(* without it says that there is none.                                        *)
Protections(ver) == [local : 0 .. 2, rf : IF ver > 1 THEN 0 .. 2 ELSE Byte]
ProtBytes(ver, v) == IF ver > 1 THEN << v.local, v.rf >> ELSE << v.local >>
ProtRead(b) == From(1, b, Value([local |-> b[1], rf |-> IF Len(b) >= 2 THEN b[2] ELSE 0]))

Powers == [level : 0 .. 9, timeout : 1 .. 255]
PowerBytes(v) == << v.level, v.timeout >>
PowerRead(b) == From(1, b, Value([level |-> b[1], timeout |-> IF Len(b) >= 2 THEN b[2] ELSE 0]))

(* The command of a group's member, as long as the length of the whole fits  *)
(* a byte; the report puts a byte of flags before its length.                 *)
GroupCmds == [group : 1 .. 255, node : 1 .. 255, cmd : {c \in Seq(Byte) : Len(c) <= 250}]
GroupCmdBytes(v) == << v.group, v.node, Len(v.cmd) >> \o v.cmd
GroupCmdReport(b) == SubSeq(b, 1, 2) \o << 128 >> \o SubSeq(b, 3, Len(b))
GroupCmdRead(b) ==
  From(4, b, IF Len(b) < 4 + b[4] THEN Dropped
             ELSE Value([group |-> b[1], node |-> b[2], cmd |-> SubSeq(b, 5, 4 + b[4])]))
-----------------------------------------------------------------------------
VARIABLES
  kind, ver,      \* the function that sets, by its kind, and the version of the class
  set, bytes,     \* what was set, the node's report of it on its way
  heard           \* what the report handler called back with
vars == << kind, ver, set, bytes, heard >>
Init ==
  /\ kind \in DOMAIN Settable /\ ver \in Vers
  /\ set = Dropped /\ bytes = Dropped /\ heard = Dropped

(* A function that sets: it refuses what is not in the range; the node keeps *)
(* the bytes it is told and reports them.                                     *)
Sets(k) == kind = k /\ set = Dropped /\ UNCHANGED << kind, ver, heard >>
Asked == Settable[kind]
Tell(v, b) == set' = Value(v) /\ bytes' = Value(b)
SetBasic == Sets("basic") /\ \E v \in Asked \cap Byte : Tell(v, OneByte(v))
SetSwitch == Sets("switch") /\ \E v \in Asked \cap {0, 255} : Tell(v, OneByte(v))
SetLevel == Sets("level") /\ \E v \in Asked \cap Levels : Tell(v, OneByte(v))
SetIndicator == Sets("indicator") /\ \E v \in Asked \cap Levels : Tell(v, OneByte(v))
SetProtEc == Sets("prot_ec") /\ ver >= 2 /\ \E v \in Asked \cap Controllers : Tell(v, OneByte(v))
SetProtTmout == Sets("prot_tmout") /\ ver >= 2 /\ \E v \in Asked \cap Timeouts : Tell(v, OneByte(v))
SetThrmoMd == Sets("thrmo_md") /\ \E v \in Asked \cap 0 .. 31 : Tell(v, OneByte(v))
SetWakeup == Sets("wakeup") /\ \E v \in Asked \cap Wakeups : Tell(v, WakeupBytes(v))
SetConfig == Sets("config") /\ \E v \in Asked \cap Configs : Tell(v, ConfigBytes(v))
SetDlckCfg == Sets("dlck_cfg") /\ \E v \in Asked \cap Locks : Tell(v, DlckCfgBytes(v))
SetUsrcod == Sets("usrcod") /\ \E v \in Asked \cap Codes : Tell(v, UsrcodBytes(v))
SetFanMd == Sets("fan_md") /\ \E v \in Asked \cap FanModes(ver) : Tell(v, FanMdBytes(v))
SetSetback == Sets("setback") /\ \E v \in Asked \cap Setbacks : Tell(v, SetbackBytes(v))
SetSetp == Sets("setpoint") /\ \E v \in Asked \cap Setpoints : Tell(v, SetpBytes(v))
SetClock == Sets("clock") /\ \E v \in Asked \cap Clocks : Tell(v, ClockBytes(v))
SetSchd == Sets("schedule") /\ \E v \in Asked \cap Schedules : Tell(v, SchdBytes(v))
SetOvr == Sets("override") /\ \E v \in Asked \cap Setbacks : Tell(v, OvrBytes(v))
SetProt == Sets("prot") /\ \E v \in Asked \cap Protections(ver) : Tell(v, ProtBytes(ver, v))
SetPower == Sets("power") /\ \E v \in Asked \cap Powers : Tell(v, PowerBytes(v))
SetGroupCmd ==
  Sets("group_cmd") /\ \E v \in Asked \cap GroupCmds : Tell(v, GroupCmdReport(GroupCmdBytes(v)))
Set ==
  \/ SetBasic \/ SetSwitch \/ SetLevel \/ SetIndicator \/ SetProtEc \/ SetProtTmout \/ SetThrmoMd
  \/ SetWakeup \/ SetConfig \/ SetDlckCfg \/ SetUsrcod \/ SetFanMd \/ SetSetback \/ SetSetp
  \/ SetClock \/ SetSchd \/ SetOvr \/ SetProt \/ SetPower \/ SetGroupCmd

Hear(v) ==
  bytes # Dropped /\ heard' = v /\ bytes' = Dropped /\ UNCHANGED << kind, ver, set >>
ReportArrives ==
  \/ kind = "basic" /\ Hear(BasicRead(bytes[1]))
  \/ kind = "switch" /\ Hear(SwitchRead(bytes[1]))
  \/ kind = "level" /\ Hear(LevelRead(bytes[1]))
  \/ kind = "indicator" /\ Hear(IndRead(bytes[1]))
  \/ kind = "prot_ec" /\ Hear(ProtEcRead(bytes[1]))
  \/ kind = "prot_tmout" /\ Hear(ProtTmoutRead(bytes[1]))
  \/ kind = "thrmo_md" /\ Hear(ThrmoMdRead(bytes[1]))
  \/ kind = "wakeup" /\ Hear(WakeupRead(bytes[1]))
  \/ kind = "config" /\ Hear(ConfigRead(bytes[1]))
  \/ kind = "dlck_cfg" /\ Hear(DlckCfgRead(bytes[1]))
  \/ kind = "usrcod" /\ Hear(UsrcodRead(bytes[1]))
  \/ kind = "fan_md" /\ Hear(FanMdRead(ver, bytes[1]))
  \/ kind = "setback" /\ Hear(SetbackRead(bytes[1]))
  \/ kind = "setpoint" /\ Hear(SetpRead(bytes[1]))
  \/ kind = "clock" /\ Hear(ClockRead(bytes[1]))
  \/ kind = "schedule" /\ Hear(SchdRead(bytes[1]))
  \/ kind = "override" /\ Hear(OvrRead(bytes[1]))
  \/ kind = "prot" /\ Hear(ProtRead(bytes[1]))
  \/ kind = "power" /\ Hear(PowerRead(bytes[1]))
  \/ kind = "group_cmd" /\ Hear(GroupCmdRead(bytes[1]))
Next == Set \/ ReportArrives
Spec == Init /\ [][Next]_vars

(* What a report of the version can tell of a value: before version 3 the    *)
(* fan mode has no "off" in its report, before version 2 the protection of    *)
(* the radio control is none.                                                 *)
Told(v) ==
  IF kind = "fan_md" /\ ver < 3 THEN [v EXCEPT !.off = FALSE]
  ELSE IF kind = "prot" /\ ver < 2 THEN [v EXCEPT !.rf = 0] ELSE v

(* The application hears of the node what it has set there: nothing is lost, *)
(* dropped or changed between a function's command and the report handler.    *)
SetIsHeard == set # Dropped /\ bytes = Dropped => heard = Value(Told(set[1]))
=============================================================================
