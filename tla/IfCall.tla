------------------------------- MODULE IfCall -------------------------------
(* What an interface function does is the sequence of the library calls it  *)
(* makes: each takes nw->mtx for itself, and the function returns with the  *)
(* first that fails.  An interface f is [cls, ver] with what else the        *)
(* functions look at.                                                        *)
EXTENDS Integers, Sequences

Step(do, arg) == [do |-> do, arg |-> arg]

(* zwif_set_report, its result looked at or not; zwif_cmd_id_set;           *)
(* zwif_exec; zwif_get_report; zwif_get_report_poll.                         *)
Rpt(r) == Step("set_report", r)
TryRpt(r) == Step("try_report", r)
Id == Step("cmd_id", "")
Send(c) == Step("exec", c)
GetRpt(c) == Step("get_report", c)
GetRptPoll(c) == Step("poll", c)

(* zwif_cached_cb: the function returns ZW_ERR_QUEUED if it succeeds.        *)
Cached(t) == Step("cached", t)

(* Memory is allocated; what the interface keeps is copied.                  *)
Alloc == Step("alloc", "")
Peek == Step("peek", "")

Refused(e) == << Step("return", e) >>

(* The patterns the functions are made of.                                   *)
Set(c) == << Id, Send(c) >>
Fetch(c) == << Id, GetRpt(c) >>
AskIdFirst(r, c) == << Id, Rpt(r), GetRpt(c) >>  \* mutated form
Ask(r, c) == << Rpt(r) >> \o Fetch(c)
FetchOrPoll(poll, c) == IF poll THEN << GetRptPoll(c) >> ELSE Fetch(c)

Of(f, cls, script) == IF f.cls = cls THEN script ELSE Refused("CLASS_NOT_FOUND")
From(f, ver, script) == IF f.ver < ver THEN Refused("CMD_VERSION") ELSE script
Valid(ok, script) == IF ok THEN script ELSE Refused("VALUE")
=============================================================================
