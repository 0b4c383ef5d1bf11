-------------------------- MODULE CommandService --------------------------
(***************************************************************************)
(* What ssn_cmd_snd promises to the application layer, which serialises    *)
(* its callers with snd_mtx: one command is in progress at a time, every   *)
(* command that is begun ends with one outcome, the outcome is never       *)
(* SESSION_ERROR_SYNC ("it means the state-machine is out of sync!"), and  *)
(* a response that is returned is a response frame with the command's own  *)
(* identifier that arrived after the command was handed to the frame       *)
(* layer.                                                                  *)
(***************************************************************************)
CONSTANTS Callers, Cmds, NoCmd, HasResp

VARIABLES
  active,  \* active[c]: the command caller c waits for, or NoCmd
  heard,   \* the identifiers of the response frames since Begin
  ret      \* ret[c]: the outcome c has not used yet

svc_vars == <<active, heard, ret>>

\* The command was not begun.
Refusals == {"ERR_UNCOMPLETED", "ERR_MULTIPLE_WRITE", "ERR_WRITE", "ERR_SND_TIMER"}
\* The command was begun and went wrong.
Failures == {"ERR_SND_FRM_TMOUT", "ERR_SEND_CHKSUM", "ERR_SEND_BUSY",
             "ERR_RESP_TMOUT", "ERR_MEMORY", "ERR_INVALID_RESP"}

SvcInit ==
  /\ active = [c \in Callers |-> NoCmd]
  /\ heard = {}
  /\ ret = [c \in Callers |-> "none"]

InProgress == \E c \in Callers : active[c] # NoCmd

\* Nobody is between the begin of a command and the use of its outcome.
Quiet == ~ InProgress /\ \A c \in Callers : ret[c] = "none"

Begin(c, cmd) ==
  /\ Quiet
  /\ active' = [active EXCEPT ![c] = cmd]
  /\ heard' = {}
  /\ UNCHANGED ret

Refuse(c) ==
  /\ Quiet
  /\ \E r \in Refusals : ret' = [ret EXCEPT ![c] = r]
  /\ heard' = {}
  /\ UNCHANGED active

Hear(cmd) ==
  /\ InProgress
  /\ heard' = heard \cup {cmd}
  /\ UNCHANGED <<active, ret>>

Finish(c) ==
  /\ active[c] # NoCmd
  /\ active' = [active EXCEPT ![c] = NoCmd]
  /\ heard' = {}
  /\ \E r \in Failures \cup {"SENT", "RESPONSE"} :
       /\ r = "SENT" => active[c] \notin HasResp
       /\ r = "RESPONSE" => active[c] \in HasResp \cap heard
       /\ ret' = [ret EXCEPT ![c] = r]

\* The caller goes on.
Use(c) ==
  /\ ret[c] # "none"
  /\ ret' = [ret EXCEPT ![c] = "none"]
  /\ UNCHANGED <<active, heard>>

SvcNext ==
  \/ \E c \in Callers : Refuse(c) \/ Finish(c) \/ Use(c) \/ \E cmd \in Cmds : Begin(c, cmd)
  \/ \E cmd \in Cmds : Hear(cmd)

SvcSpec == SvcInit /\ [][SvcNext]_svc_vars
           /\ \A c \in Callers : WF_svc_vars(Finish(c))
===========================================================================
