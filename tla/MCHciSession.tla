---------------------------- MODULE MCHciSession ----------------------------
(* The session layer for TLC: a command with response and callback, one    *)
(* with a callback only, one with a response only, and the abort.          *)
EXTENDS HciSession

CONSTANTS send, set_default, abort

MCCmds == {send, set_default, abort}
MCFrames == [cmd : MCCmds, func_id : 0 .. SESSION_FUNCID_MAX]
=============================================================================
