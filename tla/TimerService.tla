--------------------------- MODULE TimerService ---------------------------
(***************************************************************************)
(* The one-shot timers of the platform layer, as the layers above it see   *)
(* them.  A layer keeps one handle per purpose (frm_ctx->snd_tmr_ctx,      *)
(* frm_ctx->resnd_tmr_ctx, ssn_ctx->resp_tmr_ctx) and each handle always   *)
(* names a timer with the same callback, so a running timer is a record    *)
(*   cb     the callback it will run,                                      *)
(*   named  whether the handle of that purpose still holds its id,         *)
(*   left   the timer ticks left before it expires.                        *)
(* A timer that no handle names runs on and nobody can stop it.  The       *)
(* identifiers themselves, their wrap and the wrap of the tick counter are *)
(* not part of this view.                                                  *)
(***************************************************************************)
EXTENDS Integers

\* The timers whose callback is cb.
TmrsOf(lst, cb) == {t \in lst : t.cb = cb}

\* plt_tmr_stop of the handle of cb: the timer it names leaves the list; a
\* handle that is NULL, or whose timer has already expired, stops nothing.
TmrStop(lst, cb) == {t \in lst : ~ (t.cb = cb /\ t.named)}

\* The handle of cb is overwritten without a stop.
TmrForget(lst, cb) ==
  {IF t.cb = cb THEN [t EXCEPT !.named = FALSE] ELSE t : t \in lst}

\* plt_tmr_start that succeeds: the handle now names the new timer.
TmrStart(lst, cb, ticks) ==
  TmrForget(lst, cb) \cup {[cb |-> cb, named |-> TRUE, left |-> ticks]}

\* plt_tmr_stop followed by plt_tmr_start on the same handle.
TmrRestart(lst, cb, ticks) == TmrStart(TmrStop(lst, cb), cb, ticks)

\* The timers that the timer check thread finds expired.
TmrDue(lst) == {t \in lst : t.left = 0}

\* One tick of the timer tick thread.
TmrTick(lst) == {[t EXCEPT !.left = @ - 1] : t \in lst}
===========================================================================
