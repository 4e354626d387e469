------------------------------ MODULE IdleBody ------------------------------
(***************************************************************************)
(* The client of the HTTP providers (internal/provider/httpclient.go): a   *)
(* round trip and the body that it returns, with the timer that cancels    *)
(* both when the upstream makes no progress for Timeout.  The timer's      *)
(* callback runs in a goroutine of its own, so that between its two        *)
(* statements, and before them, the reader may go on.                      *)
(*                                                                         *)
(* A timer that is set holds the time that is left; it runs out at 0.      *)
(***************************************************************************)
EXTENDS Naturals

CONSTANTS
    Timeout      \* server.write_timeout, which main hands to NewHTTPClient

ASSUME TimeoutAssumption == Timeout \in Nat \ {0}

VARIABLES
    timer,       \* b.timer: the time left, or Stopped
    callback,    \* how far the timer's callback has come
    expired,     \* b.expired
    ctx,         \* the context of the upstream request, by the cause of its end
    body         \* resp.Body: "none", "open" or "closed"

idleVars == <<timer, callback, expired, ctx, body>>

Stopped == Timeout + 1

IdleTypeOK ==
    /\ timer \in 0..Stopped
    /\ callback \in {"none", "store", "cancel"}
    /\ expired \in BOOLEAN
    /\ ctx \in {"live", "idle", "gone", "released"}
    /\ body \in {"none", "open", "closed"}

IdleInit ==
    /\ timer = Stopped /\ callback = "none" /\ expired = FALSE
    /\ ctx = "live" /\ body = "none"

\* The cause of a context's end is that of the first cancel.
Cancel(cause) == ctx' = IF ctx = "live" THEN cause ELSE ctx

\* Variant: the timer is set when the header arrives, and not before.
RoundTripBeginUntimed == UNCHANGED idleVars

\* RoundTrip up to the call of the inner transport.
RoundTripBegin == timer' = Timeout /\ UNCHANGED <<callback, expired, ctx, body>>

\* Variant: the header's arrival does not set the timer again.
RoundTripOkKeepsTimer == body' = "open" /\ UNCHANGED <<timer, callback, expired, ctx>>

RoundTripOk == timer' = Timeout /\ body' = "open" /\ UNCHANGED <<callback, expired, ctx>>

RoundTripFails == timer' = Stopped /\ Cancel("released") /\ UNCHANGED <<callback, expired, body>>

\* Read with n > 0, and with an error only.
ReadSome == timer' = Timeout /\ UNCHANGED <<callback, expired, ctx, body>>
ReadFails == UNCHANGED idleVars

\* The error that a failing call returns.
ErrorOf(err) == IF expired THEN "idle" ELSE err

\* Variant: Close leaves the timer and the context alone.
CloseBodyOnly == body' = "closed" /\ UNCHANGED <<timer, callback, expired, ctx>>

Close == timer' = Stopped /\ body' = "closed" /\ Cancel("released") /\ UNCHANGED <<callback, expired>>

(***************************************************************************)
(* The timer                                                               *)
(***************************************************************************)

\* The timer runs out and starts its callback.
Expire ==
    /\ timer = 0 /\ callback = "none"
    /\ timer' = Stopped /\ callback' = "store"
    /\ UNCHANGED <<expired, ctx, body>>

CallbackStore ==
    /\ callback = "store"
    /\ callback' = "cancel" /\ expired' = TRUE
    /\ UNCHANGED <<timer, ctx, body>>

CallbackCancel ==
    /\ callback = "cancel"
    /\ callback' = "none" /\ Cancel("idle")
    /\ UNCHANGED <<timer, expired, body>>

Alarm == Expire \/ CallbackStore \/ CallbackCancel

\* One unit of time.
Elapse(t) == IF t \in 1..Timeout THEN t - 1 ELSE t
=============================================================================
