------------------------------ MODULE Deadline ------------------------------
(***************************************************************************)
(* The time one request of the session may take: the deadlines that        *)
(* src/device/session.c sets, served by the reactor's timerfd, which       *)
(* expires every TimerPeriod.  Time is discrete; left is deadline_ns less  *)
(* the current time, negative once the deadline has passed.                *)
(***************************************************************************)
EXTENDS Integers

CONSTANTS
  Timeout, RetryInterval, MaxRetries,  \* struct devmgr_retry_policy
  TimerPeriod                          \* the period of the timerfd

(* What devmgr_session_begin_request accepts as a policy. *)
GoodPolicy ==
  /\ Timeout \in Nat \ {0} /\ RetryInterval \in Nat
  /\ MaxRetries \in Nat /\ TimerPeriod \in Nat

VARIABLES
  active, retries_done, left,   \* pending, its deadline
  elapsed                       \* history: the age of the pending request

deadlineVars == <<active, retries_done, left, elapsed>>

DeadlineInit == active = FALSE /\ retries_done = 0 /\ left = 0 /\ elapsed = 0

Begin ==
  /\ ~active
  /\ active' = TRUE /\ retries_done' = 0
  /\ left' = Timeout /\ elapsed' = 0

(* devmgr_session_accept_response or devmgr_session_cancel_request *)
End ==
  /\ active
  /\ active' = FALSE /\ retries_done' = 0 /\ left' = 0 /\ elapsed' = 0

(* An answer that makes the host ask the next thing at once. *)
EndAndBegin ==
  /\ active
  /\ retries_done' = 0 /\ left' = Timeout /\ elapsed' = 0
  /\ UNCHANGED active

(* A policy without a retry interval repeats after the timeout. *)
Interval == IF RetryInterval = 0 THEN Timeout ELSE RetryInterval

(* devmgr_session_tick before the last retry; after it, End or EndAndBegin. *)
Resend ==
  /\ active /\ left <= 0 /\ retries_done < MaxRetries
  /\ retries_done' = retries_done + 1
  /\ left' = Interval
  /\ UNCHANGED <<active, elapsed>>

(* One unit of time.  The timer is served within its period. *)
Advance ==
  /\ active => left > -TimerPeriod
  /\ left' = IF active THEN left - 1 ELSE left
  /\ elapsed' = IF active THEN elapsed + 1 ELSE elapsed
  /\ UNCHANGED <<active, retries_done>>

DeadlineNext == Begin \/ End \/ EndAndBegin \/ Resend \/ Advance

DeadlineSpec == DeadlineInit /\ [][DeadlineNext]_deadlineVars

(* What the policy allows a request: the timeout, the retries, and the     *)
(* lateness of the timer at each of them.                                  *)
Allowance == Timeout + MaxRetries * (Interval + TimerPeriod) + TimerPeriod

(* A request is answered or given up within the allowance of its policy,   *)
(* however the timer falls and whenever the answer comes.                  *)
EndsInTime == active => elapsed <= Allowance
=============================================================================
