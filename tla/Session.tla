------------------------------ MODULE Session ------------------------------
(***************************************************************************)
(* The device session of src/device/session.c as operators on a record:    *)
(* the connection state and the one request that may be in flight.  Every  *)
(* operator takes the session before a call and gives the session after    *)
(* it; the machines that own a session (Daemon, Transfer) decide when the  *)
(* call happens.                                                           *)
(*                                                                         *)
(* Time is abstracted: whether now_ns has passed deadline_ns is a choice   *)
(* of the caller.  The statistics counters, last_completed_sequence (read  *)
(* only by a counter) and the flag bits no receiver inspects are left out. *)
(* A request that is no longer active is kept as NoRequest, because every  *)
(* later read of pending.frame is guarded by pending.active.               *)
(***************************************************************************)
EXTENDS Integers

CONSTANT Modulus    \* the number of uint32_t values: 2^32 in the program

ASSUME ModulusAssumption == Modulus \in Nat /\ Modulus > 1

DeviceStates == {"DISCONNECTED", "CONNECTING", "HANDSHAKING", "READY",
                 "STREAMING", "UPGRADING", "REBOOTING"}

Sequences32 == 1 .. Modulus - 1     \* the sequence numbers a request may carry

NoRequest == [active |-> FALSE, type |-> "NONE", sequence |-> 0,
              retries_done |-> 0, max_retries |-> 0]

InitialSession == [state |-> "DISCONNECTED", next_sequence |-> 1,
                   pending |-> NoRequest]

(* Mutant: 0 is not skipped. *)
PlainIncrement(n) == (n + 1) % Modulus

(* ++n on a uint32_t that must not become 0 *)
NextSequence(n) == IF (n + 1) % Modulus = 0 THEN 1 ELSE (n + 1) % Modulus

Cancel(s) == [s EXCEPT !.pending = NoRequest]

(* The state an event leads to, or the state itself when the edge is       *)
(* refused with DEVMGR_ERROR_STATE (no edge is a self loop).               *)
Successor(state, event) ==
  CASE event \in {"TRANSPORT_LOST", "FAIL"}                       -> "DISCONNECTED"
    [] state = "DISCONNECTED" /\ event = "CONNECT"                -> "CONNECTING"
    [] state \in {"CONNECTING", "REBOOTING"}
         /\ event = "TRANSPORT_CONNECTED"                         -> "HANDSHAKING"
    [] state = "HANDSHAKING" /\ event = "HANDSHAKE_OK"            -> "READY"
    [] state = "READY" /\ event = "START_STREAM"                  -> "STREAMING"
    [] state = "READY" /\ event = "START_UPGRADE"                 -> "UPGRADING"
    [] state = "STREAMING" /\ event = "STOP_STREAM"               -> "READY"
    [] state = "UPGRADING" /\ event = "UPGRADE_DONE"              -> "READY"
    [] state \in {"READY", "STREAMING", "UPGRADING"}
         /\ event = "REBOOT"                                      -> "REBOOTING"
    [] OTHER                                                      -> state

Accepts(s, event) == event \in {"TRANSPORT_LOST", "FAIL"}
                     \/ Successor(s.state, event) # s.state

Transition(s, event) ==
  LET moved == [s EXCEPT !.state = Successor(s.state, event)]
  IN  IF event \in {"TRANSPORT_LOST", "FAIL"} THEN Cancel(moved) ELSE moved

(* Mutant: the pending request is not looked at. *)
AlwaysBegin(s) == TRUE

(* devmgr_session_begin_request answers DEVMGR_ERROR_BUSY when this fails. *)
CanBegin(s) == ~s.pending.active

BeginRequest(s, type, max_retries) ==
  [s EXCEPT !.next_sequence = NextSequence(@),
            !.pending = [active |-> TRUE, type |-> type,
                         sequence |-> s.next_sequence,
                         retries_done |-> 0, max_retries |-> max_retries]]

ErrorTypes == {"NACK", "ERROR"}
AckTypes == {"ACK"} \union ErrorTypes

(* The frames that complete the pending request; any other is counted and  *)
(* refused with NOT_FOUND or PROTOCOL.                                     *)
Matches(s, frame) ==
  /\ s.pending.active
  /\ frame.sequence = s.pending.sequence
  /\ frame.response \/ frame.type \in AckTypes
  /\ frame.type = s.pending.type \/ frame.type \in AckTypes

Complete(s) == Cancel(s)

(* devmgr_session_tick once the deadline has passed: give up, or resend    *)
(* and count the retry when the retransmit callback succeeded.             *)
Exhausted(s) == s.pending.retries_done >= s.pending.max_retries
Expire(s) == Cancel(s)
Retry(s) == [s EXCEPT !.pending.retries_done = @ + 1]
=============================================================================
