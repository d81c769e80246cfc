------------------------------- MODULE Timing -------------------------------
(***************************************************************************)
(* Transfer with clocks: the deadlines of the session, the timer of the    *)
(* reactor and the six seconds of silence that device-sim --disconnect-at- *)
(* percent injects.  Frames are lost to that outage only, and whoever has  *)
(* something to do does it within MaxLag.  Time is counted in units of     *)
(* 50 ms in the instances checked.                                         *)
(***************************************************************************)
EXTENDS Transfer

CONSTANTS
  Timeout, RetryInterval,   \* of queue_upgrade_request: 2000 ms and 750 ms
  TimerPeriod,              \* of the reactor's timerfd: 100 ms
  Outage,                   \* the length of the outage: 6000 ms
  Percents,                 \* the values of --disconnect-at-percent
  MaxLag                    \* bound on the delay of a process with work

ASSUME TimingAssumption ==
  /\ {Timeout, RetryInterval, Outage, MaxLag} \subseteq Nat \ {0}
  /\ TimerPeriod \in Nat /\ Percents \subseteq 0 .. 100
  /\ Modulus > 2      \* SetDeadline tells a request from the next one

VARIABLES
  left,       \* time until pending.deadline_ns, negative once it has passed
  elapsed,    \* history: age of the pending request
  outage,     \* time until outage_until_ns, 0 once it has passed
  injected,   \* outage_injected
  percent,    \* disconnect_at_percent
  lag         \* how long the work that is there has been waiting

clocks == <<left, elapsed, outage, injected, percent, lag>>
timedVars == <<vars, clocks>>

TimedInit ==
  /\ TransferInit
  /\ left = 0 /\ elapsed = 0
  /\ outage = 0 /\ injected = FALSE /\ percent \in Percents
  /\ lag = 0

Working == output # NoFrame \/ requests # <<>> \/ responses # <<>>

(* The clocks of the session when a step of the host leaves request        *)
(* session'.pending, new unless it has the sequence of the old one.        *)
SetDeadline ==
  IF session'.pending.sequence = session.pending.sequence
  THEN UNCHANGED <<left, elapsed>>
  ELSE /\ left' = IF session'.pending.active THEN Timeout ELSE 0
       /\ elapsed' = 0

TimedStart == /\ StartTransfer
              /\ SetDeadline /\ lag' = 0
              /\ UNCHANGED <<outage, injected, percent>>

TimedFlush == /\ FlushTransport /\ requests' # requests
              /\ lag' = 0
              /\ UNCHANGED <<left, elapsed, outage, injected, percent>>

TimedRead == /\ ReadTransport
             /\ SetDeadline /\ lag' = 0
             /\ UNCHANGED <<outage, injected, percent>>

(* Mutant: a retry waits the whole timeout again. *)
TimedRetryAfterTimeout ==
  /\ left <= 0 /\ TickRetry
  /\ left' = IF stopped' THEN left ELSE Timeout
  /\ UNCHANGED <<elapsed, outage, injected, percent, lag>>

(* A retry that finds transport_output taken leaves the deadline alone. *)
TimedRetry == /\ left <= 0 /\ TickRetry
              /\ left' = IF stopped' THEN left ELSE RetryInterval
              /\ UNCHANGED <<elapsed, outage, injected, percent, lag>>

TimedExhausted == /\ left <= 0 /\ TickExhausted
                  /\ SetDeadline
                  /\ UNCHANGED <<outage, injected, percent, lag>>

(* on_frame of FW_DATA starts the outage, once; write_frame then drops     *)
(* every frame until it is over, the answer to that FW_DATA included.      *)
OutageStarts == /\ ~injected
                /\ Head(requests).type = "FW_DATA"
                /\ \A o \in SimulatorHandle(device, Head(requests)) :
                     /\ o.frame.type # "NACK" /\ o.device.size # 0
                     /\ (o.device.offset * 100) \div o.device.size >= percent

TimedDevice ==
  /\ DeviceHandles
  /\ injected' = (injected \/ OutageStarts)
  /\ outage' = IF OutageStarts THEN Outage ELSE outage
  /\ (outage' = 0) <=> (responses' # responses)
  /\ lag' = 0
  /\ UNCHANGED <<left, elapsed, percent>>

(* One unit of time: the timer is served within its period, and work is    *)
(* not left waiting for more than MaxLag.                                  *)
TimePasses ==
  /\ session.pending.active => left > -TimerPeriod
  /\ Working => lag < MaxLag
  /\ left' = IF session.pending.active THEN left - 1 ELSE left
  /\ elapsed' = IF session.pending.active THEN elapsed + 1 ELSE elapsed
  /\ outage' = IF outage = 0 THEN 0 ELSE outage - 1
  /\ lag' = IF Working THEN lag + 1 ELSE 0
  /\ UNCHANGED <<vars, injected, percent>>

TimedNext == \/ TimedStart \/ TimedFlush \/ TimedRead \/ TimedRetry
             \/ TimedExhausted \/ TimedDevice \/ TimePasses

TimedSpec == TimedInit /\ [][TimedNext]_timedVars
               /\ WF_timedVars(TimedNext)

(***************************************************************************)
(* Properties                                                              *)
(***************************************************************************)
(* Every request, of the recovery during an outage too, keeps the          *)
(* deadlines of Deadline, and so, by RequestsEndInTime of DeadlineProofs,  *)
(* ends within the allowance of the upgrade's retry policy.                *)
Requests == INSTANCE Deadline WITH
  MaxRetries <- UpgradeRetries, active <- session.pending.active,
  retries_done <- session.pending.retries_done

KeepsDeadlines == Requests!DeadlineSpec

(* docs/reliability.md: the outage "deterministically exhausts normal data *)
(* retries and exercises FW_STATUS resume".  So no chunk is acknowledged   *)
(* after an outage before a recovery cycle has begun.                      *)
OutageForcesRecovery ==
  injected /\ upgrade.state \notin {"TRANSFER", "RECOVER"} =>
    upgrade.recovery_attempts > 0

(* An outage of six seconds does not fail an upgrade, wherever in the      *)
(* image it begins: every wait ends at a deadline and recovery bridges it. *)
UpgradeCompletes == upgrade.state = "TRANSFER" ~> upgrade.state = "COMPLETE"
=============================================================================
