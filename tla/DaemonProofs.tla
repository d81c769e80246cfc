---------------------------- MODULE DaemonProofs ----------------------------
(***************************************************************************)
(* The safety of the reactor for every number of clients, every sequence   *)
(* width, every retry limit and every device: DaemonInv is inductive.      *)
(***************************************************************************)
EXTENDS Daemon, TLAPS

(***************************************************************************)
(* The validation worker                                                   *)
(*                                                                         *)
(* Its safety for every set of job ids: no image is lost or used after it  *)
(* is unmapped, a notification comes with its result, and the mailbox      *)
(* holds one job.                                                          *)
(***************************************************************************)
(* The id of a result is a job id or 0, and 0 has no image.                *)
LEMMA ResultIds ==
  ASSUME NEW r \in Results
  PROVE  /\ r.job_id \in JobIds \union {0}
         /\ ImageOf(r) \in JobIds \union {0}
         /\ ImageOf(NoResult) = 0
  BY DEF Results, NoResult, ImageOf

(* Every action of the worker and the reactor keeps the type.              *)
LEMMA TypeStep == WorkerInv /\ [WorkerNext]_workerVars => WorkerTypeOK'
<1> SUFFICES ASSUME WorkerInv, [WorkerNext]_workerVars
             PROVE  WorkerTypeOK'
    OBVIOUS
<1> USE JobIdsAssumption DEF WorkerInv, WorkerTypeOK, Results, NoResult, OpenStatus
<1>1. CASE Sleep
      BY <1>1 DEF Sleep, GoTo
<1>2. CASE SpuriousWakeup
      BY <1>2 DEF SpuriousWakeup, GoTo
<1>3. CASE TakeJob
      BY <1>3 DEF TakeJob, OneOwner
<1>4. CASE OpenImage
      BY <1>4 DEF OpenImage, OneOwner
<1>5. CASE PostResult
      BY <1>5 DEF PostResult
<1>6. CASE NotifyReactor
      BY <1>6 DEF NotifyReactor, GoTo
<1>7. CASE ExitThread
      BY <1>7 DEF ExitThread, GoTo
<1>8. ASSUME NEW job_id \in JobIds, Submit(job_id)
      PROVE  WorkerTypeOK'
      BY <1>8 DEF Submit, Submitted, Signalled
<1>9. CASE Adopt
  <2>1. mailbox.result \in Results
        OBVIOUS
  <2>2. firmware' \in JobIds \union {0}
        BY <1>9, <2>1, ResultIds DEF Adopt
  <2>3. mailbox' \in [stop : BOOLEAN, job_pending : BOOLEAN,
                      job_running : BOOLEAN, result_pending : BOOLEAN,
                      job_id : JobIds \union {0}, result : Results]
        BY <1>9 DEF Adopt, Taken
  <2> QED
      BY <1>9, <2>2, <2>3 DEF Adopt
<1>10. CASE Reject
      BY <1>10 DEF Reject, Taken, Closed
<1>11. CASE Release
      BY <1>11 DEF Release, Closed
<1>12. CASE StopWorker
      BY <1>12 DEF StopWorker, Stopped, Signalled
<1>13. CASE JoinWorker
      BY <1>13 DEF JoinWorker, LiveAfterJoin, Closed, GoTo
<1>14. CASE UNCHANGED workerVars
      BY <1>14 DEF workerVars
<1> QED
    BY <1>1, <1>2, <1>3, <1>4, <1>5, <1>6, <1>7, <1>8, <1>9, <1>10, <1>11,
       <1>12, <1>13, <1>14 DEF WorkerNext, ThreadStep, ReactorCall

(* One job at a time, and a post never overwrites a result.                *)
LEMMA SingleJobStep == WorkerInv /\ [WorkerNext]_workerVars => SingleJob'
<1> SUFFICES ASSUME WorkerInv, [WorkerNext]_workerVars
             PROVE  SingleJob'
    OBVIOUS
<1> USE DEF WorkerInv, WorkerTypeOK, SingleJob
<1>1. CASE Sleep
      BY <1>1 DEF Sleep, GoTo
<1>2. CASE SpuriousWakeup
      BY <1>2 DEF SpuriousWakeup, GoTo
<1>3. CASE TakeJob
      BY <1>3 DEF TakeJob
<1>4. CASE OpenImage
      BY <1>4 DEF OpenImage
<1>5. CASE PostResult
      BY <1>5 DEF PostResult
<1>6. CASE NotifyReactor
      BY <1>6 DEF NotifyReactor, GoTo
<1>7. CASE ExitThread
      BY <1>7 DEF ExitThread, GoTo
<1>8. ASSUME NEW job_id \in JobIds, Submit(job_id)
      PROVE  SingleJob'
      BY <1>8 DEF Submit, Submitted, Signalled, CanSubmit
<1>9. CASE Adopt
      BY <1>9 DEF Adopt, Taken
<1>10. CASE Reject
      BY <1>10 DEF Reject, Taken
<1>11. CASE Release
      BY <1>11 DEF Release
<1>12. CASE StopWorker
      BY <1>12 DEF StopWorker, Stopped, Signalled
<1>13. CASE JoinWorker
      BY <1>13 DEF JoinWorker, GoTo
<1>14. CASE UNCHANGED workerVars
      BY <1>14 DEF workerVars
<1> QED
    BY <1>1, <1>2, <1>3, <1>4, <1>5, <1>6, <1>7, <1>8, <1>9, <1>10, <1>11,
       <1>12, <1>13, <1>14 DEF WorkerNext, ThreadStep, ReactorCall

(* The eventfd is written once per result and read with it; the reactor    *)
(* holds no image while a job is in the worker.                            *)
LEMMA OwnerStep ==
  WorkerInv /\ [WorkerNext]_workerVars => NotificationHasResult' /\ OneOwner'
<1> SUFFICES ASSUME WorkerInv, [WorkerNext]_workerVars
             PROVE  NotificationHasResult' /\ OneOwner'
    OBVIOUS
<1> USE JobIdsAssumption DEF WorkerInv, WorkerTypeOK, SingleJob,
        NotificationHasResult, OneOwner, InWorker
<1>1. CASE Sleep
      BY <1>1 DEF Sleep, GoTo
<1>2. CASE SpuriousWakeup
      BY <1>2 DEF SpuriousWakeup, GoTo
<1>3. CASE TakeJob
      BY <1>3 DEF TakeJob
<1>4. CASE OpenImage
  <2>1. PICK status \in OpenStatus :
          thread' = [pc |-> "post",
                     result |-> [thread.result EXCEPT !.status = status]]
        BY <1>4 DEF OpenImage
  <2>2. thread'.pc = "post" /\ thread'.result.job_id = thread.result.job_id
        BY <2>1 DEF Results, NoResult
  <2> QED
      BY <1>4, <2>2 DEF OpenImage
<1>5. CASE PostResult
      BY <1>5 DEF PostResult
<1>6. CASE NotifyReactor
      BY <1>6 DEF NotifyReactor, GoTo
<1>7. CASE ExitThread
      BY <1>7 DEF ExitThread, GoTo
<1>8. ASSUME NEW job_id \in JobIds, Submit(job_id)
      PROVE  NotificationHasResult' /\ OneOwner'
      BY <1>8 DEF Submit, Submitted, Signalled, CanSubmit
<1>9. CASE Adopt
      BY <1>9 DEF Adopt, Taken, CanTake
<1>10. CASE Reject
      BY <1>10 DEF Reject, Taken, CanTake
<1>11. CASE Release
      BY <1>11 DEF Release
<1>12. CASE StopWorker
      BY <1>12 DEF StopWorker, Stopped, Signalled
<1>13. CASE JoinWorker
      BY <1>13 DEF JoinWorker, GoTo
<1>14. CASE UNCHANGED workerVars
      BY <1>14 DEF workerVars
<1> QED
    BY <1>1, <1>2, <1>3, <1>4, <1>5, <1>6, <1>7, <1>8, <1>9, <1>10, <1>11,
       <1>12, <1>13, <1>14 DEF WorkerNext, ThreadStep, ReactorCall

(* The result posted is that of the job submitted.                         *)
LEMMA ResultStep == WorkerInv /\ [WorkerNext]_workerVars => ResultIsOfJob'
<1> SUFFICES ASSUME WorkerInv, [WorkerNext]_workerVars
             PROVE  ResultIsOfJob'
    OBVIOUS
<1> USE DEF WorkerInv, WorkerTypeOK, SingleJob, OneOwner, ResultIsOfJob
<1>1. CASE Sleep
      BY <1>1 DEF Sleep, GoTo
<1>2. CASE SpuriousWakeup
      BY <1>2 DEF SpuriousWakeup, GoTo
<1>3. CASE TakeJob
      BY <1>3 DEF TakeJob
<1>4. CASE OpenImage
  <2>1. PICK status \in OpenStatus :
          thread' = [pc |-> "post",
                     result |-> [thread.result EXCEPT !.status = status]]
        BY <1>4 DEF OpenImage
  <2>2. thread'.pc = "post" /\ thread'.result.job_id = thread.result.job_id
        /\ thread'.result.status = status
        BY <2>1 DEF Results, NoResult
  <2> QED
      BY <1>4, <2>2 DEF OpenImage
<1>5. CASE PostResult
      BY <1>5 DEF PostResult
<1>6. CASE NotifyReactor
      BY <1>6 DEF NotifyReactor, GoTo
<1>7. CASE ExitThread
      BY <1>7 DEF ExitThread, GoTo
<1>8. ASSUME NEW job_id \in JobIds, Submit(job_id)
      PROVE  ResultIsOfJob'
      BY <1>8 DEF Submit, Submitted, Signalled, CanSubmit
<1>9. CASE Adopt
      BY <1>9 DEF Adopt, Taken
<1>10. CASE Reject
      BY <1>10 DEF Reject, Taken
<1>11. CASE Release
      BY <1>11 DEF Release
<1>12. CASE StopWorker
      BY <1>12 DEF StopWorker, Stopped, Signalled
<1>13. CASE JoinWorker
      BY <1>13 DEF JoinWorker, GoTo
<1>14. CASE UNCHANGED workerVars
      BY <1>14 DEF workerVars
<1> QED
    BY <1>1, <1>2, <1>3, <1>4, <1>5, <1>6, <1>7, <1>8, <1>9, <1>10, <1>11,
       <1>12, <1>13, <1>14 DEF WorkerNext, ThreadStep, ReactorCall

(* Every mapped image has exactly the owner NoImageLost names.             *)
LEMMA ImageStep == WorkerInv /\ [WorkerNext]_workerVars => NoImageLost'
<1> SUFFICES ASSUME WorkerInv, [WorkerNext]_workerVars
             PROVE  NoImageLost'
    OBVIOUS
<1> USE DEF WorkerInv, WorkerTypeOK, SingleJob, OneOwner, InWorker,
        NoImageLost, Held, HeldByThread, HeldByMailbox, HeldByReactor
<1>1. CASE Sleep
      BY <1>1 DEF Sleep, GoTo
<1>2. CASE SpuriousWakeup
      BY <1>2 DEF SpuriousWakeup, GoTo
<1>3. CASE TakeJob
      BY <1>3 DEF TakeJob
<1>4. CASE OpenImage
  <2>1. PICK status \in OpenStatus :
          /\ thread' = [pc |-> "post",
                        result |-> [thread.result EXCEPT !.status = status]]
          /\ live' = IF status = "OK" THEN live \union {thread.result.job_id}
                                     ELSE live
        BY <1>4 DEF OpenImage
  <2>2. live = {}
        BY <1>4 DEF OpenImage
  <2>3. ImageOf(thread'.result) = IF status = "OK" THEN thread.result.job_id ELSE 0
        BY <2>1 DEF ImageOf, Results, NoResult
  <2> QED
      BY <1>4, <2>1, <2>2, <2>3 DEF OpenImage
<1>5. CASE PostResult
      BY <1>5 DEF PostResult
<1>6. CASE NotifyReactor
      BY <1>6 DEF NotifyReactor, GoTo
<1>7. CASE ExitThread
      BY <1>7 DEF ExitThread, GoTo
<1>8. ASSUME NEW job_id \in JobIds, Submit(job_id)
      PROVE  NoImageLost'
      BY <1>8 DEF Submit, Submitted, Signalled, CanSubmit
<1>9. CASE Adopt
      BY <1>9 DEF Adopt, Taken, CanTake, ImageOf
<1>10. CASE Reject
      BY <1>10 DEF Reject, Taken, CanTake, Closed
<1>11. CASE Release
      BY <1>11 DEF Release, Closed
<1>12. CASE StopWorker
      BY <1>12 DEF StopWorker, Stopped, Signalled
<1>13. CASE JoinWorker
      BY <1>13 DEF JoinWorker, GoTo, LiveAfterJoin, Closed
<1>14. CASE UNCHANGED workerVars
      BY <1>14 DEF workerVars
<1> QED
    BY <1>1, <1>2, <1>3, <1>4, <1>5, <1>6, <1>7, <1>8, <1>9, <1>10, <1>11,
       <1>12, <1>13, <1>14 DEF WorkerNext, ThreadStep, ReactorCall

(* The worker starts in the invariant: no job, no image, no notification.  *)
LEMMA InitInv == WorkerInit => WorkerInv
<1> SUFFICES ASSUME WorkerInit PROVE WorkerInv
    OBVIOUS
<1>1. WorkerTypeOK
      BY DEF WorkerInit, WorkerTypeOK, Results, NoResult
<1>2. SingleJob /\ NotificationHasResult /\ OneOwner /\ ResultIsOfJob
      BY DEF WorkerInit, SingleJob, NotificationHasResult, OneOwner, InWorker,
             ResultIsOfJob
<1>3. NoImageLost
      BY DEF WorkerInit, NoImageLost, Held, HeldByThread, HeldByMailbox,
             HeldByReactor
<1> QED
    BY <1>1, <1>2, <1>3 DEF WorkerInv

(* The invariant holds throughout every behaviour of the worker and of a   *)
(* reactor that uses it as WorkerSpec allows.                              *)
THEOREM WorkerInvariance == WorkerSpec => []WorkerInv
<1>1. WorkerInv /\ [WorkerNext]_workerVars => WorkerInv'
      BY TypeStep, SingleJobStep, OwnerStep, ResultStep, ImageStep DEF WorkerInv
<1> QED
    BY InitInv, <1>1, PTL DEF WorkerSpec

(* The type invariant of the mailbox, the thread and the image sets, for   *)
(* every set of job ids.                                                   *)
THEOREM WorkerTypes == WorkerSpec => []WorkerTypeOK
<1>1. WorkerInv => WorkerTypeOK
      BY DEF WorkerInv
<1> QED
    BY <1>1, WorkerInvariance, PTL

(* No mapping opened by devmgr_firmware_open is leaked, closed twice or    *)
(* referred to after its munmap, in any interleaving of the thread with    *)
(* submission, completion, rejection, release and shutdown.                *)
THEOREM ImagesHaveOwners == WorkerSpec => []NoImageLost
<1>1. WorkerInv => NoImageLost
      BY DEF WorkerInv
<1> QED
    BY <1>1, WorkerInvariance, PTL

(* devmgr_worker_take_result after an eventfd notification never answers   *)
(* NOT_FOUND, so handle_worker_completion never stops the daemon with it.  *)
THEOREM NotificationsAreTrue == WorkerSpec => []NotificationHasResult
<1>1. WorkerInv => NotificationHasResult
      BY DEF WorkerInv
<1> QED
    BY <1>1, WorkerInvariance, PTL

(* The single-slot mailbox never holds two jobs or overwrites a result.    *)
THEOREM OneJobAtATime == WorkerSpec => []SingleJob
<1>1. WorkerInv => SingleJob
      BY DEF WorkerInv
<1> QED
    BY <1>1, WorkerInvariance, PTL

(* The reactor is never handed the result of another job than the one it   *)
(* submitted last.                                                         *)
THEOREM ResultsMatchJobs == WorkerSpec => []ResultIsOfJob
<1>1. WorkerInv => ResultIsOfJob
      BY DEF WorkerInv
<1> QED
    BY <1>1, WorkerInvariance, PTL

(***************************************************************************)
(* The operators of Session and Upgrade                                    *)
(***************************************************************************)
(* The wrap-around of a sequence number skips 0. *)
LEMMA NextSequenceValue ==
  ASSUME NEW n \in 0 .. Modulus - 1
  PROVE  /\ NextSequence(n) = IF n + 1 = Modulus THEN 1 ELSE n + 1
         /\ NextSequence(n) \in Sequences32
<1>1. n + 1 < Modulus => (n + 1) % Modulus = n + 1
      BY ModulusAssumption, SMT
<1>2. Modulus % Modulus = 0
      BY ModulusAssumption, SMT
<1> QED
    BY <1>1, <1>2, ModulusAssumption DEF NextSequence, Sequences32

(* A session whose request has not been repeated too often.                *)
SessionOK(s) == s \in Sessions /\ s.pending.retries_done <= s.pending.max_retries

LEMMA CancelSession ==
  ASSUME NEW s \in Sessions
  PROVE  /\ SessionOK(Cancel(s))
         /\ Cancel(s).state = s.state
         /\ Cancel(s).pending.active = FALSE
         /\ Cancel(s).next_sequence = s.next_sequence
<1>1. NoRequest \in Requests
      BY ModulusAssumption DEF NoRequest, Requests, RequestTypes
<1>2. NoRequest.active = FALSE /\ NoRequest.retries_done = 0
      /\ NoRequest.max_retries = 0
      BY DEF NoRequest
<1>3. Cancel(s) \in Sessions /\ Cancel(s).pending = NoRequest
      BY <1>1 DEF Sessions, Cancel
<1> QED
    BY <1>2, <1>3 DEF SessionOK, Sessions, Cancel

LEMMA BeginSession ==
  ASSUME NEW s \in Sessions, NEW type \in RequestTypes, NEW limit \in Nat
  PROVE  /\ SessionOK(BeginRequest(s, type, limit))
         /\ BeginRequest(s, type, limit).state = s.state
         /\ BeginRequest(s, type, limit).pending.active = TRUE
         /\ BeginRequest(s, type, limit).pending.type = type
<1>1. s.next_sequence \in 0 .. Modulus - 1
      BY ModulusAssumption DEF Sessions, Sequences32
<1>2. NextSequence(s.next_sequence) \in Sequences32
      BY <1>1, NextSequenceValue
<1>3. BeginRequest(s, type, limit) \in Sessions
      BY <1>1, <1>2 DEF Sessions, Requests, BeginRequest
<1>4. /\ BeginRequest(s, type, limit).state = s.state
      /\ BeginRequest(s, type, limit).pending.active = TRUE
      /\ BeginRequest(s, type, limit).pending.type = type
      /\ BeginRequest(s, type, limit).pending.retries_done = 0
      /\ BeginRequest(s, type, limit).pending.max_retries = limit
      BY DEF Sessions, BeginRequest
<1> QED
    BY <1>3, <1>4 DEF SessionOK

LEMMA MovedSession ==
  ASSUME NEW s, SessionOK(s), NEW event, event \notin {"TRANSPORT_LOST", "FAIL"}
  PROVE  /\ SessionOK(Transition(s, event))
         /\ Transition(s, event).state = Successor(s.state, event)
         /\ Transition(s, event).pending = s.pending
         /\ Transition(s, event).next_sequence = s.next_sequence
<1>1. Successor(s.state, event) \in DeviceStates
      BY DEF SessionOK, Sessions, Successor, DeviceStates
<1> QED
    BY <1>1 DEF SessionOK, Sessions, Transition

LEMMA RetriedSession ==
  ASSUME NEW s, SessionOK(s), ~Exhausted(s)
  PROVE  /\ SessionOK(Retry(s))
         /\ Retry(s).state = s.state
         /\ Retry(s).pending.active = s.pending.active
         /\ Retry(s).pending.type = s.pending.type
         /\ Retry(s).next_sequence = s.next_sequence
  BY DEF SessionOK, Sessions, Requests, Retry, Exhausted

(* The states after the transfer are entered with every byte acknowledged. *)
AtEnd(u) == u.state \in {"END", "VERIFY", "ACTIVATE", "REBOOT", "COMPLETE"} =>
              u.offset = Len(u.image)

LEMMA FailedUpgrade ==
  ASSUME NEW u \in Upgrades
  PROVE  Fail(u) \in Upgrades /\ Fail(u).state = "ERROR"
  BY DEF Upgrades, UpgradeStates, Fail

LEMMA BuiltUpgrade ==
  ASSUME NEW u \in Upgrades
  PROVE  /\ Built(u) \in Upgrades
         /\ Built(u).state = u.state
         /\ AtEnd(u) => AtEnd(Built(u))
         /\ RequestType(Built(u)) = RequestType(u)
         /\ RequestType(u) \in RequestTypes
<1>1. Len(u.image) \in Nat /\ u.offset \in Nat
      BY DEF Upgrades
<1>2. ChunkEnd(u) \in Nat
      BY <1>1, UpgradeAssumption DEF ChunkEnd, MinOf
<1>3. /\ Built(u) \in Upgrades
      /\ Built(u).state = u.state
      /\ Built(u).offset = u.offset /\ Built(u).image = u.image
      BY <1>2 DEF Upgrades, Built
<1> QED
    BY <1>3 DEF AtEnd, RequestType, RequestTypes

LEMMA StartedUpgrade ==
  ASSUME NEW u, NEW image \in Images
  PROVE  /\ StartUpgrade(u, image, "V") \in Upgrades
         /\ StartUpgrade(u, image, "V").state = "ENTER_BOOTLOADER"
<1>1. image \in Seq(Nat) /\ 0 \in 0 .. MaxRecovery
      BY UpgradeAssumption, DaemonAssumption
<1>2. InitialUpgrade \in Upgrades
      BY <1>1 DEF InitialUpgrade, Upgrades, UpgradeStates, NoImage
<1> QED
    BY <1>1, <1>2 DEF StartUpgrade, Upgrades, UpgradeStates

LEMMA RecoveringUpgrade ==
  ASSUME NEW u \in Upgrades, CanRecover(u)
  PROVE  BeginRecovery(u) \in Upgrades /\ BeginRecovery(u).state = "RECOVER"
<1>1. u.recovery_attempts + 1 \in 0 .. MaxRecovery
      BY UpgradeAssumption DEF CanRecover, Upgrades
<1> QED
    BY <1>1 DEF BeginRecovery, Upgrades, UpgradeStates

LEMMA ResumedUpgrade ==
  ASSUME NEW u \in Upgrades
  PROVE  /\ Resume(u) \in Upgrades
         /\ Resume(u).state \in {"END", "TRANSFER"}
         /\ AtEnd(Resume(u))
  BY DEF Upgrades, UpgradeStates, Resume, AtEnd

(* An answer leads an active upgrade to its next state or ends it, and the *)
(* validation of an image cannot be continued by an answer of the device.  *)
LEMMA AnsweredUpgrade ==
  ASSUME NEW u \in Upgrades, NEW type, NEW f, f.payload \in Seq(Nat), AtEnd(u)
  PROVE  /\ AcceptResponse(u, type, f) \in Upgrades
         /\ AtEnd(AcceptResponse(u, type, f))
         /\ AcceptResponse(u, type, f).state \in
              {"BEGIN", "TRANSFER", "END", "VERIFY", "ACTIVATE", "REBOOT",
               "COMPLETE", "ERROR"}
         /\ u.state = "VALIDATING" =>
              AcceptResponse(u, type, f).state = "ERROR"
<1> DEFINE payload == f.payload
           begun == [u EXCEPT !.session_id = payload[1], !.offset = payload[2]]
           acked == [u EXCEPT !.offset = payload[1]]
           recovered == [u EXCEPT !.offset = payload[2]]
           Next(r) == /\ r \in Upgrades /\ AtEnd(r)
                      /\ r.state \in {"BEGIN", "TRANSFER", "END", "VERIFY",
                                      "ACTIVATE", "REBOOT", "COMPLETE", "ERROR"}
<1>1. Len(payload) = 2 => begun \in Upgrades /\ recovered \in Upgrades
  <2>1. Len(payload) = 2 => payload[1] \in Nat /\ payload[2] \in Nat
        OBVIOUS
  <2> QED
      BY <2>1 DEF Upgrades
<1>2. Len(payload) = 1 => acked \in Upgrades
  <2>1. Len(payload) = 1 => payload[1] \in Nat
        OBVIOUS
  <2> QED
      BY <2>1 DEF Upgrades
<1>3. \A r \in Upgrades : Next(Fail(r)) /\ Next(Resume(r))
      BY FailedUpgrade, ResumedUpgrade DEF AtEnd
<1>4. \A state \in {"BEGIN", "VERIFY", "ACTIVATE", "REBOOT", "COMPLETE"} :
        state = "BEGIN" \/ u.offset = Len(u.image) => Next([u EXCEPT !.state = state])
      BY DEF Upgrades, UpgradeStates, AtEnd
<1> HIDE DEF begun, acked, recovered, Next
<1>5. Next(AcceptResponse(u, type, f))
      BY <1>1, <1>2, <1>3, <1>4 DEF AcceptResponse, AtEnd, begun, acked, recovered
<1>6. u.state = "VALIDATING" => AcceptResponse(u, type, f) = Fail(u)
      BY DEF AcceptResponse
<1> QED
    BY <1>5, <1>6, FailedUpgrade DEF Next

(***************************************************************************)
(* Types                                                                   *)
(***************************************************************************)
(* What remains of a snapshot is a snapshot. *)
LEMMA RestOfBatch ==
  ASSUME batch \in Batches
  PROVE  /\ EmptyBatch \in Batches
         /\ \A i \in Slots : WithoutClient(i) \in Batches
         /\ WithoutTimer \in Batches /\ WithoutTransport \in Batches
         /\ [batch EXCEPT !.listen = FALSE] \in Batches
         /\ [batch EXCEPT !.signal = FALSE] \in Batches
         /\ [batch EXCEPT !.worker = FALSE] \in Batches
         /\ [batch EXCEPT !.transport = @ \ {"OUT"}] \in Batches
<1>1. EmptyBatch \in Batches /\ WithoutTimer \in Batches
      BY ModulusAssumption DEF Batches, EmptyBatch, NoTimer, WithoutTimer
<1>2. ASSUME NEW i \in Slots PROVE WithoutClient(i) \in Batches
      BY DEF Batches, WithoutClient
<1> QED
    BY <1>1, <1>2 DEF Batches, WithoutTransport

ControlOK ==
  /\ pc \in {"start", "wait", "dispatch", "transport", "cleanup", "join",
             "release", "down", "killed"}
  /\ batch \in Batches /\ running \in BOOLEAN /\ result \in Statuses

LEMMA ProceedControl ==
  ASSUME DaemonTypeOK, NEW rest \in Batches, NEW run \in BOOLEAN,
         Proceed(rest, run)
  PROVE  ControlOK'
  BY DEF DaemonTypeOK, ControlOK, Proceed

LEMMA StopControl ==
  ASSUME DaemonTypeOK, NEW status \in Statuses, StopWith(status)
  PROVE  ControlOK'
  BY RestOfBatch DEF DaemonTypeOK, ControlOK, StopWith

LEMMA FreeSlotType == FreeSlot \in ClientSlots
  BY ModulusAssumption
     DEF FreeSlot, ClientSlots, NoInput, NoOutput, CommandNames

LEMMA AnswerTypes ==
  ASSUME DaemonTypeOK, NEW i \in Slots,
         NEW command \in CommandNames, NEW status \in Statuses
  PROVE  /\ Answer(i, command, status) \in [Slots -> ClientSlots]
         /\ AnswerRequest(i, command, status) =>
              /\ clients' \in [Slots -> ClientSlots]
              /\ active_client' \in Slots \union {0}
         /\ CloseClient(i) =>
              /\ clients' \in [Slots -> ClientSlots]
              /\ active_client' \in Slots \union {0}
<1>1. Answer(i, command, status) \in [Slots -> ClientSlots]
      BY DEF DaemonTypeOK, ClientSlots, Answer
<1>2. CloseClient(i) => /\ clients' \in [Slots -> ClientSlots]
                        /\ active_client' \in Slots \union {0}
      BY FreeSlotType DEF DaemonTypeOK, CloseClient
<1> DEFINE answered ==
             [clients[i] EXCEPT !.inbox = NoInput,
                                !.command = clients[i].inbox.command,
                                !.output = [command |-> command, status |-> status]]
<1>3. NoInput \in [command : CommandNames, operation : 0 .. Modulus - 1]
      BY ModulusAssumption DEF NoInput, CommandNames
<1>4. answered \in ClientSlots
  <2>1. clients[i] \in ClientSlots
        BY DEF DaemonTypeOK
  <2>2. [command |-> command, status |-> status] \in
          [command : CommandNames, status : Statuses \union {"NONE"}]
        OBVIOUS
  <2> QED
      BY <1>3, <2>1, <2>2 DEF ClientSlots
<1>5. [clients EXCEPT ![i].inbox = NoInput,
                      ![i].command = clients[i].inbox.command,
                      ![i].output = [command |-> command, status |-> status]]
        \in [Slots -> ClientSlots]
      BY <1>4 DEF DaemonTypeOK
<1> QED
    BY <1>1, <1>2, <1>5 DEF AnswerRequest, DaemonTypeOK

(* A client whose request is read: what every such handler leaves typed.   *)
LEMMA ReadingTypes ==
  ASSUME DaemonTypeOK, NEW i \in Slots, NEW commands, Reading(i, commands)
  PROVE  ControlOK'
<1>1. batch \in Batches /\ running \in BOOLEAN
      BY DEF DaemonTypeOK
<1>2. WithoutClient(i) \in Batches
      BY <1>1, RestOfBatch
<1>3. Proceed(WithoutClient(i), running)
      BY DEF Reading
<1> QED
    BY <1>1, <1>2, <1>3, ProceedControl

LEMMA ClientEventTypes ==
  ASSUME DaemonTypeOK, NEW i \in Slots,
         \/ AnswerMalformed(i) \/ AnswerGetTelemetry(i) \/ AnswerUpgradeStatus(i)
         \/ RefuseUpgrade(i) \/ AcceptUpgrade(i)
         \/ RefuseCommand(i) \/ ForwardCommand(i)
         \/ DropClient(i) \/ WriteAnswer(i) \/ WriteToClosedPeer(i)
  PROVE  DaemonTypeOK'
<1> USE DEF ControlOK, worldVars
<1>1. /\ {"NONE", "UPGRADE", "GET_TELEMETRY", "UPGRADE_STATUS"} \subseteq CommandNames
      /\ DeviceCommands \subseteq CommandNames
      BY DEF CommandNames, LocalCommands
<1>2. {"OK", "BUSY", "STATE", "INVALID", "NOT_FOUND", "PROTOCOL", "TIMEOUT",
       "LIMIT"} \subseteq Statuses
      BY DEF Statuses
<1>3. /\ session \in Sessions /\ SessionOK(session) /\ upgrade \in Upgrades
      /\ session.next_sequence \in 0 .. Modulus - 1
      BY ModulusAssumption DEF DaemonTypeOK, SessionOK, Sessions, Sequences32
<1>4. CASE AnswerMalformed(i)
      BY <1>1, <1>2, <1>4, ReadingTypes, AnswerTypes DEF AnswerMalformed, DaemonTypeOK
<1>5. CASE AnswerGetTelemetry(i)
      BY <1>1, <1>2, <1>5, ReadingTypes, AnswerTypes DEF AnswerGetTelemetry, DaemonTypeOK
<1>6. CASE AnswerUpgradeStatus(i)
      BY <1>1, <1>2, <1>6, ReadingTypes, AnswerTypes DEF AnswerUpgradeStatus, DaemonTypeOK
<1>7. CASE RefuseUpgrade(i)
      BY <1>1, <1>2, <1>7, ReadingTypes, AnswerTypes DEF RefuseUpgrade, DaemonTypeOK
<1>8. CASE AcceptUpgrade(i)
  <2>1. NextSequence(operation_id) \in 0 .. Modulus - 1
        BY ModulusAssumption, NextSequenceValue DEF DaemonTypeOK, Sequences32
  <2>2. upgrade' \in Upgrades
        BY <1>3, <1>8, FailedUpgrade DEF AcceptUpgrade, Upgrades, UpgradeStates
  <2>3. AnswerRequest(i, "UPGRADE", "OK") \/ AnswerRequest(i, "UPGRADE", "BUSY")
        BY <1>8 DEF AcceptUpgrade
  <2>4. /\ clients' \in [Slots -> ClientSlots]
        /\ active_client' \in Slots \union {0}
        BY <1>1, <1>2, <2>3, AnswerTypes
  <2>5. ControlOK'
        BY <1>8, ReadingTypes DEF AcceptUpgrade
  <2>6. operation_id' \in 0 .. Modulus - 1 /\ upgrade_result' \in Statuses
        BY <1>2, <1>8, <2>1 DEF AcceptUpgrade
  <2> QED
      BY <1>8, <2>2, <2>4, <2>5, <2>6 DEF AcceptUpgrade, DaemonTypeOK
<1>9. CASE RefuseCommand(i)
  <2> DEFINE command == clients[i].inbox.command
  <2>1. command \in DeviceCommands /\ ControlOK'
        BY <1>9, ReadingTypes DEF RefuseCommand, Reading
  <2>2. Refusal(command) # "NONE" => Refusal(command) \in Statuses
        BY <1>2 DEF Refusal
  <2>3. command \in RequestTypes /\ command \in CommandNames
        BY <1>1, <2>1 DEF RequestTypes
  <2> HIDE DEF command
  <2>4. SessionOK(Cancel(BeginRequest(session, command, ClientRetries)))
        BY <1>3, <2>3, DaemonAssumption, BeginSession, CancelSession DEF SessionOK
  <2>5. SessionOK(session') /\ heard' \in BOOLEAN
        BY <1>3, <1>9, <2>4 DEF RefuseCommand, DaemonTypeOK, command
  <2>6. \E status \in Statuses : AnswerRequest(i, command, status)
        BY <1>2, <1>9, <2>2 DEF RefuseCommand, command
  <2>7. /\ clients' \in [Slots -> ClientSlots]
        /\ active_client' \in Slots \union {0}
        BY <2>3, <2>6, AnswerTypes
  <2> QED
      BY <1>9, <2>1, <2>5, <2>7 DEF RefuseCommand, DaemonTypeOK, SessionOK
<1>10. CASE ForwardCommand(i)
  <2> DEFINE command == clients[i].inbox.command
  <2>1. command \in DeviceCommands /\ ControlOK'
        BY <1>10, ReadingTypes DEF ForwardCommand, Reading
  <2>2. command \in RequestTypes /\ command \in CommandNames
        BY <1>1, <2>1 DEF RequestTypes
  <2> HIDE DEF command
  <2>3. SessionOK(session') /\ tx' \in 0 .. Modulus - 1
        BY <1>3, <1>10, <2>2, DaemonAssumption, BeginSession DEF ForwardCommand, command
  <2>4. NoInput \in [command : CommandNames, operation : 0 .. Modulus - 1]
        BY ModulusAssumption, <1>1 DEF NoInput
  <2>5. [clients[i] EXCEPT !.inbox = NoInput, !.command = command] \in ClientSlots
    <3>1. clients[i] \in ClientSlots
          BY DEF DaemonTypeOK
    <3> HIDE DEF ControlOK, worldVars
    <3> QED
        BY <2>2, <2>4, <3>1 DEF ClientSlots
  <2>6. [clients EXCEPT ![i].inbox = NoInput, ![i].command = command]
          \in [Slots -> ClientSlots]
        BY <2>5 DEF DaemonTypeOK
  <2>7. /\ clients' \in [Slots -> ClientSlots]
        /\ active_client' \in Slots \union {0}
        BY <1>1, <1>2, <1>10, <2>6, AnswerTypes DEF ForwardCommand, command
  <2> QED
      BY <1>10, <2>1, <2>3, <2>7 DEF ForwardCommand, DaemonTypeOK, SessionOK
<1>11. CASE DropClient(i)
      BY <1>1, <1>2, <1>11, RestOfBatch, ProceedControl, AnswerTypes
         DEF DropClient, DaemonTypeOK
<1>12. CASE WriteAnswer(i)
      BY <1>1, <1>2, <1>12, RestOfBatch, ProceedControl, AnswerTypes
         DEF WriteAnswer, DaemonTypeOK
<1>13. CASE WriteToClosedPeer(i)
      BY <1>13 DEF WriteToClosedPeer, DaemonTypeOK
<1> QED
    BY <1>4, <1>5, <1>6, <1>7, <1>8, <1>9, <1>10, <1>11, <1>12, <1>13

(* The result of the worker: what every handler of it leaves typed.        *)
LEMMA TakingTypes ==
  ASSUME DaemonTypeOK, TakingResult
  PROVE  ControlOK'
<1>1. /\ batch \in Batches /\ running \in BOOLEAN
      /\ [batch EXCEPT !.worker = FALSE] \in Batches
      BY RestOfBatch DEF DaemonTypeOK
<1>2. \/ Proceed([batch EXCEPT !.worker = FALSE], running)
      \/ StopWith("NOT_FOUND")
      BY DEF TakingResult
<1>3. "NOT_FOUND" \in Statuses
      BY DEF Statuses
<1> QED
    BY <1>1, <1>2, <1>3, ProceedControl, StopControl

(* Queueing the request of an upgrade record, in any typed session.        *)
LEMMA QueueTypes ==
  ASSUME NEW s \in Sessions, NEW u \in Upgrades
  PROVE  /\ QueueUpgradeRequest(s, u) =>
              /\ SessionOK(session') /\ session'.state = s.state
              /\ session'.pending.active = TRUE
              /\ session'.pending.type = RequestType(upgrade')
              /\ upgrade' \in Upgrades /\ upgrade'.state = u.state
              /\ AtEnd(u) => AtEnd(upgrade')
              /\ tx' \in 0 .. Modulus - 1 /\ heard' \in BOOLEAN
         /\ SessionOK(FailedUpgradeQueue(s, u))
         /\ FailedUpgradeQueue(s, u).state = s.state
         /\ FailedUpgradeQueue(s, u).pending.active = FALSE
<1>1. RequestType(u) \in RequestTypes /\ UpgradeRetries \in Nat
      BY BuiltUpgrade, DaemonAssumption
<1>2. /\ SessionOK(BegunUpgrade(s, u)) /\ BegunUpgrade(s, u) \in Sessions
      /\ BegunUpgrade(s, u).state = s.state
      /\ BegunUpgrade(s, u).pending.active = TRUE
      /\ BegunUpgrade(s, u).pending.type = RequestType(u)
      BY <1>1, BeginSession, ZenonT(60) DEF BegunUpgrade, SessionOK
<1>3. s.next_sequence \in 0 .. Modulus - 1
      BY ModulusAssumption DEF Sessions, Sequences32
<1>4. /\ SessionOK(FailedUpgradeQueue(s, u))
      /\ FailedUpgradeQueue(s, u).state = s.state
      /\ FailedUpgradeQueue(s, u).pending.active = FALSE
      BY <1>2, CancelSession DEF FailedUpgradeQueue
<1>5. QueueUpgradeRequest(s, u) =>
        /\ session' = BegunUpgrade(s, u) /\ upgrade' = Built(u)
        /\ tx' = s.next_sequence /\ heard' = FALSE
      BY DEF QueueUpgradeRequest
<1> QED
    BY <1>2, <1>3, <1>4, <1>5, BuiltUpgrade

LEMMA WorkerEventTypes ==
  ASSUME DaemonInv, WorkerEvent
  PROVE  DaemonTypeOK'
<1> USE DEF ControlOK, worldVars
<1>1. /\ DaemonTypeOK /\ session \in Sessions /\ SessionOK(session)
      /\ upgrade \in Upgrades /\ {"OK", "BUSY", "STATE"} \subseteq Statuses
      /\ OpenStatus \subseteq Statuses
      BY DEF DaemonInv, DaemonTypeOK, SessionOK, Statuses, OpenStatus
<1>2. CASE DiscardResult
      BY <1>1, <1>2, TakingTypes DEF DiscardResult, TakingResult, DaemonTypeOK
<1>3. CASE ValidationFailed
  <2>1. mailbox.result.status \in Statuses
        BY <1>1, <1>3 DEF ValidationFailed, ResultExpected, CanTake, DaemonInv,
           WorkerInv, ResultIsOfJob
  <2> QED
      BY <1>1, <1>3, <2>1, TakingTypes, FailedUpgrade
         DEF ValidationFailed, TakingResult, DaemonTypeOK
<1>4. CASE StartTransfer
  <2>1. PICK image \in Images :
          QueueUpgradeRequest(Transition(session, "START_UPGRADE"),
                              StartUpgrade(upgrade, image, "V"))
        BY <1>4 DEF StartTransfer
  <2>2. Transition(session, "START_UPGRADE") \in Sessions
        BY <1>1, MovedSession DEF SessionOK
  <2>3. /\ SessionOK(session') /\ upgrade' \in Upgrades
        /\ tx' \in 0 .. Modulus - 1 /\ heard' \in BOOLEAN
        BY <2>1, <2>2, StartedUpgrade, QueueTypes
  <2> QED
      BY <1>1, <1>4, <2>3, TakingTypes
         DEF StartTransfer, TakingResult, DaemonTypeOK, SessionOK
<1>5. CASE TransferRefused
  <2> DEFINE s == Transition(session, "START_UPGRADE")
             u(image) == StartUpgrade(upgrade, image, "V")
             t(image) == IF Accepts(session, "START_UPGRADE")
                         THEN FailedUpgradeQueue(s, u(image)) ELSE s
  <2>1. PICK image \in Images :
          /\ upgrade' = Fail(u(image))
          /\ upgrade_result' \in {"BUSY", "STATE"}
          /\ session' = Transition(t(image), "UPGRADE_DONE")
        BY <1>5 DEF TransferRefused
  <2>2. SessionOK(s) /\ s \in Sessions /\ u(image) \in Upgrades
        BY <1>1, MovedSession, StartedUpgrade DEF SessionOK
  <2> HIDE DEF s, u
  <2>3. SessionOK(t(image))
        BY <2>2, QueueTypes
  <2> HIDE DEF t
  <2>4. SessionOK(session') /\ upgrade' \in Upgrades
        BY <2>1, <2>2, <2>3, MovedSession, FailedUpgrade
  <2> QED
      BY <1>1, <1>5, <2>1, <2>4, TakingTypes
         DEF TransferRefused, TakingResult, DaemonTypeOK, SessionOK
<1> QED
    BY <1>2, <1>3, <1>4, <1>5 DEF WorkerEvent

(* The frames the device may send carry payloads that are sequences.       *)
LEMMA FramePayload ==
  ASSUME NEW f \in DeviceFrames
  PROVE  f.payload \in Seq(Nat)
  BY DaemonAssumption DEF DeviceFrames

(* The end of an upgrade in a typed session. *)
LEMMA EndTypes ==
  ASSUME NEW s, SessionOK(s), NEW u \in Upgrades, NEW status \in Statuses,
         EndUpgrade(s, u, status)
  PROVE  /\ SessionOK(session') /\ upgrade' \in Upgrades
         /\ upgrade_result' \in Statuses
  BY MovedSession DEF EndUpgrade

LEMMA StopTransportTypes ==
  ASSUME DaemonTypeOK, NEW status \in Statuses, StopTransport(status)
  PROVE  ControlOK'
<1>1. "DISCONNECTED" \in Statuses
      BY DEF Statuses
<1> QED
    BY <1>1, StopControl DEF StopTransport

LEMMA ReplyTypes ==
  ASSUME DaemonInv, NEW f \in DeviceFrames, Matches(session, f),
         HandshakeReply(f) \/ UpgradeReply(f) \/ ClientReply(f) \/ OrphanReply(f)
  PROVE  DaemonTypeOK'
<1> USE DEF ControlOK, worldVars, Complete
<1>1. /\ DaemonTypeOK /\ session \in Sessions /\ SessionOK(session)
      /\ upgrade \in Upgrades /\ AtEnd(upgrade)
      /\ {"OK", "BUSY", "PROTOCOL"} \subseteq Statuses
      BY DEF DaemonInv, DaemonTypeOK, SessionOK, Statuses, SentToTheEnd, AtEnd
<1>2. SessionOK(Complete(session)) /\ Complete(session) \in Sessions
      BY <1>1, CancelSession DEF SessionOK
<1>3. CASE HandshakeReply(f)
  <2>1. SessionOK(session')
        BY <1>2, <1>3, MovedSession DEF HandshakeReply
  <2>2. ControlOK'
        BY <1>1, <1>3, StopTransportTypes DEF HandshakeReply, DaemonTypeOK
  <2> QED
      BY <1>1, <1>3, <2>1, <2>2 DEF HandshakeReply, DaemonTypeOK, SessionOK
<1>4. CASE UpgradeReply(f)
  <2> DEFINE u == AcceptResponse(upgrade, session.pending.type, f)
             s == Complete(session)
  <2>1. u \in Upgrades
        BY <1>1, FramePayload, AnsweredUpgrade
  <2>2. s \in Sessions /\ SessionOK(s)
        BY <1>2
  <2>3. UNCHANGED <<operation_id, active_client, clients, telemetry, backlog>>
        BY <1>4 DEF UpgradeReply
  <2>4. \/ /\ \E status \in {"OK", "PROTOCOL"} : EndUpgrade(s, u, status)
           /\ UNCHANGED <<tx, heard, running, result, pc, batch>>
        \/ /\ QueueUpgradeRequest(s, u)
           /\ UNCHANGED <<upgrade_result, running, result, pc, batch>>
        \/ /\ session' = FailedUpgradeQueue(s, u) /\ upgrade' = Built(u)
           /\ StopTransport("BUSY")
           /\ UNCHANGED <<tx, heard, upgrade_result>>
        BY <1>4 DEF UpgradeReply
  <2> HIDE DEF u, s
  <2>5. SessionOK(session') /\ upgrade' \in Upgrades /\ upgrade_result' \in Statuses
        BY <1>1, <2>1, <2>2, <2>4, EndTypes, QueueTypes, BuiltUpgrade DEF DaemonTypeOK
  <2>6. tx' \in 0 .. Modulus - 1 /\ heard' \in BOOLEAN
        BY <1>1, <2>1, <2>2, <2>4, QueueTypes DEF DaemonTypeOK
  <2>7. ControlOK'
        BY <1>1, <2>4, StopTransportTypes DEF DaemonTypeOK
  <2> QED
      BY <1>1, <2>3, <2>5, <2>6, <2>7 DEF DaemonTypeOK, SessionOK
<1>5. CASE ClientReply(f)
  <2>1. active_client \in Slots /\ session.pending.type \in CommandNames
    <3>1. active_client \in Slots
          BY <1>1, <1>5 DEF ClientReply, DaemonTypeOK
    <3>2. session.pending.type = clients[active_client].command
          BY <1>5 DEF ClientReply, DaemonInv, AddresseeIsAsking
    <3> QED
        BY <1>1, <3>1, <3>2 DEF DaemonTypeOK, ClientSlots
  <2>2. SessionOK(session')
        BY <1>2, <1>5, MovedSession DEF ClientReply
  <2>3. clients' \in [Slots -> ClientSlots] /\ active_client' \in Slots \union {0}
        BY <1>1, <1>5, <2>1, AnswerTypes DEF ClientReply
  <2> QED
      BY <1>1, <1>5, <2>2, <2>3 DEF ClientReply, DaemonTypeOK, SessionOK
<1>6. CASE OrphanReply(f)
      BY <1>1, <1>2, <1>6 DEF OrphanReply, DaemonTypeOK, SessionOK
<1> QED
    BY <1>3, <1>4, <1>5, <1>6

LEMMA TransportEventTypes ==
  ASSUME DaemonInv, TransportEvent
  PROVE  DaemonTypeOK'
<1> USE DEF ControlOK, worldVars
<1>1. /\ DaemonTypeOK /\ batch \in Batches /\ running \in BOOLEAN
      /\ "DISCONNECTED" \in Statuses
      BY DEF DaemonInv, DaemonTypeOK, Statuses
<1>2. CASE FlushTransport
  <2>1. heard' \in BOOLEAN
        BY <1>1, <1>2, Zenon DEF FlushTransport, DaemonTypeOK
  <2>2. tx' \in 0 .. Modulus - 1
        BY <1>1, <1>2, ModulusAssumption DEF FlushTransport, DaemonTypeOK
  <2>3. ControlOK'
        BY <1>1, <1>2, RestOfBatch DEF FlushTransport, DaemonTypeOK
  <2> QED
      BY <1>1, <1>2, <2>1, <2>2, <2>3 DEF FlushTransport, DaemonTypeOK
<1>3. CASE TransportFailed
      BY <1>1, <1>3, StopControl DEF TransportFailed, DaemonTypeOK
<1>4. CASE ReadTransport
      BY <1>1, <1>4 DEF ReadTransport, DaemonTypeOK
<1>5. CASE KeepTelemetry
      BY <1>1, <1>5 DEF KeepTelemetry, DaemonTypeOK
<1>6. CASE IgnoreFrame
  <2>1. UNCHANGED <<session, upgrade, operation_id, upgrade_result, tx,
                    active_client, clients, telemetry, running, result, pc,
                    batch, backlog, heard>>
        BY <1>6 DEF IgnoreFrame, vars, daemonVars, reactorVars
  <2> QED
      BY <1>1, <2>1 DEF DaemonTypeOK
<1>7. CASE OnDeviceFrame
      BY <1>7, ReplyTypes DEF OnDeviceFrame
<1>8. CASE TransportDrained
      BY <1>1, <1>8, RestOfBatch, ProceedControl, StopControl
         DEF TransportDrained, DaemonTypeOK
<1> QED
    BY <1>2, <1>3, <1>4, <1>5, <1>6, <1>7, <1>8 DEF TransportEvent

LEMMA TickTypes ==
  ASSUME DaemonInv, TickEarly \/ TickDue
  PROVE  DaemonTypeOK'
<1> USE DEF ControlOK, worldVars, Expire
<1>1. /\ DaemonTypeOK /\ batch \in Batches /\ running \in BOOLEAN
      /\ session \in Sessions /\ SessionOK(session) /\ upgrade \in Upgrades
      /\ {"BUSY", "TIMEOUT"} \subseteq Statuses /\ "NONE" \in CommandNames
      BY DEF DaemonInv, DaemonTypeOK, SessionOK, Statuses, CommandNames
<1>2. SessionOK(Expire(session)) /\ Expire(session) \in Sessions
      BY <1>1, CancelSession DEF SessionOK
<1>3. Proceed(WithoutTimer, running) => ControlOK'
      BY <1>1, RestOfBatch, ProceedControl
<1>4. CASE TickEarly
      BY <1>1, <1>3, <1>4 DEF TickEarly, DaemonTypeOK
<1>5. CASE TickRetry
  <2>1. session.pending.sequence \in 0 .. Modulus - 1
        BY <1>1 DEF Sessions, Requests
  <2>2. SessionOK(session')
        BY <1>1, <1>5, RetriedSession DEF TickRetry
  <2> QED
      BY <1>1, <1>3, <1>5, <2>1, <2>2 DEF TickRetry, DaemonTypeOK, SessionOK
<1>6. CASE TickRetryBusy
      BY <1>1, <1>6, StopControl DEF TickRetryBusy, DaemonTypeOK
<1>7. CASE TickRecover
  <2>1. BeginRecovery(upgrade) \in Upgrades
        BY <1>1, <1>7, RecoveringUpgrade DEF TickRecover
  <2>2. /\ SessionOK(session') /\ upgrade' \in Upgrades
        /\ tx' \in 0 .. Modulus - 1 /\ heard' \in BOOLEAN
        BY <1>2, <1>7, <2>1, QueueTypes DEF TickRecover
  <2> QED
      BY <1>1, <1>3, <1>7, <2>2 DEF TickRecover, DaemonTypeOK, SessionOK
<1>8. CASE TickUpgradeFailed
  <2> DEFINE u == IF CanRecover(upgrade) THEN BeginRecovery(upgrade) ELSE upgrade
             s == Expire(session)
             t == IF CanRecover(upgrade) THEN FailedUpgradeQueue(s, u) ELSE s
  <2>1. u \in Upgrades
        BY <1>1, RecoveringUpgrade
  <2> HIDE DEF u
  <2>2. SessionOK(t)
        BY <1>2, <2>1, QueueTypes
  <2>3. EndUpgrade(t, Fail(u), "TIMEOUT")
        BY <1>8 DEF TickUpgradeFailed, u
  <2> HIDE DEF t
  <2>4. SessionOK(session') /\ upgrade' \in Upgrades /\ upgrade_result' \in Statuses
        BY <1>1, <2>1, <2>2, <2>3, EndTypes, FailedUpgrade
  <2> QED
      BY <1>1, <1>3, <1>8, <2>4 DEF TickUpgradeFailed, DaemonTypeOK, SessionOK
<1>9. CASE TickClientTimeout
  <2>1. active_client \in Slots
        BY <1>1, <1>9 DEF TickClientTimeout, DaemonTypeOK
  <2>2. clients' \in [Slots -> ClientSlots]
        BY <1>1, <1>9, <2>1, AnswerTypes DEF TickClientTimeout
  <2> QED
      BY <1>1, <1>2, <1>3, <1>9, <2>2 DEF TickClientTimeout, DaemonTypeOK, SessionOK
<1>10. CASE TickNobody
      BY <1>1, <1>2, <1>10, StopControl DEF TickNobody, DaemonTypeOK, SessionOK
<1> QED
    BY <1>4, <1>5, <1>6, <1>7, <1>8, <1>9, <1>10 DEF TickDue

LEMMA SnapshotType ==
  ASSUME DaemonTypeOK, EpollWait
  PROVE  /\ batch' \in Batches
         /\ batch'.worker <=> event_fd > 0
         /\ batch'.clients = [i \in Slots |-> ClientFlags(clients[i])]
<1>1. PICK signal, input, writable, hangup \in BOOLEAN,
           timer \in {NoTimer, Early, session.pending.sequence} :
       /\ signal => "SIGNAL" \in Faults
       /\ hangup => "HANGUP" \in Faults
       /\ batch' = [listen |-> backlog > 0, signal |-> signal,
                 worker |-> event_fd > 0, timer |-> timer,
                 transport |-> (IF input THEN {"IN"} ELSE {})
                   \union (IF writable /\ tx # 0 THEN {"OUT"} ELSE {})
                   \union (IF hangup THEN {"HUP"} ELSE {}),
                 clients |-> [i \in Slots |-> ClientFlags(clients[i])]]
      BY Zenon DEF EpollWait
<1>2. timer \in -1 .. Modulus - 1
      BY ModulusAssumption DEF DaemonTypeOK, Sessions, Requests, NoTimer, Early
<1>3. \A i \in Slots : ClientFlags(clients[i]) \in SUBSET Flags
      BY DEF ClientFlags, Flags
<1>4. (backlog > 0) \in BOOLEAN /\ (event_fd > 0) \in BOOLEAN
      OBVIOUS
<1>5. ((IF input THEN {"IN"} ELSE {})
        \union (IF writable /\ tx # 0 THEN {"OUT"} ELSE {})
        \union (IF hangup THEN {"HUP"} ELSE {})) \in SUBSET Flags
      BY DEF Flags
<1> QED
    BY <1>1, <1>2, <1>3, <1>4, <1>5 DEF Batches

LEMMA LoopTypes ==
  ASSUME DaemonInv,
         \/ StartHandshake \/ SetupFailed \/ EpollWait \/ AcceptClients
         \/ SignalEvent \/ Cleanup \/ CleanupJoin \/ CleanupRelease
  PROVE  DaemonTypeOK'
<1> USE DEF ControlOK, worldVars
<1>1. /\ DaemonTypeOK /\ batch \in Batches /\ running \in BOOLEAN
      /\ session \in Sessions /\ SessionOK(session) /\ "IO" \in Statuses
      BY DEF DaemonInv, DaemonTypeOK, SessionOK, Statuses
<1>2. CASE StartHandshake
  <2> DEFINE s == Transition(Transition(session, "CONNECT"), "TRANSPORT_CONNECTED")
  <2>1. SessionOK(s)
        BY <1>1, MovedSession
  <2>2. s \in Sessions /\ s.next_sequence \in 0 .. Modulus - 1
        BY <2>1, ModulusAssumption DEF SessionOK, Sessions, Sequences32
  <2>3. session' = BeginRequest(s, "PING", HandshakeRetries) /\ tx' = s.next_sequence
        BY <1>2 DEF StartHandshake
  <2> HIDE DEF s
  <2>4. "PING" \in RequestTypes /\ HandshakeRetries \in Nat
        BY DaemonAssumption DEF RequestTypes
  <2>5. SessionOK(session') /\ tx' \in 0 .. Modulus - 1
        BY <2>2, <2>3, <2>4, BeginSession
  <2> QED
      BY <1>1, <1>2, <2>5 DEF StartHandshake, DaemonTypeOK, SessionOK
<1>3. CASE SetupFailed
      BY <1>1, <1>3, StopControl DEF SetupFailed, DaemonTypeOK
<1>4. CASE EpollWait
      BY <1>1, <1>4, SnapshotType DEF EpollWait, DaemonTypeOK
<1>5. CASE AcceptClients
  <2>1. [FreeSlot EXCEPT !.open = TRUE] \in ClientSlots
        BY FreeSlotType DEF ClientSlots
  <2>2. clients' \in [Slots -> ClientSlots]
        BY <1>1, <1>5, <2>1 DEF AcceptClients, DaemonTypeOK
  <2>3. ControlOK'
        BY <1>1, <1>5, RestOfBatch, ProceedControl DEF AcceptClients
  <2> QED
      BY <1>1, <1>5, <2>2, <2>3 DEF AcceptClients, DaemonTypeOK
<1>6. CASE SignalEvent
  <2>1. ControlOK'
        BY <1>1, <1>6, RestOfBatch, ProceedControl DEF SignalEvent
  <2> QED
      BY <1>1, <1>6, <2>1 DEF SignalEvent, DaemonTypeOK
<1>7. CASE Cleanup
      BY <1>1, <1>7, FreeSlotType DEF Cleanup, DaemonTypeOK
<1>8. CASE CleanupJoin
      BY <1>1, <1>8 DEF CleanupJoin, DaemonTypeOK
<1>9. CASE CleanupRelease
      BY <1>1, <1>9 DEF CleanupRelease, DaemonTypeOK
<1> QED
    BY <1>2, <1>3, <1>4, <1>5, <1>6, <1>7, <1>8, <1>9

LEMMA WorldTypes ==
  ASSUME DaemonInv, World
  PROVE  DaemonTypeOK'
<1>1. DaemonTypeOK
      BY DEF DaemonInv
<1>2. CASE Connect
      BY <1>1, <1>2 DEF Connect, reactorVars, DaemonTypeOK
<1>3. ASSUME NEW i \in Slots, ClientSends(i)
      PROVE  DaemonTypeOK'
  <2>1. PICK command \in Commands, operation \in 0 .. Modulus - 1 :
          clients' = [clients EXCEPT ![i].inbox =
                        [command |-> command, operation |-> operation]]
        BY <1>3 DEF ClientSends
  <2>2. command \in CommandNames
        BY CommandsAssumption DEF CommandNames
  <2>3. clients' \in [Slots -> ClientSlots]
        BY <1>1, <2>1, <2>2 DEF DaemonTypeOK, ClientSlots
  <2> QED
      BY <1>1, <1>3, <2>3 DEF ClientSends, worldVars, DaemonTypeOK
<1>4. ASSUME NEW i \in Slots, ClientLeaves(i)
      PROVE  DaemonTypeOK'
  <2>1. clients' \in [Slots -> ClientSlots]
        BY <1>1, <1>4, ZenonT(60) DEF ClientLeaves, DaemonTypeOK, ClientSlots
  <2> QED
      BY <1>1, <1>4, <2>1 DEF ClientLeaves, worldVars, DaemonTypeOK
<1> QED
    BY <1>2, <1>3, <1>4 DEF World

LEMMA DaemonTypeStep == DaemonInv /\ [DaemonNext]_vars => DaemonTypeOK'
<1> SUFFICES ASSUME DaemonInv, [DaemonNext]_vars
             PROVE  DaemonTypeOK'
    OBVIOUS
<1>1. DaemonTypeOK
      BY DEF DaemonInv
<1>2. CASE UNCHANGED daemonVars
      BY <1>1, <1>2 DEF daemonVars, reactorVars, worldVars, DaemonTypeOK
<1>3. ASSUME ClientEvent PROVE DaemonTypeOK'
      BY <1>1, <1>3, ClientEventTypes DEF ClientEvent
<1> QED
    BY <1>2, <1>3, WorkerEventTypes, TransportEventTypes, TickTypes, LoopTypes,
       WorldTypes DEF DaemonNext, Reactor, WorkerRuns, Ended, vars

(***************************************************************************)
(* The reactor and the worker                                              *)
(***************************************************************************)
(* A snapshot with a readable eventfd is followed by a result: the reactor *)
(* never meets the NOT_FOUND that would stop it, and it holds no image.    *)
LEMMA NotificationTaken ==
  ASSUME DaemonInv, pc = "dispatch", batch.worker
  PROVE  /\ event_fd > 0 /\ CanTake /\ ~mailbox.stop /\ firmware = 0
         /\ mailbox.result.job_id = mailbox.job_id
         /\ mailbox.result.job_id # 0
         /\ mailbox.result.status \in OpenStatus
<1>1. event_fd > 0 /\ ~mailbox.stop /\ thread.pc # "joined"
      BY DEF DaemonInv, ReactorDrivesWorker
<1>2. event_fd \in Nat /\ event_fd <= 1 /\ (event_fd = 1 => mailbox.result_pending)
      BY <1>1 DEF DaemonInv, WorkerInv, WorkerTypeOK, NotificationHasResult
<1>3. mailbox.result_pending
      BY <1>1, <1>2
<1> QED
    BY <1>1, <1>3 DEF DaemonInv, WorkerInv, OneOwner, InWorker, CanTake,
       ResultIsOfJob

(* The end of an upgrade is a release of the image, or nothing when there  *)
(* is none.                                                                *)
LEMMA EndReleases ==
  ASSUME WorkerInv, NEW s, NEW u, NEW status, EndUpgrade(s, u, status)
  PROVE  [Release]_workerVars
<1>1. CASE firmware # 0
      BY <1>1 DEF EndUpgrade, Release
<1>2. CASE firmware = 0
  <2>1. 0 \notin live
        BY JobIdsAssumption DEF WorkerInv, WorkerTypeOK
  <2>2. live' = live
        BY <1>2, <2>1 DEF EndUpgrade, Closed
  <2> QED
      BY <1>2, <2>2 DEF EndUpgrade, workerVars
<1> QED
    BY <1>1, <1>2

LEMMA TakingRejects ==
  ASSUME DaemonInv, DiscardResult \/ ValidationFailed \/ TransferRefused
  PROVE  Reject
<1>1. /\ pc = "dispatch" /\ batch.worker /\ event_fd' = 0 /\ UNCHANGED thread
      /\ CanTake => mailbox' = Taken
      BY DEF DiscardResult, ValidationFailed, TransferRefused, TakingResult
<1>2. event_fd > 0 /\ CanTake /\ ~mailbox.stop
      BY <1>1, NotificationTaken
<1>3. 0 \notin live
      BY JobIdsAssumption DEF DaemonInv, WorkerInv, WorkerTypeOK
<1>4. UNCHANGED firmware
      BY DEF DiscardResult, ValidationFailed, TransferRefused
<1>5. live' = Closed(ImageOf(mailbox.result))
  <2>1. CASE DiscardResult
        BY <2>1 DEF DiscardResult
  <2>2. CASE ValidationFailed
        BY <1>3, <2>2 DEF ValidationFailed, Closed, ImageOf
  <2>3. CASE TransferRefused
        BY <2>3 DEF TransferRefused, ImageOf
  <2> QED
      BY <2>1, <2>2, <2>3
<1> QED
    BY <1>1, <1>2, <1>4, <1>5 DEF Reject

(* Every step of the daemon is a step of Worker or leaves the worker       *)
(* alone.                                                                  *)
LEMMA WorkerStep == DaemonInv /\ [DaemonNext]_vars => [WorkerNext]_workerVars
<1> SUFFICES ASSUME DaemonInv, [DaemonNext]_vars
             PROVE  [WorkerNext]_workerVars
    OBVIOUS
<1>1. ASSUME ClientEvent PROVE [WorkerNext]_workerVars
  <2>1. PICK i \in Slots :
          \/ AnswerMalformed(i) \/ AnswerGetTelemetry(i) \/ AnswerUpgradeStatus(i)
          \/ RefuseUpgrade(i) \/ AcceptUpgrade(i)
          \/ RefuseCommand(i) \/ ForwardCommand(i)
          \/ DropClient(i) \/ WriteAnswer(i) \/ WriteToClosedPeer(i)
        BY <1>1 DEF ClientEvent
  <2>2. CASE AcceptUpgrade(i)
    <3>1. NextSequence(operation_id) \in JobIds
          BY NextSequenceValue, DaemonAssumption DEF DaemonInv, DaemonTypeOK
    <3>2. firmware = 0
      <4>1. pc = "dispatch" /\ ~UpgradeActive(upgrade)
            BY <2>2 DEF AcceptUpgrade, Reading, UpgradeRefused
      <4> QED
          BY <4>1 DEF DaemonInv, ImageOfOperation
    <3>3. CASE CanSubmit
      <4>1. Submit(NextSequence(operation_id))
            BY <2>2, <3>2, <3>3 DEF AcceptUpgrade, Submit
      <4> QED
          BY <3>1, <4>1 DEF WorkerNext, ReactorCall
    <3>4. CASE ~CanSubmit
          BY <2>2, <3>4 DEF AcceptUpgrade, workerVars
    <3> QED
        BY <3>3, <3>4
  <2> QED
      BY <2>1, <2>2 DEF AnswerMalformed, AnswerGetTelemetry, AnswerUpgradeStatus,
         RefuseUpgrade, RefuseCommand, ForwardCommand, DropClient, WriteAnswer,
         WriteToClosedPeer
<1>2. ASSUME WorkerEvent PROVE [WorkerNext]_workerVars
  <2>1. CASE StartTransfer
    <3>1. pc = "dispatch" /\ batch.worker /\ (CanTake => mailbox' = Taken)
          BY <2>1 DEF StartTransfer, TakingResult
    <3>2. Adopt
          BY <2>1, <3>1, NotificationTaken DEF StartTransfer, TakingResult, Adopt
    <3> QED
        BY <3>2 DEF WorkerNext, ReactorCall
  <2> QED
      BY <1>2, <2>1, TakingRejects DEF WorkerEvent, WorkerNext, ReactorCall
<1>3. ASSUME NEW f, UpgradeReply(f) PROVE [WorkerNext]_workerVars
      BY <1>3, EndReleases DEF UpgradeReply, DaemonInv, WorkerNext, ReactorCall
<1>4. ASSUME TransportEvent PROVE [WorkerNext]_workerVars
      BY <1>3, <1>4 DEF TransportEvent, FlushTransport, TransportFailed,
         ReadTransport, KeepTelemetry, IgnoreFrame, OnDeviceFrame,
         TransportDrained, HandshakeReply, ClientReply, OrphanReply, vars
<1>5. ASSUME TickEarly \/ TickDue PROVE [WorkerNext]_workerVars
  <2>1. CASE TickUpgradeFailed
        BY <2>1, EndReleases DEF TickUpgradeFailed, DaemonInv, WorkerNext, ReactorCall
  <2> QED
      BY <1>5, <2>1 DEF TickDue, TickEarly, TickRetry, TickRetryBusy, TickRecover,
         TickClientTimeout, TickNobody
<1>6. CASE Cleanup
  <2>1. StopWorker
        BY <1>6 DEF Cleanup, StopWorker, DaemonInv, ReactorDrivesWorker
  <2> QED
      BY <2>1 DEF WorkerNext, ReactorCall
<1>7. CASE CleanupJoin
      BY <1>7 DEF CleanupJoin, WorkerNext, ReactorCall
<1>8. CASE CleanupRelease
  <2>1. CASE firmware # 0
        BY <1>8, <2>1 DEF CleanupRelease, Release, WorkerNext, ReactorCall
  <2>2. CASE firmware = 0
    <3>1. 0 \notin live
          BY JobIdsAssumption DEF DaemonInv, WorkerInv, WorkerTypeOK
    <3> QED
        BY <1>8, <2>2, <3>1 DEF CleanupRelease, Closed, workerVars
  <2> QED
      BY <2>1, <2>2
<1>9. ASSUME StartHandshake \/ SetupFailed \/ EpollWait \/ AcceptClients \/ SignalEvent
      PROVE  [WorkerNext]_workerVars
      BY <1>9 DEF StartHandshake, SetupFailed, EpollWait, AcceptClients, SignalEvent
<1>10. ASSUME World PROVE [WorkerNext]_workerVars
      BY <1>10 DEF World, Connect, ClientSends, ClientLeaves
<1>11. CASE WorkerRuns
      BY <1>11 DEF WorkerRuns, WorkerNext
<1>12. CASE UNCHANGED vars
      BY <1>12 DEF vars
<1> QED
    BY <1>1, <1>2, <1>4, <1>5, <1>6, <1>7, <1>8, <1>9, <1>10, <1>11, <1>12
       DEF DaemonNext, Reactor, Ended

(* What every handler of an event does to the loop: it handles one event   *)
(* of the snapshot, adds none, and either goes on or ends the loop.        *)
Handled ==
  /\ pc \in {"start", "dispatch", "transport"}
  /\ pc' \in {"wait", "dispatch", "transport", "cleanup", "killed"}
  /\ pc' \notin {"dispatch", "transport", "killed"} => batch' = EmptyBatch
  /\ batch'.worker => batch.worker
  /\ batch'.clients \in [Slots -> SUBSET Flags]
  /\ \A i \in Slots : batch'.clients[i] \subseteq batch.clients[i]
  /\ pc' # "cleanup" => result' = result

(* The rest of a snapshot is part of it. *)
LEMMA RestShrinks ==
  ASSUME batch \in Batches, NEW rest,
         \/ \E i \in Slots : rest = WithoutClient(i)
         \/ rest \in {EmptyBatch, WithoutTimer, WithoutTransport,
                      [batch EXCEPT !.listen = FALSE],
                      [batch EXCEPT !.signal = FALSE],
                      [batch EXCEPT !.worker = FALSE],
                      [batch EXCEPT !.transport = @ \ {"OUT"}]}
  PROVE  /\ rest.worker => batch.worker
         /\ rest.clients \in [Slots -> SUBSET Flags]
         /\ \A i \in Slots : rest.clients[i] \subseteq batch.clients[i]
<1>1. CASE \E i \in Slots : rest = WithoutClient(i)
      BY <1>1 DEF Batches, WithoutClient
<1>2. CASE rest = EmptyBatch
      BY <1>2 DEF Batches, EmptyBatch
<1> QED
    BY <1>1, <1>2 DEF Batches, WithoutTimer, WithoutTransport

LEMMA ProceedHandles ==
  ASSUME DaemonTypeOK, pc \in {"start", "dispatch", "transport"}, NEW run, NEW rest,
         \/ \E i \in Slots : rest = WithoutClient(i)
         \/ rest \in {EmptyBatch, WithoutTimer, WithoutTransport,
                      [batch EXCEPT !.listen = FALSE],
                      [batch EXCEPT !.signal = FALSE],
                      [batch EXCEPT !.worker = FALSE]},
         Proceed(rest, run)
  PROVE  Handled
<1>1. /\ rest.worker => batch.worker
      /\ rest.clients \in [Slots -> SUBSET Flags]
      /\ \A i \in Slots : rest.clients[i] \subseteq batch.clients[i]
      BY RestShrinks DEF DaemonTypeOK
<1> QED
    BY <1>1 DEF Handled, Proceed

LEMMA StopHandles ==
  ASSUME DaemonTypeOK, pc \in {"start", "dispatch", "transport"}, NEW status,
         StopWith(status)
  PROVE  Handled
<1>1. /\ EmptyBatch.worker => batch.worker
      /\ EmptyBatch.clients \in [Slots -> SUBSET Flags]
      /\ \A i \in Slots : EmptyBatch.clients[i] \subseteq batch.clients[i]
      BY RestShrinks DEF DaemonTypeOK
<1> QED
    BY <1>1 DEF Handled, StopWith

LEMMA UnchangedHandles ==
  ASSUME DaemonTypeOK, pc \in {"dispatch", "transport"}, UNCHANGED <<batch, result>>,
         pc' \in {"dispatch", "transport", "killed"}
  PROVE  Handled
  BY DEF DaemonTypeOK, Batches, Handled

(* The handlers of clients, transport, timer, signals and setup.           *)
LEMMA HandlersHandle ==
  ASSUME DaemonTypeOK,
         \/ SetupFailed \/ AcceptClients \/ ClientEvent \/ WorkerEvent
         \/ TransportEvent \/ TickEarly \/ TickDue \/ SignalEvent
  PROVE  Handled
<1>1. CASE SetupFailed
      BY <1>1, StopHandles DEF SetupFailed
<1>2. CASE AcceptClients
      BY <1>2, ProceedHandles DEF AcceptClients
<1>3. CASE ClientEvent
  <2>1. PICK i \in Slots :
          \/ AnswerMalformed(i) \/ AnswerGetTelemetry(i) \/ AnswerUpgradeStatus(i)
          \/ RefuseUpgrade(i) \/ AcceptUpgrade(i)
          \/ RefuseCommand(i) \/ ForwardCommand(i)
          \/ DropClient(i) \/ WriteAnswer(i) \/ WriteToClosedPeer(i)
        BY <1>3 DEF ClientEvent
  <2>2. CASE WriteToClosedPeer(i)
        BY <2>2, UnchangedHandles DEF WriteToClosedPeer
  <2>3. CASE ~WriteToClosedPeer(i)
    <3>1. pc = "dispatch" /\ Proceed(WithoutClient(i), running)
          BY <2>1, <2>3 DEF AnswerMalformed, AnswerGetTelemetry,
             AnswerUpgradeStatus, RefuseUpgrade, AcceptUpgrade, RefuseCommand,
             ForwardCommand, DropClient, WriteAnswer, Reading
    <3> QED
        BY <3>1, ProceedHandles
  <2> QED
      BY <2>2, <2>3
<1>4. CASE WorkerEvent
  <2>1. TakingResult
        BY <1>4 DEF WorkerEvent, DiscardResult, ValidationFailed, StartTransfer,
           TransferRefused
  <2> QED
      BY <2>1, ProceedHandles, StopHandles DEF TakingResult
<1>5. CASE TransportEvent
  <2>1. CASE FlushTransport
    <3>1. /\ pc = "dispatch" /\ pc' = "transport" /\ UNCHANGED result
          /\ batch' = [batch EXCEPT !.transport = @ \ {"OUT"}]
          BY <2>1 DEF FlushTransport
    <3>2. /\ batch'.worker => batch.worker
          /\ batch'.clients \in [Slots -> SUBSET Flags]
          /\ \A i \in Slots : batch'.clients[i] \subseteq batch.clients[i]
          BY <3>1, RestShrinks DEF DaemonTypeOK
    <3> QED
        BY <3>1, <3>2 DEF Handled
  <2>2. CASE TransportFailed
        BY <2>2, StopHandles DEF TransportFailed, ReadingFrame
  <2>3. CASE ReadTransport
        BY <2>3, UnchangedHandles DEF ReadTransport
  <2>4. CASE KeepTelemetry
        BY <2>4, UnchangedHandles DEF KeepTelemetry, ReadingFrame
  <2>5. CASE IgnoreFrame
    <3>1. pc = "transport" /\ UNCHANGED <<pc, batch, result>>
          BY <2>5 DEF IgnoreFrame, ReadingFrame, vars, daemonVars, reactorVars
    <3> QED
        BY <3>1, UnchangedHandles
  <2>6. CASE OnDeviceFrame
    <3>1. PICK f : HandshakeReply(f) \/ UpgradeReply(f) \/ ClientReply(f) \/ OrphanReply(f)
          BY <2>6 DEF OnDeviceFrame
    <3>2. /\ pc = "transport"
          /\ \/ UNCHANGED <<running, result, pc, batch>>
             \/ StopTransport("PROTOCOL") \/ StopTransport("BUSY")
          BY <3>1 DEF HandshakeReply, UpgradeReply, ClientReply, OrphanReply, ReadingFrame
    <3> QED
        BY <3>2, StopHandles, UnchangedHandles DEF StopTransport
  <2>7. CASE TransportDrained
        BY <2>7, StopHandles, ProceedHandles DEF TransportDrained
  <2> QED
      BY <1>5, <2>1, <2>2, <2>3, <2>4, <2>5, <2>6, <2>7 DEF TransportEvent
<1>6. CASE TickEarly \/ TickDue
  <2>1. /\ pc = "dispatch"
        /\ Proceed(WithoutTimer, running) \/ StopWith("BUSY") \/ StopWith("TIMEOUT")
        BY <1>6 DEF TickDue, TickEarly, TickRetry, TickRetryBusy, TickRecover,
           TickUpgradeFailed, TickClientTimeout, TickNobody, TickExhausted, TimerEvent
  <2> QED
      BY <2>1, StopHandles, ProceedHandles
<1>7. CASE SignalEvent
      BY <1>7, ProceedHandles DEF SignalEvent
<1> QED
    BY <1>1, <1>2, <1>3, <1>4, <1>5, <1>6, <1>7

(* No handler stops or joins the worker, and none but the reading of the   *)
(* result resets the eventfd.                                              *)
LEMMA HandlersKeepWorker ==
  ASSUME DaemonInv,
         \/ SetupFailed \/ AcceptClients \/ ClientEvent \/ WorkerEvent
         \/ TransportEvent \/ TickEarly \/ TickDue \/ SignalEvent
  PROVE  /\ mailbox'.stop = mailbox.stop
         /\ thread'.pc = "joined" <=> thread.pc = "joined"
         /\ batch'.worker => event_fd' = event_fd
<1>1. WorkerTypeOK /\ DaemonTypeOK
      BY DEF DaemonInv, WorkerInv
<1>2. /\ Taken.stop = mailbox.stop
      /\ \A job_id : Submitted(job_id).stop = mailbox.stop
      /\ Signalled.pc = "joined" <=> thread.pc = "joined"
      BY <1>1 DEF WorkerTypeOK, Taken, Submitted, Signalled
<1>3. CASE ClientEvent
  <2>1. PICK i \in Slots :
          \/ AnswerMalformed(i) \/ AnswerGetTelemetry(i) \/ AnswerUpgradeStatus(i)
          \/ RefuseUpgrade(i) \/ AcceptUpgrade(i)
          \/ RefuseCommand(i) \/ ForwardCommand(i)
          \/ DropClient(i) \/ WriteAnswer(i) \/ WriteToClosedPeer(i)
        BY <1>3 DEF ClientEvent
  <2>2. CASE AcceptUpgrade(i)
        BY <1>2, <2>2 DEF AcceptUpgrade
  <2> QED
      BY <2>1, <2>2 DEF AnswerMalformed, AnswerGetTelemetry, AnswerUpgradeStatus,
         RefuseUpgrade, RefuseCommand, ForwardCommand, DropClient, WriteAnswer,
         WriteToClosedPeer, workerVars
<1>4. CASE WorkerEvent
  <2>1. TakingResult
        BY <1>4 DEF WorkerEvent, DiscardResult, ValidationFailed, StartTransfer,
           TransferRefused
  <2>2. mailbox' \in {mailbox, Taken} /\ UNCHANGED thread
        BY <2>1 DEF TakingResult
  <2>3. batch' \in {EmptyBatch, [batch EXCEPT !.worker = FALSE]}
        BY <2>1 DEF TakingResult, Proceed, StopWith
  <2>4. batch'.worker = FALSE
        BY <1>1, <2>3 DEF DaemonTypeOK, Batches, EmptyBatch
  <2> QED
      BY <1>2, <2>2, <2>4
<1>5. CASE TransportEvent \/ TickEarly \/ TickDue
  <2>1. UNCHANGED <<mailbox, thread, event_fd>>
    <3>1. ASSUME NEW f, UpgradeReply(f) PROVE UNCHANGED <<mailbox, thread, event_fd>>
          BY <3>1 DEF UpgradeReply, EndUpgrade, workerVars
    <3>2. ASSUME TickUpgradeFailed PROVE UNCHANGED <<mailbox, thread, event_fd>>
          BY <3>2 DEF TickUpgradeFailed, EndUpgrade
    <3>3. CASE TransportEvent
          BY <3>1, <3>3 DEF TransportEvent, FlushTransport, TransportFailed,
             ReadTransport, KeepTelemetry, IgnoreFrame, OnDeviceFrame,
             TransportDrained, HandshakeReply, ClientReply, OrphanReply, vars,
             workerVars
    <3>4. CASE TickEarly \/ TickDue
          BY <3>2, <3>4 DEF TickDue, TickEarly, TickRetry, TickRetryBusy,
             TickRecover, TickClientTimeout, TickNobody, workerVars
    <3> QED
        BY <1>5, <3>3, <3>4
  <2> QED
      BY <2>1
<1>6. CASE SetupFailed \/ AcceptClients \/ SignalEvent
      BY <1>6 DEF SetupFailed, AcceptClients, SignalEvent, workerVars
<1> QED
    BY <1>3, <1>4, <1>5, <1>6

LEMMA DrivesStep == DaemonInv /\ [DaemonNext]_vars => ReactorDrivesWorker'
<1> SUFFICES ASSUME DaemonInv, [DaemonNext]_vars
             PROVE  ReactorDrivesWorker'
    OBVIOUS
<1> USE DEF ReactorDrivesWorker
<1>1. /\ ReactorDrivesWorker /\ DaemonTypeOK /\ WorkerTypeOK
      BY DEF DaemonInv, WorkerInv
<1>2. ASSUME SetupFailed \/ AcceptClients \/ ClientEvent \/ WorkerEvent
             \/ TransportEvent \/ TickEarly \/ TickDue \/ SignalEvent
      PROVE  ReactorDrivesWorker'
      BY <1>1, <1>2, HandlersHandle, HandlersKeepWorker DEF Handled
<1>3. CASE StartHandshake
      BY <1>1, <1>3 DEF StartHandshake, workerVars
<1>4. CASE EpollWait
  <2>1. batch'.worker => event_fd > 0
        BY <1>1, <1>4, SnapshotType
  <2> QED
      BY <1>1, <1>4, <2>1 DEF EpollWait, workerVars
<1>5. CASE Cleanup
      BY <1>1, <1>5 DEF Cleanup, Stopped, Signalled, WorkerTypeOK
<1>6. CASE CleanupJoin
  <2>1. batch = EmptyBatch /\ EmptyBatch.worker = FALSE
        BY <1>1, <1>6 DEF CleanupJoin, EmptyBatch
  <2> QED
      BY <1>1, <1>6, <2>1 DEF CleanupJoin, JoinWorker, GoTo, WorkerTypeOK
<1>7. CASE CleanupRelease
      BY <1>1, <1>7 DEF CleanupRelease
<1>8. CASE World
      BY <1>1, <1>8 DEF World, Connect, ClientSends, ClientLeaves, reactorVars, workerVars
<1>9. CASE WorkerRuns
  <2>1. UNCHANGED <<pc, batch>> /\ pc # "down" /\ ThreadStep
        BY <1>9 DEF WorkerRuns, daemonVars, reactorVars
  <2>2. /\ mailbox'.stop = mailbox.stop
        /\ thread'.pc = "joined" <=> thread.pc = "joined"
        /\ event_fd' \in {event_fd, event_fd + 1}
    <3> USE DEF WorkerTypeOK, GoTo
    <3>1. CASE Sleep \/ SpuriousWakeup \/ ExitThread
          BY <1>1, <3>1 DEF Sleep, SpuriousWakeup, ExitThread
    <3>2. CASE TakeJob
          BY <1>1, <3>2 DEF TakeJob
    <3>3. CASE OpenImage
      <4>1. \E r : thread' = [pc |-> "post", result |-> r]
            BY <3>3 DEF OpenImage
      <4>2. thread'.pc = "post" /\ thread.pc = "open" /\ UNCHANGED <<mailbox, event_fd>>
            BY <3>3, <4>1 DEF OpenImage
      <4> QED
          BY <4>2
    <3>4. CASE PostResult
          BY <1>1, <3>4 DEF PostResult
    <3>5. CASE NotifyReactor
          BY <1>1, <3>5 DEF NotifyReactor
    <3> QED
        BY <2>1, <3>1, <3>2, <3>3, <3>4, <3>5 DEF ThreadStep
  <2> QED
      BY <1>1, <2>1, <2>2 DEF WorkerTypeOK
<1>10. CASE UNCHANGED vars
      BY <1>1, <1>10 DEF vars, daemonVars, reactorVars, workerVars
<1> QED
    BY <1>2, <1>3, <1>4, <1>5, <1>6, <1>7, <1>8, <1>9, <1>10
       DEF DaemonNext, Reactor, Ended

(***************************************************************************)
(* Clients and their requests                                              *)
(***************************************************************************)
ClientsInv == /\ AddresseeIsAsking /\ AnswersBelongToRequests
              /\ SlotsAreClean /\ UnansweredIsActive

(* The session goes on with the request of the active client. *)
RequestKept == active_client # 0 =>
  /\ session'.pending.active
  /\ session'.pending.type = session.pending.type
  /\ session'.state \in {"READY", "STREAMING"}
  /\ ~UpgradeActive(upgrade)'

(* An answer that belongs to the command. *)
Fits(output, command) ==
  \/ output.command = command
  \/ output.command = "NONE" /\ output.status \in {"TIMEOUT", "LIMIT", "PROTOCOL"}
  \/ output.command = "UPGRADE" /\ command = "UPGRADE_MALFORMED"

(* What the invariant says of one slot c when a is the active client. *)
SlotInv(c, i, a) ==
  /\ ~c.open => c = FreeSlot
  /\ c.command # "NONE" => c.inbox = NoInput
  /\ c.output # NoOutput => c.open /\ c.command # "NONE" /\ Fits(c.output, c.command)
  /\ c.command # "NONE" /\ c.output = NoOutput <=> a = i

LEMMA SlotsOfInv == ClientsInv => \A i \in Slots : SlotInv(clients[i], i, active_client)
  BY DEF ClientsInv, SlotInv, AnswersBelongToRequests, SlotsAreClean,
     UnansweredIsActive, Fits

LEMMA InvOfSlots ==
  ASSUME active_client' \in Slots \union {0},
         \A i \in Slots : SlotInv(clients'[i], i, active_client'),
         active_client' # 0 =>
           /\ session'.pending.active
           /\ clients'[active_client'].command = session'.pending.type
           /\ session'.state \in {"READY", "STREAMING"}
           /\ ~UpgradeActive(upgrade)'
  PROVE  ClientsInv'
<1>1. SlotsAreClean' /\ UnansweredIsActive'
      BY DEF SlotInv, SlotsAreClean, UnansweredIsActive
<1>2. AnswersBelongToRequests'
      BY DEF SlotInv, AnswersBelongToRequests, Fits
<1>3. AddresseeIsAsking'
  <2>1. FreeSlot.command = "NONE"
        BY DEF FreeSlot
  <2>2. ASSUME active_client' # 0
        PROVE  /\ clients'[active_client'].open
               /\ clients'[active_client'].output = NoOutput
        BY <2>1, <2>2 DEF SlotInv
  <2> QED
      BY <2>2 DEF AddresseeIsAsking
<1> QED
    BY <1>1, <1>2, <1>3 DEF ClientsInv

LEMMA FreeSlotFields ==
  /\ FreeSlot.open = FALSE /\ FreeSlot.command = "NONE" /\ FreeSlot.hup = FALSE
  /\ FreeSlot.inbox = NoInput /\ FreeSlot.output = NoOutput
  BY DEF FreeSlot

(* The invariant when the clients are left alone ... *)
LEMMA ClientsUntouched ==
  ASSUME DaemonInv, UNCHANGED <<clients, active_client>>, RequestKept
  PROVE  ClientsInv'
<1>1. ClientsInv /\ DaemonTypeOK
      BY DEF DaemonInv, ClientsInv
<1>2. active_client # 0 => clients[active_client].command = session.pending.type
      BY <1>1 DEF ClientsInv, AddresseeIsAsking
<1> QED
    BY <1>1, <1>2, SlotsOfInv, InvOfSlots DEF RequestKept, DaemonTypeOK

(* ... when one is closed ... *)
LEMMA ClientClosed ==
  ASSUME DaemonInv, NEW i \in Slots, CloseClient(i), RequestKept
  PROVE  ClientsInv'
<1>1. /\ ClientsInv /\ DaemonTypeOK /\ active_client \in Slots \union {0}
      /\ 0 \notin Slots
      BY DEF DaemonInv, ClientsInv, DaemonTypeOK, Slots
<1>2. /\ \A j \in Slots : clients'[j] = IF j = i THEN FreeSlot ELSE clients[j]
      /\ active_client' = IF active_client = i THEN 0 ELSE active_client
      BY <1>1 DEF CloseClient, DaemonTypeOK
<1>3. active_client' \in Slots \union {0}
      BY <1>1, <1>2
<1>4. \A j \in Slots : SlotInv(clients'[j], j, active_client')
      BY <1>1, <1>2, SlotsOfInv, FreeSlotFields DEF SlotInv
<1>5. active_client # 0 => clients[active_client].command = session.pending.type
      BY <1>1 DEF ClientsInv, AddresseeIsAsking
<1> QED
    BY <1>1, <1>2, <1>3, <1>4, <1>5, InvOfSlots DEF RequestKept

(* ... and when a request that was read is answered at once. *)
LEMMA RequestAnswered ==
  ASSUME DaemonInv, NEW i \in Slots, NEW command, NEW status \in Statuses,
         clients[i].inbox.command # "NONE",
         Fits([command |-> command, status |-> status], clients[i].inbox.command),
         AnswerRequest(i, command, status), RequestKept
  PROVE  ClientsInv'
<1>1. /\ ClientsInv /\ DaemonTypeOK /\ active_client \in Slots \union {0}
      /\ 0 \notin Slots
      BY DEF DaemonInv, ClientsInv, DaemonTypeOK, Slots
<1>2. CASE CloseClient(i)
      BY <1>2, ClientClosed
<1>3. CASE ~CloseClient(i)
  <2> DEFINE c == clients'[i]
             output == [command |-> command, status |-> status]
  <2>1. UNCHANGED active_client
        BY <1>3 DEF AnswerRequest
  <2>2. \A j \in Slots \ {i} : clients'[j] = clients[j]
        BY <1>1, <1>3 DEF AnswerRequest, DaemonTypeOK
  <2>3. clients[i] \in ClientSlots
        BY <1>1 DEF DaemonTypeOK
  <2>4. c = [clients[i] EXCEPT !.inbox = NoInput,
                               !.command = clients[i].inbox.command,
                               !.output = output]
        BY <1>1, <1>3 DEF AnswerRequest, DaemonTypeOK
  <2>5. /\ c.open = clients[i].open /\ c.inbox = NoInput
        /\ c.command = clients[i].inbox.command /\ c.output = output
        BY <2>3, <2>4 DEF ClientSlots
  <2>6. output # NoOutput
    <3>1. "NONE" \notin Statuses
          BY DEF Statuses
    <3>2. output.status = status /\ NoOutput.status = "NONE"
          BY DEF NoOutput
    <3> QED
        BY <3>1, <3>2
  <2>7. clients[i].open /\ active_client # i
    <3>1. clients[i].inbox # NoInput
          BY DEF NoInput
    <3> QED
        BY <1>1, <3>1, SlotsOfInv, FreeSlotFields DEF SlotInv
  <2> HIDE DEF c, output
  <2>8. SlotInv(c, i, active_client')
        BY <2>1, <2>5, <2>6, <2>7 DEF SlotInv, output
  <2>9. \A j \in Slots : SlotInv(clients'[j], j, active_client')
        BY <1>1, <2>1, <2>2, <2>8, SlotsOfInv DEF c
  <2>10. active_client # 0 => clients'[active_client].command = session.pending.type
        BY <1>1, <2>2, <2>7 DEF ClientsInv, AddresseeIsAsking
  <2> QED
      BY <1>1, <2>1, <2>9, <2>10, InvOfSlots DEF RequestKept
<1> QED
    BY <1>2, <1>3

(* The active client's request when the session and the upgrade are left   *)
(* alone, or when there is no active client.                               *)
LEMMA KeptUnchanged ==
  ASSUME DaemonInv, UNCHANGED <<session, upgrade>> \/ active_client = 0
  PROVE  RequestKept
  BY DEF DaemonInv, AddresseeIsAsking, RequestKept, UpgradeActive

LEMMA NobodyDuringUpgrade ==
  ASSUME DaemonInv,
         \/ UpgradeActive(upgrade) \/ ~session.pending.active
         \/ session.state \notin {"READY", "STREAMING"}
  PROVE  active_client = 0
  BY DEF DaemonInv, AddresseeIsAsking

LEMMA ClientEventClients ==
  ASSUME DaemonInv, NEW i \in Slots,
         \/ AnswerMalformed(i) \/ AnswerGetTelemetry(i) \/ AnswerUpgradeStatus(i)
         \/ RefuseUpgrade(i) \/ AcceptUpgrade(i)
         \/ RefuseCommand(i) \/ ForwardCommand(i)
         \/ DropClient(i) \/ WriteAnswer(i) \/ WriteToClosedPeer(i)
  PROVE  ClientsInv'
<1> DEFINE read == clients[i].inbox.command
           Answers(command, status) ==
             /\ status \in Statuses /\ read # "NONE"
             /\ Fits([command |-> command, status |-> status], read)
             /\ AnswerRequest(i, command, status)
<1>1. \A command, status : Answers(command, status) /\ RequestKept => ClientsInv'
      BY RequestAnswered
<1>2. {"OK", "BUSY", "STATE", "INVALID", "NOT_FOUND", "LIMIT", "PROTOCOL"}
        \subseteq Statuses
      BY DEF Statuses
<1>3. \A command, status :
        /\ Fits([command |-> command, status |-> status], command)
        /\ status \in {"LIMIT", "PROTOCOL"} =>
             Fits([command |-> "NONE", status |-> status], command)
        /\ Fits([command |-> "UPGRADE", status |-> status], "UPGRADE_MALFORMED")
      BY DEF Fits
<1> USE DEF Reading
<1>4. CASE AnswerMalformed(i)
  <2>1. \E status \in {"LIMIT", "PROTOCOL"} : Answers("NONE", status)
        BY <1>2, <1>3, <1>4 DEF AnswerMalformed
  <2> QED
      BY <1>1, <1>4, <2>1, KeptUnchanged DEF AnswerMalformed
<1>5. CASE AnswerGetTelemetry(i)
  <2>1. \E status : Answers("GET_TELEMETRY", status)
        BY <1>2, <1>3, <1>5 DEF AnswerGetTelemetry
  <2> QED
      BY <1>1, <1>5, <2>1, KeptUnchanged DEF AnswerGetTelemetry
<1>6. CASE AnswerUpgradeStatus(i)
  <2>1. \E status : Answers("UPGRADE_STATUS", status)
        BY <1>2, <1>3, <1>6 DEF AnswerUpgradeStatus
  <2> QED
      BY <1>1, <1>6, <2>1, KeptUnchanged DEF AnswerUpgradeStatus
<1>7. CASE RefuseUpgrade(i)
  <2>1. \E status : Answers("UPGRADE", status)
        BY <1>2, <1>3, <1>7 DEF RefuseUpgrade
  <2> QED
      BY <1>1, <1>7, <2>1, KeptUnchanged DEF RefuseUpgrade
<1>8. CASE AcceptUpgrade(i)
  <2>1. \E status : Answers("UPGRADE", status)
        BY <1>2, <1>3, <1>8 DEF AcceptUpgrade
  <2>2. active_client = 0
        BY <1>8 DEF AcceptUpgrade, UpgradeRefused
  <2> QED
      BY <1>1, <2>1, <2>2, KeptUnchanged
<1>9. CASE RefuseCommand(i)
  <2>1. read # "NONE"
        BY <1>9 DEF RefuseCommand, DeviceCommands
  <2>2. Refusal(read) \in Statuses \union {"NONE"}
        BY <1>2 DEF Refusal
  <2>3. \E status : Answers(read, status)
        BY <1>2, <1>3, <1>9, <2>1, <2>2 DEF RefuseCommand
  <2>4. UNCHANGED <<session, upgrade>> \/ active_client = 0
        BY <1>9 DEF RefuseCommand, Refusal
  <2> QED
      BY <1>1, <2>3, <2>4, KeptUnchanged
<1>10. CASE ForwardCommand(i)
  <2>1. /\ DaemonTypeOK /\ session \in Sessions /\ 0 \notin Slots
        /\ ClientsInv /\ active_client = 0 /\ ~UpgradeActive(upgrade)
        /\ session.state \in {"READY", "STREAMING"}
        BY <1>10 DEF ForwardCommand, Refusal, DaemonInv, DaemonTypeOK, ClientsInv, Slots
  <2>2. /\ read \in DeviceCommands /\ read # "NONE" /\ read \in RequestTypes
        /\ session' = BeginRequest(session, read, ClientRetries)
        /\ UNCHANGED upgrade
        BY <1>10 DEF ForwardCommand, DeviceCommands, RequestTypes
  <2>3. /\ session'.pending.active = TRUE /\ session'.pending.type = read
        /\ session'.state = session.state
    <3>1. session \in Sessions /\ ClientRetries \in Nat
          BY <2>1, DaemonAssumption
    <3> HIDE DEF read
    <3> QED
        BY <2>2, <3>1, BeginSession
  <2>4. CASE CloseClient(i)
        BY <2>1, <2>4, ClientClosed, KeptUnchanged
  <2>5. CASE ~CloseClient(i)
    <3>1. /\ active_client' = i
          /\ clients' = [clients EXCEPT ![i].inbox = NoInput, ![i].command = read]
          BY <1>10, <2>5 DEF ForwardCommand
    <3>2. clients[i] \in ClientSlots
          BY <2>1 DEF DaemonTypeOK
    <3>3. clients'[i] = [clients[i] EXCEPT !.inbox = NoInput, !.command = read]
          BY <2>1, <3>1 DEF DaemonTypeOK
    <3>4. /\ clients'[i].open = clients[i].open /\ clients'[i].inbox = NoInput
          /\ clients'[i].command = read
          /\ clients'[i].output = clients[i].output
          BY <3>2, <3>3 DEF ClientSlots
    <3>5. clients[i].open /\ clients[i].output = NoOutput
      <4>1. clients[i].inbox # NoInput
            BY <2>2 DEF NoInput
      <4> QED
          BY <2>1, <4>1, SlotsOfInv, FreeSlotFields DEF SlotInv
    <3>6. SlotInv(clients'[i], i, i)
          BY <2>2, <3>4, <3>5 DEF SlotInv
    <3>7. \A j \in Slots \ {i} : clients'[j] = clients[j]
          BY <2>1, <3>1 DEF DaemonTypeOK
    <3>8. \A j \in Slots : SlotInv(clients'[j], j, active_client')
          BY <2>1, <3>1, <3>6, <3>7, SlotsOfInv, ZenonT(60) DEF SlotInv
    <3>9. ~UpgradeActive(upgrade)'
          BY <2>1, <2>2 DEF UpgradeActive
    <3> QED
        BY <2>1, <2>3, <3>1, <3>4, <3>8, <3>9, InvOfSlots
  <2> QED
      BY <2>4, <2>5
<1>11. CASE DropClient(i)
      BY <1>11, ClientClosed, KeptUnchanged DEF DropClient
<1>12. CASE WriteAnswer(i)
      BY <1>12, ClientClosed, ClientsUntouched, KeptUnchanged DEF WriteAnswer
<1>13. CASE WriteToClosedPeer(i)
      BY <1>13, ClientsUntouched, KeptUnchanged DEF WriteToClosedPeer
<1> QED
    BY <1>4, <1>5, <1>6, <1>7, <1>8, <1>9, <1>10, <1>11, <1>12, <1>13

(* The answer or the timeout reaches the client that asked.                *)
LEMMA ActiveAnswered ==
  ASSUME DaemonInv, active_client # 0, NEW command, NEW status \in Statuses,
         Fits([command |-> command, status |-> status], clients[active_client].command),
         clients' = Answer(active_client, command, status), active_client' = 0
  PROVE  ClientsInv'
<1>1. /\ ClientsInv /\ DaemonTypeOK /\ active_client \in Slots /\ 0 \notin Slots
      BY DEF DaemonInv, ClientsInv, DaemonTypeOK, Slots
<1> DEFINE i == active_client
           output == [command |-> command, status |-> status]
<1>2. \A j \in Slots \ {i} : clients'[j] = clients[j]
      BY <1>1 DEF Answer, DaemonTypeOK
<1>3. clients'[i] = [clients[i] EXCEPT !.output = output]
      BY <1>1 DEF Answer, DaemonTypeOK
<1>4. clients[i] \in ClientSlots
      BY <1>1 DEF DaemonTypeOK
<1>5. /\ clients'[i].open = clients[i].open /\ clients'[i].output = output
      /\ clients'[i].command = clients[i].command
      /\ clients'[i].inbox = clients[i].inbox
      BY <1>3, <1>4 DEF ClientSlots
<1>6. output # NoOutput
  <2>1. "NONE" \notin Statuses
        BY DEF Statuses
  <2>2. output.status = status /\ NoOutput.status = "NONE"
        BY DEF NoOutput
  <2> QED
      BY <2>1, <2>2
<1>7. /\ clients[i].open /\ clients[i].command # "NONE"
      /\ clients[i].inbox = NoInput
  <2>1. SlotInv(clients[i], i, i)
        BY <1>1, SlotsOfInv
  <2> QED
      BY <2>1, FreeSlotFields DEF SlotInv
<1> HIDE DEF output
<1>8. SlotInv(clients'[i], i, 0)
      BY <1>1, <1>5, <1>6, <1>7 DEF SlotInv, output
<1>9. \A j \in Slots : SlotInv(clients'[j], j, active_client')
      BY <1>1, <1>2, <1>8, SlotsOfInv DEF SlotInv
<1> QED
    BY <1>9, InvOfSlots

LEMMA TransportClients ==
  ASSUME DaemonInv, TransportEvent
  PROVE  ClientsInv'
<1>1. CASE OnDeviceFrame
  <2>1. PICK f \in DeviceFrames :
          /\ Matches(session, f)
          /\ HandshakeReply(f) \/ UpgradeReply(f) \/ ClientReply(f) \/ OrphanReply(f)
        BY <1>1 DEF OnDeviceFrame
  <2>2. CASE ClientReply(f)
    <3>1. session.pending.type = clients[active_client].command
          BY <2>2 DEF ClientReply, DaemonInv, AddresseeIsAsking
    <3>2. {"OK", "PROTOCOL"} \subseteq Statuses
          BY DEF Statuses
    <3>3. \A command, status : Fits([command |-> command, status |-> status], command)
          BY DEF Fits
    <3> QED
        BY <2>2, <3>1, <3>2, <3>3, ActiveAnswered DEF ClientReply
  <2>3. CASE HandshakeReply(f) \/ UpgradeReply(f) \/ OrphanReply(f)
    <3>1. active_client = 0 /\ UNCHANGED <<clients, active_client>>
          BY <2>3, NobodyDuringUpgrade DEF HandshakeReply, UpgradeReply, OrphanReply
    <3> QED
        BY <3>1, ClientsUntouched, KeptUnchanged
  <2> QED
      BY <2>1, <2>2, <2>3
<1>2. CASE ~OnDeviceFrame
  <2>1. UNCHANGED <<session, upgrade, clients, active_client>>
        BY <1>2 DEF TransportEvent, FlushTransport, TransportFailed, ReadTransport,
           KeepTelemetry, IgnoreFrame, TransportDrained, vars, daemonVars, reactorVars
  <2> QED
      BY <2>1, ClientsUntouched, KeptUnchanged
<1> QED
    BY <1>1, <1>2

LEMMA TickClients ==
  ASSUME DaemonInv, TickEarly \/ TickDue
  PROVE  ClientsInv'
<1>1. CASE TickEarly \/ TickRetryBusy
      BY <1>1, ClientsUntouched, KeptUnchanged DEF TickEarly, TickRetryBusy
<1>2. CASE TickRetry
  <2>1. SessionOK(session)
        BY DEF DaemonInv, DaemonTypeOK, SessionOK
  <2>2. /\ session'.state = session.state
        /\ session'.pending.active = session.pending.active
        /\ session'.pending.type = session.pending.type
        BY <1>2, <2>1, RetriedSession DEF TickRetry
  <2>3. RequestKept
        BY <1>2, <2>2 DEF TickRetry, RequestKept, DaemonInv, AddresseeIsAsking,
           UpgradeActive
  <2> QED
      BY <1>2, <2>3, ClientsUntouched DEF TickRetry
<1>3. CASE TickRecover \/ TickUpgradeFailed
  <2>1. active_client = 0 /\ UNCHANGED <<clients, active_client>>
        BY <1>3, NobodyDuringUpgrade DEF TickRecover, TickUpgradeFailed
  <2> QED
      BY <2>1, ClientsUntouched, KeptUnchanged
<1>4. CASE TickClientTimeout
  <2>1. "TIMEOUT" \in Statuses
        BY DEF Statuses
  <2>2. Fits([command |-> "NONE", status |-> "TIMEOUT"], clients[active_client].command)
        BY DEF Fits
  <2> QED
      BY <1>4, <2>1, <2>2, ActiveAnswered DEF TickClientTimeout
<1>5. CASE TickNobody
      BY <1>5, ClientsUntouched, KeptUnchanged DEF TickNobody
<1> QED
    BY <1>1, <1>2, <1>3, <1>4, <1>5 DEF TickDue

LEMMA WorldClients ==
  ASSUME DaemonInv, World
  PROVE  ClientsInv'
<1>1. ClientsInv /\ DaemonTypeOK
      BY DEF DaemonInv, ClientsInv
<1>2. CASE Connect
      BY <1>2, ClientsUntouched, KeptUnchanged DEF Connect, reactorVars
<1>3. ASSUME NEW i \in Slots, ClientSends(i) \/ ClientLeaves(i)
      PROVE  ClientsInv'
  <2>1. clients[i] \in ClientSlots /\ clients[i].open
        BY <1>1, <1>3 DEF DaemonTypeOK, ClientSends, ClientLeaves
  <2>2. \A j \in Slots \ {i} : clients'[j] = clients[j]
        BY <1>1, <1>3 DEF DaemonTypeOK, ClientSends, ClientLeaves
  <2>3. /\ clients'[i].open = clients[i].open
        /\ clients'[i].command = clients[i].command
        /\ clients'[i].output = clients[i].output
        /\ clients'[i].inbox = clients[i].inbox \/ clients[i].command = "NONE"
    <3>1. CASE ClientSends(i)
      <4>1. \E r : clients' = [clients EXCEPT ![i].inbox = r]
            BY <3>1 DEF ClientSends
      <4>2. PICK r : clients'[i] = [clients[i] EXCEPT !.inbox = r]
            BY <1>1, <4>1 DEF DaemonTypeOK
      <4> QED
          BY <2>1, <3>1, <4>2 DEF ClientSends, ClientSlots
    <3>2. CASE ClientLeaves(i)
      <4>1. clients'[i] = [clients[i] EXCEPT !.hup = TRUE]
            BY <1>1, <3>2 DEF ClientLeaves, DaemonTypeOK
      <4> QED
          BY <2>1, <4>1 DEF ClientSlots
    <3> QED
        BY <1>3, <3>1, <3>2
  <2>4. UNCHANGED <<session, upgrade, active_client>>
        BY <1>3 DEF ClientSends, ClientLeaves
  <2>5. \A j \in Slots : SlotInv(clients'[j], j, active_client')
        BY <1>1, <2>1, <2>2, <2>3, <2>4, SlotsOfInv, ZenonT(60) DEF SlotInv
  <2>6. active_client # 0 => clients'[active_client].command = session.pending.type
        BY <1>1, <2>2, <2>3 DEF ClientsInv, AddresseeIsAsking, DaemonTypeOK
  <2> QED
      BY <1>1, <2>4, <2>5, <2>6, KeptUnchanged, InvOfSlots DEF RequestKept, DaemonTypeOK
<1> QED
    BY <1>2, <1>3 DEF World

(* The clients' part of the invariant is kept by every step.               *)
LEMMA ClientsStep == DaemonInv /\ [DaemonNext]_vars => ClientsInv'
<1> SUFFICES ASSUME DaemonInv, [DaemonNext]_vars
             PROVE  ClientsInv'
    OBVIOUS
<1>1. ClientsInv /\ DaemonTypeOK
      BY DEF DaemonInv, ClientsInv
<1>2. CASE ClientEvent
      BY <1>2, ClientEventClients DEF ClientEvent
<1>3. CASE WorkerEvent
  <2>1. UNCHANGED <<clients, active_client>>
        BY <1>3 DEF WorkerEvent, DiscardResult, ValidationFailed, StartTransfer,
           TransferRefused, TakingResult
  <2>2. UNCHANGED <<session, upgrade>> \/ UpgradeActive(upgrade)
        BY <1>3 DEF WorkerEvent, DiscardResult, ValidationFailed, StartTransfer,
           TransferRefused, ResultExpected, UpgradeActive
  <2> QED
      BY <2>1, <2>2, ClientsUntouched, KeptUnchanged, NobodyDuringUpgrade
<1>4. CASE StartHandshake
  <2>1. ~session.pending.active
        BY <1>4 DEF StartHandshake, DaemonInv, SessionPhases, InitialSession, NoRequest
  <2> QED
      BY <1>4, <2>1, ClientsUntouched, KeptUnchanged, NobodyDuringUpgrade
         DEF StartHandshake
<1>5. CASE SetupFailed \/ EpollWait \/ SignalEvent
      BY <1>5, ClientsUntouched, KeptUnchanged DEF SetupFailed, EpollWait, SignalEvent
<1>6. CASE CleanupJoin \/ CleanupRelease
      BY <1>6, ClientsUntouched, KeptUnchanged DEF CleanupJoin, CleanupRelease
<1>7. CASE AcceptClients
  <2> DEFINE new == [FreeSlot EXCEPT !.open = TRUE]
  <2>1. /\ new.open = TRUE /\ new.command = "NONE" /\ new.output = NoOutput
        BY DEF FreeSlot
  <2>2. \A j \in Slots : clients'[j] \in {clients[j], new}
                         /\ (clients[j].open => clients'[j] = clients[j])
        BY <1>7 DEF AcceptClients, FreeSlots
  <2>3. UNCHANGED <<session, upgrade, active_client>>
        BY <1>7 DEF AcceptClients
  <2> HIDE DEF new
  <2>4. \A j \in Slots : SlotInv(clients'[j], j, active_client')
    <3> SUFFICES ASSUME NEW j \in Slots PROVE SlotInv(clients'[j], j, active_client')
        OBVIOUS
    <3>1. SlotInv(clients[j], j, active_client)
          BY <1>1, SlotsOfInv
    <3>2. CASE clients'[j] = clients[j]
          BY <2>3, <3>1, <3>2
    <3>3. CASE clients'[j] # clients[j]
      <4>1. clients'[j] = new /\ clients[j] = FreeSlot
            BY <2>2, <3>1, <3>3 DEF SlotInv
      <4>2. active_client # j
            BY <3>1, <4>1, FreeSlotFields DEF SlotInv
      <4> QED
          BY <2>1, <2>3, <4>1, <4>2 DEF SlotInv
    <3> QED
        BY <3>2, <3>3
  <2>5. active_client # 0 => clients'[active_client].command = session.pending.type
        BY <1>1, <2>2 DEF ClientsInv, AddresseeIsAsking, DaemonTypeOK
  <2> QED
      BY <1>1, <2>3, <2>4, <2>5, KeptUnchanged, InvOfSlots DEF RequestKept, DaemonTypeOK
<1>8. CASE Cleanup
  <2>1. \A j \in Slots : clients'[j] = FreeSlot
        BY <1>8 DEF Cleanup
  <2>2. active_client' = 0 /\ 0 \notin Slots
        BY <1>8 DEF Cleanup, Slots
  <2>3. \A j \in Slots : SlotInv(clients'[j], j, active_client')
        BY <2>1, <2>2, FreeSlotFields DEF SlotInv
  <2> QED
      BY <2>2, <2>3, InvOfSlots
<1>9. CASE UNCHANGED daemonVars
  <2>1. UNCHANGED <<session, upgrade, clients, active_client>>
        BY <1>9 DEF daemonVars, reactorVars
  <2> QED
      BY <2>1, ClientsUntouched, KeptUnchanged
<1> QED
    BY <1>2, <1>3, <1>4, <1>5, <1>6, <1>7, <1>8, <1>9, TransportClients,
       TickClients, WorldClients
       DEF DaemonNext, Reactor, WorkerRuns, Ended, vars

(***************************************************************************)
(* The upgrade, the session and the image                                  *)
(***************************************************************************)
UpgradeInv == /\ SessionPhases /\ UpgradeIsWaitedFor /\ OutcomeIsConsistent
              /\ ValidatedInWorker /\ SentToTheEnd /\ ImageOfOperation

(* The parts of the invariant from what a step has to establish. *)
LEMMA UpgradeInvIntro ==
  ASSUME pc' # "start",
         session'.pending.active =>
           session'.state \in {"HANDSHAKING", "READY", "STREAMING", "UPGRADING"},
         pc' \in {"wait", "dispatch", "transport"} /\ session'.state = "UPGRADING" =>
           session'.pending.active /\ session'.pending.type = RequestType(upgrade'),
         upgrade'.state = "ERROR" <=> upgrade_result' # "OK",
         AtEnd(upgrade'),
         upgrade'.state = "VALIDATING" => InWorker' /\ mailbox'.job_id = operation_id',
         pc' # "down" =>
           /\ (session'.state = "UPGRADING") <=>
                (UpgradeActive(upgrade') /\ upgrade'.state # "VALIDATING")
           /\ (session'.state = "UPGRADING") <=> (firmware' # 0)
           /\ firmware' # 0 => firmware' = operation_id'
  PROVE  UpgradeInv'
<1>1. SessionPhases' /\ ValidatedInWorker' /\ ImageOfOperation'
      BY DEF SessionPhases, ValidatedInWorker, ImageOfOperation
<1>2. SentToTheEnd'
      BY DEF SentToTheEnd, AtEnd
<1>3. OutcomeIsConsistent'
      BY DEF OutcomeIsConsistent, StatusReport, AtEnd
<1>4. UpgradeIsWaitedFor'
      BY DEF UpgradeIsWaitedFor, InLoop, InWorker, CanSubmit
<1> QED
    BY <1>1, <1>2, <1>3, <1>4 DEF UpgradeInv

(* What the invariant says of the state before a step. *)
LEMMA UpgradeFacts ==
  ASSUME DaemonInv
  PROVE  /\ session.pending.active =>
              session.state \in {"HANDSHAKING", "READY", "STREAMING", "UPGRADING"}
         /\ pc \in {"wait", "dispatch", "transport"} /\ session.state = "UPGRADING" =>
              session.pending.active /\ session.pending.type = RequestType(upgrade)
         /\ upgrade.state = "ERROR" <=> upgrade_result # "OK"
         /\ AtEnd(upgrade)
         /\ upgrade.state = "VALIDATING" => InWorker /\ mailbox.job_id = operation_id
         /\ pc # "down" =>
              /\ (session.state = "UPGRADING") <=>
                   (UpgradeActive(upgrade) /\ upgrade.state # "VALIDATING")
              /\ (session.state = "UPGRADING") <=> (firmware # 0)
              /\ firmware # 0 => firmware = operation_id
         /\ pc = "start" => session = InitialSession
         /\ SessionOK(session) /\ session \in Sessions /\ upgrade \in Upgrades
<1>1. OutcomeIsConsistent => (upgrade.state = "ERROR" <=> upgrade_result # "OK")
      BY DEF OutcomeIsConsistent, StatusReport
<1> QED
    BY <1>1 DEF DaemonInv, SessionPhases, UpgradeIsWaitedFor, InLoop, ValidatedInWorker,
       SentToTheEnd, AtEnd, ImageOfOperation, DaemonTypeOK, SessionOK

(* The job of the operation that is validated stays in the worker. *)
JobKept == upgrade.state = "VALIDATING" => (InWorker => InWorker')
                                           /\ mailbox'.job_id = mailbox.job_id

(* A step that leaves upgrade, image and the request alone. *)
LEMMA UpgradeUntouched ==
  ASSUME DaemonInv, UNCHANGED <<upgrade, upgrade_result, operation_id, firmware>>,
         session'.state = session.state,
         session'.pending.active = session.pending.active,
         session'.pending.type = session.pending.type,
         pc # "start", pc' # "start", pc' # "down",
         pc' \in {"wait", "dispatch", "transport"} =>
           pc \in {"wait", "dispatch", "transport"},
         pc # "down", JobKept
  PROVE  UpgradeInv'
  BY UpgradeFacts, UpgradeInvIntro DEF JobKept

(* A step of a session that is not upgrading, before and after. *)
LEMMA UpgradeAside ==
  ASSUME DaemonInv, UNCHANGED <<upgrade, upgrade_result, operation_id, firmware>>,
         session.state # "UPGRADING", session'.state # "UPGRADING",
         session'.pending.active =>
           session'.state \in {"HANDSHAKING", "READY", "STREAMING"},
         pc # "down", pc' # "start", pc' # "down", JobKept
  PROVE  UpgradeInv'
  BY UpgradeFacts, UpgradeInvIntro DEF JobKept

(* The next request of an upgrade is queued while its image is held. *)
LEMMA UpgradeQueued ==
  ASSUME DaemonInv, NEW s \in Sessions, s.state = "UPGRADING",
         NEW u \in Upgrades, UpgradeActive(u), u.state # "VALIDATING", AtEnd(u),
         QueueUpgradeRequest(s, u),
         upgrade_result = "OK", UNCHANGED <<upgrade_result, operation_id>>,
         firmware' = operation_id, operation_id # 0, pc' # "start"
  PROVE  UpgradeInv'
<1>1. /\ session'.state = "UPGRADING" /\ session'.pending.active = TRUE
      /\ session'.pending.type = RequestType(upgrade')
      /\ upgrade'.state = u.state /\ AtEnd(upgrade')
      BY QueueTypes
<1> QED
    BY <1>1, UpgradeInvIntro DEF UpgradeActive

(* The session after UPGRADE_DONE. *)
LEMMA DoneSession ==
  ASSUME NEW s, SessionOK(s), s.pending.active = FALSE
  PROVE  /\ Transition(s, "UPGRADE_DONE").state # "UPGRADING"
         /\ Transition(s, "UPGRADE_DONE").pending.active = FALSE
<1>1. Successor(s.state, "UPGRADE_DONE") # "UPGRADING"
      BY DEF Successor
<1> QED
    BY <1>1, MovedSession

(* The upgrade ends and the image is released. *)
LEMMA UpgradeEnded ==
  ASSUME DaemonInv, NEW s, SessionOK(s), s.pending.active = FALSE,
         NEW u, AtEnd(u), u.state \in {"COMPLETE", "ERROR"}, NEW status,
         u.state = "ERROR" <=> status # "OK",
         EndUpgrade(s, u, status), pc' # "start"
  PROVE  UpgradeInv'
<1>1. /\ session' = Transition(s, "UPGRADE_DONE") /\ upgrade' = u
      /\ upgrade_result' = status /\ firmware' = 0
      BY DEF EndUpgrade
<1>2. session'.state # "UPGRADING" /\ session'.pending.active = FALSE
      BY <1>1, DoneSession
<1> QED
    BY <1>1, <1>2, UpgradeInvIntro DEF UpgradeActive

LEMMA ClientEventUpgrade ==
  ASSUME DaemonInv, NEW i \in Slots,
         \/ AnswerMalformed(i) \/ AnswerGetTelemetry(i) \/ AnswerUpgradeStatus(i)
         \/ RefuseUpgrade(i) \/ AcceptUpgrade(i)
         \/ RefuseCommand(i) \/ ForwardCommand(i)
         \/ DropClient(i) \/ WriteAnswer(i) \/ WriteToClosedPeer(i)
  PROVE  UpgradeInv'
<1>1. ClientEvent
      BY DEF ClientEvent
<1>2. pc = "dispatch" /\ pc' \notin {"start", "down"}
  <2>1. pc = "dispatch"
        BY DEF AnswerMalformed, AnswerGetTelemetry, AnswerUpgradeStatus,
           RefuseUpgrade, AcceptUpgrade, RefuseCommand, ForwardCommand,
           DropClient, WriteAnswer, WriteToClosedPeer, Reading
  <2>2. DaemonTypeOK
        BY DEF DaemonInv
  <2> QED
      BY <1>1, <2>1, <2>2, HandlersHandle DEF Handled
<1>3. CASE AcceptUpgrade(i)
  <2>1. /\ ~UpgradeActive(upgrade) /\ UNCHANGED <<session, firmware>>
        /\ operation_id' = NextSequence(operation_id)
        BY <1>3 DEF AcceptUpgrade, UpgradeRefused
  <2>2. session.state = "READY" /\ firmware = 0
        BY <1>2, <1>3, UpgradeFacts DEF AcceptUpgrade, UpgradeRefused
  <2>3. upgrade \in Upgrades /\ WorkerTypeOK
        BY DEF DaemonInv, DaemonTypeOK, WorkerInv
  <2>4. CASE CanSubmit
    <3>1. /\ mailbox' = Submitted(NextSequence(operation_id))
          /\ upgrade_result' = "OK"
          /\ upgrade' = [upgrade EXCEPT !.state = "VALIDATING"]
          BY <1>3, <2>4 DEF AcceptUpgrade
    <3>2. InWorker' /\ mailbox'.job_id = operation_id'
          BY <2>1, <2>3, <3>1 DEF InWorker, Submitted, WorkerTypeOK
    <3>3. upgrade'.state = "VALIDATING"
          BY <2>3, <3>1 DEF Upgrades
    <3> QED
        BY <1>2, <2>1, <2>2, <3>1, <3>2, <3>3, UpgradeFacts, UpgradeInvIntro
           DEF AtEnd
  <2>5. CASE ~CanSubmit
    <3>1. upgrade_result' = "BUSY" /\ upgrade' = Fail(upgrade)
          BY <1>3, <2>5 DEF AcceptUpgrade
    <3>2. upgrade'.state = "ERROR"
          BY <2>3, <3>1, FailedUpgrade
    <3> QED
        BY <1>2, <2>1, <2>2, <3>1, <3>2, UpgradeFacts, UpgradeInvIntro
           DEF AtEnd, UpgradeActive
  <2> QED
      BY <2>4, <2>5
<1>4. CASE ~AcceptUpgrade(i)
  <2>1. UNCHANGED <<upgrade, upgrade_result, operation_id, firmware, mailbox>>
        BY <1>4 DEF AnswerMalformed, AnswerGetTelemetry, AnswerUpgradeStatus,
           RefuseUpgrade, RefuseCommand, ForwardCommand,
           DropClient, WriteAnswer, WriteToClosedPeer, workerVars
  <2>2. JobKept
        BY <2>1 DEF JobKept, InWorker
  <2>3. CASE UNCHANGED session
        BY <1>2, <2>1, <2>2, <2>3, UpgradeUntouched
  <2>4. CASE session' # session
    <3> DEFINE command == clients[i].inbox.command
               begun == BeginRequest(session, command, ClientRetries)
    <3>1. /\ command \in DeviceCommands /\ Refusal(command) = "NONE"
          /\ session' = begun \/ session' = Cancel(begun)
          BY <1>4, <2>4 DEF AnswerMalformed, AnswerGetTelemetry, AnswerUpgradeStatus,
             RefuseUpgrade, RefuseCommand, ForwardCommand,
             DropClient, WriteAnswer, WriteToClosedPeer, Reading
    <3>2. session.state \in {"READY", "STREAMING"}
          BY <3>1 DEF Refusal
    <3>3. command \in RequestTypes /\ ClientRetries \in Nat
          BY <3>1, DaemonAssumption DEF RequestTypes
    <3>4. session \in Sessions
          BY UpgradeFacts
    <3> HIDE DEF command
    <3>5. SessionOK(begun) /\ begun.state = session.state
          BY <3>3, <3>4, BeginSession
    <3> HIDE DEF begun
    <3>6. session'.state = session.state
          BY <3>1, <3>5, CancelSession DEF SessionOK
    <3> QED
        BY <1>2, <2>1, <2>2, <3>2, <3>6, UpgradeAside
  <2> QED
      BY <2>3, <2>4
<1> QED
    BY <1>3, <1>4

LEMMA WorkerEventUpgrade ==
  ASSUME DaemonInv, WorkerEvent
  PROVE  UpgradeInv'
<1>1. TakingResult
      BY DEF WorkerEvent, DiscardResult, ValidationFailed, StartTransfer, TransferRefused
<1>2. pc = "dispatch" /\ batch.worker /\ UNCHANGED operation_id
      BY <1>1 DEF TakingResult
<1>3. pc' \in {"wait", "dispatch", "cleanup"}
      BY <1>1 DEF TakingResult, Proceed, StopWith
<1>4. /\ CanTake /\ firmware = 0 /\ mailbox.result.job_id = mailbox.job_id
      /\ mailbox.result.job_id # 0 /\ mailbox.result.status \in OpenStatus
      BY <1>2, NotificationTaken
<1>5. session \in Sessions /\ SessionOK(session) /\ upgrade \in Upgrades
      BY UpgradeFacts
<1>6. session.state # "UPGRADING"
      BY <1>2, <1>4, UpgradeFacts
<1>7. CASE DiscardResult
  <2>1. upgrade.state # "VALIDATING"
        BY <1>4, <1>7, UpgradeFacts DEF DiscardResult, ResultExpected
  <2> QED
      BY <1>2, <1>3, <1>7, <2>1, UpgradeUntouched DEF DiscardResult, JobKept
<1>8. CASE ValidationFailed
  <2>1. upgrade'.state = "ERROR" /\ upgrade_result' # "OK" /\ UNCHANGED <<session, firmware>>
        BY <1>5, <1>8, FailedUpgrade DEF ValidationFailed
  <2> QED
      BY <1>2, <1>3, <1>4, <1>6, <2>1, UpgradeFacts, UpgradeInvIntro
         DEF AtEnd, UpgradeActive
<1>9. CASE StartTransfer
  <2> DEFINE s == Transition(session, "START_UPGRADE")
             u(image) == StartUpgrade(upgrade, image, "V")
  <2>1. PICK image \in Images : QueueUpgradeRequest(s, u(image))
        BY <1>9 DEF StartTransfer
  <2>2. /\ u(image) \in Upgrades /\ u(image).state = "ENTER_BOOTLOADER"
        BY StartedUpgrade
  <2>3. s \in Sessions /\ s.state = "UPGRADING"
    <3>1. Accepts(session, "START_UPGRADE")
          BY <1>9 DEF StartTransfer
    <3>2. Successor(session.state, "START_UPGRADE") = "UPGRADING"
          BY <3>1 DEF Accepts, Successor
    <3> QED
        BY <1>5, <3>2, MovedSession DEF SessionOK
  <2>4. /\ firmware' = mailbox.result.job_id /\ UNCHANGED upgrade_result
        /\ mailbox.result.job_id = operation_id /\ upgrade.state = "VALIDATING"
        BY <1>9 DEF StartTransfer, ResultExpected
  <2>5. upgrade_result = "OK"
        BY <2>4, UpgradeFacts
  <2> HIDE DEF s, u
  <2>6. UpgradeActive(u(image)) /\ u(image).state # "VALIDATING" /\ AtEnd(u(image))
        BY <2>2 DEF UpgradeActive, AtEnd
  <2> QED
      BY <1>2, <1>3, <1>4, <2>1, <2>2, <2>3, <2>4, <2>5, <2>6, UpgradeQueued
<1>10. CASE TransferRefused
  <2> DEFINE s == Transition(session, "START_UPGRADE")
             u(image) == StartUpgrade(upgrade, image, "V")
             t(image) == IF Accepts(session, "START_UPGRADE")
                         THEN FailedUpgradeQueue(s, u(image)) ELSE s
  <2>1. PICK image \in Images :
          /\ upgrade' = Fail(u(image))
          /\ upgrade_result' \in {"BUSY", "STATE"}
          /\ session' = Transition(t(image), "UPGRADE_DONE")
        BY <1>10 DEF TransferRefused
  <2>2. /\ SessionOK(s) /\ s \in Sessions /\ u(image) \in Upgrades
        /\ s.pending = session.pending
        /\ s.state = Successor(session.state, "START_UPGRADE")
        BY <1>5, MovedSession, StartedUpgrade DEF SessionOK
  <2>3. UNCHANGED firmware /\ upgrade'.state = "ERROR"
        BY <1>10, <2>1, <2>2, FailedUpgrade DEF TransferRefused
  <2> HIDE DEF u
  <2>4. CASE Accepts(session, "START_UPGRADE")
    <3>1. SessionOK(t(image)) /\ t(image).pending.active = FALSE
          BY <2>2, <2>4, QueueTypes
    <3> HIDE DEF t
    <3>2. session'.state # "UPGRADING" /\ session'.pending.active = FALSE
          BY <2>1, <3>1, DoneSession
    <3> QED
        BY <1>2, <1>3, <1>4, <2>1, <2>3, <3>2, UpgradeInvIntro DEF AtEnd, UpgradeActive
  <2>5. CASE ~Accepts(session, "START_UPGRADE")
    <3>1. s.state = session.state
          BY <2>2, <2>5 DEF Accepts
    <3>2. session' = Transition(s, "UPGRADE_DONE")
          BY <2>1, <2>5
    <3>3. session'.state = session.state /\ session'.pending = session.pending
      <4>1. Successor(session.state, "UPGRADE_DONE") = session.state
            BY <1>6 DEF Successor
      <4> HIDE DEF s
      <4> QED
          BY <2>2, <3>1, <3>2, <4>1, MovedSession
    <3> QED
        BY <1>2, <1>3, <1>4, <1>6, <2>1, <2>3, <3>3, UpgradeFacts, UpgradeInvIntro
           DEF AtEnd, UpgradeActive
  <2> QED
      BY <2>4, <2>5
<1> QED
    BY <1>7, <1>8, <1>9, <1>10 DEF WorkerEvent

LEMMA TransportUpgrade ==
  ASSUME DaemonInv, TransportEvent
  PROVE  UpgradeInv'
<1>1. pc \in {"dispatch", "transport"} /\ pc' \notin {"start", "down"}
  <2>1. pc \in {"dispatch", "transport"}
        BY DEF TransportEvent, FlushTransport, TransportFailed, ReadTransport,
           KeepTelemetry, IgnoreFrame, OnDeviceFrame, TransportDrained,
           HandshakeReply, UpgradeReply, ClientReply, OrphanReply, ReadingFrame
  <2>2. DaemonTypeOK
        BY DEF DaemonInv
  <2> QED
      BY <2>1, <2>2, HandlersHandle DEF Handled
<1>2. session \in Sessions /\ SessionOK(session) /\ upgrade \in Upgrades
      /\ AtEnd(upgrade)
      BY UpgradeFacts
<1>3. /\ SessionOK(Complete(session)) /\ Complete(session) \in Sessions
      /\ Complete(session).state = session.state
      /\ Complete(session).pending.active = FALSE
      BY <1>2, CancelSession DEF Complete, SessionOK
<1>4. CASE ~OnDeviceFrame
  <2>1. UNCHANGED <<session, upgrade, upgrade_result, operation_id, firmware, mailbox>>
        BY <1>4 DEF TransportEvent, FlushTransport, TransportFailed, ReadTransport,
           KeepTelemetry, IgnoreFrame, TransportDrained, vars, daemonVars,
           reactorVars, workerVars
  <2>2. JobKept
        BY <2>1 DEF JobKept, InWorker
  <2> QED
      BY <1>1, <2>1, <2>2, UpgradeUntouched
<1>5. CASE OnDeviceFrame
  <2>1. PICK f \in DeviceFrames :
          /\ Matches(session, f)
          /\ HandshakeReply(f) \/ UpgradeReply(f) \/ ClientReply(f) \/ OrphanReply(f)
        BY <1>5 DEF OnDeviceFrame
  <2>2. CASE HandshakeReply(f) \/ ClientReply(f) \/ OrphanReply(f)
    <3>1. UNCHANGED <<upgrade, upgrade_result, operation_id, firmware, mailbox>>
          BY <2>2 DEF HandshakeReply, ClientReply, OrphanReply, workerVars
    <3>2. JobKept
          BY <3>1 DEF JobKept, InWorker
    <3>3. session.state # "UPGRADING"
          BY <1>1, <2>2, UpgradeFacts DEF HandshakeReply, ClientReply, OrphanReply
    <3>4. \/ session' = Complete(session)
          \/ \E event \in {"HANDSHAKE_OK", "START_STREAM", "STOP_STREAM", "NONE"} :
               session' = Transition(Complete(session), event)
          BY <2>2 DEF HandshakeReply, ClientReply, OrphanReply
    <3>5. \A event \in {"HANDSHAKE_OK", "START_STREAM", "STOP_STREAM", "NONE"} :
            Successor(session.state, event) # "UPGRADING"
          BY <3>3 DEF Successor
    <3>6. session'.state # "UPGRADING" /\ session'.pending.active = FALSE
          BY <1>3, <3>3, <3>4, <3>5, MovedSession
    <3> QED
        BY <1>1, <3>1, <3>2, <3>3, <3>6, UpgradeAside
  <2>3. CASE UpgradeReply(f)
    <3> DEFINE u == AcceptResponse(upgrade, session.pending.type, f)
               s == Complete(session)
    <3>1. /\ u \in Upgrades /\ AtEnd(u)
          /\ u.state \in {"BEGIN", "TRANSFER", "END", "VERIFY", "ACTIVATE",
                          "REBOOT", "COMPLETE", "ERROR"}
          /\ upgrade.state = "VALIDATING" => u.state = "ERROR"
          BY <1>2, <2>1, FramePayload, AnsweredUpgrade
    <3>2. \/ /\ u.state \in {"COMPLETE", "ERROR"}
             /\ EndUpgrade(s, u, IF u.state = "COMPLETE" THEN "OK" ELSE "PROTOCOL")
          \/ /\ u.state \notin {"COMPLETE", "ERROR"}
             /\ QueueUpgradeRequest(s, u)
             /\ UNCHANGED <<upgrade_result, workerVars>>
          \/ /\ u.state \notin {"COMPLETE", "ERROR"}
             /\ session' = FailedUpgradeQueue(s, u) /\ upgrade' = Built(u)
             /\ pc' = "cleanup"
             /\ UNCHANGED <<upgrade_result, workerVars>>
          BY <2>3 DEF UpgradeReply, StopTransport, StopWith
    <3>3. UNCHANGED operation_id /\ UpgradeActive(upgrade)
          BY <2>3 DEF UpgradeReply
    <3> HIDE DEF u, s
    <3>4. CASE u.state \in {"COMPLETE", "ERROR"}
          BY <1>1, <1>3, <3>1, <3>2, <3>4, UpgradeEnded DEF s
    <3>5. CASE u.state \notin {"COMPLETE", "ERROR"}
      <4>1. /\ session.state = "UPGRADING" /\ firmware = operation_id
            /\ firmware # 0 /\ upgrade_result = "OK"
            BY <1>1, <3>1, <3>3, <3>5, UpgradeFacts DEF UpgradeActive
      <4>2. UpgradeActive(u) /\ u.state # "VALIDATING"
            BY <3>1, <3>5 DEF UpgradeActive
      <4>3. UNCHANGED <<upgrade_result, firmware>>
            BY <3>2, <3>5 DEF workerVars
      <4>4. CASE QueueUpgradeRequest(s, u)
            BY <1>1, <1>3, <3>1, <3>3, <4>1, <4>2, <4>3, <4>4, UpgradeQueued DEF s
      <4>5. CASE ~QueueUpgradeRequest(s, u)
        <5>1. /\ session' = FailedUpgradeQueue(s, u) /\ upgrade' = Built(u)
              /\ pc' = "cleanup"
              BY <3>2, <3>5, <4>5
        <5>2. session'.state = "UPGRADING" /\ session'.pending.active = FALSE
              BY <1>3, <3>1, <4>1, <5>1, QueueTypes DEF s
        <5>3. upgrade'.state = u.state /\ AtEnd(upgrade')
              BY <3>1, <5>1, BuiltUpgrade
        <5> QED
            BY <3>3, <3>5, <4>1, <4>2, <4>3, <5>1, <5>2, <5>3, UpgradeInvIntro
               DEF UpgradeActive
      <4> QED
          BY <4>4, <4>5
    <3> QED
        BY <3>4, <3>5
  <2> QED
      BY <2>1, <2>2, <2>3
<1> QED
    BY <1>4, <1>5

LEMMA TickUpgrade ==
  ASSUME DaemonInv, TickEarly \/ TickDue
  PROVE  UpgradeInv'
<1>1. pc = "dispatch" /\ pc' \notin {"start", "down"}
  <2>1. pc = "dispatch"
        BY DEF TickDue, TickEarly, TickRetry, TickRetryBusy, TickRecover,
           TickUpgradeFailed, TickClientTimeout, TickNobody, TickExhausted, TimerEvent
  <2>2. DaemonTypeOK
        BY DEF DaemonInv
  <2> QED
      BY <2>1, <2>2, HandlersHandle DEF Handled
<1>2. session \in Sessions /\ SessionOK(session) /\ upgrade \in Upgrades
      /\ AtEnd(upgrade)
      BY UpgradeFacts
<1>3. /\ SessionOK(Expire(session)) /\ Expire(session) \in Sessions
      /\ Expire(session).state = session.state
      /\ Expire(session).pending.active = FALSE
      BY <1>2, CancelSession DEF Expire, SessionOK
<1>4. CASE TickEarly \/ TickRetryBusy
  <2>1. UNCHANGED <<session, upgrade, upgrade_result, operation_id, firmware, mailbox>>
        BY <1>4 DEF TickEarly, TickRetryBusy, workerVars
  <2>2. JobKept
        BY <2>1 DEF JobKept, InWorker
  <2> QED
      BY <1>1, <2>1, <2>2, UpgradeUntouched
<1>5. CASE TickRetry
  <2>1. UNCHANGED <<upgrade, upgrade_result, operation_id, firmware, mailbox>>
        BY <1>5 DEF TickRetry, workerVars
  <2>2. JobKept
        BY <2>1 DEF JobKept, InWorker
  <2>3. /\ session'.state = session.state
        /\ session'.pending.active = session.pending.active
        /\ session'.pending.type = session.pending.type
        BY <1>2, <1>5, RetriedSession DEF TickRetry
  <2> QED
      BY <1>1, <2>1, <2>2, <2>3, UpgradeUntouched
<1>6. CASE TickRecover
  <2>1. /\ BeginRecovery(upgrade) \in Upgrades
        /\ BeginRecovery(upgrade).state = "RECOVER"
        BY <1>2, <1>6, RecoveringUpgrade DEF TickRecover
  <2>2. /\ UpgradeActive(BeginRecovery(upgrade)) /\ AtEnd(BeginRecovery(upgrade))
        /\ BeginRecovery(upgrade).state # "VALIDATING"
        BY <2>1 DEF UpgradeActive, AtEnd
  <2>3. /\ UNCHANGED <<upgrade_result, operation_id, firmware>>
        /\ QueueUpgradeRequest(Expire(session), BeginRecovery(upgrade))
        /\ UpgradeActive(upgrade) /\ upgrade.state # "VALIDATING"
        BY <1>6 DEF TickRecover, workerVars, CanRecover
  <2>4. /\ session.state = "UPGRADING" /\ firmware = operation_id
        /\ firmware # 0 /\ upgrade_result = "OK"
        BY <1>1, <2>3, UpgradeFacts DEF UpgradeActive
  <2> QED
      BY <1>1, <1>3, <2>1, <2>2, <2>3, <2>4, UpgradeQueued
<1>7. CASE TickUpgradeFailed
  <2> DEFINE u == IF CanRecover(upgrade) THEN BeginRecovery(upgrade) ELSE upgrade
             s == Expire(session)
             t == IF CanRecover(upgrade) THEN FailedUpgradeQueue(s, u) ELSE s
  <2>1. u \in Upgrades
        BY <1>2, RecoveringUpgrade
  <2> HIDE DEF u
  <2>2. SessionOK(t) /\ t.pending.active = FALSE
        BY <1>3, <2>1, QueueTypes
  <2>3. EndUpgrade(t, Fail(u), "TIMEOUT")
        BY <1>7 DEF TickUpgradeFailed, u
  <2> HIDE DEF t
  <2>4. Fail(u).state = "ERROR" /\ AtEnd(Fail(u))
        BY <2>1, FailedUpgrade DEF AtEnd
  <2> QED
      BY <1>1, <2>2, <2>3, <2>4, UpgradeEnded
<1>8. CASE TickClientTimeout \/ TickNobody
  <2>1. UNCHANGED <<upgrade, upgrade_result, operation_id, firmware, mailbox>>
        BY <1>8 DEF TickClientTimeout, TickNobody, workerVars
  <2>2. JobKept
        BY <2>1 DEF JobKept, InWorker
  <2>3. session.state # "UPGRADING"
        BY <1>1, <1>8, UpgradeFacts DEF TickClientTimeout, TickNobody
  <2>4. session' = Expire(session)
        BY <1>8 DEF TickClientTimeout, TickNobody
  <2> QED
      BY <1>1, <1>3, <2>1, <2>2, <2>3, <2>4, UpgradeAside
<1> QED
    BY <1>4, <1>5, <1>6, <1>7, <1>8 DEF TickDue

(* The upgrade's part of the invariant is kept by every step.              *)
LEMMA UpgradeStep == DaemonInv /\ [DaemonNext]_vars => UpgradeInv'
<1> SUFFICES ASSUME DaemonInv, [DaemonNext]_vars
             PROVE  UpgradeInv'
    OBVIOUS
<1>1. session \in Sessions /\ SessionOK(session) /\ WorkerTypeOK /\ WorkerInv
      BY UpgradeFacts DEF DaemonInv, WorkerInv
<1>2. CASE ClientEvent
      BY <1>2, ClientEventUpgrade DEF ClientEvent
<1>3. CASE StartHandshake
  <2> DEFINE s == Transition(Transition(session, "CONNECT"), "TRANSPORT_CONNECTED")
  <2>1. session.state = "DISCONNECTED"
        BY <1>3, UpgradeFacts DEF StartHandshake, InitialSession
  <2>2. /\ Successor("DISCONNECTED", "CONNECT") = "CONNECTING"
        /\ Successor("CONNECTING", "TRANSPORT_CONNECTED") = "HANDSHAKING"
        BY DEF Successor
  <2>3. SessionOK(s) /\ s \in Sessions /\ s.state = "HANDSHAKING"
        BY <1>1, <2>1, <2>2, MovedSession DEF SessionOK
  <2>4. /\ session' = BeginRequest(s, "PING", HandshakeRetries)
        /\ pc = "start" /\ pc' = "wait"
        /\ UNCHANGED <<upgrade, upgrade_result, operation_id, firmware, mailbox>>
        BY <1>3 DEF StartHandshake, workerVars
  <2>5. "PING" \in RequestTypes /\ HandshakeRetries \in Nat
        BY DaemonAssumption DEF RequestTypes
  <2> HIDE DEF s
  <2>6. session'.state = "HANDSHAKING"
        BY <2>3, <2>4, <2>5, BeginSession
  <2>7. JobKept
        BY <2>4 DEF JobKept, InWorker
  <2> QED
      BY <2>1, <2>4, <2>6, <2>7, UpgradeAside
<1>4. CASE SetupFailed \/ EpollWait \/ AcceptClients \/ SignalEvent \/ World
  <2>1. UNCHANGED <<session, upgrade, upgrade_result, operation_id, firmware, mailbox>>
        BY <1>4 DEF SetupFailed, EpollWait, AcceptClients, SignalEvent, World,
           Connect, ClientSends, ClientLeaves, reactorVars, workerVars
  <2>2. JobKept
        BY <2>1 DEF JobKept, InWorker
  <2>3. CASE SetupFailed
    <3>1. pc = "start" /\ pc' = "cleanup"
          BY <2>3 DEF SetupFailed, StopWith
    <3>2. session.state # "UPGRADING" /\ session.pending.active = FALSE
          BY <3>1, UpgradeFacts DEF InitialSession, NoRequest
    <3> QED
        BY <2>1, <2>2, <3>1, <3>2, UpgradeAside
  <2>4. CASE EpollWait \/ AcceptClients \/ SignalEvent \/ World
    <3>1. /\ pc \in {"wait", "dispatch", "transport"}
          /\ pc' \notin {"start", "down"}
          BY <2>4 DEF EpollWait, AcceptClients, SignalEvent, Proceed, World,
             Connect, ClientSends, ClientLeaves, InLoop, reactorVars
    <3> QED
        BY <2>1, <2>2, <3>1, UpgradeUntouched
  <2> QED
      BY <1>4, <2>3, <2>4
<1>5. CASE Cleanup
  <2>1. /\ UNCHANGED <<session, upgrade, upgrade_result, operation_id, firmware>>
        /\ pc = "cleanup" /\ pc' = "join" /\ mailbox' = Stopped
        BY <1>5 DEF Cleanup
  <2>2. JobKept
        BY <1>1, <2>1 DEF JobKept, InWorker, Stopped, WorkerTypeOK
  <2> QED
      BY <2>1, <2>2, UpgradeUntouched
<1>6. CASE CleanupJoin
  <2>1. /\ UNCHANGED <<session, upgrade, upgrade_result, operation_id, firmware, mailbox>>
        /\ pc = "join" /\ pc' = "release"
        BY <1>6 DEF CleanupJoin, JoinWorker
  <2>2. JobKept
        BY <2>1 DEF JobKept, InWorker
  <2> QED
      BY <2>1, <2>2, UpgradeUntouched
<1>7. CASE CleanupRelease
  <2>1. /\ UNCHANGED <<session, upgrade, upgrade_result, operation_id, mailbox>>
        /\ pc' = "down"
        BY <1>7 DEF CleanupRelease
  <2>2. InWorker' = InWorker
        BY <2>1 DEF InWorker
  <2> QED
      BY <2>1, <2>2, UpgradeFacts, UpgradeInvIntro
<1>8. CASE WorkerRuns
  <2>1. /\ UNCHANGED <<session, upgrade, upgrade_result, operation_id, pc>>
        /\ pc # "down" /\ ThreadStep
        BY <1>8 DEF WorkerRuns, daemonVars, reactorVars
  <2>2. UNCHANGED firmware
        BY <2>1 DEF ThreadStep, Sleep, SpuriousWakeup, TakeJob, OpenImage,
           PostResult, NotifyReactor, ExitThread
  <2>3. JobKept
    <3>1. CASE TakeJob
          BY <1>1, <3>1 DEF TakeJob, JobKept, InWorker, WorkerTypeOK
    <3>2. CASE PostResult
          BY <1>1, <3>2 DEF PostResult, JobKept, InWorker, WorkerTypeOK
    <3>3. CASE UNCHANGED mailbox
          BY <3>3 DEF JobKept, InWorker
    <3> QED
        BY <2>1, <3>1, <3>2, <3>3 DEF ThreadStep, Sleep, SpuriousWakeup, OpenImage,
           NotifyReactor, ExitThread
  <2>4. CASE pc # "start"
        BY <2>1, <2>2, <2>3, <2>4, UpgradeUntouched
  <2>5. CASE pc = "start"
    <3>1. UpgradeInv
          BY DEF DaemonInv, UpgradeInv
    <3>2. SessionPhases' /\ SentToTheEnd' /\ ImageOfOperation'
          BY <2>1, <2>2, <3>1 DEF UpgradeInv, SessionPhases, SentToTheEnd,
             ImageOfOperation
    <3>3. OutcomeIsConsistent'
          BY <2>1, <3>1 DEF UpgradeInv, OutcomeIsConsistent, StatusReport
    <3>4. ValidatedInWorker'
          BY <2>1, <2>3, <3>1 DEF UpgradeInv, ValidatedInWorker, JobKept
    <3>5. UpgradeIsWaitedFor'
          BY <2>1, <2>5 DEF UpgradeIsWaitedFor, InLoop
    <3> QED
        BY <3>2, <3>3, <3>4, <3>5 DEF UpgradeInv
  <2> QED
      BY <2>4, <2>5
<1>9. CASE UNCHANGED vars
  <2>1. UpgradeInv
        BY DEF DaemonInv, UpgradeInv
  <2> QED
      BY <1>9, <2>1 DEF UpgradeInv, SessionPhases, UpgradeIsWaitedFor,
         InLoop, OutcomeIsConsistent, StatusReport, ValidatedInWorker, InWorker,
         CanSubmit, SentToTheEnd, ImageOfOperation, vars, daemonVars, reactorVars,
         workerVars
<1> QED
    BY <1>2, <1>3, <1>4, <1>5, <1>6, <1>7, <1>8, <1>9, WorkerEventUpgrade,
       TransportUpgrade, TickUpgrade
       DEF DaemonNext, Reactor, Ended

(***************************************************************************)
(* A daemon whose clients stay until they are answered                     *)
(***************************************************************************)
SlotServed(c, flags) ==
  /\ c.hup = FALSE /\ "HUP" \notin flags
  /\ "IN" \in flags => c.inbox # NoInput
  /\ "OUT" \in flags => c.output # NoOutput

RequestHasClient ==
  pc \notin {"join", "release", "down"} /\ session.pending.active
    /\ session.state \in {"READY", "STREAMING"} => active_client # 0

OnlyHandshakeTimesOut ==
  /\ pc \in {"start", "wait", "dispatch", "transport"} => result = "OK"
  /\ result = "TIMEOUT" => session.state = "HANDSHAKING"

LEMMA StayingFacts ==
  ASSUME DaemonInv, "LEAVE" \notin Faults
  PROVE  /\ \A i \in Slots : SlotServed(clients[i], batch.clients[i])
         /\ RequestHasClient /\ pc # "killed" /\ OnlyHandshakeTimesOut
<1>1. \A i \in Slots : clients[i].hup \in BOOLEAN
      BY DEF DaemonInv, DaemonTypeOK, ClientSlots
<1> QED
    BY <1>1 DEF DaemonInv, StayingClientsAreServed, SlotServed, RequestHasClient,
       OnlyHandshakeTimesOut

LEMMA StayingIntro ==
  ASSUME \A i \in Slots : SlotServed(clients'[i], batch'.clients[i]),
         RequestHasClient', pc' # "killed", OnlyHandshakeTimesOut'
  PROVE  StayingClientsAreServed'
  BY DEF StayingClientsAreServed, SlotServed, RequestHasClient, OnlyHandshakeTimesOut

(* The events of the snapshot after a handler: those of a client that was  *)
(* not touched are still true, those of the one that was are gone.         *)
LEMMA ServedByHandler ==
  ASSUME DaemonInv, "LEAVE" \notin Faults, Handled,
         \A i \in Slots :
           \/ clients'[i] = clients[i]
           \/ clients'[i].hup = FALSE /\ batch'.clients[i] = {}
           \/ /\ clients'[i].hup = FALSE /\ clients'[i].inbox = clients[i].inbox
              /\ clients'[i].output # NoOutput
           \/ clients'[i].hup = FALSE /\ clients[i] = FreeSlot
  PROVE  \A i \in Slots : SlotServed(clients'[i], batch'.clients[i])
<1> SUFFICES ASSUME NEW i \in Slots
             PROVE  SlotServed(clients'[i], batch'.clients[i])
    OBVIOUS
<1>1. SlotServed(clients[i], batch.clients[i])
      BY StayingFacts
<1>2. batch'.clients[i] \subseteq batch.clients[i]
      BY DEF Handled
<1>3. CASE clients[i] = FreeSlot /\ clients'[i].hup = FALSE
  <2>1. "IN" \notin batch.clients[i] /\ "OUT" \notin batch.clients[i]
        BY <1>1, <1>3, FreeSlotFields DEF SlotServed
  <2> QED
      BY <1>1, <1>2, <1>3, <2>1 DEF SlotServed
<1> QED
    BY <1>1, <1>2, <1>3 DEF SlotServed

(* The touched slot of an answer or a forwarded request. *)
LEMMA TouchedSlot ==
  ASSUME DaemonInv, "LEAVE" \notin Faults, NEW i \in Slots,
         \/ AnswerMalformed(i) \/ AnswerGetTelemetry(i) \/ AnswerUpgradeStatus(i)
         \/ RefuseUpgrade(i) \/ AcceptUpgrade(i)
         \/ RefuseCommand(i) \/ ForwardCommand(i)
         \/ DropClient(i) \/ WriteAnswer(i)
  PROVE  /\ \A j \in Slots \ {i} : clients'[j] = clients[j]
         /\ clients'[i].hup = FALSE /\ batch'.clients[i] = {}
<1>1. DaemonTypeOK /\ clients[i] \in ClientSlots /\ clients[i].hup = FALSE
      /\ batch \in Batches
      BY StayingFacts DEF DaemonInv, DaemonTypeOK, SlotServed
<1>2. batch' = WithoutClient(i)
      BY DEF AnswerMalformed, AnswerGetTelemetry, AnswerUpgradeStatus,
         RefuseUpgrade, AcceptUpgrade, RefuseCommand, ForwardCommand,
         DropClient, WriteAnswer, Reading, Proceed
<1>3. batch'.clients[i] = {}
      BY <1>1, <1>2 DEF WithoutClient, Batches
<1>4. \/ UNCHANGED clients
      \/ CloseClient(i)
      \/ \E command, status : AnswerRequest(i, command, status)
      \/ clients' = [clients EXCEPT ![i].inbox = NoInput,
                                    ![i].command = clients[i].inbox.command]
      BY DEF AnswerMalformed, AnswerGetTelemetry, AnswerUpgradeStatus,
         RefuseUpgrade, AcceptUpgrade, RefuseCommand, ForwardCommand,
         DropClient, WriteAnswer
<1>5. CASE UNCHANGED clients
      BY <1>1, <1>3, <1>5
<1>6. CASE CloseClient(i)
      BY <1>1, <1>3, <1>6, FreeSlotFields DEF CloseClient, DaemonTypeOK
<1>7. ASSUME NEW command, NEW status, AnswerRequest(i, command, status), ~CloseClient(i)
      PROVE  /\ \A j \in Slots \ {i} : clients'[j] = clients[j]
             /\ clients'[i].hup = FALSE
  <2>1. \A j \in Slots \ {i} : clients'[j] = clients[j]
        BY <1>1, <1>7 DEF AnswerRequest, DaemonTypeOK
  <2>2. clients'[i] = [clients[i] EXCEPT
                        !.inbox = NoInput, !.command = clients[i].inbox.command,
                        !.output = [command |-> command, status |-> status]]
        BY <1>1, <1>7 DEF AnswerRequest, DaemonTypeOK
  <2> QED
      BY <1>1, <2>1, <2>2 DEF ClientSlots
<1>8. CASE clients' = [clients EXCEPT ![i].inbox = NoInput,
                                      ![i].command = clients[i].inbox.command]
  <2>1. \A j \in Slots \ {i} : clients'[j] = clients[j]
        BY <1>1, <1>8 DEF DaemonTypeOK
  <2>2. clients'[i] = [clients[i] EXCEPT !.inbox = NoInput,
                                         !.command = clients[i].inbox.command]
        BY <1>1, <1>8 DEF DaemonTypeOK
  <2> QED
      BY <1>1, <1>3, <2>1, <2>2 DEF ClientSlots
<1> QED
    BY <1>3, <1>4, <1>5, <1>6, <1>7, <1>8

(* An upgrade and the request of a client exclude each other. *)
LEMMA NoServiceDuringUpgrade ==
  ASSUME DaemonInv, "LEAVE" \notin Faults, pc \in {"dispatch", "transport"},
         session.pending.active, UpgradeActive(upgrade)
  PROVE  session.state \notin {"READY", "STREAMING"}
<1>1. active_client = 0
      BY NobodyDuringUpgrade
<1>2. RequestHasClient
      BY StayingFacts
<1> QED
    BY <1>1, <1>2 DEF RequestHasClient

(* What ends the loop: only the handshake by running out of retries. *)
LEMMA WhyItStops ==
  ASSUME DaemonTypeOK,
         \/ SetupFailed \/ AcceptClients \/ ClientEvent \/ WorkerEvent
         \/ TransportEvent \/ TickEarly \/ TickDue \/ SignalEvent
  PROVE  \/ result' = result
         \/ result' \in {"DISCONNECTED", "PROTOCOL", "BUSY", "NOT_FOUND", "IO"}
         \/ TickNobody
<1>1. ASSUME SetupFailed \/ AcceptClients \/ SignalEvent
      PROVE  result' = result \/ result' = "IO"
      BY <1>1 DEF SetupFailed, AcceptClients, SignalEvent, Proceed, StopWith
<1>2. ASSUME ClientEvent PROVE result' = result
  <2>1. PICK i \in Slots :
          \/ AnswerMalformed(i) \/ AnswerGetTelemetry(i) \/ AnswerUpgradeStatus(i)
          \/ RefuseUpgrade(i) \/ AcceptUpgrade(i)
          \/ RefuseCommand(i) \/ ForwardCommand(i)
          \/ DropClient(i) \/ WriteAnswer(i) \/ WriteToClosedPeer(i)
        BY <1>2 DEF ClientEvent
  <2>2. CASE WriteToClosedPeer(i)
        BY <2>2 DEF WriteToClosedPeer
  <2>3. CASE ~WriteToClosedPeer(i)
    <3>1. Proceed(WithoutClient(i), running)
          BY <2>1, <2>3 DEF AnswerMalformed, AnswerGetTelemetry,
             AnswerUpgradeStatus, RefuseUpgrade, AcceptUpgrade, RefuseCommand,
             ForwardCommand, DropClient, WriteAnswer, Reading
    <3> QED
        BY <3>1 DEF Proceed
  <2> QED
      BY <2>2, <2>3
<1>3. ASSUME WorkerEvent PROVE result' = result \/ result' = "NOT_FOUND"
  <2>1. TakingResult
        BY <1>3 DEF WorkerEvent, DiscardResult, ValidationFailed, StartTransfer,
           TransferRefused
  <2> QED
      BY <2>1 DEF TakingResult, Proceed, StopWith
<1>4. ASSUME TransportEvent
      PROVE  result' = result \/ result' \in {"DISCONNECTED", "PROTOCOL", "BUSY"}
  <2>1. CASE ~OnDeviceFrame
        BY <1>4, <2>1 DEF TransportEvent, FlushTransport, TransportFailed,
           ReadTransport, KeepTelemetry, IgnoreFrame, TransportDrained, StopWith,
           Proceed, vars, daemonVars, reactorVars
  <2>2. CASE OnDeviceFrame
    <3>1. PICK f : HandshakeReply(f) \/ UpgradeReply(f) \/ ClientReply(f) \/ OrphanReply(f)
          BY <2>2 DEF OnDeviceFrame
    <3>2. \/ UNCHANGED <<running, result, pc, batch>>
          \/ StopTransport("PROTOCOL") \/ StopTransport("BUSY")
          BY <3>1 DEF HandshakeReply, UpgradeReply, ClientReply, OrphanReply
    <3> QED
        BY <3>2 DEF StopTransport, StopWith
  <2> QED
      BY <2>1, <2>2
<1>5. ASSUME TickEarly \/ TickDue, ~TickNobody
      PROVE  result' = result \/ result' = "BUSY"
      BY <1>5 DEF TickDue, TickEarly, TickRetry, TickRetryBusy, TickRecover,
         TickUpgradeFailed, TickClientTimeout, Proceed, StopWith
<1> QED
    BY <1>1, <1>2, <1>3, <1>4, <1>5 DEF TickDue

(* A request outside of the handshake and the upgrades keeps its client.   *)
LEMMA TransportRequests ==
  ASSUME DaemonInv, "LEAVE" \notin Faults, TransportEvent
  PROVE  session'.pending.active /\ session'.state \in {"READY", "STREAMING"} =>
           active_client' # 0
<1>1. /\ RequestHasClient /\ session \in Sessions /\ upgrade \in Upgrades
      /\ AtEnd(upgrade)
      BY StayingFacts, UpgradeFacts
<1>2. pc \in {"dispatch", "transport"}
      BY DEF TransportEvent, FlushTransport, TransportFailed, ReadTransport,
         KeepTelemetry, IgnoreFrame, OnDeviceFrame, TransportDrained,
         HandshakeReply, UpgradeReply, ClientReply, OrphanReply, ReadingFrame
<1>3. /\ SessionOK(Complete(session)) /\ Complete(session) \in Sessions
      /\ Complete(session).state = session.state
      /\ Complete(session).pending.active = FALSE
      BY <1>1, CancelSession DEF Complete, SessionOK
<1>4. CASE ~OnDeviceFrame
  <2>1. UNCHANGED <<session, active_client>>
        BY <1>4 DEF TransportEvent, FlushTransport, TransportFailed, ReadTransport,
           KeepTelemetry, IgnoreFrame, TransportDrained, vars, daemonVars,
           reactorVars
  <2> QED
      BY <1>1, <1>2, <2>1 DEF RequestHasClient
<1>5. CASE OnDeviceFrame
  <2>1. PICK f \in DeviceFrames :
          /\ Matches(session, f)
          /\ HandshakeReply(f) \/ UpgradeReply(f) \/ ClientReply(f) \/ OrphanReply(f)
        BY <1>5 DEF OnDeviceFrame
  <2>2. CASE HandshakeReply(f) \/ ClientReply(f) \/ OrphanReply(f)
    <3>1. \/ session' = Complete(session)
          \/ \E event \in {"HANDSHAKE_OK", "START_STREAM", "STOP_STREAM", "NONE"} :
               session' = Transition(Complete(session), event)
          BY <2>2 DEF HandshakeReply, ClientReply, OrphanReply
    <3>2. session'.pending.active = FALSE
          BY <1>3, <3>1, MovedSession
    <3> QED
        BY <3>2
  <2>3. CASE UpgradeReply(f)
    <3> DEFINE u == AcceptResponse(upgrade, session.pending.type, f)
               s == Complete(session)
    <3>1. u \in Upgrades
          BY <1>1, <2>1, FramePayload, AnsweredUpgrade
    <3>2. \/ EndUpgrade(s, u, IF u.state = "COMPLETE" THEN "OK" ELSE "PROTOCOL")
          \/ QueueUpgradeRequest(s, u)
          \/ session' = FailedUpgradeQueue(s, u)
          BY <2>3 DEF UpgradeReply
    <3>3. UpgradeActive(upgrade)
          BY <2>3 DEF UpgradeReply
    <3> HIDE DEF u, s
    <3>4. CASE EndUpgrade(s, u, IF u.state = "COMPLETE" THEN "OK" ELSE "PROTOCOL")
          BY <1>3, <3>4, DoneSession DEF s, EndUpgrade
    <3>5. CASE QueueUpgradeRequest(s, u)
      <4>1. session.state \notin {"READY", "STREAMING"}
            BY <1>2, <2>1, <3>3, NoServiceDuringUpgrade DEF Matches
      <4>2. session'.state = session.state
            BY <1>3, <3>1, <3>5, QueueTypes DEF s
      <4> QED
          BY <4>1, <4>2
    <3>6. CASE session' = FailedUpgradeQueue(s, u)
          BY <1>3, <3>1, <3>6, QueueTypes DEF s
    <3> QED
        BY <3>2, <3>4, <3>5, <3>6
  <2> QED
      BY <2>1, <2>2, <2>3
<1> QED
    BY <1>4, <1>5

LEMMA TickRequests ==
  ASSUME DaemonInv, "LEAVE" \notin Faults, TickEarly \/ TickDue
  PROVE  session'.pending.active /\ session'.state \in {"READY", "STREAMING"} =>
           active_client' # 0
<1>1. /\ RequestHasClient /\ session \in Sessions /\ upgrade \in Upgrades
      /\ SessionOK(session)
      BY StayingFacts, UpgradeFacts
<1>2. pc = "dispatch"
      BY DEF TickDue, TickEarly, TickRetry, TickRetryBusy, TickRecover,
         TickUpgradeFailed, TickClientTimeout, TickNobody, TickExhausted, TimerEvent
<1>3. /\ SessionOK(Expire(session)) /\ Expire(session) \in Sessions
      /\ Expire(session).state = session.state
      /\ Expire(session).pending.active = FALSE
      BY <1>1, CancelSession DEF Expire, SessionOK
<1>4. CASE TickEarly \/ TickRetryBusy
      BY <1>1, <1>2, <1>4 DEF TickEarly, TickRetryBusy, RequestHasClient
<1>5. CASE TickRetry
  <2>1. /\ session'.state = session.state
        /\ session'.pending.active = session.pending.active
        BY <1>1, <1>5, RetriedSession DEF TickRetry
  <2>2. UNCHANGED active_client
        BY <1>5 DEF TickRetry
  <2> QED
      BY <1>1, <1>2, <2>1, <2>2 DEF RequestHasClient
<1>6. CASE TickRecover
  <2>1. BeginRecovery(upgrade) \in Upgrades
        BY <1>1, <1>6, RecoveringUpgrade DEF TickRecover
  <2>2. /\ QueueUpgradeRequest(Expire(session), BeginRecovery(upgrade))
        /\ session.pending.active /\ UpgradeActive(upgrade)
        BY <1>6 DEF TickRecover, TickExhausted, DeadlinePassed
  <2>3. session.state \notin {"READY", "STREAMING"}
        BY <1>2, <2>2, NoServiceDuringUpgrade
  <2>4. session'.state = session.state
        BY <1>3, <2>1, <2>2, QueueTypes
  <2> QED
      BY <2>3, <2>4
<1>7. CASE TickUpgradeFailed
  <2> DEFINE u == IF CanRecover(upgrade) THEN BeginRecovery(upgrade) ELSE upgrade
             s == Expire(session)
             t == IF CanRecover(upgrade) THEN FailedUpgradeQueue(s, u) ELSE s
  <2>1. u \in Upgrades
        BY <1>1, RecoveringUpgrade
  <2> HIDE DEF u
  <2>2. SessionOK(t) /\ t.pending.active = FALSE
        BY <1>3, <2>1, QueueTypes
  <2>3. session' = Transition(t, "UPGRADE_DONE")
        BY <1>7 DEF TickUpgradeFailed, u, EndUpgrade
  <2> HIDE DEF t
  <2> QED
      BY <2>2, <2>3, DoneSession
<1>8. CASE TickClientTimeout \/ TickNobody
      BY <1>3, <1>8 DEF TickClientTimeout, TickNobody
<1> QED
    BY <1>4, <1>5, <1>6, <1>7, <1>8 DEF TickDue

LEMMA WorkerEventRequests ==
  ASSUME DaemonInv, "LEAVE" \notin Faults, WorkerEvent
  PROVE  session'.pending.active /\ session'.state \in {"READY", "STREAMING"} =>
           active_client' # 0
<1>1. /\ RequestHasClient /\ session \in Sessions /\ upgrade \in Upgrades
      /\ SessionOK(session)
      BY StayingFacts, UpgradeFacts
<1>2. TakingResult
      BY DEF WorkerEvent, DiscardResult, ValidationFailed, StartTransfer, TransferRefused
<1>3. pc = "dispatch" /\ UNCHANGED active_client
      BY <1>2 DEF TakingResult
<1>4. CASE DiscardResult \/ ValidationFailed
      BY <1>1, <1>3, <1>4 DEF DiscardResult, ValidationFailed, RequestHasClient
<1> DEFINE s == Transition(session, "START_UPGRADE")
<1>5. /\ SessionOK(s) /\ s \in Sessions /\ s.pending = session.pending
      /\ s.state = Successor(session.state, "START_UPGRADE")
      BY <1>1, MovedSession DEF SessionOK
<1>6. CASE StartTransfer
  <2>1. PICK image \in Images :
          QueueUpgradeRequest(s, StartUpgrade(upgrade, image, "V"))
        BY <1>6 DEF StartTransfer
  <2>2. StartUpgrade(upgrade, image, "V") \in Upgrades
        BY <1>1, StartedUpgrade
  <2>3. s.state = "UPGRADING"
        BY <1>5, <1>6 DEF StartTransfer, Accepts, Successor
  <2> HIDE DEF s
  <2>4. session'.state = "UPGRADING"
        BY <1>5, <2>1, <2>2, <2>3, QueueTypes
  <2> QED
      BY <2>4
<1>7. CASE TransferRefused
  <2>1. PICK image \in Images :
          session' = Transition(IF Accepts(session, "START_UPGRADE")
                                THEN FailedUpgradeQueue(s, StartUpgrade(upgrade, image, "V"))
                                ELSE s, "UPGRADE_DONE")
        BY <1>7 DEF TransferRefused
  <2> HIDE DEF s
  <2>2. CASE Accepts(session, "START_UPGRADE")
    <3>1. StartUpgrade(upgrade, image, "V") \in Upgrades
          BY <1>1, StartedUpgrade
    <3> DEFINE t == FailedUpgradeQueue(s, StartUpgrade(upgrade, image, "V"))
    <3>2. SessionOK(t) /\ t.pending.active = FALSE
          BY <1>5, <3>1, QueueTypes
    <3>3. session' = Transition(t, "UPGRADE_DONE")
          BY <2>1, <2>2
    <3> HIDE DEF t
    <3> QED
        BY <3>2, <3>3, DoneSession
  <2>3. CASE ~Accepts(session, "START_UPGRADE")
    <3>1. s.state = session.state
          BY <1>5, <2>3 DEF Accepts
    <3>2. /\ session'.pending = session.pending
          /\ session'.state = Successor(session.state, "UPGRADE_DONE")
          BY <1>5, <2>1, <2>3, <3>1, MovedSession
    <3>3. session.state # "UPGRADING"
          BY <1>3, <1>7, UpgradeFacts DEF TransferRefused, ResultExpected
    <3>4. session'.state = session.state
          BY <3>2, <3>3 DEF Successor
    <3> QED
        BY <1>1, <1>3, <3>2, <3>4 DEF RequestHasClient
  <2> QED
      BY <2>2, <2>3
<1> QED
    BY <1>4, <1>6, <1>7 DEF WorkerEvent

LEMMA ClientEventRequests ==
  ASSUME DaemonInv, "LEAVE" \notin Faults, NEW i \in Slots,
         \/ AnswerMalformed(i) \/ AnswerGetTelemetry(i) \/ AnswerUpgradeStatus(i)
         \/ RefuseUpgrade(i) \/ AcceptUpgrade(i)
         \/ RefuseCommand(i) \/ ForwardCommand(i)
         \/ DropClient(i) \/ WriteAnswer(i)
  PROVE  session'.pending.active /\ session'.state \in {"READY", "STREAMING"} =>
           active_client' # 0
<1>1. /\ RequestHasClient /\ session \in Sessions
      /\ SlotServed(clients[i], batch.clients[i])
      BY StayingFacts, UpgradeFacts
<1>2. pc = "dispatch"
      BY DEF AnswerMalformed, AnswerGetTelemetry, AnswerUpgradeStatus,
         RefuseUpgrade, AcceptUpgrade, RefuseCommand, ForwardCommand,
         DropClient, WriteAnswer, Reading
<1>3. "HUP" \notin batch.clients[i]
      BY <1>1 DEF SlotServed
<1>4. \A command, status : AnswerRequest(i, command, status) => UNCHANGED active_client
      BY <1>3 DEF AnswerRequest
<1>5. CASE \/ AnswerMalformed(i) \/ AnswerGetTelemetry(i) \/ AnswerUpgradeStatus(i)
           \/ RefuseUpgrade(i) \/ AcceptUpgrade(i)
  <2>1. UNCHANGED <<session, active_client>>
        BY <1>4, <1>5 DEF AnswerMalformed, AnswerGetTelemetry, AnswerUpgradeStatus,
           RefuseUpgrade, AcceptUpgrade
  <2> QED
      BY <1>1, <1>2, <2>1 DEF RequestHasClient
<1>6. CASE RefuseCommand(i)
  <2> DEFINE command == clients[i].inbox.command
             s == BeginRequest(session, command, ClientRetries)
  <2>1. /\ UNCHANGED active_client /\ command \in DeviceCommands
        /\ UNCHANGED session \/ session' = Cancel(s)
        BY <1>4, <1>6 DEF RefuseCommand, Reading
  <2>2. ClientRetries \in Nat /\ command \in RequestTypes
        BY <2>1, DaemonAssumption DEF RequestTypes
  <2> HIDE DEF command
  <2>3. s \in Sessions
        BY <1>1, <2>2, BeginSession DEF SessionOK
  <2> HIDE DEF s
  <2>4. Cancel(s).pending.active = FALSE
        BY <2>3, CancelSession
  <2> QED
      BY <1>1, <1>2, <2>1, <2>4 DEF RequestHasClient
<1>7. CASE ForwardCommand(i)
  <2>1. active_client' = i
        BY <1>3, <1>7 DEF ForwardCommand
  <2> QED
      BY <2>1 DEF Slots
<1>8. CASE DropClient(i)
      BY <1>1, <1>8 DEF DropClient, SlotServed
<1>9. CASE WriteAnswer(i)
  <2>1. clients[i].output # NoOutput
        BY <1>1, <1>9 DEF WriteAnswer, SlotServed
  <2>2. active_client # i
        BY <2>1 DEF DaemonInv, UnansweredIsActive
  <2>3. UNCHANGED <<session, active_client>>
        BY <1>9, <2>2 DEF WriteAnswer, CloseClient
  <2> QED
      BY <1>1, <1>2, <2>3 DEF RequestHasClient
<1> QED
    BY <1>5, <1>6, <1>7, <1>8, <1>9

(* The client that is answered keeps what the snapshot said of it. *)
LEMMA AnsweredSlot ==
  ASSUME DaemonInv, "LEAVE" \notin Faults, active_client # 0, NEW command, NEW status,
         status \in Statuses, clients' = Answer(active_client, command, status)
  PROVE  \A i \in Slots :
           \/ clients'[i] = clients[i]
           \/ /\ clients'[i].hup = FALSE /\ clients'[i].inbox = clients[i].inbox
              /\ clients'[i].output # NoOutput
<1>1. DaemonTypeOK /\ active_client \in Slots
      BY DEF DaemonInv, DaemonTypeOK
<1> DEFINE output == [command |-> command, status |-> status]
<1>2. \A j \in Slots \ {active_client} : clients'[j] = clients[j]
      BY <1>1 DEF Answer, DaemonTypeOK
<1>3. clients'[active_client] = [clients[active_client] EXCEPT !.output = output]
      BY <1>1 DEF Answer, DaemonTypeOK
<1>4. clients[active_client] \in ClientSlots /\ clients[active_client].hup = FALSE
      BY <1>1, StayingFacts DEF DaemonTypeOK, SlotServed
<1>5. output # NoOutput
  <2>1. "NONE" \notin Statuses
        BY DEF Statuses
  <2>2. output.status = status /\ NoOutput.status = "NONE"
        BY DEF NoOutput
  <2> QED
      BY <2>1, <2>2
<1> QED
    BY <1>1, <1>2, <1>3, <1>4, <1>5 DEF ClientSlots

LEMMA HandlersServe ==
  ASSUME DaemonInv, "LEAVE" \notin Faults,
         \/ SetupFailed \/ AcceptClients \/ ClientEvent \/ WorkerEvent
         \/ TransportEvent \/ TickEarly \/ TickDue \/ SignalEvent
  PROVE  /\ \A i \in Slots : SlotServed(clients'[i], batch'.clients[i])
         /\ session'.pending.active /\ session'.state \in {"READY", "STREAMING"} =>
              active_client' # 0
         /\ pc' # "killed"
<1>1. DaemonTypeOK /\ Handled
      BY HandlersHandle DEF DaemonInv
<1>2. RequestHasClient
      BY StayingFacts
<1>3. "PROTOCOL" \in Statuses /\ "OK" \in Statuses /\ "TIMEOUT" \in Statuses
      BY DEF Statuses
<1>4. CASE SetupFailed \/ SignalEvent
  <2>1. UNCHANGED <<clients, session, active_client>> /\ pc' # "killed"
        BY <1>4 DEF SetupFailed, SignalEvent, StopWith, Proceed
  <2> QED
      BY <1>1, <1>2, <2>1, ServedByHandler DEF Handled, RequestHasClient
<1>5. CASE AcceptClients
  <2>1. UNCHANGED <<session, active_client>> /\ pc' # "killed"
        BY <1>5 DEF AcceptClients, Proceed
  <2>2. \A i \in Slots : \/ clients'[i] = clients[i]
                         \/ clients'[i] = [FreeSlot EXCEPT !.open = TRUE] /\ ~clients[i].open
        BY <1>5 DEF AcceptClients, FreeSlots
  <2>3. \A i \in Slots : ~clients[i].open => clients[i] = FreeSlot
        BY DEF DaemonInv, SlotsAreClean
  <2>4. [FreeSlot EXCEPT !.open = TRUE].hup = FALSE
        BY DEF FreeSlot
  <2> QED
      BY <1>1, <1>2, <2>1, <2>2, <2>3, <2>4, ServedByHandler DEF Handled, RequestHasClient
<1>6. CASE ClientEvent
  <2>1. PICK i \in Slots :
          \/ AnswerMalformed(i) \/ AnswerGetTelemetry(i) \/ AnswerUpgradeStatus(i)
          \/ RefuseUpgrade(i) \/ AcceptUpgrade(i)
          \/ RefuseCommand(i) \/ ForwardCommand(i)
          \/ DropClient(i) \/ WriteAnswer(i) \/ WriteToClosedPeer(i)
        BY <1>6 DEF ClientEvent
  <2>2. ~WriteToClosedPeer(i)
        BY StayingFacts DEF WriteToClosedPeer, SlotServed
  <2>3. Proceed(WithoutClient(i), running)
        BY <2>1, <2>2 DEF AnswerMalformed, AnswerGetTelemetry,
           AnswerUpgradeStatus, RefuseUpgrade, AcceptUpgrade, RefuseCommand,
           ForwardCommand, DropClient, WriteAnswer, Reading
  <2>4. pc' # "killed"
        BY <2>3 DEF Proceed
  <2>5. /\ \A j \in Slots \ {i} : clients'[j] = clients[j]
        /\ clients'[i].hup = FALSE /\ batch'.clients[i] = {}
        BY <2>1, <2>2, TouchedSlot
  <2>6. \A j \in Slots : SlotServed(clients'[j], batch'.clients[j])
        BY <1>1, <2>5, ServedByHandler
  <2>7. session'.pending.active /\ session'.state \in {"READY", "STREAMING"} =>
          active_client' # 0
        BY <2>1, <2>2, ClientEventRequests
  <2> QED
      BY <2>4, <2>6, <2>7
<1>7. CASE WorkerEvent
  <2>1. TakingResult
        BY <1>7 DEF WorkerEvent, DiscardResult, ValidationFailed, StartTransfer,
           TransferRefused
  <2>2. UNCHANGED clients /\ pc' # "killed"
        BY <2>1 DEF TakingResult, Proceed, StopWith
  <2> QED
      BY <1>1, <1>7, <2>2, ServedByHandler, WorkerEventRequests
<1>8. CASE TransportEvent
  <2>1. \/ UNCHANGED clients
        \/ /\ active_client # 0
           /\ \E command : \/ clients' = Answer(active_client, command, "PROTOCOL")
                           \/ clients' = Answer(active_client, command, "OK")
    <3>1. CASE ~OnDeviceFrame
          BY <1>8, <3>1 DEF TransportEvent, FlushTransport, TransportFailed, ReadTransport,
             KeepTelemetry, IgnoreFrame, TransportDrained, vars, daemonVars,
             reactorVars
    <3>2. CASE OnDeviceFrame
      <4>1. PICK f : HandshakeReply(f) \/ UpgradeReply(f) \/ ClientReply(f) \/ OrphanReply(f)
            BY <3>2 DEF OnDeviceFrame
      <4> QED
          BY <4>1 DEF HandshakeReply, UpgradeReply, ClientReply, OrphanReply
    <3> QED
        BY <3>1, <3>2
  <2>2. \A i \in Slots : SlotServed(clients'[i], batch'.clients[i])
        BY <1>1, <1>3, <2>1, ServedByHandler, AnsweredSlot
  <2>3. pc' # "killed"
    <3>1. CASE ~OnDeviceFrame
          BY <1>8, <3>1 DEF TransportEvent, FlushTransport, TransportFailed, ReadTransport,
             KeepTelemetry, IgnoreFrame, TransportDrained, ReadingFrame, StopWith, Proceed,
             vars, daemonVars, reactorVars
    <3>2. CASE OnDeviceFrame
      <4>1. PICK f : HandshakeReply(f) \/ UpgradeReply(f) \/ ClientReply(f) \/ OrphanReply(f)
            BY <3>2 DEF OnDeviceFrame
      <4>2. /\ pc = "transport"
            /\ \/ UNCHANGED <<running, result, pc, batch>>
               \/ StopTransport("PROTOCOL") \/ StopTransport("BUSY")
            BY <4>1 DEF HandshakeReply, UpgradeReply, ClientReply, OrphanReply, ReadingFrame
      <4> QED
          BY <4>2 DEF StopTransport, StopWith
    <3> QED
        BY <3>1, <3>2
  <2> QED
      BY <1>8, <2>2, <2>3, TransportRequests
<1>9. CASE TickEarly \/ TickDue
  <2>1. \/ UNCHANGED clients
        \/ active_client # 0 /\ clients' = Answer(active_client, "NONE", "TIMEOUT")
        BY <1>9 DEF TickDue, TickEarly, TickRetry, TickRetryBusy, TickRecover,
           TickUpgradeFailed, TickClientTimeout, TickNobody
  <2>2. Proceed(WithoutTimer, running) \/ StopWith("BUSY") \/ StopWith("TIMEOUT")
        BY <1>9 DEF TickDue, TickEarly, TickRetry, TickRetryBusy, TickRecover,
           TickUpgradeFailed, TickClientTimeout, TickNobody
  <2>3. pc' # "killed"
        BY <2>2 DEF Proceed, StopWith
  <2>4. \A i \in Slots : SlotServed(clients'[i], batch'.clients[i])
        BY <1>1, <1>3, <2>1, ServedByHandler, AnsweredSlot
  <2> QED
      BY <1>9, <2>3, <2>4, TickRequests
<1> QED
    BY <1>4, <1>5, <1>6, <1>7, <1>8, <1>9

(* While no client leaves, none can end the daemon.                        *)
LEMMA StayingStep == DaemonInv /\ [DaemonNext]_vars => StayingClientsAreServed'
<1> SUFFICES ASSUME DaemonInv, [DaemonNext]_vars, "LEAVE" \notin Faults
             PROVE  StayingClientsAreServed'
    BY DEF StayingClientsAreServed
<1>1. /\ \A i \in Slots : SlotServed(clients[i], batch.clients[i])
      /\ RequestHasClient /\ pc # "killed" /\ OnlyHandshakeTimesOut /\ DaemonTypeOK
      BY StayingFacts DEF DaemonInv
<1>2. CASE \/ SetupFailed \/ AcceptClients \/ ClientEvent \/ WorkerEvent
           \/ TransportEvent \/ TickEarly \/ TickDue \/ SignalEvent
  <2>1. Handled
        BY <1>1, <1>2, HandlersHandle
  <2>2. /\ \A i \in Slots : SlotServed(clients'[i], batch'.clients[i])
        /\ session'.pending.active /\ session'.state \in {"READY", "STREAMING"} =>
              active_client' # 0
        /\ pc' # "killed"
        BY <1>2, HandlersServe
  <2>3. result = "OK"
        BY <1>1, <2>1 DEF Handled, OnlyHandshakeTimesOut
  <2>4. CASE ~TickNobody
    <3>1. result' # "TIMEOUT"
          BY <1>1, <1>2, <2>3, <2>4, WhyItStops
    <3>2. OnlyHandshakeTimesOut'
          BY <2>1, <2>3, <3>1 DEF OnlyHandshakeTimesOut, Handled
    <3> QED
        BY <2>2, <3>2, StayingIntro DEF RequestHasClient
  <2>5. CASE TickNobody
    <3>1. /\ pc = "dispatch" /\ pc' = "cleanup" /\ session' = Expire(session)
          /\ session.pending.active /\ ~UpgradeActive(upgrade) /\ active_client = 0
          BY <2>5 DEF TickNobody, TickExhausted, TimerEvent, DeadlinePassed, StopWith
    <3>2. session.state = "HANDSHAKING" /\ session \in Sessions
          BY <1>1, <3>1, UpgradeFacts DEF RequestHasClient
    <3>3. session'.state = "HANDSHAKING"
          BY <3>1, <3>2, CancelSession DEF Expire
    <3>4. OnlyHandshakeTimesOut'
          BY <3>1, <3>3 DEF OnlyHandshakeTimesOut
    <3> QED
        BY <2>2, <3>4, StayingIntro DEF RequestHasClient
  <2> QED
      BY <2>4, <2>5
<1>3. CASE StartHandshake
  <2>1. /\ pc = "start" /\ pc' = "wait" /\ UNCHANGED <<clients, batch, result, active_client>>
        BY <1>3 DEF StartHandshake
  <2>2. session'.state = "HANDSHAKING"
    <3> DEFINE c == Transition(session, "CONNECT")
               s == Transition(c, "TRANSPORT_CONNECTED")
    <3>1. SessionOK(session) /\ session.state = "DISCONNECTED"
          BY <2>1, UpgradeFacts DEF InitialSession
    <3>2. SessionOK(c) /\ c.state = "CONNECTING"
          BY <3>1, MovedSession DEF Successor
    <3> HIDE DEF c
    <3>3. SessionOK(s) /\ s.state = "HANDSHAKING"
          BY <3>2, MovedSession DEF Successor
    <3>4. session' = BeginRequest(s, "PING", HandshakeRetries)
          BY <1>3 DEF StartHandshake, c
    <3> HIDE DEF s
    <3>5. "PING" \in RequestTypes /\ HandshakeRetries \in Nat
          BY DaemonAssumption DEF RequestTypes
    <3> QED
        BY <3>3, <3>4, <3>5, BeginSession DEF SessionOK
  <2> QED
      BY <1>1, <2>1, <2>2, StayingIntro DEF RequestHasClient, OnlyHandshakeTimesOut
<1>4. CASE EpollWait
  <2>1. /\ pc = "wait" /\ pc' = "dispatch"
        /\ UNCHANGED <<session, clients, result, active_client>>
        BY <1>4 DEF EpollWait
  <2>2. batch'.clients = [i \in Slots |-> ClientFlags(clients[i])]
        BY <1>1, <1>4, SnapshotType
  <2>3. \A i \in Slots : SlotServed(clients'[i], batch'.clients[i])
        BY <1>1, <2>1, <2>2 DEF SlotServed, ClientFlags
  <2> QED
      BY <1>1, <2>1, <2>3, StayingIntro DEF RequestHasClient, OnlyHandshakeTimesOut
<1>5. CASE Cleanup
  <2>1. /\ pc = "cleanup" /\ pc' = "join" /\ UNCHANGED <<session, batch, result>>
        /\ clients' = [i \in Slots |-> FreeSlot]
        BY <1>5 DEF Cleanup
  <2>2. batch = EmptyBatch
        BY <2>1 DEF DaemonInv, ReactorDrivesWorker
  <2>3. \A i \in Slots : SlotServed(clients'[i], batch'.clients[i])
        BY <2>1, <2>2, FreeSlotFields DEF SlotServed, EmptyBatch
  <2> QED
      BY <1>1, <2>1, <2>3, StayingIntro DEF RequestHasClient, OnlyHandshakeTimesOut
<1>6. CASE CleanupJoin \/ CleanupRelease
  <2>1. /\ pc' \in {"release", "down"} /\ UNCHANGED <<session, clients, batch, result>>
        BY <1>6 DEF CleanupJoin, CleanupRelease
  <2> QED
      BY <1>1, <2>1, StayingIntro DEF RequestHasClient, OnlyHandshakeTimesOut
<1>7. ASSUME NEW i \in Slots, ClientSends(i) \/ ClientLeaves(i)
      PROVE  StayingClientsAreServed'
  <2>1. ClientSends(i)
        BY <1>7 DEF ClientLeaves
  <2>2. /\ pc = "wait" /\ UNCHANGED <<pc, session, batch, result, active_client>>
        /\ \E r : clients' = [clients EXCEPT ![i].inbox = r]
        BY <2>1 DEF ClientSends
  <2>3. batch = EmptyBatch
        BY <2>2 DEF DaemonInv, ReactorDrivesWorker
  <2>4. \A j \in Slots : clients'[j].hup = clients[j].hup
        BY <1>1, <2>2 DEF DaemonTypeOK, ClientSlots
  <2>5. \A j \in Slots : SlotServed(clients'[j], batch'.clients[j])
        BY <1>1, <2>2, <2>3, <2>4 DEF SlotServed, EmptyBatch
  <2> QED
      BY <1>1, <2>2, <2>5, StayingIntro DEF RequestHasClient, OnlyHandshakeTimesOut
<1>8. ASSUME UNCHANGED reactorVars
      PROVE  StayingClientsAreServed'
  <2>1. UNCHANGED <<pc, session, clients, batch, result, active_client>>
        BY <1>8 DEF reactorVars
  <2> QED
      BY <1>1, <2>1, StayingIntro DEF RequestHasClient, OnlyHandshakeTimesOut
<1>9. Connect \/ WorkerRuns \/ UNCHANGED vars => UNCHANGED reactorVars
      BY DEF Connect, WorkerRuns, daemonVars, vars
<1> QED
    BY <1>2, <1>3, <1>4, <1>5, <1>6, <1>7, <1>8, <1>9
       DEF DaemonNext, Reactor, World, Ended

(***************************************************************************)
(* The invariant                                                           *)
(***************************************************************************)
LEMMA DaemonInitInv == DaemonInit => DaemonInv
<1> SUFFICES ASSUME DaemonInit
             PROVE  DaemonInv
    OBVIOUS
<1>1. WorkerInv
      BY InitInv DEF DaemonInit
<1>2. /\ session = InitialSession /\ upgrade = InitialUpgrade
      /\ operation_id = 0 /\ upgrade_result = "OK" /\ tx = 0 /\ active_client = 0
      /\ clients = [i \in Slots |-> FreeSlot] /\ telemetry = FALSE
      /\ running = TRUE /\ result = "OK" /\ pc = "start" /\ batch = EmptyBatch
      /\ backlog = 0 /\ heard = FALSE
      /\ mailbox.stop = FALSE /\ thread.pc = "loop" /\ event_fd = 0 /\ firmware = 0
      BY DEF DaemonInit, WorkerInit
<1>3. /\ session.pending.active = FALSE /\ session.state = "DISCONNECTED"
      /\ upgrade.state = "IDLE"
      BY <1>2 DEF InitialSession, NoRequest, InitialUpgrade
<1>4. 0 \in 0 .. Modulus - 1 /\ 1 \in Sequences32 /\ 0 \in 0 .. MaxRecovery
      BY ModulusAssumption, UpgradeAssumption DEF Sequences32
<1>5. DaemonTypeOK
  <2>1. session \in Sessions /\ session.pending.retries_done <= session.pending.max_retries
    <3>1. NoRequest \in Requests
          BY <1>4 DEF NoRequest, Requests, RequestTypes
    <3> QED
        BY <1>2, <1>4, <3>1 DEF InitialSession, Sessions, DeviceStates, NoRequest
  <2>2. upgrade \in Upgrades
        BY <1>2, <1>4 DEF InitialUpgrade, Upgrades, UpgradeStates, NoImage
  <2>3. clients \in [Slots -> ClientSlots]
        BY <1>2, FreeSlotType
  <2>4. batch \in Batches
    <3>1. -1 \in -1 .. Modulus - 1
          BY ModulusAssumption
    <3> QED
        BY <1>2, <3>1 DEF EmptyBatch, Batches, NoTimer
  <2>5. "OK" \in Statuses
        BY DEF Statuses
  <2> QED
      BY <1>2, <1>4, <2>1, <2>2, <2>3, <2>4, <2>5 DEF DaemonTypeOK
<1>6. AddresseeIsAsking /\ AnswersBelongToRequests /\ SlotsAreClean /\ UnansweredIsActive
  <2>1. \A i \in Slots : clients[i] = FreeSlot /\ active_client # i
        BY <1>2 DEF Slots
  <2> QED
      BY <1>2, <2>1, FreeSlotFields DEF AddresseeIsAsking, AnswersBelongToRequests,
         SlotsAreClean, UnansweredIsActive
<1>7. ReactorDrivesWorker
      BY <1>2 DEF ReactorDrivesWorker, EmptyBatch
<1>8. UpgradeInv
      BY <1>2, <1>3 DEF UpgradeInv, SessionPhases, UpgradeIsWaitedFor, InLoop,
         OutcomeIsConsistent, StatusReport, ValidatedInWorker, SentToTheEnd,
         ImageOfOperation, UpgradeActive
<1>9. StayingClientsAreServed
  <2>1. \A i \in Slots : clients[i].hup = FALSE /\ batch.clients[i] = {}
        BY <1>2, FreeSlotFields DEF EmptyBatch
  <2> QED
      BY <1>2, <1>3, <2>1 DEF StayingClientsAreServed
<1> QED
    BY <1>1, <1>5, <1>6, <1>7, <1>8, <1>9 DEF DaemonInv, UpgradeInv

LEMMA DaemonInvStep == DaemonInv /\ [DaemonNext]_vars => DaemonInv'
<1> SUFFICES ASSUME DaemonInv, [DaemonNext]_vars
             PROVE  DaemonInv'
    OBVIOUS
<1>1. WorkerInv'
  <2>1. WorkerInv /\ [WorkerNext]_workerVars
        BY WorkerStep DEF DaemonInv
  <2> QED
      BY <2>1, TypeStep, SingleJobStep, OwnerStep, ResultStep, ImageStep DEF WorkerInv
<1>2. DaemonTypeOK' /\ ReactorDrivesWorker' /\ StayingClientsAreServed'
      BY DaemonTypeStep, DrivesStep, StayingStep
<1>3. ClientsInv' /\ UpgradeInv'
      BY ClientsStep, UpgradeStep
<1> QED
    BY <1>1, <1>2, <1>3 DEF DaemonInv, ClientsInv, UpgradeInv

(* The records of the reactor (who asked, what is in flight, which upgrade *)
(* runs and which image it holds) agree with each other and with the       *)
(* worker thread, in every order of the events of every snapshot.          *)
THEOREM DaemonInvariance == DaemonSpec => []DaemonInv
<1> QED
    BY DaemonInitInv, DaemonInvStep, PTL DEF DaemonSpec

(* Every field of the reactor keeps its type; a sequence number and an     *)
(* operation id never leave the 32-bit range and a sequence is never 0.    *)
THEOREM DaemonTypes == DaemonSpec => []DaemonTypeOK
<1>1. DaemonInv => DaemonTypeOK
      BY DEF DaemonInv
<1> QED
    BY <1>1, DaemonInvariance, PTL

(* active_client names a connected client that waits for the request in    *)
(* flight: handle_device_response and handle_timer never write an answer   *)
(* to a closed or reused slot.                                             *)
THEOREM AnswersReachTheAsker == DaemonSpec => []AddresseeIsAsking
<1>1. DaemonInv => AddresseeIsAsking
      BY DEF DaemonInv
<1> QED
    BY <1>1, DaemonInvariance, PTL

(* Every client is answered about its own command, and in the loop a       *)
(* command read and not answered is the one in flight.                     *)
THEOREM AnswersFit == DaemonSpec => []AnswersBelongToRequests
<1>1. DaemonInv => AnswersBelongToRequests
      BY DEF DaemonInv
<1> QED
    BY <1>1, DaemonInvariance, PTL

(* The image of the current operation is mapped exactly while the session  *)
(* is UPGRADING: the upgrade machine never reads image_data after munmap.  *)
THEOREM ImageHeldWhileUpgrading == DaemonSpec => []UpgradeHoldsImage
<1>1. DaemonInv => UpgradeHoldsImage
  <2> SUFFICES ASSUME DaemonInv, Alive
               PROVE  /\ (session.state = "UPGRADING") <=>
                           (UpgradeActive(upgrade) /\ upgrade.state # "VALIDATING")
                      /\ (session.state = "UPGRADING") <=> (firmware # 0)
                      /\ firmware # 0 => firmware = operation_id /\ firmware \in live
      BY DEF UpgradeHoldsImage
  <2>1. firmware # 0 => firmware \in live
        BY DEF DaemonInv, WorkerInv, NoImageLost, Held, HeldByReactor
  <2> QED
      BY <2>1, UpgradeFacts DEF Alive
<1> QED
    BY <1>1, DaemonInvariance, PTL

(* An upgrade in progress is either with the worker, under its own id, or  *)
(* has its request in flight: it cannot be forgotten by any event.         *)
THEOREM UpgradesAreWaitedFor == DaemonSpec => []UpgradeIsWaitedFor
<1>1. DaemonInv => UpgradeIsWaitedFor
      BY DEF DaemonInv
<1> QED
    BY <1>1, DaemonInvariance, PTL

(* UPGRADE_STATUS reports ERROR exactly with a reason, and COMPLETE only   *)
(* when the device has acknowledged the last byte.                         *)
THEOREM OutcomesAreConsistent == DaemonSpec => []OutcomeIsConsistent
<1>1. DaemonInv => OutcomeIsConsistent
      BY DEF DaemonInv
<1> QED
    BY <1>1, DaemonInvariance, PTL

(* cleanup_context leaves no mapping and no thread behind, wherever the    *)
(* loop was stopped.                                                       *)
THEOREM CleanupUnmapsAll == DaemonSpec => []NothingLeftMapped
<1>1. DaemonInv => NothingLeftMapped
  <2> SUFFICES ASSUME DaemonInv, pc = "down"
               PROVE  live = {} /\ thread.pc = "joined"
      BY DEF NothingLeftMapped
  <2>1. thread.pc = "joined" /\ firmware = 0
        BY DEF DaemonInv, ReactorDrivesWorker
  <2>2. live = Held
        BY DEF DaemonInv, WorkerInv, NoImageLost
  <2> QED
      BY <2>1, <2>2 DEF Held, HeldByThread, HeldByMailbox, HeldByReactor
<1> QED
    BY <1>1, DaemonInvariance, PTL

(* While clients wait for their answers, only a handshake that is never    *)
(* answered ends the daemon with TIMEOUT, and no write() kills it.  The    *)
(* hypothesis is needed: MCDaemonLeaving.cfg has the counterexample.       *)
THEOREM PatientClientsCannotStopDaemon ==
  "LEAVE" \notin Faults => (DaemonSpec => []ClientsCannotStopDaemon)
<1> SUFFICES ASSUME "LEAVE" \notin Faults
             PROVE  DaemonSpec => []ClientsCannotStopDaemon
    OBVIOUS
<1>1. DaemonInv => ClientsCannotStopDaemon
      BY StayingFacts DEF ClientsCannotStopDaemon, OnlyHandshakeTimesOut
<1> QED
    BY <1>1, DaemonInvariance, PTL

(***************************************************************************)
(* What a step may do                                                      *)
(***************************************************************************)
(* A slot becomes active_client only when its own command is forwarded. *)
LEMMA WhoBecomesActive ==
  ASSUME [DaemonNext]_vars, active_client' # active_client, active_client' # 0
  PROVE  \E i \in Slots : /\ ForwardCommand(i) /\ "HUP" \notin batch.clients[i]
                          /\ active_client' = i
<1>1. \A i : CloseClient(i) => active_client' \in {0, active_client}
      BY DEF CloseClient
<1>2. \A i, command, status :
        AnswerRequest(i, command, status) => active_client' \in {0, active_client}
      BY <1>1 DEF AnswerRequest
<1>3. ASSUME NEW i \in Slots,
             \/ AnswerMalformed(i) \/ AnswerGetTelemetry(i) \/ AnswerUpgradeStatus(i)
             \/ RefuseUpgrade(i) \/ AcceptUpgrade(i) \/ RefuseCommand(i)
             \/ DropClient(i) \/ WriteAnswer(i) \/ WriteToClosedPeer(i)
      PROVE  FALSE
      BY <1>1, <1>2, <1>3 DEF AnswerMalformed, AnswerGetTelemetry,
         AnswerUpgradeStatus, RefuseUpgrade, AcceptUpgrade, RefuseCommand,
         DropClient, WriteAnswer, WriteToClosedPeer
<1>4. ~WorkerEvent
      BY DEF WorkerEvent, DiscardResult, ValidationFailed, StartTransfer,
         TransferRefused, TakingResult
<1>5. ~TransportEvent
      BY DEF TransportEvent, FlushTransport, TransportFailed, ReadTransport,
         KeepTelemetry, IgnoreFrame, OnDeviceFrame, TransportDrained,
         HandshakeReply, UpgradeReply, ClientReply, OrphanReply, vars, daemonVars,
         reactorVars
<1>6. ~TickEarly /\ ~TickDue
      BY DEF TickDue, TickEarly, TickRetry, TickRetryBusy, TickRecover,
         TickUpgradeFailed, TickClientTimeout, TickNobody
<1>7. ~(\/ StartHandshake \/ SetupFailed \/ EpollWait \/ AcceptClients \/ SignalEvent
        \/ Cleanup \/ CleanupJoin \/ CleanupRelease)
      BY DEF StartHandshake, SetupFailed, EpollWait, AcceptClients, SignalEvent,
         Cleanup, CleanupJoin, CleanupRelease
<1>8. ~World /\ ~WorkerRuns /\ ~Ended /\ ~UNCHANGED vars
      BY DEF World, Connect, ClientSends, ClientLeaves, WorkerRuns, Ended, vars,
         daemonVars, reactorVars
<1>9. PICK i \in Slots : ForwardCommand(i)
      BY <1>3, <1>4, <1>5, <1>6, <1>7, <1>8 DEF DaemonNext, Reactor, ClientEvent
<1> QED
    BY <1>1, <1>9 DEF ForwardCommand

(* A slot becomes active_client only together with a request begun for it: *)
(* nobody inherits the answer to the request of a client that has left.    *)
THEOREM AnswersAreNotInherited == DaemonSpec => NoInheritedAnswer
<1> DEFINE Fresh == active_client # active_client' /\ active_client' # 0 =>
                      /\ ~session.pending.active
                      /\ session'.pending.active
                      /\ session'.pending.type = clients'[active_client'].command
<1>1. DaemonInv /\ [DaemonNext]_vars => Fresh
  <2> SUFFICES ASSUME DaemonInv, [DaemonNext]_vars,
                      active_client' # active_client, active_client' # 0
               PROVE  /\ ~session.pending.active
                      /\ session'.pending.active
                      /\ session'.pending.type = clients'[active_client'].command
      OBVIOUS
  <2>1. PICK i \in Slots : /\ ForwardCommand(i) /\ "HUP" \notin batch.clients[i]
                           /\ active_client' = i
        BY WhoBecomesActive
  <2> DEFINE command == clients[i].inbox.command
  <2>2. /\ Refusal(command) = "NONE" /\ command \in DeviceCommands
        /\ session' = BeginRequest(session, command, ClientRetries)
        /\ clients' = [clients EXCEPT ![i].inbox = NoInput, ![i].command = command]
        BY <2>1 DEF ForwardCommand, Reading
  <2>3. ~session.pending.active
        BY <2>2 DEF Refusal, CanBegin
  <2>4. clients \in [Slots -> ClientSlots] /\ session \in Sessions
        /\ ClientRetries \in Nat /\ command \in RequestTypes
        BY <2>2, DaemonAssumption DEF DaemonInv, DaemonTypeOK, RequestTypes
  <2>5. clients'[i] = [clients[i] EXCEPT !.inbox = NoInput, !.command = command]
        BY <2>2, <2>4
  <2>6. clients'[i].command = command
        BY <2>4, <2>5 DEF ClientSlots
  <2> HIDE DEF command
  <2>7. session'.pending.active = TRUE /\ session'.pending.type = command
        BY <2>2, <2>4, BeginSession
  <2> QED
      BY <2>1, <2>3, <2>6, <2>7
<1>2. Fresh <=> (active_client # active_client' /\ active_client' # 0 =>
                   /\ ~session.pending.active
                   /\ session'.pending.active
                   /\ session'.pending.type = clients'[active_client'].command)
      OBVIOUS
<1> HIDE DEF Fresh
<1> QED
    BY <1>1, <1>2, DaemonInvariance, PTL DEF DaemonSpec, NoInheritedAnswer

(* The reactor uses the worker as WorkerSpec allows, so that what is       *)
(* proved of the mailbox protocol holds of the daemon.                     *)
THEOREM ReactorFollowsWorkerProtocol == DaemonSpec => WorkerProtocol
<1>1. DaemonInit => WorkerInit
      BY DEF DaemonInit
<1> QED
    BY <1>1, WorkerStep, DaemonInvariance, PTL DEF DaemonSpec, WorkerProtocol, WorkerSpec

(* An operation that goes on is a stutter of the reported history. *)
LEMMA OperationGoesOn ==
  ASSUME UNCHANGED operation_id, UpgradeActive(upgrade), UpgradeActive(upgrade')
  PROVE  UNCHANGED Reported!operation
  BY DEF Reported!operation, UpgradeActive

LEMMA OperationEnds ==
  ASSUME UNCHANGED operation_id, UpgradeActive(upgrade),
         upgrade'.state \in {"COMPLETE", "ERROR"}
  PROVE  Reported!End
  BY DEF Reported!End, UpgradeActive

LEMMA OperationsStep ==
  ASSUME DaemonInv, [DaemonNext]_vars
  PROVE  [Reported!Begin \/ Reported!End]_(Reported!operation)
<1>1. session \in Sessions /\ upgrade \in Upgrades /\ AtEnd(upgrade)
      /\ operation_id \in 0 .. Modulus - 1
      BY UpgradeFacts DEF DaemonInv, DaemonTypeOK
<1>2. ASSUME UNCHANGED <<upgrade, operation_id>>
      PROVE  UNCHANGED Reported!operation
      BY <1>2 DEF Reported!operation, UpgradeActive
<1>3. CASE ClientEvent
  <2>1. PICK i \in Slots :
          \/ AnswerMalformed(i) \/ AnswerGetTelemetry(i) \/ AnswerUpgradeStatus(i)
          \/ RefuseUpgrade(i) \/ AcceptUpgrade(i)
          \/ RefuseCommand(i) \/ ForwardCommand(i)
          \/ DropClient(i) \/ WriteAnswer(i) \/ WriteToClosedPeer(i)
        BY <1>3 DEF ClientEvent
  <2>2. CASE ~AcceptUpgrade(i)
    <3>1. UNCHANGED <<upgrade, operation_id>>
          BY <2>1, <2>2 DEF AnswerMalformed, AnswerGetTelemetry, AnswerUpgradeStatus,
             RefuseUpgrade, RefuseCommand, ForwardCommand, DropClient, WriteAnswer,
             WriteToClosedPeer
    <3> QED
        BY <1>2, <3>1
  <2>3. CASE AcceptUpgrade(i)
    <3>1. /\ ~UpgradeActive(upgrade) /\ operation_id' = NextSequence(operation_id)
          /\ \/ upgrade' = [upgrade EXCEPT !.state = "VALIDATING"]
             \/ upgrade' = Fail(upgrade)
          BY <2>3 DEF AcceptUpgrade, UpgradeRefused
    <3>2. upgrade'.state \in {"VALIDATING", "ERROR"}
          BY <1>1, <3>1, FailedUpgrade DEF Upgrades
    <3>3. NextSequence(operation_id) = Reported!NextId(operation_id)
          BY <1>1, ModulusAssumption, NextSequenceValue DEF Reported!NextId
    <3>4. upgrade.state # "WORKING"
          BY <1>1 DEF Upgrades, UpgradeStates
    <3>5. Reported!Begin
          BY <3>1, <3>2, <3>3, <3>4 DEF Reported!Begin, UpgradeActive
    <3> QED
        BY <3>5
  <2> QED
      BY <2>2, <2>3
<1>4. CASE WorkerEvent
  <2>1. UNCHANGED operation_id
        BY <1>4 DEF WorkerEvent, DiscardResult, ValidationFailed, StartTransfer,
           TransferRefused, TakingResult
  <2>2. CASE DiscardResult
        BY <1>2, <2>1, <2>2 DEF DiscardResult
  <2>3. CASE ~DiscardResult
    <3>1. upgrade.state = "VALIDATING"
          BY <1>4, <2>3 DEF WorkerEvent, ValidationFailed, StartTransfer,
             TransferRefused, ResultExpected
    <3>2. \/ upgrade' = Fail(upgrade)
          \/ \E image \in Images :
               \/ upgrade' = Fail(StartUpgrade(upgrade, image, "V"))
               \/ upgrade' = Built(StartUpgrade(upgrade, image, "V"))
          BY <1>4, <2>3 DEF WorkerEvent, ValidationFailed, StartTransfer,
             TransferRefused, QueueUpgradeRequest
    <3>3. upgrade'.state \in {"ERROR", "ENTER_BOOTLOADER"}
          BY <1>1, <3>2, FailedUpgrade, BuiltUpgrade, StartedUpgrade
    <3> QED
        BY <2>1, <3>1, <3>3, OperationGoesOn, OperationEnds DEF UpgradeActive
  <2> QED
      BY <2>2, <2>3
<1>5. CASE TransportEvent
  <2>1. UNCHANGED operation_id
        BY <1>5 DEF TransportEvent, FlushTransport, TransportFailed, ReadTransport,
           KeepTelemetry, IgnoreFrame, OnDeviceFrame, TransportDrained,
           HandshakeReply, UpgradeReply, ClientReply, OrphanReply, vars, daemonVars,
           reactorVars
  <2>2. CASE OnDeviceFrame
    <3>1. PICK f \in DeviceFrames :
          /\ Matches(session, f)
          /\ HandshakeReply(f) \/ UpgradeReply(f) \/ ClientReply(f) \/ OrphanReply(f)
          BY <2>2 DEF OnDeviceFrame
    <3>2. CASE ~UpgradeReply(f)
          BY <1>2, <2>1, <3>1, <3>2 DEF HandshakeReply, ClientReply, OrphanReply
    <3>3. CASE UpgradeReply(f)
      <4> DEFINE u == AcceptResponse(upgrade, session.pending.type, f)
      <4>1. /\ u \in Upgrades
            /\ u.state \in {"BEGIN", "TRANSFER", "END", "VERIFY", "ACTIVATE",
                            "REBOOT", "COMPLETE", "ERROR"}
            BY <1>1, <3>1, FramePayload, AnsweredUpgrade
      <4>2. UpgradeActive(upgrade) /\ (upgrade' = u \/ upgrade' = Built(u))
            BY <3>3 DEF UpgradeReply, EndUpgrade, QueueUpgradeRequest
      <4> HIDE DEF u
      <4>3. upgrade'.state = u.state
            BY <4>1, <4>2, BuiltUpgrade
      <4> QED
          BY <2>1, <4>1, <4>2, <4>3, OperationGoesOn, OperationEnds DEF UpgradeActive
    <3> QED
        BY <3>2, <3>3
  <2>3. CASE ~OnDeviceFrame
    <3>1. UNCHANGED upgrade
          BY <1>5, <2>3 DEF TransportEvent, FlushTransport, TransportFailed,
             ReadTransport, KeepTelemetry, IgnoreFrame, TransportDrained, vars,
             daemonVars, reactorVars
    <3> QED
        BY <1>2, <2>1, <3>1
  <2> QED
      BY <2>2, <2>3
<1>6. CASE TickEarly \/ TickDue
  <2>1. UNCHANGED operation_id
        BY <1>6 DEF TickDue, TickEarly, TickRetry, TickRetryBusy, TickRecover,
           TickUpgradeFailed, TickClientTimeout, TickNobody
  <2>2. CASE TickRecover
    <3>1. /\ UpgradeActive(upgrade) /\ CanRecover(upgrade)
          /\ upgrade' = Built(BeginRecovery(upgrade))
          BY <2>2 DEF TickRecover, QueueUpgradeRequest
    <3>2. upgrade'.state = "RECOVER"
          BY <1>1, <3>1, RecoveringUpgrade, BuiltUpgrade
    <3> QED
        BY <2>1, <3>1, <3>2, OperationGoesOn DEF UpgradeActive
  <2>3. CASE TickUpgradeFailed
    <3> DEFINE u == IF CanRecover(upgrade) THEN BeginRecovery(upgrade) ELSE upgrade
    <3>1. u \in Upgrades
          BY <1>1, RecoveringUpgrade
    <3>2. UpgradeActive(upgrade) /\ upgrade' = Fail(u)
          BY <2>3 DEF TickUpgradeFailed, EndUpgrade
    <3> HIDE DEF u
    <3>3. upgrade'.state = "ERROR"
          BY <3>1, <3>2, FailedUpgrade
    <3> QED
        BY <2>1, <3>2, <3>3, OperationEnds
  <2>4. CASE ~TickRecover /\ ~TickUpgradeFailed
    <3>1. UNCHANGED upgrade
          BY <1>6, <2>4 DEF TickDue, TickEarly, TickRetry, TickRetryBusy,
             TickClientTimeout, TickNobody
    <3> QED
        BY <1>2, <2>1, <3>1
  <2> QED
      BY <2>2, <2>3, <2>4
<1>7. CASE \/ StartHandshake \/ SetupFailed \/ EpollWait \/ AcceptClients \/ SignalEvent
           \/ Cleanup \/ CleanupJoin \/ CleanupRelease
  <2>1. UNCHANGED <<upgrade, operation_id>>
        BY <1>7 DEF StartHandshake, SetupFailed, EpollWait, AcceptClients, SignalEvent,
           Cleanup, CleanupJoin, CleanupRelease
  <2> QED
      BY <1>2, <2>1
<1>8. CASE World \/ WorkerRuns \/ Ended \/ UNCHANGED vars
  <2>1. UNCHANGED <<upgrade, operation_id>>
        BY <1>8 DEF World, Connect, ClientSends, ClientLeaves, WorkerRuns, Ended, vars,
           daemonVars, reactorVars
  <2> QED
      BY <1>2, <2>1
<1> QED
    BY <1>3, <1>4, <1>5, <1>6, <1>7, <1>8 DEF DaemonNext, Reactor

(* What UPGRADE_STATUS reports is a history of operations that begin only  *)
(* when none is in progress, end once and keep their outcome: Daemon       *)
(* implements Operations.                                                  *)
THEOREM HistoryOfOperations == DaemonSpec => OutcomesStay
<1>1. DaemonInit => Reported!OperationsInit
      BY DEF DaemonInit, InitialUpgrade, UpgradeActive, Reported!OperationsInit
<1>2. DaemonInv /\ [DaemonNext]_vars =>
        [Reported!Begin \/ Reported!End]_(Reported!operation)
      BY OperationsStep
<1> QED
    BY <1>1, <1>2, DaemonInvariance, PTL
       DEF DaemonSpec, OutcomesStay, Reported!OperationsSpec
=============================================================================
