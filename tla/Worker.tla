------------------------------- MODULE Worker -------------------------------
(***************************************************************************)
(* The firmware validation worker of src/worker/worker.c: a single-slot    *)
(* mailbox under a mutex, a condition variable the thread sleeps on, and   *)
(* an eventfd that tells the reactor a result is ready.  Each section the  *)
(* mutex protects is one action; opening the image and writing the eventfd *)
(* happen outside the mutex and are actions of their own.                  *)
(*                                                                         *)
(* The reactor appears here only through what it may do with a worker      *)
(* (submit, complete, release, stop, join), whatever its reasons are.      *)
(* Daemon gives the reasons, and is checked to implement WorkerSpec.       *)
(***************************************************************************)
EXTENDS Integers, FiniteSets

CONSTANT JobIds     \* the nonzero job ids the reactor may use

ASSUME JobIdsAssumption == JobIds \subseteq Nat \ {0}

VARIABLES
  mailbox,      \* struct devmgr_worker, the fields the mutex protects
  thread,       \* worker_main: where it is and the result it is building
  event_fd,     \* the counter of the eventfd
  live,         \* the jobs whose image is mapped at this moment
  firmware      \* the job whose image the reactor holds, 0 for none

workerVars == <<mailbox, thread, event_fd, live, firmware>>

OpenStatus == {"OK", "IO", "LIMIT"}

NoResult == [job_id |-> 0, status |-> "NONE"]

WorkerInit ==
  /\ mailbox = [stop |-> FALSE, job_pending |-> FALSE, job_running |-> FALSE,
                result_pending |-> FALSE, job_id |-> 0, result |-> NoResult]
  /\ thread = [pc |-> "loop", result |-> NoResult]
  /\ event_fd = 0
  /\ live = {}
  /\ firmware = 0

(***************************************************************************)
(* The thread                                                              *)
(***************************************************************************)
GoTo(pc) == thread' = [thread EXCEPT !.pc = pc]

(* pthread_cond_wait releases the mutex and sleeps. *)
Sleep ==
  /\ thread.pc = "loop"
  /\ ~mailbox.stop /\ ~mailbox.job_pending
  /\ GoTo("asleep")
  /\ UNCHANGED <<mailbox, event_fd, live, firmware>>

(* pthread_cond_wait may return without a signal. *)
SpuriousWakeup ==
  /\ thread.pc = "asleep"
  /\ GoTo("loop")
  /\ UNCHANGED <<mailbox, event_fd, live, firmware>>

TakeJob ==
  /\ thread.pc = "loop"
  /\ ~mailbox.stop /\ mailbox.job_pending
  /\ thread' = [pc |-> "open",
                result |-> [job_id |-> mailbox.job_id, status |-> "NONE"]]
  /\ mailbox' = [mailbox EXCEPT !.job_pending = FALSE, !.job_running = TRUE]
  /\ UNCHANGED <<event_fd, live, firmware>>

(* devmgr_firmware_open: on success the file is open and mapped. *)
OpenImage ==
  /\ thread.pc = "open"
  /\ \E status \in OpenStatus :
       /\ thread' = [pc |-> "post",
                     result |-> [thread.result EXCEPT !.status = status]]
       /\ live' = IF status = "OK" THEN live \union {thread.result.job_id}
                                   ELSE live
  /\ UNCHANGED <<mailbox, event_fd, firmware>>

PostResult ==
  /\ thread.pc = "post"
  /\ mailbox' = [mailbox EXCEPT !.result = thread.result,
                                !.job_running = FALSE,
                                !.result_pending = TRUE]
  /\ thread' = [pc |-> "notify", result |-> NoResult]
  /\ UNCHANGED <<event_fd, live, firmware>>

NotifyReactor ==
  /\ thread.pc = "notify"
  /\ event_fd' = event_fd + 1
  /\ GoTo("loop")
  /\ UNCHANGED <<mailbox, live, firmware>>

ExitThread ==
  /\ thread.pc = "loop"
  /\ mailbox.stop
  /\ GoTo("exited")
  /\ UNCHANGED <<mailbox, event_fd, live, firmware>>

ThreadStep == \/ Sleep \/ SpuriousWakeup \/ TakeJob \/ OpenImage
              \/ PostResult \/ NotifyReactor \/ ExitThread

(***************************************************************************)
(* The calls of the reactor.  The operators give the mailbox and the       *)
(* thread after a call, so that a step of the reactor can be more than the *)
(* call.                                                                   *)
(***************************************************************************)
(* Mutant: without pthread_cond_signal. *)
Unsignalled == thread

Signalled == IF thread.pc = "asleep" THEN [thread EXCEPT !.pc = "loop"]
                                     ELSE thread

(* devmgr_worker_submit_firmware answers DEVMGR_ERROR_BUSY otherwise. *)
CanSubmit == /\ ~mailbox.stop
             /\ ~mailbox.job_pending
             /\ ~mailbox.job_running
             /\ ~mailbox.result_pending

Submitted(job_id) == [mailbox EXCEPT !.job_id = job_id, !.job_pending = TRUE]

(* devmgr_worker_take_result answers DEVMGR_ERROR_NOT_FOUND when no result *)
(* is pending.                                                             *)
CanTake == mailbox.result_pending

Taken == [mailbox EXCEPT !.result = NoResult, !.result_pending = FALSE]

(* devmgr_firmware_close on an image that may not be open. *)
Closed(job_id) == live \ {job_id}

(* The image a result carries: none when validation failed. *)
ImageOf(result) == IF result.status = "OK" THEN result.job_id ELSE 0

Stopped == [mailbox EXCEPT !.stop = TRUE]

Submit(job_id) ==
  /\ CanSubmit
  /\ firmware = 0
  /\ mailbox' = Submitted(job_id)
  /\ thread' = Signalled
  /\ UNCHANGED <<event_fd, live, firmware>>

(* handle_worker_completion reads the eventfd, takes the result and either *)
(* adopts the image or closes it.  The reactor holds no image when it      *)
(* submits a job or adopts a result: the assignment to context->firmware   *)
(* would lose the old mapping.                                             *)
Adopt ==
  /\ ~mailbox.stop
  /\ event_fd > 0 /\ CanTake
  /\ firmware = 0
  /\ mailbox.result.status = "OK"
  /\ firmware' = mailbox.result.job_id
  /\ mailbox' = Taken
  /\ event_fd' = 0
  /\ UNCHANGED <<thread, live>>

Reject ==
  /\ ~mailbox.stop
  /\ event_fd > 0 /\ CanTake
  /\ live' = Closed(ImageOf(mailbox.result))
  /\ mailbox' = Taken
  /\ event_fd' = 0
  /\ UNCHANGED <<thread, firmware>>

Release ==
  /\ firmware # 0
  /\ live' = Closed(firmware)
  /\ firmware' = 0
  /\ UNCHANGED <<mailbox, thread, event_fd>>

(* devmgr_worker_destroy up to pthread_join ... *)
StopWorker ==
  /\ ~mailbox.stop
  /\ mailbox' = Stopped
  /\ thread' = Signalled
  /\ UNCHANGED <<event_fd, live, firmware>>

(* Mutant: the pending result is dropped unclosed. *)
LiveDespiteJoin == live

(* ... and after it: a result nobody took is released. *)
LiveAfterJoin == IF mailbox.result_pending
                 THEN Closed(ImageOf(mailbox.result)) ELSE live

JoinWorker ==
  /\ thread.pc = "exited"
  /\ GoTo("joined")
  /\ live' = LiveAfterJoin
  /\ event_fd' = 0
  /\ UNCHANGED <<mailbox, firmware>>

ReactorCall == \/ \E job_id \in JobIds : Submit(job_id)
               \/ Adopt \/ Reject \/ Release \/ StopWorker \/ JoinWorker

WorkerNext == ThreadStep \/ ReactorCall

WorkerSpec == WorkerInit /\ [][WorkerNext]_workerVars

(* The steps a scheduled thread takes; a spurious wakeup is not promised.  *)
ThreadProgress == \/ Sleep \/ TakeJob \/ OpenImage \/ PostResult
                  \/ NotifyReactor \/ ExitThread

(***************************************************************************)
(* Properties                                                              *)
(***************************************************************************)
Results == {NoResult} \union [job_id : JobIds, status : OpenStatus \union {"NONE"}]

(* The types of the mailbox, the thread and the image sets.                *)
WorkerTypeOK ==
  /\ mailbox \in [stop : BOOLEAN, job_pending : BOOLEAN, job_running : BOOLEAN,
                  result_pending : BOOLEAN, job_id : JobIds \union {0},
                  result : Results]
  /\ thread \in [pc : {"loop", "asleep", "open", "post", "notify", "exited", "joined"},
                 result : Results]
  /\ event_fd \in Nat
  /\ live \subseteq JobIds
  /\ firmware \in JobIds \union {0}

(* The images somebody is responsible for closing: the thread before it    *)
(* posts, the mailbox until the result is taken or the worker joined, the  *)
(* reactor after it adopted one.                                           *)
HeldByThread == IF thread.pc = "post" THEN {ImageOf(thread.result)} ELSE {}
HeldByMailbox == IF mailbox.result_pending /\ thread.pc # "joined"
                 THEN {ImageOf(mailbox.result)} ELSE {}
HeldByReactor == {firmware}

Held == (HeldByThread \union HeldByMailbox \union HeldByReactor) \ {0}

(* Every mapping and descriptor opened by devmgr_firmware_open has an      *)
(* owner that will close it, and no owner refers to an image that has been *)
(* unmapped: completion, rejection, shutdown and a worker that finishes    *)
(* during shutdown neither leak an image nor use one after its munmap.     *)
NoImageLost == live = Held

(* A readable eventfd means a result is waiting, once: the read in         *)
(* handle_worker_completion is followed by a devmgr_worker_take_result     *)
(* that cannot answer NOT_FOUND, which would stop the daemon.              *)
NotificationHasResult ==
  thread.pc # "joined" => /\ event_fd <= 1
                          /\ event_fd = 1 => mailbox.result_pending

(* The worker holds at most one job, in exactly one of its stages, so a    *)
(* post never overwrites a result the reactor has not taken.               *)
SingleJob ==
  /\ mailbox.job_pending => ~mailbox.job_running /\ ~mailbox.result_pending
  /\ mailbox.job_running => ~mailbox.result_pending
  /\ mailbox.job_running <=> thread.pc \in {"open", "post"}

(* What makes the three inductive: while a job is anywhere in the worker   *)
(* the reactor holds no image, a job in hand has an id, the eventfd has    *)
(* not been written before the thread is through with notify_reactor, and  *)
(* the thread only leaves its loop after stop.                             *)
InWorker == mailbox.job_pending \/ mailbox.job_running \/ mailbox.result_pending

OneOwner ==
  /\ InWorker => firmware = 0
  /\ mailbox.job_pending => mailbox.job_id # 0
  /\ thread.pc \in {"open", "post"} => thread.result.job_id # 0
  /\ thread.pc = "notify" => mailbox.result_pending /\ event_fd = 0
  /\ thread.pc \in {"exited", "joined"} => mailbox.stop

(* A result belongs to the job that was submitted, and says how opening    *)
(* its image ended: no job is answered with the result of an earlier one.  *)
ResultIsOfJob ==
  /\ mailbox.job_running => thread.result.job_id = mailbox.job_id
  /\ thread.pc = "post" => thread.result.status \in OpenStatus
  /\ mailbox.result_pending => /\ mailbox.result.job_id = mailbox.job_id
                               /\ mailbox.result.job_id # 0
                               /\ mailbox.result.status \in OpenStatus

(* The inductive invariant of DaemonProofs: the mailbox protocol between   *)
(* the two threads and the ownership of images hold together, in every     *)
(* interleaving of submission, validation, notification and shutdown.      *)
WorkerInv == /\ WorkerTypeOK
             /\ SingleJob
             /\ NotificationHasResult
             /\ NoImageLost
             /\ OneOwner
             /\ ResultIsOfJob

(* devmgr_worker_destroy returns: the thread notices stop and is joined    *)
(* whatever it was doing.                                                  *)
DestroyReturns == mailbox.stop ~> thread.pc = "joined"
=============================================================================
