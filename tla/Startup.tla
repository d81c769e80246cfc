------------------------------ MODULE Startup ------------------------------
(***************************************************************************)
(* Life and death of devmgrd processes: setup_context and cleanup_context  *)
(* of daemon.c with create_listener, devmgr_worker_init and the serial     *)
(* transport they call.  Every system call may fail, a process may be      *)
(* killed between any two of them, and the service manager restarts what   *)
(* did not exit with status 0.                                             *)
(*                                                                         *)
(* held is what the kernel holds for a process, known the part of it that  *)
(* daemon_context records: cleanup_context can release only the latter.    *)
(* node is what a socket path names: nothing, a file that is no socket, a  *)
(* socket nobody listens on, or the socket of a process.                   *)
(***************************************************************************)
EXTENDS Integers, FiniteSets

CONSTANTS
  Daemons,         \* the processes
  Socket,          \* the --socket of each
  UserFiles,       \* whether a user creates and removes files at the paths
  MaxFaults        \* bound on failing calls, kills and signals

Paths == {Socket[d] : d \in Daemons}

ASSUME StartupAssumption == UserFiles \in BOOLEAN /\ MaxFaults \in Nat

(* A process is not mistaken for what else a path may name. *)
ASSUME NamesAssumption == Daemons \intersect {"none", "file", "dead"} = {}

VARIABLES
  pc,       \* the call each process makes next
  held, known,
  ok,       \* the result of devmgr_daemon_run so far is DEVMGR_OK
  node,
  faults    \* failing calls, kills and signals so far

vars == <<pc, held, known, ok, node, faults>>

Calls == {"sigprocmask", "eventfd", "pthread_create", "open", "configure",
          "lstat", "unlink", "socket", "bind", "chmod", "listen",
          "epoll_create1", "timerfd_create", "signalfd", "tested", "epoll_ctl",
          "run", "close", "worker_destroy", "unlink_path"}
Ends == {"exited", "failed", "killed"}

Init ==
  /\ pc = [d \in Daemons |-> "sigprocmask"]
  /\ held = [d \in Daemons |-> {}] /\ known = [d \in Daemons |-> {}]
  /\ ok = [d \in Daemons |-> TRUE]
  /\ node \in [Paths -> IF UserFiles THEN {"none", "file"} ELSE {"none"}]
  /\ faults = 0

At(d, call) == pc[d] = call
Goto(d, call) == pc' = [pc EXCEPT ![d] = call]

(* The call fails: ok is lost and the process goes on at next. *)
FailTo(d, next) ==
  /\ faults < MaxFaults /\ faults' = faults + 1
  /\ ok' = [ok EXCEPT ![d] = FALSE]
  /\ Goto(d, next)

(* A socket whose descriptor is closed stays in the file system, dead. *)
Buried(d) == [p \in Paths |-> IF node[p] = d THEN "dead" ELSE node[p]]

Holding(d, resource) == held' = [held EXCEPT ![d] = @ \union {resource}]
Keeping(d, resource) == known' = [known EXCEPT ![d] = @ \union {resource}]

(***************************************************************************)
(* setup_context                                                           *)
(***************************************************************************)
BlockSignals(d) ==
  /\ At(d, "sigprocmask")
  /\ \/ Goto(d, "eventfd") /\ UNCHANGED <<ok, faults>>
     \/ FailTo(d, "close")
  /\ UNCHANGED <<held, known, node>>

(* devmgr_worker_init: worker->initialized is set last, and a failure      *)
(* takes back what was made before.                                        *)
CreateEventfd(d) ==
  /\ At(d, "eventfd")
  /\ \/ Holding(d, "eventfd") /\ Goto(d, "pthread_create")
        /\ UNCHANGED <<ok, faults>>
     \/ FailTo(d, "close") /\ UNCHANGED held
  /\ UNCHANGED <<known, node>>

CreateThread(d) ==
  /\ At(d, "pthread_create")
  /\ \/ /\ Holding(d, "thread")
        /\ known' = [known EXCEPT ![d] = @ \union {"eventfd", "thread"}]
        /\ Goto(d, "open")
        /\ UNCHANGED <<ok, faults>>
     \/ /\ FailTo(d, "close")
        /\ held' = [held EXCEPT ![d] = @ \ {"eventfd"}]
        /\ UNCHANGED known
  /\ UNCHANGED node

(* devmgr_transport_open: the terminal is opened, then configured.  The    *)
(* kernel lets several processes open one terminal.                        *)
OpenDevice(d) ==
  /\ At(d, "open")
  /\ \/ Holding(d, "tty") /\ Goto(d, "configure") /\ UNCHANGED <<ok, faults>>
     \/ FailTo(d, "close") /\ UNCHANGED held
  /\ UNCHANGED <<known, node>>

(* Mutant: the descriptor is not closed when the terminal is refused. *)
ConfigureUnclosed(d) ==
  /\ At(d, "configure")
  /\ \/ Keeping(d, "tty") /\ Goto(d, "lstat") /\ UNCHANGED <<ok, faults>>
     \/ FailTo(d, "close") /\ UNCHANGED known
  /\ UNCHANGED <<held, node>>

ConfigureSerial(d) ==
  /\ At(d, "configure")
  /\ \/ Keeping(d, "tty") /\ Goto(d, "lstat") /\ UNCHANGED <<ok, faults, held>>
     \/ /\ FailTo(d, "close")
        /\ held' = [held EXCEPT ![d] = @ \ {"tty"}]
        /\ UNCHANGED known
  /\ UNCHANGED node

(* create_listener.  Its failures are not looked at before three more      *)
(* descriptors have been made.                                             *)
Lstat(d) ==
  /\ At(d, "lstat")
  /\ \/ /\ node[Socket[d]] = "none" /\ Goto(d, "socket")
        /\ UNCHANGED <<ok, faults>>
     \/ /\ node[Socket[d]] \notin {"none", "file"} /\ Goto(d, "unlink")
        /\ UNCHANGED <<ok, faults>>
     \/ /\ node[Socket[d]] = "file" /\ Goto(d, "epoll_create1")
        /\ ok' = [ok EXCEPT ![d] = FALSE]
        /\ UNCHANGED faults
     \/ FailTo(d, "epoll_create1")
  /\ UNCHANGED <<held, known, node>>

UnlinkStale(d) ==
  /\ At(d, "unlink")
  /\ \/ /\ node' = [node EXCEPT ![Socket[d]] = "none"]
        /\ Goto(d, "socket") /\ UNCHANGED <<ok, faults>>
     \/ FailTo(d, "epoll_create1") /\ UNCHANGED node
  /\ UNCHANGED <<held, known>>

MakeSocket(d) ==
  /\ At(d, "socket")
  /\ \/ Holding(d, "listener") /\ Goto(d, "bind") /\ UNCHANGED <<ok, faults>>
     \/ FailTo(d, "epoll_create1") /\ UNCHANGED held
  /\ UNCHANGED <<known, node>>

(* unlink(path) after paths have become n, with failed calls before it in  *)
(* the same step.  Nobody looks at its result.                             *)
UnlinkIgnored(d, n, failed) ==
  /\ \/ node' = [n EXCEPT ![Socket[d]] = "none"] /\ faults' = faults + failed
     \/ node' = n /\ faults' = faults + failed + 1
  /\ faults' <= MaxFaults

(* bind, chmod or listen failed: close(fd) and unlink(path). *)
GiveUpListener(d, failed) ==
  /\ Goto(d, "epoll_create1")
  /\ ok' = [ok EXCEPT ![d] = FALSE]
  /\ held' = [held EXCEPT ![d] = @ \ {"listener"}]
  /\ UnlinkIgnored(d, Buried(d), failed)

Bind(d) ==
  /\ At(d, "bind")
  /\ \/ /\ node[Socket[d]] = "none"
        /\ node' = [node EXCEPT ![Socket[d]] = d]
        /\ Goto(d, "chmod") /\ UNCHANGED <<ok, faults, held>>
     \/ node[Socket[d]] # "none" /\ GiveUpListener(d, 0)
     \/ GiveUpListener(d, 1)
  /\ UNCHANGED known

Chmod(d) ==
  /\ At(d, "chmod")
  /\ \/ Goto(d, "listen") /\ UNCHANGED <<ok, faults, held, node>>
     \/ GiveUpListener(d, 1)
  /\ UNCHANGED known

Listen(d) ==
  /\ At(d, "listen")
  /\ \/ /\ Keeping(d, "listener")
        /\ Goto(d, "epoll_create1") /\ UNCHANGED <<ok, faults, held, node>>
     \/ GiveUpListener(d, 1) /\ UNCHANGED known

(* The other descriptors of the reactor, made one after the other. *)
Make(d, call, next) ==
  /\ At(d, call)
  /\ \/ /\ Holding(d, call) /\ Keeping(d, call)
        /\ Goto(d, next) /\ UNCHANGED <<ok, faults>>
     \/ FailTo(d, next) /\ UNCHANGED <<held, known>>
  /\ UNCHANGED node

MakeReactor(d) == \/ Make(d, "epoll_create1", "timerfd_create")
                  \/ Make(d, "timerfd_create", "signalfd")
                  \/ Make(d, "signalfd", "tested")

(* Mutant: the descriptors are not looked at. *)
TestNothing(d) ==
  /\ At(d, "tested")
  /\ \/ Goto(d, "epoll_ctl") /\ UNCHANGED <<ok, faults>>
     \/ FailTo(d, "close")
  /\ UNCHANGED <<held, known, node>>

(* The four descriptors are looked at, and the timer is set. *)
TestReactor(d) ==
  /\ At(d, "tested")
  /\ \/ Goto(d, IF ok[d] THEN "epoll_ctl" ELSE "close") /\ UNCHANGED <<ok, faults>>
     \/ FailTo(d, "close")
  /\ UNCHANGED <<held, known, node>>

(* The five registrations, and start_handshake. *)
Register(d) ==
  /\ At(d, "epoll_ctl")
  /\ \/ Goto(d, "run") /\ UNCHANGED <<ok, faults>>
     \/ FailTo(d, "close")
  /\ UNCHANGED <<held, known, node>>

(***************************************************************************)
(* The loop ends on a signal, with OK, or on an error.                     *)
(***************************************************************************)
Leave(d) ==
  /\ At(d, "run")
  /\ faults < MaxFaults /\ faults' = faults + 1
  /\ ok' \in {ok, [ok EXCEPT ![d] = FALSE]}
  /\ Goto(d, "close")
  /\ UNCHANGED <<held, known, node>>

(* cleanup_context: the descriptors, the worker, the path. *)
Descriptors == {"signalfd", "timerfd_create", "epoll_create1", "listener", "tty"}

CloseDescriptors(d) ==
  /\ At(d, "close")
  /\ held' = [held EXCEPT ![d] = @ \ (known[d] \intersect Descriptors)]
  /\ known' = [known EXCEPT ![d] = @ \ Descriptors]
  /\ node' = IF "listener" \in known[d] THEN Buried(d) ELSE node
  /\ Goto(d, "worker_destroy")
  /\ UNCHANGED <<ok, faults>>

(* Mutant: worker->initialized is not looked at. *)
JoinRegardless(d) ==
  /\ At(d, "worker_destroy")
  /\ "thread" \in known[d]
  /\ held' = [held EXCEPT ![d] = @ \ known[d]]
  /\ known' = [known EXCEPT ![d] = {}]
  /\ Goto(d, "unlink_path")
  /\ UNCHANGED <<ok, node, faults>>

(* devmgr_worker_destroy returns at once when there is no worker. *)
DestroyWorker(d) ==
  /\ At(d, "worker_destroy")
  /\ held' = [held EXCEPT ![d] = @ \ known[d]]
  /\ known' = [known EXCEPT ![d] = {}]
  /\ Goto(d, "unlink_path")
  /\ UNCHANGED <<ok, node, faults>>

UnlinkPath(d) ==
  /\ At(d, "unlink_path")
  /\ UnlinkIgnored(d, node, 0)
  /\ Goto(d, IF ok[d] THEN "exited" ELSE "failed")
  /\ UNCHANGED <<held, known, ok>>

(***************************************************************************)
(* The world                                                               *)
(***************************************************************************)
(* SIGKILL: the kernel closes everything, nothing is unlinked. *)
Kill(d) ==
  /\ pc[d] \in Calls
  /\ faults < MaxFaults /\ faults' = faults + 1
  /\ Goto(d, "killed")
  /\ held' = [held EXCEPT ![d] = {}] /\ known' = [known EXCEPT ![d] = {}]
  /\ node' = Buried(d)
  /\ UNCHANGED ok

(* Restart=on-failure *)
Restart(d) ==
  /\ pc[d] \in {"failed", "killed"}
  /\ Goto(d, "sigprocmask")
  /\ ok' = [ok EXCEPT ![d] = TRUE]
  /\ held' = [held EXCEPT ![d] = {}]
  /\ UNCHANGED <<known, node, faults>>

UserActs ==
  /\ UserFiles
  /\ \E p \in Paths :
       \/ node[p] = "none" /\ node' = [node EXCEPT ![p] = "file"]
       \/ node[p] = "file" /\ node' = [node EXCEPT ![p] = "none"]
  /\ UNCHANGED <<pc, held, known, ok, faults>>

Setup(d) == \/ BlockSignals(d) \/ CreateEventfd(d) \/ CreateThread(d)
            \/ OpenDevice(d) \/ ConfigureSerial(d)
            \/ Lstat(d) \/ UnlinkStale(d) \/ MakeSocket(d)
            \/ Bind(d) \/ Chmod(d) \/ Listen(d)
            \/ MakeReactor(d) \/ TestReactor(d) \/ Register(d)

CleanUp(d) == CloseDescriptors(d) \/ DestroyWorker(d) \/ UnlinkPath(d)

Next == \/ \E d \in Daemons : Setup(d) \/ Leave(d) \/ CleanUp(d) \/ Kill(d)
                              \/ Restart(d)
        \/ UserActs

(* Processes run, and the service manager restarts them. *)
Spec == Init /\ [][Next]_vars
          /\ \A d \in Daemons : WF_vars(Setup(d) \/ CleanUp(d) \/ Restart(d))

(***************************************************************************)
(* Properties                                                              *)
(***************************************************************************)
(* Whatever call fails, a process that returns from devmgr_daemon_run has  *)
(* released all it had taken: every partial setup is undone.  The socket   *)
(* may stay in the file system, because a failing unlink is ignored, but   *)
(* no path leads to the process any more: its listener was closed.         *)
NothingLeftBehind ==
  \A d \in Daemons :
    pc[d] \in {"exited", "failed"} =>
      held[d] = {} /\ \A p \in Paths : node[p] # d

(* While a daemon runs, its path names the socket it listens on: neither a *)
(* socket left behind by a kill nor a file of a user gets in the way.      *)
PathLeadsToDaemon == \A d \in Daemons : pc[d] = "run" => node[Socket[d]] = d

(* What makes the two inductive, for daemons that have a path each.  What  *)
(* a process holds is recorded, but for the one resource that is not       *)
(* complete yet; what is still to be made, or released, is not recorded.   *)
PathsApart == \A d, e \in Daemons : Socket[d] = Socket[e] => d = e

Resources == {"eventfd", "thread"} \union Descriptors

StartupTypeOK ==
  /\ pc \in [Daemons -> Calls \union Ends]
  /\ held \in [Daemons -> SUBSET Resources]
  /\ known \in [Daemons -> SUBSET Resources]
  /\ ok \in [Daemons -> BOOLEAN]
  /\ node \in [Paths -> {"none", "file", "dead"} \union Daemons]

Unrecorded(call) ==
  CASE call = "pthread_create"             -> {"eventfd"}
    [] call = "configure"                  -> {"tty"}
    [] call \in {"bind", "chmod", "listen"} -> {"listener"}
    [] OTHER                               -> {}

HeldIsRecorded ==
  \A d \in Daemons :
    /\ held[d] = known[d] \union Unrecorded(pc[d])
    /\ pc[d] \in {"sigprocmask", "eventfd", "pthread_create", "unlink_path"} \union Ends =>
         known[d] = {}
    /\ pc[d] \in {"open", "configure"} => "tty" \notin known[d]
    /\ pc[d] \in {"open", "configure", "lstat", "unlink", "socket", "bind",
                  "chmod", "listen"} => "listener" \notin known[d]
    /\ pc[d] = "worker_destroy" => "listener" \notin known[d]

(* From bind on, the path is the daemon's until a call fails or it ends,   *)
(* and a path leads only to a process that listens.                        *)
PathIsBound ==
  \A d \in Daemons :
    /\ \/ pc[d] \in {"chmod", "listen", "epoll_ctl", "run"}
       \/ /\ pc[d] \in {"epoll_create1", "timerfd_create", "signalfd", "tested"}
          /\ ok[d]
       => node[Socket[d]] = d
    /\ \A p \in Paths : node[p] = d => "listener" \in held[d]

StartupInv == StartupTypeOK /\ HeldIsRecorded /\ PathIsBound

(* Whatever failed and wherever it was killed before, a daemon that is     *)
(* restarted comes up, unless it was told to stop or a file that is not a  *)
(* socket keeps returning to its path.                                     *)
RestartSucceeds ==
  \A d \in Daemons :
    <>[](node[Socket[d]] # "file") => <>[](pc[d] \in {"run", "exited"})
=============================================================================
