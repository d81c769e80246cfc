--------------------------- MODULE StartupProofs ---------------------------
(***************************************************************************)
(* Setup, cleanup and restart of any number of daemons, with any number of *)
(* failing calls and kills: nothing leaks and a running daemon owns its    *)
(* path, provided that no two daemons are given the same path.             *)
(***************************************************************************)
EXTENDS Startup, TLAPS

(* The invariant of one process. *)
Own(d) ==
  /\ held[d] = known[d] \union Unrecorded(pc[d])
  /\ pc[d] \in {"sigprocmask", "eventfd", "pthread_create", "unlink_path"} \union Ends =>
       known[d] = {}
  /\ pc[d] \in {"open", "configure"} => "tty" \notin known[d]
  /\ pc[d] \in {"open", "configure", "lstat", "unlink", "socket", "bind",
                "chmod", "listen"} => "listener" \notin known[d]
  /\ pc[d] = "worker_destroy" => "listener" \notin known[d]
  /\ \/ pc[d] \in {"chmod", "listen", "epoll_ctl", "run"}
     \/ /\ pc[d] \in {"epoll_create1", "timerfd_create", "signalfd", "tested"}
        /\ ok[d]
     => node[Socket[d]] = d
  /\ \A p \in Paths : node[p] = d => "listener" \in held[d]

LEMMA InvIsOwn == StartupInv <=> StartupTypeOK /\ \A d \in Daemons : Own(d)
  BY DEF StartupInv, HeldIsRecorded, PathIsBound, Own

(* A process touches nothing of another one, nor the path of another one   *)
(* but for a socket of its own that is there, and makes no path lead to    *)
(* another one.                                                            *)
TouchesOnly(d) ==
  /\ \A e \in Daemons \ {d} : /\ pc'[e] = pc[e] /\ held'[e] = held[e]
                              /\ known'[e] = known[e] /\ ok'[e] = ok[e]
  /\ \A p \in Paths \ {Socket[d]} : node[p] # d => node'[p] = node[p]
  /\ \A p \in Paths : node'[p] \in {node[p], "none", "dead", d}

LEMMA OwnSuffices ==
  ASSUME PathsApart, StartupInv, NEW d \in Daemons, StartupTypeOK', TouchesOnly(d), Own(d)'
  PROVE  StartupInv'
<1>1. ASSUME NEW e \in Daemons, e # d
      PROVE  Own(e)'
  <2>1. /\ pc'[e] = pc[e] /\ held'[e] = held[e] /\ known'[e] = known[e] /\ ok'[e] = ok[e]
        BY <1>1 DEF TouchesOnly
  <2>2. Socket[e] \in Paths /\ Socket[e] # Socket[d]
        BY <1>1 DEF PathsApart, Paths
  <2>3. node[Socket[e]] # d => node'[Socket[e]] = node[Socket[e]]
        BY <2>2 DEF TouchesOnly
  <2>4. Own(e)
        BY InvIsOwn
  <2>5. node[Socket[e]] = e => node'[Socket[e]] = e
        BY <1>1, <2>3
  <2>6. ASSUME NEW p \in Paths, node'[p] = e
        PROVE  "listener" \in held'[e]
    <3>1. e \notin {"none", "dead", d}
          BY <1>1, NamesAssumption
    <3>2. node[p] = e
          BY <2>6, <3>1 DEF TouchesOnly
    <3> QED
        BY <2>1, <2>4, <3>2 DEF Own
  <2> QED
      BY <2>1, <2>4, <2>5, <2>6 DEF Own
<1> QED
    BY <1>1 DEF StartupInv, HeldIsRecorded, PathIsBound, Own

(* The calls of setup_context before the socket is made. *)
LEMMA EarlySetupStep ==
  ASSUME PathsApart, StartupInv, NEW d \in Daemons,
         \/ BlockSignals(d) \/ CreateEventfd(d) \/ CreateThread(d) \/ OpenDevice(d)
         \/ ConfigureSerial(d) \/ Lstat(d) \/ MakeSocket(d)
         \/ TestReactor(d) \/ Register(d) \/ Leave(d)
  PROVE  StartupInv'
<1>1. StartupTypeOK /\ Own(d)
      BY InvIsOwn
<1>2. UNCHANGED node
      BY DEF BlockSignals, CreateEventfd, CreateThread, OpenDevice, ConfigureSerial,
         Lstat, MakeSocket, TestReactor, Register, Leave
<1>3. ok' = ok \/ ok' = [ok EXCEPT ![d] = FALSE]
      BY DEF BlockSignals, CreateEventfd, CreateThread, OpenDevice, ConfigureSerial,
         Lstat, MakeSocket, TestReactor, Register, Leave, FailTo
<1>4. CASE BlockSignals(d) \/ Lstat(d) \/ TestReactor(d) \/ Register(d) \/ Leave(d)
  <2>1. UNCHANGED <<held, known>>
        BY <1>4 DEF BlockSignals, Lstat, TestReactor, Register, Leave
  <2>2. \/ pc[d] = "sigprocmask" /\ pc' = [pc EXCEPT ![d] = "eventfd"]
        \/ pc[d] = "lstat" /\ pc' = [pc EXCEPT ![d] = "socket"]
        \/ pc[d] = "lstat" /\ pc' = [pc EXCEPT ![d] = "unlink"]
        \/ pc[d] = "lstat" /\ pc' = [pc EXCEPT ![d] = "epoll_create1"]
           /\ ok' = [ok EXCEPT ![d] = FALSE]
        \/ pc[d] = "tested" /\ pc' = [pc EXCEPT ![d] = "epoll_ctl"] /\ ok[d]
        \/ pc[d] = "epoll_ctl" /\ pc' = [pc EXCEPT ![d] = "run"]
        \/ pc[d] \in {"sigprocmask", "tested", "epoll_ctl", "run"}
           /\ pc' = [pc EXCEPT ![d] = "close"]
        BY <1>4 DEF BlockSignals, Lstat, TestReactor, Register, Leave, FailTo, Goto, At
  <2>3. StartupTypeOK'
        BY <1>1, <1>2, <1>3, <2>1, <2>2 DEF StartupTypeOK, Calls
  <2>4. TouchesOnly(d)
        BY <1>1, <1>2, <1>3, <2>1, <2>2 DEF StartupTypeOK, TouchesOnly
  <2>5. Own(d)'
        BY <1>1, <1>2, <1>3, <2>1, <2>2 DEF StartupTypeOK, Own, Unrecorded, Ends
  <2> QED
      BY <2>3, <2>4, <2>5, OwnSuffices
<1>5. CASE CreateEventfd(d) \/ OpenDevice(d) \/ MakeSocket(d)
  <2>1. UNCHANGED known
        BY <1>5 DEF CreateEventfd, OpenDevice, MakeSocket
  <2>2. \/ /\ pc[d] = "eventfd" /\ pc' = [pc EXCEPT ![d] = "pthread_create"]
           /\ held' = [held EXCEPT ![d] = @ \union {"eventfd"}]
        \/ /\ pc[d] = "open" /\ pc' = [pc EXCEPT ![d] = "configure"]
           /\ held' = [held EXCEPT ![d] = @ \union {"tty"}]
        \/ /\ pc[d] = "socket" /\ pc' = [pc EXCEPT ![d] = "bind"]
           /\ held' = [held EXCEPT ![d] = @ \union {"listener"}]
        \/ /\ pc[d] \in {"eventfd", "open"} /\ pc' = [pc EXCEPT ![d] = "close"]
           /\ held' = held
        \/ /\ pc[d] = "socket" /\ pc' = [pc EXCEPT ![d] = "epoll_create1"]
           /\ held' = held /\ ok' = [ok EXCEPT ![d] = FALSE]
        BY <1>5 DEF CreateEventfd, OpenDevice, MakeSocket, FailTo, Goto, At, Holding
  <2>3. StartupTypeOK'
    <3>1. {"eventfd", "tty", "listener"} \subseteq Resources
          BY DEF Resources, Descriptors
    <3>2. held' \in [Daemons -> SUBSET Resources]
          BY <1>1, <2>2, <3>1 DEF StartupTypeOK
    <3>3. pc' \in [Daemons -> Calls \union Ends]
          BY <1>1, <2>2 DEF StartupTypeOK, Calls
    <3> QED
        BY <1>1, <1>2, <1>3, <2>1, <3>2, <3>3 DEF StartupTypeOK
  <2>4. TouchesOnly(d)
        BY <1>1, <1>2, <1>3, <2>1, <2>2 DEF StartupTypeOK, TouchesOnly
  <2>5. Own(d)'
        BY <1>1, <1>2, <1>3, <2>1, <2>2 DEF StartupTypeOK, Own, Unrecorded, Ends
  <2> QED
      BY <2>3, <2>4, <2>5, OwnSuffices
<1>6. CASE CreateThread(d) \/ ConfigureSerial(d)
  <2>1. \/ /\ pc[d] = "pthread_create" /\ pc' = [pc EXCEPT ![d] = "open"]
           /\ held' = [held EXCEPT ![d] = @ \union {"thread"}]
           /\ known' = [known EXCEPT ![d] = @ \union {"eventfd", "thread"}]
        \/ /\ pc[d] = "configure" /\ pc' = [pc EXCEPT ![d] = "lstat"]
           /\ known' = [known EXCEPT ![d] = @ \union {"tty"}]
           /\ held' = held
        \/ /\ pc[d] = "pthread_create" /\ pc' = [pc EXCEPT ![d] = "close"]
           /\ held' = [held EXCEPT ![d] = @ \ {"eventfd"}] /\ known' = known
        \/ /\ pc[d] = "configure" /\ pc' = [pc EXCEPT ![d] = "close"]
           /\ held' = [held EXCEPT ![d] = @ \ {"tty"}] /\ known' = known
        BY <1>6 DEF CreateThread, ConfigureSerial, FailTo, Goto, At, Holding, Keeping
  <2>2. StartupTypeOK'
    <3>1. {"eventfd", "thread", "tty"} \subseteq Resources
          BY DEF Resources, Descriptors
    <3>2. held' \in [Daemons -> SUBSET Resources] /\ known' \in [Daemons -> SUBSET Resources]
          BY <1>1, <2>1, <3>1 DEF StartupTypeOK
    <3>3. pc' \in [Daemons -> Calls \union Ends]
          BY <1>1, <2>1 DEF StartupTypeOK, Calls
    <3> QED
        BY <1>1, <1>2, <1>3, <3>2, <3>3 DEF StartupTypeOK
  <2>3. TouchesOnly(d)
        BY <1>1, <1>2, <1>3, <2>1 DEF StartupTypeOK, TouchesOnly
  <2>4. Own(d)'
        BY <1>1, <1>2, <1>3, <2>1 DEF StartupTypeOK, Own, Unrecorded, Ends
  <2> QED
      BY <2>2, <2>3, <2>4, OwnSuffices
<1> QED
    BY <1>4, <1>5, <1>6

(* What happens to the path when the socket of a process is closed. *)
LEMMA BuriedNode ==
  ASSUME StartupTypeOK, NEW d \in Daemons
  PROVE  /\ Buried(d) \in [Paths -> {"none", "file", "dead"} \union Daemons]
         /\ \A p \in Paths : node[p] # d => Buried(d)[p] = node[p]
         /\ \A p \in Paths : Buried(d)[p] # d /\ Buried(d)[p] \in {node[p], "dead"}
  BY NamesAssumption DEF StartupTypeOK, Buried

(* bind, chmod or listen failed. *)
LEMMA GiveUpStep ==
  ASSUME PathsApart, StartupInv, NEW d \in Daemons,
         pc[d] \in {"bind", "chmod", "listen"}, NEW failed,
         GiveUpListener(d, failed), UNCHANGED known
  PROVE  StartupInv'
<1>1. StartupTypeOK /\ Own(d) /\ Socket[d] \in Paths
      BY InvIsOwn DEF Paths
<1>2. /\ pc' = [pc EXCEPT ![d] = "epoll_create1"] /\ ok' = [ok EXCEPT ![d] = FALSE]
      /\ held' = [held EXCEPT ![d] = @ \ {"listener"}]
      /\ node' = [Buried(d) EXCEPT ![Socket[d]] = "none"] \/ node' = Buried(d)
      BY DEF GiveUpListener, UnlinkIgnored, Goto
<1>3. /\ node' \in [Paths -> {"none", "file", "dead"} \union Daemons]
      /\ \A p \in Paths \ {Socket[d]} : node[p] # d => node'[p] = node[p]
      /\ \A p \in Paths : node'[p] # d /\ node'[p] \in {node[p], "none", "dead", d}
      BY <1>1, <1>2, BuriedNode, NamesAssumption
<1>4. StartupTypeOK'
      BY <1>1, <1>2, <1>3 DEF StartupTypeOK, Calls
<1>5. TouchesOnly(d)
      BY <1>1, <1>2, <1>3 DEF StartupTypeOK, TouchesOnly
<1>6. Own(d)'
      BY <1>1, <1>2, <1>3 DEF StartupTypeOK, Own, Unrecorded, Ends
<1> QED
    BY <1>4, <1>5, <1>6, OwnSuffices

(* create_listener: the stale socket, and what becomes of the new one. *)
LEMMA ListenerStep ==
  ASSUME PathsApart, StartupInv, NEW d \in Daemons,
         UnlinkStale(d) \/ Bind(d) \/ Chmod(d) \/ Listen(d)
  PROVE  StartupInv'
<1>1. StartupTypeOK /\ Own(d) /\ Socket[d] \in Paths
      BY InvIsOwn DEF Paths
<1>2. CASE /\ pc[d] \in {"bind", "chmod", "listen"}
           /\ GiveUpListener(d, 0) \/ GiveUpListener(d, 1)
           /\ UNCHANGED known
      BY <1>2, GiveUpStep
<1>3. CASE UnlinkStale(d)
  <2>1. /\ UNCHANGED <<held, known>> /\ pc[d] = "unlink"
        /\ \/ /\ pc' = [pc EXCEPT ![d] = "socket"] /\ ok' = ok
              /\ node' = [node EXCEPT ![Socket[d]] = "none"]
           \/ /\ pc' = [pc EXCEPT ![d] = "epoll_create1"] /\ ok' = [ok EXCEPT ![d] = FALSE]
              /\ node' = node
        BY <1>3 DEF UnlinkStale, FailTo, Goto, At
  <2>2. StartupTypeOK'
        BY <1>1, <2>1 DEF StartupTypeOK, Calls
  <2>3. TouchesOnly(d)
        BY <1>1, <2>1 DEF StartupTypeOK, TouchesOnly
  <2>4. \A p \in Paths : node'[p] = d => node[p] = d
        BY <1>1, <2>1, NamesAssumption DEF StartupTypeOK
  <2>5. Own(d)'
        BY <1>1, <2>1, <2>4 DEF StartupTypeOK, Own, Unrecorded, Ends
  <2> QED
      BY <2>2, <2>3, <2>5, OwnSuffices
<1>4. CASE /\ UNCHANGED <<ok, held>>
           /\ \/ /\ pc[d] = "bind" /\ pc' = [pc EXCEPT ![d] = "chmod"]
                 /\ node' = [node EXCEPT ![Socket[d]] = d] /\ UNCHANGED known
              \/ /\ pc[d] = "chmod" /\ pc' = [pc EXCEPT ![d] = "listen"]
                 /\ UNCHANGED <<node, known>>
              \/ /\ pc[d] = "listen" /\ pc' = [pc EXCEPT ![d] = "epoll_create1"]
                 /\ UNCHANGED node
                 /\ known' = [known EXCEPT ![d] = @ \union {"listener"}]
  <2>1. StartupTypeOK'
    <3>1. "listener" \in Resources
          BY DEF Resources, Descriptors
    <3>2. known' \in [Daemons -> SUBSET Resources]
          BY <1>1, <1>4, <3>1 DEF StartupTypeOK
    <3> QED
        BY <1>1, <1>4, <3>2 DEF StartupTypeOK, Calls
  <2>2. TouchesOnly(d)
        BY <1>1, <1>4 DEF StartupTypeOK, TouchesOnly
  <2>3. Own(d)'
        BY <1>1, <1>4 DEF StartupTypeOK, Own, Unrecorded, Ends
  <2> QED
      BY <2>1, <2>2, <2>3, OwnSuffices
<1>5. CASE Bind(d)
      BY <1>2, <1>4, <1>5 DEF Bind, At, Goto
<1>6. CASE Chmod(d)
      BY <1>2, <1>4, <1>6 DEF Chmod, At, Goto
<1>7. CASE Listen(d)
      BY <1>2, <1>4, <1>7 DEF Listen, At, Goto, Keeping
<1> QED
    BY <1>3, <1>5, <1>6, <1>7

(* The other descriptors, one after the other. *)
LEMMA MakeStep ==
  ASSUME PathsApart, StartupInv, NEW d \in Daemons, MakeReactor(d)
  PROVE  StartupInv'
<1>1. StartupTypeOK /\ Own(d)
      BY InvIsOwn
<1>2. PICK call, next :
        /\ call \in {"epoll_create1", "timerfd_create", "signalfd"}
        /\ next \in {"timerfd_create", "signalfd", "tested"}
        /\ Make(d, call, next)
      BY DEF MakeReactor
<1>3. /\ pc[d] = call /\ pc' = [pc EXCEPT ![d] = next] /\ UNCHANGED node
      /\ \/ /\ held' = [held EXCEPT ![d] = @ \union {call}]
            /\ known' = [known EXCEPT ![d] = @ \union {call}] /\ ok' = ok
         \/ /\ held' = held /\ known' = known /\ ok' = [ok EXCEPT ![d] = FALSE]
      BY <1>2 DEF Make, At, Goto, FailTo, Holding, Keeping
<1>4. StartupTypeOK'
  <2>1. call \in Resources
        BY <1>2 DEF Resources, Descriptors
  <2>2. held' \in [Daemons -> SUBSET Resources] /\ known' \in [Daemons -> SUBSET Resources]
        BY <1>1, <1>3, <2>1 DEF StartupTypeOK
  <2>3. pc' \in [Daemons -> Calls \union Ends]
        BY <1>1, <1>2, <1>3 DEF StartupTypeOK, Calls
  <2> QED
      BY <1>1, <1>3, <2>2, <2>3 DEF StartupTypeOK
<1>5. TouchesOnly(d)
      BY <1>1, <1>3 DEF StartupTypeOK, TouchesOnly
<1>6. Own(d)'
  <2>1. pc'[d] = next /\ Unrecorded(call) = {} /\ Unrecorded(next) = {}
        BY <1>1, <1>2, <1>3 DEF StartupTypeOK, Unrecorded
  <2>2. held[d] = known[d]
        BY <1>1, <1>3, <2>1 DEF Own
  <2>3. held'[d] = known'[d] /\ held[d] \subseteq held'[d]
    <3>1. \/ held'[d] = held[d] \union {call} /\ known'[d] = known[d] \union {call}
          \/ held'[d] = held[d] /\ known'[d] = known[d]
          BY <1>1, <1>3 DEF StartupTypeOK
    <3> QED
        BY <2>2, <3>1
  <2>4. ok'[d] => ok[d]
        BY <1>1, <1>3 DEF StartupTypeOK
  <2>5. \A p \in Paths : node'[p] = d => "listener" \in held'[d]
        BY <1>1, <1>3, <2>3 DEF Own
  <2>6. ok'[d] => node'[Socket[d]] = d
        BY <1>1, <1>2, <1>3, <2>4 DEF Own
  <2>7. /\ next \notin {"sigprocmask", "eventfd", "pthread_create", "unlink_path",
                       "open", "configure", "lstat", "unlink", "socket", "bind",
                       "chmod", "listen", "worker_destroy", "epoll_ctl", "run"}
        /\ next \notin Ends
        BY <1>2 DEF Ends
  <2> QED
      BY <2>1, <2>3, <2>5, <2>6, <2>7 DEF Own
<1> QED
    BY <1>4, <1>5, <1>6, OwnSuffices

(* cleanup_context, a kill and a restart. *)
LEMMA EndStep ==
  ASSUME PathsApart, StartupInv, NEW d \in Daemons,
         CleanUp(d) \/ Kill(d) \/ Restart(d)
  PROVE  StartupInv'
<1>1. StartupTypeOK /\ Own(d) /\ Socket[d] \in Paths
      BY InvIsOwn DEF Paths
<1>2. CASE CloseDescriptors(d)
  <2>1. /\ pc[d] = "close" /\ pc' = [pc EXCEPT ![d] = "worker_destroy"]
        /\ held' = [held EXCEPT ![d] = @ \ (known[d] \intersect Descriptors)]
        /\ known' = [known EXCEPT ![d] = @ \ Descriptors]
        /\ node' = Buried(d) \/ ("listener" \notin known[d] /\ node' = node)
        /\ UNCHANGED ok
        BY <1>2 DEF CloseDescriptors, At, Goto
  <2>2. /\ node' \in [Paths -> {"none", "file", "dead"} \union Daemons]
        /\ \A p \in Paths \ {Socket[d]} : node[p] # d => node'[p] = node[p]
        /\ \A p \in Paths : node'[p] \in {node[p], "none", "dead", d}
        BY <1>1, <2>1, BuriedNode DEF StartupTypeOK
  <2>3. StartupTypeOK'
        BY <1>1, <2>1, <2>2 DEF StartupTypeOK, Calls
  <2>4. TouchesOnly(d)
        BY <1>1, <2>1, <2>2 DEF StartupTypeOK, TouchesOnly
  <2>5. \A p \in Paths : node'[p] # d
        BY <1>1, <2>1, BuriedNode DEF Own, Unrecorded
  <2>6. known'[d] = known[d] \ Descriptors /\ "listener" \notin known'[d]
        BY <1>1, <2>1 DEF StartupTypeOK, Descriptors
  <2>7. held'[d] = known'[d]
        BY <1>1, <2>1, <2>6 DEF StartupTypeOK, Own, Unrecorded
  <2>8. Own(d)'
        BY <1>1, <2>1, <2>5, <2>6, <2>7 DEF StartupTypeOK, Own, Unrecorded, Ends
  <2> QED
      BY <2>3, <2>4, <2>8, OwnSuffices
<1>3. CASE DestroyWorker(d)
  <2>1. /\ pc[d] = "worker_destroy" /\ pc' = [pc EXCEPT ![d] = "unlink_path"]
        /\ held' = [held EXCEPT ![d] = @ \ known[d]]
        /\ known' = [known EXCEPT ![d] = {}]
        /\ UNCHANGED <<ok, node>>
        BY <1>3 DEF DestroyWorker, At, Goto
  <2>2. StartupTypeOK'
        BY <1>1, <2>1 DEF StartupTypeOK, Calls
  <2>3. TouchesOnly(d)
        BY <1>1, <2>1 DEF StartupTypeOK, TouchesOnly
  <2>4. Own(d)'
        BY <1>1, <2>1 DEF StartupTypeOK, Own, Unrecorded, Ends
  <2> QED
      BY <2>2, <2>3, <2>4, OwnSuffices
<1>4. CASE UnlinkPath(d)
  <2>1. /\ pc[d] = "unlink_path"
        /\ pc' = [pc EXCEPT ![d] = "exited"] \/ pc' = [pc EXCEPT ![d] = "failed"]
        /\ node' = [node EXCEPT ![Socket[d]] = "none"] \/ node' = node
        /\ UNCHANGED <<held, known, ok>>
        BY <1>4 DEF UnlinkPath, UnlinkIgnored, At, Goto
  <2>2. StartupTypeOK'
        BY <1>1, <2>1 DEF StartupTypeOK, Ends
  <2>3. TouchesOnly(d)
        BY <1>1, <2>1 DEF StartupTypeOK, TouchesOnly
  <2>4. \A p \in Paths : node'[p] = d => node[p] = d
        BY <1>1, <2>1, NamesAssumption DEF StartupTypeOK
  <2>5. Own(d)'
        BY <1>1, <2>1, <2>4 DEF StartupTypeOK, Own, Unrecorded, Ends
  <2> QED
      BY <2>2, <2>3, <2>5, OwnSuffices
<1>5. CASE Kill(d)
  <2>1. /\ pc' = [pc EXCEPT ![d] = "killed"]
        /\ held' = [held EXCEPT ![d] = {}] /\ known' = [known EXCEPT ![d] = {}]
        /\ node' = Buried(d) /\ UNCHANGED ok
        BY <1>5 DEF Kill, Goto
  <2>2. /\ node' \in [Paths -> {"none", "file", "dead"} \union Daemons]
        /\ \A p \in Paths \ {Socket[d]} : node[p] # d => node'[p] = node[p]
        /\ \A p \in Paths : node'[p] # d /\ node'[p] \in {node[p], "none", "dead", d}
        BY <1>1, <2>1, BuriedNode
  <2>3. StartupTypeOK'
        BY <1>1, <2>1, <2>2 DEF StartupTypeOK, Ends
  <2>4. TouchesOnly(d)
        BY <1>1, <2>1, <2>2 DEF StartupTypeOK, TouchesOnly
  <2>5. Own(d)'
        BY <1>1, <2>1, <2>2 DEF StartupTypeOK, Own, Unrecorded, Ends
  <2> QED
      BY <2>3, <2>4, <2>5, OwnSuffices
<1>6. CASE Restart(d)
  <2>1. /\ pc[d] \in {"failed", "killed"} /\ pc' = [pc EXCEPT ![d] = "sigprocmask"]
        /\ ok' = [ok EXCEPT ![d] = TRUE]
        /\ held' = [held EXCEPT ![d] = {}] /\ UNCHANGED <<known, node>>
        BY <1>6 DEF Restart, Goto
  <2>2. StartupTypeOK'
        BY <1>1, <2>1 DEF StartupTypeOK, Calls
  <2>3. TouchesOnly(d)
        BY <1>1, <2>1 DEF StartupTypeOK, TouchesOnly
  <2>4. Own(d)'
        BY <1>1, <2>1 DEF StartupTypeOK, Own, Unrecorded, Ends
  <2> QED
      BY <2>2, <2>3, <2>4, OwnSuffices
<1> QED
    BY <1>2, <1>3, <1>4, <1>5, <1>6 DEF CleanUp

(* A user who creates or removes a file touches no socket. *)
LEMMA UserStep ==
  ASSUME StartupInv, UserActs
  PROVE  StartupInv'
<1>1. StartupTypeOK /\ \A d \in Daemons : Own(d)
      BY InvIsOwn
<1>2. UNCHANGED <<pc, held, known, ok>>
      BY DEF UserActs
<1>3. PICK p \in Paths : \/ node[p] = "none" /\ node' = [node EXCEPT ![p] = "file"]
                         \/ node[p] = "file" /\ node' = [node EXCEPT ![p] = "none"]
      BY DEF UserActs
<1>4. StartupTypeOK'
      BY <1>1, <1>2, <1>3 DEF StartupTypeOK
<1>5. ASSUME NEW d \in Daemons
      PROVE  Own(d)'
  <2>1. d \notin {"none", "file"} /\ Socket[d] \in Paths
        BY NamesAssumption DEF Paths
  <2>2. node[Socket[d]] = d => node'[Socket[d]] = d
        BY <1>1, <1>3, <2>1 DEF StartupTypeOK
  <2>3. \A q \in Paths : node'[q] = d => node[q] = d
        BY <1>1, <1>3, <2>1 DEF StartupTypeOK
  <2>4. Own(d)
        BY <1>1
  <2> QED
      BY <1>2, <2>2, <2>3, <2>4 DEF Own
<1> QED
    BY <1>4, <1>5 DEF StartupInv, HeldIsRecorded, PathIsBound, Own

LEMMA StartupInitInv == Init => StartupInv
<1> SUFFICES ASSUME Init PROVE StartupInv
    OBVIOUS
<1>1. StartupTypeOK
      BY DEF Init, StartupTypeOK, Calls
<1>2. \A d \in Daemons : \A p \in Paths : node[p] # d
      BY NamesAssumption DEF Init
<1>3. \A d \in Daemons : Own(d)
      BY <1>2 DEF Init, Own, Unrecorded, Ends
<1> QED
    BY <1>1, <1>3, InvIsOwn

LEMMA StartupInvStep == PathsApart /\ StartupInv /\ [Next]_vars => StartupInv'
<1> SUFFICES ASSUME PathsApart, StartupInv, [Next]_vars
             PROVE  StartupInv'
    OBVIOUS
<1>1. ASSUME NEW d \in Daemons, Setup(d) \/ Leave(d) \/ CleanUp(d) \/ Kill(d) \/ Restart(d)
      PROVE  StartupInv'
      BY <1>1, EarlySetupStep, ListenerStep, MakeStep, EndStep DEF Setup
<1>2. CASE UNCHANGED vars
      BY <1>2 DEF vars, StartupInv, StartupTypeOK, HeldIsRecorded, PathIsBound
<1> QED
    BY <1>1, <1>2, UserStep DEF Next

(* What the processes hold is what daemon_context records, and paths are   *)
(* bound as the calls of setup_context say, with any number of daemons,    *)
(* failing calls, kills and files of users.                                *)
THEOREM StartupInvariance == PathsApart => (Spec => []StartupInv)
<1> SUFFICES ASSUME PathsApart
             PROVE  Spec => []StartupInv
    OBVIOUS
<1>1. StartupInv /\ [Next]_vars => StartupInv'
      BY StartupInvStep
<1> QED
    BY <1>1, StartupInitInv, PTL DEF Spec

(* Whatever call of setup_context fails, devmgr_daemon_run returns without *)
(* a descriptor or a thread left behind, and no path leads to it any more. *)
THEOREM SetupIsUndone == PathsApart => (Spec => []NothingLeftBehind)
<1> SUFFICES ASSUME PathsApart
             PROVE  Spec => []NothingLeftBehind
    OBVIOUS
<1>1. StartupInv => NothingLeftBehind
      BY DEF StartupInv, HeldIsRecorded, PathIsBound, NothingLeftBehind, Unrecorded, Ends
<1>2. Spec => []StartupInv
      BY StartupInvariance
<1> QED
    BY <1>1, <1>2, PTL

(* The path of a running daemon names its own socket, whatever earlier     *)
(* processes, kills and users left at it.                                  *)
THEOREM RunningDaemonsOwnTheirPaths == PathsApart => (Spec => []PathLeadsToDaemon)
<1> SUFFICES ASSUME PathsApart
             PROVE  Spec => []PathLeadsToDaemon
    OBVIOUS
<1>1. StartupInv => PathLeadsToDaemon
      BY DEF StartupInv, PathIsBound, PathLeadsToDaemon
<1>2. Spec => []StartupInv
      BY StartupInvariance
<1> QED
    BY <1>1, <1>2, PTL
=============================================================================
