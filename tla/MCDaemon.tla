------------------------------ MODULE MCDaemon ------------------------------
(* Values for the constants of Daemon.                                     *)
EXTENDS Daemon

MCJobIds == 1 .. Modulus - 1
MCImages == {<<1, 2>>}
MCCrc(image) == 7
MCPayloads == {<<>>, <<1>>, <<2>>, <<7>>, <<1, 0>>, <<1, 2>>, <<1, 3>>}
Ending == {"SIGNAL", "HANGUP"}
Leaving == {"LEAVE"}
NoPayload == {<<>>}
ShortImages == {<<1>>}
TinyPayloads == {<<1>>, <<1, 0>>}
LocalPayloads == {<<1>>, <<1, 0>>, <<0, 0, 0, 0>>}
TinyCrc(image) == 1
StreamCommands == {"START_TELEMETRY", "STOP_TELEMETRY"}
UpgradeCommands == {"GET_INFO", "UPGRADE"}

(* States the checks may identify.  Once the loop has ended only the       *)
(* worker's state is read again; a sleeping worker may wake at any time    *)
(* and behaves like one about to sleep; heard is read only while a request *)
(* is pending; the progress of an upgrade is read only by the states that  *)
(* transfer, and the two ways of failing to open an image differ in the    *)
(* status reported, as all reasons of an ERROR do.                         *)
Progress ==
  <<upgrade_result = "OK">> \o
  CASE upgrade.state \in {"TRANSFER", "RECOVER"} ->
         <<upgrade.session_id, upgrade.offset, upgrade.last_chunk_end,
           upgrade.recovery_attempts>>
    [] upgrade.state \in {"VALIDATING", "ERROR"} -> <<>>
    [] OTHER -> <<upgrade.offset>>

Alike(status) == IF status = "LIMIT" THEN "IO" ELSE status

WorkerView ==
  <<[mailbox EXCEPT !.result.status = Alike(@)],
    [thread EXCEPT !.result.status = Alike(@)], event_fd, live, firmware>>

LoopView ==
  <<session, upgrade.state, Progress, operation_id, tx, active_client, clients,
    telemetry, running, batch, backlog, heard /\ session.pending.active>>

LoopEnded == pc \in {"join", "release", "down", "killed"}

View ==
  LET awake == IF thread.pc = "asleep" THEN "loop" ELSE thread.pc
  IN  <<pc, result, [WorkerView EXCEPT ![2].pc = awake],
        IF LoopEnded THEN <<>> ELSE LoopView>>

(* For liveness: the thread's next step, which fairness is about, is kept, *)
(* and so is what the properties read after the end of the loop.           *)
LiveView ==
  <<pc, result, WorkerView,
    IF LoopEnded THEN <<UpgradeActive(upgrade), session.state>> ELSE LoopView>>
=============================================================================
