------------------------------- MODULE Stm32 -------------------------------
(***************************************************************************)
(* The update core of firmware/stm32f103/bootloader/update.c, in the form  *)
(* of Simulator: outcomes of handling a frame.  The flash operations are   *)
(* callbacks of the board, modelled from how update.c uses them; erase,    *)
(* write, read and activate may fail where FlashFails says so, and one     *)
(* that fails is taken to leave the flash as it was.  The record keeps the *)
(* flash bytes written since the last erase and what the activate callback *)
(* was told to boot.                                                       *)
(***************************************************************************)
EXTENDS Simulator

CONSTANT FlashFails     \* whether erase, write, read and activate may fail

ASSUME Stm32Assumption == FlashFails \in BOOLEAN

BootStm32 ==
  [state |-> "IDLE", size |-> 0, crc |-> 0, chunk |-> 0, sid |-> 1,
   offset |-> 0, flash |-> <<>>, pending_version |-> "NONE",
   active |-> FactoryFirmware]

OrFlashNack(d, f) == IF FlashFails THEN Refused(d, f) ELSE {}

(* handle_begin: unlike the simulator it does not compare the chunk size. *)
Stm32SameImage(d, p) == /\ d.state = "RECEIVING"
                        /\ d.size = p.size /\ d.crc = p.crc
                        /\ d.pending_version = p.version

Stm32Erased(d, p) ==
  [d EXCEPT !.sid = NextSid(@), !.size = p.size, !.crc = p.crc,
            !.chunk = p.chunk, !.offset = 0, !.flash = <<>>,
            !.pending_version = p.version, !.state = "RECEIVING"]

HandleBegin(d, f) ==
  LET p == f.payload
      fresh == Stm32Erased(d, p)
  IN  IF ~WellFormed(p) THEN Refused(d, f)
      ELSE IF Stm32SameImage(d, p) THEN Accepted(d, f, <<d.sid, d.offset>>)
      ELSE Accepted(fresh, f, <<fresh.sid, 0>>) \union OrFlashNack(d, f)

HandleData(d, f) ==
  LET p == f.payload
  IN  IF d.state # "RECEIVING" \/ p.session_id # d.sid \/ ~InRange(d, p)
      THEN Refused(d, f)
      ELSE IF IsDuplicate(d, p)
      THEN Accepted(d, f, <<d.offset>>) \union OrFlashNack(d, f)
      ELSE IF p.offset = d.offset
      THEN Accepted(Written(d, p), f, <<Written(d, p).offset>>)
             \union OrFlashNack(d, f)
      ELSE Refused(d, f)

(* FW_STATUS is answered in every state, with the session id alone. *)
HandleStatus(d, f) ==
  IF f.payload.session_id = d.sid THEN Accepted(d, f, <<d.sid, d.offset>>)
  ELSE Refused(d, f)

HandleEnd(d, f) ==
  IF d.state = "RECEIVING" /\ d.offset = d.size
  THEN Accepted([d EXCEPT !.state = "TRANSFERRED"], f, <<>>)
  ELSE Refused(d, f)

HandleVerify(d, f) ==
  IF d.state = "TRANSFERRED" /\ FlashCrc(d.flash) = d.crc
  THEN Accepted([d EXCEPT !.state = "VERIFIED"], f, <<d.crc>>)
  ELSE Refused(d, f)

HandleActivate(d, f) ==
  IF d.state = "VERIFIED"
  THEN Accepted([d EXCEPT !.active = Flashed(d)], f, <<>>)
         \union OrFlashNack(d, f)
  ELSE Refused(d, f)

(* stm32_update_handle.  The reboot callback leaves this record alone. *)
Stm32Handle(d, f) ==
  CASE f.type \in {"ENTER_BOOTLOADER", "REBOOT"} -> Accepted(d, f, <<>>)
    [] f.type = "FW_BEGIN"                       -> HandleBegin(d, f)
    [] f.type = "FW_DATA"                        -> HandleData(d, f)
    [] f.type = "FW_STATUS"                      -> HandleStatus(d, f)
    [] f.type = "FW_END"                         -> HandleEnd(d, f)
    [] f.type = "FW_VERIFY"                      -> HandleVerify(d, f)
    [] f.type = "FW_ACTIVATE"                    -> HandleActivate(d, f)
    [] OTHER                                     -> Refused(d, f)
=============================================================================
