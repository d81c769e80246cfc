------------------------------ MODULE Upgrade ------------------------------
(***************************************************************************)
(* The firmware upgrade state machine of src/upgrade/upgrade.c as          *)
(* operators on a record.  An image is the sequence of its bytes; the      *)
(* record keeps the image it borrows (image_data, image_size and image_crc *)
(* in the program).  A 32-bit field of a payload is one element of the     *)
(* payload sequence, so payload_length = 8 is Len(payload) = 2.            *)
(***************************************************************************)
EXTENDS Integers, Sequences

CONSTANTS
  ChunkSize,    \* DEVMGR_UPGRADE_DEFAULT_CHUNK, 1024 in the program
  MaxRecovery,  \* recovery cycles allowed, 3 in the program
  Crc(_)        \* the CRC32 of an image

ASSUME UpgradeAssumption == /\ ChunkSize \in Nat \ {0}
                            /\ MaxRecovery \in Nat

UpgradeStates == {"IDLE", "VALIDATING", "ENTER_BOOTLOADER", "BEGIN",
                  "TRANSFER", "RECOVER", "END", "VERIFY", "ACTIVATE",
                  "REBOOT", "COMPLETE", "ERROR"}

NoImage == << >>
NoVersion == "NONE"

InitialUpgrade ==
  [state |-> "IDLE", image |-> NoImage, version |-> NoVersion,
   session_id |-> 0, offset |-> 0, last_chunk_end |-> 0,
   recovery_attempts |-> 0]

UpgradeActive(u) == u.state \notin {"IDLE", "COMPLETE", "ERROR"}

(* devmgr_upgrade_start: the caller has already checked the version. *)
StartUpgrade(u, image, version) ==
  [InitialUpgrade EXCEPT !.state = "ENTER_BOOTLOADER", !.image = image,
                         !.version = version]

MinOf(a, b) == IF a <= b THEN a ELSE b

ChunkEnd(u) == u.offset + MinOf(Len(u.image) - u.offset, ChunkSize)

(* The request each state sends.  devmgr_upgrade_build_request fails with  *)
(* DEVMGR_ERROR_STATE in the states and data that CanBuild leaves out.     *)
RequestType(u) ==
  CASE u.state = "ENTER_BOOTLOADER" -> "ENTER_BOOTLOADER"
    [] u.state = "BEGIN"            -> "FW_BEGIN"
    [] u.state = "TRANSFER"         -> "FW_DATA"
    [] u.state = "RECOVER"          -> "FW_STATUS"
    [] u.state = "END"              -> "FW_END"
    [] u.state = "VERIFY"           -> "FW_VERIFY"
    [] u.state = "ACTIVATE"         -> "FW_ACTIVATE"
    [] u.state = "REBOOT"           -> "REBOOT"
    [] OTHER                        -> "NONE"

CanBuild(u) ==
  /\ RequestType(u) # "NONE"
  /\ u.state = "TRANSFER" => u.offset < Len(u.image)
  /\ u.state = "RECOVER" => u.session_id # 0

Built(u) == IF u.state = "TRANSFER"
            THEN [u EXCEPT !.last_chunk_end = ChunkEnd(u)] ELSE u

RequestPayload(u) ==
  CASE u.state = "BEGIN" ->
         [size |-> Len(u.image), crc |-> Crc(u.image), chunk |-> ChunkSize,
          version |-> u.version]
    [] u.state = "TRANSFER" ->
         [session_id |-> u.session_id, offset |-> u.offset,
          data |-> SubSeq(u.image, u.offset + 1, ChunkEnd(u))]
    [] OTHER -> [session_id |-> u.session_id]

Fail(u) == [u EXCEPT !.state = "ERROR"]

Resume(u) == [u EXCEPT !.state = IF u.offset = Len(u.image)
                                 THEN "END" ELSE "TRANSFER"]

(* devmgr_upgrade_accept_response: the record after the call.  The call    *)
(* returned DEVMGR_OK exactly when the resulting state is not ERROR.       *)
AcceptResponse(u, request_type, response) ==
  LET payload == response.payload
      is(state, type) == u.state = state /\ request_type = type
      begun == [u EXCEPT !.session_id = payload[1], !.offset = payload[2]]
      acked == [u EXCEPT !.offset = payload[1]]
      recovered == [u EXCEPT !.offset = payload[2]]
  IN  IF response.type \in {"NACK", "ERROR"} THEN Fail(u) ELSE
      CASE is("ENTER_BOOTLOADER", "ENTER_BOOTLOADER") -> [u EXCEPT !.state = "BEGIN"]
        [] is("BEGIN", "FW_BEGIN") /\ Len(payload) = 2 ->
             IF begun.session_id # 0 /\ begun.offset <= Len(u.image)
             THEN Resume(begun) ELSE Fail(begun)
        [] is("TRANSFER", "FW_DATA") /\ Len(payload) = 1 ->
             IF acked.offset = u.last_chunk_end /\ acked.offset <= Len(u.image)
             THEN Resume(acked) ELSE Fail(acked)
        [] is("RECOVER", "FW_STATUS") /\ Len(payload) = 2
             /\ payload[1] = u.session_id ->
             IF recovered.offset <= Len(u.image)
             THEN Resume(recovered) ELSE Fail(recovered)
        [] is("END", "FW_END") -> [u EXCEPT !.state = "VERIFY"]
        [] is("VERIFY", "FW_VERIFY") /\ Len(payload) = 1
             /\ payload[1] = Crc(u.image) -> [u EXCEPT !.state = "ACTIVATE"]
        [] is("ACTIVATE", "FW_ACTIVATE") -> [u EXCEPT !.state = "REBOOT"]
        [] is("REBOOT", "REBOOT") -> [u EXCEPT !.state = "COMPLETE"]
        [] OTHER -> Fail(u)

(* Mutant: a transfer never enters recovery. *)
CanOnlyRepeatRecovery(u) == /\ u.session_id # 0 /\ u.state = "RECOVER"
                            /\ u.recovery_attempts < MaxRecovery

(* devmgr_upgrade_begin_recovery: refused with ERROR_STATE outside of a    *)
(* transfer, with ERROR_TIMEOUT (and state ERROR) past the last cycle.     *)
CanRecover(u) == /\ u.session_id # 0
                 /\ u.state \in {"TRANSFER", "RECOVER"}
                 /\ u.recovery_attempts < MaxRecovery

(* Mutant: the cycle is not counted. *)
UncountedRecovery(u) == [u EXCEPT !.state = "RECOVER"]

BeginRecovery(u) == [u EXCEPT !.recovery_attempts = @ + 1, !.state = "RECOVER"]
=============================================================================
