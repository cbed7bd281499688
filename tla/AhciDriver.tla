----------------------------- MODULE AhciDriver -----------------------------
(***************************************************************************)
(* The boot AHCI driver, arch/x86_64/ahci.rs: it scans the ports of one    *)
(* controller, identifies the first disk or optical drive, and then reads  *)
(* through one command slot and one bounce buffer.                         *)
(*                                                                         *)
(* A command that times out is abandoned by the driver, not by the device: *)
(* it may still finish and move its data into the bounce buffer while a    *)
(* later read is being prepared.  The device (busy bit, command-issue bit, *)
(* error bit, DMA) is external.                                            *)
(***************************************************************************)
EXTENDS Integers, Sequences, FiniteSets, FiniteSetsExt

CONSTANTS PORTS,        \* number of ports of the host bus adapter (32)
          MAX_U64,      \* largest block address
          BOUNCE,       \* blocks that fit the bounce buffer (4096 bytes)
          Counts,       \* block counts of reads, and lengths of their buffers
          Sizes,        \* capacities a device may report
          FRAMES,       \* free physical frames
          None,
          MaxCalls

VARIABLES implemented,   \* PI
          attached,      \* what is behind each port
          port,          \* the port bring_up_device has come to
          status,        \* AhciBootStatus, None before
          registered,    \* SATA0 or ATAPI0
          frames, held,  \* free frames; frames taken by the ports
          pc,            \* where the one call in progress stands
          request,       \* the read in progress
          buffer,        \* blocks in the bounce buffer
          device,        \* the command the device is executing, None if idle
          ci, err,       \* command-issue bit of slot 0, error bit of the task file
          answer,        \* what the last read returned
          calls

vars == <<implemented, attached, port, status, registered, frames, held, pc, request,
          buffer, device, ci, err, answer, calls>>
scanVars == <<implemented, attached, port, status, registered, frames, held>>
ioVars == <<request, buffer, device, ci, err, answer, calls>>

Kinds == {"Nothing", "SataDisk", "Atapi", "Other"}

\* What a port shows: the device a signature stands for, whether the port stops
\* when told to, and what identification reports.
Attachments == [kind : Kinds, stops : BOOLEAN, sectors : Sizes]

AhciInit ==
    /\ implemented \in SUBSET (0..(PORTS - 1))
    /\ attached \in [0..(PORTS - 1) -> Attachments]
    /\ port = 0 /\ status = None /\ registered = None
    /\ frames = FRAMES /\ held = 0
    /\ pc = "platform" /\ request = None
    /\ buffer = [i \in 1..BOUNCE |-> None]
    /\ device = None /\ ci = FALSE /\ err = FALSE
    /\ answer = None /\ calls = 0

-----------------------------------------------------------------------------
(* bring_up_first_sata_disk *)

\* platform_find_ahci_controller, the HHDM, the BAR, the command register, MMIO.
bring_up_first_sata_disk ==
    /\ pc = "platform"
    /\ \E found \in {"none", "broken", "ready"} :
          /\ status' = CASE found = "none" -> "NoDisk"
                         [] found = "broken" -> "Failed"
                         [] found = "ready" -> None
          /\ pc' = IF found = "ready" THEN "scan" ELSE "idle"
    /\ UNCHANGED <<implemented, attached, port, registered, frames, held>>
    /\ UNCHANGED ioVars

Finish(s, r) == status' = s /\ registered' = r /\ pc' = "idle" /\ UNCHANGED port

\* init_port_and_identify and init_port_and_probe_atapi: four frames, one after
\* the other; the port is stopped, started and asked. Frames are never given back.
init_port(p, s) ==
    LET taken == Min({4, s.frames})
        t == [s EXCEPT !.frames = @ - taken, !.held = @ + taken]
    IN  IF taken < 4 THEN [t EXCEPT !.result = "AHCI DMA allocation failed"]
        ELSE IF ~attached[p].stops THEN [t EXCEPT !.result = "AHCI port stop"]
        ELSE IF attached[p].sectors = 0 THEN [t EXCEPT !.result = "zero sectors"]
        ELSE [t EXCEPT !.result = "Ok"]

\* A port that cannot be brought up ends the scan: for a disk with a failure, for
\* an optical drive with no disk. Identification itself may fail as well.
bring_up_device ==
    /\ pc = "scan"
    /\ IF port = PORTS THEN Finish("NoDisk", None) /\ UNCHANGED <<frames, held>>
       ELSE IF port \notin implemented \/ attached[port].kind \in {"Nothing", "Other"}
       THEN port' = port + 1 /\ UNCHANGED <<status, registered, pc, frames, held>>
       ELSE \E identifies \in BOOLEAN :
              LET s == init_port(port, [frames |-> frames, held |-> held, result |-> "Ok"])
                  works == s.result = "Ok" /\ identifies
              IN  /\ frames' = s.frames /\ held' = s.held
                  /\ IF works
                     THEN Finish("Online", [port |-> port, kind |-> attached[port].kind,
                                            block_count |-> attached[port].sectors])
                     ELSE Finish(IF attached[port].kind = "SataDisk" THEN "Failed" ELSE "NoDisk", None)
    /\ UNCHANGED <<implemented, attached>> /\ UNCHANGED ioVars

-----------------------------------------------------------------------------
(* read_blocks, read_atapi_blocks, flush *)

Idle == pc = "idle" /\ calls < MaxCalls

\* checked_add, then the capacity, then the length of the caller's buffer.
validate_read_request(lba, count, length) ==
    IF count = 0 \/ lba + count > MAX_U64 \/ lba + count > registered.block_count
    THEN "read out of bounds"
    ELSE IF length # count THEN "invalid read buffer length" ELSE "Ok"

\* The bounce buffer is cleared before the command is built.
read_blocks ==
    /\ Idle
    /\ calls' = calls + 1
    /\ \E lba \in 0..MAX_U64, count \in Counts, length \in Counts :
          LET valid == IF registered = None THEN "not registered"
                       ELSE validate_read_request(lba, count, length)
              result == IF valid = "Ok" /\ count > BOUNCE THEN "read too large" ELSE valid
          IN  IF result # "Ok"
              THEN answer' = [result |-> result] /\ UNCHANGED <<pc, request, buffer>>
              ELSE /\ pc' = "busy"
                   /\ request' = [lba |-> lba, count |-> count]
                   /\ buffer' = [i \in 1..BOUNCE |-> None]
                   /\ answer' = None
    /\ UNCHANGED <<device, ci, err>> /\ UNCHANGED scanVars

\* A flush moves no data; of the two drivers only the disk's issues one.
flush ==
    /\ Idle
    /\ registered # None
    /\ registered.kind = "SataDisk"
    /\ calls' = calls + 1
    /\ pc' = "busy"
    /\ request' = [lba |-> 0, count |-> 0]
    /\ answer' = None
    /\ UNCHANGED <<buffer, device, ci, err>> /\ UNCHANGED scanVars

GiveUp(reason) == pc' = "idle" /\ answer' = [result |-> reason] /\ request' = None

\* Mutant: the command is issued without waiting for the task file.
IssueAnyway == TRUE

\* issue_command: wait until the device is neither busy nor requesting data, then
\* set the issue bit. The wait is bounded, and so may end with an error.
MayIssue == device = None

issue_command ==
    /\ pc = "busy"
    /\ MayIssue
    /\ pc' = "issued"
    /\ ci' = TRUE /\ err' = FALSE
    /\ device' = IF device = None THEN request ELSE device
    /\ UNCHANGED <<request, buffer, answer, calls>> /\ UNCHANGED scanVars

task_file_busy ==
    /\ pc = "busy"
    /\ device # None
    /\ GiveUp("AHCI task file busy")
    /\ UNCHANGED <<buffer, device, ci, err, calls>> /\ UNCHANGED scanVars

\* The issue bit is clear: errors are looked at, then the data is copied out.
complete ==
    /\ pc = "issued"
    /\ ~ci
    /\ pc' = "idle"
    /\ request' = None
    /\ answer' = IF err THEN [result |-> "AHCI command failed"]
                 ELSE [result |-> "Ok", lba |-> request.lba, count |-> request.count,
                       data |-> SubSeq(buffer, 1, request.count)]
    /\ UNCHANGED <<buffer, device, ci, err, calls>> /\ UNCHANGED scanVars

completion_timeout ==
    /\ pc = "issued"
    /\ ci
    /\ GiveUp("AHCI command completion")
    /\ UNCHANGED <<buffer, device, ci, err, calls>> /\ UNCHANGED scanVars

\* External: the device ends its command, with its data in the buffer or in error.
DeviceEnds ==
    /\ device # None
    /\ \E ok \in BOOLEAN :
          /\ err' = ~ok
          /\ buffer' = IF ok THEN [i \in 1..BOUNCE |-> IF i <= device.count THEN device.lba + i - 1
                                                       ELSE buffer[i]]
                       ELSE buffer
    /\ device' = None /\ ci' = FALSE
    /\ UNCHANGED <<pc, request, answer, calls>> /\ UNCHANGED scanVars

AhciNext ==
    \/ bring_up_first_sata_disk \/ bring_up_device
    \/ read_blocks \/ flush \/ issue_command \/ task_file_busy
    \/ complete \/ completion_timeout \/ DeviceEnds

-----------------------------------------------------------------------------
\* A read that succeeds hands out the blocks it was asked for and no others, also
\* when commands before it timed out and were finished by the device later, and
\* every block lies on the disk.
ReadsItsOwn ==
    answer # None /\ answer.result = "Ok" =>
        /\ \A i \in 1..answer.count : answer.data[i] = answer.lba + i - 1
        /\ answer.count > 0 => answer.lba + answer.count <= registered.block_count

\* A device is registered exactly when the scan reports one, it is on the first
\* port that has one, and it has the four frames that the device transfers through.
FirstIsRegistered ==
    /\ (status = "Online") <=> registered # None
    /\ registered # None =>
          /\ registered.port \in implemented
          /\ attached[registered.port].kind \in {"SataDisk", "Atapi"}
          /\ \A p \in implemented :
                p < registered.port => attached[p].kind \in {"Nothing", "Other"}
          /\ registered.block_count > 0
          /\ held = 4
    /\ frames + held = FRAMES
=============================================================================
