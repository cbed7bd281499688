------------------------------ MODULE Devices ------------------------------
(***************************************************************************)
(* The logical devices of the kernel and the screen: kernel/device.rs (the *)
(* device table, the framebuffer and GPU descriptors, the serial buffer,   *)
(* the RAM disk), arch/x86_64/device.rs and limine_block.rs, the text      *)
(* console of framebuffer_console.rs on the modes of crates/mirage-fb, the *)
(* boot log of kernel/boot_diagnostics.rs and the displays of              *)
(* crates/mirage-gpu and mirage-amdgpu.                                    *)
(*                                                                         *)
(* A descriptor is the framebuffer it was made of, or None.  Pixels hold   *)
(* the character whose glyph or background they belong to: the shapes of   *)
(* the glyphs and the colours are left out.                                *)
(***************************************************************************)
EXTENDS Integers, Sequences, FiniteSets, SequencesExt, FiniteSetsExt

CONSTANTS MAX,         \* slots of the device table (24)
          Real,        \* hardware drivers in the order register_real_drivers takes them
          RETRIES,     \* GRAPHICS_CONFIGURE_BUSY_RETRIES (8)
          Infos,       \* framebuffers the boot information may describe
          CAPACITY,    \* SerialConsoleDriver::CAPACITY (256)
          SECTOR, SECTORS, MAX_U64,
          Geometries,  \* records width, height, pitch
          CELL, TAB, BPP, Chars,
          LOG,         \* BOOT_LOG_CAPACITY (96)
          None, MaxCalls

VARIABLES registry, next_id,        \* DeviceManager
          framebuffer, gpu,         \* FRAMEBUFFER_DRIVER, GPU_CAPABILITY_DRIVER
          held,                     \* those whose descriptor a reader has locked
          step, attempt, wanted, present, missed, result,
          serial, accepted, delivered,
          request,                  \* the sector request that was validated
          geometry, memory, column, row, rendering, ui_cleared, online, grid,
          ring, sequence, entry, interrupted, pushed,
          display, tried,
          calls

tableVars == <<registry, next_id, framebuffer, gpu, held, step, attempt, wanted, present, missed, result>>
serialVars == <<serial, accepted, delivered>>
screenVars == <<geometry, memory, column, row, rendering, ui_cleared, online, grid>>
logVars == <<ring, sequence, entry, interrupted, pushed>>
displayVars == <<display, tried>>

Call == calls < MaxCalls /\ calls' = calls + 1

-----------------------------------------------------------------------------
(* The device table and the graphics descriptors *)

Core == <<"timer", "framebuffer", "gpu", "loopback", "ram", "serial", "input">>

TableInit ==
    /\ registry = [s \in 1..MAX |-> None] /\ next_id = 1
    /\ framebuffer = [descriptor |-> None, configured |-> FALSE, online |-> FALSE]
    /\ gpu = [descriptor |-> None, configured |-> FALSE]
    /\ held = {} /\ step = "idle" /\ attempt = 0
    /\ wanted = None /\ present = {} /\ missed = FALSE /\ result = "none"

find_free_slot(r) == {s \in DOMAIN r : r[s] = None}

\* The table and the next id after one registration; a full table fails.
register_driver(t, driver) ==
    IF t.failed \/ find_free_slot(t.registry) = {} THEN [t EXCEPT !.failed = TRUE]
    ELSE [t EXCEPT !.registry[Min(find_free_slot(t.registry))] = [id |-> t.next_id, driver |-> driver],
                   !.next_id = @ + 1]

find_device(id) ==
    LET found == {s \in DOMAIN registry : registry[s] # None /\ registry[s].id = id}
    IN  IF found = {} THEN None ELSE registry[Min(found)].driver

\* Kernel::bootstrap clears the table and installs the devices anew.
bootstrap ==
    /\ Call
    /\ step = "idle"
    /\ registry' = [s \in 1..MAX |-> None] /\ next_id' = 1
    /\ wanted' \in Infos \cup {None}
    /\ present' \in SUBSET Range(Real)
    /\ step' = "framebuffer" /\ attempt' = 0 /\ missed' = FALSE /\ result' = "none"
    /\ UNCHANGED <<framebuffer, gpu, held>>

Became(driver) == IF "online" \in DOMAIN driver
                  THEN [descriptor |-> wanted, configured |-> TRUE, online |-> wanted # None]
                  ELSE [descriptor |-> wanted, configured |-> TRUE]

\* FramebufferDriver::configure and GpuCapabilityDriver::configure: a descriptor
\* that is locked is left as it is if it was configured before.
configure(driver, locked) ==
    IF ~locked THEN [driver |-> Became(driver), result |-> "Ok"]
    ELSE [driver |-> driver, result |-> IF driver.configured THEN "Ok" ELSE "Busy"]

\* configure_graphics_devices: what is busy is tried again; a device that stays
\* busy ends the configuration unless a framebuffer is online already.
configure_framebuffer_with_retry ==
    /\ step = "framebuffer"
    /\ LET c == configure(framebuffer, "framebuffer" \in held)
       IN  /\ framebuffer' = c.driver
           /\ missed' = (missed \/ "framebuffer" \in held)
           /\ IF c.result = "Busy" /\ attempt < RETRIES
              THEN attempt' = attempt + 1 /\ UNCHANGED step
              ELSE /\ attempt' = 0
                   /\ step' = IF c.result = "Ok" \/ framebuffer.online THEN "gpu" ELSE "register"
    /\ UNCHANGED <<registry, next_id, gpu, held, wanted, present, result, calls>>

configure_gpu_capability_with_retry ==
    /\ step = "gpu"
    /\ LET c == configure(gpu, "gpu" \in held)
       IN  /\ gpu' = c.driver
           /\ missed' = (missed \/ "gpu" \in held)
           /\ IF c.result = "Busy" /\ attempt < RETRIES
              THEN attempt' = attempt + 1 /\ UNCHANGED step
              ELSE attempt' = 0 /\ step' = "register"
    /\ UNCHANGED <<registry, next_id, framebuffer, held, wanted, present, result, calls>>

\* install_core_devices_after_graphics: only a full table is fatal.
install_core_devices_after_graphics ==
    /\ step = "register"
    /\ LET drivers == SelectSeq(Real, LAMBDA d : d \in present) \o Core
           t == FoldLeft(register_driver,
                         [registry |-> registry, next_id |-> next_id, failed |-> FALSE], drivers)
       IN  /\ registry' = t.registry /\ next_id' = t.next_id
           /\ result' = IF t.failed THEN "RegistryFull" ELSE "Ok"
    /\ step' = "idle"
    /\ UNCHANGED <<framebuffer, gpu, held, attempt, wanted, present, missed, calls>>

\* DeviceDriver::read of the two copies the descriptor under its lock.
read_descriptor ==
    /\ \E d \in {"framebuffer", "gpu"} : held' = IF d \in held THEN held \ {d} ELSE held \cup {d}
    /\ UNCHANGED <<registry, next_id, framebuffer, gpu, step, attempt, wanted, present, missed, result, calls>>

TableNext ==
    \/ bootstrap \/ configure_framebuffer_with_retry \/ configure_gpu_capability_with_retry
    \/ install_core_devices_after_graphics \/ read_descriptor

\* After an installation that succeeded every driver that is there has one entry,
\* found under its own id; both graphics descriptors tell of the framebuffer the
\* boot information named unless a reader held one of them at the wrong moment;
\* the framebuffer is online just when its descriptor names one; and a driver is
\* left out only if the table was full.
InstallSound ==
    /\ framebuffer.online <=> framebuffer.descriptor # None
    /\ \A d \in {framebuffer, gpu} : d.descriptor # None => d.configured
    /\ step = "idle" /\ result = "Ok" =>
          /\ \A d \in present \cup Range(Core) :
                Cardinality({id \in 1..(next_id - 1) : find_device(id) = d}) = 1
          /\ next_id = Cardinality(present) + Len(Core) + 1
          /\ ~missed => framebuffer.descriptor = wanted /\ gpu.descriptor = wanted
    /\ result = "RegistryFull" => find_free_slot(registry) = {}

-----------------------------------------------------------------------------
(* SerialBuffer, and the sector ranges of the RAM disk and the boot module *)

SerialInit == serial = <<>> /\ accepted = 0 /\ delivered = <<>>

\* Bytes are numbered as they are accepted; what does not fit is not taken.
push(n) ==
    LET to_copy == Min({CAPACITY - Len(serial), n})
    IN  /\ serial' = serial \o [i \in 1..to_copy |-> accepted + i]
        /\ accepted' = accepted + to_copy
        /\ UNCHANGED delivered

\* The bytes that stay are moved to the front.
pop(n) ==
    LET to_copy == Min({Len(serial), n})
    IN  /\ delivered' = delivered \o SubSeq(serial, 1, to_copy)
        /\ serial' = [i \in 1..(Len(serial) - to_copy) |-> serial[i + to_copy]]
        /\ UNCHANGED accepted

SerialNext == Call /\ \E n \in 0..(CAPACITY + 1) : push(n) \/ pop(n)

\* Every byte a write counted as taken is read once, in the order written.
SerialSound ==
    /\ delivered \o serial = [i \in 1..accepted |-> i]
    /\ Len(serial) <= CAPACITY

RequestInit == request = None

\* BlockStorageDriver::validate_transfer
validate_transfer(first_sector, byte_len) ==
    LET last_sector == first_sector + byte_len \div SECTOR
    IN  CASE byte_len % SECTOR # 0 -> "BufferTooSmall"
          [] byte_len % SECTOR = 0 /\ last_sector > MAX_U64 -> "Unsupported"
          [] OTHER -> IF first_sector > SECTORS \/ last_sector > SECTORS THEN "NotFound" ELSE "Ok"

\* LimineModuleBlockDriver::validate_transfer, on a module of size bytes.
validate_module_transfer(first_sector, byte_len, size) ==
    LET start == first_sector * SECTOR
    IN  CASE byte_len % SECTOR # 0 -> "BufferTooSmall"
          [] byte_len % SECTOR = 0 /\ (start > MAX_U64 \/ start + byte_len > MAX_U64) -> "Unsupported"
          [] OTHER -> IF start + byte_len > size THEN "NotFound" ELSE "Ok"

transfer ==
    /\ request = None
    /\ \E first \in 0..MAX_U64, bytes \in 0..MAX_U64, size \in SECTOR..MAX_U64 :
          request' = [first |-> first, bytes |-> bytes, size |-> size,
                      ram |-> validate_transfer(first, bytes),
                      module |-> validate_module_transfer(first, bytes, size)]
    /\ UNCHANGED calls

\* Whole sectors inside the device are accepted and nothing else, however close to
\* the largest number the request comes.
TransfersFit ==
    request # None =>
      LET Fits(sectors) == /\ request.bytes % SECTOR = 0
                           /\ request.first + request.bytes \div SECTOR <= sectors
      IN  /\ request.ram = "Ok" <=> Fits(SECTORS)
          /\ request.module = "Ok" <=> Fits(request.size \div SECTOR)

-----------------------------------------------------------------------------
(* The text console *)

\* FramebufferMode::validate, and a base address that is not null.
validate(g) == g.width > 0 /\ g.height > 0 /\ g.pitch >= g.width * BPP

columns(g) == Max({g.width \div CELL, 1})
rows(g) == Max({g.height \div CELL, 1})
Blank(g) == [r \in 0..(rows(g) - 1) |-> [c \in 0..(columns(g) - 1) |-> " "]]

pixel_offset(g, x, y) == y * g.pitch + x * BPP

\* fill_rect with put_pixel: what lies outside the mode is clipped.
fill_rect(g, m, x, y, width, height, c) ==
    LET offsets == {pixel_offset(g, px, py) + b :
                       px \in x..(Min({x + width, g.width}) - 1),
                       py \in y..(Min({y + height, g.height}) - 1), b \in 0..(BPP - 1)}
    IN  [o \in DOMAIN m |-> IF o \in offsets THEN c ELSE m[o]]

Screen == [memory |-> memory, column |-> column, row |-> row, grid |-> grid]

clear(g, s) ==
    [memory |-> fill_rect(g, s.memory, 0, 0, g.width, g.height, " "),
     column |-> 0, row |-> 0, grid |-> Blank(g)]

\* The grid is what a terminal of so many rows and columns would show.
Raised(g, s) == [r \in DOMAIN s.grid |->
                   IF r + 1 \in DOMAIN s.grid THEN s.grid[r + 1] ELSE Blank(g)[r]]

\* Mutant: the rows are taken to be as long as they are wide.
ScrollByWidth(g, s) ==
    IF g.height <= CELL THEN clear(g, s)
    ELSE LET scroll_bytes == CELL * g.width * BPP
             moved == [o \in DOMAIN s.memory |->
                         IF o < g.height * g.width * BPP - scroll_bytes
                         THEN s.memory[o + scroll_bytes] ELSE s.memory[o]]
         IN  [s EXCEPT !.memory = fill_rect(g, moved, 0, g.height - CELL, g.width, CELL, " "),
                       !.grid = Raised(g, s)]

\* The bytes of the rows below are copied up, the padding of each row with them.
scroll(g, s) ==
    IF g.height <= CELL THEN clear(g, s)
    ELSE LET scroll_bytes == CELL * g.pitch
             moved == [o \in DOMAIN s.memory |->
                         IF o < g.height * g.pitch - scroll_bytes
                         THEN s.memory[o + scroll_bytes] ELSE s.memory[o]]
         IN  [s EXCEPT !.memory = fill_rect(g, moved, 0, g.height - CELL, g.width, CELL, " "),
                       !.grid = Raised(g, s)]

newline(g, s) ==
    IF s.row + 1 >= rows(g) THEN [scroll(g, s) EXCEPT !.column = 0, !.row = rows(g) - 1]
    ELSE [s EXCEPT !.column = 0, !.row = @ + 1]

write_printable_byte(g, s, c) ==
    LET t == IF s.column >= columns(g) THEN newline(g, s) ELSE s
        u == [t EXCEPT !.memory = fill_rect(g, t.memory, t.column * CELL, t.row * CELL, CELL, CELL, c),
                       !.grid[t.row][t.column] = c,
                       !.column = @ + 1]
    IN  IF u.column >= columns(g) THEN newline(g, u) ELSE u

write_byte(g, s, c) ==
    CASE c = "\n" -> newline(g, s)
      [] c = "\r" -> [s EXCEPT !.column = 0]
      [] c = "\t" -> FoldLeft(LAMBDA t, i : write_printable_byte(g, t, " "), s,
                              [i \in 1..(TAB - (s.column % TAB)) |-> i])
      [] OTHER -> write_printable_byte(g, s, c)

\* init_from_boot_info: the screen is cleared, whatever the firmware left there.
ScreenInit ==
    /\ geometry \in {g \in Geometries : validate(g)}
    /\ LET left == [o \in 0..(geometry.height * geometry.pitch - 1) |-> "firmware"]
           s == clear(geometry, [memory |-> left])
       IN  memory = s.memory /\ column = s.column /\ row = s.row /\ grid = s.grid
    /\ rendering = "MilestoneUi" /\ ui_cleared = FALSE /\ online = FALSE

Show(s) == memory' = s.memory /\ column' = s.column /\ row' = s.row /\ grid' = s.grid

\* early_console::write_fmt mirrors a line only where no milestone screen is
\* shown; panic_write_fmt and failed phases (log) write in every mode.
write_fmt ==
    /\ \E c \in Chars \cup {"\n", "\r", "\t"}, panic \in BOOLEAN :
          IF panic \/ rendering # "MilestoneUi" THEN Show(write_byte(geometry, Screen, c))
          ELSE UNCHANGED <<memory, column, row, grid>>
    /\ UNCHANGED <<geometry, rendering, ui_cleared, online>>

\* render_framebuffer: prepare_boot_ui_frame, clear_boot_ui_region, the table.
\* The first frame clears the screen unless the framebuffer is online already.
render_framebuffer ==
    /\ rendering = "MilestoneUi"
    /\ ui_cleared' = TRUE
    /\ \E owned \in 1..2, c \in Chars :
         LET s == IF ~ui_cleared /\ ~online THEN clear(geometry, Screen) ELSE Screen
             t == [s EXCEPT !.column = 0, !.row = 0,
                            !.memory = fill_rect(geometry, s.memory, 0, 0, geometry.width, owned * CELL, " "),
                            !.grid = [r \in DOMAIN s.grid |-> IF r < owned THEN Blank(geometry)[r] ELSE s.grid[r]]]
         IN  Show(write_byte(geometry, t, c))
    /\ UNCHANGED <<geometry, rendering, online>>

\* draw_failure_screen, mark_framebuffer_online
draw_failure_screen ==
    /\ rendering # "FailureScreen"
    /\ rendering' = "FailureScreen"
    /\ Show(write_byte(geometry, write_byte(geometry, Screen, "\n"), "\n"))
    /\ UNCHANGED <<geometry, ui_cleared, online>>

mark_framebuffer_online ==
    /\ ~online /\ online' = TRUE
    /\ UNCHANGED <<geometry, memory, column, row, rendering, ui_cleared, grid>>

ScreenNext == write_fmt \/ render_framebuffer \/ draw_failure_screen \/ mark_framebuffer_online

\* The screen shows what was written, scrolled and wrapped as a terminal would,
\* on every geometry; the margins around the cells stay blank, the padding of the
\* rows is never written, and the cursor stands on a cell.
ScreenShows ==
    /\ row \in DOMAIN grid /\ column \in DOMAIN grid[0]
    /\ \A o \in DOMAIN memory :
         LET y == o \div geometry.pitch
             x == (o % geometry.pitch) \div BPP
             r == y \div CELL
             c == x \div CELL
         IN  memory[o] = IF x >= geometry.width THEN "firmware"
                         ELSE IF r \in DOMAIN grid /\ c \in DOMAIN grid[0] THEN grid[r][c] ELSE " "

-----------------------------------------------------------------------------
(* The boot log *)

LogInit ==
    /\ ring = [entries |-> [i \in 0..(LOG - 1) |-> 0], next |-> 0, len |-> 0, overwritten |-> 0]
    /\ sequence = 1 /\ entry = <<>> /\ interrupted = FALSE /\ pushed = <<>>

\* BootLogEntry::new takes the sequence number before the ring is locked; a fault
\* handler may log in between. entry is the stack of those that are on their way.
log ==
    /\ Call
    /\ Len(entry) < 2
    /\ entry' = Append(entry, sequence) /\ sequence' = sequence + 1
    /\ interrupted' = (interrupted \/ entry # <<>>)
    /\ UNCHANGED <<ring, pushed>>

push_entry ==
    /\ entry # <<>>
    /\ ring' = [entries |-> [ring.entries EXCEPT ![ring.next] = Last(entry)],
                next |-> (ring.next + 1) % LOG,
                len |-> IF ring.len = LOG THEN LOG ELSE ring.len + 1,
                overwritten |-> IF ring.len = LOG THEN ring.overwritten + 1 ELSE ring.overwritten]
    /\ pushed' = Append(pushed, Last(entry))
    /\ entry' = Front(entry)
    /\ UNCHANGED <<sequence, interrupted, calls>>

for_each_recent(max) ==
    LET count == Min({max, ring.len})
        start == (ring.next + LOG - count) % LOG
    IN  [i \in 1..count |-> ring.entries[(start + i - 1) % LOG]]

LogNext == log \/ push_entry

\* The failure screen shows the last entries that were logged, oldest first, and
\* says how many were lost; they are in the order of their numbers unless a fault
\* was logged in the middle of another entry.
LogSound ==
    /\ \A max \in 0..(LOG + 1) :
          for_each_recent(max) = SubSeq(pushed, Len(pushed) - Min({max, LOG, Len(pushed)}) + 1, Len(pushed))
    /\ ring.overwritten = Max({Len(pushed) - LOG, 0})
    /\ ~interrupted => \A i, j \in DOMAIN pushed : i < j => pushed[i] < pushed[j]

-----------------------------------------------------------------------------
(* The displays: a mock GPU, the mock AMD GPU, and the AMD GPU on PCI *)

Outputs == {0, 1}
Modes == {"small", "large"}

\* What a caller may hold: no capability, one for the device (output None) or for
\* one output, of this device or another, revoked or not.
Capabilities == {None} \cup [device : {"this", "other"}, output : Outputs \cup {None}, revoked : BOOLEAN]

\* The AMD GPU on PCI may be given more outputs and a framebuffer of the firmware
\* of another mode; the mocks have one output, and make their framebuffer. An AMD
\* GPU is not made without authority over its hardware.
DisplayInit ==
    /\ \E kind \in {"mock", "amd", "pci"}, boot \in Modes, authority \in BOOLEAN :
          /\ kind = "mock" \/ authority
          /\ display = [kind |-> kind, authority |-> authority,
                        outputs |-> IF kind = "pci" THEN Outputs ELSE {0},
                        modes |-> IF kind = "pci" THEN {"small"} ELSE Modes,
                        output |-> 0, mode |-> "small",
                        framebuffer |-> IF kind = "pci" THEN boot ELSE "small"]
    /\ tried = None

\* ensure_access: the output, the driver's own authority (AMD only), the
\* caller's capability; mirage-gpu checks the capability through permits_display.
ensure_access(output, capability) ==
    CASE output \notin display.outputs -> "OutputNotFound"
      [] output \in display.outputs /\ display.kind # "mock" /\ ~display.authority -> "AccessDenied"
      [] OTHER ->
           IF capability = None THEN "AccessDenied"
           ELSE IF display.kind # "mock" /\ capability.revoked THEN "CapabilityRevoked"
           ELSE IF capability.device # "this" THEN "AccessDenied"
           ELSE IF capability.output \notin {output, None} THEN "AccessDenied"
           ELSE IF capability.revoked THEN "CapabilityRevoked" ELSE "Ok"

set_mode ==
    /\ Call
    /\ \E output \in Outputs, mode \in Modes, capability \in Capabilities :
         LET access == ensure_access(output, capability)
             answer == IF access = "Ok" /\ mode \notin display.modes THEN "ModeUnavailable" ELSE access
         IN  /\ tried' = [op |-> "set", output |-> output, capability |-> capability, mode |-> mode,
                          answer |-> answer, from |-> display.framebuffer]
             /\ display' = IF answer = "Ok"
                           THEN [display EXCEPT !.framebuffer = mode, !.output = output, !.mode = mode]
                           ELSE display

\* The framebuffer of an output that is not the active one is refused by the
\* mocks; the AMD GPU on PCI hands out the only one it has.
provide_framebuffer ==
    /\ Call
    /\ \E output \in Outputs, capability \in Capabilities :
         LET access == ensure_access(output, capability)
             answer == IF access = "Ok" /\ display.kind # "pci" /\ output # display.output
                       THEN "OutputNotFound" ELSE access
         IN  tried' = [op |-> "get", output |-> output, capability |-> capability, mode |-> display.framebuffer,
                       answer |-> answer, from |-> display.framebuffer]
    /\ UNCHANGED display

DisplayNext == set_mode \/ provide_framebuffer

\* Nobody sees or changes a screen without a live capability for that output of
\* that device; a refused call changes nothing; and once a mode was set the
\* framebuffer has the active mode, which is one the device offers.
DisplaySound ==
    /\ tried # None /\ tried.answer = "Ok" =>
          /\ tried.capability # None /\ ~tried.capability.revoked
          /\ tried.capability.device = "this" /\ tried.capability.output \in {None, tried.output}
          /\ display.kind # "mock" => display.authority
          /\ tried.op = "get" => tried.mode = display.framebuffer
          /\ tried.op = "set" => display.mode = tried.mode /\ display.output = tried.output
    /\ tried # None /\ tried.answer # "Ok" => display.framebuffer = tried.from
    /\ display.kind # "pci" => display.framebuffer = display.mode
    /\ display.mode \in display.modes
=============================================================================
