-------------------------------- MODULE Input --------------------------------
(***************************************************************************)
(* Keyboard input: the i8042 controller and the PS/2 keyboard driver       *)
(* (arch/x86_64/i8042.rs, ps2_keyboard.rs), the embedded controller's      *)
(* hotkeys (acpi_ec.rs) and the common event queue (kernel/input.rs).      *)
(*                                                                         *)
(* The boot thread initialises the keyboard and then polls it, reads       *)
(* events, or looks for the debug-shell key; in interrupt mode IRQ 1 may   *)
(* come between any two of its steps.  It runs to its end, and where the   *)
(* boot thread holds a lock it gives its byte or event up.  The kernel     *)
(* selects polling; the driver has both modes.                             *)
(***************************************************************************)
EXTENDS Integers, Sequences, FiniteSets, FiniteSetsExt

CONSTANTS Keys,      \* keys of the keyboard
          Extended,  \* those whose codes follow the extension prefix
          CAPACITY,  \* INPUT_QUEUE_CAPACITY, and the driver's own QUEUE_CAPACITY
          REQUEUE,   \* events poll_debug_escape can put back
          LIMIT,     \* MAX_POLL_BYTES and START_DRAIN_BYTES
          RETRIES,
          Replies,   \* how the keyboard takes a command: "answers", "resend", "silent"
          Modes,     \* values of irq_mode
          Calls,     \* what the boot thread does besides polling
          None,
          MaxStrokes

VARIABLES irq_mode, set,     \* DriverState: mode and scan set
          decoder,           \* Ps2Decoder: prefixes, keys down, modifiers
          own,               \* DriverState::events, oldest first
          queue, dropped,    \* InputQueue, oldest first
          busy_drops,
          state_lock, queue_lock,
          todo, attempt,     \* initialize: commands left, tries of the first
          pc, byte, pending, \* boot thread: its step, byte in hand, event to publish
          budget, requeue,   \* polls left in this drain; events to put back
          out, owed,         \* controller: bytes to read; answers of the keyboard to come
          phys, strokes,     \* keys held down; strokes so far
          stamp, taken, forgotten, \* events made, delivered, discarded by the escape scan
          disturbed, shuffled      \* a byte was lost or overtaken; the queue was reordered

driverVars == <<irq_mode, set, decoder, own, state_lock>>
queueVars == <<queue, dropped, busy_drops, queue_lock>>
threadVars == <<todo, attempt, pc, byte, pending, budget, requeue>>
wireVars == <<out, owed, phys, strokes>>
countVars == <<stamp, taken, forgotten, disturbed, shuffled>>

NewDecoder == [extended |-> FALSE, release |-> FALSE, down |-> {}, shift |-> FALSE]

InputInit ==
    /\ irq_mode \in Modes
    /\ set = "Set1" /\ decoder = NewDecoder /\ own = <<>>
    /\ queue = <<>> /\ dropped = 0 /\ busy_drops = 0
    /\ state_lock = FALSE /\ queue_lock = FALSE
    /\ todo = <<"controller", "off", "reset", "identify", "set", "on">> /\ attempt = 0
    /\ pc = "init" /\ byte = None /\ pending = None /\ budget = 0 /\ requeue = <<>>
    /\ out = <<>> /\ owed = <<>> /\ phys = {} /\ strokes = 0
    /\ stamp = 0 /\ taken = 0 /\ forgotten = 0
    /\ disturbed = FALSE /\ shuffled = FALSE

-----------------------------------------------------------------------------
(* Ps2Decoder: a byte changes the prefixes or completes an event *)

\* map_set1_raw and set2_to_set1: the key of a code, with or without the prefix; a
\* byte that is no key of the keyboard is a raw code of its own.
KeyOf(code, extended) == IF code \in Keys /\ (code \in Extended) # extended THEN "other" ELSE code

\* Mutant: the prefixes of the byte stay.
MakeKeepingPrefix(d, code, pressed) ==
    LET k == KeyOf(code, d.extended)
    IN  [d EXCEPT !.down = IF pressed THEN @ \cup {k} ELSE @ \ {k},
                  !.shift = IF k = "shift" THEN pressed ELSE @]

\* make_event: keys down and modifiers follow the key.
make_event(d, code, pressed) ==
    LET k == KeyOf(code, d.extended)
    IN  [extended |-> FALSE, release |-> FALSE,
         down |-> IF pressed THEN d.down \cup {k} ELSE d.down \ {k},
         shift |-> IF k = "shift" THEN pressed ELSE d.shift]

\* feed_set1: the release is a bit of the byte itself.
feed_set1(d, b) ==
    CASE b.code = "E0" -> [d |-> [d EXCEPT !.extended = TRUE], event |-> None]
      [] b.code = "E1" -> [d |-> [d EXCEPT !.extended = FALSE], event |-> None]
      [] OTHER -> [d |-> make_event(d, b.code, ~b.release),
                   event |-> [key |-> KeyOf(b.code, d.extended), pressed |-> ~b.release]]

feed_set2(d, b) ==
    CASE b.code = "E0" -> [d |-> [d EXCEPT !.extended = TRUE], event |-> None]
      [] b.code = "F0" -> [d |-> [d EXCEPT !.release = TRUE], event |-> None]
      [] b.code = "E1" -> [d |-> [d EXCEPT !.extended = FALSE, !.release = FALSE], event |-> None]
      [] OTHER -> [d |-> make_event(d, b.code, ~d.release),
                   event |-> [key |-> KeyOf(b.code, d.extended), pressed |-> ~d.release]]

\* An event with its number.
Stamped(e) == [key |-> e.key, pressed |-> e.pressed, n |-> stamp + 1]

feed(d, b) == IF set = "Set1" THEN feed_set1(d, b) ELSE feed_set2(d, b)

-----------------------------------------------------------------------------
(* The queues: a full one gives up its oldest event *)

push(q, e) == Append(IF Len(q) = CAPACITY THEN Tail(q) ELSE q, e)

Overflow(q) == IF Len(q) = CAPACITY THEN 1 ELSE 0

-----------------------------------------------------------------------------
(* I8042Controller::initialize and Ps2KeyboardDriver::initialize *)

\* The controller's own tests; with an error the driver stays as it is, decoding
\* the translated set, and is still polled.
controller_initialize ==
    /\ pc = "init" /\ todo # <<>> /\ Head(todo) = "controller"
    /\ \E ok \in BOOLEAN :
         /\ todo' = IF ok THEN Tail(todo) ELSE <<>>
         /\ pc' = IF ok THEN "init" ELSE "idle"
    /\ UNCHANGED <<attempt, byte, pending, budget, requeue>>
    /\ UNCHANGED driverVars /\ UNCHANGED queueVars /\ UNCHANGED wireVars /\ UNCHANGED countVars

\* send_device_command: the byte is written, and the keyboard owes its answers.
Reply(command) ==
    CASE command = "reset" -> <<"ACK", "BAT">>
      [] command = "identify" -> <<"ACK", "ID", "ID">>
      [] OTHER -> <<"ACK">>

write_data ==
    /\ pc = "init" /\ todo # <<>> /\ Head(todo) # "controller" /\ byte = None
    /\ Head(todo) # "bat"
    /\ byte' = "asked"
    /\ \E how \in Replies :
         owed' = owed \o (CASE how = "answers" -> Reply(Head(todo))
                            [] how = "resend" -> <<"RESEND">>
                            [] how = "silent" -> <<>>)
    /\ UNCHANGED <<todo, attempt, pc, pending, budget, requeue, out, phys, strokes>>
    /\ UNCHANGED driverVars /\ UNCHANGED queueVars /\ UNCHANGED countVars

\* The next byte is taken for the answer: the acknowledgement is, a request to
\* resend costs a try, anything else is an error; errors are reported and the
\* next command follows. A reset is followed by a wait for the self-test byte, a
\* scan-set command by its argument.
Rest(acked) ==
    CASE acked /\ Head(todo) = "reset" -> <<"bat">> \o Tail(todo)
      [] acked /\ Head(todo) = "set" -> <<"argument">> \o Tail(todo)
      [] OTHER -> Tail(todo)

read_answer ==
    /\ pc = "init" /\ todo # <<>>
    /\ byte = "asked" \/ Head(todo) = "bat"
    /\ \/ /\ out # <<>>
          /\ out' = Tail(out)
          /\ LET again == Head(out).code = "RESEND" /\ attempt + 1 < RETRIES /\ Head(todo) # "bat"
             IN  /\ todo' = IF again THEN todo ELSE Rest(Head(out).code = "ACK")
                 /\ attempt' = IF again THEN attempt + 1 ELSE 0
       \/ out = <<>> /\ todo' = Rest(FALSE) /\ attempt' = 0 /\ UNCHANGED out
    /\ byte' = None
    /\ UNCHANGED <<pc, pending, budget, requeue, owed, phys, strokes>>
    /\ UNCHANGED driverVars /\ UNCHANGED queueVars /\ UNCHANGED countVars

\* The driver is ready, whatever the keyboard said; a few stale bytes are drained.
initialized ==
    /\ pc = "init" /\ todo = <<>>
    /\ set' = "Set2" /\ decoder' = NewDecoder
    /\ pc' = "poll" /\ budget' = LIMIT
    /\ UNCHANGED <<irq_mode, own, state_lock, todo, attempt, byte, pending, requeue>>
    /\ UNCHANGED queueVars /\ UNCHANGED wireVars /\ UNCHANGED countVars

-----------------------------------------------------------------------------
(* The boot thread *)

Free == pc = "idle"

\* poll_hardware and the poll of a device read.
poll_hardware ==
    /\ Free
    /\ pc' = "poll" /\ budget' = LIMIT
    /\ UNCHANGED <<todo, attempt, byte, pending, requeue>>
    /\ UNCHANGED driverVars /\ UNCHANGED queueVars /\ UNCHANGED wireVars /\ UNCHANGED countVars

\* poll_keyboard_once: a byte is read; a byte of the mouse is thrown away. The
\* drain is over when there is none, or the limit is reached.
poll_keyboard_once ==
    /\ pc = "poll"
    /\ IF budget = 0 \/ out = <<>>
       THEN pc' = "idle" /\ UNCHANGED <<byte, out>>
       ELSE /\ out' = Tail(out)
            /\ IF Head(out).aux THEN pc' = "idle" /\ UNCHANGED byte
               ELSE pc' = "byte" /\ byte' = Head(out)
    /\ UNCHANGED <<todo, attempt, pending, budget, requeue, owed, phys, strokes>>
    /\ UNCHANGED driverVars /\ UNCHANGED queueVars /\ UNCHANGED countVars

\* With the state locked the byte is decoded; the drain ends with a byte that
\* completes no event.
decode ==
    /\ pc = "byte"
    /\ LET f == feed(decoder, byte)
       IN  /\ decoder' = f.d
           /\ byte' = None
           /\ IF f.event = None
              THEN /\ pc' = "idle"
                   /\ UNCHANGED <<pending, stamp, state_lock>>
              ELSE /\ pc' = "publish" /\ state_lock' = TRUE
                   /\ stamp' = stamp + 1
                   /\ pending' = Stamped(f.event)
    /\ UNCHANGED <<irq_mode, set, own, todo, attempt, budget, requeue, taken, forgotten, disturbed,
                   shuffled>>
    /\ UNCHANGED queueVars /\ UNCHANGED wireVars

\* INPUT_QUEUE.lock(), for whatever the thread is about to do with the queue.
lock_queue ==
    /\ pc \in {"publish", "take", "scan", "back"} /\ ~queue_lock
    /\ queue_lock' = TRUE
    /\ UNCHANGED <<queue, dropped, busy_drops>>
    /\ UNCHANGED driverVars /\ UNCHANGED threadVars /\ UNCHANGED wireVars /\ UNCHANGED countVars

\* publish_keyboard_event, then the driver's own queue.
publish ==
    /\ pc = "publish" /\ queue_lock
    /\ queue' = push(queue, pending) /\ dropped' = dropped + Overflow(queue)
    /\ queue_lock' = FALSE
    /\ own' = push(own, pending)
    /\ state_lock' = FALSE
    /\ pending' = None
    /\ pc' = "poll" /\ budget' = budget - 1
    /\ UNCHANGED <<irq_mode, set, decoder, busy_drops, todo, attempt, byte, requeue>>
    /\ UNCHANGED wireVars /\ UNCHANGED countVars

\* pop_keyboard_event and copy_mirage_events take from the common queue, a read of
\* the PS/2 device from its own.
take ==
    /\ Free /\ "take" \in Calls /\ pc' = "take"
    /\ UNCHANGED <<todo, attempt, byte, pending, budget, requeue>>
    /\ UNCHANGED driverVars /\ UNCHANGED queueVars /\ UNCHANGED wireVars /\ UNCHANGED countVars

copy_mirage_events ==
    /\ pc = "take" /\ queue_lock
    /\ \E n \in 1..2 :
         LET m == Min({n, Len(queue)})
         IN  queue' = SubSeq(queue, m + 1, Len(queue)) /\ taken' = taken + m
    /\ queue_lock' = FALSE /\ pc' = "idle"
    /\ UNCHANGED <<dropped, busy_drops, todo, attempt, byte, pending, budget, requeue, stamp,
                   forgotten, disturbed, shuffled>>
    /\ UNCHANGED driverVars /\ UNCHANGED wireVars

read ==
    /\ Free /\ "read" \in Calls /\ own # <<>> /\ ~state_lock
    /\ own' = Tail(own)
    /\ UNCHANGED <<irq_mode, set, decoder, state_lock>>
    /\ UNCHANGED queueVars /\ UNCHANGED threadVars /\ UNCHANGED wireVars /\ UNCHANGED countVars

\* poll_debug_escape takes events until it finds the key, keeps the first ones
\* it passes and puts them back behind what is still in the queue.
poll_debug_escape ==
    /\ Free /\ "escape" \in Calls /\ pc' = "scan" /\ requeue' = <<>>
    /\ UNCHANGED <<todo, attempt, byte, pending, budget>>
    /\ UNCHANGED driverVars /\ UNCHANGED queueVars /\ UNCHANGED wireVars /\ UNCHANGED countVars

scan ==
    /\ pc = "scan" /\ queue_lock
    /\ queue_lock' = FALSE
    /\ IF queue = <<>>
       THEN pc' = "back" /\ UNCHANGED <<queue, requeue, taken, forgotten, shuffled>>
       ELSE LET e == Head(queue)
                escape == e.key = "esc" /\ e.pressed
                room == Len(requeue) < REQUEUE
            IN  /\ queue' = Tail(queue)
                /\ pc' = IF escape THEN "back" ELSE "scan"
                /\ taken' = taken + IF escape THEN 1 ELSE 0
                /\ requeue' = IF ~escape /\ room THEN Append(requeue, e) ELSE requeue
                /\ forgotten' = forgotten + IF ~escape /\ ~room THEN 1 ELSE 0
                /\ shuffled' = (shuffled \/ (escape /\ requeue # <<>> /\ Len(queue) > 1))
    /\ UNCHANGED <<dropped, busy_drops, todo, attempt, byte, pending, budget, stamp, disturbed>>
    /\ UNCHANGED driverVars /\ UNCHANGED wireVars

put_back ==
    /\ pc = "back" /\ queue_lock
    /\ queue_lock' = FALSE
    /\ IF requeue = <<>> THEN pc' = "idle" /\ UNCHANGED <<queue, dropped, requeue>>
       ELSE /\ queue' = push(queue, Head(requeue)) /\ dropped' = dropped + Overflow(queue)
            /\ requeue' = Tail(requeue) /\ UNCHANGED pc
    /\ UNCHANGED <<busy_drops, todo, attempt, byte, pending, budget>>
    /\ UNCHANGED driverVars /\ UNCHANGED wireVars /\ UNCHANGED countVars

\* AcpiEcHotkeyDriver::poll publishes the code the embedded controller answers.
ec_poll ==
    /\ Free /\ "hotkey" \in Calls /\ ~queue_lock /\ strokes < MaxStrokes
    /\ strokes' = strokes + 1
    /\ stamp' = stamp + 1
    /\ queue' = push(queue, Stamped([key |-> "hotkey", pressed |-> TRUE]))
    /\ dropped' = dropped + Overflow(queue)
    /\ UNCHANGED <<busy_drops, queue_lock, out, owed, phys, taken, forgotten, disturbed, shuffled>>
    /\ UNCHANGED driverVars /\ UNCHANGED threadVars

-----------------------------------------------------------------------------
(* handle_irq1, between any two steps of the boot thread *)

handle_irq1 ==
    /\ irq_mode /\ pc # "init" /\ out # <<>>
    /\ out' = Tail(out)
    /\ IF Head(out).aux
       THEN UNCHANGED <<decoder, own, stamp, queue, dropped, busy_drops, disturbed>>
       ELSE IF state_lock
       THEN disturbed' = TRUE /\ UNCHANGED <<decoder, own, stamp, queue, dropped, busy_drops>>
       ELSE LET f == feed(decoder, Head(out))
            IN  /\ decoder' = f.d
                /\ disturbed' = (disturbed \/ pc = "byte")
                /\ IF f.event = None THEN UNCHANGED <<own, stamp, queue, dropped, busy_drops>>
                   ELSE /\ stamp' = stamp + 1
                        /\ own' = push(own, Stamped(f.event))
                        /\ IF queue_lock
                           THEN busy_drops' = busy_drops + 1 /\ UNCHANGED <<queue, dropped>>
                           ELSE /\ queue' = push(queue, Stamped(f.event))
                                /\ dropped' = dropped + Overflow(queue)
                                /\ UNCHANGED busy_drops
    /\ shuffled' = (shuffled \/ pc \in {"scan", "back"})
    /\ UNCHANGED <<irq_mode, set, state_lock, queue_lock, owed, phys, strokes, taken, forgotten>>
    /\ UNCHANGED threadVars

-----------------------------------------------------------------------------
(* External: the keyboard, the mouse and their line *)

Codes(k, pressed) ==
    LET plain(c) == [code |-> c, release |-> FALSE, aux |-> FALSE]
    IN  (IF k \in Extended THEN <<plain("E0")>> ELSE <<>>)
        \o (IF set = "Set2" /\ ~pressed THEN <<plain("F0")>> ELSE <<>>)
        \o <<[code |-> k, release |-> set = "Set1" /\ ~pressed, aux |-> FALSE]>>

Type ==
    /\ pc # "init" /\ owed = <<>> /\ strokes < MaxStrokes
    /\ strokes' = strokes + 1
    /\ \E k \in Keys :
         /\ out' = out \o Codes(k, k \notin phys)
         /\ phys' = IF k \in phys THEN phys \ {k} ELSE phys \cup {k}
    /\ UNCHANGED owed
    /\ UNCHANGED driverVars /\ UNCHANGED queueVars /\ UNCHANGED threadVars /\ UNCHANGED countVars

Move ==
    /\ pc # "init" /\ owed = <<>> /\ strokes < MaxStrokes
    /\ strokes' = strokes + 1
    /\ out' = Append(out, [code |-> "mouse", release |-> FALSE, aux |-> TRUE])
    /\ UNCHANGED <<owed, phys>>
    /\ UNCHANGED driverVars /\ UNCHANGED queueVars /\ UNCHANGED threadVars /\ UNCHANGED countVars

Answer ==
    /\ owed # <<>>
    /\ owed' = Tail(owed)
    /\ out' = Append(out, [code |-> Head(owed), release |-> FALSE, aux |-> FALSE])
    /\ UNCHANGED <<phys, strokes>>
    /\ UNCHANGED driverVars /\ UNCHANGED queueVars /\ UNCHANGED threadVars /\ UNCHANGED countVars

InputNext ==
    \/ controller_initialize \/ write_data \/ read_answer \/ initialized
    \/ poll_hardware \/ poll_keyboard_once \/ decode \/ lock_queue \/ publish
    \/ take \/ copy_mirage_events \/ read \/ poll_debug_escape \/ scan \/ put_back \/ ec_poll
    \/ handle_irq1 \/ Type \/ Move \/ Answer

-----------------------------------------------------------------------------
\* Every event that was made is in the common queue, was delivered, or is counted:
\* given up by a full queue, by an interrupt that found the queue locked, or by the
\* search for the debug key. Only interrupts find a lock taken.
EventsAccounted ==
    /\ stamp = Len(queue) + taken + dropped + busy_drops + forgotten + Len(requeue)
               + (IF pending = None THEN 0 ELSE 1)
    /\ ~irq_mode => busy_drops = 0
    /\ Len(queue) <= CAPACITY /\ Len(own) <= CAPACITY

\* Unless an interrupt took a byte out of turn, the decoder knows the keys that are
\* held down and the state of the shift key as soon as it has seen every byte, however
\* the bytes of a key were split over polls, and whatever answers of the keyboard
\* arrived after their command was given up.
KeysDecoded ==
    ~disturbed /\ out = <<>> /\ byte = None /\ pc # "init" =>
        /\ decoder.down \cap Keys = phys
        /\ "shift" \in Keys => decoder.shift = ("shift" \in phys)
        /\ ~decoder.extended /\ ~decoder.release

\* Both queues are in the order in which the events were made, until the search for
\* the debug key finds it behind other events or an interrupt comes during it.
InOrder ==
    /\ \A i, j \in DOMAIN own : i < j => own[i].n < own[j].n
    /\ ~shuffled => \A i, j \in DOMAIN queue : i < j => queue[i].n < queue[j].n
=============================================================================
