# The conveyor firmware in TLA+

`esp32-conveyor` is the firmware of an ESP32 board that drives the gates of a
conveyor.  A host sends JSON commands over TCP; the board switches the motors of
up to sixteen gates through I2C port expanders and watches the gates' sensors.
The program is about 1200 lines of C in `src/main`, on top of ESP-IDF (FreeRTOS,
lwip, the WiFi and I2C drivers) and a vendored copy of cJSON.

This directory holds the specifications of that program, the configurations
that check them with TLC and the proofs that TLAPS checks.  Paths in this file
are relative to the repository; module names are files of this directory.

1. [The system](#the-system) — parts, state, operations, interactions
2. [What is hard here](#what-is-hard-here)
3. [The modules](#the-modules) — how each corresponds to the code
4. [The runs](#the-runs) — what TLC checks, bounds, fairness
5. [The proofs](#the-proofs)
6. [What the code does and its comments do not say](#findings)
7. [What is left out](#what-is-left-out)
8. [The plan](#the-plan)

To check a specification, `tlc -config Gate.cfg MCGateController`; to check a
proof module, `tlapm CJsonTreeProofs.tla`.

## The system

| part | source | state | operations |
|---|---|---|---|
| I/O driver | `io_driver.c` | the image `io_data` (inputs, and the shadow of the outputs), `command_queue` (10 output commands), `state`; on the bus, two output and two input expanders | `io_scan_task`: `init_i2c`, `reset_port`, `queue_init`, then forever one command at most and every input port; `command_enqueue`, `io_read_pin_value`, `get_io_data` for other tasks |
| gate controller | `gate_driver.c` | its own `command_queue` (10 gate commands), the command in hand, `old_sensor_value` | `gate_controller_task`; `send_gate_command` for other tasks |
| gate settings | `gate_driver.c` | two heap arrays, `num_gate`, `state` | `gate_driver_init`, `uninit_gate_driver`, `print_gate_driver_setting` |
| TCP client | `tcp_client.c` | the global `sock_fd`, `tcp_rx_queue`, `tcp_tx_queue` | `tcp_client_tx_task` (connects, then sends), `tcp_client_rx_task` (receives), `tcp_send_data` |
| command processing | `process_data.c` | the cJSON tree of the command in hand | `app_process_data_loop`, `app_control_gate` |
| encoder | `encoder.c` | `g_encoder`, `io_old_value` | `encoder_init`, `encoder_read_pulse_count` (nothing calls them yet; [not modelled](#what-is-left-out)) |
| WiFi station | `wifi_station.c` | `s_retry_num`, an event group | `wifi_init_sta` in `app_main`, `event_handler` in the event loop's task |
| application start | `main.c` | — | `app_main` |
| cJSON | `cJSON.c` (vendored) | a tree of nodes and strings on the heap; the offset and nesting depth of the buffer that is read or printed into | `cJSON_Parse`, `cJSON_GetObjectItem`, `cJSON_Delete`, called by `process_data.c`; printing, minifying and everything that creates, changes, compares or duplicates trees, which the program does not call yet |
| task scheduling | FreeRTOS as `xTaskCreate` and `sdkconfig` use it | which task is on which of the two cores, who waits for a core, a tick or the bus | the tick, waking, sleeping |
| FreeRTOS, lwip, drivers | not in the repository | — | modelled by how `src/main` uses them |

How they interact:

- **host → TCP client → command processing.**  `tcp_client_rx_task` puts whatever
  one `recv` returns on `tcp_rx_queue` as one message.  `app_main` calls
  `app_process_data_loop` every tick; it takes one message and parses the first
  JSON value in it.  A full queue drops the message, `tcp_send_data` drops too.
- **command processing → gate controller.**  `app_control_gate` calls
  `send_gate_command`, which puts a gate command on the gate queue, or drops it.
- **gate controller → I/O driver.**  The gate task takes one command, reads its
  sensor in `io_data.input`, calls `command_enqueue` and then *spins* on
  `io_data.input` until the sensor has changed twice.
- **I/O driver → everybody.**  `io_scan_task` alone is on the bus.  It publishes
  the inputs in `io_data`, pin by pin, and nobody takes a lock.
- **restart.**  A failed `configASSERT` or `ESP_ERROR_CHECK`, or a heap that finds
  itself corrupted, aborts; the panic handler restarts the chip
  (`CONFIG_ESP_SYSTEM_PANIC_PRINT_REBOOT`).  The RAM is lost; the flash, and what
  the expanders drive, are not.

What makes each part correct:

- I/O driver: after a write that worked the expander drives what the shadow says;
  nothing is switched on that neither the command nor the shadow of its port
  asks for; after a restart everything is off; every queued command is written.
- gate controller: every accepted gate command is performed once and in order;
  the command queue of the I/O driver never overflows; a command ends only when
  the gate has moved; no command waits forever.
- TCP client: one socket; the two tasks agree on it; messages keep the order of
  the stream; the client connects.
- command processing: every tree is deleted, once; what the gates are told is
  what the host said, in that order.
- cJSON: a JSON text is accepted and its tree says what the text says, and so does
  what is printed of the tree; nothing is read or written out of bounds; no error
  leaves anything on the heap; every block has one owner; an edit changes one
  list, at one place.
- task scheduling: a task that spins at a high priority keeps none of the others
  off the cores for good.
- WiFi station, application start: bounded retries, and `app_main` gets to its loop.

## What is hard here

- *Two tasks, a shared image, no lock.*  The gate task decides when a command is
  done from an image the scan rewrites.  What it read first may be older than the
  command; what it compares with may be the constant 0xff of a failed transfer.
- *Two queues in a row*, each of which drops when full, with a task between them
  that holds a command in its hand, and restarts that lose all of it.
- *Hardware that keeps its state over a restart.*  The motors run on.
- *An unbounded wait on the outside world* (a sensor) in a task that spins, at a
  priority above that of `app_main`, possibly on `app_main`'s only core.
- *Indices from the host that nobody checks*: a gate number or a position that the
  board does not have reaches an array index and a shift.
- *A byte stream used as if it were messages*, and a socket that may fail at any
  point, with an error code kept in an unsigned variable.
- *A heap object with two owners* on an error path.
- *A recursive parser with many error paths*, each of which has to free exactly what
  its own call has made.
- *Lists whose end is kept in the `prev` of their first item*, except where it is
  NULL; items that refer to what others own, names that nobody owns; and an
  allocation that may fail half-way through any change.
- *A print buffer that moves and grows* while its offset is sometimes behind what
  has been written.
- *A boot with seven things that may fail*, of which some are checked by an
  abort, some printed and some ignored.

The file `PROJECT.json` lists these hazards one by one, each at its line with
the properties that watch it.

## The modules

Names of actions, variables and constants are those of the C code where it has
one.  "Slip" actions are versions of an action with a plausible mistake; nothing
refers to them, they document which mistake which property would catch.

### `IoData`, `IoDriver` — `io_driver.h`, `io_driver.c`

`IoData` has the image and which cell of it a command reaches (`Row`, `Col`).

`scan_pc` is where `io_scan_task` is.  One action is one bus transaction, one
publication of a port or one queue operation: `init_i2c`; `reset_write`,
`reset_sample`, `reset_publish` (the body of `reset_port`); `queue_init`;
`scan_receive`, `scan_write`, `scan_sample`, `scan_publish` (the loop).
`pcf8574_write_output` is an operator that both `reset_write` and `scan_write`
use.  `latch` and `sensor` are the hardware.  `in_step` is a history variable.

- A pin is a Boolean, TRUE where the bit on the wire is 0, which is how both
  directions of the driver translate; a port is a function of pins.
- A port and a pin come from the host as bytes, and no function on the way compares
  them with `OUT_PORT_NUM` or 8.  `OutputCommand` are those whose cell is in
  `io_data.output`.  A pin past the end of its row is among them: pin 8 of port 0 is
  the cell of pin 0 of port 1.  Such a command writes that cell, while
  the bit is shifted out of the byte on the bus, so port 0 gets its shadow as it
  was, and port 1 switches the pin at its next write.  So latch and shadow of a
  port agree not after every write that worked but as long as the port is
  `in_step`: since its last write, which worked, no command to another port has
  written into its shadow.
- A failed write leaves the latch as it was or has changed it: the transaction
  may fail before or after the expander took the byte.  The shadow is updated in
  both cases, as the code does.  A failed read publishes 0xff, all pins off.
- Sampling and publishing a port are two steps: the sensor may change between.
  Publishing is one step although the code copies pin by pin: the gate task
  reads a single pin at a time.  The write of the bus and the update of
  the shadow are one step because no other task reads the shadow.
- `command_enqueue` before `queue_init`, and `xQueueReceive` after a failed
  `xQueueCreate`, pass NULL to FreeRTOS, whose `configASSERT` fails: `Restart`.
- `OtherTaskPanic`: an abort anywhere else restarts this task wherever it is.
- `BlindView`, a `VIEW` for TLC, leaves out the sensors and what was read of them:
  they are in no guard, and none of the properties but the types mentions them.

### `GateController` — `gate_driver.c` on top of `IoDriver`

Extends `IoDriver` and adds the gate task: `gate_receive`, `gate_read_old`,
`gate_enqueue`, `gate_wait_change`, `gate_wait_trigger`.  A turn of a wait loop
that sees no change changes nothing, so only the turn that does is a step.
`gate_queue` is the `command_queue` of `gate_driver.c`.  `OutputOf` is the
conversion of the command number to the Boolean output state: everything but
`GATE_STOP_COMMAND` switches the motor on, and the low byte of the position is the
port.  `moved` is a history variable.

`GateCommand` are those whose output command stays in the image, configured on the
board or not.  The gate task reads its sensor at the same cell
(`RowOf`, `ColOf`), so a command for gate 8 on the right waits for left gate 0.

`Plant` says what the gates do: "free", sensors change whenever they like;
"driven", only while the motor's output is on, and slowly enough for the scan to
publish each level and for the task to see it; "still", never.

### `Board`, `MCBoard` — the tasks on the two cores

Extends `GateController` with the FreeRTOS scheduler and with `app_main`'s loop
and the rx task in so far as they pass gate commands on.  `on` is the task of
priority 5 on each core, `ready` those that wait for one, `asleep` those in
`vTaskDelay`, `due` those that a tick or the end of a bus transaction is about to
wake (`Wakes`: a free core takes them, pushing `app_main` off core 0).  `Runs(t)`
guards every action of task t: `ScanRuns`, `GateRuns`, `GateFindsNothing`,
`RxReceives`, `RxFindsNothing`, `AppMainRuns`.  `app_main` runs when it is awake
and no task of priority 5 is on core 0.

- The I/O task gives up its core at every bus transaction and at the end of its
  loop, the gate task only at the end of a command: its wait loops have no
  `vTaskDelay`, so it stays on its core while the sensor does not change.
- `vTaskDelay(10 / portTICK_PERIOD_MS)` is one tick (`CONFIG_FREERTOS_HZ` = 100);
  the `vTaskDelay(5 / portTICK_PERIOD_MS)` of `reset_port` is none.
- Assumed of the timing: what the I/O task and the rx task do between two ticks
  takes less than a tick; the host is reached after `reset_port` is done.  With
  the first, a tick never finds two tasks of priority 5 awake that would have to
  share a core by time slices, so there are no time slices in the model.
- Not here: the tx task, which wakes, finds its queue empty (nothing calls
  `tcp_send_data`) and sleeps; the WiFi and TCP/IP tasks of ESP-IDF, which run
  above priority 5 for short times; restarts, which `GateController` has.

### `GateService` — what the board promises

An abstract specification: a sequence of accepted commands and the outputs as
they are meant to be.  `Accept` appends, `Perform` carries out the oldest, `Crash`
forgets everything.  `GateController` implements it under the mapping
`pending <- Pipeline` (the command in the scan task's hand, its queue, the one in
the gate task's hand, the gate queue) and `outputs <- output`.

### `TcpClient` — `tcp_client.c`

The host's commands are two units each of the stream; a `recv` takes any number
of units that are there and fit; a message is an interval of units.  So a message
may be half a command, one and a half, or several.  `peer` is what lwip knows of the
connection: open, closed by the host (what was written still arrives), reset
(what was on the wire is lost).  The end of a connection that the host closed is
reported once, by a `recv` that returns 0 (`rx_closed`); after that every `recv`
fails, as after a reset.  `rx_error` is a `recv` that returns -1: the
`uint32_t` length becomes `WORD - 1`, and an empty message is queued.  The
terminator goes to `data[2^32 - 1]` then, which with addresses of 32 bits is
`data[-1]`, the byte in front of the buffer; what is there is not followed further.

### `ProcessData` — `process_data.c` on top of `TcpClient`

Replaces the anonymous consumer of `TcpClient` by `app_process_data_loop`:
`main_receive` (take, parse, look for "command"), `main_dispatch` (a turn of the
loop over the handlers, with `app_control_gate` in it), `main_delete`; and, for
what happens after the handler has deleted the tree, `main_dispatch_freed` and
`main_delete_again`, whose outcomes are those the build can produce: a comparison
with whatever is in the freed block, another delete, a heap that notices and
aborts, or one that does not.  When there is no memory for the tree (`"heap"`),
`cJSON_Parse` returns NULL as it does for a text that does not parse, and
the message is dropped with no word and no restart.  A JSON object is a record of
the three members the code looks up, each a number, missing or a string (an `Item`:
what it is, and its `valueint`, 0 unless it is a number).
The second half of a command may happen to parse as a bare JSON value; it has no
"command" and takes the same path as text that does not parse, except that the
tree is made and deleted, so it is not a case of its own.

### `CJson` — `cJSON.c`, as `process_data.c` uses it

A small-step machine for the recursive parser.  `stack` has a frame for every
`parse_array` or `parse_object` in progress (what its C variables `item`, `head`
and `current_item` hold); `item` is the argument of the `parse_value` in
progress; `pc` says whether a value is about to be parsed, has been parsed, or
has failed.  `node` and `str` are the heap, as functions from the addresses in
use.  Every `allocate` may fail.

- A step of the machine is the code between two allocations or two calls of
  `parse_value`: `parse_literal`, `parse_value_string`, `parse_number`,
  `parse_list` (the code before the loop of a list), `next_item`, `parse_name`,
  `list_goes_on`, `list_ends`, `list_fails`.  `parse_array` and `parse_object`
  differ in the brackets and in the name, so they share their actions.
- A text is a sequence of units; what may be cut, escaped or missing is a unit of
  its own, a literal and the `uXXXX` of an escape are one unit with their size in
  bytes (`Bytes`).  `u0000` is any escape of which `parse_hex4` returns 0, so also
  one with four characters that are no hexadecimal digits: it returns 0 for those and
  its caller takes that for the code point.  What is decoded then has a zero byte in
  it (`U+00`), where printing and looking up a name stop (`CString`).
  The terminator is part of the text, as it is part of the
  buffer's length.
- `Scan` and `Decode` are the two loops of `parse_string`; the code computes the
  size of the block from the first one alone.
- `Tree(n)`, what `cJSON_Delete` frees, is what no set of nodes that contains n
  and is `Closed` under `next` and `child` is without.  The code finds it by
  recursion; the model has no recursion there, so that it can be reasoned about.
- Two references say what a parse should give.  `Written` writes a tree out again,
  to be compared with the text it came from.  `JsonEnd` is the grammar, without heap,
  stack or error path: for every place of a text and every depth, where the
  value that begins there ends, if it does (`StringEnd`, `NumberEnd`, `ValueEnd`, and
  `ItemsEnd` and `RestEnd` for the lists).  It is a recursive function on the places.

`ProcessData` does not use this module: what it needs of a parse is whether there
is a tree and what three members of it say, and what `CJson` shows is that it may
rely on that.

### `CJsonPrint`, `MCCJson` — `cJSON_Print...` and `cJSON_Minify`

Extends `CJson` with functions of the tree it has parsed.  To print a tree is to
write a sequence of pieces (`print_value`, `print_array`, `print_object`,
`print_string_ptr`, `print_number` give it), and for each piece the code asks
`ensure` for a number of bytes, writes, and moves the offset, itself or later
by `update_offset`.  A piece says how much it asks for, what it writes, whether a
terminator follows and who moves the offset; `Step` does it to a `Buffer`.  What
is asked for and what is written are kept apart as they are in the code, so that
`wild` can tell when they do not agree.

- Every way to print is a function of the pieces: `print` (which
  `cJSON_Print` and `cJSON_PrintUnformatted` call), `cJSON_PrintBuffered`,
  `cJSON_PrintPreallocated`; each with a heap that has `realloc` or has not, and
  that refuses the first allocation, the second or none.
- `default_buffer_size`, 256 in the code, is a constant of the module, so that an
  instance with small trees makes the buffer grow.
- `cJSON_Minify` rewrites its text in place; the model returns the text, since
  what is written is never ahead of what is read.

`MCCJson` is the instance for TLC, of both modules.

### `CJsonEdit`, `ItemLists`, `MCCJsonEdit` — the calls that make and change trees

A call of the library is one action: a function of the heap, made from
functions that follow the code's helpers (`add_item_to_array`,
`cJSON_DetachItemViaPointer`, `create_reference`, `cJSON_Duplicate`, ...) pointer by
pointer.  A pointer is a number: 0 is NULL, a positive one a block on the heap, a
negative one a string constant of the caller's.  `Call(left)` lets a call make
`left` allocations and refuses the next, so every way of failing is a step.

- The caller keeps to what `cJSON.h` asks of it: an item is in one list at most;
  nothing a reference refers to is changed or deleted while there is the
  reference (`Shared`, `MayChange`, `MayDelete`); an item is not put below itself.
- `held` are the items the caller has to delete.  `lost` is a history variable:
  what the caller would have to delete and has no pointer to.
- `ItemLists` is the abstract specification: items hold sequences of items.  `call`,
  a history variable in `CJsonEdit`, is the last call that did something:
  what it was to do, to which list, at which item of it and with which item.  It
  determines what the lists are afterwards: the item is inserted, taken, replaced or
  dropped there and nowhere else.  A call that fails does nothing to any list (`Leave`).
  `CJsonEdit` implements this under `kids <- Held`, which reads the lists off the
  `next` pointers; the arguments of the C call are what goes into `call`.
- `MCCJsonEdit` has a `VIEW` that leaves out which addresses `malloc` handed out, and
  `call`, which only the step that sets it is compared with.  It is sound for these properties, none of which mentions an address; a heap
  whose lists are out of order is told apart from all others, so none is missed.

### `WifiStation`, `AppMain` — `wifi_station.c`, `main.c`, the settings in `gate_driver.c`

`WifiStation` has the event handler, the event group and the driver as the
handler uses it: a connect ends in an association or in a disconnection; an
associated station may be given an address, or not; an association may be lost
with an address or before it; events come in order.  `AppMain` extends it with `app_main`: NVS,
the I/O driver, the gate settings, the gate task, the station, the TCP client,
with a restart wherever a check may fail.  `nvs` is the flash partition and
survives.

### `MCGateController`, `MCProcessData`

The sets of gate commands and of JSON objects that the runs use.  `LatchlessView`
leaves out what the expanders drive: with free sensors no step depends on it, and
the properties of that run say nothing of it but its type.

## The runs

| run | configuration | checks |
|---|---|---|
| `io` | 2 ports of 1 pin, so a pin past the end of a row, queue of 2, every fault, fair | types; `LatchFollowsShadow`, `AllOffAfterReset`, `NothingStartsUncommanded`, `QueuedIsServed` |
| `gate` | 2 ports of 1 pin, output queue of 2, gate queue of 2, restarts, free sensors; commands for a gate that the row does not have and for a position that does not fit a byte | types; `HandshakeInv`, `OutputQueueNeverFull`; `ImplementsService`, `ImplementsIoDriver` |
| `board` | two cores; 1 port of 1 pin, output queue of 2, gate queue and rx queue of 1, no fault, driven sensors, commands that start motors, fair | `ImplementsFairGates`, `MessagesTaken`, `SentToHardware`, `DoneOnlyIfMoved` |
| `gate_wedged`, `gate_busfault`, `gate_motor` | see [findings](#findings) | a violation each |
| `tcp_terminator` | 1 command, a reset | a violation |
| `data` | 3 commands of 2 units, of four kinds; buffer of 3 units and the terminator, receive queue of 2, every fault, fair | of the TCP client `OneSocket`, `RxReadsTheConnection`, `QueueInStreamOrder`, `Connects`; of the command loop `NoTreeLeaked`, `GateCommandsFromHost`, `FirstIsPerformed` |
| `data_delete` | 1 command | a violation |
| `json` | 12320 texts, nesting limit 3, print buffer of 4 bytes, any allocation may fail | types; `Owned`, `InBounds`, `Faithful`, `Accepts`, `FindsFirst`, `PrintsRight`, `MinifyKeepsStrings` |
| `json_edit` | up to 4 nodes (a reference counts twice), 2 strings (with constant names), 2 held items, any allocation may fail | `OwnedOnce`, `Linked`, `CompareIsEquality`, `DuplicateIsACopy`, `ImplementsLists` |
| `app` | the real 10 retries, two gates, every NVS state, failing allocations, fair | `SettingsPrintable`, `GivesUpOnce`, `NvsIsNeverErased`, `BootReachesLoop` |

The bounds, and why they are enough:

- *Ports and pins.*  A pin past the end of its row needs another row to be in, a
  reset can skip a port, and the handshake can confuse the ports' turns: `io` and
  `gate` have two ports.  They have one pin each: what a read-modify-write
  does to the other pins of its own port (`LatchFollowsShadow`,
  `NothingStartsUncommanded`) is in the theorems, which are for any number of both.
- *Queues.*  Two entries in the I/O driver's queue is the least for which
  `OutputQueueNeverFull` holds; with one it does not.  The board has ten.  A gate
  queue of two has an entry behind the one that is being taken.  In `board` it is the
  tasks that compete, not the queues: four tasks on two cores, one port, and
  queues just long enough to be full and empty.
- *The stream.*  A message of up to three units is a whole command and a half of
  the next, so every way of cutting two neighbours occurs; three commands let
  one be lost between two others.  `WORD` = 16 stands for 2^32: all that matters
  is that it is larger than the buffer.  In the two violation runs of the
  network side (`tcp_terminator`, `data_delete`) the host stops writing after
  `SENT_MAX` commands, and the tasks may then have nothing to do:
  `CHECK_DEADLOCK FALSE` is for that.
- *The texts of `json`* are: scalars, among them strings with every kind of escape;
  lists of up to two members, of scalars or of such lists; many of them again
  with a blank at every place where there may be one; objects with duplicate names;
  texts deeper than the limit; the lists and strings with one unit missing
  or replaced by one of four; and all texts of up to three units.
  A list of two members has a first and a last one,
  and is what an error may leave half done; a limit of three has every call
  under and at the limit.  The board's limit of 1000 is out of the reach of a
  message of 255 bytes.  Printing starts with a buffer of 4 bytes in place of
  256, or of 0 or 1 for `cJSON_PrintBuffered`, so that most trees make it grow
  and many make it grow twice.
- *The trees of `json_edit`.*  Four nodes are a list of three, two lists of one, or
  a list in a list in a list; three is where a first, a middle and a last
  item differ, which is all the links can get wrong.  Two strings let a name and a
  text be copied, and an object have two members of the same name, or of names
  that differ in their case.  `MAX_ALLOC` is as many as a duplicate of the largest
  tree makes, four nodes and two strings.  The array that is created at a stroke holds two strings.
- *The station* has the real bound.  `attempts` is cut off one above what
  `GivesUpOnce` allows.

Fairness, and what justifies it:

- Weak fairness of `io_scan_task` and `gate_controller_task`, which `IoFairSpec` and
  `FairSpec` assume, is a property of the scheduler, checked in `board`
  (`ImplementsFairGates`): both are created at priority 5 with no affinity
  (`xTaskCreate`) on two cores (`CONFIG_FREERTOS_UNICORE` is not set), so one of
  them can spin and the other has a core.  `BoardSpec` itself assumes that a task
  on a core executes, that ticks and interrupts come and that a driven gate
  moves (weak fairness), and strong fairness of `AppMainRuns`: `app_main` may be
  taken off its core again and again before its turn is over, and goes on where
  it was; that it needs core 0 to be free again and again is the condition.
- `app_main` runs at priority 1 on core 0.  In `PdFairSpec` weak fairness of its
  steps assumes that core 0 is left to it; `MessagesTaken` shows that it is, again
  and again, as long as every command starts a motor that moves its gate.  After a
  `GATE_STOP_COMMAND`, or with a gate that is stuck, the gate task spins for good,
  and if it does so on core 0 nothing is taken off the network any more.
  `FirstIsPerformed` is for a board where that has not happened;
  `BootReachesLoop` is before the first gate command.
- `TcpFairness`, a part of `PdFairSpec`, has strong fairness of `tx_socket` and
  `tx_connect`: a socket can
  be had and the host can be reached again and again.  `Connects` is conditional
  on that.
- `AppFairSpec`: the driver answers every connect and the event loop delivers.
  Nothing is assumed of how long connections last, nor that an associated station is
  ever given an address.  If it never is and the association lasts, no event comes,
  and the wait in `wifi_init_sta`, which has no timeout, does not end; so
  `BootReachesLoop` has the premise that again and again the station is not in
  between (`[]<>(link # "associated")`).
- `FairSpec` of `GateController`: a sensor that can move does move, which under
  "driven" means a motor that is on moves its gate past the sensor again and
  again.  `BoardSpec` has the same.

## The proofs

TLAPS checks, for every value of the constants:

| theorem | says | from |
|---|---|---|
| `IoDriverProofs!IoTypeCorrect` | types; the loop counters stay in range | `IoAssumption` |
| `IoDriverProofs!LatchCoherent` | `LatchFollowsShadow` | the same |
| `IoDriverProofs!NothingStarts` | `NothingStartsUncommanded` | the same |
| `IoDriverProofs!ResetTurnsOff` | `AllOffAfterReset` | the same |
| `GateControllerProofs!GateTypeCorrect` | types of the composition | and `GateAssumption` |
| `GateControllerProofs!RefinesIoDriver` | the composition implements `IoSpec` | the same |
| `GateControllerProofs!HandshakeHolds` | `HandshakeInv` | the same |
| `GateControllerProofs!NoOutputCommandDropped` | `OutputQueueNeverFull` | and `QUEUE_LEN >= 2` |
| `GateControllerProofs!CommandMovesGate` | `DoneOnlyIfMoved` | `IoAssumption`, `GateAssumption`; no `"bus"` or `"i2c"` in `Faults`, `Plant` not `"free"` |
| `GateControllerProofs!BoardImplementsService` | the composition implements `GateService` | `IoAssumption`, `GateAssumption`, `QUEUE_LEN >= 2` |
| `BoardProofs!BoardImplementsGates` | the tasks on their cores implement `GateController` | `IoAssumption`, `GateAssumption`, `BoardAssumption` |
| `BoardProofs!BoardDropsNoOutputCommand` | `OutputQueueNeverFull` of `Board` | and `QUEUE_LEN >= 2` |
| `BoardProofs!ScheduledBoardImplementsService` | `Board` implements `GateService` | the same |
| `BoardProofs!ScheduledCommandMovesGate` | `DoneOnlyIfMoved` of `Board` | `IoAssumption`, `GateAssumption`, `BoardAssumption`; no `"bus"` or `"i2c"` in `Faults`, `Plant` not `"free"` |
| `DataProofs!TcpInvariant` | the inductive invariant `TcpInv` of `TcpSpec` | `TcpAssumption` |
| `DataProofs!PdInvariant`, `PdTypesCorrect` | the inductive invariant `PdInv` of `PdSpec`; types | and `PdAssumption` |
| `DataProofs!NoSocketLeaked` | `OneSocket` | the same |
| `DataProofs!SharedDescriptorSafe` | `RxReadsTheConnection` | the same |
| `DataProofs!StreamInOrder` | `QueueInStreamOrder` | the same |
| `DataProofs!TreesDeleted` | `NoTreeLeaked` | the same |
| `DataProofs!HostCommandsPerformed` | `GateCommandsFromHost` | the same |
| `AppMainProofs!AppInvariant`, `AppTypesCorrect` | the inductive invariant `AppInv`; types | `AppAssumption`, `WifiAssumption` |
| `AppMainProofs!PrintedSettingsExist` | `SettingsPrintable` | the same |
| `AppMainProofs!RetriesBounded` | `GivesUpOnce` | the same |
| `AppMainProofs!FlashKept` | `NvsIsNeverErased` | the same |
| `AppMainProofs!GivenUpForGood` | a station that has given up stays as it is until a restart | the same |
| `CJsonProofs!JsonInvariant`, `JsonTypesCorrect` | the inductive invariant `JsonInv`; types | `CJsonAssumption` |
| `CJsonProofs!ParserStaysInText` | `ReadsInBuffer`, what is read of `InBounds` | the same |
| `CJsonProofs!HeapIsOwned` | `Owned` | the same |
| `CJsonTextProofs!StringsFit` | `OutputFits`, what is written of `InBounds` | the same |
| `CJsonTextProofs!ParserInBounds` | `InBounds` | the same |
| `CJsonTextProofs!ParserAcceptsJson` | `Accepts` | the same |
| `CJsonTreeProofs!TreeFaithful` | `Faithful` | the same |
| `CJsonTreeProofs!MinifyRight` | `MinifyKeepsStrings` | the same |

The arguments:

- *`NothingStarts`.*  A write sends the shadow of its port with one pin replaced, or
  as it is if the pin is past the end of the row.  If the port is `in_step`, latch and
  shadow agree (`LatchFollowsShadow`) and only the commanded pin can go on.  If
  not, because the last write failed or another port's command wrote into the
  shadow, a pin that goes on is on in the shadow.  During the
  reset the shadow is all off: `BootShadowOff`, an invariant because the `.bss` is
  zero after a restart and no command can be queued before `queue_init`.
- *`ResetTurnsOff`* needs in addition that the reset reaches every port:
  `ResetProgress`, an invariant about the loop counters and the history of writes.
- *`NoOutputCommandDropped`* is the interesting one: nothing in the gate task
  looks at the I/O driver's queue, and yet it never overflows.  A gate
  command waits for two changes of its sensor's byte in the image, so for two
  publications of its port; between two publications of one port the scan always
  passes `xQueueReceive`, which takes a command if there is one.  So each gate
  command puts one on the queue and waits for at least one to be taken.
  `HandshakeInv` makes this inductive: it relates the length of the queue, where
  the gate task is, whether the image already shows a change it has not seen,
  and whether the scan will take a command before it next publishes that port
  (`TakesBeforePublishing`).  It does not matter what the bus, the sensors or a
  restart do.  With a queue of one the property is false, which is why the
  theorem assumes two.
- *`BoardImplementsService`.*  Every step is mapped: `send_gate_command` to
  `Accept` (or to nothing when the queue is full), `scan_write` to `Perform`, every
  restart to `Crash`, the hand-overs between queues and hands to stutters, since the
  concatenation of the four parts does not change.  The hand-over in
  `gate_enqueue` is one because the queue is not full, which is
  `OutputQueueNeverFull`.  The lemmas under it are about sequences.
- *`BoardImplementsGates`.*  A task's turn on its core is a step of
  `GateController`, what the scheduler does is a stutter.  What
  `AppMainRuns` hands on is a gate command because only such are put on the rx
  queue (`RxQueueOK`).  The two theorems after it follow from those of
  `GateController`.
- *`CommandMovesGate`.*  A command ends when the task has seen its sensor change
  twice in an image that may be older than the command.  While the gate stands
  still the image can be behind by one change, no more: `OneChangeAtMost` says that
  until the first change the image shows what the task remembers or what the
  sensor has now, and after it both.  That a publication takes the image nowhere
  else is `LevelsRead`: of each pin, the byte `io_scan_task` holds shows what has been
  published or what the sensor has now.  It needs a level to last until it is
  published (`LevelSeen`, or sensors that never move), and reads that do not fail:
  `gate_busfault` shows what a failed one does.
- *The TCP client.*  `TcpConnected` says which descriptor is open at each place of
  the connect loop; `OneSocket` and `RxReadsTheConnection` follow from it and could not
  be proved alone, since they say nothing of the places before a connection.
  `QueueInStreamOrder` is inductive with the types.
- *`HostCommandsPerformed`.*  The order of the gate commands is that of the
  commands behind them.  What keeps it is a bound that lies between what was
  performed and what is still to come: `Behind(k)` says that command k has been
  received and that no message on the queue has a part of it or of an
  earlier one.  `Performed` says so of every command that was sent to the gates
  and of the one in hand, and orders these; while the tree is alive the handler's
  place in the loop says whether the one in hand has been sent.  After the
  handler has deleted the tree (`TreeFollowed`) nothing is sent from it any more,
  whatever the freed block holds.  A full queue, a reset, a restart leave
  gaps and reorder nothing.
- *The boot.*  `StationShape` enumerates the states of the driver with what may be
  on the event queue in each: there is one cause for a connect at any time,
  and none once the handler has given up.  `GivesUpOnce` is not inductive without,
  since an event that is left over would start another round.
  `FlashKept` follows from `BootShape`: past the first step NVS is initialised.
- *The parser.*  `TextInv` and `ReadsInBuffer`: the last unit is a terminator, no
  action goes on behind it, and the skip over blanks steps back from it.
  `Owned` counts the pointers to each block, and says that the blocks are those of
  the tree.  It is not inductive: nothing in it says how the lists being
  parsed hang together, and these are not linked to the item they belong to
  until they end.  `Links` has the root and the head of every list on the stack
  as the roots of a forest: no node has two pointers to it, none of the roots has
  one, and every `Closed` set of nodes with all the roots in it is the whole heap,
  which says without recursion that there is no cycle and nothing loose.  With
  it, deleting the tree of the innermost list leaves exactly the others
  (`LinksDelete`), and linking it to its item changes none (`ListEnds`).
  `Frames` says that a list belongs to the last item of the list around it, which
  has no child yet; `Strings` is `Links` for the strings; `ItemIsNew` says that a
  value overwrites no pointer.  An error leaves one frame per step, so `Owned` holds
  at every step of the unwinding, and at its end the heap is empty.
- *The strings.*  `Scan`, `Decode`, `Body` and `WithoutBlanks` are recursive functions,
  as those of the grammar, `cJSON_Minify` and `Commented` are.
  That such a function exists and is what its definition says is `Recursion`, for
  every recursion along which a number goes down; what it computes for every text is
  then proved by induction on the place in the text (`Upwards`, `Downwards`), as
  every set of numbers has a least one.  So `StringsFit`: what the block is
  allocated for is the bytes up to the closing quote less one for each escape, and
  an escape decodes to at most the bytes it has without its backslash.  There is
  a byte for the terminator, and one to spare, as the opening quote is counted.
- *`ParserAcceptsJson`* compares the parser with the grammar, which is that of RFC 8259
  but that it takes any four characters for the digits of a `\u`, as the code does
  (`u0000` of the units).  The parser has a
  stack and the grammar has a depth, so the invariant `OnCourse` has the ends of
  all the values being parsed: there is a sequence of them, one for each frame and one for
  the whole text, in which each is what the grammar makes of the list at its depth
  once the value inside it has ended (`EndsOfAll`, `Onward`); and the value in hand ends
  where the innermost of them says (`Ahead`).  The first is `JsonEnd` of the text, so
  that is where the parser stops.  When the grammar has no end (0), none of those
  around it has one either (`NoEnd`), so an error is one of the text or of the heap.
  Under it are lemmas about the grammar: the function exists, since what is
  asked of a place is about places behind it (`JsonEndsFunction`), every end is
  behind its beginning (`EndsForward`), and the two loops of `parse_string` succeed
  for just the strings, which end where they stop (`StringDecided`).
- *`TreeFaithful`* follows where each node is in the text.  `Label` says of a
  node behind how much of the text, its blanks left out, its name begins, its
  value begins and its value ends, and in which list it is.  `Labelled` says what
  has to be at these places: the quoted name and a colon (`Named`), a scalar or
  the brackets of a list (`Valued`), a comma and the next item or the end of the
  list (`Followed`); and of what is not complete how far it is (`Begun`, `Arrived`).
  `Told`, that there are such labels for what was read so far, is inductive.
  `Faithful` is not, as it says nothing before the parser has returned, and nothing
  about the text could be said of a list that is not yet linked to its item.
  A step that reads something adds its text (`Says`, which takes blanks out only
  where a text is not in a string) and labels the item it is at; that the text of a
  string is what would be written for its content is `StringIsText`.  When
  the parser has returned every node is complete (`Complete`), and what `Written`
  makes of a node and those after it is the text from its name to the end of
  its list (`WrittenIs`), from the node that begins last to the one that begins
  first.
- *`MinifyRight`* has two readings of one text to bring together.  `WithoutBlanks`
  knows whether it is in an escape; `cJSON_Minify` only looks at the unit before a
  quote.  They differ behind an escaped backslash, and nowhere else: in a string
  the mode is "escape" behind a backslash, unless that was escaped itself
  (`Consistent`), and a quote there is what `Misread` excludes.  So a string that
  is entered ends at the same quote for both, if it ends (`StringLeftAlone`).  It
  does: `TreeFaithful` has it that a text that was parsed says something
  whatever comes behind it, so a blank there says nothing and is not in a string
  (`BlankBehind`, `Agree`).  `CommentsGone` goes through the text from its end to
  its beginning: what `cJSON_Minify` makes of the text with the comments from a place
  on is what `WithoutBlanks` makes of the text itself from there on, where a
  comment is skipped to its last character (`CommentSkipped`) and a string is
  copied as one (`FromString`).
Checked by TLC only:

- *Liveness*, since TLAPS does not reason about fairness: `QueuedIsServed`,
  `SentToHardware`, `ImplementsFairGates`, `MessagesTaken`, `Connects`, `FirstIsPerformed`,
  `BootReachesLoop`.
- *`FindsFirst`* compares `cJSON_GetObjectItem` with what the instance says of a
  text, which members its object has.  Nothing is assumed of that, so there is
  nothing to prove it from.
- *`PrintsRight`*: a print is a fold over the pieces of a tree, a second recursion
  in the recursion over the tree, for every buffer and heap.
- *`CJsonEdit`*: `OwnedOnce`, `Linked`, `CompareIsEquality`, `DuplicateIsACopy` and the
  refinement of `ItemLists` follow trees and lists by recursion.

## Findings

Each is a run that TLC ends with a counterexample.

- `gate_wedged` — a `GATE_STOP_COMMAND` switches the motor off and then waits, like
  every command, for two changes of the sensor.  The gate stands still; the task
  spins for good, and no later command of any gate reaches the hardware.
- `gate_busfault` — `gate_driver.c:152` says "wait sensor pin is change when motor
  start run".  A read that fails is published as all pins off, so one failed and one
  good read look like two changes, and the command ends with nothing moved.
- `gate_motor` — `gate_driver.c:146` says "start motor util receive sensor signal".  The
  task starts the motor and waits for the signal, but nothing stops the motor when
  it has come: the command ends with the output on and nothing queued that would
  switch it off.  It runs until the host sends a `GATE_STOP_COMMAND`.
- `tcp_terminator` — `tcp_client.c:68` "Null-terminate whatever we received".  The -1 of a
  failed `recv` is stored in a `uint32_t`, passes `len > 0`, and the terminator is
  written outside the buffer: with addresses of 32 bits, into the byte in front of it.
- `data_delete` — for a command without `gateNo` or `gatePo` the handler deletes the
  tree, the loop goes on reading from it, and the caller deletes it again
  (`cJSON.h:146` makes the caller responsible).

More is shown by properties that *hold*, since they say what the code does:

- `NvsIsNeverErased`: the recovery from a full or newer NVS partition in
  `start_wifi_station` is dead code, because `app_main` has already aborted on it.
- `GateCommandsFromHost`: a gate number is cut to a byte, so that a command for
  gate 257 is one for gate 1.  One that the board does not have is not refused
  anywhere.
- `LatchFollowsShadow` and `NothingStartsUncommanded` have to except ports that are not
  `in_step`: a command to open gate 8 on the right is written to the shadow of left
  gate 0, which the next write of the left port switches on.
- `FirstIsPerformed` has to except `OutOfMemory`: when there is no memory for the tree,
  the message is dropped and nothing says so.
- `BootReachesLoop` has a premise: an access point that associates the board and
  gives it no address keeps `app_main` from its loop for good
  (`wifi_station.c:101`).
- `Accepts` has to allow for it that `parse_hex4` returns 0 for what are not
  hexadecimal digits (`cJSON.c:631`): `"\uZZZZ"` is taken, as a string with
  a zero byte, which ends it for everything that reads it.

And of cJSON, in functions that the program does not call:

- `MinifyKeepsStrings` leaves out strings that end in an escaped backslash:
  `cJSON_Minify` takes the quote behind it for an escaped one and goes on as if it
  were still in the string (`cJSON.c:2807`).
- `PrintFits`, a part of `PrintsRight`: a preallocated buffer needs exactly one byte more than the text and
  its terminator (`cJSON.h:162` advises five, to be safe).  Without a `realloc`, a
  buffer of no bytes that has to grow is copied from, for one byte
  (`cJSON.c:512`); that case is left out of the property.
- `Linked`: a list made by `cJSON_Duplicate` or `cJSON_CreateIntArray` does not have the
  pointer to its end that every other list has; the functions cope with that.
- `OwnedOnce` needs `lost`: `cJSON_AddItemReferenceToObject` forgets the reference it
  has made when there is no room for its key (`cJSON.c:2079`).
- `DuplicateIsACopy` asks that names are as they were, not that they are there:
  `replace_item_in_object` does not look whether the new name could be copied
  (`cJSON.c:2366`), and a member without a name is what remains.
- `CompareIsEquality` is for objects whose members have names of their own: with a
  name twice, `cJSON_Compare` always finds the first.

## What is left out

- *Of cJSON*: `cJSON_InitHooks`, but for whether there is a `realloc`; the byte order
  mark; numbers of more than 63 characters, fractions and exponents; `null` and
  `false` (which differ from `true` in a constant); texts cut inside a
  literal or a Unicode escape; a quote or a backslash among the four characters
  behind a `\u`; sizes near `INT_MAX`; and the C stack that a deeply
  nested text takes.
- *Commands whose cell is past the end of `io_data.output`*: a position whose low byte is
  no port, or a gate number so large that the cell is behind the last row.  They
  write to other variables of the program, and read others for a sensor; nothing in
  the code refuses them.  With the board's constants the pins that stay in the table
  are below 16, so the shift of `pcf8574_write_output` is one within an `int`.
- *The encoder*, which nothing calls: `encoder_read_pulse_count` cannot count, as it
  compares with an old B that is never assigned (`encoder.c:22`) and then asks for the
  opposite of what it found (line 24), though the comment above it describes a
  transition that is to be counted.  With it goes `get_io_data`, which only it calls.
- *Reconnecting*: nothing in the code connects again after a connection is lost, and no
  property says so; `Connects` is about the first one.
- *Of the scheduler*: the tx task, the tasks of ESP-IDF, time slices (see
  [Board](#board-mcboard--the-tasks-on-the-two-cores)).  Outside `Board` tasks
  interleave freely.
- *The contents* of log lines, of gate settings (printed, never used) and of
  messages to the host (nothing produces any yet).
- `io_test`, `print_port_data`, `heap_trace` and the empty
  `encoder_send_pulse_count` are called by nothing.
- `pytest_hello_world.py` and the build files: the test is the template's and
  looks for a text that the program does not print.

## The plan

What is left, in the order in which it is to be done:

1. *Proofs* about `CJsonEdit`: `OwnedOnce`, and `Linked` for the calls that do not
   duplicate, along the lines of `CJsonProofs`.  It takes the module's trees
   as `Closed` sets first, as in `CJson`.
2. *Composition*: `ProcessData` in place of `Board`'s anonymous messages, from the
   host's command to the output, and `GateCommandsFromHost` together with
   `ImplementsService` as a theorem about it.
3. *Composition* of the boot with the tasks: that the host is reached only after
   `reset_port` is done, because `app_main` waits for the station, is assumed in
   `Board` (of the time that takes), and stated nowhere else.
