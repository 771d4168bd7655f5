# Verification of the AVR door controller

TLA+ models of the door controller firmware, the daemon and the client of this
repository, checked with TLC, with proofs checked by TLAPS.

- [The system](#the-system)
- [What is modelled](#what-is-modelled)
- [Runs](#runs)
- [What the violation runs found](#what-the-violation-runs-found)
- [Proofs](#proofs)
- [Fairness](#fairness)
- [Abstractions and limits](#abstractions-and-limits)
- [Plan](#plan)

`PROJECT.json` lists the components, runs, hazards and theorems, and maps every
definition to the lines it models. Run one check with
`tlc -config DoorSafety.cfg MCDoorCtrl`, one proof with `tlapm DoorCtrlProofs.tla`.

## The system

A controller (`src/firmware`, bare metal C on an AVR) serves up to two doors. Each
door has a Wiegand reader with a keypad, an open button, a lock, a LED and a
buzzer. The access rights are records in the EEPROM. The controller talks over
its UART to a daemon (`src/daemon`, on OpenWrt) that offers its commands on
ubus; the client (`src/client`, Python) keeps the controllers in step with a
database.

### Concurrency in the firmware

Three kinds of actors: the main loop (`work_queue_run`), which executes one
work at a time; the timer interrupt, which runs the callbacks of expired
timers; and the other interrupts (pin changes of readers and buttons, UART,
I2C), which schedule works and timers. There is no lock. What is shared is
protected by `ATOMIC_BLOCK` (the run queue), by masking the timer interrupt
only (the timers), or not at all (`open_status`, the triggers). Interrupts do
not nest, with one exception: the receive interrupt of the serial line answers a
message that it refuses, and `ctrl_transport_reply` waits for what is being sent
in `sleep_while`, which enables interrupts. In `UartLink` that is an `answer`
that waits while the other steps go on.

### Inventory

| component | state | operations | talks to | hard | correct when |
|---|---|---|---|---|---|
| work queue (`work-queue.c`, `sleep.h`) | slots, head, tail | schedule, deschedule, run_once, sleep_if | everyone | interrupts between all its steps; full table; sleep | bounded FIFO, no slot leaks, no work slept through |
| timers (`timer.c`) | sorted list, 16 bit clock, mask | schedule, deschedule, tick, sleep, wakeup | callbacks in the tick | wrap of the clock; callers that interrupt each other | every timer expires once, on time |
| trigger (`trigger.c`) | output, sequence, position, timer | set, start, start_seq, timeout | timer, gpio, queue | restart while it plays | output follows the sequence and ends low |
| button (`button.c`) | state, next state, timer | edge, timeout, init | timer, door | edges during debounce | reports every stable change |
| door controller (`door-controller.c`) | state, PIN, idle timer, open sources, three triggers | events, set_open | all of the above, `check_key` | timeout racing a card; wake-ups lost to a full queue; the lock shared with the button's interrupt | opens for granted requests only, never waits for ever, lock follows its sources |
| Wiegand reader (`wiegand-reader.c`) | bits, counter, word timer | data pin edge, word timeout | timer, queue | lost bits, word timeout against the next word | one event per word, no merged words |
| boot, decision (`main.c`) | - | init_doors, check_key | acl, door | order of initialisation | - |
| EEPROM store (`eeprom.c`) | entries | read, write, scan, find free, save, remove all | acl, commands | records of two entries; power failures between writes | a command changes its own record only |
| v1 records (`eeprom-v1.c`) | - | conversion, set_access | store | fields lost in conversion | same effect as version 2 |
| ACL, OTP (`acl.c`, `acl_otp.c`, `hotp.c`) | used mark, counter | check_access | store | counter window, replay | a right opens iff it is stored; a one time PIN opens once |
| commands (`ctrl-cmd.c`) | - | one handler per command | store, rtc, transport | paging of the used records | every used record is listed once |
| UART and transport (`uart.c`, `uart-ctrl-transport.c`) | ring, message buffer, CRC | receive byte, work, reply, event | commands, daemon | one buffer for request and reply; damaged, lost and oversized messages | no damaged command runs, resynchronises |
| I2C, RTC (`i2c.c`, `rtc-ds3231.c`) | current transfer | transfer, timeout, interrupt | timer | timeout against a late interrupt, arbitration | every transfer completes once |
| daemon (`src/daemon`) | request queue, timers, send and receive buffers, deferred ubus requests | send, receive, timeout, ping, reset, continue, destroy | transport, ubus | late replies, events between request and reply, removal of a device | every request is completed once, with its own reply |
| client (`src/client`) | database, known ACL | update_acl, used access | daemon | failure between controller and database | both agree in the end |
| SHA-1, gpio, boards, build, electronics | - | - | - | - | not modelled: a pure function, tables, no program |

## What is modelled

| module | models |
|---|---|
| `RunQueue`, `Trigger` | the queue as a sequence and the trigger as a record: the operators the door is built from |
| `DoorCtrl` | one door with its triggers, timers and button, the run queue, and all three kinds of actors |
| `DoorLock` | `door_ctrl_set_open` cut into its read, write and action |
| `WorkQueueSpec` | what the users of the run queue rely on |
| `WorkQueue` | the run queue as slots and pointers; implements `WorkQueueSpec` |
| `TimerQueue` | the timer list, the wrapping clock, the tick interrupt, the sleep |
| `TimerRace` | `timer_schedule_in` cut between its assignments |
| `AccessTable` | what commands and doors rely on of the access records |
| `AccessStore` | the entries in the EEPROM, the commands on them, power failures; implements `AccessTable` |
| `AclOtp` | a one time password right and the token of its holder, power failures |
| `Wiegand` | the pin change interrupt, the bits of the reader, its word timeout and decoding |
| `I2c` | the bus master, and the clock on it with its init, set and get |
| `UartLink` | the receive and send interrupts of the controller's serial line, command and reply |
| `DaemonSpec` | what a client of the daemon relies on |
| `Daemon` | the request queue, the ping, the framing and the controller at the other end; implements `DaemonSpec` |
| `RunQueueLemmas`, `DoorCtrlProofs`, `WorkQueueProofs`, `TimerQueueProofs`, `AccessStoreProofs`, `AclOtpProofs`, `DaemonProofs`, `DriverProofs` | proofs |
| `MC*` | instances for TLC; `MCQueues` has `WorkQueue` and `TimerQueue`, `MCParts` has `Wiegand`, `I2c`, `UartLink` and `AclOtp`, one of them in each behaviour |

Names that end in `_Something` after the name of another definition
(`WordTimeout_BitsKept`) are mutants: see [Runs](#runs).

### DoorCtrl

`pc` is the place of the main loop in `work_queue_run` and `on_event`. An event
handler is cut where an interrupt makes a difference: after
`door_ctrl_set_state` has descheduled the idle timer, after it has purged the
queue, and before and after each call of `door_ctrl_set_open`. The variable
names are those of `struct door_ctrl`; `idleArmed` is `idle_timer.pending`;
`btn` is the open button with the real level of its pin. Three variables are
not in the code: `keys` (how many keys of this PIN entry were pressed), `request`
(the request for which the lock is about to move) and `lost` (the wake-ups that
a full queue dropped). No guard reads them.

`check_key` is the constant set `Granted`. `Foreign` stands for all works of
other users of the queue. The reader is any sequence of keys, cards and errors.

### WorkQueue

The ATOMIC_BLOCKs of `work_queue_schedule` and `work_queue_run_once` are one step
each. The loop of `work_queue_deschedule` is a step per slot, in which no
interrupt comes; `ListShape` holds at each of them. The slot of a work is freed
in a separate step, after its context was copied, as in the code. The refinement
maps the walk of `work_queue_deschedule` to one removal at its first step.

### TimerQueue and TimerRace

`TimerQueue` has each call as one step, which is right as long as callers do not
interrupt each other; `TimerRace` is about what happens when they do. The clock
counts modulo `2 * Half` and the comparisons are those of `timer.h`. `left`, the
ticks until a timer must expire, is a history variable: the ordering and the
punctuality are stated with it, not with the comparison that is to be verified.

### AccessStore

An entry is a header (type, used, doors) with a number, which is a card or a
PIN. Commands run in works, one after another, so a command is one action, but it
is computed as the sequence of the blocks it writes, and the power may fail in
any of them: the blocks before are written, the torn one has either header, and
any number when its number was being changed. The refinement maps the entries
that a scan from 0 meets to a table from positions to records.

`AccessTable` says: a command changes the record at one position; a record that
exists is replaced or removed and never refused; a check succeeds exactly if a
stored record fits; a power failure spoils at most the record being changed, and
the promise stays for the commands after it, except that a command may then be
refused. Nothing is promised once a record is set by its index on a table that a
power failure damaged, because the hole of a torn record looks like a free
entry; wiping the table restores everything.

### AclOtp

`value` is the word `c` of a HOTP record or the `interval` of a TOTP record, `follow`
its `resync_limit` or `allow_followings`, `previous` its `allow_previous`. `Opens` is
`acl_check_otp_pin` with the write of the counter behind it, `PowerFails` the same
with a write of two bytes that is cut off after one, `SetAccess` the command that
replaces the record. `Press` and `ReadClock` are the holder with the token: the
token's own counter is a number that does not wrap. A counter of the record is a
word of `ByteSize * ByteSize` values, so that the wrap happens in the run. `spent` and
`trusted` are history: the last counter used up, and whether the record's counter
did not wrap, was not torn across a carry, and was not set past the token since
it was set. The constant `Hotp` is the truncated hash cut to its digits;
`HotpDiffers` says that the passwords of one right are different.

### Wiegand

`wr` is `struct wiegand_reader`; its `data_pins` is also the port state that
`external_irq_pc_handler` compares with. `pins` are the levels of the two data
lines, `latched` the pending interrupt. A reader sends the bits
of a word as pulses; `ServedLate` lets an interrupt be served after the line went
back, `Unplug` and `PlugIn` cut the contact, and `NextWord` may begin before or
after the word timeout. The meaning of a word is written down in the instance and
not computed by the model, so that the decoding is compared with something else:
a frame of eight bits whose second half is the complement of the first is a key
there, which `KeyFrameIsHeard` finds the decoder to refuse. `WordIsHeard` is about
the other frames. What becomes of an event when the run queue is full is the
subject of `DoorCtrl`: here a word is heard when its event is handed to
`work_queue_schedule`.
`Decode` is the decoding of any bits, `Decoded` that of the record.
`WiegandAssumption` says that the words are bits, fewer than the 256 at which the
counter wraps, and that the buffer holds a card.

### I2c

`bus` is `struct i2c_bus`, with `timer` for `timer.pending` and `busy` for
`xfer != NULL`. `hw` is what the interrupt handler told the TWI unit to do next, as
the bits it writes to `TWCR`, with the mode `lost` after a lost
arbitration, where the bits are those that are in force in the end; `TwiInterrupt` is one call of `TWI_vect`, whose switch
is `Handle`, and `TwiFault` is the same after a missing acknowledge, a bus error or
a lost arbitration, or no interrupt at all. `WakesUp` is the caller in `rtc_set`,
`rtc_get` or `rtc_ds3231_init` behind `i2c_transfer_sync`, with its next transfer.
The clock on the bus is external: its register pointer and its registers.

### UartLink

`ctrl` is `struct ctrl_transport` without `outbuf`, which is `out`. `OnRecv` is
`uart_ctrl_transport_on_recv` for one byte, `Run` the work `on_ctrl_transport_event`
with the dispatch of `ctrl-cmd.c`, `Reply` is `ctrl_transport_reply` behind its
`sleep_while`, in the work or in the receive interrupt, and `TxReady` the send
interrupt. The peer sends a message when the last one has left, whether it was
answered or not; the line loses a byte, damages one or makes one up. `Encode` is
`ctrl_transport_write` with its escapes: `Covered` are the bytes under the checksum,
`CrcOf` the checksum after each of them, `OnLine` what the last bytes are on the line.
`HandedOver` is `work_queue_schedule` as the transport calls it: the run queue, which
the readers and the door fill too, may be full, and nothing looks at the result.
Then no work is scheduled, nobody replies and the controller is deaf for good, until
the daemon resets it (`HungIsReset` of `Daemon`). The history variable `dropped`
records that; `ListensAgain` and `NextIsHeard` except exactly this controller.
`Flip`, `CrcUpdate` and the size of a byte are constants: `UartLinkAssumption` says
that an escape is undone by another and hides the two special bytes, that a
checksum is two bytes, that the boot event's type is a byte, and that a message
fits its buffer; the run uses bytes of five
bits, and checksums below 1021.
`mixed` is history: the boot event was written while a payload or the checksum
after it came in. It moves the position `ctrl->pos` that both use, so that the
next bytes, also those of the checksum, land elsewhere in the payload. `mixed`
ends with the next message that the controller listens to.

### Daemon and DaemonSpec

`req`, `pending`, `timers`, `pingTimer`, `write`, `outBuf`, `inBuf` are the fields of
`struct avr_door_ctrl` and of its transport. Each action is a callback of uloop:
`MethodCall` a ubus call that is deferred, `OnRequestTimeout`, `OnPingTimeout`,
`OnReadEvent` (the buffer is refilled when it is used up, and one message at most is
taken out of it, with its handler, its continuation and its completion), `OnWriteEvent` in its four
outcomes. When one wake-up of uloop has both halves, the read callback is
followed by the write callback of the same event: `events`. The controller is
modelled from what it does on the line: it takes one query at a time, is deaf
until it answered, hangs, restarts on its own or by the reset, and sends its
start event. Queries and answers are messages with the request they belong to;
the daemon never looks at that, and `InStep` is stated with it.

`DaemonSpec` promises that the deferred calls are completed in the order they were
made, once each, and all of them.

## Runs

| run | checks | bounds |
|---|---|---|
| `door_safety` | nine safety properties of `DoorCtrl` | two slots, two digits, two cards, PINs of two nibbles |
| `door_live` | busy states end, PIN entries end, the lock is released | the same, four outside events |
| `door_lock` | (violation) an accepted card drives the lock | none: the state space is finite |
| `queues` | `WorkQueue`: shape of the list, slots accounted, implements `WorkQueueSpec` with its liveness | four slots, two works |
| | `TimerQueue`: flag, order, punctuality, no forgotten timer | three timers, clock of eight ticks |
| `timer_race` | (violation) a flagged timer is in the list | one timer of the main loop, two of interrupts |
| `access_store` | records well formed, implements `AccessTable` | three entries, two cards and PINs, one door |
| `used_access` | (violation) the version 1 listing is complete | the same |
| `set_access_v1` | (violation) version 1 gives access | the same |
| `daemon` | every request is watched, answers belong to requests, faults are used up, a hung controller is reset, implements `DaemonSpec` | three calls, two of them with two pages, one fault |
| `parts` | `Wiegand`: no card is read that was not held to the reader, a word is heard | three words with one trouble |
| | `I2c`: success means the whole time, the mark of a valid time, callers are woken and answered | four operations with two bus faults |
| | `UartLink`: no damaged command runs, the next message is heard, one reply, not deaf for ever | two messages with one fault |
| | `AclOtp`: a spent password is refused, the counter does not pass the token, a fresh password opens | words of 16 values, 18 presses, 40 seconds |
| `key_frames` | (violation) a valid key frame of eight bits is a key | the same as `parts` |
| `lost_arbitration` | (violation) a lost arbitration is followed by a new start | the same |

`queues` and `parts` put modules that share no state into one run: the part is
chosen in the initial state and never changes, and only it moves. A behaviour of the run is one of
the part.

Why the bounds are enough:

- Door: two slots are the fewest with which the queue is full, partly full and
  empty while a work is in flight; every drop of an event happens. PINs of two
  nibbles are shifted, overflow, and are left incomplete. The sequences have
  the skipped first step, a silent and a sounding one. The cards and PINs
  include a granted one of each of the three kinds of request and refused ones.
- Door, liveness: four outside events reach every state of the door, fill the
  queue, and leave an interrupted PIN entry with a moved button.
- Work queue: with four slots one walk removes the first, a middle and the last
  slot and keeps others between them. The slots are reused in every order.
- Timers: with three timers one is inserted between two others; with a clock of
  eight ticks it wraps while timers are pending, and a delay of three is the
  longest the signed comparison can tell.
- Store: with three entries a record of two has a neighbour on either side, and
  two free entries may be parted. Two keys tell the right record from a wrong
  one. One door is enough to tell an empty mask from one that is not; the
  doors are not otherwise combined. Inputs come with the used mark clear.
- One time passwords: the counter of the record wraps, and a carry between its
  two bytes is torn, within 18 presses; the clock passes through more intervals
  than the longest window has.
- Daemon: three calls make a queue behind a current request and behind a ping.
  Two pages have a first, a continued and a last answer. A query in two parts is
  written partly. One fault of each kind happens at every place; with two
  faults, which takes two minutes, the run passes as well.
- Reader, clock and line: the words include keys of four and of eight bits and a card. Three
  time registers have a first, a middle and a last byte. Four operations go on
  after a failed one. Two messages and one fault put every message behind a
  damaged one; with three messages the run passes as well, in a minute.

`CHECK_DEADLOCK FALSE` is set where the surroundings are bounded and the system
then really stops: `door_live` (the outside events are used up and the controller
sleeps), `parts` (the token is not used, nothing is sent and no operation is called
any more) and its two violation runs. The others never stop.

Every property has a mutant: a variant of one definition with a plausible bug
(`..._NoPurge`, `..._TailKept`, `..._Unsigned` and so on), for which the property
fails under the same configuration.

## What the violation runs found

- `timer_race`: the timer functions mask the timer interrupt only, but pin change
  interrupts call them as well. A pin change between two assignments of the main
  loop loses the interrupt's timer with its flag set, or makes the list a ring.
- `door_lock`: the button changes while the main loop is between the read, the
  write and the action of `door_ctrl_set_open`. Its source stays in `open_status`
  with the lock released, and cards no longer open the door until the button is
  used again.
- `used_access`: `ctrl_cmd_get_used_access` skips the record behind every
  continuation.
- `set_access_v1`: `eeprom_set_access` never stores the doors, so the version 1
  command only ever removes.
- `key_frames`: the decoder compares the second half of a frame of eight bits with
  the complement of the first as `int`s, which are never equal. The comment calls
  this a check of the validity, but no frame of eight bits passes it.
- `lost_arbitration`: after a lost arbitration `TWI_vect` asks for a new start, as the
  comment there says, and then writes the register again without it. Only the
  timeout ends the transfer.

### What else the models show

These follow from the code as modelled. No document or comment of the repository
was found that says otherwise, so they are not findings; where a property would be
false because of one, the property excepts it by name.

- Daemon: an answer that is cut off and completed by a later one, or that comes
  late, is taken for the answer of the next request, which is then answered OK
  although the controller was deaf for it (`InStep` allows what belongs to a
  request that was given up). A start event that arrives while a request waits
  is its answer, an error. What a partly written query left in the send buffer
  goes out in place of the next one. Requests that never stop keep the ping
  away; so does a ping that finds no memory, for good.
- One time passwords: old passwords are valid again when the 16 bit counter
  wraps; a write torn between the two bytes of a carry sets the counter back or
  ahead; `interval * 60` is cut to 16 bits, a case `OtpAssumption` and the
  condition `LostBits` leave out.
- Wiegand: with two disturbances of a word a card that nobody sent can be read:
  `CardsAreSent` holds for one.
- Serial line: a boot event that is written in the middle of a payload moves the
  position of the payload. The command then runs with a payload that was not
  sent, though the checksum is right. Before the end of the checksum it moves the
  checksum into the payload, and what was left of an earlier checksum may accept
  it. `CommandsAreSent` leaves out the one message in which this happens, by
  `mixed`. The check for a message that is too long cannot be reached by
  a right checksum. A reply that does not fit `outbuf` becomes an error.
  A full run queue leaves the controller deaf for good (`dropped`).
- I2C: the timeout does not clear `bus->xfer`, so that every later transfer fails
  with `-EBUSY`; `ClockAnswers` takes that for an answer. A `rtc_set` that fails on a
  clock that was valid leaves a mixed time marked as valid.

## Proofs

For every value of the constants that satisfies the named assumptions of the
modules. Each invariant is proved from an inductive one, in the usual three facts:
it holds initially, every step keeps it, it implies the property.

### DoorCtrlProofs

For every queue size, keypad, PIN length, set of granted requests, open time and
buzzer sequences that satisfy `ConstantsAssumption` (sequences are audible, the
queue has a slot, the special keys are not digits):

- `TypeCorrect`: the type invariant; with it the queue never exceeds its slots;
- `StaleTimeoutImpossible`: an idle timeout never outlives its PIN entry;
- `WakeupsKept`, `BuzzerKept`: a PIN entry has its idle timer or its event, a busy
  door its buzzer or its event, unless a full queue dropped it;
- `LockFollowsRequests`, `ButtonHeard`: the lock is driven iff a source asks or the
  open time runs, and the button's source follows the button;
- `PinFresh`: a PIN holds the keys of its own entry;
- `OpeningAllowed`, `ReleaseIsTimed`: the action properties on the lock.

The inductive invariant is

    IInv == TypeOK /\ Control /\ Wakeups /\ LockInv /\ PinIsOfThisEntry

None of the properties is inductive alone. `Control` ties `pc` to the state (the
main loop is at `purge`, `open`, `close` or `buzz` only in the state that leads
there) and says which request is held; without it a step from an arbitrary `pc`
would break every wake-up. `LockInv` strengthens `LockDriven` by the shape of the
two triggers (a trigger that is armed plays the one step of the open time, the
LED's goes with the lock's) and relates the button's bit to the debounced state,
not to the pin. `RunQueueLemmas` has what removing a work from a queue does; what
starting and ending a trigger does comes first in the module.

### WorkQueueProofs

For any number of slots and works:

- `ListKept` and `NoSlotLeaks`. The invariant adds to the two properties `Walk`, the
  place of the walk of `work_queue_deschedule`: its current slot is in the list or
  behind its end, and the slot it keeps as the previous one is the predecessor.
- `ImplementsQueue`: `WorkQueue` implements `SpecSafety` of `WorkQueueSpec`, the part
  of `Promise` without fairness, under the refinement mapping that the run
  `queues` checks. Every action has its lemma (`ScheduleRefines`,
  `RunOnceRefines`, ...). `PlacesAreSlots` counts the slots against the places of
  the abstract queue, so that both refuse a work in the same states. The walk of
  `work_queue_deschedule` removes the works one by one while the abstract queue
  has lost them all at its first step: `Waiting`, the list without the works that
  the walk is still going to unlink, does not change during it.
- `LoopKept` ties the place of the main loop to the work it holds; the refinement
  rests on it.

Taking slots out of the middle of the list is what `RunQueueLemmas` is about:
`WithoutOne`, and for the refinement what the remaining queue holds
(`WithoutIsListed`, `WithoutListed`), that it does not depend on when the works are
removed (`WithoutOneMore`, `WithoutFirst`) and that a new work comes behind
(`WithoutAppend`).

### TimerQueueProofs

`FlagsKept`, `OrderKept` and `ExpiresOnTime`, for any set of timers and any half period.
The invariant says of every pending timer (`Ahead`) that its timeout is the clock
plus the ticks that are left, modulo the period, and that less than half a period
is left; and (`Prompt`) that outside of the tick interrupt none is due. `Comparisons`
shows that `timer_before` and `timer_before_eq` then order two timers by what is left
of them, wherever the clock is; that the wrap does not disturb the order of the
list follows from it. A callback may schedule and deschedule timers while
the tick works on the list; `Good` is the shape of the list at that point.

### AccessStoreProofs

- `StoreWellFormed`: until the power fails in a command, a record with a card and a
  PIN has its continuation, there is no other continuation, and only records are
  marked as used;
- `StoreInBounds`: no record goes over the end of the memory, also after any number
  of torn commands and of commands on what they left;
- `ImplementsTable`: the entries implement the table of `AccessTable`, as a whole
  (`Refines`; it has no fairness): a command, torn or not, changes its own record
  only, a check succeeds for exactly the records set, and set access does not refuse
  a record that exists until the power fails.

For any number of entries, cards, PINs and doors, and all records a command may
bring. The inductive invariant has a part for every memory (`Fits`: the entries are
of their type, one of two entries is not the last) and one for an undamaged memory
(`Layout`). `BlocksOf` says what `eeprom_write_access_record` writes: an entry that
stands alone with the old continuation cleared, or a record with its continuation;
`SoundAlone` and `SoundPair` that the neighbours then still fit.

`ImplementsTable` needs to know what torn commands leave behind: `Loose` says that a
record of two entries is never followed by another record, that every
continuation is of type PIN, and that only records are marked. It holds until a
record is set by its position in a damaged memory, which is where `AccessTable`
stops to promise. The scan is a recursive function; that it exists and what it
satisfies is `StopsUpTo` and `ScanStops` (by the least index it did not reach, as
induction is not available). On a loose memory it stops at every record and
never at the second entry of one (`ScanFinds`, `ScanIsLone`), so the table is
exactly the records there are (`VisibleIs`). `Touched` is what a write at an index
may leave in its entry and the one behind, torn or not; `WriteTouches` shows it of
`eeprom_write_access_record`, `TouchedIsLoose` and `TouchedIsOnlyAt` that the memory
then stays loose and no other record changes. `SaveImplements`, `SetAtImplements`,
`CheckImplements`, `UsedImplements` and `RemoveAllImplements` map each command to its
command of the table, on the same record.

### AclOtpProofs

- `NoReplay`: a password that was accepted is refused from then on;
- `TokenNotPassed`: the counter of the record never gets past the token's;
- `FreshPinOpens`: a password that the holder just read opens, within the windows;
- `TypeCorrect`.

All of them while the counter is `trusted`. The invariant relates the counter of
the record, the token and the spent counter (`spent < value <= token`) and the time
at which a password was read to the clock. `OnlyTheCounter` is the use of
`HotpDiffers`: the window holds one counter with the password, so the search of
`acl_check_otp_pin` finds that one. The rest is the division of the time into
intervals.

### DaemonProofs

For any requests, pages, paces of the tty and the line, and any number of faults:

- `RequestsWatched`: the current request has its timeout or is still to be written,
  requests wait only behind a current one, and the ping timer runs when there is
  none. `Watched` is inductive with the types of the queue.
- `KeepsPromise`: `Daemon` implements `PromiseSafety` of `DaemonSpec`, so the calls
  are answered once each and in order. The current request and the list behind it
  are the abstract queue (`QueueShape`); every callback completes its first call or
  leaves it alone.
- `AnswersInStep`: `InStep` for every interleaving of the callbacks with the line and
  the controller. It is not inductive, because it looks at the message only and
  not at where it is. `OneUnderway` is: every message in the output buffer, on
  the line, in the controller's work, on the way back and in the input buffer is
  one of the current request and page or of a request given up; of the current one
  there is at most one in all five of them, and none when it is still to be
  encoded. The lemmas about `Has`, `Once` and `AllFit` say how the contents of a
  buffer move to the next one; `Thinned` is what a fault may leave of a buffer, any
  part of it with any damage. `ReadTakes` and `TakenHolds` say what the read callback
  moves from the line into the buffer, that it takes one message out of it, and
  that what is dropped before that message is not missed.

### DriverProofs

- `WordsRead`: a word that is sent to the reader without trouble is reported at most
  once, and as what its bits mean, for all words and whatever happened to the
  words before. `ReadInv` says that while nothing goes wrong the interrupt saw every
  edge, the counter is the number of pulses that ended and the record holds the
  bits of the pulses that began; `ReaderInv`, which holds always, that the
  record knows the lines as the interrupt saw them last and has no bits without
  the timeout of a word, so that the next word starts clean. `DecodeOfBits` says that
  the decoding looks at the counted bits alone. `CardsSentUndisturbed` is
  `CardsAreSent` without trouble, for a reader whose words with a card stand for
  the card in their bits; this is a hypothesis of the theorem, which the words of
  the run fulfil, and no assumption of the module, where the run compares the two.
- `EightBitsRefused`: the decoding refuses all the words of eight bits, which is why
  `key_frames` finds its violation for every key.
- `CallersWatched`: a caller that sleeps on the I2C bus has a step of the bus or a
  timeout to wake it. The invariant adds that a step of the hardware belongs to a
  transfer that the timeout watches, that the interrupt handler then is inside the
  two messages of it, and that a caller who is woken finds the bus free.
- `OneReplyEach`: a message that is taken is owed one reply, in the states in which
  the controller does not listen and in no other; and `outbuf` is not overwritten
  while it is sent. The invariant says where the message is: with the work queue,
  with its reply, or in `outbuf`, never in two of these.
- `DoneIsTold` (`ClockTold`) and `MarkIsKept` (`MarkedWhenWhole`), for any number of
  time registers, times, operations and faults. The inductive invariant `ClockInv`
  follows an operation through its transfers: `Purpose` is the transfer it is at
  and what it knows of the clock by then (after the first transfer of `rtc_set`
  the time is in all the registers; the status that `rtc_ds3231_init` writes has
  the mark as it is), `UnderWay` how many bytes of the transfer are in the registers
  or in the caller's buffer, `Finished` that all of them are. `BeginsOn`, `SendsOn`
  and `GetsOn` take a transfer through the states of `TWI_vect`; a fault leaves
  only an operation that failed, which `ClockTold` says nothing about, and the
  registers written so far, which `Purpose` allows for.
- `NextHeard` (`NextIsHeard`): for every message that fits the buffer, every checksum
  of two bytes, and whatever came before on the line. `HeardInv` follows a message
  byte by byte: `Taken` is the state, the position, the checksum and the parts of the
  message when `k` of its bytes were taken, `Follows` what is then still on the line,
  from an escaped byte perhaps its second half; after the last one the message is
  with the work queue as it was sent, unless the queue was full (`dropped`). `CrcOf` and `OnLine` are recursive functions;
  that they exist is `FunctionExists`, by the least number that was not reached.
  `HeaderTaken`, `PayloadTaken` and `CrcTaken` take the next byte, `Bytewise` puts
  the two bytes of the checksum together, `RemainingStarts` says what the next byte
  looks like on the line. The transmitter, which shares `ctrl`, is `TxReadyInOrder`.
- `CommandsSentUnharmed`: on a line that neither loses nor damages a byte, whatever
  comes before the controller listens and wherever the boot event falls, a command
  that runs is the last message that was sent, for every checksum (`CommandsAreSent`
  as long as `ulFaults` is 0). It is not the checksum that does it: `SentInv` says that
  the line then holds the end of the last message and nothing else, which the
  controller either lets pass, hears byte by byte as in `Taken`, or, after the boot
  event, has lost all of but the checksum.

### What is only model-checked

- Liveness, under fairness: `BusyEnds`, `PinEntryEnds`, `LockReleased`,
  `PendingExpires`, `Recovers`, `HungIsReset`, `WordIsHeard`, `ClockAnswers`,
  `ListensAgain`, and the fairness of `Promise` in the two refinements of which the
  steps are proved (`Refines` of `WorkQueue` and of `Daemon`). The prover has
  neither `ENABLED` nor a fair leads-to over data.
- `CardsAreSent` with one trouble: the words of the run are concrete bits, and the
  property is about what one trouble makes of them; for other words it may be
  false, a parity does not find two wrong bits.
- `CommandsAreSent` with a fault of the line: that a damaged message is not taken is
  a property of the checksum on the commands of the run, not of every checksum.
- What the recursive functions compute: `Number` in the decoding of the reader
  (its proofs only need which bits it looks at).

## Fairness

- `DoorCtrl`: none for safety. For liveness the main loop keeps running (handlers
  have no unbounded loop) and every pending timer expires in the end (the
  hardware tick). The reader, the buttons and other users of the queue are
  under no fairness.
- `WorkQueue` (in `queues` under the condition that it is the chosen part, like the
  modules of `parts`): the main loop keeps running; a worker that is executed returns
  (strong fairness: interrupts and its own calls may come in between).
- `TimerQueue`: the tick keeps coming while it is not masked, and callbacks
  return. Nothing is assumed of what wakes a sleeping main loop.
- `Daemon`: uloop delivers events and timeouts; the tty takes what it is offered;
  the line delivers; a controller that does not hang answers and, after a reset,
  boots. Clients and faults are under no fairness.
- `Wiegand`, `I2c`, `UartLink`: the timer of a word or a transfer expires, a
  pending interrupt is served, the TWI unit ends the steps that are not lost to
  a fault, the caller and the worker run, the UART sends. A reader that began a
  word goes on with it. The peer on the serial line is under no fairness.
- `TimerRace`, `DoorLock`, `AccessStore`, `AclOtp`: none; their properties are safety.

## Abstractions and limits

- Time: in `DoorCtrl` pending timers expire in any order. This allows more
  behaviours than the code has, so its safety properties hold for the code;
  nothing is said about durations. `TimerQueue` is the module about time.
- `DoorCtrl` takes `door_ctrl_set_open` and the timer calls as atomic. They are
  not: see `DoorLock` and `TimerRace`. The proved properties of the lock hold for
  executions in which no interrupt falls into these functions.
- A step of the models is an assignment; a 16 bit assignment is two instructions
  on the AVR, so the races are wider than shown.
- The two doors share the queue and the timers and nothing else; one door is
  modelled, the other is part of `Foreign`.
- The life LED, debug output, and the wording of errors are left out.
- The hardware timer with its compare registers is not modelled.
- `AccessStore` has fixed PINs only, one time passwords are in `AclOtp`, for a
  single right. The order of the bytes of one block is left open there.
- `Daemon`: a request times out while its answer is still coming only at the price
  of a fault; the ping timeout, which is ten times as long, expires only when the
  line is quiet and the controller neither busy nor booting. Of the answers that
  are on the line none is lost but by a fault. The deferred calls of a device
  that is removed are not modelled: nothing removes one while the daemon runs.
- `UartLink`: writing `outbuf` takes about a hundred microseconds, less than a byte
  on the line, so it is one step. A start byte in that window would end the
  message being written. The run queue is not a part of it: it may be full whenever
  a message is complete.
- `I2c`: `i2c_transfer` starts the hardware and then its timeout; the two are one
  step. What is in a date, its BCD coding and its months, is not modelled.

## Not modelled

- The client (`src/client`): a script that updates the controller and a database
  one after the other, for a single user. It asks for the access commands of
  version 2 first, which `AccessStore` has, and the daemon offers those of version 1
  only, of which set access never adds a right (see `set_access_v1`). That
  controller and database agree in the end is left to the plan.
- SHA-1: a computation; test vectors are the better check.
- The configuration commands, which copy a block, the translation between blobs
  and messages of the daemon, GPIO, tables of pins, the build, the electronics.

## Plan

Done: door, queue, timers, access store, one time passwords, reader, I2C and its
clock, serial line, daemon, and the proofs named above. Left, in this order:

1. `AclSync`: the client's comparison and update of controller and database with
   a failure at any step, on the commands of version 2.
2. The hardware counter of the timers with its two compare flags.
