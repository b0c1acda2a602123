# A TLA+ verification of c51_uboot

c51_uboot is the firmware of a test board for optical modules (QSFP28, SFP): an
EFM8LB12 (8051, 8 bits) with a serial terminal on one side and an I2C bus to the
module, MDIO to a PHY, and a number of port pins on the other.  Underneath lies
a small library, `mcu_sal_lib`, with a cooperative scheduler, software timers, a
terminal with a line editor, a debug-command mailbox, I2C, MDIO, flash and others.

This directory models the parts of it in which order matters, checks them with TLC
on small instances, and proves their safety for every size with TLAPS: of the scheduler,
the timers, the terminal, the mailbox, the I2C master, the interrupt enable, the flash buffer
and the commands.  Paths below are those of the repository; `sal` stands for
`mcu_sal_lib/mcu_sal_` (so `sal task.c` is `mcu_sal_lib/mcu_sal_task.c`).

## 1. Inventory

One processor, no operating system.  There is one *main loop* (`task_run`, called
for ever by `main`) and there are *interrupt handlers*: UART0 (a received character,
a character sent), TIMER2 (the 1 ms tick), SMBus and the I2C slave where they are
enabled.  A handler interrupts the main loop anywhere outside ENTER_CRITICAL ..
EXIT_CRITICAL, and another handler only if its priority level is higher.  At the
other end of the I2C bus the *module* runs concurrently with the board.

| component | state | operations | talks to | hard about it |
|---|---|---|---|---|
| Task scheduler (`sal task.c`) | table of tasks by priority, fast queue `num`, `id[]` | `task_add`, `task_run`, `task_fast_handle` | every task; handlers post to the queue | queue shared by the loop and handlers, partly outside the critical section |
| Software timers (`sal timer.c`) | `jiffies`, per timer `timeout`, `expires`, `flag`, `enable` | `timer_add/start/stop/run`, `timer_delay_ms`, `timer_update` | TIMER2's handler, commands, tasks | counter started anew near its end, 32-bit reads on an 8-bit machine |
| Terminal (`sal terminal.c`) | `buff`, `read`, `write`, `lock`, cursor, history | receive, edit, recall, run a line | UART0's handler, scheduler, commands | handler and task edit one buffer; three counts of one line |
| Commands of the terminal (`Efm8lb12_cmd.c`, `Efm8lb12_qsfp28.c`) | command table, timers; in the module: the page shown, the password, the registers | about seventy patterns: read and write registers, pins, mailbox commands | everything | an access depends on the page selected before it; the check of the permission selects another; results are passed on by hand; the first pattern that fits wins |
| Mailbox (`sal dbg_cmd.c`, `Efm8lb12_qsfp28.c`) | command/status register, parameters, page (in the module) | send, poll, answer | I2C master, module | both sides write one register; transfers fail |
| I2C master, bit-banged (`sal i2c_master.c`) | bus lines | read, write, start-up | mailbox, commands | acknowledges, waits without a limit, a device left in mid-transfer |
| SMBus master (`Efm8lb12_i2c_master.c`) | `cnt`, `startFlag`, `buff` | read, write, handler | not selected in this build | late handler after a timeout |
| Interrupt enable (`sal hw_conf.h`, `Efm8lb12_uart.c`, `sal mdio.c`) | EA, busy flag | critical sections, `uart_putchar`, MDIO | everything | not nested, early returns, waits for a handler |
| Flash (`sal flash.c`, `Efm8lb12_flash.c`) | pages, write buffer | erase and rewrite of a page, buffered write | I2C slave | power loss, a counter shared with a handler, an end of loop that depends on it |
| I2C slave (`sal i2c_slave.c`) | transfer buffer | handler, task | scheduler, flash | not in this build |
| Register map, log, pages, ADC list, PID | small tables | look-up, set | commands | bounds |
| Start-up, ports, vendor drivers | hardware registers | set-up | | none |

What makes each component correct:

* **Scheduler.** What is posted is run soon, what is run is what gets removed, no
  entry becomes unreachable, and work is never forgotten although posts are dropped.
* **Timers.** No expiry lies out of reach of the counter, enabled timers come due in
  time and go on doing so, a delay ends, lasts long enough, and leaves the timers as
  they were.
* **Terminal.** The keys edit the line as an editor should; the read pointer never
  passes the write pointer; Enter always works.
* **Mailbox.** Success is reported only for a command that ran with its parameters; a
  command runs once; nothing is left over for the next call; each call returns.
* **I2C master.** Success is reported only when every byte was written, or read, at the
  offset asked for, and the bus is free; the device is never made to write anything else;
  each call returns, and the bus comes back after a restart in mid-transfer.
* **Interrupt enable.** Interrupts are enabled again after every operation, output that
  waits for a handler ends, and no character is overwritten in the transmitter.
* **Commands.** A register is read and written on its own page; OK to a line means that
  everything it names was transferred; no parameter is written but those it names (two stray
  writes of the code break this, section 3); a line about one laser leaves the others on or
  off as they are; a line runs the handler it was registered for.
* **Flash.** A write changes what it should and nothing else, and keeps the rest of the
  page it erases; no byte gets lost between the buffer and the flash, and the count of the
  buffer is that of its full slots; the writer stays in its buffer.  (The code does not keep
  all of this: bytes that reach into a second page are written into cells nobody erased,
  a count can be lost, and the loop can leave the buffer.  The properties say exactly when and
  what then still holds.  That the last write to an address wins is not so at all: a slot
  that becomes free is filled before later ones that are still full.)

The hazards, each at its line, are listed in `PROJECT.json`.

## 2. Modules

| module | of | kind |
|---|---|---|
| `TaskScheduler` | scheduler and the handlers that post | component |
| `TaskSchedulerProofs` | its theorems | proofs |
| `SoftTimer` | timers, delay, tick handler, the commands that use them | component |
| `SoftTimerProofs` | its theorems | proofs |
| `LineEditor` | what a line editor with a history is | abstract |
| `Terminal` | receive handler and terminal task; implements `LineEditor` | component |
| `TerminalProofs` | its theorems | proofs |
| `Mailbox` | callers, polling loop, module's handler | component, two processors |
| `MailboxProofs` | its theorems | proofs |
| `I2cMaster` | bit-banged master and a device on the two lines | component, two processors |
| `I2cMasterProofs` | its theorems | proofs |
| `InterruptEnable` | EA: critical sections, string output, start-up, UART handler, MDIO frames | component |
| `InterruptEnableProofs` | its theorems | proofs |
| `ModuleRegisters` | the registers of the module: page, address, length | tables |
| `ModuleCommands` | the handlers of the commands, as functions from a line to steps | functions |
| `CommandTable` | registered patterns, and which one fits a line | functions |
| `ModulePages` | carries out the steps of a handler, transfer by transfer | component |
| `ModulePagesProofs` | its theorems | proofs |
| `CommandLine` | `ModulePages` with the handlers of `CommandTable` | composition |
| `FlashBuffer` | flash writes, the buffer, the handler that fills it, power failures | component |
| `FlashBufferProofs` | its theorems | proofs |
| `MCTaskScheduler`, `MCSoftTimer`, `MCI2cMaster`, `MCFlashBuffer` | values of constants that a .cfg cannot express | for TLC |

`Terminal`, `Mailbox`, `InterruptEnable` and `CommandLine` need no module of their own for TLC.

**Grain.** An action of the main loop is the code between two places where something
shared with a handler (or with the module) is read or written.  A handler starts
between any two actions of the main loop, and a critical section is inside one
action.

### TaskScheduler

`tasks`, `task_num` are `task_list`, `num`, `id` are `fast_task`, and `i`, `j`, `cur` are
locals of `task_run`.  `TaskAdd`/`TaskAddFails` are `task_add` as `main` calls it;
`FastTake`, `FastCall`, `FastRemove`, `FastDone` the inner loop; `PollTask`/`PollEmpty` the
polled task and the end of the outer loop's turn.  `Interrupt`, `Scan`, `Check`, `Store` are
`task_fast_handle` in a handler that has just stored an event.  `work[t]` stands for
the events (characters, transfers) that wait for a task's function; `MaxWork` bounds
it.  `overtaken` is a history variable: polled tasks started while an entry of `t`
was queued.  The task's function is external: a call takes at most one event.

### SoftTimer

The fields are those of `TIMER_STRUCT_T`.  The commands that set a timeout and start a
timer are two actions (`SetTimeout`, `TimerStart`), since the tick may fall between.
`timer_run` and the loops of `timer_delay_ms` take a step per timer.  The handler is
`Tick`, a `TickTimer` per timer, and `TickEnd`.  `_timer_jiffies_zero` is inlined where it is
called, and its variant for the handler is the inner IF of `TickTimer`.

*Torn reads.*  `DelayRead` and `DelayDoneTorn` read `jiffies` in two parts (`LOW` is the number of
values of the part read by one instruction) with a tick between them; `torn` remembers which.  The stores of a
`timeout` and of `jiffies = 0` are atomic here although they take four bytes: the
stores of 0 are within the few instructions after a test that found the counter near
its end, and a timeout is written while its timer's expiry does not change.
`function != NULL` is always true, as no caller passes NULL.

### Terminal and LineEditor

`buff` has positions 0..LEN (TERMINAL_BUFF_LEN and the terminator's place).  Characters
are model strings; an arrow key is three of them.  `RecvChar`/`RecvControl` are
`_terminal_recv_char` in UART0's handler; the rest is `terminal_event_handle` and what it
calls.  `_terminal_format_buff` is four actions (scan, lock, copy, end) with a return
address in `next`, because the handler drops what it receives only while `lock` is 0.
Running a line means: save it in the history, call the command (external), clear the
line.  Echo and display are left out.

`LineEditor` is what the user sees: a line, a cursor, a history that Recall walks from
the newest to the oldest entry.  The refinement mapping is `View`; `seen` is a history
variable that keeps the view as it was when the key was pressed, so that the editor
takes its step at the moment the terminal is quiet again.

The instance is `Roomy`: arrow keys are pressed with room for their characters and
characters other than letters only at the start of a line.  Outside of it the code
does not behave as an editor, in ways that no comment excludes: two arrow keys that
are formatted together leave a letter in the line (`Format` does not look at the
character after a sequence), arrow keys in the last places of the buffer are lost, a
control character may be stored twice through `key_flag`.  Of `#` a comment does speak
(`mcu_sal_hw_conf.h:62`): the terminal filters out strings that begin with it, which are for
annotations.  The code filters their display; Enter saves such a line in the history and
looks for its command like any other's.  The Down key does the same as Up and is no key of its own.

### Mailbox

The callers in `Efm8lb12_qsfp28.c` and `Efm8lb12_cmd.c` are sequences of transfers
(`Steps`), each of which may fail if `Lossy` names it.  A *transfer* is one call of the
I2C master.  `cell` and `data` are the command and the parameter registers of each
page, `page` the page the module has selected.  A write that fails may have been carried
out all the same, since the master also reports a failure when only its STOP failed
(`I2cMaster`).  `StatusRead`, `StatusCheck`, `StatusIdle` are
`qsfp28_get_cmd_status` and `dbg_cmd_get_status`, which are the same code.  The module's
side, `Take`, `Perform`, `Answer`, is `dbg_cmd_handle`, which the library holds for the module's
firmware.  The two families of registers (0xDA and 0xDB) are not mixed in one
behaviour: `Register`.

### I2cMaster

`wire` holds the levels the master drives (`scl`, `sda`), what the device pulls low (`hold`,
`low`) and the device: where it is in a transfer, the bits shifted so far, its pointer,
and what it wrote and served in this call.  `SetSda` and `SetScl` change a line and let the
device notice the edge (`Started`, `Stopped`, `Risen`, `Fallen`), so that nothing is a START or a STOP
by decree: `StartDone` and `StopDone` are `_i2c_master_imitate_start` and `_stop` with the edges
their code produces in each of the four positions of the lines.  A bit (`WRITE_BIT`,
`READ_BIT`) is an action, which waits for the clock (`while(!SCL)`); `pc` is the place in
`i2c_master_imitate_read` and `_write`, which share their first half, `i` their 8-bit
loop counter, `WIDTH` its number of values.  `Restart` is a reset of the board at any bit:
its lines go high, `wire` and so the device stay as they were, and start-up's
`ResetClock`, `ResetStop`, `InitLines` follow.  The functions `read_byte` and `write_byte` of the
bit-banged master have no caller and are not modelled apart from `read` and `write`.

### InterruptEnable

A call of the terminal's task is a sequence of operations in `todo`: `"lock"` and `"unlock"` are
ENTER_CRITICAL and EXIT_CRITICAL, `"turnaround"` the bit at which `mdio_read` finds out whether
the PHY answers, `"string"` a `uart_put_string`, `"char"` an echo, which calls `uart_putchar` directly,
`"clear"` the end of a line.  `Work` gives the sequence for each kind of received character;
what a line's command is, is known when its Enter is received.  `uart_putchar` takes two
actions a character (`PutWait`, `PutStore`), between which the handler may run.  `posted` is
the fast queue, which in this image is empty or holds the terminal's task once
(`QueueShapeCorrect`); `FastDone` is its removal, whose EXIT_CRITICAL sets EA whatever it was.
`Type`, `Sent` and `Tick` are the hardware that raises the flags.

### Module pages: ModuleRegisters, ModuleCommands, CommandTable, ModulePages, CommandLine

Apart from choosing a branch by the words of its line, a handler of `Efm8lb12_cmd.c` is
straight-line code, and so are the functions of `Efm8lb12_qsfp28.c` it calls.  So a
handler is an operator (`ModuleCommands`, with the source's names) from the words to a
sequence of *steps*: select a page, read or write a register, poll the status, set a pin.
Each step says what becomes of its result, since that is what the handlers differ in:
`"return"` is JUDGE_RETURN, `"leave"` the same in a function whose result its caller looks at, `"keep"`
leaves the result in `ret`, `"drop"` ignores it.  Loops over channels are unrolled.

`CommandTable` has the patterns in the order in which `cmd_init` registers them, the lines that
are typed for each (every choice of words; places for any word filled, or left out), and
the match: the first pattern that fits.  Several patterns overlap; `EveryCommandReached`, an assumption
that TLC evaluates, says that no line typed for one pattern falls to another's handler.
`RegisterMapAssumption` says that no two parameters of the module share a byte, although the
header gives about a hundred addresses by hand.

`ModulePages` runs one line after another.  `line`, `pc`, `ret` are the handler, `shown` the page the module
shows in its upper half, `permit` whether the password was given, `modsel` and `reset` the pins
without which the module takes part in nothing, `tx` its lasers, `tx_dis` the copy `_cli_tx_config_laser` works
on; `done` remembers which steps succeeded.  `qsfp28_select_page` is `CheckPage`, `Mark`, `LookGood`/`LookBad`, which
are `qsfp28_check_module_security_level`, and `PageOk`/`PageFails`.  Every transfer may fail, and one that fails
may have had its effect all the same.  The module restarts at a command or when its reset
pin rises, and then shows page 0.  `marked` stands for the byte 0xF0 on the page shown
while the check looks at it.

What `ModulePages` takes for granted of the handlers are four named assumptions: `WellPaged`
(an access's page is selected right before it), `WellFormed` (registers, pages, pins and lanes
are what they are called), `WellAimed` (a handler aims at no parameter but those its line
names) and `WellReported` (each register of a line has a transfer whose failure
reaches the result).  They speak of the text of a handler; the properties speak of what
happens when it runs.  TLC evaluates them for the handlers of the code in every run of
`CommandLine`, so a handler whose text is wrong makes an assumption false and the run
is refused before it starts.

A handler also writes where it does not aim: the check of the permission writes 0xCC to 0xF0 of
the page that is shown, and the pass-through its command to 0xDA and on, on page 0 if its select
succeeds.  `Written` has these writes beside the aimed ones, and `StrayWritesAssumption` in
`ModuleRegisters`, which TLC evaluates too, says which parameters of the header lie there: the
received-power calibration of channel 0 on page 6, the date code on page 0.

`CommandLine` composes them, and says for each line, from its words alone, which registers it
is about (`Registers`); the properties compare this with what the handler does.  Lines whose
result the code takes from the last of several transfers are not counted there: they are
hazards.

### FlashBuffer

A byte is the set of its 1 bits; programming a cell intersects, erasing sets all bits of a page.
`flash_write` and `flash_write_byte` are the functions, in `Save`, `Erase`, `Rewrite`, `Program`; a
hardware function disables interrupts, so it is one step.  `flash_recv_byte` is the handler's side of
the buffer: first free slot, `num ++`.  `flash_write_run` is `LoopEnds`/`NextSlot`/`WriteSlot`, `Count`
and `Uncount` (the read and the write of `num --`), `Clear`; `Beyond` is what its loop does behind the
buffer, where the comma in its condition lets it go.  `PowerFails` may come at any step; the flash
stays, the memory is what `flash_init` sets.  The rest is history: `was` is the flash when the call
began, `came` what `flash_write_run` is to write (what it found, what came meanwhile, and what `Beyond`
takes for a slot), `behind` tells that a byte came into a slot that its loop had passed, `lost` is by how
many `num` falls short of the full slots.  The comment in front of `flash_init` gives the use; this
image calls `flash_init` alone.

## 3. Runs

| run | expects | instance | shows |
|---|---|---|---|
| scheduler | pass | 4 slots, 3 tasks, the UART's handler | queue shape, right removal, response, events served |
| timer | pass | 3 timers for 2 places, counter to 9, timeouts 1 and 2, delay 4 | the timers' and the delay's properties below the overflow |
| terminal_paced | pass | 8 characters, history 2, two letters, ESC, five keys | the terminal implements the editor |
| terminal_busy | violation | 5 characters, 6 keys typed at any moment | read passes write |
| mailbox | pass | 2 commands, 2 parameters, 4 polls, most transfers may fail | the four promises of the mailbox |
| mailbox_poll | violation | only the status read may fail | success for a command that never ran |
| i2c | pass | 3-bit bytes, 2 addresses, reads of 1 and 3 bytes, writes of 2, one restart | the promises of the I2C master |
| interrupts | pass | 2 strings at start-up, 2 characters each, a buffer of 2, a PHY that answers | interrupts come back, output ends, handlers run |
| interrupts_phy | violation | a PHY that may not answer | an echo waits for ever |
| commands | pass | every line of every pattern, any order | own page, no lost result, no other parameter written but in two named places, other lasers kept |
| permission | violation | the same | the check of the permission passes without it |
| flash | pass | 2 pages of 2 bytes of one bit, 2 slots, a call, 3 bytes received | what writes leave at each address, what `num` counts, when the loop leaves the buffer, no byte lost |

**Bounds and why they are enough.**

* scheduler: `TASK_NUM` 4 with 3 tasks leaves an empty slot in the outer loop; the queue
  can hold more entries than one handler can post.  `MaxWork` 3 lets a post be dropped
  as a duplicate before, while and after the function runs.  The theorems hold for
  every value.
* timer: one timer more than places covers the full list.  `JIFFIES_MAX` 9 is the smallest
  odd number at which the delay of 4 passes through the "near the end" branch and
  through the other one, and timers of 1 and 2 ticks restart the counter in both
  orders.  `LOW` 2 gives torn values in both directions.  In code the numbers are 2^32
  and at most a few thousand; what matters is that each timeout is below half of the
  maximum (`TimerAssumption`), and the theorems hold for every such number; `TimersDueInTime` asks
  for a little more (section 4), which a maximum of 11 has, with which TLC agrees too.
* terminal: 8 characters are 5 for text and 3 reserved; lines of at most 2 letters
  (`MaxLine`) have a beginning, a middle and an end, and an arrow key's three characters
  fill the buffer to the reserved places.  A history of 2 wraps after three lines.
* mailbox: 4 polls are enough for an answer at the first, a middle and the last useful
  turn, and for giving up.  Two commands and two parameters tell a stale one from the
  caller's.  The theorems hold for any number of each and of polls.
* i2c: a byte has 3 bits, an address 2: a first, a middle and a last bit, and two
  addresses of which the device has one.  `WIDTH` 3 makes a read of 3 bytes the longest
  whose loop ends, as 256 is in the code; a read of 1 skips the loop.  The bytes that are
  written include one that would be the device's address if it followed a START.  The
  device stretches the clock after a byte and after its acknowledgement, where devices
  do so; one restart may fall on every bit.  The theorems hold for bytes and counters of
  every width.
* interrupts: strings of 2 have a first and a last character; 2 characters typed ahead
  let one be read by the queue's entry and one by polling.  The theorems hold for every
  value.

* commands: the number of lines, registers and pages is that of the code, nothing is cut
  down but the values that are typed (one or two for each place).  A line may find the
  module at any page, with or without the password, as an earlier one left it.  The
  theorems hold for every set of handlers that meets the assumptions of `ModulePages`.
* flash: two pages of two bytes have a byte in the page, one behind it, and another
  page; one bit is erased or programmed; every initial content, address and length up to
  a page and one more is tried.  Two slots and three bytes fill the buffer, free a slot
  and fill it again while the loop runs; one call tells the direct functions from the
  buffer's, which call them as often as there are slots.  The theorems hold for every size.

**Deadlock** is checked for the scheduler, the mailbox, the I2C master, the commands and
the flash; in `InterruptEnable`
the hardware always has a step, and `CallsReturn` does its work.  It is off for the timers,
whose behaviour ends with the counter when `FreeRun` is FALSE, and for the terminal,
where keys are limited by `MaxKeys` or by a line with no room, and where Backspaces on
an empty line may fill the buffer so that no Enter is accepted any more (a hazard).

**Fairness.**  Scheduler: a handler runs to its end (weak fairness), the main loop is
interrupted again and again but not for ever (strong fairness), as handlers are much
shorter than the time between their causes.  Timers: the tick hardware never stops;
the loop makes progress between ticks; the scheduler comes back to `timer_run`; nothing
rests on a torn read or on a command being given.  Mailbox: callers are loops without
waiting; the module's firmware calls `dbg_cmd_handle` over and over.  I2C: the master goes
on, its callers call again (strong fairness of `Calls`, as a restart may come between), and
the device lets go of the clock at some time; `while(!SCL)` has no other way to end.
Interrupts: the main loop goes on, the transmitter sends, and the processor takes a
pending interrupt as soon as EA allows it (strong fairness, as EA comes and goes).  The terminal, the
commands and the flash have only safety properties: their loops have fixed bounds, apart
from the flash's, which need not end (a hazard), and waiting is in `Mailbox` and `I2cMaster`.

**What the runs say of the hard questions.**

* A post that `task_fast_handle` drops as a duplicate, after the function has already run,
  is served by polling (`EventsServed`).
* Starting the counter anew gives every timer a second full timeout, so two timeouts,
  not one, bound the wait (`DueInTime`).
* A delay is short only if a tick falls into one of its reads of `jiffies`: into the first, by at
  most `LOW` ticks, into the last, by at most `LOW - 1` (`DelayLongEnough`).  In the code `LOW` is 2^8, 2^16 or
  2^24, depending on which of the four bytes is read last before the tick, and the counter
  must be about to carry into the next byte; then a delay of a few ms may pass at once.
* The mailbox keeps all its promises if the status read and the parameters' transfer
  do not fail and the module answers in time; each of these is needed (sections 5, 6).
* A device that is left sending by a restart of the board keeps SDA low longer than
  start-up clocks; the next STARTs and STOPs, which bring the lines up with a clock of
  their own, end its transfer in a few calls (`BusRecovers`), and none of them writes
  anything (`OnlyAsAsked`).

* No handler accesses a register on another's page, whatever fails before (`OwnPage`): of more
  than a hundred accesses none relies on a page that an earlier function selected
  without looking, and none is behind a function that may have left early.
* No result that counts is lost, in the handlers that have one register to a result
  (`OkMeansTransferred`).
* No parameter of the module is written but those a line names, with two exceptions (`OnlyAsked`),
  each of which TLC shows to be needed: 0xCC on page 6 when the check's select is lost, and the
  pass-through's command over the date code.
* `flash_write_run` leaves its buffer only if a byte is received in a slot that its loop has passed
  (`InBuffer`); the loop's own bound does nothing.
* Each increment that falls between the read and the write of `num --` makes `num` one too small until
  the memory is set up again, and leaves one slot full when the loop ends; the byte in it waits for the
  next call and is not lost (`InBuffer`, `Drained`).

## 4. Proofs

Every theorem is of the specification as it is checked, for every value of the constants that
the module's `ASSUME` allows.  A theorem that needs more of the constants says so by name.

| module | theorem | hypotheses | states |
|---|---|---|---|
| `TaskSchedulerProofs` | `TypeCorrect` | `OneLevel` | `[]TypeOK` |
| | `RemovalCorrect` | `OneLevel` | `[]RemovesWhatItRan` |
| | `QueueShapeCorrect` | `OneSource` | `[]FastQueueShape` |
| | `ResponseCorrect` | `OneSource` | `[]FastResponse` |
| `SoftTimerProofs` | `TypeCorrect` | | `[]TypeOK` |
| | `EnablesGivenBack` | | `[]EnablesRestored` |
| | `DelayLasts` | | `[]DelayLongEnough` |
| | `ExpiriesInReach` | `Bounded` | `[]ExpiryInReach` |
| | `TimersDueInTime` | `Bounded`, `Roomy` | `[]DueInTime` |
| `TerminalProofs` | `TypeCorrect` | | `[]TypeOK` |
| | `LinesCounted` | `Typist` | `[]LineCounted` |
| | `EditorImplemented` | `Typist`, `Distinguished` | `EditsLine`: `Spec` implies `LineEditor`'s, under the mapping `Shown` |
| `MailboxProofs` | `TypeCorrect` | | `[]TypeOK` |
| | `NothingLeftOver` | `Answered` | `[]NothingPending` |
| | `RunsOnce` | `Answered` | `[]AtMostOnce` |
| | `SuccessMeansRan` | `Answered`, `Checked` | `[]OkMeansRan` |
| `I2cMasterProofs` | `TypeCorrect` | | `[]TypeOK` |
| | `SuccessFrees` | | `[]OkMeansFree` |
| | `SuccessMeansDone` | | `[]OkMeansDone` |
| | `WritesOnlyAsAsked` | `WholeBytes` | `[]OnlyAsAsked` |
| `InterruptEnableProofs` | `TypeCorrect` | | `[]TypeOK` |
| | `TransmitCorrect` | | `[]NothingOverwritten` |
| | `EnableCorrect` | `Answers` | `[]EnabledInLoop` |
| `ModulePagesProofs` | `TypeCorrect` | | `[]TypeOK` |
| | `AccessesOwnPage` | | `[]OwnPage` |
| | `WritesOnlyAsked` | | `[]OnlyAsked` |
| | `OtherLasersKept` | | `OthersKept` |
| | `OkIsTrue` | | `[]OkMeansTransferred` |
| `FlashBufferProofs` | `TypeCorrect` | | `[]TypeOK` |
| | `WritesLand` | | `[]CallLands` |
| | `StaysInBuffer` | | `[]InBuffer` |
| | `RunDrains` | | `[]Drained` |

**The hypotheses, and what becomes of the property without them.**

* `OneLevel`: the handlers that post have one priority level, so no handler is interrupted by
  another that posts.  `OneSource`: they post a single task, which is this image: UART0's
  handler posts the terminal's task and nothing else does.  `FastResponse` is false
  without it: the inner loop of `task_run` (`sal task.c:125`) counts `num` down while it counts
  `j` up, so of two entries it runs one and strands the other at place 1.
* `Bounded`: the counter of ticks does not run over, that is, the first 49 days
  (`FreeRun` FALSE).  Behind the overflow the expiries are not set again (a hazard).
* `Roomy`: twice a timeout or delay and the longest timeout fit into the counter together.
  Without it the counter may be near its end again before it has counted a whole timeout,
  and be started anew a third time while a timer waits.  In the code it is 2^32 against a
  few thousand.  The run's instance is just below this bound and shows that the property still holds there.
* `Typist`: keys are handled one by one (`Paced`) and pressed with room for what they send (`Roomy`);
  letters are characters with CHECK_CHAR_VALID (`mcu_sal_hw_conf.h:69`), so none is a control
  character or a bracket; `#` and a bracket by itself are not typed.  The last two are not for convenience.  With `#`
  among the letters TLC finds `LineCounted` false after one key: the line that follows is
  neither shown nor counted but kept in the buffer (`sal terminal.c:275`).  ESC, a pause, and `[` are
  taken for an arrow key by the formatting and for a character by the count.  (A bracket
  that is typed only where a line begins, as `Others` are, does no harm on the instance; the
  proof leaves it out.)
* `Distinguished`: keys are told apart by their names.  No letter and no other character is called like
  a control key or like the editor's value for no key; what `LineEditor` takes as `Ignored` is neither
  valid nor what Enter or Backspace sends.  With a valid character among the `Others` the terminal would
  insert it and the editor would not, which says nothing of the code: such a character belongs to the
  `Letters`.
* `Answered`: no look at the status fails and the module is faster than the polling loop.
  Without the first, run `mailbox_poll` is the counterexample; without the second the next caller
  meets the command of the one before.  `Checked`: the caller is one of those that report the outcome of
  the command's transfer (kinds `plain`, `param`, `pass`), and the transfer of its parameters
  succeeds.  The others are hazards (section 6).
* `WholeBytes`: the device stretches the clock behind a byte or its acknowledgement only, as
  devices that serve bytes by an interrupt do.  Without it `OnlyAsAsked` is false, and TLC shows how: a STOP that
  the master gives up, since it sees SCL low, clocks a stray bit into a device that is
  still in a transfer, and enough of them are a byte.  The other theorems about the master do
  not need it: the caller is not told OK.
* `Answers`: the PHY drives the turnaround bit.  Without it, run `interrupts_phy`.

The four assumptions of `ModulePages` (section 2) are not about the environment but about the
texts of the handlers; TLC evaluates them for those of the code.  With them, the theorems say that what is right in
every text is right in every *run*: with failures, early returns that skip to the end
of an inner function, checks of the permission that select page 4 on their way, restarts
of the module.

**The arguments.**  None of these properties is inductive; in each module a chain of
invariants leads to them, each shown to hold initially and to be kept by every action.

*Scheduler.*  `FastQueueShape` and `RemovesWhatItRan` need to know where
a handler and the loop are.  `LevelInv` is `TypeOK`, `RemovesWhatItRan` and that `num` is at
most `task_num`, and below it when a handler is about to store.  `SourceInv(t)` adds
`FastQueueShape` and that `num` is at most 1 and every stored id is `t`; that a handler is
posting `t`, scans from place 0 and finds the queue empty if it gets to `check` and
`store`; and that `overtaken` counts only `t`, is at most 1, and is 1 only while `num` is 1
and the inner loop is at place 0, about to serve the entry or serving it.

*Timers.*  `Enables` says of each place of the delay which timers it holds disabled, and that it has
saved what they were.  `Lasts` says that the counter has room for the delay when the wait begins, and
never runs further ahead of its first reading than the ticks that passed and, if a tick fell into that
reading, what it was behind.
`ExpiryInReach` leaves out the timers that the handler or the delay has not come to since it set the
counter to 0, and is inductive with the types.  `Waits(t)`, for `TimersDueInTime`, bounds what a timer
has waited by where the counter stands and whether it was started anew while the timer waited: at most
once, since between two such starts it counts at least a whole timeout (`Roomy`).

*Terminal.*  `Typed` adds to the types where the pointers are while the task is at work (a deletion is
the only step that takes one in front of the buffer), that a recall has an entry to go to, and that what
is moved or saved is text no longer than the buffer.  What a string and the formatted buffer are is not
a matter of unfolding: `Format` is a recursive function over positions, and `Backward` is the induction
from the end of the buffer it needs.  It is derived from the library's theorem that finite subsets are
well founded (`Least`), since the library's own induction takes an operator, which no prover here can
instantiate.  `LinesCounted` first needs what the scan makes of a buffer that changes at its end: two
buffers that agree up to a place and have no bracket there are scanned alike up to it (`ScanPrefix`), so
a stored character is one more if it is valid (`FormatStored`) and the three of an arrow key are none,
*at each of its three arrivals* (`FormatStored`, `FormatBracket`, `FormatArrow`).  The other half is
what the task puts back: a buffer that is a line and nothing else (`Whole`) is scanned to itself
(`FormatLine`), saving its end and writing it one place further on or back leaves such a buffer
(`StrLine`, `PutLine`), and so does a copy into a cleared one (`CopyLine`).  `Counted` is the invariant:
while the task is idle the line is at rest, or one key is pressed, stored, or *arriving*: r of an arrow
key's characters received and t of them read (`Sent`); while it works nothing is on its way, and each of
its places says how the buffer, the pointers and the saved part relate to `len` and `cursor`
(`Formatting`, `Inserting`, `Deleting`, `Running`).  The last places of the buffer are why `Settled`
says that behind the first LEN - RESERVED the cursor is at 0: only Enter and a Backspace that has
nothing to delete get there, and in front of a deletion the formatting, which leaves the last place
alone, would leave a character in it. `HistoryKept` bounds the lines that are recalled.

`EditorImplemented` is the refinement.  `Followed` goes with `Counted` and says the same of the
*content*: for each phase of a key, which key it is (`key`), that what the editor showed when it was
pressed (`seen`) still stands, and what the buffer has become of that line: the line with the character
behind it while it waits, the formatted line in `tmp`, the two parts around the cursor (`Before`,
`After`) with the new character between them.  So every step in the middle of a key leaves `Shown` as it
was (`NothingSeen`), a key that is pressed is the editor's `Press`, and the step that makes the terminal
quiet again is one of the editor's (`Rests` with `Inserts`, `Backspaces`, `Moves`, `Enters`,
`RecallsLine` or `Idles`).  A character that finds the first LEN - RESERVED places taken and is dropped
is `Idle` too, with `spare` at most RESERVED.  The content follows from the equations of `CopyLine`,
`PutLine` and `StrLine` that `Counted` used for the lengths. The history is a ring with a write index
and a read index that counts down, and the editor has a sequence and a number of steps back: `Entering`
says that a line saved in the ring is put in front of the sequence and pushes the oldest out when it is
full, `GoingBack` and `StartingOver` that one step of the read index is one step back, around the end
too.

*Mailbox.*  `Handled` ties the two processors: as long as the module has something to do (`Busy`),
it is the command of the call, on the mailbox's page, and the board is still
waiting for it with polls to spare.  `Once` adds the history of what was run, and `Success` that the status the board
has read is the outcome of its own command, with the parameters it wrote.

*I2C master.*  `MasterInv` has the types of the wire, of the call and of the master's counters, and that
a byte is taken by the device at the end of its last clock and no later.  `Stage` is the core: it says
for each place of the master what the device is doing, bit by bit.  It hears the bits of the address
that were sent (`AtAddress`, `AtAgain`), of the offset (`AtHigh`, `AtLow`) or of the data (`AtData`), it
sends the byte that is received (`AtReceive`), or it is out of the transfer and pulls nothing
(`Dropped`).  Behind a refused offset a write sends its data to a device that is off, or that takes the
second bit for the first of an address (`Astray`) and so has no whole byte when the acknowledgement is
due.  So the acknowledgement the master reads tells which one it is; a device that a call left in
mid-transfer is either brought back by the START (`StartIsMade`) or the START is seen not to be made.
`Ended` and `OkFree` are about the STOP: a STOP that reports success has brought both lines up, which
lets the device out.  For `WritesOnlyAsAsked`, `Guarded` adds that between calls a device in the middle
of a transfer has the clock high and no more than one stray bit (`Still`), so that neither a STOP nor a
START can make a byte of it.

*Interrupt enable.*  `SendInv` says that `busy` is 1 as long as a character is in
the transmitter or its interrupt is pending, that these exclude each other, and that
between the end of `while(busy)` and the write to SBUF0 neither holds, so that the handler,
which may run there for a received character, leaves `busy` alone.  `Nested` says that what a call has yet to do
opens and closes its critical sections in order, whichever part of it is left; `Enabled` reads off from it what EA is.

*Pages of the module.*  `OwnPage` says nothing of the steps between the select and the access.
`PageThere` does: whenever a step `j` has selected a page and no step after it can change the page
(`Holds(j)`), that page is shown and the module is not held in reset; a select is under way only at a
step that is one.  The end of an inner function is left out, because an early return leads there from a
select that failed; `WellPaged` does not let an access rely on a select in front of it.  `StepForward`,
`StepFails` and `EarlyReturn` are the three ways a step ends, and each action is one of them
(`SelectKeeps`, `TransferKeeps`, `OtherKeeps`).  `WritesOnlyAsked` follows from `OwnPage`: with the
right page shown, a write lands where the text of the handler aims, and what it writes without aiming
meets no parameter but the two exceptions (`NamedOnlyAsked`, `SelectOnlyStray`, `PassOnlyDate`).  `Copied` says that `tx_dis` and the
module's lasers agree on the lanes the line leaves alone once they were read, and `Reported` that if
`ret` is OK the transfers that count and are behind `pc` have succeeded.

*Flash.*  `Landing` says of each place of a write what is in the flash already: the old page, nothing,
or the part of the new one rewritten so far, with the rest in the copy; and what is programmed behind
the page.  `CallLands` is read off from it (`Lands`).  `Counted` says that `num` and `lost` together are
the number of full slots, one more between the count and the slot's release, and that this holds of
`seen` instead of `num` between the two halves of `num --`: what comes there goes to `lost`.  `Place`
says that unless a byte came `behind`, the slots before the loop's are empty, so that the last full slot
is inside the buffer (`EndReached`), and that what is written is the byte of slot `n`.  `AllKept` is the
core of `Drained`: each byte of `came` whose address it has for itself is in the flash, or in the old
page that is being written, or in a slot.  A slot is emptied behind its write only (`ClearKeepsAll`), a
write of one address leaves the others (`ReturnKeeps`, by `Landing`), and what the handler stores is in a slot
that was free (`ReceiveKeeps`).

*Only model-checked:* the assumptions of `CommandTable` and
`ModulePages` for the code's own tables and handlers, which are evaluated; and all liveness
(`EventsServed`, `DelayEnds`, `TimerKeepsRunning`, `CallReturns`, `CallsReturn`, `InterruptsServed`, `BusRecovers`),
which is out of this prover's reach, as is ENABLED.

## 5. Findings

Each is a run that expects a violation; `PROJECT.json` quotes the comment it contradicts.

1. **Clearing a line without the lock** (`sal terminal.c:38`, run `terminal_busy`): a character received
   at that moment lets the read pointer pass the write pointer.
2. **A failed status read counts as success** (`sal dbg_cmd.c:15`, `Efm8lb12_qsfp28.c:308`, run `mailbox_poll`).
3. **A PHY that does not answer** (`sal mdio.c:243`, run `interrupts_phy`): `mdio_read` returns with interrupts
   disabled, and the echo of the next character may wait for ever.
4. **The check of the permission trusts its page select** (`Efm8lb12_qsfp28.c:1281`, run `permission`): if the select
   of page 4 is lost, 0xCC is written to 0xF0 of whatever page is shown, where it is
   an ordinary byte, and read back from there; the check passes without the password, and
   a calibration byte may have changed.

Other disagreements have no run; they are hazards in `PROJECT.json`: the tick counter's overflow does
not arm the timers again (`sal timer.c:191`; `FreeRun` TRUE in `SoftTimer`), `opr` and `opw` give page 0 to the
pass-through, which selects it and writes its command over the end of the date code
(`Efm8lb12_cmd.c:183`; a `PassPages` of {0} in `Mailbox`, the second exception of `OnlyAsked`), and a
refused offset is ignored, so that a read reports success with bytes from wherever the device's pointer
stands (`sal i2c_master.c:462`).  A line that begins with `#`, an annotation that the terminal is to
filter out (`mcu_sal_hw_conf.h:62`), is not displayed (`sal terminal.c:275`) but is saved and run by
Enter like any other (`sal terminal.c:396`).

## 6. Not modelled, and why

* *Whole components*: vendor drivers, ports and start-up (register set-up), PID
  (floating point), printing and conversions of measured values; register map, log, pages
  and ADC list (small sequential tables, which unit tests reach); the SMBus master
  (compiled, but `I2C_MASTER_MODE` selects the other one) and the I2C slave (not compiled).
* *Mailbox*: a module slower than the polling loop (`Slow`), a failing parameter transfer,
  callers that write the parameter after the command (kind `late`) or report the last
  read only (`fetch`).  They are in the module; no passing run uses them, since with
  them `OkMeansRan` is false, and no comment says otherwise.  They are hazards.
* *Timers*: several delays nested in timer functions do not occur; a delay called from
  a timer's function would, and is left to the plan.
* *I2C*: a device that stretches the clock within a byte (`Stretches` with `"bit"`), with which
  STARTs and STOPs that fail again and again do clock stray bits into it; a read of
  length 0, whose loop overwrites the memory; `i2c_master_reset`, whose only caller is
  compiled for the hardware master; the clock's frequency.  All but the last are hazards.
* *Interrupts*: the bits of an MDIO frame, which are timing; SFRPAGE; Timer2's own enable
  in the microsecond delays; the received flag that the handler clears late.
* *Terminal*: the bounds of `argv`, behind which a long line is cut (a hazard).
* *Commands*: functions nobody calls (`com_test_board_pre_handle`, `com_average_value16`,
  `qsfp28_get_tec` and its kin, `LR4_301_set_tec_able`, the module poll) and handlers nobody registers
  (`_cli_rx_los_mode_cmd`, `prvDispUpgdConfig`); the registers on SFRPAGE's pages; reading past
  page 10 when `eep show` is told of more than 32 entries (`Efm8lb12_qsfp28.c:918`).  Values are not modelled,
  so a wrong conversion or a wrong number printed would not be seen.
* *Flash*: two functions of the library at once, as they are called by the main loop
  alone; wear; a cell that is programmed twice other than by clearing bits.

## 7. Plan

Order of importance.  Done: 1 to 9.

1. Scheduler, with its proofs.
2. Timers.
3. Terminal as an implementation of a line editor.
4. Mailbox.
5. I2C master.
6. Interrupt enable, with its first proof.
7. Module pages: the commands as sequences of page selections and register accesses,
   with its proof.
8. Command table: patterns and the handler each line finds.
9. Flash writes and their buffer, with power failures.
10. SMBus master: timeouts against its handler.
11. Register map, log, pages, ADC list as one module of tables.
12. A remote call as an abstract specification of `Mailbox`, and a memory as one of `FlashBuffer`,
    refined by them.

Theorems left: the refinements of 12.
