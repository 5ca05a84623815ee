# pyMBoot in TLA+

pyMBoot is the host side of the NXP/Freescale MCU bootloader: a Python library (`McuBoot`) and
a command line (`mboot`) that read, write, erase and configure a device over UART, SPI, I2C or
USB HID. These modules model what the host does to the device and what it says about it:
the two wire protocols, the commands built on them, the command line, the session of a
`McuBoot` object, how a command line is read and a device is found, and the arithmetic of address
ranges and checksums.

The code under `src/` is the reference. The bootloader, the buses, the operating system and
the user are external: they are modelled by what the code expects of them and no more.

## 1. Inventory

| Component | Code | State | Operations |
|---|---|---|---|
| Serial boot protocol | `protocol.py` `UartProtocolMixin` | bytes in the port's buffers, `n`/`start` of the running transfer, `last_cmd_response` | `write_cmd`, `read_data`, `write_data`, `genPacket` |
| Frame checksum | `tool.py` `crc16` | none | `crc16` |
| USB HID protocol | `protocol.py` `UsbProtocolMixin` | queue of reports not read, `n`/`start` | `write_cmd`, `read_data`, `write_data` |
| UART, SPI, I2C transports | `uart.py`, `spi.py`, `i2c.py` | the port or bus, the bytes not read | `open`, `close`, `read`, `write`, `ping`, `find_start_byte`, ACKs |
| USB HID transport | `usb.py` | device, endpoints, `rcv_data` | `enumerate`, `open`, `close`, `read`, `write` |
| McuBoot commands | `mboot.py` | `memory`, `flash` (ranges of the device) | one method per bootloader command, `flash_image`, `get_memory_range`, `get_mcu_info`, ... |
| Session | `mboot.py` | `_itf_`, `current_interface`, `reopen_args` | `open_*`, `close`, `reset`, `is_open` |
| Command line | `cli.py`, `decorator.py` | the subcommands given | `info`, `write`, `read`, `fill`, `erase`, `unlock`, `reset`, `-o method` |
| Address ranges | `memorytool.py` | none | `MemoryBlock`: `in`, `-`; `align_up` |
| Device scan | `peripheral.py`, `ftditool.py` | `UsbDevices` cache | `parse_peripheral`, `scan_usb`, `scan_uart`, `scan_spi`, FTDI `find_all`, `_find_devices`, `open` |
| Argument parsing | `cli.py`, `tool.py` | the namespaces of the subcommands | `parse_args`, `FixArgValue`, `check_int`, `check_method_arg_number`, the checks of `main` |
| Files, output | `tool.py` | none | hexdump, file formats |
| Constants, exceptions | `enums.py`, `constant.py`, `exception.py` | none | |
| Old command line | `__main__.py` | none | a docstring |

How they interact. The words of a command line become one namespace for each subcommand and one
peripheral; the peripheral is scanned for, the user picks an entry, and `McuBoot` opens it. A subcommand
of the command line is a sequence of `McuBoot` methods; a method is a sequence of calls `write_cmd
[read_data | write_data]` on `_itf_`; a call is a sequence of frames (serial) or reports (USB) exchanged
with the device; a frame is bytes that a transport looks for, reads and counts. Calls are synchronous and
there is one thread (under Windows a callback thread fills the USB queue). Errors are exceptions:
`McuBootCommandError`/`McuBootDataError` when the device reports a status, anything else when the
exchange itself breaks. `main` ends at the first exception that reaches it.

What is hard, and where the properties come from (PROJECT.json lists each at its line):

* *stale input*: no receive buffer is ever flushed, so what an abandoned call left behind is read
  by the next one. The serial protocol has a ping in front of each command and typed frames; USB
  has neither;
* *loose reading*: `read_data` accepts a command frame in place of data, `write_data` leaves its
  loop on a bad acknowledgement, USB ignores the report id. None may turn a failure into a success;
* *timeouts*: every wait must be bounded, and a command that timed out may yet be executed;
* *bytes*: a read returns fewer bytes than it asked for (UART) or makes them up (a bus master), a
  frame of the wrong type is left half read, its payload may look like a start byte, no checksum is compared;
* *looking twice*: what a scan listed is looked up again after the prompt, by path, name or index, and
  FTDI devices in a list that is never refreshed;
* *words*: a memory id in the place of a file name, an `-o` with two meanings, the same subcommand twice;
* *partial failure*: erase succeeds and write fails, a range is half learnt, the configuration of
  an external memory is half written, the fuses are programmed and the method raises;
* *sequences*: several subcommands in one line; open, failed open, unplug, reset, reopen;
* *boundaries*: blocks that touch, sectors, a register that is never masked, transfers whose
  length is no multiple of the packet size or is zero.

What makes each component correct: a call that ends well used its own responses and moved all its data
exactly once and in order; a failed one is never reported as a success; a command is executed at most
once; every call ends (protocols). Flash is erased before it is programmed and nothing else is touched;
what was announced was done (commands, command line). The interface in use is the one that was asked for
(session). Frames come whole and in order, each to one wait, or the wait fails (transports). The device
that is opened is the entry that was picked (scan). A subcommand runs with the arguments the line gives
it (arguments). `in` and `-` are inclusion and difference, `align_up` covers (ranges). The checksum is
the CRC the device computes (checksum).

## 2. Modules

| Module | Models | Checked by |
|---|---|---|
| `SerialLink` | serial protocol with a bootloader, frame by frame | `MCSerialLink`, `SerialLink.cfg` |
| `SerialBytes` | `read`, `ping`, `_receive_ack` of UART, SPI and I2C, cell by cell | `MCSerialBytes`, `SerialBytes.cfg` |
| `FrameChannel` | abstract: a line carries frames | refined by `SerialBytes` |
| `UsbHid` | USB protocol and transport with a bootloader | `MCUsbHid`, `UsbHid.cfg`, `UsbHid_stale.cfg` |
| `BootCommand` | abstract: a command is a remote call | refined by `SerialLink` and `UsbHid` |
| `MemoryRange` | `memorytool.py` | through `RangeCuts` and `McuBoot` |
| `RangeCuts` | a block cut again and again (EXTENDS `MemoryRange`) | `MCMemoryRange`, `MemoryRange.cfg` |
| `Crc16` | `crc16` and the device's register | `MCCrc16` |
| `McuBoot` | methods and subcommands as sequences of calls (EXTENDS `MemoryRange`) | through `Cli` |
| `Cli` | a run of the tool against a device's memories (EXTENDS `McuBoot`) | `MCCli`, `Cli_*.cfg` |
| `CommandArgs` | from the words of a line to the subcommands `main` runs | `MCCommandArgs`, `CommandArgs.cfg` |
| `DeviceScan` | from a peripheral option to an open device | `MCDeviceScan`, `DeviceScan*.cfg` |
| `Session` | the life of a `McuBoot` object | `MCSession`, `Session_safety.cfg` |
| `SerialLinkProofs`, `SerialBytesProofs`, `UsbHidProofs`, `CliProofs`, `DeviceScanProofs`, `SessionProofs`, `MemoryRangeProofs`, `Crc16Proofs` | theorems | `tlapm` |

From the top down: `CommandArgs` gives `Cli` its subcommands and `DeviceScan` its request; `Cli` takes a
call for one step, which `BootCommand` allows; `SerialLink` and `UsbHid` implement `BootCommand` with
frames and reports; a frame of `SerialLink` is what `FrameChannel` promises, and `SerialBytes` implements
that with reads of bytes.

Definitions marked *Mutant of X* are not part of a model: each is what `X` would be with a
plausible mistake, and the property it is paired with in PROJECT.json is violated with it.

### SerialLink

`pc` is the wait the call is blocked in: `ping` (`UART.ping`), `ack` and `wack`
(`_receive_ack` after the command and after a data packet), `resp`, `rdata` and `final` (`read`
in `write_cmd`, in the loop of `read_data`, and after a data phase). `tx` and `rx` are the two
byte streams, as sequences of frames with sizes. A frame of the type a wait accepts is read
whole; a frame of another type makes the wait stop after the bytes it reads before it looks
at the type (`Needed`), and `find_start_byte` skips the rest of it later (`Consume`). A wait
expires whenever the bytes it needs are not all there (`Timeout`), however slow the device is;
what it had read is gone. `Timeout` covers each `timeout` of the code: the port's 1 s, the 1 s of
`find_start_byte`, the longer one of an ACK. The device may send empty DATA frames (`Empty`) wherever it
sends data: `read_data` acknowledges them, adds nothing, and goes on waiting.

`Restart` is what `doc/usage_problem.md` tells the user to do after an error, a reboot of the device, and
the port opened again. `faults` counts the timeouts since then.

Assumed: frames arrive whole and undamaged, and none has 0x5A inside (`SerialBytes` shows what that is
worth); the device answers a ping in every state but while it executes a command or produces a frame, and
then returns to idle.

### SerialBytes and FrameChannel

The three transport classes have the same methods, line for line, over three drivers; the map spreads the
definitions over them, and `bus` is which one runs. A cell is a field of a head, or a word of payload;
`part` is what is left of the frame the host is inside, `chan` the whole frames behind it. A wait is
`find_start_byte` (`FindStart`, `SkipByte`, `TimedOut`), the read of the head (`RejectHead`,
`ReadSignal`, `ReadHead`) and of the payload (`ReadPayload`). Each read gets any number of cells up to
what it asked for, because the device may be slow anywhere; then a UART returns what it has, and a bus
master gets filler (`Returned`). An I2C device may not answer to its address at all (`Nack`). The device
sends what it likes, when it likes: any frame, ACK, abort or noise.

`FrameChannel` is the promise: a frame goes whole to a wait that takes its type; a wait that expires
costs no frame; a stall spoils the frame it is in and no other; a frame of another type fails the wait
and takes with it what had been read. The promise ends (`sync` is false) when a frame with 0x5A inside,
in its payload or as its length (`Holds`), is left half read: the next wait may begin in its middle. A
frame the host has begun is still in the abstract queue until the wait ends (`Line`).

### UsbHid

The same calls, `outq` and `in` the queues of reports. There is no ping, ACK or type: any report
satisfies any wait, and a data report taken for a response may have any status (`StatusOf`).
`read_data(0)` divides by zero after the command was sent (kind `empty`). A write to the endpoint may
fail, of the command or of a data report (`CommandWriteFails`, `DataWriteFails`): the exception leaves the
call, which counts as abandoned. The device may send empty data reports (`Empty`), one of a command
unread at a time.

### BootCommand

At most one execution per command issued, perhaps after the caller has given up; a verdict that is the
device's own as long as no more than `Tolerance` calls were left without an answer; one that could not
even be sent (`IssueFails`) counts among those. The serial protocol
implements it with `Tolerance = 1`, USB with 0. That is why `Cli` can take every call as atomic with the
outcomes *ok*, *refused* and *broken*.

### McuBoot and Cli

`McuBoot` translates every method and subcommand into a sequence of steps: calls, exceptions
raised by the host itself, messages. An `except` clause is in the step it protects: which
outcomes it catches and how many steps are then skipped. `Cli` runs the sequences: `CallOk`,
`CallFails` (refused or broken, after any part of the work was done, all of it included), and the
host's own steps. What a subcommand does next is decided (`DecideStep`) with the ranges known by
then, which an earlier failure may have left unknown: `is_in_flash` then says yes.
The device has internal flash and RAM and an external flash, erased by whole sectors; a cell
programmed without an erase is spoilt. An argument that may be left out has a flag for whether it was
given: `erase` of an address and a length of 0 goes to the device, `erase` without an address is an error;
an external configuration of an address and no words still configures the memory.

`NothingElse` allows a subcommand the sectors of the block it was given (`Asked`). It has one exception:
`fill` may erase, and never programs, the sectors of eight times its block (`Excess`). That it should
not is finding 2, shown by `FillStaysInside`.

`NoOverprogram` is stated for lines that leave the erasing to the tool (`AutoErase`): no `--no-erase`,
an `-o` method that erases at all, and configuration words of the external memory that go to RAM, since
`fill_memory` puts them where the caller says and nothing erases that place.

### Session

`reopen_args`, `current_interface` and `_itf_` through `open_*`, `close`, `reset` in library use,
with devices that leave and return, other than those asked for too. A reset USB device leaves
the bus; 0.4 s later whatever is there is enumerated. `ret` is how the last call ended. A device
keeps its path, and under Windows the search by path is the same; the two `enumerate` differ in
`open_usb()` without arguments, modelled as under Linux, where it raises.

### CommandArgs

`line` is the words typed so far, `said` what the user means by them; everything else is computed from
`line` by operators: `Cuts` (where `parse_args` divides it), `ParseCommand` (a subparser of argparse on
the words of one subcommand), `FixArgValue`, `Refused` and `Runs` (what `main` runs, in its order, with
which arguments). argparse is external and modelled as the interpreter has it: a group of positional
words serves as many positional arguments as it can, optional ones that got nothing get nothing later.
Its model was compared with the real parser on every line of one subcommand, and on forty thousand of
two, without a difference. A property relates what is run to what was said; every argument has a word of
its own, so that no two can be mistaken for each other.

### DeviceScan

`Ask` is `parse_peripheral`, the three scans make `list`, `Choose` is the prompt, `Open` the lookup of
the entry: a path for USB, a port name for UART, the place among the devices of its vid and pid for FTDI,
in `cache`, which is `UsbTools.UsbDevices`. Devices are plugged in and out at any step. A device is one
attachment: what comes back at the same address later is another one. An FTDI device that was unplugged
stays in `cache` and cannot be opened. `said` is what the caller gave and `asked` what the scan looks
for: they differ for `-u` (finding 3).

### MemoryRange, RangeCuts, Crc16

Blocks are records, compared with the sets of their addresses. `AndNot` is `& ~` of two naturals of any
size, by recursion on their halves, as Python's integers have no width. `RangeCuts` takes blocks away
from a block one after the other, each from all the pieces there are by then. In `Crc16` a number is the set of its 1 bits, so that it has no width, as in Python.

## 3. Runs

Deadlock checking is off where the modelled program stops: the calls are bounded by `MaxCalls`, a command
line and a packet end, and in `SerialBytes` a bounded line may be full. `Session` and `DeviceScan` never
stop, and their runs check it.

| Run | Bounds | What it shows |
|---|---|---|
| `SerialLink` | 6 calls, 3 bytes read or written by packets of 2 | `AtMostOnce`; with at most one timeout since the device was restarted `OwnResponse`, `ReadExact`, `WriteComplete`, `HonestStatus`; without any, `NoSpuriousError`; `CallEnds`: no call blocks for ever, unless empty DATA frames come for ever; `ImplementsPromise`: refinement of `BootCommand` |
| `SerialBytes` | 2 frames on the line behind the one being read, responses with and without a value, payloads with and without 0x5A, three buses | `ResponseHonest`: a response that is parsed has the device's status and value; one that stalled over a UART keeps its status and has its value or 0, and of one that stalled over SPI or I2C nothing is said; `WaitEnds`; `ImplementsChannel`: refinement of `FrameChannel` |
| `UsbHid` | 3 calls, the same lengths, one unread empty report of a command | as `SerialLink` but for `AtMostOnce` and `NoSpuriousError`, while no call was abandoned |
| `UsbHid_stale` | 3 calls | violation: a late response answers the next command |
| `MemoryRange` | addresses 0..4 | `SubExact`, `AlignCovers` over every block, cut again and again |
| `Crc16` | 3 bytes out of 6 | `CrcIsRemainder`, `AgreesWithDevice`, `BurstsDetected` (bursts of up to 8 bits) |
| `Cli_safety` | 20 addresses, sectors of 4, every pair of subcommands and the methods of `-o`; the configuration words of a `read` in RAM, beside or over a `write` | `NoOverprogram`, `NothingElse` (but for the excess that `fill` erases), `ReportedIsDone` |
| `Cli_fill` | same | violation: `fill` erases eight times its range |
| `CommandArgs` | lines of two subcommands with every choice of optional arguments, options and places of the options, or one and an `-o`; four peripherals | `AsGiven`: what is run has the arguments it was given; `AllGiven`: a line that does not fail is run whole |
| `Session_safety` | 3 USB devices (two alike), a port, a bridge | `AskedDevice`, `ResetByPath` |
| `DeviceScan` | 6 devices of 3 pairs, 3 changes of the bus, nine turns as in the code | `OpenedIsPicked`, `FallbackIsLast`, `ScanEnds` |
| `DeviceScan_asked` | same | violation: `-u VIDPID` opens any device |

Why the bounds are enough. Three bytes with packets of two make a full and a short packet. Six calls are
one to abandon, one to recover, and four that follow; the properties of `SerialLink` are stated for at
most one timeout because with two they are false, and the bound is tight: `OwnResponse` and
`HonestStatus` fail with two timeouts at three calls, `WriteComplete` at four, `ReadExact` at six (a
second ping's answer is still in the buffer, and from then on the host is one frame behind). USB
tolerates none, so that three calls are enough: one to abandon and, after the restart, two that follow. The
memory of `Cli` has blocks inside a sector, across two, at the end of flash, astride flash and RAM, and
beyond both. Two twins and a third device are what `enumerate` can confuse.
In `SerialBytes` a wait for one type can run over the frames behind the one it began; two are enough for it
to end between them, inside the first, or inside the second. In `DeviceScan` two devices of a pair, one
that takes the address of another, one without serial number and two pairs are what the lists can
confuse; three changes are one before the scan, one before the prompt and one before the open. In
`CommandArgs` only the same name, the cuts and `-o` relate two subcommands, so a third adds nothing.

Fairness. `FairSpec` assumes weak fairness of the host's own steps only: while a call runs, it can either
read what is there or wait for a timeout that the code sets on every wait, so some host step is always
enabled until the call ends. The device is under no fairness: it may be silent. That is not enough for
a call to end: an empty DATA frame or report starts a new wait and leaves what is still to be read as it
was (`IdleTurn`), so that a device that sends them for ever keeps `read_data` in its loop. `CallEnds` says
that a call ends unless that happens; each single wait ends even then (`WaitEnds`). `SerialBytes` adds weak
fairness of `TimedOut`: the loop of `find_start_byte` looks at the clock in each turn, whatever it has
read, so that a line that is never quiet cannot keep it. `DeviceScan` assumes weak fairness of a scan,
which goes on by itself; of the user and the bus nothing.

## 4. Findings

Each with a run that shows it:

1. Over USB, after one timeout each command gets the response of the one before (`protocol.py:307`).
2. `fill` checks and erases eight times the range it fills (`cli.py:126`).
3. `-u VIDPID` looks for any known device, the vid and pid being taken for a speed (`peripheral.py:89`);
   `-p PORT` opens the only other port if that one is not there (`peripheral.py:153`).

Seen while the modules were written, each in a line or two of code, and modelled as they are; no run is
about them:

* `flash_program_once` raises `NameError` after the fuses were programmed (`mboot.py:786`);
* `open_uart` returns True if the port cannot be opened (`uart.py:69`), and `is_open` is True after
  `open_spi` or `open_i2c` returned False (`mboot.py:324`);
* `write_memory` over a serial link returns the length rounded up to packets (`protocol.py:173`);
* `write ADDRESS FILE -o OFFSET` (`doc/usage_example.md:68`) is rejected, or after `-u VIDPID` silently
  does nothing: an `-o` anywhere keeps the line in one piece (`cli.py:26`). `AllGiven` is stated without
  such lines;
* over SPI and I2C a response whose payload comes late is read as zeros, a status of success
  (`spi.py:69`). `ResponseHonest` is false for such responses and leaves them out: of stalled ones it speaks
  for the UART only;
* a device that sends empty DATA frames or reports for ever keeps a read from ending (`protocol.py:122-141`,
  `342-361`); `CallEnds` leaves it out. A MAX_PACKET_SIZE of 0 makes `write_data` send empty packets for ever
  (`protocol.py:174`, `402-412`); it is not modelled, the packet size being at least 1;
* `check_int` raises `NameError` (`tool.py:139`), `write_file` needs an `address` it does not have
  (`tool.py:246`), a key of eight characters loses two (`tool.py:119`);
* `McuBootTimeOutError` is called with arguments its constructor does not take (`protocol.py:100`), a read on a port that
  was not opened raises `NameError` (`uart.py:87`), `open_usb()` without arguments raises under Linux (`usb.py:277`);
* words no argument took are found after the subcommands before them have run (`cli.py:568`); a serial port without a
  manufacturer cannot be opened through the scan (`peripheral.py:169`), and the number typed at the prompt
  is not checked: 0 is the last entry (`peripheral.py:120`);
* a reserved region of 0 to 0 ends `get_mcu_info` (`mboot.py:54`), a USB timeout of 1000 is one second (`protocol.py:299`),
  and `collections.Sequence` is gone since Python 3.10 (`memorytool.py:14`).

## 5. Proofs

For every value of the constants, under the assumptions the modules name:

* `SerialLinkProofs!TypeCorrect`: `Spec => []TypeOK`. The invariant `TypeInv` is `TypeOK` with what it
  needs to be inductive, in `DataInv`: which frames each stream may carry, and that the device's data
  position is inside the transfer whenever it is to send or store a chunk, so that the chunk's length is
  a natural.
* `SerialLinkProofs!ExecutedAtMostOnce`: `Spec => []AtMostOnce`. `AtMostOnce` alone is not inductive: a
  command frame on the wire could be one already executed. `OnceInv` says that a command is in one place
  only, still with the host (`Unsent`), in the stream to the device (`Sends`), in its hands (`Begun`), or
  executed. The crux is `PingOk`, the one place that sends a command: `pc = "ping"` implies that the
  current command was not sent.
* `SerialLinkProofs`: `OwnResponse`, `ReadExact`, `WriteComplete`, `HonestStatus` and `NoSpuriousError`,
  for any number of calls and any lengths. None is inductive: each speaks of the end of a call, and what
  can go wrong is in the streams long before. The invariant `LinkInv` lists what the two streams may hold,
  by the types of their frames, while at most one wait expired: the host is `Idle`, at a ping (`Pinging`),
  in step with the device (`InStep`: one frame or one busy device, all of it of this call), or one ping
  behind (`Behind`), where it never gets past the ACK of its command. The last case is why one timeout is
  harmless and two are not.
* `SerialBytesProofs`: type correctness, `ResponseHonest`, and every step of `SerialBytes` is one of
  `FrameChannel` or a stutter, for any responses, packets and length of the line. `TakeLeaves` is what it
  rests on: however many cells are read, what is left is the end of one frame and whole frames behind it.
  It is about sequences of cells joined one behind the other, so the lemmas before it say what `FlattenSeq`
  computes, by the least counterexample. `ResponseHonest`, with
  its exemption, is not inductive: it speaks of the end of a wait.
  `FrameInv` follows the frame whose start byte the wait took (`cur`): what is unread of it is all but its
  first cell when the head is read, its payload behind the head, and on a polled line that stalled, where
  the length may have been read as 0, some end of it with no start byte but its own. A wait that took a
  start byte elsewhere is one whose `sync` was false before, and `Astray` from then on. `Holds` did not
  count the length at first, and the refinement was false for payloads of 90 cells: that is how it was
  found, the runs having none.
* `UsbHidProofs`: the same four promises while no call was abandoned. Nothing is acknowledged, so one side
  may be a whole transfer ahead; `LinkInv` says packet by packet what is in the two queues: what the
  device has yet to send from where the host is, what the host has sent from where the device is. Empty
  reports may stand between the others; they move neither side (`FlowHead`, `FlowRest`).
  `OnceInv`, at most once over USB, holds whatever was abandoned.
* `LinkIsRemoteCall` of both links: the initial states and every step of `SerialLink` (`Tolerance` 1) and of
  `UsbHid` (`Tolerance` 0) are those of `BootCommand` or stutters. The steps where a verdict is given need
  the two `LinkInv`; the others need that a command executes once and that what the device failed or is in
  the middle of was executed.
* `CliProofs`: type correctness, `NothingElse`, `NoOverprogram` and `ReportedIsDone`, for any memory, sector
  size and set of command lines. What a run may still do is in `todo`, so the invariants speak of the steps that are left.
  `Fits`: none of them, nor a part of one, reaches a cell the line may not change; in the excess of `fill`
  the steps that are left only erase. `Orderly`: a step that
  programs flash has a step before it that erases at least the same addresses, with nothing between them
  that writes, and no failure can skip the erase and not the program; or its cells are erased now. A
  `decide` is replaced by the steps of its subcommand, which have to be orderly whatever ranges the host
  knows by then; in `flash_image` that rests on `AlignUpCovers`. `Ordered` says that the range of flash is
  never known without that of RAM, without which a block astride the two would be programmed unerased.
  `Announced`, for `ReportedIsDone`: before a success is printed there is a step that makes it true (a
  decision until it is replaced, then the last step it was replaced by), no failure skips that step and not
  the printing, and nothing after it touches its cells; or it is true now. The proof found what the property
  lacked: a `read` that configures the external memory may put the words over what `write` wrote in RAM,
  hence `Apart`, and the command lines of the runs that meet the case.
* `DeviceScanProofs`: type correctness, `OpenedIsPicked` and `FallbackIsLast`, for any devices and any
  comings and goings. A USB or UART entry is looked up by its port. An FTDI entry is looked up by its place,
  counted in the list the user sees, in another list, made of one pair and perhaps long ago: `ScanInv` says
  that the place is right, because the long list is the short ones one behind the other and no device is
  in two of them.
* `SessionProofs!TypeCorrect`, `AlwaysAskedDevice`, `ResetAlwaysByPath`: `Spec => []TypeOK`, `Spec =>
  []AskedDevice`, `Spec => ResetByPath`, for any sets of devices. `AskedDevice` is not inductive: `reset`
  opens `reopen_args`, so `ReopenIsAsked` says that they are those of the request that was granted last,
  or that nothing was asked for by vid and pid. `OpenUsbCases` reduces `open_usb` to three outcomes, for
  the caller and for `reset`; `PathIsUnique` says that a path leaves one candidate.
* `MemoryRangeProofs`: `in` is inclusion and `-` is difference for all blocks, by cases on the code's
  branches; hence `SubExactHolds` for any number of cuts, and `AlignUpCovers`, hence `AlignCoversHolds`,
  for any base. What `AndNot` and `SubAll` compute by recursion is shown by the least counterexample: the
  inputs where a claim fails are a set of naturals, and its least member is one turn from an input where
  it holds.
* `Crc16Proofs!MaskAtTheEnd`: the unmasked number and a 16-bit register agree after packets of any
  length. One turn of the loop commutes with the mask, hence eight do, hence `AgreesWithDevice` is
  inductive once `crc` is known to be a number.
* `Crc16Proofs!CrcIsXmodem`: `crc16` is the remainder by the generator polynomial, for packets of any
  length. The inductive invariant `Dividing` holds a whole long division that ends in the 16-bit register; a
  byte carries it on eight bits up, and its last eight steps are the eight turns of the loop. That a
  division is the one `Remainder` computes is by the least step at which two would differ.
* `Crc16Proofs!BurstsAreSeen`: no burst of up to 16 bits goes unseen (TLC checks those of up to 8). The
  division of what two packets differ in is what their divisions differ in, and that of a burst never
  ends in 0: each time the generator is taken off, its lowest bit is below all that is left.

The assumptions are the named `ASSUME`s of the modules: sizes are positive, sets of devices finite, the
layout of the memories a layout, command lines ones the parser can produce. TLC evaluates them in the runs.
The invariants of the two links, of the bytes, of `Cli` and of the scan were checked by TLC on small
instances before they were proved.

Only model-checked: liveness and `ENABLED`, which the prover does not do; `AsGiven` and `AllGiven` of
`CommandArgs`. These two are what folds over a declaration compute from each of some two hundred ways to
write a subcommand, and TLC goes through all of them; only the words, which are looked at no further than
`Converts` and `IsOption` do, and the number of subcommands are not general.

## 6. Not modelled

Files, output and the decoding of property values: text, without state. The conversions behind the
arguments (`check_key`, `convert_arg_to_int`, `parse_port`) are words that are accepted or not, and `-t`,
`-d`, `-h`, `-v` and the abbreviations of long options are left out, so argument parsing is modelled in
part. `__main__.py` is the former program inside a docstring. Times are abstracted to whether a wait
expires, property values to constants, payload bytes to their position. Frames are cut, mixed with noise
and skipped, but not altered: the code does not check the received CRC, so there is nothing that could
hold. SPI's `_read_command_packet` and `_read_data_packet` are never called. The callback thread of
Windows only appends to the queue, which `UsbHid` has devices do at any step; the rest of the Windows
class is not modelled, nor is the fixed size of the Linux class's reads. 
Exceptions are two classes: refused by the device, and anything else. A write that raises is modelled over
USB; the writes to a serial port or an SPI or I2C bus always succeed. That the exit status is always 0
(`decorator.py:16`) is outside the models.

## 7. Plan

Done: `SerialLink`, `UsbHid`, `BootCommand`; `SerialBytes`, `FrameChannel`; `MemoryRange`, `RangeCuts`,
`McuBoot`, `Cli`; `CommandArgs`, `DeviceScan`; `Session`; `Crc16`; theorems on every safety property of
the two links and their refinement of `BootCommand`, on the bytes and their refinement of `FrameChannel`, on the session, the scan, what a command
line changes, erases and says it did, blocks and `align_up`, and on the checksum. Left, in order of importance:

1. Theorems: `AsGiven` and `AllGiven`.
2. `get_mcu_info` with the values a device may give, short responses and empty reserved regions included;
   sizes of 0 through `get_memory_range` and `write_data`.
3. The Windows `RawHID`: exclusive opening, and the queue that survives `close`.
