# Verification of mrs_fpga_toolkit

TLA+ models of the MRS FPGA toolkit (`src/dev`, the device library, and
`src/fpgactl`, the command-line tool), the TLC runs that check them on small
instances, and the theorems that TLAPS proves for every value of the constants.

The toolkit talks to Xilinx FPGA cards over PCIe with the XDMA driver. It is a
library of register-level drivers with deadlines and exceptions, and a tool that
updates flashes, reconfigures cards and repairs the kernel's view of the bus. It
keeps almost no state of its own. Its state is in the *hardware* (a flash array,
FIFOs, streams, latched interrupts) and in the *kernel* (endpoints, bindings,
signal masks), outlives the process, and is whatever the process before left
there. So each module below models a piece of C++ code *together with* the thing
it drives, and lets that thing stall, fail, be cut off or be found in any state.

1. [Inventory](#1-inventory)
2. [Modules and how they correspond to the code](#2-modules)
3. [Runs: what is checked, bounds, fairness](#3-runs)
4. [Proofs](#4-proofs)
5. [Finding and observations](#5-finding-and-observations)
6. [What is not modelled, and the plan](#6-what-is-not-modelled-and-the-plan)

To repeat everything, in this directory:

    tlc -workers 2 -config MCFlashProgram.cfg MCFlashProgram      # and the other cfgs
    tlapm FlashProgramProofs.tla                                  # and the other *Proofs, Quotients

## 1. Inventory

| Component | State | Operations | Hard behaviour | What makes it correct |
|---|---|---|---|---|
| Flash update, `fpgactl/src/qspi.cpp` | the array; latched device errors; `sector`, `page`, `desired` | `requireWritable`, `programAndVerify` | failure or power loss between erase and program; unaligned images; devices that report no failure | success is exact; at most one sector at risk; no false mismatch; a repetition changes nothing |
| SPI-NOR driver `SpiNor`, `dev/src/ip_drivers/qspi.cpp` | the device's operation, latch, error bits, protocol mode, nonvolatile configuration | constructor with recovery, `read`, `eraseSector`, `program`, `repairMicronBootMode` | a device found busy, powered down or in another protocol; pages cut by the FIFO; cut-off repairs | an open session means an idle device; a return means what `programAndVerify` takes it to mean |
| AXI Quad SPI driver, same file | the core's FIFOs, selection, inhibit bit, latched interrupts | constructor, destructor, `transfer`, `reset`, clock priming | an access that throws in mid-transfer; toggle-on-write interrupts; bytes of an earlier process | one command per selection; a transfer that returns was transmitted whole |
| XDMA streams, `dev/src/xdma.cpp` | per thread: signal mask, timer, notification flag; per process: the handler | `writeH2C`, `readC2H`, `readExact` | POSIX timers and signals racing blocking system calls on several threads | no notification without a handler; no deadline of another call; no gaps; finite calls return |
| Device files (`XDMAUser`, `XDMAStream`), same file | the descriptors of each object | constructors, moves, `closeStreams`, destructors | a second open that fails; descriptor numbers that the kernel reuses | every open file has one owner that will close it; no file of others is closed |
| GPIO interrupts, `gpio.cpp` | which channels are pending (in the core) | `clearInterrupts` | an event between the read and the write of a toggling register | pending is what was raised and not cleared |
| PCI capabilities and MRRS, `pcie.cpp` | the configuration space of an endpoint | `decodePcieControl`, `setMrrs` | lists cut off or circular; a register written whole from an earlier read | a space without a list is refused, in any other the first PCIe capability is found; the announced change is the one asked for |
| DMA cores, `aximm2s.cpp`, `axis2mm.cpp`, `axis_dma_common.cpp` | registers, the beats in the stream, the board memory | `AxiMm2s::read`, `Axis2Mm::write` | chunks, padding, early stops, deadlines | what was written is read back; nothing is left for the next call |
| Warm boot `AxiHwIcap`, `hwicap.cpp` | the write FIFO, the configuration port's packet | `validate`, `reset`, `triggerIprog` | a process cut off with half a packet in the FIFO | only whole packets, and the boot goes where it was asked |
| 64-bit counters, `ip_driver_lite.cpp` | two words of a running counter | `read64Stable` | a carry between two accesses | the value returned is one the counter had |
| PCIe and XDMA recovery, `pcie.cpp`, parts of `jtag.cpp`, `qspi.cpp` | endpoints, bindings, device nodes, the saved BDF | `reload`, `probe`, `remove`, post-reconfigure, JTAG and QSPI reconfigurations | faults between any two steps; two cards; stale endpoints | a ready endpoint is usable; no reconfiguration under the driver; recovery recovers |
| Image readers, `jtag.cpp`, `qspi.cpp` | none (pure) | `validateBitImage`, `loadImage` | truncated, extended or altered `.bit` files, unsigned arithmetic | nothing is accepted that the other reader would cut |
| Child processes, `common.cpp` | the pipe, the child's status | `runProcess`, the verdict of `runJtag` | a full pipe, descendants, signals, `EINTR` | the output is complete, success is real, the call returns |
| CLI, board/XADC/DNA, file helpers, packaging | see section 6 | | | |

How they interact:

    fpgactl qspi  ->  programAndVerify  ->  SpiNor  ->  AxiQuadSpi  ->  XDMAUser (BAR)  ->  core, flash
                        FlashProgram        SpiNor       AxiQuadSpi
                              \__ NorFlash __/  \__ implements NorApi

    client  ->  Axis2Mm::write / AxiMm2s::read  ->  XDMAStream  ->  driver, cores, board memory
                    Axis2Mm, AxiMm2s (BoardMemory)    XdmaStream, DeviceFiles

    client threads  ->  AxiGpio, read64Stable  ->  XDMAUser  ->  cores
                    AxiGpio, SplitCounter (AxiLite)   DeviceFiles

    fpgactl jtag / qspi --reload / pcie  ->  recovery in pcie.cpp  ->  kernel, driver, cards
                              \->  runProcess (openFPGALoader)         Recovery, RunProcess
                              \->  validateBitImage / loadImage        BitImage
                              \->  AxiHwIcap::triggerIprog             HwIcap
    fpgactl pcie show / mrrs  ->  decodePcieControl, setMrrs           PciCapability

Calls are synchronous and there are no callbacks but one, the signal handler of
the XDMA deadline. Concurrency comes from the hardware that runs on, the kernel
timer, a second thread of a library client, the child process of `runProcess`,
and from what other tools do to a card between two commands. Failure is an
exception, thrown by any register access or system call, or a kill. Restart is
the next `fpgactl` process. `PROJECT.json` lists the hazards by source line, with
the properties that would catch each.

## 2. Modules

In every module a driver is a program counter `pc` whose values are named after
the code's next access. An action is one access to hardware or kernel with the
computation up to the next one, because that is the grain at which anything else
can happen. `\* Mutant:` marks an altered copy of a definition. It is used by no
specification; it is there to show that a property notices the alteration.

### FlashProgram (with NorFlash, Quotients)
`programAndVerify` as a loop over sectors and pages, one action per call on
`SpiNor`. `NorFlash` is the device's arithmetic, shared with `SpiNor`: a cell is
the set of its bits that are programmed to 0, so that `{}` is the erased `0xff`,
programming only adds bits, and only an erase takes them away. An operation that
is cut off leaves some of the bits (program) or anything (erase) in its range.

| TLA+ | code (`fpgactl/src/qspi.cpp`) |
|---|---|
| `Start` | `requireWritable` and the range checks, then the bounds of the loop |
| `PrepareSector`, `SkipSector`, `ReadThrows` | the read of a sector, the overlay of the image, the comparison |
| `Erase`, `EraseThrows`, `EraseFailsSilently` | `eraseSector`; it throws if the device has error bits, otherwise a failure is unseen |
| `Program`, `SkipPage`, ... | the page loop with its skip of erased pages |
| `SectorDone`, `LoopDone`, `Verify` | loop ends and the final read of the image range |
| `Crash`, `ClearError` | a kill or power loss; a power cycle or the reset of the next session |

The variable `reports` says whether the device has error bits. Nothing changes it,
and the code does not read it.

`base` (the array when the update began) and `verified` (what the last complete
update left) are history variables: no action of the code reads them.

### SpiNor, which implements NorApi
`SpiNor` is the flash driver at the grain of SPI transactions, over a device
that has an operation in progress, a write-enable latch, latched errors, a
protocol mode (serial, powered down, quad, continuous read) and the nonvolatile
boot-mode bits. The variable `reports` chooses the device profile, so one run
covers parts with error bits and the Micron part without. The constructor's
`recover` sequence, the write-enable check, the status polling, the cutting of
reads and pages at the FIFO size and the repair of the Micron configuration are
actions of their own. Between any two of them the transfer may throw, the
process be killed, the device finish, fail or lose power.

`NorApi` is the abstract specification: what a return and an exception of a call
mean to its caller. Of the device it has the array, the set bits of the configuration
register, and nothing of the wire: an erase or a program touches the array, a repair
sets the boot bits and no other, and a repair that returns has set them. `KeepsPromise`
is `SpiNor => NorApi` under the mapping `Api` at the end of `SpiNor`, checked by
TLC and proved (`DriverKeepsPromise`). It is what justifies that `FlashProgram` treats an erase or a program as one step.

### AxiQuadSpi
`transfer` with its FIFO fill, the deadline of its loop, the reset on failure,
and the constructor's startup-clock priming, over the core's registers. Interrupt
bits toggle when written, as the core specifies and the code relies on. The
requests are byte sequences, and `window` is what the flash has seen since it was
last selected. A failing access may happen at every step, and a process may be
replaced by another at any step.

### XdmaStream
`writeH2C`, `readC2H` and `readExact` with `DriverDeadlineInterrupt`: block
`SIGUSR2`, consume what is pending, install the handler (`std::call_once`), create and
arm the timer, restore the mask, look at `fired_`, enter the system call, be interrupted or not,
and then the destructor: block, delete the timer, consume pending notifications,
clear `fired_`, restore the mask. Signals are
modelled per thread (`SIGEV_THREAD_ID`): `pending`, `masked`, delivery as an action
of its own. The check of `fired_` and the entry into the call (`Check`, `Enter`) are
two steps, before `write` and `read`, and there is a step before `poll` too, so a
notification may land in between and be lost to the call. The timer repeats, which is
why that is survivable.

### DeviceFiles
Which object owns which descriptor: the constructors that open one or two files,
the moves, `closeStreams` and the destructors, one action per system call, while
other code of the process opens and closes descriptors and the kernel gives out
the lowest free number (`Lowest`). Objects are used by one thread at a time, as any C++
object without a lock must be.

### Axis2Mm, AxiMm2s, composed in BoardMemory
The two DMA drivers, each with its core and the stream between host and core.
`BoardMemory` instantiates both over one memory and one client, which makes calls
one after another and stops at the first exception. `image` is what the client
was told its writes did. Lengths are in bytes on the reading side and in beats on
the writing side as in the code, including the padded last beat and the chunks
that are rounded up to beats.

### HwIcap
`validate`, `reset` and `triggerIprog`, with the core's FIFO and the
configuration port, which takes whole packets word by word and remembers where
it is across processes. The address is shifted and range checked as in the code.

### SplitCounter and AxiGpio, composed in AxiLite
`read64Stable` reads high, low, high, and again until the two highs agree, without a limit.
`SecondTryIsLast` says how slow a counter must be for two attempts to be enough.
`counter` advances by up to `Speed` at every access. `began` is history: its value
when the call began. `AxiGpio` is `clearInterrupts`: the read of the pending bits and the
write of those to be cleared, to a register that toggles what is written, with
events before, between and after. `raised` is history: the channels with an event
not cleared since. One thread uses each driver object; two threads with objects
of their own share the `XDMAUser` under them, which `AxiLite` models: each access
names its register, so they interleave freely.

### Recovery
The commands of `fpgactl` that take a card off the bus and bring it back, on
several cards. A command is the list `todo` of its remaining steps. `Plan`
translates which function calls which, and each step is an action named after
the helper it stands for (`reenumerateKnown` is `RescanKnown`,
`recoverAfterReconfiguration` is `DiscoverEndpoint`, ...). The kernel is
`seen`, `loaded`, `bound` and `node`. `stale` marks endpoints enumerated before
their card was last reconfigured, which is what nobody can see and everything
depends on. A card may be absent, boot later, or come back different.

### RunProcess
The parent (`runProcess` and the verdict of `runJtag`), the child, and a process
the child leaves behind with the pipe open. The pipe has a capacity. Reads and
waits can be interrupted or fail.

### PciCapability
`decodePcieControl` over a configuration space of any length: the check that there is a
whole header and a list at all (`CheckHeader`), the walk along links that may lead
anywhere, and then `setMrrs`: the write of Device Control from the value decoded, the readback, and
another writer of the same register. The reference `Reached` follows the links for as
many steps as there are slots, without a set of visited ones.

### BitImage
`validateBitImage` (`jtag.cpp`) and then the `.bit` part of `loadImage` (`qspi.cpp`) over
one file, one action per part of it (header, marker, tag, field, payload), with the
unsigned arithmetic of the code. The file is complete, cut, extended or altered in one
byte. `read` is history: what `validateBitImage` has passed over, as an image. Numbers
of two and four bytes are written as in the file (`Big16`, `Big32`) and read as in the
code (`Value`). `Decoders` extends it and `PciCapability`: a behaviour is a file or a
configuration space.

## 3. Runs

| Run | What it asks | Bounds | States |
|---|---|---|---|
| `MCFlashProgram` | Does a flash update end as it says, whatever fails and whenever it is cut off, with error bits and without? | 3 sectors of 2 one-cell pages, one-bit cells, every image on 3 ranges and one image over all sectors | 371 k |
| `MCFlashProgramHelp` | Is the help text's promise kept on a device without error bits? (No: section 5.) | the same device, 2 ranges | violated |
| `MCAxiLite` | Is a 64-bit read never torn, are two attempts enough, and is no interrupt lost or invented, with two threads on one device file? | words of 6 values, every value of the counter, at most one count per access; one or two channels, every mask | 386 k |
| `MCXdmaStream` | Can a deadline reach the wrong call, the wrong thread or nobody? | 2 threads; one makes every call, the other writes; packets of 2 bytes | 444 k |
| `MCDeviceFiles` | Does every open file have one owner, and is no other's file closed? | 2 streams, 2 user BARs, 4 descriptor numbers | 190 k |
| `MCSpiNor` | Does the flash driver implement `NorApi`, on both kinds of device and in every state in which it may be found? | 2 sectors of one 3-cell page, transfers of 2 cells, 6 calls, one of them a program of no data | 382 k |
| `MCAxiQuadSpi` | Does the flash see one command per selection, and does a returned transfer mean what it says? | requests of 1 and 3 bytes, 2 failing accesses | 41 k |
| `MCRecovery` | Do the commands leave, announce and repair what they claim? | 2 cards, every command and selection, 2 faults | 86 k |
| `MCBoardMemory` | Is what was written what is read, across chunks, padding and errors? | beats of 2 bytes, memory of 4 beats, registers 3 beats and 6 bytes, streams of 2 beats | 195 k |
| `MCHwIcap` | Is a warm boot command atomic and for the right address? | 4 addresses (0, an aligned, an unaligned, one out of range), FIFO depths one below, at and one above the configured one | 5.4 k |
| `MCRunProcess` | Does `runProcess` return, with all of the output and the true status? | pipe and buffer of 2 lines, 3 lines per process, 1 interrupted call | 40 k |
| `MCDecoders` | Do the two readers of `.bit` files accept the same, and only whole, files? Does the capability walk find what is there, and end? | digits in radix 10, fields of 0 to 2 bytes, 4 payloads, every cut and every altered byte; 3 capability slots with any links (the last of the header and the two after it), 2 sizes of MRRS, with and without a list, spaces that end one byte short of the header, at its end, and before, in and after each capability | 457 k |

Why the bounds are enough. Each is the smallest at which every branch of the code
and every kind of interference happens, and then some. Three sectors give the
flash loop a first, a middle and a last one. Two pages give it a partial sector.
A three-cell page with two-cell transfers makes a program both cross its page
and be cut inside it. Two cards are needed for "the wrong card", and two threads
for "the wrong thread". The capability slots are those around the end of the 64-byte
header, so that a space which passes the check may end at any of them. Two faults make a failure during the recovery from a
failure. A pipe smaller than the output is needed for the classical deadlock. Streams
shorter than a transfer are needed for the core to wait for the driver. In
`MCAxiLite` the carry falls at each of the three accesses and on either side
of the call, at every phase. The loops over hardware events are not bounded. The
only bounds that cut behaviours off are `MaxFaults`, `MaxSignals`, `MaxLines`
and `Limit`.

### The properties
*Flash update.* `SuccessIsExact` compares the whole array with image over old
contents, although the code reads only the image range back. `OneSectorAtRisk`
holds at every moment including after kills: all sectors passed are new, all
ahead are old. `MismatchMeansFault` says that the skips of unchanged sectors and
erased pages never cause the final verification to fail. `RepeatErasesNothing`
looks back over a whole earlier update.

*SPI-NOR.* `KeepsPromise` is the refinement. `OpenMeansIdle` is about what the
process before left. `ReadIsExact`, `CallsEnd`. A page program that wraps, or a repair
that writes other bits, breaks `KeepsPromise`, so neither has a property of its own.

*Quad SPI.* `OneCommandPerSelection`, `TransferIsWhole`, `FunctionsEnd`.

*Streams.* `NeverKilled`, `CleanBetweenCalls`, `TimeoutIsOwnDeadline`,
`ReadIsGapless`, `WriteVerdict` (what a caller may conclude about the packet), and
`FiniteCallsReturn`, which needs the timer to repeat: a notification can always
land just before the system call.

*DMA.* `RoundTrip` (end to end, over any sequence of calls),
`CleanBetweenCalls`, `CallsEnd`.

*Warm boot.* `PacketIsWhole`, `BootsWhereAsked`.

*Recovery.* `ReadyIsUsable` (an endpoint announced as ready was enumerated since
its card was configured last; `probe`, which does not remove it, is excepted),
`NeverUnderDriver` (as `pcie.h` demands: the driver unloaded and the endpoint removed), `NobodyLeftBehind` (a command for one
card gives the driver back to the other), `RecoverySucceeds` (whatever happened,
one more `reload` or post-reconfigure of a card that answers works).

*Child processes.* `OutputIsComplete`, `SuccessIsReal`, `Returns`.

*Images.* `UploadsAreJudged`, `AcceptedIsWhole`, `ReadersAgree`.

*Counter and GPIO.* `NoTear`, `SecondTryIsLast`, `PendingIsRaised` (the core's
register against the history of the events).

*Device files.* `OneOwner` (also after a constructor that throws half way),
`OthersKeepTheirs` (a descriptor number that the kernel has given to other code is
never closed by a second close).

*Capabilities.* `VerdictIsRight` (against the reference walk), `MrrsAsAsked`, `WalkEnds`.

### Fairness
Weak fairness is assumed only of what the code or the operating system makes run.

- `SpiNor`, `AxiQuadSpi`, `Recovery`: `WF_vars` of the program's own
  steps. Each is one access or one call that returns, throws, or reaches a
  deadline of its own. The polling loops have deadlines, and the action for the
  deadline is one of the steps. Devices, cores and cards owe nothing: a flash
  may stay busy and a card may never come back.
- `BoardMemory`: the two drivers and their clocks, for the same reason. The cores
  owe nothing, and `CallsEnd` holds although they may stop for ever. That a
  stream call ends at its deadline is `FiniteCallsReturn` of `XdmaStream`.
- `XdmaStream`: each thread runs, the clock advances and a due timer notifies
  (POSIX). The device and the driver's system calls owe nothing.
- `RunProcess`: `fpgactl` runs on, and so do the programs it started, which end
  once they have printed what they print. `runProcess` has no timeout in the
  code, so without the latter it would wait for ever. An interrupted or failing
  read is not fair.
- `Decoders`: the command's own steps; each is a computation or one access.
- `FlashProgram`, `HwIcap`, `AxiLite`, `DeviceFiles`: only safety, no fairness.

`CHECK_DEADLOCK FALSE` is given in three runs where the modelled program really
stops: the client of `MCBoardMemory` after an exception, the single call of
`MCRunProcess`, the single file or space of `MCDecoders`. All others check deadlock.

### Altered definitions
For every property of every passing run `PROJECT.json` names an altered
definition of the code (a dropped guard, a missing reset, a swapped order) under
which TLC finds that property violated: no property holds by the shape of the
model alone.

## 4. Proofs

These are checked by TLAPS: `Quotients` (lemmas), `FlashProgramProofs`, `SpiNorProofs`,
`AxiQuadSpiProofs`, `XdmaProofs` (`XdmaStream` and `DeviceFiles`), `IpDriverProofs` (`HwIcap`
and `BoardMemory`), `AxiLiteProofs`, and `FpgactlProofs` (`Recovery`, `RunProcess`,
`PciCapability` and `BitImage`).

Each proof has the same shape: an inductive invariant, which TLC checked on the run's
instance before it was proved; one lemma per conjunct or per action, in which each step
names the one reason why the conjunct survives; and the theorem, from the invariant
alone. What is assumed are the named assumptions of the modules and nothing else, and
TLC evaluates those on every run.

**Flash update.** For every number of sectors, every erase size that is a multiple
of the page size, every number of bits per cell, every set of update requests and
both kinds of device:

| Theorem | States |
|---|---|
| `TypeCorrect` | `Spec => []TypeOK` |
| `SuccessExact` | `Spec => []SuccessIsExact` |
| `OneSector` | `Spec => []OneSectorAtRisk` |
| `MismatchFault` | `Spec => []MismatchMeansFault` |
| `RepeatHarmless` | `Spec => []RepeatErasesNothing` |

From `GeometryAssumption` (the geometry of the device table in `dev/src/ip_drivers/qspi.cpp`) and
`RequestsAssumption`. None of these invariants is inductive: whether a finished
page may be skipped depends on what the loop has done so far. The inductive
invariant is

    IInv == TypeOK /\ OneSectorAtRisk /\ LoopInv /\ PageInv /\ VerifiedInv
                   /\ SuccessIsExact /\ MismatchMeansFault

`LoopInv` says that the current sector is still old until it is erased and that
`desired` is what the sector ought to become. `PageInv` says that within it the
pages before `page` are new and those after it erased, which is what makes the
skip of an erased page correct. `VerifiedInv` ties the history variable of the last complete
update to the array. The argument about addresses (sectors and pages partition
the array, the loop's first and last sector cover the image range) is in
`SectorBounds`, `SectorUnique`, `SpanCovered` and `PageFits`, which rest on the
lemmas on quotients in `Quotients`. `EraseEffect` and `ProgramEffect` say what the
device can have done, so that the steps treat kills and failures like successes.
There is one lemma per conjunct, with one step per action in it.

**SPI-NOR driver.** For every geometry, every set of calls, every transfer size and
both kinds of device, from `GeometryAssumption`, `CallsAssumption` and
`MaxDataAssumption`: `SpiNorInvariant` (`Spec => []SpiNorInv`), `SessionsStartIdle`
(`Spec => []OpenMeansIdle`), `ReadsAreExact` (`Spec => ReadIsExact`) and
`DriverKeepsPromise` (`Spec => KeepsPromise`, the refinement of `NorApi`).

    SpiNorInv == TypeOK /\ DoingInv /\ QuietInv /\ CallInv /\ TouchedInv /\ DoneInv

`DoingInv` says that what the device is doing belongs to the last call, that a page
program lies within one page, so that it does not wrap, and that a write of the configuration
adds the boot bits to what was there. `QuietInv` says that once the
constructor has had its answer the device listens, and is idle but for the wait after a
command; this carries `OpenMeansIdle` through kills and power cycles. `CallInv` says how
far a read or a program has come, and that a repair which is past its verification has
the boot bits set. `TouchedInv` says what the call, whole or in part,
can have done to the array, and `DoneInv` that a device which reports its failures has
done all that the call is past: the chunks before `next`, and the one the wait is for.
`RepairOnly` says that no step changes the configuration but as a repair does.
For the refinement each action is one step of `NorApi` or a stutter (`StepIsPromised`):
`TouchedInv` is what its `PartlyDone` promises when a call breaks, `DoneInv` what its
`Done` promises when it returns. With `SuccessExact` and `OneSector`, which are about a
program written against that interface, this is the whole argument from SPI transfers
to the update of a flash, but for the composition of the two modules (section 6).

**SPI transfers.** For any set of non-empty requests over any bytes and any number of failing
accesses, from `BytesAssumption` and `RequestsAssumption`: `SpiInvariant`
(`Spec => []SpiInv`), `OneCommand` (`Spec => []OneCommandPerSelection`) and `TransferWhole`
(`Spec => []TransferIsWhole`). `PlaceInv` says that what is left to do is the end of one of the
scripts, so that each access is one particular place of it (`Dues`, `Place`, `Advance`).
`WindowInv` says that while a selected core runs, what the flash has seen and the transmit
FIFO together are the request. The others say what holds at the places: `PrimeInv`
that the clock of STARTUP runs with the flash not selected, `PollInv` that
the FIFOs are empty and old interrupts gone before the flash is selected and the core
started, so that an empty FIFO is this transfer's, and `AnswerInv` how much of the reply is
drained. `OkInv` keeps the result true until the next call, through kills and restarts.
There is one lemma per conjunct, with one step per group of actions.

**Stream calls.** For any number of threads, any calls they make and packets of any size,
from `ThreadsAssumption` and `SizeAssumption`:

| Theorem | States |
|---|---|
| `CallInvariant` | `Spec => []DataInv`, the inductive invariant |
| `NotificationsAreHandled` | `Spec => []NeverKilled` |
| `CallsLeaveNoTrace` | `Spec => []CleanBetweenCalls` |
| `TimeoutsAreEarned` | `Spec => []TimeoutIsOwnDeadline` |
| `WritesAreJudged` | `Spec => []WriteVerdict` |
| `ReadsAreGapless` | `Spec => []ReadIsGapless` |

`SigInv` ties each thread's place in the guard's constructor and destructor to its
timer (`TimerInv`), to its mask and what may be pending (`MaskInv`), and to the flag
(`FiredInv`): a timer exists only after the handler is installed, a notification waits
only where it will be consumed, and the flag is set only between arming and
clearing and only after the call's own deadline. `DataInv` adds where the bytes are:
`PacketInv` that a packet is untouched until the system call, `StreamInv` that what
the caller has is a prefix of the stream and that a fragment is in nobody's hands but
between the system call and the code after it, unless the call has failed.
`TypeStep`, `SigStep` and `DataStep` have one step per action;
`DataUntouched` dismisses the other threads.

**Device files.** For any number of streams and BAR objects and any set of descriptor
numbers, from `ObjectsAssumption` and `FdsAssumption`: `FilesInvariant`
(`FilesSpec => []FilesInv`), `OwnershipIsUnique` (`FilesSpec => []OneOwner`) and
`OthersAreSafe` (`FilesSpec => OthersKeepTheirs`).
`OneOwner` is not inductive: during a call a file of ours may belong to an object
that does not live yet or no longer. `FilesInv` has `HeldInv` (every file of ours is a
member of some object, living or not), `LiveInv` (what does not live holds nothing, but the
object under construction) and `CallInv` (what a call still holds at each of its
steps). `TypingStep`, `OwnershipStep` and `CallStep` have one step per action;
`OwnershipKept` dismisses those that change neither a member nor a file of ours.

**Warm boot.** For any addresses, any expected vacancy and cores of any depth, from
`AddressesAssumption` and `DepthsAssumption`: `BootInvariant` (`Spec => []BootInv`), `PacketWhole`
(`Spec => PacketIsWhole`) and `BootWhereAsked` (`Spec => BootsWhereAsked`). `TodoInv` says
which access is due at which place (`Due`), `PacketInv` that after its reset the
core is at rest and holds exactly the words written so far, and `WriteInv` that what an active core
has left is the end of one packet whose beginning the port has had. The last one
is what rules out a boot address made of two processes' packets.

**Board memory.** For any writes that fit the memory, any reads, beats, chunks, registers
and streams of any size, from `SizesAssumption`, `WritesAssumption` and `ReadsAssumption`:
`MemoryInvariant` (`MemorySpec => []MemoryInv`), `NothingIsLeft`
(`MemorySpec => []CleanBetweenCalls`) and `ReadsSeeWrites` (`MemorySpec => RoundTrip`).
`WriterInv` says that the beats which `Axis2Mm` has sent are in the memory or in the
stream, in their order, and that what the memory holds elsewhere is what the client was
told (`Over`). `ReaderInv` says that the stream of `AxiMm2s` and what it has collected
are adjoining pieces of the range, each a whole number of beats (`Delivered`).
`TurnInv` says that one of the two is idle, which is why neither disturbs the other.
Both properties come down to counting in beats: a request never ends inside one, because
`Chunk` and `Transport` are multiples (`Units`, `CollectKeeps`), so that when the bytes are
there nothing is left in the stream (`AllDelivered`).

**Recovery.** For any number of cards, any commands and selections and any number of
faults, from `CardsAssumption`, `CommandsAssumption` and `SelectionsAssumption`:
`RecoveryInvariant` (`Spec => []RecoveryInv`), `AnnouncedIsUsable`
(`Spec => ReadyIsUsable`), `ReprogrammedUnbound` (`Spec => NeverUnderDriver`) and
`OthersAreServed` (`Spec => NobodyLeftBehind`). `TodoInv` says that what is left of a
command is a path of the relation `After`, so that a proof about a step knows which steps can
have come before it. `DueInv` says what those have achieved for the step that is due
(`Needs`): nothing is bound when an endpoint is removed, and it is off the bus until the
rescan, so also while its card is programmed; nothing stale from then on
(`Fresh`), everything that answers is bound after the module is loaded (`Served`). `KernelInv`
ties the kernel's view to the cards. There is one lemma per action of a command, and
one for what breaks in between.

**Child processes.** For pipes and buffers of any capacity, any programs and any number
of interrupted calls, from `CapacityAssumption`, `LinesAssumption` and `BoundsAssumption`:
`PipeInvariant` (`RunSpec => []ProcessInv`), `OutputComplete`
(`RunSpec => []OutputIsComplete`) and `SuccessReal` (`RunSpec => []SuccessIsReal`). The inductive invariant says that what was
read and what waits in the pipe are together what was written (`PipeInv`, by
`ReadMoves` and `AppendMoves` on sequences), and that a program which has not ended
holds its end open until it closes it (`ChildInv`).

**Capabilities.** For any finite set of slots, any links between them and any size of
the configuration space, from `SlotsAssumption` and `BytesAssumption`: `PciInvariant`
(`PciSpec => []PciInv`), `WalkIsRight` (`PciSpec => []VerdictIsRight`) and
`ChangeIsAsked` (`PciSpec => []MrrsAsAsked`). `HeaderInv` says that past
the check the space has a whole header and a list. The reference follows the links one at a time with a
recursive function; the decoder stops at a slot it has seen. `WalkInv` ties the two: after so
many slots the decoder is where the reference is after so many steps, and what it has seen is
closed under the links. A walk that comes back therefore never ends, and one
that never comes back ends within the number of slots. The lemmas on the recursive
function are by `SetInduction`, in `Quotients`: induction over the natural numbers,
stated of a set instead of a predicate and derived from the well-foundedness of `<`.
Its existence is the first of them (`TrailDef`).

**Image files.** For any images that a `.bit` file can hold, complete, cut anywhere, followed
by any byte or with any byte altered, any radix, tags, synchronization word and sizes, from
`RadixAssumption`, `TagsAssumption`, `SizesAssumption`, `UnsetAssumption` and
`ImagesAssumption`: `AcceptedWhole` (`ImageSpec => []AcceptedIsWhole`), `UploadsJudged`
(`ImageSpec => []UploadsAreJudged`) and `ReadersAgreed` (`ImageSpec => []ReadersAgree`).
Each has an inductive invariant over the one before. `ReadInv` says that what
`validateBitImage` has read, encoded again, is the file so far, so that in the end
nothing of the file was skipped or left over, whatever is in it. `JudgedInv` says that
in a file that was at most cut or extended the reader stays on the places of the image
it was written from (`Along`, `Layout`), so that it meets the end of the file exactly
where the image ends or was cut. `LoadInv` says that the more lenient `loadImage`, in a
file that was accepted, is always at a place of the image that was read. Sequences are
compared place by place (`Matches`, `MatchesJoin`, `MatchesUnique`), and `Number16`,
`Number32`, `Read16`, `Read32`, `Written16` and `Written32` are the round trips of the numbers.

**Counter and GPIO.** For every word size and every speed: `CounterTypes`
(`Spec => []TypeOK`), `StableReadIsAtomic` (`Spec => []NoTear`) and
`SecondTryEnough` (`Spec => []SecondTryIsLast`). The inductive invariant adds what
the reads so far say about the counter (`SeenInv`), and, for the last, how far the
counter can be from the last carry (`TryInv`). `PendingExact` is
`GpioSpec => []PendingIsRaised`, whose invariant says which bits the driver is about
to toggle. `LiteSafe` states all three of `LiteSpec`, the
specification that the run checks: the lemma before it only says that in the interleaving
each thread leaves alone what the other's driver sees.

**Only model-checked.** All liveness (`FiniteCallsReturn`, `FunctionsEnd`, `Returns`,
`CallsEnd` of both modules, `RecoverySucceeds`, `WalkEnds`), since it rests on fairness and
`ENABLED`, which the prover does not have. Every other property of a run is stated by
one of the theorems above.

## 5. Finding and observations

**Finding** (`MCFlashProgramHelp`). The help text of `fpgactl qspi program` says
"Erase, program, and byte-for-byte verify changed flash sectors"
(`fpgactl/src/cli.cpp:397`). The code verifies the *image range*
(`fpgactl/src/qspi.cpp:286`). If the image begins or ends inside a sector, the rest
of that sector was erased and programmed again too, and is not read back. On a
device that reports failures this is harmless (`SuccessIsExact`, proved). On the
device whose profile has `error_mask` 0, a program that fails silently there goes
unnoticed.

**Observations.** Where no text of the repository promises otherwise, or where it is
a matter of how a caller uses an object, the following are described and not
claimed as errors:

- `readC2H` throws a timeout when its deadline timer fires first, and returns zero
  when `poll` expires first (`xdma.cpp:431-443`, comment `xdma.h:133`). The timer is
  set before the poll, so the exception is the usual outcome.
- After an exception a `SpiNor`, `AxiMm2s` or `Axis2Mm` object should be discarded.
  A flash command that a still busy device drops is waited for all the same, with
  the earlier operation, and reported as done; beats of a broken DMA call stay in
  the stream. `fpgactl` never goes on after an exception. The modelled clients do
  the same, and open a new session.
- An `AxiQuadSpi::transfer` whose access throws leaves the core running and the
  flash selected until the next `transfer`, or the destructor.
  `OneCommandPerSelection` shows that the next one does no harm.
- With several cards, a warm boot goes to the card of the device index and the recovery
  after it to the card of `--bdf` (`fpgactl/src/qspi.cpp:305`).
- Post-reconfigure without `--bdf` waits for the saved address if there is one
  (`pcie.cpp:687`), so a card that comes back at another one is not found.
- `jtag program` without `--reload` reconfigures the card under its driver. In
  `Recovery` this is the action `Outside`, after which every command must still
  keep its promises.
- `setMrrs` writes Device Control whole from the value it read before, and compares only
  the MRRS field afterwards (`pcie.cpp:471-486`). A change of its other fields by another
  tool in between is undone unseen. `MrrsAsAsked` is therefore about a register
  that nobody else writes.
- An event on a channel that `clearInterrupts` has just found pending is cleared with
  the earlier one. The register has one bit per channel, so no code can tell.
- No command takes a lock. Every property assumes that one `fpgactl` uses a card
  at a time.

## 6. What is not modelled, and the plan

Not modelled:

- The other operations of `AxiGpio`: one access each, or a read and a write of a register
  that only software changes (`updateData`).
- `cli.cpp`, `main.cpp`: argument parsing, no state.
- The accesses of `XDMAUser`: an alignment check and one `pread` or `pwrite`. Their order
  is what the driver modules model.
- `board.cpp`, `xadc.cpp`, `device_dna.cpp`: reads and formatting.
- The rest of `common.cpp`: hashes, files and text.
- `src/.ci`, CMake files: packaging.
- Within modelled parts: the constructors' validation of their arguments, a failing `pthread_sigmask` (`xdma.cpp:113-118`,
  and in the destructor) or `sigtimedwait` in `drain`, `--expected-part`, `.bin` images (taken as they are),
  the arguments of openFPGALoader, several `fpgactl` processes at once, and what others do to
  the bus between two steps of one command (`Outside` is between commands).

The modules were built in the order of what a failure would cost: the flash update
with its driver and core, the deadline machinery under every stream call, the
recovery of the bus, the DMA path, the warm boot, then the image readers, child
processes and counters. What is left: the composition of the two flash modules
(`FlashProgram` over `NorApi`); two `fpgactl` processes on one bus or one flash; and
clients that go on with an object after an exception.
