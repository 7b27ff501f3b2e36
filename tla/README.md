# Cyclops-PRU: TLA+ models and proofs

The repository holds two things that run on a BeagleBone Black, a Linux
processor with two real-time co-processors (PRUs) that share memory with it:

* **C lib**: headers for PRU firmware and for Linux programs (ring buffer,
  clocks, register macros) and example programs, of which the time
  synchronisation programs are the serious ones;
* **Cyclops IDE**: a browser IDE for a small language that is compiled to PRU
  assembly in the browser, sent to the board, assembled, and run by a loader that
  prints what the PRU program prints.

This directory models the parts of them where two processors, processes or
threads meet, or where a counter's width matters. TLC checks the models on small
instances; TLAPS proves the central results for every value of the constants.
Every definition is read off the source; `PROJECT.json` names the lines.

## 1. Inventory

| Component | State | Operations | Meets | Hard about it | What makes it correct |
|---|---|---|---|---|---|
| Ring buffer, `nesl_pru_rbuffer.h` | `c`, `p`, 256 words, in shared RAM | write and read of 32 or 64 bits | one producer and one consumer on different processors, no lock | every access may interleave; wrap-around of a two-word value; exactly full, one odd word | it is a bounded FIFO of values; slots have one owner |
| PRU time, `nesl_pru_time.h` | `cycle_last`, `nsec`, `frac`, mask | init, read, adjust | IEP counter, firmware | counter rolls over; fraction carried; adjustment in the past of other reads; signed and unsigned | it is the ideal clock |
| IEP time, `nesl_pru_iep.h` | `ts_ns`, `last_iep_cnt`, `offset` | init, read, adjust | the same | the same, and 32-bit products | it is the ideal clock but for the tick of each rollover |
| `time_sync` program | rings, two interrupts, PTP device, thread positions | firmware loop, receive thread, send thread, main | PRU and three host threads | merged interrupts, clear before drain, unchecked errors, shutdown without join | no message lost or slept on, T2 belongs to its pulse, it ends |
| `pru_clock` program | the published timestamp, `last_ts`, the clock | endless loop, polling thread, send thread | PRU and host, whose clock may be set | a 64-bit time in two words; when to synchronise again; unsigned difference over a jump back | it follows the host, synchronises neither late nor for nothing, a poll sees a time that was current |
| `measure_time_sync` program | `ts_ready`, two timestamps, an edge count | firmware loop, two threads, main | PRU and host, a microcontroller that toggles two pins | unlocked `or` by two threads; falling edges told by parity | a row's times are of (nearly) the same edge; T2 is the pulse's own |
| Print channel, `compiler.js`, `grammar.tpl`, `pru_loader.c` | first words of the data RAM, stack | print, `PRINT`, `END`; poll, print, acknowledge | PRU program and loader | no lock, status word polled twice, written first; a killed loader leaves its program running, and the next clears RAM and stack under it | a print is a rendezvous; the line is its arguments; a new program is spared what the old one did |
| Cyclops compiler, `grammar.tpl`, `compiler.js` | register, label and pin tables, output buffer | one action for each grammar rule, `compile` | the browser; the emitted code runs on the PRU | side effects while alternatives are tried; temporary registers reused; blocks nested | the code does what the program says; labels resolve; a pin has one direction |
| IDE page, `editor.js` | the editors, the terminal, timers | compile, run, stop, clear, `update_terminal` | the routes, over requests that may be lost | the next request must be made whatever became of the last | lines shown once and in order; what is run is what was compiled |
| IDE server, `start.py`, `pru_process.py` | a manager's dictionary, a queue of lines, a child process | routes assemble, run, stop, out; worker loop | pages, two workers, child processes | two-step updates against get and clear; blocking reads; exceptions | what was posted runs once, in order, one at a time |
| `pin-pirate` module and `compile-pru.sh` | one mapping, one buffer; the directory `_tmp` | open, write, release; build, configure, assemble, load | the scripts of two workers | globals shared by openers; one build directory; a program pasm refuses ends the script half-way | a write uses a live mapping and its own numbers; the loader that runs is whole and the script's own |
| Pinmux web server, `web/` | registers, overlay in the slot, compiled overlay, forms | show, apply | browsers, cape manager, `pin-pirate` | forms of stale tables; commands that fail half-way | a changed pin, and no other, is written |
| Device headers, other examples (`iep_timer` among them), the demonstration `slew_cc`, reports, scripts, overlays, vendored code | | | | single-threaded, data, or third-party | not modelled |

How they interact: firmware and host exchange timestamps through two rings and
interrupts. The PRU reads T1 from its clock, pulses a pin, the PTP device captures
T2, the host's send thread puts T2 in a ring, the PRU adjusts by T2 - T1. In the
IDE the page compiles and posts assembly to the routes, which leave it in the
shared dictionary; the worker takes it and starts `compile-pru.sh`, which builds
the loader, writes the program's pin lines to `/dev/pinpirate`, assembles, and
starts the loader, which talks to the program through the print channel; the
worker pipes the child's lines to a queue that the page polls.

## 2. Modules

| Module | Models | Builds on |
|---|---|---|
| `RBuffer` | the ring: one action for each access to shared memory in each of the four calls | implements `BoundedFifo` |
| `RBufferProofs` | its theorems | |
| `PruTime` | `struct pru_time` and a client that synchronises | implements `IdealClock` |
| `IepTime` | `struct iep_time` and the same client | implements `IdealClock`, of fewer ticks |
| `TimeSync` | the program: firmware, two threads, main, interrupts and PTP device | rings as `BoundedFifo` has them |
| `TimeSyncProofs` | its theorems | |
| `PruClock` | the program: firmware with its clock, published time, two threads | EXTENDS `PruTime` |
| `PruClockProofs` | theorems about `PruTime`, and about `PruClock` from those | |
| `MeasureSync` | the program: firmware, microcontroller, two threads, main | rings as `BoundedFifo` has them, clock as `IepTime` |
| `MeasureSyncProofs` | theorems about `IepTime`, and about `MeasureSync` | |
| `PrintChannel` | print statement, `PRINT`, `END` and the loader | |
| `LoaderRestart` | loaders that are killed, and the start of the next | EXTENDS `PrintChannel` |
| `LoaderRestartProofs` | theorems about `PrintChannel`, and about `LoaderRestart` from those | |
| `Compiler` | the actions of the grammar, what their code computes, `compile` | |
| `CompilerProofs` | its theorems | |
| `IdeWorker` | the routes and the worker of one PRU | |
| `Ide` | page, compiler's buffer, network, server, output queue | EXTENDS `IdeWorker` |
| `IdeProofs` | theorems about `Ide` and the `IdeWorker` in it | |
| `PinPirate` | the scripts of both PRUs, the driver | |
| `Pinmux` | the pinmux server's routes, the overlay's way to the kernel | |
| `PinProofs` | theorems about `PinPirate`, and about `Pinmux` | |
| `MC*` | values of constants for TLC | |

The programs use a ring as whole timestamps with atomic puts and takes, which is
what `RBuffer` is proved to provide.

### Correspondence

*RBuffer.* `c`, `p` and `buffer` are the fields of the structure; `N` is
`RBUF_SIZE`. The locals of the producer (`p` and the words left to write) and of
the consumer are variables with a program counter each. A call is `CallWrite` or
`CallRead` (which loads the caller's own index), then one action for every load of
the other's index, for every load or store of a slot and for the store of its
own index; the early returns are `ReturnFull` and `ReturnEmpty`. Nothing else in
the functions touches shared memory. The 32-bit call is the same path with one
word and no second test.

*PruTime* and *IepTime.* `cnt` is the hardware counter, ticking modulo its width
between any two calls (a call's few instructions count as one moment: its only
shared access is one load of the counter). A 64-bit addition wraps modulo `U64`, a
32-bit product modulo `U32`. `ts_pru` is the caller's T1. `ticks` and `polled`
(and `offset` in `PruTime`) are history variables, which no action's guard but
the bound on `Tick` reads. In `IepTime` `MaxGap` bounds the ticks between two
reads: the product `IEP_CNT_TO_NS` is 32 bits wide, which at 5 ns a tick holds
4.29 s (`ReadAssumption`). A program that reads less often gets a wrong time; the
programs of the repository read in each turn of their loops, except that
`measure_time_sync` reads only at edges while it waits for the host.

*TimeSync.* `pru` is the firmware's position in `main`, `recv`, `send` and `main`
those of the host's threads. An interrupt is a flag, because events that are
pending merge. A T2 is named by the pulse it was captured for, a sent time by its
round, so a mix-up is visible. After `MainExit` the threads do nothing.

*PruClock.* The firmware's loop is `Decide` (read the clock, test
`ts - last_ts > SYNC_PERIOD_NS` in a `u64`), `Pulse`, then for each turn of the wait
`Await`, `ReadTime`, `StoreLo`, `StoreHi`, and `Adjust`; the clock is `PruTime`'s own
actions. The timestamp is stored and polled as two 32-bit words (the host loads a
`uint64_t` with two 32-bit accesses). The host's clock is the tick count plus an
offset that may be set; T2 is that clock at the pulse. `scenario` chooses what the
host does besides, which keeps independent troubles in separate behaviours.

*MeasureSync.* Edges of the input are numbered, the rising ones odd, and the time of
an edge is its number, so that "of the same edge" can be said. Each thread's
`ts_ready |= bit` is `LoadReady` and `StoreReady`, then `Compare`, `Reset`,
`LoadColumns` and `PrintRow` (`printf` evaluates the times for the columns and once
more for the difference). How far apart a row's times may be (`Apart`) depends on which
edges the host keeps: two edges if it keeps the rising ones like the PRU, one if it keeps the
falling ones. `SendReadFails` leaves `channel` with any value: the
local is read uninitialised when `read()` fails. `Toggle` is guarded by what the
125 ms between edges mean: the firmware, which polls every few microseconds, has
seen the level, and the threads have handled the edge before. During the
one-second pause before the firmware starts there is no such guard on the firmware.

*PrintChannel.* `ram` is the beginning of the data RAM. The PRU's `sbbo` and the
loader's loads and stores of it are separate actions. `early` is a history
variable: the lines the loader began to read before `PRINT` had stored its last
word.

*LoaderRestart.* `Kill` ends the loader at any of its steps; `Start`, `Memset` (a word a
step) and `Execute` are the next loader up to its loop, while the old program goes on
with `PrintChannel`'s steps. The `memset` clears all of the data RAM, so the stack (byte 1024)
of the program that still runs too: first the message area from the beginning, then the
words of the stack, in any order, because `CallPrint` makes a statement's pushes at once and
each of them may in the code come before or after the clearing of its word. An argc that was
cleared is popped as 0, and `PRINT_LOOP` (`sub`, then `qbne` against 0) counts down from 0,
which wraps: it pops the words that are left, goes on below the stack and stores what it
finds up the RAM (`PrintBelow`). The model follows such a program to the end of the message
area, which is all the loader reads, and leaves it there until it is stopped by `Execute`;
what it would store beyond, over the stack and as far as the other PRU's RAM, is not modelled.
`sent` and `output` are of the program and of the loader that
run now. A loader that has seen the end of a program disables the PRU. The runs check the
print channel in this module only: it has all of `PrintChannel`'s behaviours, those in which
nobody kills a loader.

*Pinmux.* The server is single-threaded, so a post's steps interleave with the kernel's
other clients but with no other request. `Select` reads the registers and keeps those
that differ from the form, `Unload`, `CompileOverlay` and `Load` are the calls that
follow, each of the last two with its failure. What a user does to a form is chosen when
it is posted. The kernel (external) configures an overlay's pins when the overlay enables
the PRU subsystem, and leaves registers alone when an overlay goes.

*Compiler.* There is no text: in each state the parser may read any construct the
grammar allows next, so the behaviours are all programs up to a size. The actions
of a PEG grammar run when a rule's operands have been read, in postfix order, and
have effects while an alternative is tried that is given up later: `Assignment` is
tried before every other statement and `Identifier` accepts keywords, so `print`,
`pulse`, `while` and `if` take a register each (`assign_reg(keyword)`). The
registers `R` hold what the emitted instructions leave in them, computed when an
instruction is emitted; `env`, `used` and `meant` hold what the program means. The
path that is followed falls through all branches, which is one path through
every program; branches are checked by their condition (`Jumps` against `Holds`) and
by their labels (`asm`). `throw` leaves the parser with the message as `pc`.

*IdeWorker* and *Ide.* `req` and `src` are `shared['req0']` and `shared['src0']`; every
`get` and assignment is a call to the manager process, hence atomic and a step. The
web server serves one request at a time; the route for the output takes lines one
`get_nowait` at a time. `worker = "dead"` is the end of the process by an uncaught
exception. Requests are sets of messages and may overtake one another; an answer
may be lost (`Fail`), and a request that is lost before it is served looks like an
empty answer that is. `compile` of the page is the compiler seen from outside: a
buffer that the grammar's initializer empties and that a throw leaves half full.

*PinPirate.* The scripts' steps are the commands of `compile-pru.sh`; `cp` and the
linker take two steps each, as another script can see their files half written. The
driver's calls are split at each access to the globals: `dev_open`, the two
characters `read_message` copies, its parse, the test of the bounds, `writeb`,
`dev_release`. A parse may fail when the text is mixed from two callers' numbers. `pasm` may
refuse any program, the compiler's own or one edited by hand: the script then exits, with the
pins configured and the loader not run (`AssembleFails`). The kernel module is taken to be
loaded; without `/dev/pinpirate` a script passes over its pin lines (`compile-pru.sh:19`).

### Memory and timing assumptions

Accesses to shared memory are taken to be sequentially consistent and whole for
16-bit indices and 32-bit words: the PRU does not reorder and the host's mapping
is uncached. The sources are neither `volatile` nor fenced, so this also means
builds that do not reorder accesses, such as the unoptimised ones of the
repository. The 64-bit globals that the threads of `measure_time_sync` share are taken as whole
too; on the 32-bit board each is two words. `call PRINT` leaves its return address in pasm's
default register, `r30.w0`, which is also where a PRU's output pins are: what that does to
the pins is not modelled. There are no real-time bounds in the models but the two named above
(`MaxGap`, `Toggle`): a delay (`WAIT_MS`, `sleep`) may be of any length. What holds here
therefore holds at any relative speed; what fails may be improbable on the real
board, and section 5 says where speed hides it.

## 3. Runs

Ten runs pass and two find a violation. With two workers the small ones end within
half a minute, `measure_sync`, `ide`, `print_channel` and `pru_clock` in one and a half to
two and a half minutes.

| Run | Configuration | Distinct states | Shows |
|---|---|---|---|
| `ring_mixed` | ring of 5, 32- and 64-bit calls, or 64-bit calls only | 581,000 | `SlotOwnership`, `OnlyWholeTimestamps`, `FifoSpec` |
| `iep_time` | 4-bit counter, 36 ticks, reads up to 3 ticks apart | 180,000 | `ClockButForRollovers` |
| `time_sync` | 6 rounds, 3 synchronisations, up to 2 failing reads | | `NoLostWakeup`, `LagIsErrors`, `NoMessageLost`, `Terminates` |
| `pru_clock` | counter of 3 values, 4-bit words, one setting of the host's clock or one failing read or polls | 1,390,000 | `ClockSpec`, `PolledIsWhole`, `SyncedToHost`, `EarlySyncsSettle`, `NeverLate`, `ContinuouslyUpdated` |
| `measure_sync` | 2 samples, 2 synchronisations, 2 edges before the start, 1 failing read | 516,000 | `RowsAreNeighbours`, `NoRowThrice`, `EventsAreSorted`, `Terminates` |
| `print_channel` | module `LoaderRestart`: 2 prints of up to 2 arguments for each program, 2 loaders killed | 984,000 | `StackStaysItsOwn`, `CleanStartPrintsAll`, `CleanReadsAreRight`, `OneGhostAtMost`, `NobodyIsStuck` |
| `compiler` | 2 variables, 3 pins, 2-bit words, 2 registers for variables and 3 temporary ones, programs of 4 statements and factors | 484,000 | `VariablesKept`, `EveryUseIsMeant`, `LabelsResolve`, `PinsAreConfigured` |
| `compiler_temps` | the same | | finding |
| `ide` | 1 page, 2 sources, 3 requests, 2 lines, patient and impatient users | 231,000 | `StartedInOrder`, `CompiledIsItsSource`, `LinesConserved`, `OneProgramAtATime`, `SourceIsTaken`, `PatientRunsAreInvoked`, `LinesAreShown` |
| `ide_stopped` | 3 requests, run or stop, patient clients | | finding |
| `pin_pirate` | 2 scripts of 2 lines each, numbers of two characters, 1 failing `ioremap` | 466,000 | `WritesAreInBounds`, `MappingsAreKept`, `PinsAreSet`, `LoaderIsExecuted` |
| `pinmux` | 3 pins of 2 configurations, 2 pages, 3 posts, 1 foreign write, 1 failure | 924,000 | `FormIsApplied`, `OthersAreKept` |

Why the bounds are enough:

* A ring of 5 words holds 4: a 64-bit call meets every relation of the two
  indices, including one odd word free and a pair across the end, and two whole
  timestamps are in flight. Values cycle through a small set, so the ring turns
  over without end and the state space is complete, not cut off. `OnlyWholeTimestamps`
  concerns the behaviours with 64-bit calls only, which `timestamps` selects. The
  proofs remove the bound on the ring's size.
* The counters roll over at least twice, reads happen at every spacing the guard
  allows, and adjustments go in both directions. `pru_time` is run as the clock of
  `pru_clock`, at that program's whole number of nanoseconds a tick (`shift` 0), so its
  remainder is always zero there; the proofs cover rates that leave one, as they do
  every counter width. `MaxTicks` is a bound on the run, and a constant with no upper
  limit in the proofs.
* Three synchronisations let a T2 be one and two pulses late, which two failing
  reads can do; six messages let interrupts merge several times. As in the
  program (30 rounds, room for 127 timestamps) a ring has room for all rounds
  (`RoundAssumption`); what a full ring does is the business of `RBuffer`.
* Six ticks of 5 ns against a period of 8 ns are three synchronisations: the first,
  one after a jump in either direction, and one that is due. The time passes
  multiples of a word's 16 values, so the high word changes under a poll.
* Two samples and two edges before the start give up to six edges: the threads can be
  a whole row apart, and the stale bit a lost row leaves meets a later edge. All
  interleavings of their unlocked steps are in the run.
* Two loaders killed let a program that began on a ghost of the first leave one to the
  third, and be killed at each access again.
* Three pins are two that are looked at and the last, which is not; three posts let an
  overlay of the first be met by a failure of the third.
* Two prints show a stale message of the first under the second, which
  is as far as the protocol looks back.
* Four statements and factors are enough for an expression of three operands and
  its statement, two nested blocks with a statement, an `if` with its `else`, or
  two prints in a row, with both kinds of registers running out.
* Three requests are one that runs, one that is pending and one that is
  being written or a stop. `Patience` says which users there are: patient ones
  post when the last source was taken and the worker is not about to take one.
  Two lines and answers of up to two give answers that are lost with lines in them,
  empty ones and full ones.
* Two lines in one script are an open after a release of the same script; texts of
  two characters that mix are other numbers, in bounds and out, and one line's
  offset is out of bounds by itself.

The proofs of the next section remove the bounds from every safety property and action
property of the runs that pass: each is stated by a theorem. The bounds matter for liveness
only.

Deadlock checking is off where the programs do come to an end or the bounds stop
them (`TimeSync`, `MeasureSync`, `LoaderRestart`, `Compiler`, `Ide`, `IdeWorker`,
`PinPirate`, `Pinmux`).

### Fairness

* `TimeSync`: weak fairness of the PRU (it executes as long as it is not halted),
  of each thread (the kernel schedules them) and of `Capture` (the pin is wired
  to the capture input; nothing in the code handles an edge that is lost). Failing
  reads have no fairness: they need not happen.
* `MeasureSync`: the same, and weak fairness of the microcontroller, which toggles
  its pins for ever. A read that fails is not fair, the run ends all the same.
* `PruClock`: weak fairness of the firmware only. `ContinuouslyUpdated` needs nothing
  of the host.
* `PrintChannel`: weak fairness of the instructions of `PRINT` and of the loader's
  loop, none of the program's own decision to print or to end; in `LoaderRestart` also of
  a loader's start once it has begun, but nobody need start one.
* `IdeWorker` and `Ide`: weak fairness of the server, of the worker's own steps, of
  the end of a child, i.e. liveness is claimed for programs that end, and of
  each page's event loop (timers fire, a request is answered or fails). Clicking and
  printing have none.
* The ring, the clocks, the compiler, `PinPirate` and `Pinmux` have safety properties only.

## 4. Proofs

Proved for every value of the constants that satisfies the named assumptions:

**RBufferProofs.** `TypeCorrect`, `SlotsOwned` (`SlotOwnership`), `RingIsFifo`
(`Spec => FifoSpec`: the ring, with every shared access a step, implements the
bounded queue), for every ring size `N`. The inductive invariant `IInv` is `TypeOK`
with `WriterInv` and `ReaderInv`. These say what each side knows between its steps:
after its test the producer's next slots lie outside the unread region and
hold, one by one, the words it has stored; the consumer's slots lie inside it and its
loaded words equal the queue's head. It is needed because a test is stale at once:
the other index may move, but only in the direction that makes the test
stay true. The refinement maps the queue to the words between the indices
(`Queue`), a put to the producer's store of `p` and a take to the consumer's store of
`c`, and every other step to a stutter. The arithmetic of positions around the
ring is a group of lemmas about `Between` and `Unread`. `TimestampsAreWhole`
(`OnlyWholeTimestamps`) adds `WholeInv`: where only 64-bit calls are made the queue the ring
stands for is at every moment a row of lower and upper words in pairs (`Paired`). A put of two
words and a take of two keep that; it is said of the refinement's queue, and no step between
the accesses of a call changes that queue.

**PruClockProofs**, first part: the clock by itself, as `PruTime` has it. `TypeCorrect`,
`ClockExact` (`Exact`) and `PruTimeIsIdeal` (`Spec => ClockSpec`), for every `MULT`, `SCALE`, counter width, start value and
set of host times, from the assumptions that a 64-bit word holds the products
and the times (`WidthAssumption`). `IInv` adds to `TypeOK` and `Exact` that the
counter is as far past `cycle_last` as ticks went by, once around at most
(`CounterInv`, which makes the masked difference exact and rests on the polling
duty the header documents), and that T1 lies between the last adjustment and now
(`SyncInv`, which keeps a jump back from passing zero). The module extends `PruClock`, but
these proofs cite none of that module's assumptions.

Second part: the program. `PruClockIsIdeal` (`ClockSpec`), `ClockFollowsHost`
(`SyncedToHost`), `PollsAreWhole` (`PolledIsWhole`), `EarlySyncsAreBounded`
(`EarlySyncsSettle`) and `SyncsAreNeverLate` (`NeverLate`, an action property) of
`PruClockSpec`, for every rate, counter width, word, period, and number of settings
of the host's clock and failing reads. `ClockAssumption` says what the program is: no shift
(`SCALE = 1`), a time in two words, and that a `u64` holds the period and all times. Every
step of the program is a step of the clock or leaves it alone (`ClockStep`), so the first
part's invariant holds. To it come `FlightInv` (unless a read has failed, the one answer to
a pulse is in the device, with the sender, in the ring or with the firmware, and there is
no other), `WordInv` (the two words in memory while they are stored and polled one by one),
`EarlyInv` (a synchronisation before its time is paid for by a jump of the clock since the
decision before, that by a pulse with another offset than the last, and that by a setting
of the host's clock) and `LateInv` (how far the last adjustment left the clock ahead of the
`last_ts` it will be compared with: if far behind, the unsigned difference makes the next
decision due, unless it is within a period below 2^64, and then it stays that).

**MeasureSyncProofs**, first part: of `IepTime`. `LagIsRollovers` (the count of nanoseconds is that of all ticks
but one for each turn of the counter) and `IepTimeIsIdealButForRollovers`
(`Spec => ClockButForRollovers`), for every rate, counter width and set of host
times, if the products of a read fit 32 bits (`ReadAssumption`) and the times 64
(`IepAssumption`). `IInv` is the type, `CounterInv` (the counter and its copy are
remainders of the ticks now and at the last read), the lag itself and `SyncInv`. The
lemma everything rests on is `TurnsBetween`: for reads less than a turn apart,
comparing the two remainders tells whether there was a rollover in between, and how
the quotients are related; the arithmetic is that of a symbolic divisor. A tick that
completes a turn of the counter maps to a stutter of the ideal clock, every other to
its tick.

Second part: `RowsPairNeighbours` (`RowsAreNeighbours`), `NoSampleThrice` (`NoRowThrice`) and
`EventsAreToldApart` (`EventsAreSorted`) of `MeasureSpec`, for any number of samples,
synchronisations and edges before the start, with no assumption on the constants. They hold as
long as no read of the device has failed, and so does the invariant, the types apart.
`DeviceInv` says which of the last edge and the last pulse wait in the device or with its
reader, in which order (an edge always comes first); `EdgesInv` what the reader's count `i` and
`last_host_ts` are in terms of the edges there have been and whether one waits, which is why
it keeps edges of one kind; `SamplesInv` the same of `last_pru_ts` and the ring. The lemma
`Distance` follows from the two: the times are within `Apart` of each other, and while the
host's is two edges ahead the receive thread has no time to deal with. `PulsesInv`
places the one answer that may be under way. `BitsInv` says that a bit, in `ts_ready` or
loaded from it, stands for a time that has been taken. `TwiceInv` counts for each sample its
rows and the threads that have loaded it for one (`Printed`): a thread that may still print
the last sample has not (`PastOnce`); when the receive thread has, its bit is gone, or the
host's thread is about to print and reset it (`BitIsGone`); and when the host's thread is an
edge ahead, it finds that bit only if the sample has been printed once at most (`AheadInv`).
None of the three is inductive without the others. Loads and stores of `ts_ready` are
separate steps throughout.

**TimeSyncProofs.** `NeverAsleep` (`NoLostWakeup`), `MessagesArrive` (`NoMessageLost`) and
`AnswersFit` (`LagIsErrors`), for every number of rounds, spacing of synchronisations and
number of failing reads, from `RoundAssumption` alone (a ring has room for all rounds).
`NoLostWakeup` is inductive by itself. `IInv` adds to the type that each queue follows
a numbering: printed and waiting messages count the rounds (`MessagesInv`), the PTP device's
captures and the edges on the wire count the pulses (`PulsesInv`), and the T2s used, in the
ring and in the sender's hand are each one that may fit its place (`AnswersInv`). The last
needs the count of what was ever put into the stream: that it is as long as pulses read
and errors together is true only until failing reads have filled the ring, and then
it is long enough that no T2 the ring drops would have been used.

**LoaderRestartProofs**, first part: of `PrintChannel`. `StackIsBalanced`
(`StackBalanced`), `PrintIsARendezvous` (`OneLinePerPrint`) and `LateLinesAreRight`
(`LateReadsAreRight`), for all values and any `MaxArgs` and number of prints. The models keep
message area and stack apart; in the code the stack begins at word 256, so what is proved is
about statements of up to some 250 arguments. `IInv` says where in `PRINT` the stack, the count and the
position are, in terms of the statement's arguments (`ProgramInv`: the arguments are stored
from the back of a stack they were pushed on backwards); what the status word means at
each point of the PRU (`RendezvousInv`: during a print it is 1 and unread or being read,
1 and printed, or 0 and printed); and that a line not read too soon is a prefix of the
arguments (`ReadingInv`). No part is inductive without the type, and the second is
what makes the third's words stable while they are read.

Second part: `StackStaysBalanced` (`StackStaysItsOwn`), `CleanStartsPrint`
(`CleanStartPrintsAll`), `CleanStartsRead` (`CleanReadsAreRight`) and `AtMostOneGhost`
(`OneGhostAtMost`) of `RestartSpec`, for any number of killed loaders. What holds of a
program left running cannot speak of the statement it is in, as the record of that goes with
its loader, nor of the words of its stack, which the next `memset` clears: `StackInv` bounds
the stack's depth at each point of `PRINT`, says that the argc on top is that of the words below
it or has been cleared, and lets a loop that popped a cleared one run below the stack.
`OwnInv` says that while a loader is at work on the program it has started no `memset` has met
that program's argc (`ArgcKept`): the two together are what keeps `PrintBelow` from any program
but one left running, and give `StackStaysItsOwn`. `Execute` establishes them anew because a
program starts by setting its stack pointer (`Begin`); that what it finds there does not
matter is the point. `RestartTypeOK` says that the word of the count in the RAM stays in range,
which is what a next loader reads. `CleanInv` is
`PrintChannel`'s invariant while a loader is at work on a program that started clean: every
step of such a pair is one of `PrintChannel` (`CleanStep`), and `Execute` on clear RAM
establishes it anew, whatever is on the stack. This is the first part's proof used as a
lemma. `GhostInv` is what is left when the RAM was not clear: how many lines the loader is
ahead of the program (`Extra`, 0 to 2), as told by the status word and by whether it
holds a message; a line of the program before is still to be taken, or has been taken and
never makes up for itself.

**PinProofs**, first part: of `PinPirate`. `NoWriteOutOfBounds` (`WritesAreInBounds`), `MappingsComeBack`
(`MappingsAreKept`), `PinsAreConfiguredAsSaid` (`PinsAreSet`) and `AloneTheLoaderRuns`
(`LoaderIsExecuted`), for any number of scripts, any lines and any number of failing opens.
`BoundsInv` says that the numbers a writer holds after the test are the ones it tested, though
the shared text changes; `MappingInv` that without an overlap the open files are at most one
and own the one mapping; `PinsInv` that the writer's numbers are those of its line and all
lines before it have set their registers; `LoaderInv` that a script nobody has crossed finds
its own files, at each command, whatever scripts before have left there and wherever `pasm`
has ended them. `PinsAreSet` excepts a register that two lines, of one script or of two, give
different values (`Undisputed`): the last write decides there, and the proof showed
that the exception is needed.

Second part: `FormsAreApplied` (`FormIsApplied`) and `OtherPinsAreKept` (`OthersAreKept`), both
action properties of `PinmuxSpec`, for any number of pins, configurations, pages, posts,
foreign writes and failing commands. A post's registers at its end are related to those its
form was made from by `ShownInv` (a register differs from what a page shows only if somebody
has written it since, and is marked), `PostInv` (while a post is answered the registers are as
its page showed them, those that it has not selected also as its form wants them, and what it
has selected has the form's values; marked pins excepted) and `OverlayInv` (what is loaded is
the overlay of this very post, unless its `dtc` has failed).

**IdeProofs.** Of `Ide` with any number of pages, sources and requests that overtake one
another: `StartsAreInOrder` (`StartedInOrder`), `OneAtATime` (`OneProgramAtATime`, an action
property), `WholeTranslations` (`CompiledIsItsSource`) and `NoLineLost` (`LinesConserved`).
`OrderInv` places the source in the dictionary and the one in the worker's hand after
everything started; `ChildInv` says at which of the worker's steps a child may be alive.
`LinesInv` has a part for each thing that must hold of the lines at once: a page has one
request under way at most (`PendingInv`), the queue is the lines printed last
(`QueueInv`), all others are in a place (`PlaceInv`) and in one only (`OnceInv`), and what is
on the way to a page is later than what it shows (`SortInv`). The order on a page rests on
`PendingInv`, and so on the flag in `update_terminal`. `NoneAssumption` says that no
request is the mark for "none".

**CompilerProofs.** `VariablesAreKept` (`VariablesKept`), `UsesAreMeant` (`EveryUseIsMeant`),
`PinsAreSaid` (`PinsAreConfigured`) and `LabelsAreResolved` (`LabelsResolve`), for any numbers
of registers, symbols, pins and words, and programs of any size. `RegisterAssumption` says that
`r2` to `r4` and the two ranges of registers do not overlap, `DataAssumption` that the
opcodes compute words. `ExpressionsInv` has the first two properties in it. Its parts are that
no two names share a register (`NamesInv`) and, of the operands that are read and
not yet used (`OperandsInv`), that each is worth what the program means in a register below
the next free temporary one; while a chain is combined the result's register lies above those
of all operands still to be used. That is what makes it safe to move an immediate to a
register that is not taken. `PinsInv` says that the table is the uses so far.
`LabelsInv` says which numbers have been drawn (`NumbersInv`: a block's label is emitted with
a number that its branch draws later, so between the two, and only there, the number of the
innermost block is one that nothing else may use), which labels an open block still owes
(`BlocksInv`), and that each branch has its label, or an open block will emit it, or it is the
one over an `else` without braces (`JumpsInv`).

**Only model-checked.** Liveness (`Terminates`, `ContinuouslyUpdated`, `NobodyIsStuck`,
`SourceIsTaken`, `PatientRunsAreInvoked`, `LinesAreShown`). Liveness under fairness and `ENABLED`, induction
over data by the library's higher-order theorems, and modules with RECURSIVE operators are
outside what the installed prover can do and stay with TLC; no module here declares a
RECURSIVE operator. Type invariants are stated as properties of the modules whose proofs
use them.

## 5. Where code, documents and expectations differ

Shown by a run that finds a violation:

1. Temporary registers outlive their statement unless it is an assignment
   (`grammar.tpl`, `compiler_temps`), while `README.md` says they are scoped to it. A
   program with enough print statements that use `tick` or an operator, without an
   assignment in between, is refused ("out of tmp registers").
2. Stopping a running program ends the IDE's worker with a `NameError`
   (`pru_process.py:16`, `ide_stopped`).

Stated by the properties that pass, which say exactly what is left:

3. `iep_get_time` loses one tick at each rollover (`UINT32_MAX - last + cnt` is one
   short, `nesl_pru_iep.h:47`): `ClockButForRollovers`.
4. `IEP_CNT_TO_NS` multiplies in 32 bits, so reads 4.29 s or more apart are wrong.
5. `time_sync` sends the 0 of a failed read as T2 (`host_main.c:74`), and from
   then on every T2 is used one pulse late. `LagIsErrors` bounds the damage.
   In `pru_clock` and `measure_time_sync` the same happens; their properties about
   the clock exclude failed reads (`errors = 0`).
6. `PRINT` publishes its status word before the message. On the board the PRU
   needs some tens of nanoseconds for the next store while the loader needs a bus
   access for each load and a `printf` for each argument, which is what makes it
   work; the protocol does not. `CleanReadsAreRight` is what holds.
7. `pru_clock` may synchronise once more than needed after a jump, as `last_ts` is a
   time from before the adjustment: `EarlySyncsSettle`. A poll that meets a
   change of the high word may see half of each time; `PolledIsWhole` is the rest.
8. The two threads of `measure_time_sync` may print a sample twice, lose a row, and from
   then on pair an edge with its neighbour, in either direction: a stale bit stays
   set. `RowsAreNeighbours` and `NoRowThrice` are what holds. If the input was high
   when capturing began, the host keeps the falling edges (`EventsAreSorted`).
9. A source that is posted between the worker's get and its assignment of `None`
   (`pru_process.py:26-28`) is erased and never run. `PatientRunsAreInvoked` is what a
   user who does not do so may rely on.
10. Two scripts that have `/dev/pinpirate` open at once share one mapping: the second
   open loses the first mapping, the first close unmaps the second's, and a write
   faults. They also mix each other's numbers. `MappingsAreKept` and `PinsAreSet` hold
   while they do not overlap, `WritesAreInBounds` always. Two scripts that build the
   loader at once may find it half written; one that is alone, and whose program `pasm`
   accepts, executes the one it has built (`LoaderIsExecuted`).
11. Eight pins of PRU 1 have offsets (0xa00 to 0xbc0) beyond the 0x238 bytes the driver
   maps; it passes over them in silence, so these pins stay unconfigured.
12. A program whose loader was killed is released by the next loader's `memset` and may
   print, or end, before that loader stops it. The new program then shows a line that
   is not its own, or loses one, or is stopped at once: `CleanStartPrintsAll` and
   `OneGhostAtMost`. If the `memset` meets it between the push of a print's argc and its pop
   the old program runs away and overwrites RAM until it is stopped; how far it gets, in
   its own RAM or the other PRU's, depends on the time between the two calls. The new
   program's stack does not suffer from it (`StackStaysItsOwn`).
13. The pinmux form is compared with the registers at the time of the post, so an old form
   sets back what was changed since (`FormIsApplied`, `OthersAreKept` except those pins);
   `range(1, 46)` leaves out `P8_46`; a `dtc` that fails is not noticed and brings the pins
   of the overlay before back; a failing load leaves the PRU subsystem off; pins chosen
   while it is off are not configured.

Of the compiler, outside its properties or part of their statement: the keywords
`while`, `if`, `print` and `pulse` use up a variable's register each on first use; an
`else` without braces (and so `else if`) has a branch to a label
`COND_n_ELSE_END` that is never defined, which is why `LabelsResolve` excepts it;
`while (P8_45 == 0)` is a syntax error, because a condition that begins with a pin is
read as the pin alone; names that begin with `tick` are read as the cycle
counter; a variable called `constructor` is found in the table's prototype;
immediates above 255 are refused by the assembler, not by the compiler (`AssembleFails` of
`PinPirate` is what becomes of such a program); `pulse`
waits on the absolute value of the counter; a pin that either PRU can drive is
one bit of `r30` for both.

## 6. Plan

All modules of section 2 are written, and every safety and action property of the runs that
pass is proved. What could still be added are the small sequential parts: `iep_timer`,
`measure_time_sync`'s report and the macros of the ADC.

## 7. Not modelled, and why

Vendored code (ace, peg.js, jQuery, bottle); data, images, overlays and
installation scripts; register macros beyond the counter; start-up of the drivers
(`prussdrv`, PTP `ioctl`s), which happens before anything concurrent; formatting of
what is printed. The demonstration `slew_cc` of two firmwares is not modelled because neither
passes it to `init_pru_time`; were it passed, `SET_IEP_COMP_INC`, which ors its value into
the register (`nesl_pru_iep.h:18`), would keep the increment of an earlier call. Of the JavaScript in the repository all but `static/compiler.js` and
`static/editor.js` (169 of 28,309 lines) is the vendored editor, its language modes
and themes, and the parser generator; the program's own logic is in C, Python, a
shell script and the grammar, which is a template, and that is what the models
translate. What could go wrong and no property covers is among the hazards of
`PROJECT.json`, with a note.
