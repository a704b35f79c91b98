# microcode: verification

The repository is a set of bare-metal programs for multi-core ARMv8 test chips:
each directory is one image that boots on the chip (or its FPGA) and exercises
one part of it: software generated interrupts, routing of peripheral
interrupts, LPIs through an ITS, UART, MMU, DRAM, on-chip memory. There is no
operating system. What is shared is shared through plain globals, a few
hardware spin-lock registers and the interrupt controller, and what can go wrong
is in the order of the cores' steps. This directory holds TLA+ models of those
programs, TLC configurations that check them, and TLAPS proofs.

## Inventory

| Program | State | Operations | Interacts through |
|---|---|---|---|
| `fy13sgi` | `cpu_wait_flag`, two lock registers, GIC registers | `main`, `secondary_cpu_entry`, `read_`/`write_cpu_wait_flag`, `interrupt_callback` | locks, flag word, SGI0, console |
| `fy13gic_c` | `cpu_status[]`, `interrupt_callback_count`, table of `irq.c`, GIC routing, timer and GPIO blocks | `main`, `secondary_entry`, `request_irq`, `gic_set_affinity`, `do_irqs`, `timer_callback`, `gpio_callback` | shared array, interrupts, console |
| console (a copy in most programs) | lock register, transmitter | `mprintf`, `m_putchar`, `uart_init` | one UART for all cores |
| `memtester_c` | `meminfo`, tested memory, `it`, `mod` | `test_entry`, 15 tests, `compare_regions`, `rand` | globals without a lock |
| `fy12b_gicv3/lpi_test` | ITS command ring, device and collection tables, LPI tables | `setupIts`, `genLpi`, `itsCmdWrite`, main loop | memory read by the ITS, doorbell writes |
| `uart_c` | UART registers, interrupt controller registers | `echo_test`, `intr_test`, `irq_return`, `gic_init_secure`, `request_irq` | the line, UART interrupts |
| `mmu_c`, `mmu_s`, `main` of `memtester_c` | register list, translation tables | `dram_init`, `mmu_start`, `mmu_table_map`, `mmu_enable`, `mc_memcpy` | hardware registers, page walker |
| `fy13spi` | GPIO and GIC registers | `main`, callback | one GPIO interrupt on one core |
| `app/bin2hex` | none (a filter) | `main` | files |
| boot code (`start.S`, `smp_s.S`, `exceptions.S`) | bss, stacks, exception level, vectors | `_start`, secondary start, `_do_irq` | reset release register |
| `main_c`, `asm_s`, `rom_s`, `myko`, `script` | - | samples, debugger scripts | - |

Behaviours that are hard to test:

- *Rendezvous*: the cores count themselves into one word by a load and a store;
  whoever sees the word complete sends the interrupt. It matters who reads
  last, and that a counted core can take the interrupt.
- *Hand-over by interrupt*: the callback count in `fy13gic_c` has no lock. It
  is safe only because one level interrupt is routed to one core at a time, its
  device is stopped first and started last.
- *Handlers that print*: every interrupt handler takes the console lock, which
  the task it interrupted may hold.
- *Globals as arguments*: `test_entry` of the memory tester passes its own
  argument through a global that all cores write.
- *The last character*: a lock released while the transmitter is still busy.
- *Cause and character*: the handler of `uart_c` reads the cause of the
  interrupt and then the receiver, and characters arrive in between; it reads
  two of four causes away and leaves the others pending.
- *Tables on their way*: translation tables are stored, and the MMU is enabled
  without waiting for the stores; in `mmu_c` the memory for them has to be
  brought up first by a list of register writes and waits.

What makes each component correct: in `fy13sgi`, locks exclude, no count is
lost, a last reader sees every secondary, an SGI that is sent reaches all; in
`fy13gic_c`, each core is served exactly once and in order, no interrupt is lost, all
wait until core 0 has seen them, and nobody waits for itself; on the console,
lines do not mix and no character is lost; in the memory tester, good memory is
never reported as bad; for the ITS, every triggered event has a mapping that
the ITS has read; in `uart_c`, every character that arrives and is not overrun
is sent back once and in order, a reported receiver interrupt is a character's,
and no interrupt is pending for ever; for the MMU, the DRAM is trained before the
tables are stored in it, and the tables translate each address that is meant to
be used to itself and no other.

## Modules

| Module | Models | Checked by |
|---|---|---|
| `SgiRendezvous` | `fy13sgi`, all of it | runs `sgi_rendezvous`, `sgi_lost`, `sgi_console_deadlock` |
| `SgiRendezvous_proofs` | theorems about it | TLAPS |
| `SpiRouting` | `fy13gic_c`, all of it | runs `routing`, `routing_gpio_deadlock` |
| `SpiRouting_proofs` | theorems about it | TLAPS |
| `Console`, `MCConsole` | `mprintf` over lock and transmitter | run `console` |
| `Console_proofs`, `MemTester_proofs` | theorems about these | TLAPS |
| `LineLog` | what `mprintf` promises: whole lines | refined by `Console`, TLC and TLAPS |
| `MemTester`, `MCMemTester` | `test_entry` and the tests | runs `memtester_*` |
| `Rand` | `rand` of the memory tester | run `rand_index` |
| `ItsQueue`, `MCItsQueue` | `lpi_test`: set-up, command ring, events | run `its_queue` |
| `CommandChannel` | what the ring promises: a channel of command groups | refined by `ItsQueue`, TLC and TLAPS |
| `ItsQueue_proofs` | theorems about it | TLAPS |
| `UartIrq` | `uart_c`, all of it | run `uart` |
| `UartIrq_proofs` | theorems about it | TLAPS |
| `DramInit` | `dram_init` of `mmu_c`, its list, and the controller that answers | run `mmu`, in `MmuCopy` |
| `PageTables` | `mmus.S`, `asm.S` of `mmu_s`, `mmu_table_map`; the walk | run `mmu`, in `MmuCopy` |
| `MmuCopy` | `main` of `mmu_c`, `mmu_s` and the start of `memtester_c` on top of these two | run `mmu` |
| `MmuDram_proofs` | theorems about the list of `dram_init` | TLAPS |
| `MmuCopy_proofs` | theorems about the tables, their use and the copies; extends it | TLAPS |

A state is the shared memory, the registers of the devices, and for each core a
program counter: `pc` for its task and, where interrupts are taken, `handler`
for the interrupt handler that suspends the task. A step is one access to shared state (a
lock register, a global, a GIC or device register) or a stretch of code without
one. Operators carry the names of the functions they model; a mutant
(`..._Mutant` and the like) before an operator is a faulty variant of it with
which the corresponding property fails.

**SgiRendezvous.** `cpu_wait_flag` is the set of cores whose bit is 1. The `|=`
is `WriteLoad` and `WriteStore` between `WriteLock` and `WriteUnlock`. A lock
register reads 0 for the reader that takes it and 1 for everybody else, so a
spinning core is one whose lock action is disabled. `mprintf` is two steps, the
lock and the unlock; what lies between is `Console`'s subject. `SendSgi` reads the flag
again without the lock, as main.c 188 does. `gicr_init` tells the redistributor to wake
up (`redist`) and goes on, as main.c 70-81 does not poll GICR_WAKER; the redistributor is
awake (`awake`) some time later, by the external action `Wake`. An SGI sent to one that
is enabled and still asleep stays pending there. The architecture leaves writes to the
CPU interface open while the redistributor sleeps; the model has them take effect. The
interrupt path is `TakeInterrupt`, `AckInterrupt`, `CallbackBegin`, `CallbackEnd`, and the task
of the core does not move meanwhile.

**SpiRouting.** All of `main`, `secondary_entry`, the loop of `gic_handle_irq`
and both callbacks. `Said` and `HandlerSaid` list the printing statements and
what follows them. `Scan` looks at one entry of `cpu_status` per step. A device
that is on asserts its level interrupt at some time (`Fire`) and until it is
switched off. The register steps inside `gic_set_affinity` are one step: at
each call the device is off. Cores are numbers because the code computes with them.

**Console.** One poll and one write per character. The transmitter is a
register that empties on its own; a write to a full one overwrites. `LineLog`
has one variable, the text, and one action, which appends the whole line of a
call. The refinement maps the text to what has been written by calls that have
released the lock, in the order of the unlocks.

**MemTester.** Two halves of a region per core, `COUNT` words of `WIDTH` bits
each. A test is its operation and its number of passes; the bit patterns of the
filling tests are any word. `Or` is the bitwise or from the lowest bit, a recursive
function over the width; `MCMemTester` compares it with a definition bit by bit
(`OrIsBitwise`). Loads and stores of the two halves are separate
steps, and so are the write and the two reads of `meminfo.mem_base`, since the
makefile compiles without optimisation.

**ItsQueue.** The chip is a constant of the run: a record that says whether the
distributor identifies itself, what the redistributor frames are, and whether
LPIs are supported. A step of the core is a write the hardware can see, or a
poll; the statements up to the wake-up of the redistributor are one step, since nothing
can see them apart; the pending write of GICD_CTLR that main.c polls for among them
is taken to end. The ring is a function from slots to commands; slots that
were never written hold what the memory held before it was cleared. The pointer of
the core, `CWRITER` and `CREADR` are slots. The ITS executes a command when it
likes; its errors are ignored and a repeated MAPD may drop the events of the
device. `CommandChannel` is a queue into which the four commands of an LPI
enter together; the refinement maps it to the slots from `CREADR` to `CWRITER`.
The handler is one step, since it shares nothing with the code it interrupts.
Left out: the change of exception level (interrupts are masked and none can be
pending), `genSgi` and `axisChk` (not compiled in).

**UartIrq.** `test` is the build's `TEST_TYPE`. One step is one access to a
register of the UART or the interrupt controller. The registers of the
controller are a record `gic` with what decides whether an interrupt comes
through: groups, enables, the redistributor's sleep, the CPU interface, the
mask of the core. `fiq` is the signal, which follows the level of the UART
later (`Forward`), so the core may take an interrupt whose cause is gone. The
UART has a receiver and a transmitter with and without FIFO, latched causes
`err`, `thri` and `msi`, and an IIR that names the first of those enabled.
`CharTime` is one character on the line in each direction: both have the same rate, the
only thing that keeps the echo from writing over a character. Characters are numbered;
the histories count what arrived, was lost to an overrun, was sent, was taken
by the handler and was reported. Left out: flow control (`MCR` is set last),
the receive timeout, busy detection, pin set-up; the line is quiet until the
UART has its parameters.

**DramInit, PageTables, MmuCopy.** `MmuCopy` declares the variables and
instantiates the other two; `image` says which program runs. `DramInit` has the list of
571 entries: each entry for a register that starts, resets or reports something, with the bits
it changes, also where it stands among parameters (`SetUp`, `Release`); the stretches of
other parameters (timings, delays, address maps) as one item that counts
for its entries, so that the loop's counter is that of the code. A wait entry
loses its mark (`UnmarkEntry`) and is polled. `Due` says when controller and PHY
answer: what was started, out of reset. The parameters start the DFI and the controller
before the reset is released, so these two may answer before the list starts them again and waits.
`Trained` says what the list leaves: PLL locked, every step answered and switched
off, `c_180` with its three parameter bits. `PageTables` stores every
word that the three programs store, in their order, through a buffer that
memory drains (`Drain`); nothing the code does waits for it. A loop of stores is one
step (`StoreLoop`), as no one looks at the tables before the MMU is on: the stores before
it and most of its own have arrived after it, any number of its last ones up to
`DEPTH` is still on the way. The pages start with the fill of
the image, or in DRAM with words that would translate, so that clearing them
matters. `Walk` is the MMU's walk as `ttbr0`, `tcr` and `mair` set it
up. Addresses are counted in pages of 4 KB and blocks of 2 MB. In `MmuCopy` stores to
memory that is not trained are lost, the accesses after `mmu_enable` go through
`Walk` in the order of the code, first the fetch of the next instruction, and
`mc_memcpy` copies a word at a time.

**Rand.** Each load and store of the two statics is a step. Its results enter
`MemTester` as "any word".

## Runs

| Run | Instance | Shows |
|---|---|---|
| `sgi_rendezvous` | a master, two secondaries | type, mutual exclusion of both locks for tasks and handlers, no lost count (`FlagExact`), the flag principle (`MasksOrdered`), `LastReaderSeesAll`, a counted core waits for nothing but its redistributor's wake-up and keeps an SGI that was sent (`CountedCoresAreArmed`), the SGI goes to all; liveness: a master that registers before the last read gets it sent, and with one sender every core wakes |
| `sgi_lost` | same | *violated*: the SGI is not always sent |
| `sgi_console_deadlock` | same | *violated*: a sent SGI does not always wake all |
| `routing` | three cores, timer, two GPIO blocks | see below |
| `routing_gpio_deadlock` | same, GPIO at any time | *violated*: the GPIO test does not always end |
| `console` | two cores, two calls each, a message with and one without a line feed | mutual exclusion, no overrun, refinement of `LineLog`, every call returns |
| `memtester_cores` | two cores, three tests (a fill of two passes, a division, an exclusive or), two one-bit words per half | who tests where, who can fail, and that testing goes on |
| `memtester_false_fail` | as `memtester_cores` | *violated*: sound memory can fail |
| `its_queue` | eight chips with one to three frames, four LPIs, two polls | a failure at any step leaves the loop of `main` without effect, and commands are sent only when everything an LPI passes is set up (`FailureIsSilent`), mapped LPIs are enabled (`MappedAreEnabled`), refinement of `CommandChannel` (`RingIsChannel`); liveness: LPIs keep coming, in the end only the last of the four |
| `rand_index` | one core | *violated*: the index leaves the table |
| `uart` | both tests, three characters good or bad, one modem change, FIFOs of two | what has arrived is, in order, what was sent, what waits in TX, what the core holds and what waits in RX, without the overruns (`EchoIsComplete`), a digit 4 belongs to a character (`ReportIsEarned`); liveness: the handler comes to rest unless a line or modem status stays or nothing was found (`Settles`), no character stays unread (`ReceiverIsServed`) |
| `mmu` | three programs, all entries of their tables, all of the list, three stores on their way, two copies of three words | the DRAM is trained before the tables are stored (`DramIsTrained`), each block of the address space is mapped as meant (`MapIsRight`), an access faults only for a late entry of the root in `memtester_c` (`FaultOnlyOnLateRoot`); liveness: the programs end, the copy is made and nothing else written (`Finishes`) |

`routing` checks that one callback at a time uses the count and is the core it
counts, and that the count is not moved on before it is read again
(`OneCallbackAtATime`), that the timer is only started for a core that can
take its interrupt (`TimerHasATarget`), that no interrupt comes before its
handler (`NoInterruptDropped`), that the scans are right though not atomic and
though idle loops write the entries they read (`ScanIsExact`), that
cores are served once each and in order (`ServedInOrder`), and that all cores
take the SGI (`EveryCoreWakes`), for which the routing test has to end and no
handler may wait for its own task.

### Bounds

Two secondaries are enough for one to be ahead of the other and for both to see the
complete mask, the two cases the rendezvous distinguishes; the safety
properties are proved for any number. Three cores have a
first, a middle and a last one in the routing chain. Two cores and two calls
make each lock hand-over happen, with and without a character in the
transmitter; `MAX_CALLS` bounds the line. Two words per half exercise the
loops, two cores race for each half, the passes of a test are cut to two; what
the memory holds before does not matter, since the first test fills it
(`memtests[1].op = "fill"` is an assumption). `rand`'s counter matters only in bit 1, so any power of two from
four up stands for 2^64 (`MODULUS`). `INT_NUM` is that of the code; it matters, since with five LPIs the
pointer would wrap in the middle of the ring. Two frames and two polls (`POLLS`) distinguish
own, foreign, missing and surplus frames and a wake-up in and out of time. Three characters
(`MaxChars`) fill FIFOs of two and overrun them; the counts of `UartIrq` are
histories and bounded by them. The tables of `mmu` have their full size. Three
stores on their way (`DEPTH`) are enough for the one that matters, the last; the proofs
cover any number below 128, the shortest loop. Copies are two instead of 1001 (`COPIES`)
of three words instead of 38400 (`SIZE`): a word is copied like any other. Deadlock checking is off where the programs end in
their idle loops.

### Assumptions

- *Fairness*: weak, per core, for its task and for its handler: a core that can
  execute does. A spinning core is not promised the lock; in `Console` and in
  the runs it gets it because the others make finitely many calls. A device
  that is on raises its interrupt, and the UART sends. In `UartIrq` the line
  and the modem need not move; the interrupt controller follows. In `SgiRendezvous`,
  `ItsQueue` and `UartIrq` a redistributor that is told to wake up does. In `MmuCopy` the DRAM controller answers what is due and
  stores arrive.
- *Memory*: sequentially consistent. The cores of `fy13sgi` and `fy13gic_c` run with
  the MMU off; for the tester only coherence of single locations is used by
  `LastWriterKeepsRegion`. In `PageTables` stores arrive in order but late, as
  with the MMU off all data accesses are to device memory; the walks are
  not cached, since no entry in use is changed after the MMU is on.
- *DRAM training*: each step that is started is answered, once, and the PLL locks; the
  first two answers, started by the parameters already, may come before the list starts
  them again; `mmu_s` and
  `memtester_c` run in memory that works.
- `SlowTimer`: the timer, loaded with 0xffff ticks, does not expire within the
  two instructions between its start and the comparison after it. Without it the
  next core may move the count on and core 0 waits for a status that only its
  own task sets.
- `PromptGpio`: a GPIO interrupt is taken before `main` reaches its next line.
  `routing_gpio_deadlock` drops it.

## Disagreements found

- `fy13sgi/main.c` releases the secondaries before the master registers. If
  the master is last, no core reads the complete mask and nobody sends.
- Two secondaries of `fy13sgi` may both see the complete mask. The SGI of one
  interrupts the other inside `mprintf`, and its handler spins on the lock its
  own task holds. The GPIO test of `fy13gic_c` has the same shape.
- Cores of the memory tester that enter `test_entry` together can end up in the same
  region, leave another untested and report failures of sound memory.
- `rand` masks with the length of its table; index 2 of two words is read.

Not stated as a run: the table of the memory tester has `test_bitspread_comparison`
under the name "Bit Flip" (`iram_test.c` 19), and `test_sub_comparison` is an
exclusive or. All LPIs of `lpi_test` are mapped to event 10 (`main.c` 325) while the loop at
464 triggers 10 to 13: `OnlyLastKeepsComing` says what comes of it.
In `uart_c` the handler reads neither LSR nor MSR, so a line error or a modem
change interrupts for ever, and an interrupt is ended before its cause is
cleared, so that a second one may find none and send a digit whose end is the
next interrupt: the second and third disjunct of `Settles`. In `memtester_c` the
entry of the root is the last store before `mmu_enable`, and `mmus.S` 131, whose
comment says "invalidate all dcache", invalidates instruction caches: nothing
makes the store arrive first. Comments in `mmus.S` of `mmu_c` give values the code
does not store (`x1` 1003 at 28, stored is 1002; `x7` 0x411 at 74, stored is
0x401: `MapIsRight` follows the code). `mmu_c` overwrites its own word at 0x100
(`mmus.S` 108-110) and the marks in its list, so a restart needs the image
loaded again. `fy13spi/main.c` 158-161 reads a clock register at APB + 4 and writes the result to
APB + 0. `main` of `memtester_c` prints before it sets up the UART (218-219).

## Proofs

`SgiRendezvous_proofs` proves, for every finite set of cores, from
`CpuAssumption` alone (the master is one of the cores):

| Theorem | Statement |
|---|---|
| `TypeCorrect` | `Spec => []TypeOK` |
| `LocksExclusive` | `Spec => []LockOwnership` |
| `NoLostRegistration` | `Spec => []FlagExact` |
| `FlagPrinciple` | `Spec => []MasksOrdered` |
| `LastReader` | `Spec => []LastReaderSeesAll` |
| `CountedAreArmed` | `Spec => []CountedCoresAreArmed` |
| `SendIsComplete` | `Spec => SendReachesAll` |

The argument goes through `IInv`. Mutual exclusion is inductive by itself. That
no count is lost needs `LoadIsCurrent`: between its load and its store a core
holds the lock, so what it loaded is still the word. The flag principle needs
`MasksAreOld`: the word only grows, so a mask that was read is a part of it, and a
later reader gets a superset. `LastReaderSeesAll` follows when the last
secondary reads, since by `FlagExact` all are in the word. `ArmedInOrder` says
which registers of a core are set from which statement on, `ReleasedInOrder` that the
distributor is on before a secondary runs; with `FlagExact` they give the first part of
`CountedCoresAreArmed`. `SgiKept` is the second: an SGI that was sent is on each core pending, in
its handler or served, whether or not the redistributor was awake when it came. `FullBeforeSend` and these two make the unlocked second
read in `SendSgi` the full set. Each conjunct has a lemma with one step per
action of a core (`StepOf`), and `Inductive` combines them.

`SpiRouting_proofs` proves, for any number of cores from two on (`RoutingAssumption`)
and under `SlowTimer`, without which the first of them is false:

| Theorem | Statement |
|---|---|
| `TypeCorrect` | `Spec => []TypeOK` |
| `CallbacksAlone` | `Spec => []OneCallbackAtATime` |
| `TargetExists` | `Spec => []TimerHasATarget` |
| `NothingDropped` | `Spec => []NoInterruptDropped` |
| `ScansAreExact` | `Spec => []ScanIsExact` |
| `AscendingService` | `Spec => ServedInOrder` |

No lock guards the count of callbacks; its invariant follows the timer. While
the timer runs, no callback is past its stop but one that has just restarted
it (`RunningIsAlone`), and its route is the count. A core that has acknowledged it is the
target, and the interrupt stays asserted until that core stops the device
(`TargetHasIt`), so no second core gets in. Every target is armed: a core
whose status is not OFFLINE is, and the scan collects them below its index
(`StartedAreArmed`). `EnabledAreRegistered` says which requests main has made,
and gives `NothingDropped`.

The other two rest on a second invariant, `ServiceInv`. `ServedIsCount` ties the
number of times each core was served to the count, and so gives
`AscendingService`. A scan is not atomic: `ScanSoFar` says that what it has
passed is still as it was seen. It is, because the only core that could change a
passed entry is waiting: `AliveIsServed` keeps every ALIVE core inside its
callback until core 0 is IDLE, and `NoneIdles` keeps the idle loops from writing
before core 0 is ALIVE.

`Console_proofs` proves, for every set of cores and messages and any number of
calls, from `ConsoleAssumption` (a message is a sequence of characters):

| Theorem | Statement |
|---|---|
| `TypeCorrect` | `Spec => []TypeOK` |
| `OnePrinter` | `Spec => []Exclusive` |
| `NothingOverwritten` | `Spec => []NoOverrun` |
| `LinesAreWhole` | `Spec => WholeLines`: `Console` implements `LineLog` |

Exclusion needs that between a core's poll and its write the transmitter stays
empty, which holds because no other core is inside. For the refinement, `LogInv`
says that what has been written is the text of the calls that have returned
followed by the first part of the owner's line, and that the rest of the line is what
the owner still has to print; so the text grows at unlocks only, by a whole
line. It needs what the printing of a message yields (`Printed`, a recursive function),
that it distributes over what is printed and what is left. That is an
induction over the length: `SetInduction` states induction for one set of numbers, from the
well-foundedness of `<`, and is applied to the set of lengths for which the equation
holds.

`MemTester_proofs` proves, from `MemTesterAssumption`, for any number of cores,
words and tests:

| Theorem | Statement |
|---|---|
| `RaceOutcome` | `Spec => []LastWriterKeepsRegion` |
| `AloneIsSafe` | `Spec => []AloneNeverFails` |
| `TypeCorrect` | `Spec => []TypeOK` |

For the first, all actions after the set-up
leave `meminfo` and the buffers alone (`StepKinds`), so only `SetBase`, `GetBufA`
and `GetBufB` matter; the invariant says what the current writer of
`mem_base` has read back so far. For the second, `Good` says at each statement
how far the two halves of a core are equal: up to the word in hand while filling, all but
the word in hand between the two stores of an operation, wholly otherwise;
`AloneIsGood` claims it for a core that shares no half, which stays so since a core
keeps its halves. What `Operate` computes does not matter: the same operation is
applied to equal words.

It does for the third, which says that each of the operations makes a word of
words. The invariant adds that a core at the statements of an operation never has
a filling test in hand, for which `Operate` has no value. `PowerIs` and `OrIs` give the
equations of the two recursive functions (`Recursion`: a function with such an
equation exists); the or of two words of k bits lies below `Power[k]` and between the
larger word and the sum of the two (`OrBetween`, by induction over k), which bounds the
and and the exclusive or as well. Quotient and remainder are bounded by their operands.

`ItsQueue_proofs` proves, from `ItsAssumption` (of the frames exactly the final
one is marked as last, and one is the core's own), for any chip:

| Theorem | Statement |
|---|---|
| `TypeCorrect` | `Spec => []TypeOK` |
| `EnabledBeforeMapped` | `Spec => []MappedAreEnabled` |
| `SilentFailure` | `Spec => []FailureIsSilent` |
| `RingRefines` | `4 * INT_NUM <= Wrap` gives `Spec => RingIsChannel`: the ring implements `CommandChannel` |

The ITS may read a slot at
any time, so the invariant of the second is about the whole ring: every command in it that
maps names an enabled LPI, which holds since the memory was cleared and
the byte is written before the commands. `SetUpInv` follows the set-up statement by
statement: what has been found and set up if `ret` is still true, and that
nothing was sent and nothing can come (`Silence`) before the first command and for ever after a
failure. The first three hold for any number of LPIs. The
refinement holds only while the commands of all LPIs end before the wrap of the pointer;
the code's `INT_NUM` is 4 and its wrap is at 16 commands, the largest number for
which the hypothesis is true. With five, the pointer would go back to 0 in the middle of a ring whose size the ITS
takes to be 128, and it would read the stale slots in between. `RingInv` says
where the commands of the current LPI lie; that the channel maps to the
slots from `CREADR` to `CWRITER` needs that a write goes to neither of them.

`UartIrq_proofs` proves, from `UartAssumption`, for any FIFOs of two characters or
more and any traffic:

| Theorem | Statement |
|---|---|
| `TypeCorrect` | `Spec => []TypeOK` |
| `DigitsAreEarned` | `Spec => []ReportIsEarned` |
| `EchoLosesNothing` | `Spec => []EchoIsComplete` |

For the digits the invariant adds two facts: once
the handler has read the cause "receiver data" the receiver stays filled until
the handler reads it, since the task that could clear it is suspended and
arrivals only add or replace; and a report that is still to be sent has already
been paid for by a character. For the echo (`EchoInv`), the numbers sent, in
TX, in hand and in RX, in this order, are increasing and miss the overruns only. That no
character is written over in TX follows from a count: as a character leaves while one
arrives, there are never more than two on the way (`AtEcho`), so there is room for
the one in hand. `TypeCorrect` bounds TX in the same way, and the histories by
"a character that was taken is no longer in the receiver" (`Receives`). The
divisor fits its two registers, `MaxDivisor`.

`MmuDram_proofs` and `MmuCopy_proofs` prove, from `MmuAssumption`, for every depth of
the store buffer below the shortest loop, every size of the copy and number of copies:

| Theorem | Statement |
|---|---|
| `DramTrained` | `Spec => []DramIsTrained` |
| `MapCorrect` | `Spec => []MapIsRight` |
| `NoEarlyFault` | `Spec => FaultOnlyOnLateRoot` |
| `TypeCorrect` | `Spec => []TypeOK` |
| `CopyIsMade` | at the end of `mmu_c` every word at `dest` is that of `src`; at no time is a word past them written |

`DramTrained` goes through the list entry by entry, while the hardware answers in
any order. `Keeps(reg, p, R)` says what the first `p` entries of a training leave in a register of
its channel: the bits that the entries wrote and, after a wait, the answer; other bits
of an answer may have come or not. `Spares` says that no entry of a training
touches the PLL's lock or the parameters of `c_180`, which are there when the first training begins. `Keeps` is
kept by the hardware, which only adds bits that
are due, and by the entries of the other channel, which touch other registers. `Resets` does
the same for the resets of the channels. `Done` counts the entries of the code before an item,
so that the counter of the loop is exact at its end. `DramInv` joins these with the marks: every wait
that is still to come has its mark, so none is passed as a write. TLC has
checked that it is an invariant of the run's instance.

`Stored(p, s)` is the word that the program has stored last in a slot, by
statement. The invariant `TableInv` says that each slot holds that word or a store of it is on its
way (`Holds`), and which stores can be on their way (`OnTheWay`): in `mmu_c` and `mmu_s`
only to the end of the first table once the root is complete, so the blocks that are used
first have all their entries; in `memtester_c` the root's entry is the last of them
(`RootIsLast`), so that without it nothing is on its way. `WalkIs` computes the
walk of any of the 2048 or 32768 blocks from the entries: that is the arithmetic of the
attributes, the pages and the slots. The step of `TableInv` uses `DramIsTrained`, since stores to
memory that is not trained are lost; `DramTrained` supplies it. `CopyInv` says which words
the copies made so far have covered (`Copied`), and that those are the words of `src` and the others
untouched: it gives the ranges of the counters and `CopyIsMade`, the safety part of
`Finishes`.

### Only model-checked

- All liveness: fairness and ENABLED are out of reach of the prover
  (`MasterInTimeIsSent`, `SoleSenderWakesAll`, `EveryCoreWakes`, `CallsReturn`,
  `KeepsTesting`, `OnlyLastKeepsComing`, `Settles`, `ReceiverIsServed`, `Finishes`).
- `Rand`: its run is a counterexample.

## Not modelled, and why

- Digits and formatting of `mprintf`, its baud rate set-up: no state that other parts
  read.
- `fy13spi`: one core, one GPIO interrupt and no second actor; the interrupt
  path is the one `SpiRouting` and `UartIrq` have, and the handler changes
  nothing that the task reads.
- `app/bin2hex`: a filter on the host without lasting state.
- The rest of the boot code: it sets registers of the core, clears bss and
  sets the stack pointer before any second actor runs. (The loop that clears bss
  stores one word past its end.)
- The scripts, headers of register names, linker files and samples: no
  behaviour.
- Out of TLC's reach: real time of timers, analogue behaviour of DRAM training;
  the values of timing parameters in the list stand for nothing a property
  could tell apart.

## Plan

1. Done: all components above with their runs, and the safety properties of the
   runs, two refinements among them, as theorems.
2. Proofs: every invariant and action property of the passing runs is a
   theorem; liveness stays with TLC.
3. `GpioSpi`: the order in which `fy13spi` enables its block.
