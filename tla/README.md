# A verification development for rocket-ap-fw

The repository is the firmware of a RISC-V microcontroller (SiFive E31, bare metal) that
drives an *associative processor* (AP): a memory-mapped device of six byte columns and an
engine that computes on all rows of its columns at once. `src/src` is the firmware itself (a
hardware abstraction layer, kernels on top of it, tests and CPU reference kernels);
`src/freedom-metal` and `src/bsp` are SiFive's board support library and its generated
configuration.

This directory holds TLA+ modules for the firmware and for the parts of the library that have
state and timing of their own, the TLC configurations that check them on small instances, and
proofs that TLAPS checks for every value of the constants.

## 1. Inventory

### The AP and its HAL (`ap_hal.h`, `ap_hal.c`)

* **State.** Two write registers (`AP_CONTROL`: interface state, target, trigger, reset bits;
  `AP_MODE`: internal column selector, column, direction, command), one interrupt flag
  (`AP_IRQ`), six columns of 512 bytes (CAM A, B, C, left and right), all in one address window.
  The HAL keeps no state of its own; the cycle record (`util.h`) is the only global it writes.
* **Operations.** Start-up and reset (`warmup_ap`, `reset_ap_engine`, the flushes,
  `release_ap_if`); moving bytes (`ap_write_vector`, `ap_read_vector`, `ap_memcpy`);
  horizontal commands that wait for the flag (`ap_trigger_computing_w_wait`,
  `..._target_a`, `ap_set_value`, `ap_set_value_cam_a_left`, `ap_search`), that only
  start the engine (`ap_computing`), or that poll a bounded number of times
  (`ap_trigger_computing`); the three vertical commands.
* **Interaction.** The processor writes registers and columns; once the trigger bit rises
  the engine computes rows *concurrently* and raises the flag at the end. No interrupt is
  taken: the processor polls the flag.
* **Hard part.** Anything between the trigger and the flag: a store under a running command, a
  stale flag that satisfies a later wait, a timeout after which the engine is still running,
  a selection left over from the last command.
* **Correct when** every call is, for its caller, one atomic operation on the columns with the
  documented effect; the processor stays at the poll while the engine computes; the
  interface is locked meanwhile; a call hands back a released device; every call returns.

### Kernels on the engine (`ap_tests.h`, `evaluation.h`, `cpu_tests.h`, `ap_funcs.S`)

* **State.** `r_v_mgmt.A, B, C` in memory, loop counters, and what the columns hold from one
  HAL call to the next.
* **Operations.** The matrix products `ap_mm`, `ap_mm_v2`, `ap_mm_v4` and `matmul_evaluation`,
  which `main` runs and which compares with `matmul_cpu`; `vector_ap_op_kernel_horizontal`
  (slice by slice through one column) and `vector_ap_op_horizontal` (on into the right
  column); `accumulate_horizontal` (a sum by halves, inside the columns) and `ap_search_test`;
  the unfinished `ap_reduce`, `ap_accum`, `test_offload`.
* **Hard part.** What a call leaves in a column is the input of the next: a flush too few, a
  wrong accumulator or stride gives a wrong result only for some shapes. The last slice of a
  vector, empty or short. `ap_store_data` takes a byte and stores a word.
* **Correct when** the accumulating column holds the partial sums at each turn, each row is the
  operation on its own elements, only finished rows are copied out, and the results are the
  CPU reference's for all bytes.

### Cycle counter and cycle record (`cycle_counter.S`, `util.h`)

* **State.** The 64-bit hardware counter, read as two words; `record.start`, `record.results`.
* **Hard part.** A carry between the two reads; starts that nest (`ap_search_test` opens a
  measurement and `ap_search` opens another); the full array.
* **Correct when** a reading is a value the counter had during the call, and a result measures
  its interval.

### Start of the harts (freedom-metal: `crt0.S`, `synchronize_harts.c`)

* **State.** Each hart's software interrupt bit and its place in the start-up code; memory,
  initialised or not.
* **Operations.** The boot hart initialises memory while the others skip it; all meet at a
  barrier led by hart 0, which need not be the boot hart; then each calls its main.
* **Hard part.** Harts come out of reset at any moment, on memory that may not be there yet.
* **Correct when** no hart goes on before all have arrived and memory is initialised, and all
  of them go on. The firmware's own board has one hart, and the barrier is compiled out for it.

### The lock (freedom-metal: `metal/lock.h`)

* **State.** One word, swapped atomically; each hart's back-off and its buffered stores.
* **Hard part.** Mutual exclusion among any number of harts; a store of the section that
  arrives after the word is clear; nobody ever getting the lock.
* **Correct when** at most one hart holds it, no update under it is lost, somebody always
  progresses.

### Clocks, UART and PLL (`clock.h`, `sifive_uart0.c`, `tty.c`, `sifive_fe310-g000_pll.c`)

* **State.** Two callback lists per clock, threaded through the callbacks; FIFOs, shift
  register, divisor and watermark of each UART; configuration and lock bit of the PLL.
* **Interaction.** Whoever changes the clock's rate runs the callbacks before the change
  (each UART drains) and after it (each UART sets its divisor again).
* **Correct when** no character is under way while the rate changes, none is lost, every
  divisor fits the rate, the PLL's rate is the nearest its table has, and the core never runs on
  a PLL that has not locked.

### Interrupt controllers and the machine timer (`riscv_clint0.c`, `riscv_plic0.c`, `sifive_clic0.c`, `riscv_cpu.c`)

* **State.** `MTIME` and `MTIMECMP` as pairs of words; enables, priorities, thresholds, claims
  and handler tables of the PLIC; control bytes, configuration and the two tables of the CLIC;
  each hart's `mtvec`, `mie`, `mstatus`, its tables of handlers and data for interrupts and
  exceptions, and the pointer to the CLINT that its initialisation leaves there.
* **Hard part.** Two words read or written while the time goes on; handlers that preempt
  between a load and a store; several harts that share a source; level, priority and vector
  bit in one byte; handlers registered before, between and after the initialisations.
* **Correct when** a time read is a time there was, no interrupt comes before the time asked
  for and the interrupt comes after it, a source is served by one hart at a time and goes on
  being served, enables and levels are as asked, the program's handler runs with its data, a
  software interrupt is cleared by its handler, and the program goes on at an instruction.

### Buses and other devices (`sifive_spi0.c`, `sifive_i2c0.c`, `pmp.c`, `hpm.c`, `sifive_wdog0.c`)

* **Hard part.** Transfers that give up while their frame is under way; an error in the middle
  of a call; a region whose address is written before its lock; counters read and cleared by
  halves; registers whose every write needs a key first.
* **Correct when** what a call returns belongs to it, the bus is left as promised, calls
  return, a region covers what was accepted, a count is a moment's, and a watchdog bites no
  earlier than asked, but does bite.

### Other parts

CPU reference kernels (sequential loops over arrays), environment tests, `hello.c` (`main`);
RTC, PWM, GPIO and the drivers on it, cache, privilege, the C library's glue, the generated
board tables. See section 7.

## 2. Modules

| Module | Models | Used by |
| --- | --- | --- |
| `ApMemory` | the address map and the enumerations of `ap_hal.h`; the effect of one engine command (external) | all AP modules |
| `ApAlu` | `ap_unit_test_sw` (`env_tests.h`), the software reference of the ALU | the MC modules |
| `ApCalls` | **abstract**: each HAL call is one atomic step on the columns | refined by `ApHal`, extended by the kernels |
| `ApHal` | `ap_hal.c` access by access, against the engine | `MCApHal`, `ApHal_proofs`, `ApPromise_proofs` |
| `ApMatmul` | `ap_mm`, `ap_mm_v2`, `ap_mm_v4`, `matmul_evaluation` over `ApCalls` | `MCApKernels`, its proofs |
| `ApVectors` | `vector_ap_op_kernel_horizontal`, `vector_ap_op_horizontal` over `ApCalls` | `MCApKernels`, its proofs |
| `ApSums` | `accumulate_horizontal`, `ap_search_test`, the word stores of `ap_funcs.S` over `ApCalls` | `MCApKernels`, its proofs |
| `ApKernels` | a program of `ApMatmul`, of `ApVectors` or of `ApSums` | `MCApKernels`, its proofs |
| `CycleRecord` | `get_cycles`, `start_compute_cycles`, `end_compute_cycles` | its proofs |
| `HartStart` | `_start` of `crt0.S` up to `secondary_main`, `__metal_synchronize_harts` | its proofs |
| `MetalLock` | `metal_lock_init`, `_take`, `_give` with store buffers, and a section that updates a datum | its proofs |
| `MetalClock` | **abstract** for the UART: rate changes and callback lists of `metal/clock.h` | refined by `SifiveUart` |
| `SifiveUart` | the UART driver and `tty.c`, UARTs that drain and receive | `Devices`, its proofs |
| `FePll` | the PLL driver with its table of configurations | `Devices`, its proofs |
| `SifiveSpi`, `SpiRate` | the SPI transfer against a controller with queues; its divider | `Devices`, its proofs |
| `SifiveI2c` | write, read and transfer against a controller and a device | `Devices`, its proofs |
| `Pmp` | initialisation, regions and locks of the memory protection, and its registers | `Devices`, its proofs |
| `Hpm` | the performance counters, cleared and read by halves | `Devices`, its proofs |
| `SifiveWdog` | the watchdog driver access by access, with its key, and the reset | `Devices`, its proofs |
| `Devices` | the drivers above side by side, whichever of them runs | `MCDevices`, its proofs |
| `ClintTimer` | `MTIME`/`MTIMECMP` word by word, with the default timer handler | `Interrupts`, its proofs |
| `Plic` | enables, priorities, claim, service, completion, for several harts | `Interrupts`, its proofs |
| `Clic` | control bytes, modes, tables, registration and dispatch (with `riscv_cpu.c`) | `Interrupts`, its proofs |
| `RiscvCpu` | a hart's tables, modes, traps and exceptions, its CLINT and software interrupts | `Interrupts`, its proofs |
| `Interrupts` | the four controllers side by side, whatever program runs | `MCInterrupts`, its proofs |
| `*_proofs` | proofs about `ApHal` (`ApHal_proofs`, `ApPromise_proofs`), `ApMatmul`, `ApVectors`, `ApSums` (`ApKernels_proofs`), `CycleRecord`, `HartStart`, `MetalLock`, the four of `Interrupts` (`Interrupts_proofs`), `MetalClock` and those of `Devices` (`Devices_proofs`) | |

**How code becomes actions.** A HAL function is straight-line code made of volatile bus
accesses. `ApHal` therefore gives each function as the *sequence of its accesses* (control
write, mode write, store, load, copy, wait, poll, end of a measurement). `Begin` puts that
sequence in `todo`; the `Cpu...` actions perform the head of `todo`, one per step; the
engine's actions `EngineRow` and `EngineDone` interleave. `CpuWait` is
`while (ap_irq_check() == 0)`, `CpuPoll` is `ap_waiting_for_computing`. The drivers are built
the same way where the accesses matter: `SifiveWdog` keeps a `todo` of loads, keys and stores;
`SifiveSpi`, `SifiveI2c`, `ClintTimer`, `Hpm`, `Plic` name the next access (`at`). Where only the
result of a call matters (`Pmp`, `SpiRate`, the CLIC's accessors) a call is one step.

Definitions marked "Slip" are the definition below them with one plausible mistake; they are
used by nothing in the specification and serve to show that the properties can fail.

**What is external.** The hardware, modelled from how the code uses it. The AP's engine is
defined nowhere in the repository: `Half` reads the selector as one bit per CAM (0b111, 0b011
and 1 are all passed), `Destination` gives a target command its column, `RowResult` is the
reference ALU for OR to MULT, row 0's byte for SET, a comparison with row 0 of CAM B for
SEARCH, A + C for ADD_D. What no test pins down is left open: the rows come in any order, the
rows of a vertical command may hold any byte, a control write that lowers the trigger under a
running engine may stop it or not, and a word store reaches one byte or four. Likewise external
are the shift registers and queues of UART, SPI and I2C, the PLL's lock, the PLIC's gateway, the
registers of the hart, the watchdog's counter.

**Composition.** `ApCalls` is what clients rely on. `ApHal` is shown to implement it
(`PromiseKept`, the refinement mapping hides everything between a call's first and last
access), and `ApMatmul`, `ApVectors` and `ApSums` are written over its `Effect` and `Output`, so
that a step of a kernel is one call. `SifiveUart` is composed with `MetalClock`: its callbacks are
the clock's, and `ImplementsClock` is the refinement. `Clic` composes three drivers that
register with each other. `ApKernels`, `Interrupts` and `Devices` put several programs or
devices into one run; these share no state (the kernels share only the columns, which each of
their runs initialises), so an initial choice (`part`, or which kernel) says which of them
runs and the others stand still; their fairness is each module's own. A controller's client is
chosen the same way: `client` of `Plic` and `user` of `Clic` say what the program of this behaviour
does, and never change.

## 3. Runs

| Run | Question | Bounds |
| --- | --- | --- |
| `hal` | Does the HAL keep the protocol and the promise of `ApCalls`, and do calls return? | programs of 2 calls on the left columns, 2 on both with flushes and resets, 4 with searches; vectors shorter, as long and longer than a column of 2 rows; bytes mod 4 |
| `hal_timed` | What does the ignored time-out break, is one reset enough, do the waits release? | programs of 3 calls with polls and resets, 2 with vertical commands |
| `kernels` | Are the products `matmul_cpu`'s, the vectors right row by row, the sum and the marks right? | columns of 6 rows, bytes mod 8 (sums overflow); four shapes, two products in a row; sizes 0 to 48, that is up to eight columns, two calls; four elements summed |
| `cycles` | Is a reading ever torn, and what does a result measure? | a 3-valued lower word that carries twice, 4 calls, 2 results |
| `harts` | Do the harts meet before any goes on, on initialised memory, and do all go on? | six harts, number 3 boots and 0 leads |
| `lock` | One holder, no update lost, progress? | three harts for ever, the datum modulo 3, back-off up to 2 |
| `interrupts` | Timer, PLIC, CLIC and a hart's own tables, under preemption and between harts? | words of 3 values; two harts, two sources; one interrupt of the hart and one local one, four control bits, a program for the bytes, one that handles each interrupt and one that handles both; a hart with the software interrupt and a local one, two handlers, a program of an instruction of each length |
| `devices` | PLL, UARTs, SPI, I2C, memory protection, counters, watchdog? | two UARTs, FIFOs of 2, two rates; SPI transfers of 1 and 3 bytes in nine configurations, up to 3 in a row over queues of 2, answered at any time or never; up to 3 I2C calls of 0 to 2 bytes, in each direction and both, on a bus that may stall; counters up to 3; two regions, 16-byte granularity; 3 calls of the watchdog; the real table of the PLL |
| `hal_vertical_lock` | (violated) Do the vertical functions lock the interface, as their comments say? | 2 calls |
| `hal_right_search` | (violated) Does `ap_search` with `RIGHT` look for its key? | 1 call |
| `i2c_nack` | (violated) Is a transfer that returns 0 acknowledged? | 1 call |
| `vector_exception` | (violated) Does an exception reach the handler registered for it? | as `interrupts` |

**Why the bounds are enough.** No function of the HAL looks at a byte's value or depends on the
number of rows other than through the bound it checks, and addresses of different columns stay
distinct with two rows. The HAL keeps no state between calls but the device's registers, so two
calls reach every state one call can leave to another; four calls are for the functions that
leave the flag or the selector behind. The kernels' sizes put their last slice at each place a
slice can end. Words of three values carry, and have a value that is neither least nor greatest. A
transfer of a bus leaves at most one frame behind, so a third transfer meets everything the
first two can leave. `Top` in `ClintTimer`, `Hpm` and `SifiveWdog`, `MaxHi` in `CycleRecord` only stop
the clock of the model. Where a run does not check for deadlock the program really ends (its
bounded calls are made) or waits for what the run's bound cuts off.

**Fairness.** `ApHal` assumes weak fairness of the processor (it executes on) and of the engine
(a triggered command takes finitely many cycles); the kernels of the program's own steps;
`HartStart` and `MetalLock` of each hart (it executes on; the wait loops are the disabled or the
repeated steps), nothing of the order in which harts get the lock; `ClintTimer` and `Plic` of the
handlers (in `Interrupts`, of those that leave the enables alone); `RiscvCpu` of the handlers, and strong fairness of taking an interrupt: the hart takes
one that is pending and enabled before its next instruction, but exceptions may mask it again
and again in between; `SifiveUart` of the processor and the shift registers; `FePll` of the processor, the lock
and the time; the buses of the processor and the seconds, but *not* of the controller, which
may stop for ever; `SifiveWdog` of the processor, the count and the bite. Clients are under no
fairness: they need not call. The liveness properties are `CallsReturn` (of the HAL, and of the
drivers), `KernelsEnd`, `AllStart`, `SomeoneProgresses`, `InterruptIsTaken`,
`ServingGoesOn` and, within `CallsReturn` of the devices, `FindsOut`: a program that hangs after it
started the watchdog is reset.

### Findings (each with its run)

* The vertical functions (`ap_hal.c:233, 245, 265`) write `0x10000` under the comment "Block
  interface". In the layout of `set_control_reg` (`ap_hal.h:95-98`) that is the *target* bit: the
  interface stays unlocked. The table at the top of `ap_hal.h` gives an older layout, with the
  interface state in that byte.
* `ap_search` tests `internal_col == 1` (`ap_hal.c:353`); `RIGHT` is 7 (`ap_hal.h:76`), so the key of
  a right search goes to the left column.
* A transfer both ways over I2C returns 0 although a byte it sent was not acknowledged: the read's
  address phase overwrites the error (`sifive_i2c0.c:371`).
* In the vectored mode an exception does not reach the handler that the program registered for it
  (`vector.S:95-96`): the first row of the vector table, where exceptions come, ends the program
  unless the application redefines `metal_interrupt_vector_handler`. `devguide/exceptions.rst:5-7`
  says the registered handler is called.

## 4. Section on divergences

What the reading for the model met besides, and that no run states. Where a model covers the
code, it says how it keeps clear of the matter; the rest is not modelled.

* **HAL and kernels.** `ap_write_vector`, `ap_read_vector` and `ap_set_value` scale the column size
  by the value of `internal_col` (`ap_hal.c:66`): with `RIGHT`, 7, they address seven columns up.
  `ApHal` computes that address; its programs, like the firmware, pass `LEFT` to them.
  `ap_tests.h:281` writes the target bit under "Block interface" too. `mm_cols_setup` strides A by
  `m_len` where `ap_mm_v4` needs the inner dimension (`ap_tests.h:807`): `ap_mm_v4` is right only
  for `m_len = k_len`, and `ProductIsGolden` is about those. `cpu_search_test` goes over 1024 elements
  (`cpu_tests.h:466, 474`) of arrays of 512 bytes (`util.h:18, 34`). `accum_kernel` adds to a sum it never
  set (`cpu_tests.h:436`). `ap_store_data` and `ap_get_data_to` use word accesses at byte addresses,
  which a core may trap; `ApSums` takes a core that does not, and a device that stores one byte or
  all four.
* **Clock.** A callback that is registered twice becomes its own successor (`clock.h:64`) and the
  next rate change does not return. The I2C driver registers its callbacks in `set_baud_rate`
  (`sifive_i2c0.c:134-141`), which its own post callback calls. The clients of the model register once.
* **UART.** The drain time (`sifive_uart0.c:175`) is a product in a `long` that overflows for a fast
  clock; the model's `LONG_MAX` is larger than its products. `set_tx_watermark` or's the new
  level into the old one.
* **SPI.** A rate faster than half the clock makes the divider -1 (`sifive_spi0.c:346`), which the mask turns
  into the slowest rate. A rate that was accepted may be refused when the clock rises: the old divider
  stays, and the frame clock is faster than asked, but the callback drops the result (lines 377-380) and nobody
  is told. `RateAsAsked` speaks of the clocks that can be divided to the rate that was asked for last,
  whatever happened at others in between. The comment at the end of a transfer (lines 316-323) says that
  the queue is likely not empty yet when the chip select goes back; the loop has awaited the answer of every
  frame by then, so it is (`SelectedToTheEnd`). A transfer after one that gave up may take a late answer for its own: `ReceivedIsOwn` speaks of the transfers before the first that
  gives up, and what the later ones find is `OneFrameLeft`'s.
* **I2C.** An empty transfer sends no STOP; `StopAsAsked` and `DeviceIsReleased` are about calls that
  move bytes.
* **PLIC.** `enable` and `disable` use the hart's number where claims use its context; the
  models' contexts are the harts' numbers. A handler that enables between the load and the
  store of its program's enable loses one of the two: `EnabledAsAsked` is stated
  of programs whose handlers do not, and that do not call the affinity functions; the others are
  still held to `ServedByOne` and to priorities that are not zero. The affinity functions skip the
  context that is bit 0.
* **CLIC.** The vector bit of a control byte is also its lowest priority bit
  (`sifive_clic0.c:155-168, 212`): setting a priority changes whether the interrupt is vectored.
  A NULL handler for one of the hart's own interrupts goes on to the hart (lines 535-537), which stores the data
  that comes with it in `sub_int` (`riscv_cpu.c:510-513`). For the software interrupt that is the pointer through
  which every local interrupt that is not vectored is dispatched: unless the data are the CLIC, the next dispatch
  follows a wrong pointer. `HandlerRuns` promises these interrupts to programs that leave the pointer there
  (`KeepsLink`), and all others to every program. `vector_register` takes any id; id 0 would replace the common
  handler at the head of the vector table, and the model's programs register for their own interrupts. The
  initial level, `(1 << nlbits) - 1`, is not aligned to the left: with fewer than eight level bits
  `set_level` keeps zeros of it.
* **Hart.** The row of the external interrupt (`vector.S:117-118`) goes to the default handler too,
  although `metal_external_interrupt_vector_handler` exists; `HandlerReached` leaves it out by
  name. The default handler of the software interrupt calls the *exception* handler of the same
  number (`riscv_cpu.c:141-142`), the breakpoint's. NULL as a handler replaces the pointer to the
  CLINT by the data that comes with it (`riscv_cpu.c:511-518`); the model's program passes the
  CLINT. A trap between the two stores of a registration (506-507) calls the new handler with
  the old data; `HandlerReached` is about handlers that are not just being registered.
  `_metal_trap` keeps the mode bits of `mtvec` where its comment says it masks them
  (`trap.S:45-49`), and jumps to address 0 to 3.
* **Memory protection.** `region > _pmp_regions()` (`pmp.c:122`) lets the first region that does not
  exist through. A region locked as the top of a range locks its neighbour's address in the
  hardware but not in the driver: the model's `RegionAsAsked` excludes it by name. A call skips the
  write of an address that reads back as it is (`pmp.c:154`), and what reads back depends on the
  mode. With a granularity of eight bytes an odd address reads even while the region is off; a
  naturally aligned range at that even address is then accepted without a write, the odd bit comes
  to light, and the region covers twice what was asked, or more. TLC finds this with `G` = 1, and
  with that granularity only. The theorem about the regions assumes `G # 1`; the run has `G` = 2.
* **GPIO.** `clear_int` or's into a register that clears what is written (`sifive_gpio0.c:184`), so it
  clears every pending interrupt of that kind.
* **Watchdog.** `set_rate` clears the scale before it sets it (`sifive_wdog0.c:102-105`): a watchdog
  that runs may match meanwhile; the model's program sets the rate while it is stopped. The
  last scale is never tried. A handler that feeds between another call's key and its store
  makes that store drop; the model's handlers do not use the watchdog. A match between the load
  and the store of the configuration is lost.
* **RTC.** The shift of `set_compare` grows by one each turn but shifts what was shifted before
  (`sifive_rtc0.c:59-62`); from the second turn on it is not the shift it records.
  `get_count` reads two words with no second look (`sifive_rtc0.c:77-79`).
* **PWM.** The prescale and mode bits are or'ed and never cleared (`sifive_pwm0.c:172`); the callback
  after a rate change does not start it again.

## 5. Proofs

Eight modules hold proofs; a theorem named here is checked for every value of the constants.

`ApHal_proofs` (every column size, byte width, ALU, set of callable functions, number of calls
and initial memory): `TypeCorrect`, for every client; `WaitsForEngine` (`CpuWaitsForEngine`), for
clients that do not call the two polling functions; `LockedWhileBusy`
(`InterfaceLockedWhileBusy`), for those that do not call the vertical ones either. `CpuWaitsForEngine` is not inductive: that the processor stands at a
wait now says nothing of what it does after it. The invariant is about programs instead.
`Sound(todo)` says that in the accesses still to come, every control write that raises the
trigger has the wait as the very next access. It holds of each function's sequence (one lemma per
function), is kept by dropping the head and by concatenation, and together with "if busy, the head
is a wait", "the flag and the busy state exclude each other" gives the induction: the only step
that makes the engine busy is a trigger write, whose successor is a wait by soundness; the wait is
left only when the flag is up, and then the engine is idle. `LockedWhileBusy` adds that the trigger
write itself carries the lock bit and that nothing writes the control register until the wait is
over.

`ApPromise_proofs` (the same constants) holds the main result: **`ApHal` implements `ApCalls`**.

* `CallsAreAtomic`: `Spec /\ []InTime => PromiseKept`. Every call is one atomic operation on the
  columns with the effect and the bytes that `ApCalls` gives it, whatever order the engine
  computes its rows in. `InTime` says of a program that its calls are among those `ApCalls` speaks of
  (not vertical; LEFT where `internal_col` is scaled into an address, see section 4) and that no
  bounded poll gives up. `LeftProgramsAreAtomic` is the same for every program that can make only such calls.
* `EffectAfterReset` (`PromiseKeptAfterReset`): programs whose polls may give up at any time, with the
  command still running, get every effect promised again from the next reset on.
* `ReleasesAtReturn` (`ReleasedAtReturn`): for clients that do not call `ap_search`, which returns
  with the interface locked and the flag up; a poll that succeeds and a reset release, too.

The argument separates the two processes. A *sequential machine* executes a program of accesses
without an engine: a trigger marks a command as pending, and the wait computes all its rows at once
(`Step`, `Runs`). Each of the 24 functions has a lemma (`...Does`): from any registers, columns and flag,
its program runs on that machine to the promised columns and bytes. These lemmas are equations
between functions on addresses: columns do not overlap (`ColumnsApart`), a vector stored byte by
byte is the vector written (`StoreVectorRuns`), and a command's rows may
be computed one by one in any order (`ComputedMore`: no row reads a byte that another row of the
same command writes). `Follows` relates the real device to the machine: equal, but for the rows a pending command
has computed already. The invariant is that *what is left of the program runs from here to the
promised end*: a step of the processor takes the first access off (`CpuAdvances`), a row of the engine
leaves the machine where it is (`EngineFollows`). After a time-out only the registers are claimed
(`exact` is false) until the write that resets the engine (`Awaits`).

`ApKernels_proofs` (matrices of every shape the vectors hold, columns of any size, bytes of any width,
kernels in any order): `SumsArePartial` (`PartialSums`) and `ProductsAreGolden` (`ProductIsGolden`): every
product is the one `matmul_cpu` computes. Here, too, the invariant is about what is left to do:
*the calls left in `todo` run from the present columns and C to columns and C that are good for the
loop's counters* (`Good`: every finished element is its sum, the current ones are the partial sums
of the products so far). What a loop body does as a whole is one lemma per kernel (`InnerOfMm`,
`InnerOfWindow`, `BodyOfV4`), from lemmas on the effect of each call. `Dot`, the reference, is a recursive
function; that it exists for every number of products, and obeys its recursion, is shown without
induction over an operator, by a least counterexample (`LeastNatural`, `SumExists`, `SumUnique`).

The same module proves the other kernels, for columns of any size and bytes of any width.

* The vector kernels, for any vectors: `SlicesAreNewest` (`NewestSlice`, every size),
  `ColumnsAreRight` (`ColumnsAreGolden`), `RoundsAreFinished` (`OffloadedWhenComputed`) and
  `ColumnsAreLeftClean` (`NextStartsClean`) for the sizes that `vector_ap_op_horizontal` handles.
  The invariant `VectorsInv` ties `todo` to the columns by a position: the calls left are the list
  of the function without its first `p`, and `p` fixes what the columns hold (`SliceMade`: which
  slices are made; `ColumnsMade`: which halves are filled, computed, copied out). That a row holds the
  *newest* slice that reaches it is `Newest`, once more by a least counterexample.
* The sums, for columns whose rows `N` can be halved down to one (`Halvings`, which only powers of
  two satisfy, as the loop of `accumulate_horizontal` needs): `PartsAreOfTheSum`. The rows that are
  still summands, `i` of them, hold equal parts of the sum: `i` times the part is `N` (`Left`), and
  halving `i` doubles the part (`PartsDoubled`). The bytes that a word store reaches past its row
  belong to rows that are written next or are no summands. `KeyIsMarked`: the search copies out a one
  in the row of the key and zeros elsewhere, whatever the columns held before.
* Whichever of the programs runs (`ApKernels`, the specification that the run checks):
  `NewestSliceAlways` and `VectorsAreGoldenAlways`. The invariant `KernelsInv` is that of the program that
  runs, and no step changes the program (`WhoRuns`).

`CycleRecord_proofs` (every word width and capacity): `TypeCorrect`; `OneMoment` (`ReadsOneMoment`: a
reading lies between the counter at the call and at the return); `Measures` (`ResultMeasures`: each
result lies between the shortest and longest interval of its two calls); `Keeps` (`ResultsKept`: no
recorded result changes later, and nothing is recorded behind the array). The invariant orders four
moments: the call, the first read of the upper word, the read of the lower word (kept in `seen`),
the second read of the upper word. When the two upper words agree the counter's upper word did not
change in between, so the pair read is exactly `seen`. `ValueMonotone` carries the order of
readings to their values.

`HartStart_proofs` (every number of harts, every boot hart): `TypeCorrect`, `HartsMeet`
(`AllArrived`) and `InitialisedFirst` (`NoneBeforeInitialised`). Neither is inductive. The
invariant says what a bit means: it is up only while its hart waits (`Bits`), a hart that waits
with its bit down has been released by hart 0 (`Released`), and what hart 0's index tells it in
each loop (`Collected`). So when one hart is in its main hart 0 has left its first loop, and then
every other hart has been at the barrier, the boot hart among them. It is assumed, as on the
hardware, that the bits are zero at reset.

`MetalLock_proofs` (every set of harts, back-off, exponent): `TypeCorrect`, `BackoffCorrect`
(`BackoffBounded`), `Exclusion` (`MutualExclusion`), `UpdatesKept` (`NoUpdateLost`).
`LockInv` strengthens exclusion by "who holds finds the word set" (`WordSet`: only the holder
clears it, so a swap that returns 0 finds no holder), and the data by "a buffered store is the
holder's, on its way out, and carries the latest version" (`OwnStore`) and "with empty buffers
memory has the latest" (`InMemory`).

`Interrupts_proofs` holds the proofs about the four controllers of `Interrupts`, each under its
own specification, and from the same invariants about all of them side by side: a step of one
leaves the others' state alone, so it is a step of each or stutters (`StepOfEach`), and
`ControllersHold` collects the invariants. `OneHartServes` (`ServedByOne`), `AskedIsEnabled`
(`EnabledAsAsked`), `LevelsStay` (`LevelsKept`) and `HandlersFound` (`HandlerRuns`) are the properties
of the run, for every value of the constants that `ControllersAssumption` allows and every set of
programs (`Clients`, `Users`).

* The timer (words of any size, any time and any compare values): `TypeCorrect`, `OneMoment`
  (`ReadsAMoment`), `NotTorn` (`SetNotTorn`), `NotSpurious` (`NoSpuriousInterrupt`). `Moments` orders
  the readings like in the cycle counter; `Held` says what the two words of the compare register
  hold between the three writes of a set: the high word is the largest, which is never due
  (`MaxIsNever`, by the assumption that the time stays below that word), until the last write, so an
  interrupt cannot come before the time asked for.
* The PLIC (every number of harts, sources, contexts and priorities): `ServedByOneAlways`, with
  handlers that enable and disable, with the affinity functions, and however loads and stores of
  the enables interleave. The invariant adds to "no two harts hold the same source" that what a
  handler holds is claimed; a claim gives a source that is not, because it chooses the least number
  among the pending ones with the highest priority (`LeastNatural`: a nonempty set of naturals has a
  least element, from the well-foundedness of `<`). `EnablesKept` (`EnabledAsAsked`) needs
  contexts that are the harts' numbers (`OwnContexts`), and speaks of programs that are `Steady`: their
  handlers leave the enables alone and they make no affinity call; without these it is false (section 4). The invariant says that the word which a call has
  loaded is still the present one when it stores. `NeverMuteAlways` (`NeverMute`) needs a controller
  with priorities above 2, because a registration sets priority 2, and programs that do not ask
  for priority 0 (`NotZero`).
* The CLIC (any interrupts, any number of implemented control bits): `LevelsKeptAlways` (`LevelsKept`)
  and `HandlerRunsAlways` (`HandlerRuns`). The invariant `Levelled` says that the level bits of
  every control byte are the ones that were set last; `Linked` says where
  each registration has left its handler, in the CLIC's table or in the hart's, and, for programs that
  keep it (`KeepsLink`), that the hart's entry of the software interrupt still points to the CLIC.
  `IdAssumption` admits as the hart's ids those that it can register without a handler.
* The hart's tables and traps (any handlers, local interrupts and code): `SoundAlways` (`Sound`) and
  `HandlerReachedAlways` (`HandlerReached`). `Tables` says, for a registration that is complete, that
  handler and data are both in the row, and for one under way that only the handler is; that the
  rows of the CLINT keep the pointer to it; and that nothing is registered before the
  initialisation that would clear it. `Placed` puts `pc` and `mepc` at the beginnings of instructions, so a
  handler that returns behind an instruction returns to one.

`Devices_proofs` holds the proofs about the drivers of `Devices`, each under its own specification,
and from the same invariants about all of them together. `InitDrivers` and `DriverSteps` carry the one
to the other: the devices begin as every driver does, and a step of them is one of each driver or
stutters. So the properties of the run, which collect those of the drivers, are theorems for every
value of the constants that `DevicesAssumption` allows: `DevicesImplementClock` (`ImplementsClock`),
`NothingIsCutOff` (`NothingCutOff`), `RatesFollow` (`RateFollows`), `DataAreTheirOwn` (`DataIsOwn`),
`BusesAsPromised` (`BusAsPromised`), `DevicesNeverUnlocked` (`NeverUnlocked`), `DevicesRegions`
(`RegionAsAsked`), `DevicesCount` (`CountIsAMoment`), `DevicesWatchdog` (`WatchdogAsAsked`). Two need more:
`RatesFollow` the exact oscillators, `DevicesRegions` the granularity, of which below.

* The PLL (every table of reference and wanted rates, every time the lock takes):
  `NeverUnlockedAlways` (`NeverUnlocked`). While the driver is at work the core is off the PLL, the
  lock bit is only relied upon after the settling time, and at the last step the PLL has locked.
  `RateIsClosestAlways` (`RateIsClosest`): the loop over the table finds a configuration whenever one is
  valid, the last of the nearest (`ClosestExists`); until the change ends the registers hold that
  one, or the PLL is bypassed (`Choosing`). It rests on `ExactAssumption`: for the oscillators'
  rates the divisions of the registers' fields give the rate that the table multiplies. The board's
  crystal of 16 MHz is exact, and so is every rate for which the table has nothing; a rate above 12 MHz
  that is odd is not, and for it the returned rate can be a few hertz beside the table's.
* The SPI's divider (any clock, rate and width of the divider): `RatesAsAsked`. A divider that fits is
  not cut off by its field, so it divides to what was asked, up to twice that (`DividerFits`). The rate asked for
  last and the present clock always give the present divider, unless they are refused (`DividedAsAsked`), in whatever order calls
  and clock changes came.
* The SPI (any configurations, lengths and depth of the queues, and a controller however slow):
  `TransfersAreTheirOwn`. As long as no transfer gave up, exactly one frame is in the queues while a
  transfer waits, its own (`UnderWay`), and none between transfers (`OwnInv`), so what is read is the
  answer; and giving up is never undone (`GaveUpStays`). `WiresSwitched` carries the protocol field from each
  frame to the next, `CountInv` counts sent and stored frames alike. After that, `FramesLeft`: every
  transfer that gave up has left one frame and no other has, as long as a queue holds them all; and
  the chip select is held in transfers only. The invariant is about the sum of both queues, because a late
  frame moves from one to the other at any moment.
* The I2C (any calls, and a bus however slow): `CommandsWait` and `BytesAreItsOwn`: while a call
  waits for a byte, the command under way is that byte's, because a command is given only when the last
  is done. `BusAsAsked`, for calls in one direction and both: the invariant `BusInv` says which command was
  the last one and what it makes of the bus. That every byte was acknowledged is left out for calls
  both ways, of which it is false (`i2c_nack`).
* The watchdog (any clock, masks, rates, timeouts and order of calls): `RegistersAsAsked` (`AsAsked`
  of `SifiveWdog`) and `MatchesInTime` (`Patient`). Like in `ApHal`, the invariant is about what is
  left to do: *from here, the accesses left in `todo` lead to the registers that were asked for*
  (`Leads`), whatever the watchdog's own steps do between them, which change only fields that do not
  matter (`Alike`); and the watchdog counts no more than the time since it was fed or started.
* The memory protection (any number of regions, bits of an address, addresses, and any granularity but
  eight bytes; section 4): `RegionsAsAsked` (`RegionAsAsked`). The configuration alone is not
  inductive; the invariant says of a naturally aligned range that its register *shows* the address
  that was asked. A call that writes keeps that because an accepted range is not finer than
  the granularity, so it ends in the ones that the register shows (`AcceptedIsSeen`); one that skips
  the write, because an address that another mode shows and that ends so has no bit hidden
  (`ShownIsSeen`). Both rest on lemmas about trailing ones and zeros (`LowOnes`, `OnesFound`,
  `ZerosCounted`) and on what `metal_pmp_init` detects (`GranularityDetected`).
* The performance counters (halves of any width, any number of counters): `CountsAreMoments`
  (`CountIsAMoment` of `Hpm`). Between the three accesses of a reading the invariant keeps the moment at
  which the low half was read (`ReadBoth`); between those of a clear, that the low half has counted
  nothing but ticks of the call (`Cleared`).
* The clock (any number of clients, which register once): `EveryCallbackIsCalled`
  (`ListsHoldRegistered`, `EveryCallbackRuns`). `Chain` says that the cells of a list are a
  sequence without repetitions: the head is its first, each `_next` the one after it, the last one's
  is null. A chain is no longer than there are clients (`ChainFits`), so the walk goes through all of it
  (`WalkIs`), an append finds its tail (`CellsAre`) and makes a longer chain (`AppendToIs`); and what a change has
  called so far is the beginning of the chain (`CalledSoFar`).
* The UARTs (any number of them, any rates, depth of the FIFOs, watermarks and bits of a character):
  `UartsAreTheClocks` (`ImplementsClock`): each step of a driver is one of the clock's, or none, because the UARTs
  that are up are those that have registered both callbacks (`Registrations`). `DivisorsFit`
  (`DivisorFitsRate`) and `CharactersAreKept` (`DrainedFirst`, `RoomFirst`, `InOrder`, which `NothingCutOff`
  collects) rest on `UartInv`: during the second callbacks it is those already called that fit the
  rate; a character takes at most `CharTime` cycles, and what the waiting loop has counted and what is left
  in the shift register are together no more than that; the UARTs whose first callback was called have
  nothing to send. So when the list is through, and only then, all are drained. It is
  assumed that a character's cycles fit into a `long` (`RatesAssumption`; section 4 says what happens
  if not). `Following` numbers the characters of a receive FIFO.

Assumptions are the ones the modules name (`ColSizeAssumption`, `ByteModAssumption`,
`AluAssumption`, `CommandsAssumption`, `ColumnsAssumption`, `VectorsAssumption`,
`BoundsAssumption`, `InitAssumption`, `WordAssumption`, `HartsAssumption`, `BootAssumption`,
`InitialiserAssumption`, `BackoffAssumption`, `VersionsAssumption`, `TargetAssumption`,
`TopAssumption`, `DeltaAssumption`, `RefsAssumption`, `TicksAssumption`, `ExactAssumption`,
`PriorityAssumption`, `ImplementedAssumption`, `HalfAssumption`, `WatchdogAssumption`, `ScaleAssumption`,
`CallsAssumption`, `ConfigsAssumption`, `DepthAssumption`, `RateAssumption`, `MaskAssumption`,
`KernelsAssumption`, `DimsAssumption`, `EntriesAssumption`, `MultAssumption`, `IdAssumption`,
`BytesAssumption`, `NullAssumption`, `CodeAssumption`, `FunctionsAssumption`, `ClientsAssumption`, `RatesAssumption`,
`RowsAssumption`, `GranularityAssumption`, `PowersAssumption`, `ControllersAssumption`, `DevicesAssumption`). TLC evaluates them in the
runs. `HalfAssumption`, `ScaleAssumption` and `PowersAssumption` say of the powers of two they name that
they are positive numbers, the last one also that they multiply as powers do: the exponentiation of TLA+
is defined by recursion, which the provers cannot unfold.

## 6. Only model-checked

Liveness under fairness, and everything that needs ENABLED: out of the prover's reach. These are
`CallsReturn` of `hal` and of `devices`, `KernelsEnd`, `AllStart`, `SomeoneProgresses`,
`InterruptIsTaken` and `ServingGoesOn`. Every other property of a passing run is a
theorem, under the hypotheses that section 5 names.

## 7. Not modelled, and why

* The values of vertical commands: no code in the repository says what they are.
* `ap_mm_v3` (reads no result, commented out where it was called), `mm_cols_setup_2` (called by
  nothing), `ap_reduce`, `ap_accum` (unfinished: they read nothing back), `test_offload` (times loads).
* The random data of the tests and the checksums: the model compares the bytes themselves.
* The CPU kernels that only serve timing: sequential loops over arrays, compared with nothing.
* `tiny_delay`: empty loops, no state.
* RTC and PWM: what they promise is not what they do (section 4), so little could be stated as kept.
* GPIO, LED, button, switch, cache, the enables of interrupts and counter access, privilege:
  single register accesses, or one CSR change and a jump.
* The bus error unit, `_metal_trap`, the accessors of the hart's registers, the external
  interrupts' other functions, the simulation UART, the clocks with a constant rate, SPI slave mode.
* The C library's glue: `sbrk` moves one pointer, the others are stubs.
* Board tables and register maps (`bsp/`, `encoding.h`, the `*_regs.h`): generated constants with
  no behaviour. They are most of the repository's lines.

* The failures of `metal_lock_init` (`lock.h:48-68`: memory that is not known or has no atomics, a core
  without them) and, on such a core, the trap of `_take` and `_give` (106-115, 133-141): they leave the lock as it
  is. `MetalLock` is the core with atomics.
* The other privilege modes of the CLIC: `nmbits` is 0 after the initialisation and `set_privilege`, which
  would change it, is not modelled. Of the PLIC's initialisation, the clearing of registers that
  the model begins with as cleared; and its affinity calls, which load and store one context after another, are
  one step for all of them.
* The SPI's callback before a rate change, which waits for an empty transmit queue: the divider does not
  depend on it. The UART's ninth or tenth bit (`sifive_uart0.c:173-174`): nothing in the driver sets the
  stop bit's field, so `SifiveUart` has one number of bits. A PLL without a reference clock
  (`sifive_fe310-g000_pll.c:181`): the board has one, and `FePll` always selects it.

## 8. Plan

1. Core, with the first theorems: `ApMemory`, `ApAlu`, `ApCalls`, `ApHal`, `ApMatmul`, `CycleRecord` (done).
2. Vector kernels, start of the harts, sums and searches inside the columns (done).
3. The lock with proofs; clocks, UART and PLL; timer, PLIC, CLIC and a hart's traps; SPI, I2C, memory protection,
   counters, watchdog (done).
4. More proofs: the refinement of `ApCalls`, `PromiseKeptAfterReset` (done); the matrix products for all shapes,
   the four interrupt controllers (done); the PLL, SPI, I2C, counters and watchdog, the
   clock's callbacks with the UARTs (done); the vector kernels, the sums and
   searches, the memory protection (done); the runs' own properties for the programs and drivers put
   together in `ApKernels`, `Interrupts` and `Devices` (done).
5. RTC and PWM once their code settles what they promise.
