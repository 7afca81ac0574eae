# Verification of the i.MX6ULL bare-metal firmware

The repository holds twenty stages of one firmware for an NXP i.MX6ULL board
(`src/baremetal/01_leds` to `20_pwm`), a prebuilt tool that makes a boot image
(`src/imxdownload`) and a vendored U-Boot (`src/uboot`). Each stage contains the
drivers of the stages before it, so `20_pwm` is the reference for every driver; an
earlier stage is used where its `main.c` drives a component that `20_pwm` does not.
The comments, in Chinese, are the documentation.

There is one core, no operating system and no memory protection. `main` runs
forever; interrupt handlers interrupt it between any two instructions, and devices
change their registers at any moment. That is where the hard behaviours of this
code are, and what the models are about: which stores an interrupt may come
between, what a device does between two polls of it, and what happens when a
transfer, a timer or a counter is at its limit.

## Inventory

Paths are under `src/baremetal/20_pwm/` unless another stage is named.

| component | source | state | operations | what is hard | correctness |
|---|---|---|---|---|---|
| interrupts | `project/start.S`, `bsp/int`, `nxp/core_ca7.h` | vector table, nesting counter, CPSR.I, LR_svc, GIC enables, active interrupt | reset, `int_init`, `irq_handler_register`, IRQ entry, dispatch, return | the order of the stores that open an interrupt path; spurious interrupts; restoring what was interrupted | no dispatch to an unregistered handler; main resumes intact; every interrupt is served |
| delay | `bsp/delay` | GPT1 counter, time added up | `delay_us`, `delay_ms` | wrap-around; handlers running between two polls | never early, boundedly late, returns |
| I2C master | `bsp/i2c` | I2CR, I2SR, buffers, status | start, repeated start, write, read, stop, whole transfer | dummy reads, the acknowledge and stop that must come one byte early, errors in the middle | the wire carries the request; the bus is released; the status is true |
| backlight | `bsp/pwm`, `bsp/key`, `project/main.c` | duty, PWM FIFO, period | set duty, sample interrupt, main's key loop | main and handler both write the FIFO; writes to a full FIFO are lost | brightness never goes back; settles on the last duty |
| debounced key | `bsp/key_filter`, `bsp/beep`, `11_key_filter` | edge flag, EPIT1, beeper | edge handler, timer handler | edge, expiry and handlers race | one toggle per press, and one if it is held |
| touch | `bsp/touch`, `19_touch` | `gt9147_dev`, the panel's buffer, the pin's mode | init, handler, display loop | interrupt opened in the middle of the init; lost edges; level interrupts; failing transfers | I2C2 not shared; reports not lost; init ends |
| GPIO helpers | `bsp/gpio` | DR, GDIR, ICR, EDGE_SEL, IMR, ISR | every function | read-modify-write of registers that pins share; write-1-to-clear | pins do not disturb each other |
| clock and calendar | `bsp/rtc`, `16_rtc` | two counter registers, enable bit | set, read, convert | halves read and written while the clock counts; leap years | what is set is what runs; what is read is current |
| polled key, LED, external key interrupt, EPIT1 LED | `bsp/key`, `bsp/led`, `bsp/exit`, `bsp/epit` | a pin each | init, handler | order of init; uninitialised `irq_mode` | in `Irq`, `Gpio`, `Backlight` |
| light sensor | `bsp/ap3216c`, `17_i2c` | sensor mode, reading | reset, check, read | statuses that are ignored, transfers cut short, a sensor that measures while it is read | ready means on; what is shown was measured |
| SPI, motion sensor | `bsp/spi`, `bsp/icm20608`, `18_spi` | chip select, registers, reading | byte exchange, register access, scaling | frames of bytes, lost accesses, waits without timeout | configured as meant; scaled by the range in force |
| UART | `bsp/uart` | baud-rate registers | set baud rate, init, putc | reduction of the fraction to 16 bits | the rate is met or nothing is written |
| LCD drawing | `bsp/lcd/lcdapi.c` | frame buffer | line, circle, character, number | error terms, ends of loops, edges of the screen | the pixels are those of the figure |
| clocks | `bsp/clk` | PLLs, dividers, muxes | `clock_init` | moving the core off the clock being changed; a handshake | the documented rates from any setting of the boot ROM |
| environment on MMC | `src/uboot/common/env_mmc.c`, `env_common.c` | two copies on the device, serial number, copy in memory | boot, save | power failing between two blocks, writes failing, the serial number's wrap | a save is atomic; what is reported saved is found |
| network load | `src/uboot/net/tftp.c`, `net.c`, `arp.c` | state of the client, timers, packets under way | packet and timeout handlers, packet loop, restart | loss, repetition, reordering, timeouts that race answers, 16-bit block numbers | what is reported loaded is the file; the load ends |

How they interact: every driver with an interrupt goes through `int` and `gpio`;
`touch` and the light sensor use `i2c`; nearly everything uses `delay`; `main` of
each stage composes them, after `clock_init` and, in stages 16 to 18, the console
and the screen (`Board`). One property crosses drivers: `pin_int_clear` of one
driver clears the flags of the others on the same port (`gpio_clear`).

## Modules

The names of actions and variables are the code's. An action is what the code does
between two points where something else may happen: an interrupt, a device event,
or a poll of a device.

- **`Irq`** — `mode` is where the core is (`main` or a stage of `IRQ_Handler`).
  `Reset_Handler`, `GIC_Init`, `irq_table_init`, `set_VBAR` are main's first steps,
  `InitStep` one store of a driver's init function in that function's order;
  `TakeIrq`, `IRQ_Handler`, `sys_irq_handler`, `HandlerReturns`, `EndOfInterrupt`
  are the interrupt path; `Raise` and `Withdraw` the devices. What a handler does is
  reduced to clearing its device. `epit1_init` opens its line at the device and at the GIC
  before it registers its handler, and starts the timer last; `leftover` is a compare flag
  that was latched before the program started.
- **`Delay`** — `Tick` is a microsecond of GPT1, `delay_us` and `Poll` the reads of
  the counter. The core may be away for `MaxAway` ticks between two reads.
- **`I2c`** — each action is what `i2c.c` does from one wait to the next; `wire` is
  what the master put on the bus. A byte may be refused, arbitration lost, the bus
  stay busy. `MCI2c` gives the transfers that `ap3216c.c` and `gt9147.c` make, and
  transfers without data or without a register, which no driver asks for; `held` marks
  that one without data has returned and kept the bus.
- **`Xfer`** — what a caller of `i2c_master_transfer` may rely on: one step that returns
  a status and has moved some of the bytes. `I2c` implements it (`ImplementsXfer`, with
  `pc`, `xfer`, `Carried` and the buffer mapped to `Xfer`'s variables), and `Ap3216c` is
  built on it. It says what the code does: OK after a write does not mean written.
- **`Backlight`** — main's loop, `pwm1_set_duty`, `pwm1_irq_handler` and the FIFO.
  A sample carries the number of the store to `bl_dev.duty` it was computed from.
- **`KeyFilter`** — `key_filter.c` with a contact that bounces, and EPIT1 as a
  countdown that reloads itself.
- **`Touch`** — `gt9147_init` statement by statement, the handler transfer by
  transfer, main's display loop, and a panel in any of its four interrupt modes that
  keeps a report until it is acknowledged. Coordinates are represented by the report
  they come from. A failed read leaves the buffer as it was or as garbage, as the
  code, which ignores the result, does.
- **`Gpio`** — registers as sets of pins. `gpio_init` is the sequence of its stores;
  `asked` records what was asked for each pin.
- **`Rtc`** — the counter in its two registers and the enable bit that takes effect
  late; C leaves the order of the two reads in `rtc_get_seconds` open, so both occur.
- **`Calendar`** — `rtc_data_to_second` and `rtc_second_to_date` as functions,
  checked against a calendar. Seconds are kept as days and rest, since they exceed 2^31.
- **`Clk`** — `clock_init` store by store; `busy` is the handshake of line 73.
- **`Uart`** — `uart_set_baudrate` as a function, the width of the fraction a parameter.
- **`Lcd`** — line, circle, character cell and number as functions to pixels or places.
- **`Ap3216c`** — `ap3216c_init` with main's retries, then readings of six transfers each,
  with a sensor that resets slowly and measures at any time.
- **`Icm20608`** — `icm20608_init` and `icm20608_get_data` as lists of register accesses,
  each framed by the chip select and moved byte by byte; an access may get lost. The chip
  measures signed 16-bit values, which the driver puts together from two bytes.
- **`Board`** — `main` of stages 11, 16, 17 and 18 over `Clk`, `Uart`, `Lcd`, `KeyFilter`,
  `Rtc`, `Ap3216c` and `Icm20608`: `stage` is the program, `up` the calls of main that
  have returned. What a stage does not use stays in its initial state. `MCBoard` gives
  the measurements.
- **`Env`** — U-Boot's environment: `env_relocate_spec` at boot, `saveenv`, and one block
  of a write at a time; the power may go, and reads and writes may fail, at any moment.
  Both forms of the source, with and without a redundant copy, are initial states. An
  import that fails leaves the default environment, as an unreadable device does.
- **`Tftp`** — one turn of `net_loop` in four steps, the handlers of `tftp.c`, the wait for
  the server's address, `net_start_again`, and a server and a network that are external.
  A setup says which file, server, network and environment variables there are: `netretry`
  as a number or "yes" (`retry_forever`), `ethrotate`, and what `net_check_prereq` finds.
  `MCTftp` gives the setups. There is one interface.

`IrqProofs`, `BspProofs` (`Delay` and `Gpio`), `I2cProofs`, `BacklightProofs`,
`TouchProofs`, `SensorProofs`, `BoardProofs` and `EnvProofs` hold the proofs.
`Gpio` names its specification `GpioSpec`, so that it can stand beside `Delay`.
A definition whose comment begins "Mutated form" is a plausible bug, used to make
sure that the property it belongs to can fail.

## Runs

| run | checks | bounds, and why they are enough |
|---|---|---|
| `irq` | `NoDefaultDispatch`, `VectorsReady`, `MainResumesIntact`, `Served` | the four lines the firmware uses; two device events: one that is being served and one that arrives or is withdrawn meanwhile. `NoDefaultDispatch` and `Served` except an EPIT1 flag latched before the program started, which does reach the default handler: `epit1_init` does not clear it. All but `Served` proved for any |
| `delay` | `TypeOK`, `NeverEarly`, `NeverVeryLate`, `Returns` | counter modulo 8, passes of 5, gaps of up to 3: shorter than a revolution, which `NeverVeryLate` needs. `NeverEarly` does not need it, and is proved for gaps of any length |
| `i2c` | `WireFollows`, `ReleasesBus`, `ImplementsXfer`, `TransferReturns` | three transfers in a row, so that a failed one is followed by others; 2 polls for the stop. Transfers without data are among them: `ReleasesBus` says that they, and no others, keep the bus. All but `TransferReturns` proved for any set of transfers |
| `backlight` | `TypeOK`, `NeverBack`, `Settles` | FIFO of 4 as in hardware; five changes: more than the FIFO holds. `NeverBack` proved for any |
| `touch` | `BusExclusive`, `LastReportKept`, `FailedInitIsClosed`, `DisplaySettles` | all modes, failures, two reports of up to two points, so that a report arrives while another is read. `DisplaySettles` is about edge modes and transfers that succeed; the others are proved for any number of reports and points |
| `gpio` | `AsAsked` | pins 0 and 16, whose fields have the same place in ICR1 and ICR2. Pin 16 belongs to ICR2, in the code and in the hardware; the comments at `gpio.c:79` and `:82` say 0 to 16 and 17 to 31. Proved for any |
| `env` | `BackupKept`, `SaveIsAtomic`, `SavedIsStored` | two blocks of two contents, so that a copy can be half written; four serial numbers, so that they wrap. No bound on saves, failures and power cuts. `BackupKept` and `SaveIsAtomic` except a session whose boot could not read the device; `SaveIsAtomic` also what follows a failed read or write, and `BackupKept` an environment that only a failed write has stored. All three proved for any |
| `tftp` | `LoadedIsFile`, `AckedIsStored`, `WaitsArmed`, `Terminates` | blocks of 1 or 2 bytes numbered modulo 4: a file of 5 blocks, so that numbers wrap, and files of 2 and 3, whose packets are reordered as well, so that an older block or the OACK comes late; 2 sessions of the server, 1 packet under way to it and 2 from it, 1 timeout per attempt; one attempt, two, or any number (`netretry` "yes"). `Terminates` says that `net_loop` returns, except that with "yes" it may start a new attempt again and again: there it does not return while the server is unreachable |
| `board` | see below | see below |

The run `board` has the programs of four stages:

| property | says | bounds |
|---|---|---|
| `RatesRight`, `ClockSwitches` | after `clock_init` the core has 792 MHz and the buses 132, 66 and 66, and on the way no clock is changed under its user | every combination of the fields the rates depend on. Proved |
| `OncePerPress`, `HeldIsRegistered` | a press of the debounced key counts once | timer 4 ticks, bounce 3 (shorter than the timer), pause 5 (longer). Proved for any such timing |
| `SetTakes`, `ClockRuns`, `QuietReadIsCurrent` | the clock starts from what was set, runs whenever main works, and is read right while the high register stands still | registers of 4 and 3 values, so that carries happen at once. Proved for any |
| `ConversionsRight` | dates and seconds convert into each other | every day of 1970 to 2099, at three times of day |
| `SensorsReady` | a sensor that main takes for ready is set up | 3 transfers that fail or are cut short; 2 lost SPI accesses: a retry can fail as well. Proved for any number |
| `ReadingsShown` | what is shown was measured, and scaled by the range in force; a motion below zero is shown 65536 too high, as the code does | two measurements that use every bit, of both signs, valid and not. Proved for every measurement |
| `ScreenRight` | line, circle, character and number against reference definitions | all pixels of a screen of 14 by 18, fonts of 12 and 16, radii to 30, numbers to 1099 in 1 to 4 places |
| `BaudSet` | the registers give the rate to 3%, and what `numerator / divider` cuts off, or are left alone; the console gets exactly 5, 71, 3124 | a 4-bit fraction, so that reduction happens, with 80 pairs of clock and rate |
| `KeepsShowing` | stages 16 to 18 show their values again and again | as above |

The type invariants of `Irq`, `Gpio` (`GpioTypeOK`), `Env` and `Touch` and
`Irq!CountsNesting` are not in the runs, since they are proved for every instance;
those of `I2c`, `Tftp` and `Board` are there to be listed when a module is changed, and hold.

Three more runs show where the code does not do what a comment says of it:

| run | code | comment | what happens |
|---|---|---|---|
| `i2c_write` | `i2c_master_write` | the result tells success | a refused last byte is not noticed |
| `touch_level` | `gt9147_init` line 169 | a delay here hangs the program, cause unknown | one cause: until `initfalg` is set the handler leaves a level interrupt pending, so that a report in this window hangs the init; a delay makes the window longer |
| `gpio_clear` | `pin_int_clear` | clears the pin's flag | clears every pin's |

Nine smaller disagreements have a property that TLC violates but no run of their own;
listing the property as an INVARIANT (`Debounced`, `SavedAlwaysStored`: as a PROPERTY) in the cfg of the
module's run gives the trace:

| property | code | comment | what happens |
|---|---|---|---|
| `Irq!NestingAllowed` | `start.S`, `cps #0x13` | other interrupts are allowed from here | the instruction leaves CPSR.I set; nothing nests |
| `Backlight!OneStepPerPress` | `key_get_val` | `key_act` marks the press | it is a local variable, so a held key steps again and again |
| `KeyFilter!Debounced` | timer handler | the key is debounced by the timer | an edge at the moment of expiry is not |
| `Touch!IntFlagMarks` | `gt9147_init` line 175 | `intflag` marks an interrupt | it is reset after handlers may have set it |
| `Touch!PointsOfOneReport` | line 331 | reads the current points | the panel may refill its buffer before they are read |
| `Icm20608!SignKept` | `icm20608_get_data` | `icm20608.h:93` to `:99`: the raw values are `signed int` | a cast to `unsigned short` comes first: a negative measurement is shown 65536 too large |
| `Rtc!ReadIsCurrent` | `rtc_get_seconds` | gets the current seconds | a carry between the two reads gives a time a whole high-register step off |
| `Env!SavedAlwaysStored` | `saveenv`, `env_relocate_spec` | `saveenv` prints "done" | after a boot that could not read the device, or after failed saves across the serial number's wrap, the next boot may find the older copy |
| `Tftp!NoFalseSuccess` | `net_start_again`, `net_loop` | `cmd/net.c:240`, of a result 0: "no file was loaded (no errors though)" | with `netretry` set and one interface, a failed load returns `eth_init`'s 0 instead of an error |

Things seen while modelling that no property is about: `clock_init` does not wait for
the PLL to lock (line 42), and lets AHB reach 176 MHz between lines 67 and 68 and IPG 132 MHz
between lines 87 and 88, for the time of a store; `lcd_fill` includes the column
`width` and the row `height`; `lcd_draw_line` to the left or upwards does not end, its
differences being unsigned (no stage draws one); `lcd_draw_circle` leaves out
a pixel on the diagonal; `lcd_show_char` shows only a column of a cell that touches the
bottom; `icm20608_init`
checks nothing but the ID, so that `SensorsReady` can speak only of calls without a lost
access; a byte of the light sensor that is not read is shown as 0, so that
`ReadingsShown` excepts readings with a failed transfer.

## Fairness

Safety properties need none. `Irq`: the core goes on with an interrupt it has begun.
`Delay`: GPT1 ticks and the core polls. `I2c`: the controller finishes a byte that it
shifts, and the driver goes on when the flag it waits for is set. `Backlight`: main
and handler go on, and PWM periods end. `Touch`: handlers go on; main goes on if
it can do so again and again (strong fairness: the pulses of a panel are
milliseconds apart, a handler takes less); a panel in an edge mode repeats its pulse
until it is acknowledged. `Tftp`: `net_loop` polls and never blocks (weak fairness of its
turns), and the time it reads goes on, so that a timer that stays armed runs out (strong
fairness of finding it run out); nothing is assumed of the server or the network.
`Board`: main goes on, the handshake of the clock controller and the enable bit of the
clock take effect; transfers may fail `MaxFaults` and SPI accesses get lost `MaxLost`
times, because main retries for as long as they do. All of these are one core
executing and hardware counting.
The repeated pulse is the only assumption about what another device does: with a panel that pulses once per
report, an edge raised while the handler runs would be lost for good, because the
handler clears the flag last. `touch_level` is a violation under the same fairness.

Deadlock is checked where the system never stops; `CHECK_DEADLOCK FALSE` stands
where a bound on events or calls ends a behaviour.

## Proofs

Every theorem has the form `Spec => []P` (or `[][A]_vars`, or the refinement of
`Xfer`), from an inductive invariant. Assumptions are the named `ASSUME`s of the
modules, and nothing else. The inductive invariants were checked by TLC on the
runs' instances before they were proved.

- **`IrqProofs`**: `TypeCorrect`, `DispatchIsSafe`, `VectorsAreReady`,
  `ResumesIntact`, `NestingIsCounted`, for every set of vectors, every numbering of the
  lines and any number of events. `IInv` adds that how far each driver's init has got
  implies which of its enables are set (`BootInv`, `PathInv`), and what LR, the
  stack, the mask and the counter are at each stage of the handler (`CpuInv`). The key
  facts: the store that opens a path comes after the registration (`RegisterIsSecond`);
  the EPIT's does not, but its timer starts after it (`StartIsLast`), so that an earlier
  flag is one that was left over.
- **`BspProofs`**, delay: `DelayTypes`, `DelayNeverEarly`, `DelayNeverVeryLate`, for every
  counter width and argument. `NeverVeryLateInv` relates the time added up to the time elapsed:
  what a poll adds is at most what passed since the last, and misses one tick per wrap.
  GPIO: `GpioTypes`, `PinsAsAsked`, for every set of pins of a port. `AsAsked` says nothing
  of the pin a call is working on; `GpioInv` follows that pin through the stores of
  `gpio_init` (`MidCall`).
- **`I2cProofs`**: `WireFollowsTransfer`, `EveryReturnReleases`, `TransferImplementsXfer`,
  for every set of transfers of any length, any number of calls, and whatever slave and
  other masters do. None of the three is inductive. `IInv` says which byte of the transfer
  each of the driver's waits is about (`Place`, from the counters the driver decrements),
  and that the wire holds exactly the bytes before it (`Holds`), in each of the three
  states that byte can be in: under way, moved, lost to another master (`MovingInv`);
  what has been put in the buffer (`BufferInv`); at the stop and at the return, that
  the status matches how far the wire got (`OutcomeInv`); and that a bus kept by a transfer
  without data turns every later call away (`HeldInv`). The refinement maps a whole
  call to one step of `Xfer`, the return of `i2c_master_transfer`; the steps before it
  change nothing that `Xfer` sees (`CallerSees`).
- **`BacklightProofs`**: `TypeCorrect`, `BrightnessNeverBack`, for every depth and water
  mark. `IInv` adds that no sample in FIFO or output is newer than the last store.
- **`TouchProofs`**: `TypesKept`, `HandlerKeepsOffBus`, `ReportIsKept`, `FailureIsClosed`,
  in every interrupt mode, for any number of reports and points. `IInv` says which effects
  of `gt9147_init` are there at each of its statements (`InitInv`), that the handler gets
  as far as a transfer only after `initfalg` (`HandlerInv`), that the pin's mode is the
  panel's (`PinInv`), and that whenever the handler is entered after `initfalg` its report
  is still in the panel's buffer (`ReportInv`): without it a second run for the same report
  would store the 0 of an empty buffer.
- **`SensorProofs`**: the two sensors alone. `ApInv` says that a transfer under way is the one the
  driver asked for, that the sensor has left its reset when the mode is written, and that
  the bytes read so far are the registers of one sample; `Decode` gives the measurement
  back from them (`DecodeRight`). `IcmInv` says that, as long as no access is lost, chip
  and driver agree where in which access they are (`FrameInv`), that every register the
  list has passed holds what was written to it (`ConfigInv`), and which register each byte
  received is from (`RxInv`); two bytes give the word back up to its sign (`Word`, `MotionInv`).
- **`BoardProofs`**: what `main` of the stages relies on. The components share no
  variable, and a step of the board is a step of one of them or leaves it alone
  (`ClkSteps`, `ApSteps`, `IcmSteps`, `KeySteps`, `RtcSteps`).
  - `RatesAreRight`, `SwitchesAreSafe`: `ClkInv` says which fields have been set at each
    store, and that the handshake is pending only before the tenth.
  - `SensorsAreReady`, `ReadingsAreShown`: from `ApInv` and `IcmInv`, for any number of
    failures and retries.
  - `PressCountsOnce`, `HeldPressCounts`, for every time of the timer that is longer than
    a bounce and shorter than the gap between presses (`KeyFilterAssumption`).
    `OncePerPress` is not inductive: whether the timer can expire depends on when it was
    started. `KeyInv` bounds `cnt + since`, from below while the contact bounces
    (`PressInv`, `ReleaseInv`: the timer cannot expire) and from above afterwards
    (`DownInv`, `UpInv`: it has, before the next press).
  - `SetIsTaken`, `ClockKeepsRunning`, `QuietReadsAreCurrent`, for every size of the two
    registers. `RtcInv` says that the counter stands still between the two stores and that
    `tmp` remembers a running clock; `ReadInv` that a part that has been read lies between
    its value at the beginning and its value now, the low one as long as the high one has
    not moved. Rests on the uniqueness of quotient and remainder (`Unique`, `DivOf`).
- **`EnvProofs`**: `TypeCorrect`, `BackupIsKept`, `SavesAreAtomic`, `SavesAreStored`, for
  every number of blocks, contents and range of serial numbers. The three are action
  properties. `IInv` says what of a copy has been written (`WriteInv`) and, as long as
  nothing has failed, that memory knows the copy a boot would use and its serial number
  (`SerialInv`); the key fact is `SuccessorIsNewer`, at the wrap as well.

Only model-checked: liveness (`Served`, `Returns`, `TransferReturns`, `Settles`,
`DisplaySettles`, `Terminates`, `KeepsShowing`), which needs fairness and ENABLED; the
calendar, the drawing functions and the baud rate (`ConversionsRight`, `ScreenRight`,
`BaudSet`), which are computed by recursion and would need induction over data; and
`Tftp`.

## What is not modelled

- Pin multiplexing and pad settings; caches and the MMU, which `start.S` turns off; bus
  ordering between core and device. `printf` is text formatting.
- The LCD controller (`lcd.c`): a list of register values per panel, with no state that
  changes afterwards. Of `lcdapi.c`, `lcd_draw_rectangle` is four lines; strings and
  `lcd_show_xnum` repeat what is modelled. Fonts are data.
- UART: `getc`, and the control registers but for the baud rate. SPI: the settings of
  `spi_init`, and the waits of `spi_ch0_rw_byte`, which have no timeout. ICM20608: the floating-point results. Clocks: the PFDs nothing here uses.
- `mpu9250` is not built; `gt9147_send_cfg` is not called. That the panel reports at most
  five points is an assumption (`TouchAssumption`): its count has four bits, the arrays
  five places.
- An I2C transfer is one step of `Touch`'s handler: the panel changes its buffer between
  transfers, not within one.
- `Tftp`: a new attempt is taken to use a port that no session and no packet still knows
  (the code takes it from a timer); boards with several interfaces; multicast, `tftpput` and the server mode; with block numbers that wrap, the network does
  not reorder (a packet would have to be 65536 blocks late); without, it does. `Env`: the CRC is taken to
  tell all contents apart.
- The rest of U-Boot: board start-up, drivers, commands, the other network protocols, file
  systems. It is vendored, some 2.6 million lines, and each part would be a project of its
  own; the environment and the network load were chosen because power cuts and packet
  loss are part of their contract. `imxdownload` is a binary. Stages 01 to 08 have no
  driver that a later stage does not have, and no interrupts.

## Plan

- Prove `WaitsArmed` and `AckedIsStored` of `Tftp` for every file and block size.
- Move `Touch` onto `Xfer`, and put two drivers of one port under `Irq`, where
  `gpio_clear` meets real handlers.
