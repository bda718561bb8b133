# VCU firmware: TLA+ models, checks and proofs

The repository is the firmware of a vehicle control unit for an electric race
car: an STM32F103 under FreeRTOS that reads two accelerator sensors and a brake
sensor, drives the shutdown circuit, the brake light and the ready-to-drive
buzzer, and sends torque commands to the inverter over CAN. This directory
models what of it decides and interacts, checks it with TLC and proves the
central results with TLAPS. Paths below are relative to `src/`.

## The system

| Component | State | Operations | Hard part | What makes it correct |
|---|---|---|---|---|
| Safety monitor, `Core/app/safety_task.c` | pedal travel, torque command, circuit output, brake light | one 5 ms iteration: acquire, evaluate, report, drive the circuit, notify, feed the watchdog | a hung conversion; an overrun | cuts exactly when the rules call for it; circuit follows the verdict |
| APPS and brake-throttle logic, `Core/control/apps.c`, `Core/safety/plausibility.c`, `Core/control/torque.c` | persistence counter, two latches | update per iteration | saturation, limits, overlapping latches | no torque back under a pressed pedal |
| Fault registry, `Core/safety/fault.c` | one word shared by all tasks | set, clear, test | load-modify-store without a lock | the gate sees what the monitor reported |
| Ready-to-drive sequence, `Core/app/rtd_task.c`, `Core/control/state_machine.c` | `vcu_state`, buzzer, start tick | 50 ms iteration: sample, fault override, switch | two reads of the registry; relative delay; tick wrap | buzzer and state agree; Drive only after the full buzzer |
| CAN transmit, `Core/app/canbus_task.c` | notification, local torque | wait, gate, send, report | check then act against the monitor | no torque under a standing inhibition |
| CLI task, `Core/app/cli_task.c` | - | clears its flag at 10 Hz | lost updates | does not disturb the others |
| Dashboard, `Core/app/dashboard_task.c`, `Core/drivers/dashboard.c`, `HAL_UART_Transmit` | line buffer, UART handle | telemetry at 5 Hz, speed update, report | lowest priority, preempted anywhere, between flag and clock too; a line that times out | does not disturb the others; no cut goes unreported; recovers |
| Pedal conversion, `Core/drivers/pot.c`, `map.c` | 50 samples a channel | scale, clamp, average | delay of the filter | bounded delay of cut and release |
| Brake conversion, `Core/drivers/pressure_sense.c` | - | scale, clamp | - | stays in 0..100 |
| CAN command watchdog, `fault.c:33-58`, `app.c:83-96` | `since_rx_ms`, `timed_out` | update (monitor), feed (receive interrupt) | interrupt inside the update | silence is never missed |
| Speed sensor, `Core/drivers/speed_sensor.c` | `pulses`, `hz` | edge (interrupt), update (dashboard) | interrupt inside the update | no edge counted twice |
| ADC and IWDG driver, `Core/drivers/stm32f103.c`, the HAL's ADC | registers of two converters | switch, start, poll, read, stop; watchdog start and feed | unbounded poll, ignored statuses, a converter shared by two sensors | a reading is a fresh sample of its sensor; a hang ends in a reset with the circuit open |
| Start-up, `Core/Src/main.c`, `stm32f1xx_hal_msp.c`, `Core/app/app.c`, `Core/bsp/board.c` | pins, outputs, CAN state, interrupt mask | 21 calls from `HAL_Init` to `osKernelStart` | a failing or waiting call, before or behind the watchdog's start | stands still only with the circuit open; completes when it can |
| CAN catalogue, HAL mailboxes and FIFO, `Core/proto/can_catalog.c`, `stm32f1xx_hal_can.c` | three mailboxes, a FIFO of three, bus state | encode, decode, add, receive | no retransmission, no bus-off recovery, order by mailbox, overrun, extended frames | stale torque is bounded; zero gets through; bus-off is reported; a silent bus is reported |
| FreeRTOS as the tasks use it, `tasks.c`, `cmsis_os2.c` | tick count, delay lists, pended ticks, notification | tick, delays, suspend and resume, notify, wait | wrap of the count, ticks while suspended, equal priorities | a sleep lasts what was asked; the highest ready task runs; no wake-up lost |
| CLI driver, FatFs glue, C stubs, vendored code | - | - | - | not modelled |

Interactions. All tasks share `app_data_t app`. The monitor writes the pedals,
the torque command, the circuit and three fault flags, and notifies
`canbus_task`; `canbus_task` reads the registry and the torque command; `rtd_task`
reads the registry and the brake light; every task writes its own flag into the
shared registry word. Two interrupts touch application state: EXTI2
(speed sensor) and CAN RX0 (watchdog and DC-bus value). Priorities: monitor 24,
rtd 16, CLI 15, CAN 14, dashboard 4 (`app.h:44-49`). CubeMX's `defaultTask` has
the monitor's priority but only delays and touches nothing of the application;
`Kernel` has it, because it shares the monitor's time slices.

## Modules and the code

| Module | Models |
|---|---|
| `FaultManager` | the registry's operations on a set of flags |
| `PedalLogic` | the hardware-free decisions as operators |
| `SafetyMonitor` | one iteration of the monitor per step, alone: `Acquire` (`safety_task.c:41-57`), `Evaluate` (`:59-88`) |
| `SafetyTimeline` | the monitor with history variables that restate the rules on the travels of the pedals, without its counters and its casts |
| `PedalChain` | the monitor behind `map()` and the moving average |
| `Interlock` | abstract specification of the safety path: cuts, brake sensor, circuit, pedal |
| `RtdMachine` | the two halves of an iteration of `rtd_task`, shared by the next two |
| `VCU` | the five tasks under preemptive priorities, with the registry's load and store as separate steps, ADC hang and watchdog reset |
| `RtdSequence` | `rtd_task` in time: period, lateness, wrapping ticks, 3 s buzzer |
| `IndependentWatchdog` | the independent watchdog in time: its inexact half second against start-up, readings of any length, the period and its overruns (`safety_task.c:37-97`, `stm32f103.c:87-128`) |
| `CanWatchdog` | `can_wd_update`, access by access, against `can_wd_on_rx`; the armed build |
| `SpeedSensor` | edge interrupt against the update |
| `Boot` | start-up call by call, one action per initialisation, with the pins each configures, the kernel's interrupt mask, a CAN bus that may be held, and the watchdog |
| `Kernel` | the kernel under the tasks: `xTaskIncrementTick` and its two delay lists, pended ticks and `xTaskResumeAll`, `osDelayUntil`, `osDelay`, `xTaskNotify` and `xTaskNotifyWait`, the choice of the running task |
| `Alarm` | abstract specification of a sleep: as many ticks as were asked for |
| `CanTransmit` | `canbus_task`, the torque codec, `HAL_CAN_AddTxMessage` and the mailboxes, with lost frames and bus-off |
| `CanReceive` | the receive FIFO, its interrupt and callback, around `CanWatchdog` |
| `AnalogInput` | the monitor's three readings through `stm32f103_adc_read` and the HAL, with the converters' registers |
| `DashboardLink` | the dashboard's lines through `HAL_UART_Transmit`, with the transmitter's registers |
| `MC*` | constants for TLC; `MCHardware` puts the modules below the tasks next to each other, `MCTiming` those of start-up, the watchdog and `rtd_task` in time |
| `*_proofs` | theorems |

`VCU` composes `SafetyMonitor`, `RtdMachine` and the registry; `PedalChain` and
`SafetyTimeline` extend `SafetyMonitor`. `PedalChain` implements `SafetyMonitor`;
`SafetyMonitor` and `VCU` implement `Interlock` under one mapping (`Abstract`), and
`Kernel` implements `Alarm`: `left` of a sleeping task is the distance of its wake time from
the count, across the wrap, with the ticks still pended. `CanReceive` extends
`CanWatchdog`, and each of its behaviours is one of `CanWatchdog`.

Granularity. A step of a task is the longest stretch of code whose middle no
other task observes. An iteration of the monitor is one step: it has the highest
priority and blocks only in its last delay. The tasks below it are cut at every
shared access that matters: in `canbus_task` the gate, the load of the torque,
the send, and the load and store of its fault report. An update of the registry
is a load and a store (`LDR`, `ORR` or `BIC`, `STR`), as any build without a lock
makes it. A local variable that is dead is reset, so that it tells no states apart.

Abstractions. Percentages are integers in units of `1/Scale`; the rounding of
`float` near a threshold is not modelled. `VCU` has no clock: a delay ends at any
moment and the buzzer's time is over or not; `RtdSequence`, `Kernel` and
`IndependentWatchdog` keep time, and in the last two iterations take it. A line of telemetry is so many numbered bytes.
A sample is its sensor and whether it was started for the reading in progress.
`FAULT_CAN_TIMEOUT` is in the mask but nothing sets it in `VCU`, as in the build (`CAN_WATCHDOG_ARMED 0`).

The hardware. What the code cannot say is an assumption, named external in the
map. Of several pending frames with one identifier the lowest mailbox goes first;
a frame that fails is given up (`AutoRetransmission` off); bus-off leaves the other
frames where they are; a free mailbox of any number may take the next frame. A full
receive FIFO replaces its youngest frame. A converter follows `ADON`, and ends or
drops a conversion, in its own time or never; turning it off drops one. `TXE` says
that the data register is empty, `TC` that the shift register is too; the
transmitter may stop for good. `CanReceive` and `CanWatchdog` model the armed build
behind a filter that passes everything: in the code as it is nothing is received
(run `reception`).

Two facts of the code shaped the models. `map()` adds half the input range before
it divides, so an APPS sample is a half percent above the count's offset. And
`pot_get_percent` clamps before it averages, so the out-of-range test of `apps.c`
never fails in the composed program: `Pedal` in `SafetyMonitor` is 0..100, and the
averages of `PedalChain` stay in it (`ChainTypeOK`, proved for every filter).

## Runs

| Run | Shows | Bounds and why they are enough |
|---|---|---|
| `timeline` | the APPS cut is exactly what the samples' history calls for; the brake-throttle cut is exactly that of 11 % of brake and 26 % of throttle, which is what the casts to int make of "above 10 %" and "above 25 %" (the rule of `plausibility.h` itself is broken, see below); torque returns from an idle pedal | the code's 5 ms and 100 ms; pedals in half percents around the thresholds of idle, of the two cuts and of the deviation, the averages of 25 to 26 % included; brake counts of a released pedal, between 10 and 11 %, at 11 % and out of the sensor's band; saturation at 128 instead of 2^32, above the limit and reached |
| `chain` | a lasting disagreement cuts and opens the circuit within one filter length plus the limit; released pedals stop torque within one filter length; no sample moves the command by more than its weight (4 of 160 counts with 50 samples, in exact arithmetic) | filter of 3 instead of 50, limit of 2 iterations: all 4096 histories over open, released, 12.5 % and full; the delay is stated in the constants |
| `registry` | circuit never wrong; gate wrong only through `cli_task` or `canbus_task`; the tasks implement `Interlock` | monitor, CLI, CAN and dashboard; APPS limit 0 so that one bad sample cuts (persistence is `timeline`'s question); two pedals, two brake readings start and end all three faults |
| `tasks` | buzzer exactly in RTD; FAULT is not left early; a standing hard fault comes to show; frames keep flowing | monitor, rtd, CAN and dashboard (a source of lost updates) under fairness; the pedals influence neither sequence nor progress and are fixed; two brake readings start and end the hard fault and allow RTD |
| `timing` | see below: what races a clock | see below |
| `hardware` | see below: what lies under the tasks | see below |

Runs `timing` and `hardware` check several modules at once. They share no variable,
so a behaviour of the run is one of a single module (`unit` says of which, and the
others keep their initial state); the state space is the sum of theirs and not the
product, and each fairness condition names its unit. In `timing`:

| Module | Shows | Bounds and why they are enough |
|---|---|---|
| `Boot` | `StandsStillOpen`, `StartCompletes`: where start-up can stand still and with which output, and that it completes, after a hang too; `PinsKeepOwner`, `InterruptsWaitForTasks`; `HeldBusKeepsCircuitOpen` | all 21 calls; heaps with room for none, one or both of two mutexes; the bus changes at any time |
| `IndependentWatchdog` | `ClosedOnFreshSamples`: the circuit is never closed on samples older than twice the watchdog's longest time; `BitesOnlyHeldUp`: nothing but start-up and readings makes it bite | expiry between 8 and 11, a period of 3 and a lateness of 1: it may bite in the iteration after the one that hung, and periods overrun several times; both bounds are reached |
| `RtdSequence` | `BuzzerOvershootBounded`: the buzzer outlasts its time by less than a poll and its lateness (three seconds are the rule's limit, which the code so breaks: run `buzzer_limit`); `DriveOnlyAfterBuzzer`; `HeldDriverDrives` | a period of 2, a buzzer of 8 and a lateness of 1, so that several polls fall into a sound; the counter wraps at 16, every one to two sounds |

In `hardware`:

| Module | Shows | Bounds and why they are enough |
|---|---|---|
| `Kernel` | `SleepsToPeriod`, `PeriodNeverShort`, `KeepsAlarms`: delays are exact across wraps, pended ticks and late iterations; `HighestReadyRuns`, `NoLostWakeUp` | five tasks: the monitor and `defaultTask` on one priority, `canbus_task`, the dashboard and idle; periods 2, 1 and 4; the count wraps at 16, every 4 to 16 iterations; two ticks pended, iterations two ticks late, so the monitor overruns its period |
| `CanReceive` | `SilentBusIsReported`, `TimeoutNeedsRaceOrLoss`: no silence is missed, a false timeout needs a race or an overrun | timeout of three calls, saturation one and a part later; a FIFO of two instead of three, which overruns sooner |
| `CanTransmit` | `StaleFramesBounded`, `ZeroReachesInverter`, `BusOffIsReported` | the three mailboxes; the commands 0 and 160; the latter has a low byte above 127, which a signed byte would spoil |
| `SpeedSensor` | `EdgesAccounted` | four edges, any number of updates |
| `AnalogInput` | `CountIsItsSensors`: no ignored status hands an old or a foreign sample on; `ReadingsGoOn`: only a converter in trouble stops the task | waits of three ticks, above both timeouts of two |
| `DashboardLink` | `ClearMeansSent`, `CutOnlyLate`, `LinkRecovers`: timeouts come late, are reported, do not stop the task, and leave nothing behind | two lines of two bytes, timeout of one tick, a tick count that wraps at four; a line may be cut before, between and after its bytes, and the next finds its rest in the transmitter |

`HardwareTypeOK` joins the ranges of the five modules that have some. Each safety
property among these is also proved for every value of the bounds (see Proofs).
The ranges of the monitor (`MonitorTypeOK`), of the pedals' filters (`ChainTypeOK`),
of the tasks (`TypeOK`) and of the ready-to-drive sequence (`SequenceTypeOK`) are
proved and in no run, and so are `CutNeedsDisagreement` (nothing but a disagreement of
the raw readings still in the filters starts an accelerator cut) and `CircuitExactly`
(the circuit is closed exactly when no hard condition stands; run `registry` checks
the circuit among the other tasks).

Runs that refute a statement of the documentation or a comment:

| Run | Statement | What happens |
|---|---|---|
| `buzzer_limit` | `state_machine.h:23`: the buzzer's duration is within 1000 to 3000 ms (also `:12`, `rtd_task.c:70`) | `RTD_BUZZER_MS` is the upper limit itself, and `rtd_task` turns the buzzer off at the first poll at or after it |
| `torque_state` | `state_machine.h:31-33`: TS_ACTIVE is not yet driving, torque enabled from RTD | the send path never reads `vcu_state`; torque goes out in TS_OFF |
| `send_boundary` | `docs/faults.md:19-20`: inhibition is enforced at the send boundary | the monitor preempts `canbus_task` after its test; one frame carries the old torque |
| `lost_update` | `docs/faults.md:5-6`: faults latch until cleared explicitly | a preempted `fault_set`/`fault_clear` of a lower task erases the monitor's flag until the monitor's next report |
| `open_circuit` | `apps.h:11`: an open circuit on either channel is implausible | an open channel clamps to 0 % and agrees with a released pedal |
| `reception` | `docs/tasks.md:28`: CAN RX feeds the CAN watchdog; `stm32f1xx_hal_can.c:46-48`: configure the filters before the start | nothing calls `HAL_CAN_ConfigFilter`, and a controller whose filters are in initialisation mode takes no frame (a fact of the hardware, not of this code) |

The circuit itself is not affected by the lost updates: the monitor reports and
drives it in one uninterrupted iteration (`CircuitFollowsVerdict`). Other
points carry no run. The brake-throttle rule of `plausibility.h:8-9` and `:32` ("brake >
10% AND throttle > 25%") is not kept to the letter: `safety_task.c:54-55` casts both
to int before `bppc_update` compares them, so a throttle of 25 to 26 %, or a brake of
10 to 11 %, cuts nothing. `BppcCutExactly` states the thresholds that result, of 26 %
and 11 %, on the travels before the casts, and the samples of `timeline` lie on both
sides of them and in the band between. Smaller points: a hard fault shorter than
50 ms is never seen by `rtd_task`, so `vcu_state` may stay in DRIVE while the circuit
opens; an edge between the load and the reset of `pulses` is lost (`EdgesAccounted`
says that no other one is); `state_machine.h:33` says "buzzer done" of RTD, the state
in which the buzzer sounds, and `CANBUS_ISR` of `board.h:36` is unused.

Start-up has a property worth knowing. `HAL_CAN_Start` (`can_bus.c:15`) waits for an
idle bus with a timeout in HAL ticks. By then `osThreadNew` has raised `BASEPRI`,
and the port does not lower it before the scheduler starts (`port.c:133`, `:378`):
the tick's interrupt, of priority 15, is not taken, the timeout never expires, and
on a held bus the watchdog starts the program over until the bus is free. The
circuit stays open (`HeldBusKeepsCircuitOpen`), and the car starts when the bus
allows (`StartCompletes`). The same mask keeps the edge and receive interrupts
away from half-built data (`InterruptsWaitForTasks`). `StandsStillOpen` names the
exception: if `SystemClock_Config` fails, the output has not been driven yet. The
wait of `stm32f103_iwdg_init` comes before the watchdog is started; whether `SR`
clears then depends on the oscillator (`lsi` in `Boot`) and needs a look on hardware.

## Fairness

Safety properties use no fairness. `VCU!FairSpec` assumes: a delay ends (weak
fairness of `Wake`, the tick interrupt); the monitor runs when ready (weak
fairness, highest priority); an unfed watchdog expires (weak fairness, hardware);
and each lower task runs if it is enabled again and again (strong fairness). The
last one is what the load justifies: the monitor and `rtd_task` sleep most of
their periods, `cli_task` does almost nothing, and the dashboard's polled UART
output has the lowest priority. Weak fairness would not do, since the monitor
disables the lower tasks every 5 ms. `FramesKeepFlowing` and `StandingFaultShows`
need it; hanging is not fair, so `FramesKeepFlowing` excludes only behaviours that
hang infinitely often. `MCTiming` says that `rtd_task` goes on, that `main` goes on
while it can, and that an unfed watchdog expires; `IndependentWatchdog` needs no
fairness, for it has no liveness property.

In run `hardware` the fairness is that of the tasks too: the monitor is periodic and
`canbus_task` gets to run (`TransmitFairness`); the readings go on, and a converter
that works ends its conversion or follows `ADON` some time (`AnalogFairness`; a
dropped conversion is what `troubled` records); the dashboard gets to run and the
HAL's tick is taken (`LinkFairness`), and its transmitter is under none, so
`LinkRecovers` has its iterations end with a dead one. `ZeroReachesInverter` has its condition on the
bus in its statement: it lasts, and lets a frame through again and again.

## Proofs

Every safety invariant and every action property of the passing runs is also a
theorem, for every value of the constants that satisfies the named assumptions (a
positive period, a counter wide enough for the limit and one period, percentages in
0..100, 12-bit readings, a filter of any length, `Tasks` any subset).

- `SafetyMonitor_proofs`: type correctness; `TorqueReturnsFromIdle`; that a cut is in
  the registry and the circuit open when its iteration ends (`MonitorReportsCut`);
  `MonitorImplementsInterlock`. They rest on three facts about an iteration, stated
  on the action so that `VCU_proofs` cites them too: its reports make the inhibiting
  part of the registry what the checks found (`IterateReports`), the circuit follows
  (`IterateCircuit`), and a latch goes only with an idle pedal (`IterateKeepsLatches`).
- `PedalHistory_proofs`, first half: `AppsCutExactly`, `BppcCutExactly`, and the
  circuit (`CircuitExactly`). The inductive invariant relates the casts to the travels
  before them, the counter to the length of the current run of disagreement, capped by
  saturation on one side and by the history's cap on the other, the latch to the worst
  run since release, and the registry to the latches.
- `PedalHistory_proofs`, second half: the pedals from the raw counts on, for a filter
  of any length. `ChainInv` ties the recorded length of a disagreement to the entries
  of the two histories (as many of the newest ones deviate) and, once they fill the
  filter, to the persistence counter; the same for released samples; and the outputs
  to the averages. Without the entries the properties are not inductive: an average
  says nothing of what the next sample pushes out. From it follow `ChainTypeOK`,
  `DisagreementCutInTime`, `ReleaseStopsTorque`, `CutNeedsDisagreement` and, since a
  sample changes one summand, `TorqueIsSmooth`; and `ChainSpec` implies `MonitorSpec`
  and so `Interlock`. The sum of a history is a recursive function: that it exists
  (`SumExists`), and the inductions over its length, come from the well-foundedness of
  `<` on the naturals in its form for sets (`SetInduction`), because the induction
  theorems of the library take an operator.
- `VCU_proofs`: type correctness, and with `RegistryInv` the circuit, the gate,
  the buzzer, `FaultStateHolds` and the refinement of `Interlock`. `RegistryInv`
  has four parts: before the first iteration nobody but the monitor has run
  (`BootInv`); afterwards the circuit is the verdict's (`CircuitInv`); the
  inhibiting part of the registry is the verdict while nobody has overwritten
  it (`NoneInv`); and once the dashboard has, `canbus_task` waits without a
  notification (`DashInv`), because the dashboard runs only when it is blocked.
  Without the last two the gate's property is not inductive. The initial states
  map to initial states of `Interlock`, an iteration maps to `Sample`, a reset to
  `Restart`, everything else stutters.
- `Kernel_proofs`: all of `Kernel`'s properties and the refinement of `Alarm`, for any
  tasks, priorities and periods, provided twice a period and its lateness are less
  than the width of the count (with less room `osDelayUntil` cannot tell a late call
  from an early one). `KernelInv` says of every task where its wake time lies with
  respect to the count and the lists, that the earliest wake time the kernel
  remembers is never late, and how the ticks since an iteration began are split
  among the count, the pended ticks and the rest of the sleep.
- `Peripheral_proofs`. The watchdog: `SilenceIsReported` and `FalseTimeoutNeedsRace`,
  from an invariant that the counter, in memory or in the register, is never below the
  silence, and equal to it up to the timeout while no heartbeat has hit a call.
  Reception, for a FIFO of any size: each of its steps is one of `CanWatchdog` or a
  stutter, so its theorems carry over, and `ReceiveInv` ties the bus's silence to the
  watchdog's. Transmission, for any number of mailboxes: the codec gives back every
  command of 16 bits (`CodecRoundTrip`), and torque still to come plus torque that has
  come stays bounded (`StaleInv`). `EdgesAccounted`.
- `Timing_proofs`, the ready-to-drive sequence: types, `BuzzerOvershootBounded`,
  `DriveOnlyAfterBuzzer`, for every period, buzzer time, lateness and width of the
  count: the recorded sound is the wrapped difference the code computes. The watchdog:
  `ClosedOnFreshSamples` and `BitesOnlyHeldUp`, for every oscillator, period and
  lateness. `WatchInv` splits the watchdog's count into start-up and readings, lateness,
  and a delay of one period at most, and bounds the age of the samples by that count and
  one whole time of the watchdog: an iteration may be held up that long, drive the output
  on what it read before, and feed.
- `Hardware_proofs`: `CountIsItsSensors`, from the invariant that only the sensor that
  is read is converted, on its own channel, and that no end of conversion is left
  standing; `CutOnlyLate`, from the same equality of time and wrapped difference;
  `ClearMeansSent`, from `FlightInv`: while no line was cut, the bytes handed over
  are those on the wire and in the two registers, in order, behind what an earlier
  line left. For every number and length of lines, timeout and width of the count.
  And the composition: a step of the composed specification moves one unit and leaves
  the others (`OnePartMoves`), so it implements each of the six
  (`HardwareImplementsParts`), whose theorems then hold of it; `HardwareTypeOK`.
- `Boot_proofs`: `StandsStillOpen`, `InterruptsWaitForTasks`, `PinsKeepOwner`,
  `HeldBusKeepsCircuitOpen`, for a heap of any size. The inductive invariant says what
  holds from which call on: the output is driven once the ports are configured, the
  watchdog runs once it was started, the kernel's mask is up from the first call that
  raises it until the tasks start, no interrupt is enabled before the calls that enable
  it, and the pins configured so far are those of the calls so far, which are disjoint.

The theorems about the hardware rest on the assumptions on it named under
Abstractions: they are the actions of the models.

Only model-checked: the liveness properties (`FramesKeepFlowing`,
`StandingFaultShows`, `HeldDriverDrives`, `BusOffIsReported`, `ZeroReachesInverter`,
`ReadingsGoOn`, `LinkRecovers`, `StartCompletes`), because fairness and `ENABLED` are
out of the prover's reach. The rounding of `float` is in neither.

## Not modelled

- The unused CLI driver, the FatFs glue and the C library stubs: nothing of the
  application calls them, or they keep no state of it.
- Register values and clock configuration: one initialisation is one step of `Boot`
  that configures its pins and succeeds or not.
- The length of an iteration of the dashboard against the speed sensor's window
  (`dashboard_task.c:45`), listed as a hazard with no property.
- The rest of the vendored code. The repository holds some 165 000 lines of
  implementation, of which about 2 000 are the firmware's own; the rest is the chip's
  headers, HAL drivers for peripherals the program does not use, FreeRTOS and FatFs.
  The parts of the kernel and of the ADC, CAN and UART drivers the tasks reach are
  modelled; the program cannot reach most of the rest, so a model of it would say
  nothing about this system. The map's share of all lines is small for that reason.

`PROJECT.json` lists every component with its status, and the hazards.

## Plan

Everything the first plan named is done: the registry and the tasks, the monitor and
its timeline, the ready-to-drive sequence, the pedals, start-up, then the transmit
and receive paths, the kernel's timing with `defaultTask`, the converters and the
dashboard's link, and the proofs above, those about `PedalChain`, `Boot` and the
composed hardware being the last. What could follow: the safety half of the liveness
properties as theorems (what a bus-off, a hang or a held driver leaves unchanged until
it is answered), and the speed sensor's window against the dashboard's timeouts.
