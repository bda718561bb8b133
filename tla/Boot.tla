---------------------------------- MODULE Boot ----------------------------------
(***************************************************************************)
(* Start-up, from reset to the scheduler: main(), the peripheral           *)
(* initialisations it calls with their MSP halves, app_create() and        *)
(* board_init(), against a CAN bus that may be held, the independent       *)
(* watchdog and the interrupt mask the kernel leaves raised until the      *)
(* scheduler starts.  Afterwards only the circuit output and a hang of the *)
(* monitor are kept; SafetyMonitor and VCU have the rest.                  *)
(***************************************************************************)
EXTENDS Naturals, Sequences

CONSTANT Mutexes   \* mutexes stm32f103_init creates, 5 in the code

ASSUME BootAssumption == Mutexes \in Nat \ {0}

VARIABLES
  step,      \* position in StartUp of the call in progress
  halted,    \* the loop the program is in for good: "no", "Error_Handler", "assert", "adc"
  timebase,  \* TIM3, the HAL's time base, is started
  masked,    \* BASEPRI holds back every interrupt of priority 5 and below
  owner,     \* call that configured a pin, "none" after a reset
  sdc,       \* SDC_OP: "floating" while the pin is an input, "low", "high"
  iwdg,      \* "off", "waiting" for SR to clear, "on"
  can,       \* hcan.State: "reset", "ready", "listening", "error"
  nvic,      \* interrupts of the application that are enabled
  busIdle,   \* environment: the CAN bus shows the recessive bits CAN waits for
  holds,     \* environment: mutexes configTOTAL_HEAP_SIZE has room for
  lsi,       \* environment: SR clears before the watchdog is started
  stalled    \* history: start-up has waited for the bus since the reset, unfed

bootVars ==
  <<step, halted, timebase, masked, owner, sdc, iwdg, can, nvic, busIdle, holds, lsi, stalled>>
environment == <<busIdle, holds, lsi, stalled>>

-------------------------------------------------------------------------------
\* The pins each initialisation configures.

Port(port, numbers) == {<<port, k>> : k \in numbers}

SDC_OP == <<"B", 10>>

GpioPins == Port("A", {1, 4, 5}) \cup {<<"B", 2>>, SDC_OP} \cup Port("C", {0, 1, 13})
AdcPins == [ADC1 |-> {<<"C", 3>>, <<"A", 7>>}, ADC2 |-> {<<"C", 5>>, <<"B", 0>>}]
CanPins == Port("B", {8, 9})

\* Mutant: the pins of I2C2, one of them the circuit output's.
I2cPins_I2C2 == Port("B", {10, 11})

I2cPins == Port("B", {6, 7})
SpiPins == Port("B", 12..15)
UartPins == [USART1 |-> Port("A", 9..12), USART2 |-> Port("A", {2, 3})]
SpeedPins == Port("C", {2})

Pins == Port("A", 0..15) \cup Port("B", 0..15) \cup Port("C", 0..15)

-------------------------------------------------------------------------------
\* The order of start-up.

\* Mutant: the outputs are configured after the peripherals.
StartUp_GpioLate ==
  <<"HAL_Init", "SystemClock_Config", "MX_USART2_UART_Init", "MX_ADC1_Init",
    "MX_ADC2_Init", "MX_CAN_Init", "MX_GPIO_Init", "MX_FATFS_Init", "MX_I2C1_Init",
    "MX_SPI2_Init", "MX_USART1_UART_Init", "stm32f103_iwdg_init",
    "osKernelInitialize", "osThreadNew", "app_create", "stm32f103_init",
    "canbus_device_init", "speed_sensor_init", "HAL_CAN_ActivateNotification",
    "xTaskCreateStatic", "osKernelStart">>

StartUp ==
  <<"HAL_Init", "SystemClock_Config", "MX_GPIO_Init", "MX_USART2_UART_Init",
    "MX_ADC1_Init", "MX_ADC2_Init", "MX_CAN_Init", "MX_FATFS_Init", "MX_I2C1_Init",
    "MX_SPI2_Init", "MX_USART1_UART_Init", "stm32f103_iwdg_init",
    "osKernelInitialize", "osThreadNew", "app_create", "stm32f103_init",
    "canbus_device_init", "speed_sensor_init", "HAL_CAN_ActivateNotification",
    "xTaskCreateStatic", "osKernelStart">>

Running == step > Len(StartUp)
Called == {StartUp[k] : k \in 1..(step - 1)}
At(call) == ~Running /\ StartUp[step] = call /\ halted = "no"

Unowned == [p \in Pins |-> "none"]

Init ==
  /\ step = 1
  /\ halted = "no"
  /\ timebase = FALSE
  /\ masked = FALSE
  /\ owner = Unowned
  /\ sdc = "floating"
  /\ iwdg = "off"
  /\ can = "reset"
  /\ nvic = {}
  /\ busIdle \in BOOLEAN
  /\ holds \in 0..Mutexes
  /\ lsi \in BOOLEAN
  /\ stalled = FALSE

-------------------------------------------------------------------------------
\* What every call does: return to its caller, or never.

Return == step' = step + 1 /\ UNCHANGED halted
Halt(loop) == halted' = loop /\ UNCHANGED step
Error_Handler == Halt("Error_Handler")
Configure(call, pins) == owner' = [p \in Pins |-> IF p \in pins THEN call ELSE owner[p]]

\* A generated initialisation: the HAL calls the MSP half, which configures the
\* pins, sets the peripheral up, and the result is tested.
Tested(call, pins) ==
  /\ At(call)
  /\ Configure(call, pins)
  /\ Return \/ Error_Handler
  /\ UNCHANGED <<timebase, masked, sdc, iwdg, nvic, environment>>

\* The HAL's clock goes on: TIM3 counts and its interrupt, of priority 15, is
\* taken.
TickAlive == timebase /\ ~masked /\ halted # "Error_Handler"

\* HAL_Init, with HAL_MspInit and the time base; the result is not tested.
HAL_Init ==
  /\ At("HAL_Init")
  /\ timebase' = TRUE
  /\ Return
  /\ UNCHANGED <<masked, owner, sdc, iwdg, can, nvic, environment>>

SystemClock_Config ==
  /\ Tested("SystemClock_Config", {})
  /\ UNCHANGED can

MX_GPIO_Init ==
  /\ At("MX_GPIO_Init")
  /\ sdc' = "low"
  /\ Configure("MX_GPIO_Init", GpioPins)
  /\ nvic' = nvic \cup {"EXTI15_10"}
  /\ Return
  /\ UNCHANGED <<timebase, masked, iwdg, can, environment>>

MX_USART2_UART_Init ==
  /\ Tested("MX_USART2_UART_Init", UartPins.USART2)
  /\ UNCHANGED can

MX_ADC1_Init == Tested("MX_ADC1_Init", AdcPins.ADC1) /\ UNCHANGED can
MX_ADC2_Init == Tested("MX_ADC2_Init", AdcPins.ADC2) /\ UNCHANGED can

\* A controller that does not enter initialisation in time is an error.
MX_CAN_Init ==
  /\ Tested("MX_CAN_Init", CanPins)
  /\ can' = IF halted' = "no" THEN "ready" ELSE "error"

\* FATFS_LinkDriver's result is stored and not tested.
MX_FATFS_Init ==
  /\ At("MX_FATFS_Init")
  /\ Return
  /\ UNCHANGED <<timebase, masked, owner, sdc, iwdg, can, nvic, environment>>

MX_I2C1_Init == Tested("MX_I2C1_Init", I2cPins) /\ UNCHANGED can
MX_SPI2_Init == Tested("MX_SPI2_Init", SpiPins) /\ UNCHANGED can

MX_USART1_UART_Init ==
  /\ Tested("MX_USART1_UART_Init", UartPins.USART1)
  /\ UNCHANGED can

\* stm32f103_iwdg_init up to its wait: prescaler and reload are written.
IwdgWrite ==
  /\ At("stm32f103_iwdg_init")
  /\ iwdg = "off"
  /\ iwdg' = "waiting"
  /\ UNCHANGED <<step, halted, timebase, masked, owner, sdc, can, nvic, environment>>

\* The effect of IWDG_KEY_START.
iwdgStarted == "on"

\* SR has cleared; the wait has no limit.
IwdgStart ==
  /\ At("stm32f103_iwdg_init")
  /\ iwdg = "waiting"
  /\ lsi
  /\ iwdg' = iwdgStarted
  /\ Return
  /\ UNCHANGED <<timebase, masked, owner, sdc, can, nvic, environment>>

osKernelInitialize ==
  /\ At("osKernelInitialize")
  /\ Return
  /\ UNCHANGED <<timebase, masked, owner, sdc, iwdg, can, nvic, environment>>

\* Mutant: the nesting count starts at zero, and leaving lowers the mask again.
maskedByKernelCall_Restored == FALSE

\* BASEPRI after a critical section: before the scheduler has started, the nesting
\* count is a large number and leaving does not bring it to zero.
maskedByKernelCall == TRUE

\* The first kernel object; the handle is not tested.
osThreadNew ==
  /\ At("osThreadNew")
  /\ masked' = maskedByKernelCall
  /\ Return
  /\ UNCHANGED <<timebase, owner, sdc, iwdg, can, nvic, environment>>

\* app_create up to board_init: application state only.
app_create ==
  /\ At("app_create")
  /\ Return
  /\ UNCHANGED <<timebase, masked, owner, sdc, iwdg, can, nvic, environment>>

\* Each mutex is asserted; the Release build compiles the asserts out.
stm32f103_init ==
  /\ At("stm32f103_init")
  /\ masked' = maskedByKernelCall
  /\ IF holds >= Mutexes THEN Return ELSE Halt("assert") \/ Return
  /\ UNCHANGED <<timebase, owner, sdc, iwdg, can, nvic, environment>>

\* Mutant: the wait ends while the acknowledge is still set.
acknowledged_Inverted == ~busIdle

\* CAN has left initialisation, which takes a bus that is idle for a moment.
acknowledged == busIdle

\* canbus_device_init: HAL_CAN_Start waits for the acknowledge or its timeout in
\* HAL ticks; its result is not tested.
canbus_device_init ==
  /\ At("canbus_device_init")
  /\ acknowledged \/ TickAlive
  /\ can' = IF acknowledged THEN "listening" ELSE "error"
  /\ Return
  /\ UNCHANGED <<timebase, masked, owner, sdc, iwdg, nvic, environment>>

speed_sensor_init ==
  /\ At("speed_sensor_init")
  /\ Configure("speed_sensor_init", SpeedPins)
  /\ nvic' = nvic \cup {"EXTI2"}
  /\ Return
  /\ UNCHANGED <<timebase, masked, sdc, iwdg, can, environment>>

\* The receive interrupt, in the controller of interrupts and in CAN; the
\* latter does nothing to a controller in error.
HAL_CAN_ActivateNotification ==
  /\ At("HAL_CAN_ActivateNotification")
  /\ nvic' = IF can = "error" THEN nvic ELSE nvic \cup {"CAN_RX0"}
  /\ Return
  /\ UNCHANGED <<timebase, masked, owner, sdc, iwdg, can, environment>>

\* The five tasks, the monitor last.  They are static: their asserts hold.
xTaskCreateStatic ==
  /\ At("xTaskCreateStatic")
  /\ masked' = maskedByKernelCall
  /\ Return
  /\ UNCHANGED <<timebase, owner, sdc, iwdg, can, nvic, environment>>

\* The first task starts with interrupts enabled.
osKernelStart ==
  /\ At("osKernelStart")
  /\ masked' = FALSE
  /\ Return
  /\ UNCHANGED <<timebase, owner, sdc, iwdg, can, nvic, environment>>

main ==
  \/ HAL_Init \/ SystemClock_Config \/ MX_GPIO_Init \/ MX_USART2_UART_Init
  \/ MX_ADC1_Init \/ MX_ADC2_Init \/ MX_CAN_Init \/ MX_FATFS_Init
  \/ MX_I2C1_Init \/ MX_SPI2_Init \/ MX_USART1_UART_Init
  \/ IwdgWrite \/ IwdgStart \/ osKernelInitialize \/ osThreadNew
  \/ app_create \/ stm32f103_init \/ canbus_device_init \/ speed_sensor_init
  \/ HAL_CAN_ActivateNotification \/ xTaskCreateStatic \/ osKernelStart

-------------------------------------------------------------------------------
\* After start-up, and around it.

\* An iteration of the monitor drives the circuit and feeds the watchdog.
MonitorIterates ==
  /\ Running
  /\ halted = "no"
  /\ sdc' \in {"low", "high"}
  /\ stalled' = FALSE
  /\ UNCHANGED <<step, halted, timebase, masked, owner, iwdg, can, nvic, busIdle, holds, lsi>>

\* A conversion that does not end.
AdcHangs ==
  /\ Running
  /\ halted = "no"
  /\ Halt("adc")
  /\ UNCHANGED <<timebase, masked, owner, sdc, iwdg, can, nvic, environment>>

\* The program does not go on until something outside changes, if at all.
Blocked ==
  \/ halted # "no"
  \/ At("canbus_device_init") /\ ~(acknowledged \/ TickAlive)

\* Nobody feeds the watchdog.  Start-up itself takes less than its 0.5 s, but not
\* with the time it has waited.
WatchdogBites ==
  /\ iwdg = "on"
  /\ Blocked \/ stalled
  /\ step' = 1
  /\ halted' = "no"
  /\ timebase' = FALSE
  /\ masked' = FALSE
  /\ owner' = Unowned
  /\ sdc' = "floating"
  /\ iwdg' = "off"
  /\ can' = "reset"
  /\ nvic' = {}
  /\ stalled' = FALSE
  /\ UNCHANGED <<busIdle, holds, lsi>>

\* The traffic on the bus.
BusChanges ==
  /\ busIdle' = ~busIdle
  /\ stalled' = (stalled \/ (At("canbus_device_init") /\ Blocked))
  /\ UNCHANGED <<step, halted, timebase, masked, owner, sdc, iwdg, can, nvic, holds, lsi>>

Next == main \/ MonitorIterates \/ AdcHangs \/ WatchdogBites \/ BusChanges

Spec == Init /\ [][Next]_bootVars

-------------------------------------------------------------------------------
\* Properties

\* A program that stands still with no watchdog to end it has driven the circuit
\* open, unless it stands in the clock's configuration: only there the output
\* still floats (Error_Handler, the wait of stm32f103_iwdg_init).
StandsStillOpen ==
  /\ iwdg # "on"
  /\ halted # "no" \/ (iwdg = "waiting" /\ ~lsi)
  => sdc = IF step = 2 THEN "floating" ELSE "low"

\* No initialisation reconfigures a pin another one has configured since the reset,
\* the circuit output's least of all (MX_*_Init, HAL_*_MspInit, speed_sensor_init).
PinsKeepOwner ==
  [][\A p \in Pins : owner[p] # "none" /\ step' # 1 => owner'[p] = owner[p]]_bootVars

\* An interrupt of the application is taken only when the application's data are
\* initialised and its tasks exist: until the scheduler starts, the mask the
\* kernel leaves raised holds it back (app_create, board_init).
InterruptsWaitForTasks ==
  nvic \cap {"EXTI2", "CAN_RX0"} # {} /\ ~masked => "xTaskCreateStatic" \in Called

\* A CAN bus that is held through start-up keeps the circuit from ever being
\* closed: HAL_CAN_Start does not give up, because its time base is masked, and
\* the watchdog starts the program over (canbus_device_init).
HeldBusKeepsCircuitOpen ==
  [](At("HAL_Init") /\ []~busIdle => [](sdc # "high"))

\* Once the bus is idle for good, a board whose initialisations succeed, whose
\* heap holds the mutexes and whose oscillator answers gets to the scheduler again
\* and again, however often the bus held it up or the monitor hung before (main).
StartCompletes ==
  /\ <>[]busIdle
  /\ [](halted # "Error_Handler" /\ lsi /\ holds = Mutexes)
  => []<>Running

\* Receiving takes a filter: "Configure the reception filters using ...
\* HAL_CAN_ConfigFilter()", says stm32f1xx_hal_can.c between initialisation and
\* start, and docs/tasks.md that CAN RX feeds the watchdog.
FiltersBeforeReception ==
  can = "listening" /\ "CAN_RX0" \in nvic => "HAL_CAN_ConfigFilter" \in Called
===============================================================================
