------------------------------- MODULE Boot_proofs -------------------------------
(* Proofs about start-up, for any number of mutexes, whatever the heap holds, *)
(* the oscillator does and the bus shows.                                     *)
EXTENDS Boot, TLAPS

-------------------------------------------------------------------------------
(* The order of start-up, by position                                      *)

LEMMA Positions ==
  /\ Len(StartUp) = 21
  /\ StartUp[1] = "HAL_Init" /\ StartUp[2] = "SystemClock_Config"
  /\ StartUp[3] = "MX_GPIO_Init" /\ StartUp[4] = "MX_USART2_UART_Init"
  /\ StartUp[5] = "MX_ADC1_Init" /\ StartUp[6] = "MX_ADC2_Init"
  /\ StartUp[7] = "MX_CAN_Init" /\ StartUp[8] = "MX_FATFS_Init"
  /\ StartUp[9] = "MX_I2C1_Init" /\ StartUp[10] = "MX_SPI2_Init"
  /\ StartUp[11] = "MX_USART1_UART_Init" /\ StartUp[12] = "stm32f103_iwdg_init"
  /\ StartUp[13] = "osKernelInitialize" /\ StartUp[14] = "osThreadNew"
  /\ StartUp[15] = "app_create" /\ StartUp[16] = "stm32f103_init"
  /\ StartUp[17] = "canbus_device_init" /\ StartUp[18] = "speed_sensor_init"
  /\ StartUp[19] = "HAL_CAN_ActivateNotification" /\ StartUp[20] = "xTaskCreateStatic"
  /\ StartUp[21] = "osKernelStart"
BY DEF StartUp

\* A call is in progress at its position only.
LEMMA Places ==
  ASSUME step \in 1 .. 22
  PROVE  /\ At("HAL_Init") <=> step = 1 /\ halted = "no"
         /\ At("SystemClock_Config") <=> step = 2 /\ halted = "no"
         /\ At("MX_GPIO_Init") <=> step = 3 /\ halted = "no"
         /\ At("MX_USART2_UART_Init") <=> step = 4 /\ halted = "no"
         /\ At("MX_ADC1_Init") <=> step = 5 /\ halted = "no"
         /\ At("MX_ADC2_Init") <=> step = 6 /\ halted = "no"
         /\ At("MX_CAN_Init") <=> step = 7 /\ halted = "no"
         /\ At("MX_FATFS_Init") <=> step = 8 /\ halted = "no"
         /\ At("MX_I2C1_Init") <=> step = 9 /\ halted = "no"
         /\ At("MX_SPI2_Init") <=> step = 10 /\ halted = "no"
         /\ At("MX_USART1_UART_Init") <=> step = 11 /\ halted = "no"
         /\ At("stm32f103_iwdg_init") <=> step = 12 /\ halted = "no"
         /\ At("osKernelInitialize") <=> step = 13 /\ halted = "no"
         /\ At("osThreadNew") <=> step = 14 /\ halted = "no"
         /\ At("app_create") <=> step = 15 /\ halted = "no"
         /\ At("stm32f103_init") <=> step = 16 /\ halted = "no"
         /\ At("canbus_device_init") <=> step = 17 /\ halted = "no"
         /\ At("speed_sensor_init") <=> step = 18 /\ halted = "no"
         /\ At("HAL_CAN_ActivateNotification") <=> step = 19 /\ halted = "no"
         /\ At("xTaskCreateStatic") <=> step = 20 /\ halted = "no"
         /\ At("osKernelStart") <=> step = 21 /\ halted = "no"
<1>1. step \in {1, 2, 3, 4, 5, 6, 7, 8, 9, 10, 11, 12, 13, 14, 15, 16, 17, 18, 19, 20, 21, 22}
  OBVIOUS
<1>2. CASE step = 22
  BY <1>2, Positions DEF At, Running
<1>3. CASE step # 22
  <2>1. ~Running
    BY <1>3, Positions DEF Running
  <2> QED BY <1>1, <1>3, <2>1, Positions DEF At
<1> QED BY <1>2, <1>3

-------------------------------------------------------------------------------
(* The pins, by position                                                   *)

\* The pins the call at a position configures.
PinsAt(k) ==
  CASE k = 3  -> GpioPins
    [] k = 4  -> UartPins.USART2
    [] k = 5  -> AdcPins.ADC1
    [] k = 6  -> AdcPins.ADC2
    [] k = 7  -> CanPins
    [] k = 9  -> I2cPins
    [] k = 10 -> SpiPins
    [] k = 11 -> UartPins.USART1
    [] k = 18 -> SpeedPins
    [] OTHER  -> {}

LEMMA PinOfPort ==
  ASSUME NEW x, NEW n, NEW port, NEW numbers
  PROVE  <<x, n>> \in Port(port, numbers) <=> x = port /\ n \in numbers
BY DEF Port

\* No two calls configure the same pin.
LEMMA PinsApart ==
  ASSUME NEW j \in 1 .. 22, NEW k \in 1 .. 22, j # k, NEW p \in Pins, p \in PinsAt(j)
  PROVE  p \notin PinsAt(k)
<1>1. PICK x \in {"A", "B", "C"}, n \in 0 .. 15 : p = <<x, n>>
  BY DEF Pins, Port
<1> DEFINE Used(i) ==
      CASE i = 3  -> \/ x = "A" /\ n \in {1, 4, 5}
                     \/ x = "B" /\ n \in {2, 10}
                     \/ x = "C" /\ n \in {0, 1, 13}
        [] i = 4  -> x = "A" /\ n \in {2, 3}
        [] i = 5  -> (x = "C" /\ n = 3) \/ (x = "A" /\ n = 7)
        [] i = 6  -> (x = "C" /\ n = 5) \/ (x = "B" /\ n = 0)
        [] i = 7  -> x = "B" /\ n \in {8, 9}
        [] i = 9  -> x = "B" /\ n \in {6, 7}
        [] i = 10 -> x = "B" /\ n \in 12 .. 15
        [] i = 11 -> x = "A" /\ n \in 9 .. 12
        [] i = 18 -> x = "C" /\ n = 2
        [] OTHER  -> FALSE
<1>2. ASSUME NEW i \in 1 .. 22 PROVE p \in PinsAt(i) <=> Used(i)
  BY <1>1, PinOfPort
     DEF PinsAt, GpioPins, UartPins, AdcPins, CanPins, I2cPins, SpiPins, SpeedPins, SDC_OP
<1>3. Used(j) => ~Used(k)
  OBVIOUS
<1> HIDE DEF Used
<1> QED BY <1>2, <1>3

-------------------------------------------------------------------------------
(* The inductive invariant                                                 *)

BootTypeOK ==
  /\ step \in 1 .. 22
  /\ halted \in {"no", "Error_Handler", "assert", "adc"}
  /\ timebase \in BOOLEAN /\ masked \in BOOLEAN
  /\ owner \in [Pins -> {"none"} \cup {StartUp[k] : k \in 1 .. 21}]
  /\ sdc \in {"floating", "low", "high"}
  /\ iwdg \in {"off", "waiting", "on"}

\* The circuit output is an input until the GPIOs are configured, and then driven
\* open until the monitor runs.
CircuitInv ==
  /\ step <= 3 => sdc = "floating"
  /\ step \in 4 .. 21 => sdc = "low"

\* The watchdog is started by its initialisation, before the kernel's.
StartedInv ==
  /\ iwdg = "off" => step <= 12
  /\ iwdg = "waiting" => step = 12

\* A loop for good is one of an initialisation, of an assert or of the monitor.
HaltInv == halted # "no" => step = 2 \/ step > 3

\* The mask is up from the first kernel object on to the scheduler's start, and no
\* interrupt of the application is enabled before it.
MaskInv ==
  /\ step \in 15 .. 21 => masked
  /\ nvic \cap {"EXTI2", "CAN_RX0"} # {} => step >= 19

\* Only calls that have been made have configured pins.
OwnerInv ==
  \A p \in Pins : owner[p] # "none" =>
    \E k \in 1 .. 22 : (k < step \/ (k = step /\ halted # "no")) /\ p \in PinsAt(k)

BootInv == BootTypeOK /\ CircuitInv /\ StartedInv /\ HaltInv /\ MaskInv /\ OwnerInv

\* What holds of the pins when a call has configured some or none.
OwnersKept == \A p \in Pins : owner[p] # "none" => owner'[p] = owner[p]

\* A call goes on to the next or ends in a loop.
Proceeds == step' = step + 1 /\ halted' = halted
Ends == step' = step /\ halted' \in {"Error_Handler", "assert", "adc"}

LEMMA ConfigureOwners ==
  ASSUME BootInv, step <= 21, halted = "no", Proceeds \/ Ends,
         Configure(StartUp[step], PinsAt(step))
  PROVE  OwnerInv' /\ OwnersKept
         /\ owner' \in [Pins -> {"none"} \cup {StartUp[k] : k \in 1 .. 21}]
<1> DEFINE call == StartUp[step]
           pins == PinsAt(step)
           Owners == {"none"} \cup {StartUp[k] : k \in 1 .. 21}
<1>1. step \in 1 .. 21 /\ step \in 1 .. 22 /\ call \in Owners
  BY DEF BootInv, BootTypeOK
<1>2. owner' = [p \in Pins |-> IF p \in pins THEN call ELSE owner[p]]
  BY DEF Configure
<1>3. owner' \in [Pins -> Owners]
  <2> HIDE DEF call, pins, Owners
  <2> QED BY <1>1, <1>2 DEF BootInv, BootTypeOK, Owners
<1>4. OwnersKept
  <2> SUFFICES ASSUME NEW p \in Pins, owner[p] # "none" PROVE owner'[p] = owner[p]
    BY DEF OwnersKept
  <2>1. PICK k \in 1 .. 22 : k < step /\ p \in PinsAt(k)
    BY DEF BootInv, OwnerInv
  <2>2. p \notin pins
    BY <1>1, <2>1, PinsApart
  <2> QED BY <1>2, <2>2
<1>5. OwnerInv'
  <2> SUFFICES ASSUME NEW p \in Pins, owner'[p] # "none"
               PROVE  \E k \in 1 .. 22 : /\ k < step' \/ (k = step' /\ halted' # "no")
                                         /\ p \in PinsAt(k)
    BY DEF OwnerInv, PinsAt
  <2>1. step < step' \/ (step = step' /\ halted' # "no")
    BY <1>1 DEF Proceeds, Ends
  <2>2. CASE p \in pins
    BY <1>1, <2>1, <2>2
  <2>3. CASE p \notin pins
    <3>1. owner[p] # "none"
      BY <1>2, <2>3
    <3>2. PICK k \in 1 .. 22 : k < step /\ p \in PinsAt(k)
      BY <3>1 DEF BootInv, OwnerInv
    <3>3. step' \in Nat /\ k < step'
      BY <1>1, <2>1, <3>2 DEF Proceeds, Ends
    <3> QED BY <3>2, <3>3
  <2> QED BY <2>2, <2>3
<1> QED BY <1>3, <1>4, <1>5

LEMMA KeepOwners ==
  ASSUME BootInv, halted = "no" \/ UNCHANGED halted,
         Proceeds \/ Ends \/ UNCHANGED <<step, halted>>, UNCHANGED owner
  PROVE  OwnerInv' /\ OwnersKept
         /\ owner' \in [Pins -> {"none"} \cup {StartUp[k] : k \in 1 .. 21}]
<1>1. OwnerInv'
  <2> SUFFICES ASSUME NEW p \in Pins, owner[p] # "none"
               PROVE  \E k \in 1 .. 22 : /\ k < step' \/ (k = step' /\ halted' # "no")
                                         /\ p \in PinsAt(k)
    BY DEF OwnerInv, PinsAt
  <2>1. PICK k \in 1 .. 22 : (k < step \/ (k = step /\ halted # "no")) /\ p \in PinsAt(k)
    BY DEF BootInv, OwnerInv
  <2>2. k < step' \/ (k = step' /\ halted' # "no")
    BY <2>1 DEF BootInv, BootTypeOK, Proceeds, Ends
  <2> QED BY <2>1, <2>2
<1> QED BY <1>1 DEF BootInv, BootTypeOK, OwnersKept

\* A call that configures pins and touches neither the mask nor the watchdog.
LEMMA TestedSafe ==
  ASSUME BootInv, NEW call, NEW pins, step \in 2 .. 20, step # 3, step # 12, step # 14,
         halted = "no", StartUp[step] = call, PinsAt(step) = pins,
         Tested(call, pins)
  PROVE  BootInv' /\ OwnersKept
<1>1. Proceeds \/ Ends
  BY DEF Tested, Return, Error_Handler, Halt, Proceeds, Ends
<1>2. /\ OwnerInv' /\ OwnersKept
      /\ owner' \in [Pins -> {"none"} \cup {StartUp[k] : k \in 1 .. 21}]
  BY <1>1, ConfigureOwners DEF Tested
<1>3. BootTypeOK'
  BY <1>1, <1>2 DEF BootInv, BootTypeOK, Tested, environment, Proceeds, Ends
<1>4. CircuitInv' /\ StartedInv' /\ HaltInv'
  BY <1>1 DEF BootInv, BootTypeOK, CircuitInv, StartedInv, HaltInv, Tested, Proceeds, Ends
<1>5. MaskInv'
  <2>1. nvic' = nvic /\ masked' = masked
    BY DEF Tested
  <2> QED BY <1>1, <2>1 DEF BootInv, BootTypeOK, MaskInv, Proceeds, Ends
<1> QED BY <1>2, <1>3, <1>4, <1>5 DEF BootInv

LEMMA GeneratedSafe ==
  ASSUME BootInv,
         \/ SystemClock_Config
         \/ MX_USART2_UART_Init
         \/ MX_ADC1_Init
         \/ MX_ADC2_Init
         \/ MX_CAN_Init
         \/ MX_I2C1_Init
         \/ MX_SPI2_Init
         \/ MX_USART1_UART_Init
  PROVE  BootInv' /\ OwnersKept
<1> USE Places, Positions DEF BootInv, BootTypeOK
<1>1. CASE SystemClock_Config
  <2>1. Tested("SystemClock_Config", {}) /\ step = 2 /\ halted = "no" /\ PinsAt(2) = {}
    BY <1>1 DEF SystemClock_Config, Tested, PinsAt
  <2> QED BY <2>1, TestedSafe
<1>2. CASE MX_USART2_UART_Init
  <2>1. Tested("MX_USART2_UART_Init", UartPins.USART2) /\ step = 4 /\ halted = "no" /\ PinsAt(4) = UartPins.USART2
    BY <1>2 DEF MX_USART2_UART_Init, Tested, PinsAt
  <2> QED BY <2>1, TestedSafe
<1>3. CASE MX_ADC1_Init
  <2>1. Tested("MX_ADC1_Init", AdcPins.ADC1) /\ step = 5 /\ halted = "no" /\ PinsAt(5) = AdcPins.ADC1
    BY <1>3 DEF MX_ADC1_Init, Tested, PinsAt
  <2> QED BY <2>1, TestedSafe
<1>4. CASE MX_ADC2_Init
  <2>1. Tested("MX_ADC2_Init", AdcPins.ADC2) /\ step = 6 /\ halted = "no" /\ PinsAt(6) = AdcPins.ADC2
    BY <1>4 DEF MX_ADC2_Init, Tested, PinsAt
  <2> QED BY <2>1, TestedSafe
<1>5. CASE MX_CAN_Init
  <2>1. Tested("MX_CAN_Init", CanPins) /\ step = 7 /\ halted = "no" /\ PinsAt(7) = CanPins
    BY <1>5 DEF MX_CAN_Init, Tested, PinsAt
  <2> QED BY <2>1, TestedSafe
<1>6. CASE MX_I2C1_Init
  <2>1. Tested("MX_I2C1_Init", I2cPins) /\ step = 9 /\ halted = "no" /\ PinsAt(9) = I2cPins
    BY <1>6 DEF MX_I2C1_Init, Tested, PinsAt
  <2> QED BY <2>1, TestedSafe
<1>7. CASE MX_SPI2_Init
  <2>1. Tested("MX_SPI2_Init", SpiPins) /\ step = 10 /\ halted = "no" /\ PinsAt(10) = SpiPins
    BY <1>7 DEF MX_SPI2_Init, Tested, PinsAt
  <2> QED BY <2>1, TestedSafe
<1>8. CASE MX_USART1_UART_Init
  <2>1. Tested("MX_USART1_UART_Init", UartPins.USART1) /\ step = 11 /\ halted = "no" /\ PinsAt(11) = UartPins.USART1
    BY <1>8 DEF MX_USART1_UART_Init, Tested, PinsAt
  <2> QED BY <2>1, TestedSafe
<1> QED BY <1>1, <1>2, <1>3, <1>4, <1>5, <1>6, <1>7, <1>8

\* A call that leaves the pins and the circuit alone.
LEMMA PlainSafe ==
  ASSUME BootInv,
         \/ HAL_Init \/ MX_FATFS_Init \/ IwdgWrite \/ IwdgStart \/ osKernelInitialize
         \/ osThreadNew \/ app_create \/ stm32f103_init \/ canbus_device_init
         \/ HAL_CAN_ActivateNotification \/ xTaskCreateStatic \/ osKernelStart
  PROVE  BootInv' /\ OwnersKept
<1>1. step \in 1 .. 22 /\ halted = "no"
  BY DEF BootInv, BootTypeOK, HAL_Init, MX_FATFS_Init, IwdgWrite, IwdgStart,
     osKernelInitialize, osThreadNew, app_create, stm32f103_init, canbus_device_init,
     HAL_CAN_ActivateNotification, xTaskCreateStatic, osKernelStart, At
<1> DEFINE Effect(k) ==
      /\ step = k /\ k # 3
      /\ UNCHANGED <<owner, sdc>>
      /\ Proceeds \/ (k = 16 /\ Ends) \/ (k = 12 /\ step' = step /\ halted' = halted)
      /\ timebase' \in BOOLEAN
      /\ IF k = 12 THEN (iwdg' = "waiting" /\ step' = step) \/ (iwdg' = "on" /\ Proceeds)
                   ELSE iwdg' = iwdg
      /\ masked' \in BOOLEAN
      /\ k \in {14, 16, 20} => masked'
      /\ k \notin {14, 16, 20, 21} => masked' = masked
      /\ nvic' = nvic \/ k = 19
<1>2. \E k \in 1 .. 21 : Effect(k)
  <2> USE <1>1, Places DEF Return, Halt, Proceeds, Ends, environment, BootInv, BootTypeOK
  <2>1. HAL_Init => Effect(1)
    BY DEF HAL_Init
  <2>2. MX_FATFS_Init => Effect(8)
    BY DEF MX_FATFS_Init
  <2>3. IwdgWrite => Effect(12)
    BY DEF IwdgWrite
  <2>4. IwdgStart => Effect(12)
    BY DEF IwdgStart, iwdgStarted
  <2>5. osKernelInitialize => Effect(13)
    BY DEF osKernelInitialize
  <2>6. osThreadNew => Effect(14)
    BY DEF osThreadNew, maskedByKernelCall
  <2>7. app_create => Effect(15)
    BY DEF app_create
  <2>8. stm32f103_init => Effect(16)
    BY DEF stm32f103_init, maskedByKernelCall
  <2>9. canbus_device_init => Effect(17)
    BY DEF canbus_device_init
  <2>10. HAL_CAN_ActivateNotification => Effect(19)
    BY DEF HAL_CAN_ActivateNotification
  <2>11. xTaskCreateStatic => Effect(20)
    BY DEF xTaskCreateStatic, maskedByKernelCall
  <2>12. osKernelStart => Effect(21)
    <3>1. osKernelStart => masked' \in BOOLEAN
      BY Zenon DEF osKernelStart
    <3>2. osKernelStart => /\ step = 21 /\ Proceeds
                           /\ UNCHANGED <<owner, sdc, nvic, iwdg, timebase>>
      BY DEF osKernelStart
    <3> QED BY <3>1, <3>2
  <2> HIDE DEF Effect
  <2> QED BY <2>1, <2>2, <2>3, <2>4, <2>5, <2>6, <2>7, <2>8, <2>9, <2>10, <2>11, <2>12
<1>3. PICK k \in 1 .. 21 : Effect(k)
  BY <1>2
<1>4. Proceeds \/ Ends \/ UNCHANGED <<step, halted>>
  BY <1>3
<1>5. /\ OwnerInv' /\ OwnersKept
      /\ owner' \in [Pins -> {"none"} \cup {StartUp[i] : i \in 1 .. 21}]
  BY <1>1, <1>3, <1>4, KeepOwners
<1>6. BootTypeOK'
  BY <1>1, <1>3, <1>5 DEF BootInv, BootTypeOK, Proceeds, Ends
<1>7. CircuitInv' /\ StartedInv' /\ HaltInv'
  <2>1. CircuitInv'
    BY <1>1, <1>3 DEF BootInv, BootTypeOK, CircuitInv, Proceeds, Ends
  <2>2. StartedInv'
    BY <1>1, <1>3 DEF BootInv, BootTypeOK, StartedInv, Proceeds, Ends
  <2>3. HaltInv'
    BY <1>1, <1>3 DEF BootInv, BootTypeOK, HaltInv, Proceeds, Ends
  <2> QED BY <2>1, <2>2, <2>3
<1>8. MaskInv'
  BY <1>1, <1>3 DEF BootInv, BootTypeOK, MaskInv, Proceeds, Ends
<1> QED BY <1>5, <1>6, <1>7, <1>8 DEF BootInv

LEMMA GpioSafe == ASSUME BootInv, MX_GPIO_Init PROVE BootInv' /\ OwnersKept
<1>1. step = 3 /\ halted = "no" /\ PinsAt(3) = GpioPins /\ Proceeds
  BY Places DEF BootInv, BootTypeOK, MX_GPIO_Init, PinsAt, Return, Proceeds
<1>2. /\ OwnerInv' /\ OwnersKept
      /\ owner' \in [Pins -> {"none"} \cup {StartUp[k] : k \in 1 .. 21}]
  BY <1>1, ConfigureOwners, Positions DEF MX_GPIO_Init
<1>3. BootTypeOK'
  BY <1>1, <1>2 DEF BootInv, BootTypeOK, MX_GPIO_Init, Proceeds
<1>4. CircuitInv' /\ StartedInv' /\ HaltInv'
  BY <1>1 DEF BootInv, CircuitInv, StartedInv, HaltInv, MX_GPIO_Init, Proceeds
<1>5. MaskInv'
  <2>1. nvic' \cap {"EXTI2", "CAN_RX0"} = nvic \cap {"EXTI2", "CAN_RX0"}
    BY DEF MX_GPIO_Init
  <2> QED BY <1>1, <2>1 DEF BootInv, MaskInv, Proceeds
<1> QED BY <1>2, <1>3, <1>4, <1>5 DEF BootInv

LEMMA SpeedSafe == ASSUME BootInv, speed_sensor_init PROVE BootInv' /\ OwnersKept
<1>1. step = 18 /\ halted = "no" /\ PinsAt(18) = SpeedPins /\ Proceeds
  BY Places DEF BootInv, BootTypeOK, speed_sensor_init, PinsAt, Return, Proceeds
<1>2. /\ OwnerInv' /\ OwnersKept
      /\ owner' \in [Pins -> {"none"} \cup {StartUp[k] : k \in 1 .. 21}]
  BY <1>1, ConfigureOwners, Positions DEF speed_sensor_init
<1>3. BootTypeOK'
  BY <1>1, <1>2 DEF BootInv, BootTypeOK, speed_sensor_init, Proceeds
<1>4. CircuitInv' /\ StartedInv' /\ HaltInv' /\ MaskInv'
  BY <1>1 DEF BootInv, CircuitInv, StartedInv, HaltInv, MaskInv, speed_sensor_init, Proceeds
<1> QED BY <1>2, <1>3, <1>4 DEF BootInv

\* Every call of start-up preserves the invariant and the owners of the pins.
LEMMA MainSafe == ASSUME BootInv, main PROVE BootInv' /\ OwnersKept
BY GeneratedSafe, PlainSafe, GpioSafe, SpeedSafe DEF main

\* So do the monitor, a hang of it and the bus.
LEMMA AroundSafe ==
  ASSUME BootInv, MonitorIterates \/ AdcHangs \/ BusChanges \/ UNCHANGED bootVars
  PROVE  BootInv' /\ OwnersKept
<1>1. /\ halted = "no" \/ UNCHANGED halted
      /\ UNCHANGED owner /\ UNCHANGED <<timebase, masked, nvic, iwdg>>
      /\ step' = step
      /\ \/ halted' = halted /\ (sdc' = sdc \/ (Running /\ sdc' \in {"low", "high"}))
         \/ Running /\ halted' = "adc" /\ sdc' = sdc
  BY DEF MonitorIterates, AdcHangs, BusChanges, Halt, environment, bootVars
<1>2. Proceeds \/ Ends \/ UNCHANGED <<step, halted>>
  BY <1>1 DEF Ends
<1>3. /\ OwnerInv' /\ OwnersKept
      /\ owner' \in [Pins -> {"none"} \cup {StartUp[i] : i \in 1 .. 21}]
  BY <1>1, <1>2, KeepOwners
<1>4. Running => step = 22
  BY Positions DEF BootInv, BootTypeOK, Running
<1>5. BootTypeOK'
  BY <1>1, <1>3 DEF BootInv, BootTypeOK
<1>6. CircuitInv'
  BY <1>1, <1>4 DEF BootInv, CircuitInv
<1>7. StartedInv' /\ HaltInv' /\ MaskInv'
  BY <1>1, <1>4 DEF BootInv, StartedInv, HaltInv, MaskInv
<1> QED BY <1>3, <1>5, <1>6, <1>7 DEF BootInv

\* A reset begins anew.
LEMMA ResetSafe ==
  ASSUME step' = 1, halted' = "no", timebase' = FALSE, masked' = FALSE, owner' = Unowned,
         sdc' = "floating", iwdg' = "off", nvic' = {}
  PROVE  BootInv'
<1>1. owner' \in [Pins -> {"none"}] /\ \A p \in Pins : owner'[p] = "none"
  BY DEF Unowned
<1>2. OwnerInv'
  BY <1>1 DEF OwnerInv
<1>3. owner' \in [Pins -> {"none"} \cup {StartUp[i] : i \in 1 .. 21}]
  BY <1>1
<1>4. timebase' \in BOOLEAN /\ masked' \in BOOLEAN
  BY Zenon
<1>5. BootTypeOK'
  BY <1>3, <1>4 DEF BootTypeOK
<1>6. CircuitInv' /\ StartedInv' /\ HaltInv' /\ MaskInv'
  BY DEF CircuitInv, StartedInv, HaltInv, MaskInv
<1> QED BY <1>2, <1>5, <1>6 DEF BootInv

LEMMA BootInitial == Init => BootInv
<1> SUFFICES ASSUME Init PROVE BootInv
  OBVIOUS
<1>1. owner \in [Pins -> {"none"}] /\ \A p \in Pins : owner[p] = "none"
  BY DEF Init, Unowned
<1>2. timebase \in BOOLEAN /\ masked \in BOOLEAN
  BY Zenon DEF Init
<1>3. BootTypeOK
  BY <1>1, <1>2 DEF Init, BootTypeOK
<1>4. CircuitInv /\ StartedInv /\ HaltInv /\ MaskInv /\ OwnerInv
  BY <1>1 DEF Init, CircuitInv, StartedInv, HaltInv, MaskInv, OwnerInv
<1> QED BY <1>3, <1>4 DEF BootInv

LEMMA BootStep == BootInv /\ [Next]_bootVars => BootInv' /\ (step' # 1 => OwnersKept)
<1>1. ASSUME BootInv, WatchdogBites PROVE BootInv' /\ step' = 1
  BY <1>1, ResetSafe DEF WatchdogBites
<1> QED BY <1>1, MainSafe, AroundSafe DEF Next

THEOREM BootInvariant == Spec => []BootInv
BY BootInitial, BootStep, PTL DEF Spec

-------------------------------------------------------------------------------
(* The properties                                                          *)

\* A program that stands still with no watchdog to end it has driven the circuit
\* open, or stands before the output is one (run `boot`).
THEOREM StandstillIsOpen == Spec => []StandsStillOpen
<1>1. BootInv => StandsStillOpen
  BY DEF BootInv, BootTypeOK, CircuitInv, StartedInv, HaltInv, StandsStillOpen
<1> QED BY <1>1, BootInvariant, PTL

\* No interrupt of the application is taken before its tasks exist (run `boot`).
THEOREM InterruptsWait == Spec => []InterruptsWaitForTasks
<1>1. BootInv => InterruptsWaitForTasks
  <2> SUFFICES ASSUME BootInv, nvic \cap {"EXTI2", "CAN_RX0"} # {}, ~masked
               PROVE  "xTaskCreateStatic" \in Called
    BY DEF InterruptsWaitForTasks
  <2>1. step = 22
    BY DEF BootInv, BootTypeOK, MaskInv
  <2>2. 20 \in 1 .. (step - 1)
    BY <2>1
  <2> QED BY <2>2, Positions DEF Called
<1> QED BY <1>1, BootInvariant, PTL

\* A pin keeps the owner it has until a reset (run `boot`).
THEOREM PinsAreKept == Spec => PinsKeepOwner
<1>1. BootInv /\ [Next]_bootVars
      => [\A p \in Pins : owner[p] # "none" /\ step' # 1 => owner'[p] = owner[p]]_bootVars
  BY BootStep DEF OwnersKept
<1> QED BY <1>1, BootInvariant, PTL DEF Spec, PinsKeepOwner

\* Start-up has not got past the controller's start, and the circuit is not closed.
Waiting == BootInv /\ step <= 17

\* While the bus is held no step gets past it: the wait for the acknowledge has no
\* timeout, for the tick that would end it is masked.
\* A step makes one call at most.
LEMMA OneCall == ASSUME [Next]_bootVars PROVE step' \in {1, step, step + 1}
<1>1. CASE main
  <2> USE DEF Return, Error_Handler, Halt, Tested
  <2>1. CASE HAL_Init \/ SystemClock_Config \/ MX_GPIO_Init \/ MX_USART2_UART_Init
             \/ MX_ADC1_Init \/ MX_ADC2_Init \/ MX_CAN_Init \/ MX_FATFS_Init
             \/ MX_I2C1_Init \/ MX_SPI2_Init \/ MX_USART1_UART_Init
    BY <2>1 DEF HAL_Init, SystemClock_Config, MX_GPIO_Init, MX_USART2_UART_Init,
       MX_ADC1_Init, MX_ADC2_Init, MX_CAN_Init, MX_FATFS_Init, MX_I2C1_Init,
       MX_SPI2_Init, MX_USART1_UART_Init
  <2>2. CASE IwdgWrite \/ IwdgStart \/ osKernelInitialize \/ osThreadNew \/ app_create
             \/ stm32f103_init \/ canbus_device_init \/ speed_sensor_init
             \/ HAL_CAN_ActivateNotification \/ xTaskCreateStatic \/ osKernelStart
    BY <2>2 DEF IwdgWrite, IwdgStart, osKernelInitialize, osThreadNew, app_create,
       stm32f103_init, canbus_device_init, speed_sensor_init,
       HAL_CAN_ActivateNotification, xTaskCreateStatic, osKernelStart
  <2> QED BY <1>1, <2>1, <2>2 DEF main
<1>2. CASE MonitorIterates \/ AdcHangs \/ WatchdogBites \/ BusChanges \/ UNCHANGED bootVars
  BY <1>2 DEF MonitorIterates, AdcHangs, WatchdogBites, BusChanges, bootVars, Halt
<1> QED BY <1>1, <1>2 DEF Next

\* At the controller's start there is only one call to make.
LEMMA OnlyCall ==
  ASSUME BootInv, step = 17, main
  PROVE  At("canbus_device_init") /\ (acknowledged \/ TickAlive)
<1>1. step \in 1 .. 22
  BY DEF BootInv, BootTypeOK
<1> USE <1>1, Places
<1>2. ~(HAL_Init \/ SystemClock_Config \/ MX_GPIO_Init \/ MX_USART2_UART_Init
        \/ MX_ADC1_Init \/ MX_ADC2_Init \/ MX_CAN_Init \/ MX_FATFS_Init
        \/ MX_I2C1_Init \/ MX_SPI2_Init \/ MX_USART1_UART_Init)
  BY DEF HAL_Init, SystemClock_Config, MX_GPIO_Init, MX_USART2_UART_Init,
     MX_ADC1_Init, MX_ADC2_Init, MX_CAN_Init, MX_FATFS_Init, MX_I2C1_Init,
     MX_SPI2_Init, MX_USART1_UART_Init, Tested
<1>3. ~(IwdgWrite \/ IwdgStart \/ osKernelInitialize \/ osThreadNew \/ app_create
        \/ stm32f103_init \/ speed_sensor_init \/ HAL_CAN_ActivateNotification
        \/ xTaskCreateStatic \/ osKernelStart)
  BY DEF IwdgWrite, IwdgStart, osKernelInitialize, osThreadNew, app_create,
     stm32f103_init, speed_sensor_init, HAL_CAN_ActivateNotification,
     xTaskCreateStatic, osKernelStart
<1> QED BY <1>2, <1>3 DEF main, canbus_device_init

LEMMA HeldBusWaits ==
  ASSUME Waiting, ~busIdle, [Next]_bootVars
  PROVE  Waiting'
<1>1. BootInv'
  BY BootStep DEF Waiting
<1>2. step \in Nat /\ step' \in {1, step, step + 1}
  BY OneCall DEF Waiting, BootInv, BootTypeOK
<1>3. CASE step < 17
  BY <1>1, <1>2, <1>3 DEF Waiting
<1>4. CASE step = 17
  <2>1. masked
    BY <1>4 DEF Waiting, BootInv, MaskInv
  <2>2. ~main
    BY <1>4, <2>1, OnlyCall DEF Waiting, acknowledged, TickAlive
  <2>3. step' \in {1, step}
    BY <2>2 DEF Next, MonitorIterates, AdcHangs, WatchdogBites, BusChanges, bootVars, Halt
  <2> QED BY <1>1, <1>4, <2>3 DEF Waiting
<1> QED BY <1>2, <1>3, <1>4 DEF Waiting

\* A bus that is held from the reset on keeps the circuit from being closed, for
\* ever and through any number of resets by the watchdog (run `boot`).
THEOREM HeldBusKeepsOpen == Spec => HeldBusKeepsCircuitOpen
<1>1. BootInv /\ At("HAL_Init") => Waiting
  BY Places DEF BootInv, BootTypeOK, Waiting
<1>2. Waiting /\ ~busIdle /\ [Next]_bootVars => Waiting'
  BY HeldBusWaits
<1>3. Waiting => sdc # "high"
  BY DEF Waiting, BootInv, BootTypeOK, CircuitInv
<1> QED BY <1>1, <1>2, <1>3, BootInvariant, PTL DEF Spec, HeldBusKeepsCircuitOpen
==================================================================================
