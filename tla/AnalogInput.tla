------------------------------ MODULE AnalogInput ------------------------------
(***************************************************************************)
(* The readings of safety_task: APPS1 on ADC2, then APPS2 and the brake    *)
(* sensor in turn on ADC1, through stm32f103_adc_read and the HAL, whose   *)
(* statuses are all ignored.  A converter follows its ADON bit, and ends a *)
(* conversion, in its own time or never.  No other task uses one, so the   *)
(* locks of the handles are free at every call; State and ErrorCode of the *)
(* handles are written and never read.                                     *)
(***************************************************************************)
EXTENDS Naturals

CONSTANT MAX_WAIT   \* bound of the model: ticks in one wait

ADC_ENABLE_TIMEOUT == 2
ADC_DISABLE_TIMEOUT == 2

\* The bound leaves room for both timeouts.
ASSUME AnalogAssumption ==
  MAX_WAIT \in Nat /\ MAX_WAIT > ADC_ENABLE_TIMEOUT /\ MAX_WAIT > ADC_DISABLE_TIMEOUT

Sensors == {"apps1", "apps2", "bse"}
Converters == {"ADC1", "ADC2"}
adcOf == [apps1 |-> "ADC2", apps2 |-> "ADC1", bse |-> "ADC1"]
following == [apps1 |-> "apps2", apps2 |-> "bse", bse |-> "apps1"]

\* A sample: the sensor it is of, and whether its conversion was started for the
\* reading in progress.
Samples == [of : Sensors \cup {"none"}, new : BOOLEAN]
Nothing == [of |-> "none", new |-> FALSE]

VARIABLES
  sensor,     \* the one that is being read
  readStep,   \* where in its reading the task is
  waited,     \* HAL_GetTick() - tickstart, 0 when it is dead
  adc,        \* registers of the converters
  count,      \* the result of the reading, Nothing when it is dead
  troubled    \* history: a converter missed a timeout or dropped a conversion

analogVars == <<sensor, readStep, waited, adc, count, troubled>>

\* A converter: ADON as last written and as it reads, the channel of rank 1 by its
\* sensor, the conversion under way, its end, and the data register.
Registers ==
  [written : BOOLEAN, adon : BOOLEAN, sq1 : Sensors, conversion : Samples,
   eoc : BOOLEAN, dr : Samples]

Off(channel) ==
  [written |-> FALSE, adon |-> FALSE, sq1 |-> channel, conversion |-> Nothing,
   eoc |-> FALSE, dr |-> Nothing]

\* MX_ADC1_Init and MX_ADC2_Init.
Configured == [ADC1 |-> Off("bse"), ADC2 |-> Off("apps1")]

AnalogInit ==
  /\ sensor = "apps1"
  /\ readStep = "start"
  /\ waited = 0
  /\ adc = Configured
  /\ count = Nothing
  /\ troubled = FALSE

Here == adcOf[sensor]
my == adc[Here]

\* A reading of the next sensor; what was converted up to now is old.
NextReading(a) ==
  /\ sensor' = following[sensor]
  /\ readStep' = IF adcOf[following[sensor]] = "ADC1" THEN "switch" ELSE "start"
  /\ adc' = [c \in Converters |->
              [a[c] EXCEPT !.conversion.new = FALSE, !.dr.new = FALSE]]
  /\ waited' = 0
  /\ count' = Nothing

-------------------------------------------------------------------------------
(* The task                                                                *)

\* Mutant: the channel is not switched.
selected_Kept == my.sq1

selected == sensor

\* stm32f103_adc_switch_channel.
SwitchChannel ==
  /\ readStep = "switch"
  /\ adc' = [adc EXCEPT ![Here].sq1 = selected]
  /\ readStep' = "start"
  /\ UNCHANGED <<sensor, waited, count, troubled>>

\* The end of HAL_ADC_Start; a converter that is on begins a conversion of the
\* selected channel.
StartConversion ==
  /\ adc' = [adc EXCEPT ![Here].eoc = FALSE,
                        ![Here].conversion =
                           IF my.adon THEN [of |-> my.sq1, new |-> TRUE] ELSE Nothing]
  /\ readStep' = "poll"
  /\ waited' = 0

\* Mutant: the converter is taken to be on.
isOn_Assumed == TRUE

\* ADC_IS_ENABLE; a converter that HAL_ADC_Stop could not turn off is on.
isOn == my.adon

\* HAL_ADC_Start and ADC_Enable up to the wait.
Start ==
  /\ readStep = "start"
  /\ IF isOn
       THEN StartConversion
       ELSE /\ adc' = [adc EXCEPT ![Here].written = TRUE]
            /\ readStep' = "enabling"
            /\ UNCHANGED waited
  /\ UNCHANGED <<sensor, count, troubled>>

Enabled ==
  /\ readStep = "enabling"
  /\ my.adon
  /\ StartConversion
  /\ UNCHANGED <<sensor, count, troubled>>

\* ADC_Enable gives up; HAL_ADC_Start returns an error and starts nothing.
EnableTimeout ==
  /\ readStep = "enabling"
  /\ ~my.adon
  /\ waited > ADC_ENABLE_TIMEOUT
  /\ readStep' = "poll"
  /\ waited' = 0
  /\ troubled' = TRUE
  /\ UNCHANGED <<sensor, adc, count>>

\* HAL_ADC_PollForConversion, with HAL_MAX_DELAY, waits for nothing else.
ended == my.eoc

PollForConversion ==
  /\ readStep = "poll"
  /\ ended
  /\ adc' = [adc EXCEPT ![Here].eoc = FALSE]
  /\ readStep' = "value"
  /\ UNCHANGED <<sensor, waited, count, troubled>>

GetValue ==
  /\ readStep = "value"
  /\ count' = my.dr
  /\ readStep' = "stop"
  /\ UNCHANGED <<sensor, waited, adc, troubled>>

\* HAL_ADC_Stop and ADC_ConversionStop_Disable up to the wait.
Stop ==
  /\ readStep = "stop"
  /\ IF my.adon
       THEN /\ adc' = [adc EXCEPT ![Here].written = FALSE]
            /\ readStep' = "disabling"
            /\ UNCHANGED <<sensor, waited, count>>
       ELSE NextReading(adc)
  /\ UNCHANGED troubled

Disabled ==
  /\ readStep = "disabling"
  /\ ~my.adon
  /\ NextReading(adc)
  /\ UNCHANGED troubled

DisableTimeout ==
  /\ readStep = "disabling"
  /\ my.adon
  /\ waited > ADC_DISABLE_TIMEOUT
  /\ NextReading(adc)
  /\ troubled' = TRUE

ReadingSteps ==
  \/ SwitchChannel \/ Start \/ Enabled \/ EnableTimeout \/ PollForConversion
  \/ GetValue \/ Stop \/ Disabled \/ DisableTimeout

-------------------------------------------------------------------------------
(* Time, the converters and the watchdog                                   *)

AnalogTick ==
  /\ readStep \in {"enabling", "disabling"}
  /\ waited < MAX_WAIT
  /\ waited' = waited + 1
  /\ UNCHANGED <<sensor, readStep, adc, count, troubled>>

\* ADON takes effect; a converter that is turned off drops its conversion.
Settle ==
  \E a \in Converters :
    /\ adc[a].adon # adc[a].written
    /\ adc' = [adc EXCEPT ![a].adon = adc[a].written,
                          ![a].conversion = IF adc[a].written THEN @ ELSE Nothing]
    /\ UNCHANGED <<sensor, readStep, waited, count, troubled>>

Convert ==
  \E a \in Converters :
    /\ adc[a].conversion # Nothing
    /\ adc' = [adc EXCEPT ![a].conversion = Nothing, ![a].eoc = TRUE,
                          ![a].dr = adc[a].conversion]
    /\ UNCHANGED <<sensor, readStep, waited, count, troubled>>

\* A conversion that never ends.
Drop ==
  \E a \in Converters :
    /\ adc[a].conversion # Nothing
    /\ adc' = [adc EXCEPT ![a].conversion = Nothing]
    /\ troubled' = TRUE
    /\ UNCHANGED <<sensor, readStep, waited, count>>

\* A task that waits for a conversion nobody makes is reset by the watchdog.
WatchdogReset ==
  /\ readStep = "poll"
  /\ ~my.eoc /\ my.conversion = Nothing
  /\ sensor' = "apps1"
  /\ readStep' = "start"
  /\ adc' = Configured
  /\ UNCHANGED <<waited, count, troubled>>

AnalogNext == ReadingSteps \/ AnalogTick \/ Settle \/ Convert \/ Drop \/ WatchdogReset

AnalogSpec == AnalogInit /\ [][AnalogNext]_analogVars

\* The monitor gets to run, and a converter takes a while, but not for ever.
AnalogFairness ==
  WF_analogVars(ReadingSteps) /\ WF_analogVars(Settle) /\ WF_analogVars(Convert)

-------------------------------------------------------------------------------

\* Everything is in its range, and a converter works only while its sensor is read.
AnalogTypeOK ==
  /\ sensor \in Sensors
  /\ readStep \in {"switch", "start", "enabling", "poll", "value", "stop", "disabling"}
  /\ waited \in 0 .. MAX_WAIT
  /\ adc \in [Converters -> Registers]
  /\ \A a \in Converters \ {Here} : adc[a].conversion = Nothing
  /\ count \in Samples
  /\ troubled \in BOOLEAN

\* What a reading returns is a conversion of its own sensor that was started for
\* it: neither a timeout the task ignores, nor a converter that turns off late,
\* nor the other sensor on ADC1 can slip an older or a foreign sample in
\* (stm32f103_adc_read and its callers in safety_task.c).
CountIsItsSensors ==
  readStep \in {"stop", "disabling"} => count = [of |-> sensor, new |-> TRUE]

\* A reading leads to the next one, and the task waits for good only for a
\* converter that has missed a timeout or dropped a conversion.
ReadingsGoOn == readStep # "start" ~> readStep = "start" \/ troubled

-------------------------------------------------------------------------------
(* The inductive invariant                                                 *)

\* Only the sensor that is read is converted, on its own channel, and what its
\* register holds once the conversion has ended is the new sample; no end is left
\* standing for a later reading.
AnalogInv ==
  LET sample == [of |-> sensor, new |-> TRUE]
  IN  /\ adc["ADC2"].sq1 = "apps1"
      /\ readStep # "switch" => my.sq1 = sensor
      /\ my.conversion # Nothing => readStep = "poll" /\ my.conversion = sample
      /\ \A a \in Converters : adc[a].eoc => a = Here /\ readStep = "poll"
      /\ my.eoc => my.dr = sample /\ my.conversion = Nothing
      /\ readStep = "value" => my.dr = sample
      /\ CountIsItsSensors
===============================================================================
