------------------------------ MODULE Hardware_proofs ------------------------------
(* Proofs about the readings of the monitor and the lines of the dashboard, for *)
(* every timeout, number and length of the lines and width of the count; and    *)
(* that what is proved of each part under the tasks holds of their composition. *)
EXTENDS MCHardware, Kernel_proofs, Peripheral_proofs, TLAPS


-------------------------------------------------------------------------------
(* The readings                                                            *)

AnalogSafe == AnalogTypeOK /\ AnalogInv

LEMMA NothingIsSample == Nothing \in Samples
BY DEF Nothing, Samples

LEMMA OffIsRegisters == ASSUME NEW s \in Sensors PROVE Off(s) \in Registers
BY NothingIsSample DEF Off, Registers

\* The converters after start-up and after a reset.
LEMMA ConfiguredFacts ==
  /\ Configured \in [Converters -> Registers]
  /\ \A a \in Converters : Configured[a].conversion = Nothing /\ ~Configured[a].eoc
  /\ Configured["ADC2"].sq1 = "apps1"
  /\ "apps1" \in Sensors /\ adcOf["apps1"] = "ADC2"
<1>1. "apps1" \in Sensors /\ "bse" \in Sensors /\ adcOf["apps1"] = "ADC2"
  BY DEF Sensors, adcOf
<1>2. Configured \in [Converters -> Registers]
  BY OffIsRegisters, <1>1 DEF Configured, Converters
<1>3. /\ Configured["ADC1"] = Off("bse") /\ Configured["ADC2"] = Off("apps1")
  BY DEF Configured
<1>4. \A a \in Converters : Configured[a].conversion = Nothing /\ ~Configured[a].eoc
  BY <1>3 DEF Converters, Off
<1>5. Configured["ADC2"].sq1 = "apps1"
  BY <1>3 DEF Off
<1> QED BY <1>1, <1>2, <1>4, <1>5

LEMMA AnalogStarts == AnalogInit => AnalogSafe
<1> SUFFICES ASSUME AnalogInit PROVE AnalogSafe
  OBVIOUS
<1>0. 0 \in 0 .. MAX_WAIT
  BY AnalogAssumption
<1>1. /\ sensor = "apps1" /\ readStep = "start" /\ adc = Configured
      /\ waited \in 0 .. MAX_WAIT /\ count \in Samples /\ troubled \in BOOLEAN
  BY <1>0, NothingIsSample, Zenon DEF AnalogInit
<1>2. Here = "ADC2" /\ sensor \in Sensors
  BY <1>1, ConfiguredFacts DEF Here
<1>3. AnalogTypeOK
  BY <1>1, <1>2, ConfiguredFacts DEF AnalogTypeOK
<1>4. AnalogInv
  BY <1>1, <1>2, ConfiguredFacts DEF AnalogInv, CountIsItsSensors, my, Converters
<1> QED BY <1>3, <1>4 DEF AnalogSafe

\* The converter of a sensor, and the next one.
LEMMA SensorFacts ==
  ASSUME sensor \in Sensors
  PROVE  /\ Here \in Converters /\ following[sensor] \in Sensors
         /\ Here = "ADC2" <=> sensor = "apps1"
         /\ adcOf[following[sensor]] \in Converters
         /\ adcOf[following[sensor]] = "ADC2" <=> following[sensor] = "apps1"
BY DEF Sensors, Here, adcOf, following, Converters

\* A register loses what was new in it.
LEMMA Aged ==
  ASSUME NEW r \in Registers, r.conversion = Nothing
  PROVE  LET s == [r EXCEPT !.conversion.new = FALSE, !.dr.new = FALSE]
         IN  /\ s \in Registers /\ s.conversion = Nothing /\ s.sq1 = r.sq1
             /\ s.eoc = r.eoc
<1> DEFINE t == [r EXCEPT !.conversion.new = FALSE]
           s == [t EXCEPT !.dr.new = FALSE]
<1>1. r.conversion \in Samples /\ r.dr \in Samples
  BY DEF Registers
<1>2. [r.conversion EXCEPT !.new = FALSE] = Nothing
  <2> DEFINE past == [Nothing EXCEPT !.new = FALSE]
  <2>2. past \in Samples /\ past.of = "none" /\ past.new = FALSE
    BY DEF Nothing, Samples
  <2>3. \A x \in Samples : x = [of |-> x.of, new |-> x.new]
    BY DEF Samples
  <2>1. past = Nothing
    BY <2>2, <2>3, Zenon DEF Nothing
  <2> QED BY <2>1, Zenon
<1>3. /\ t \in Registers /\ t.conversion = Nothing /\ t.sq1 = r.sq1 /\ t.dr = r.dr
      /\ t.eoc = r.eoc
  BY <1>2, NothingIsSample DEF Registers
<1>4. [t.dr EXCEPT !.new = FALSE] \in Samples
  BY <1>1, <1>3 DEF Samples
<1>5. s \in Registers /\ s.conversion = Nothing /\ s.sq1 = r.sq1 /\ s.eoc = r.eoc
  BY <1>3, <1>4 DEF Registers
<1> QED BY <1>5

\* The next reading, from a state in which no converter works.
LEMMA NextReadingSafe ==
  ASSUME AnalogSafe, readStep # "poll", NextReading(adc), troubled' \in BOOLEAN
  PROVE  AnalogSafe'
<1> USE DEF AnalogSafe
<1>1. sensor' \in Sensors /\ readStep' \in {"switch", "start"} /\ waited' = 0 /\ count' = Nothing
  BY SensorFacts DEF AnalogTypeOK, NextReading
<1>2. \A a \in Converters :
        adc[a] \in Registers /\ adc[a].conversion = Nothing /\ ~adc[a].eoc
  BY Zenon DEF AnalogTypeOK, AnalogInv, my
<1>3. adc' = [c \in Converters |->
               [adc[c] EXCEPT !.conversion.new = FALSE, !.dr.new = FALSE]]
  BY DEF NextReading
<1>4. \A a \in Converters :
        /\ adc'[a] \in Registers
        /\ adc'[a].conversion = Nothing
        /\ adc'[a].sq1 = adc[a].sq1
        /\ ~adc'[a].eoc
  BY <1>2, <1>3, Aged, Zenon
<1>5. adc' \in [Converters -> Registers]
  BY <1>3, <1>4
<1>6. Here' \in Converters /\ (Here' = "ADC2" <=> sensor' = "apps1")
  BY <1>1 DEF Here, Sensors, Converters, adcOf
<1>7. readStep' # "switch" => my'.sq1 = sensor'
  <2> SUFFICES ASSUME readStep' # "switch" PROVE my'.sq1 = sensor'
    OBVIOUS
  <2>1. sensor' = "apps1" /\ Here' = "ADC2"
    BY SensorFacts, <1>1, <1>6 DEF NextReading, Converters, AnalogTypeOK
  <2>2. adc["ADC2"].sq1 = "apps1"
    BY DEF AnalogInv
  <2> QED BY <2>1, <2>2, <1>4 DEF my, Converters
<1>8. AnalogTypeOK'
  BY <1>1, <1>4, <1>5, NothingIsSample, AnalogAssumption DEF AnalogTypeOK
<1>9. AnalogInv'
  <2>1. adc'["ADC2"].sq1 = "apps1"
    BY <1>4 DEF AnalogInv, Converters
  <2>2. my'.conversion = Nothing /\ ~my'.eoc
    BY <1>4, <1>6 DEF my
  <2> QED BY <1>1, <1>4, <1>7, <2>1, <2>2 DEF AnalogInv, CountIsItsSensors
<1> QED BY <1>8, <1>9

ReadSteps == {"switch", "start", "enabling", "poll", "value", "stop", "disabling"}
Mine == [of |-> sensor, new |-> TRUE]

\* A step that changes at most the converter of the sensor that is read.
LEMMA StepHere ==
  ASSUME AnalogSafe, sensor' = sensor, NEW r \in Registers, adc' = [adc EXCEPT ![Here] = r],
         readStep' \in ReadSteps, waited' \in 0 .. MAX_WAIT, count' \in Samples,
         troubled' \in BOOLEAN,
         sensor = "apps1" => r.sq1 = "apps1",
         readStep' # "switch" => r.sq1 = sensor,
         r.conversion # Nothing => readStep' = "poll" /\ r.conversion = Mine,
         r.eoc => readStep' = "poll" /\ r.dr = Mine /\ r.conversion = Nothing,
         readStep' = "value" => r.dr = Mine,
         readStep' \in {"stop", "disabling"} => count' = Mine
  PROVE  AnalogSafe'
<1> USE DEF AnalogSafe
<1>1. Here \in Converters /\ Here' = Here /\ (Here = "ADC2" <=> sensor = "apps1")
  BY SensorFacts DEF AnalogTypeOK, Here
<1>2. adc \in [Converters -> Registers]
  BY DEF AnalogTypeOK
<1>3. /\ adc' \in [Converters -> Registers]
      /\ adc'[Here] = r
      /\ \A a \in Converters \ {Here} : adc'[a] = adc[a]
  BY <1>1, <1>2
<1>4. my' = r
  BY <1>1, <1>3 DEF my
<1>5. adc'["ADC2"].sq1 = "apps1"
  BY <1>1, <1>3 DEF AnalogInv, Converters
<1>6. \A a \in Converters \ {Here'} : adc'[a].conversion = Nothing
  BY <1>1, <1>3 DEF AnalogTypeOK
<1>7. AnalogTypeOK'
  BY <1>3, <1>6 DEF AnalogTypeOK, ReadSteps
<1>8. \A a \in Converters : adc'[a].eoc => a = Here' /\ readStep' = "poll"
  BY <1>1, <1>3 DEF AnalogInv
<1>9. AnalogInv'
  BY <1>4, <1>5, <1>8 DEF AnalogInv, CountIsItsSensors, Mine
<1> QED BY <1>7, <1>9

\* A step that changes no converter.
LEMMA StepElsewhere ==
  ASSUME AnalogSafe, UNCHANGED <<sensor, adc>>, readStep # "switch",
         readStep' \in ReadSteps, readStep' # "switch", waited' \in 0 .. MAX_WAIT,
         count' \in Samples, troubled' \in BOOLEAN,
         my.conversion # Nothing => readStep' = "poll",
         my.eoc => readStep' = "poll",
         readStep' = "value" => my.dr = Mine,
         readStep' \in {"stop", "disabling"} => count' = Mine
  PROVE  AnalogSafe'
<1>1. my \in Registers /\ adc' = [adc EXCEPT ![Here] = my]
  BY SensorFacts DEF AnalogSafe, AnalogTypeOK, my
<1>2. /\ my.sq1 = sensor /\ (my.conversion # Nothing => my.conversion = Mine)
      /\ my.eoc => my.dr = Mine /\ my.conversion = Nothing
  BY DEF AnalogSafe, AnalogInv, Mine
<1> QED BY <1>1, <1>2, StepHere

LEMMA AnalogFacts ==
  ASSUME AnalogSafe
  PROVE  /\ my \in Registers /\ Here \in Converters /\ sensor \in Sensors
         /\ readStep \in ReadSteps /\ waited \in 0 .. MAX_WAIT /\ count \in Samples
         /\ troubled \in BOOLEAN /\ Mine \in Samples
         /\ sensor = "apps1" => my.sq1 = "apps1"
         /\ readStep # "switch" => my.sq1 = sensor
         /\ my.conversion # Nothing => readStep = "poll" /\ my.conversion = Mine
         /\ my.eoc => readStep = "poll" /\ my.dr = Mine /\ my.conversion = Nothing
         /\ readStep = "value" => my.dr = Mine
         /\ readStep \in {"stop", "disabling"} => count = Mine
<1>1. sensor \in Sensors /\ Here \in Converters /\ my \in Registers
  BY SensorFacts DEF AnalogSafe, AnalogTypeOK, my
<1>2. Mine \in Samples
  BY <1>1 DEF Mine, Samples
<1>3. sensor = "apps1" => my.sq1 = "apps1"
  BY <1>1, SensorFacts DEF AnalogSafe, AnalogInv, my
<1>4. my.eoc => readStep = "poll" /\ my.dr = Mine /\ my.conversion = Nothing
  BY <1>1 DEF AnalogSafe, AnalogInv, my, Mine
<1> QED
  BY <1>1, <1>2, <1>3, <1>4, Zenon
  DEF AnalogSafe, AnalogTypeOK, AnalogInv, CountIsItsSensors, Mine, ReadSteps

LEMMA SwitchChannelSafe == ASSUME AnalogSafe, SwitchChannel PROVE AnalogSafe'
<1> DEFINE r == [my EXCEPT !.sq1 = sensor]
<1>1. adc' = [adc EXCEPT ![Here] = r] /\ r \in Registers
  BY AnalogFacts DEF SwitchChannel, selected, my, Registers
<1>2. r.sq1 = sensor /\ r.conversion = Nothing /\ ~r.eoc
  BY AnalogFacts DEF SwitchChannel, Registers
<1>3. readStep' = "start" /\ UNCHANGED <<sensor, waited, count, troubled>>
  BY DEF SwitchChannel
<1> HIDE DEF r
<1> QED BY <1>1, <1>2, <1>3, AnalogFacts, StepHere DEF ReadSteps

LEMMA StartConversionSafe ==
  ASSUME AnalogSafe, readStep \in {"start", "enabling"}, StartConversion,
         UNCHANGED <<sensor, count, troubled>>
  PROVE  AnalogSafe'
<1> DEFINE c == IF my.adon THEN [of |-> my.sq1, new |-> TRUE] ELSE Nothing
           r == [my EXCEPT !.eoc = FALSE, !.conversion = c]
<1>1. c \in {Mine, Nothing} /\ c \in Samples
  BY AnalogFacts, NothingIsSample DEF Mine
<1> HIDE DEF c
<1>2. adc' = [adc EXCEPT ![Here] = r]
  BY AnalogFacts DEF StartConversion, my, c
<1>3. r \in Registers /\ r.sq1 = sensor /\ ~r.eoc /\ r.conversion = c
  BY <1>1, AnalogFacts DEF Registers
<1>4. readStep' = "poll" /\ waited' = 0 /\ 0 \in 0 .. MAX_WAIT
  BY AnalogAssumption DEF StartConversion
<1> HIDE DEF r
<1> QED BY <1>1, <1>2, <1>3, <1>4, AnalogFacts, StepHere DEF ReadSteps

LEMMA StartSafe == ASSUME AnalogSafe, Start PROVE AnalogSafe'
<1>1. CASE isOn
  BY <1>1, StartConversionSafe DEF Start
<1>2. CASE ~isOn
  <2> DEFINE r == [my EXCEPT !.written = TRUE]
  <2>1. adc' = [adc EXCEPT ![Here] = r] /\ r \in Registers
    BY <1>2, AnalogFacts DEF Start, my, Registers
  <2>2. r.sq1 = sensor /\ r.conversion = Nothing /\ ~r.eoc
    BY AnalogFacts DEF Start, Registers
  <2>3. readStep' = "enabling" /\ UNCHANGED <<sensor, waited, count, troubled>>
    BY <1>2 DEF Start
  <2> HIDE DEF r
  <2> QED BY <2>1, <2>2, <2>3, AnalogFacts, StepHere DEF ReadSteps
<1> QED BY <1>1, <1>2

LEMMA EnabledSafe == ASSUME AnalogSafe, Enabled PROVE AnalogSafe'
BY StartConversionSafe DEF Enabled

\* A converter that is not on has no conversion and no result, and stays so.
LEMMA EnableTimeoutSafe ==
  ASSUME AnalogSafe, EnableTimeout PROVE AnalogSafe'
<1>1. /\ readStep = "enabling" /\ readStep' = "poll" /\ waited' = 0 /\ troubled' = TRUE
      /\ UNCHANGED <<sensor, adc, count>>
  BY DEF EnableTimeout
<1>2. 0 \in 0 .. MAX_WAIT
  BY AnalogAssumption
<1> QED BY <1>1, <1>2, AnalogFacts, StepElsewhere DEF ReadSteps

LEMMA PollSafe == ASSUME AnalogSafe, PollForConversion PROVE AnalogSafe'
<1> DEFINE r == [my EXCEPT !.eoc = FALSE]
<1>1. adc' = [adc EXCEPT ![Here] = r] /\ r \in Registers
  BY AnalogFacts DEF PollForConversion, my, Registers
<1>2. r.sq1 = sensor /\ r.conversion = Nothing /\ r.dr = Mine /\ ~r.eoc
  BY AnalogFacts DEF PollForConversion, Registers, ended
<1>3. readStep' = "value" /\ UNCHANGED <<sensor, waited, count, troubled>>
  BY DEF PollForConversion
<1> HIDE DEF r
<1> QED BY <1>1, <1>2, <1>3, AnalogFacts, StepHere DEF ReadSteps

LEMMA GetValueSafe == ASSUME AnalogSafe, GetValue PROVE AnalogSafe'
<1>1. /\ readStep = "value" /\ readStep' = "stop" /\ count' = my.dr
      /\ UNCHANGED <<sensor, waited, adc, troubled>>
  BY DEF GetValue
<1> QED BY <1>1, AnalogFacts, StepElsewhere DEF ReadSteps

LEMMA StopSafe == ASSUME AnalogSafe, Stop PROVE AnalogSafe'
<1>1. readStep = "stop" /\ UNCHANGED troubled
  BY DEF Stop
<1>2. CASE my.adon
  <2> DEFINE r == [my EXCEPT !.written = FALSE]
  <2>1. adc' = [adc EXCEPT ![Here] = r] /\ r \in Registers
    BY <1>2, AnalogFacts DEF Stop, my, Registers
  <2>2. r.sq1 = sensor /\ r.conversion = Nothing /\ ~r.eoc
    BY <1>1, AnalogFacts DEF Registers
  <2>3. readStep' = "disabling" /\ UNCHANGED <<sensor, waited, count, troubled>>
    BY <1>2 DEF Stop
  <2> HIDE DEF r
  <2> QED BY <1>1, <2>1, <2>2, <2>3, AnalogFacts, StepHere DEF ReadSteps
<1>3. CASE ~my.adon
  <2>1. NextReading(adc)
    BY <1>3 DEF Stop
  <2> QED BY <1>1, <2>1, AnalogFacts, NextReadingSafe
<1> QED BY <1>2, <1>3

LEMMA DisabledSafe == ASSUME AnalogSafe, Disabled \/ DisableTimeout PROVE AnalogSafe'
BY AnalogFacts, NextReadingSafe DEF Disabled, DisableTimeout

LEMMA AnalogTickSafe == ASSUME AnalogSafe, AnalogTick PROVE AnalogSafe'
<1>1. /\ readStep \in {"enabling", "disabling"} /\ waited' = waited + 1
      /\ UNCHANGED <<sensor, readStep, adc, count, troubled>>
  BY DEF AnalogTick
<1>2. waited' \in 0 .. MAX_WAIT
  BY AnalogFacts, AnalogAssumption DEF AnalogTick
<1> QED BY <1>1, <1>2, AnalogFacts, StepElsewhere DEF ReadSteps

LEMMA SettleSafe == ASSUME AnalogSafe, Settle PROVE AnalogSafe'
<1>1. PICK a \in Converters :
        /\ adc' = [adc EXCEPT ![a].adon = adc[a].written,
                              ![a].conversion = IF adc[a].written THEN @ ELSE Nothing]
        /\ UNCHANGED <<sensor, readStep, waited, count, troubled>>
  BY DEF Settle
<1> DEFINE c == IF adc[a].written THEN adc[a].conversion ELSE Nothing
           r == [adc[a] EXCEPT !.adon = adc[a].written, !.conversion = c]
<1>2. adc[a] \in Registers
  BY DEF AnalogSafe, AnalogTypeOK
<1>3. c \in Samples /\ (c = adc[a].conversion \/ c = Nothing)
  BY <1>2, NothingIsSample DEF Registers
<1>4. adc' = [adc EXCEPT ![a] = r]
  BY <1>1, <1>2 DEF AnalogSafe, AnalogTypeOK
<1> HIDE DEF c
<1>5. /\ r \in Registers /\ r.sq1 = adc[a].sq1 /\ r.conversion = c
      /\ r.eoc = adc[a].eoc /\ r.dr = adc[a].dr
  BY <1>2, <1>3 DEF Registers
<1> HIDE DEF r
<1>6. CASE a = Here
  BY <1>1, <1>3, <1>4, <1>5, <1>6, AnalogFacts, StepHere DEF my
<1>7. CASE a # Here
  <2>1. Here' = Here /\ adc' \in [Converters -> Registers] /\ my' = my
    BY <1>1, <1>4, <1>5, <1>7, AnalogFacts DEF AnalogSafe, AnalogTypeOK, my, Here
  <2>2. \A b \in Converters \ {Here'} : adc'[b].conversion = Nothing
    BY <1>3, <1>4, <1>5, <1>7, <2>1 DEF AnalogSafe, AnalogTypeOK
  <2>3. adc'["ADC2"].sq1 = "apps1"
    BY <1>4, <1>5 DEF AnalogSafe, AnalogInv, AnalogTypeOK, Converters
  <2>4. AnalogTypeOK'
    BY <1>1, <2>1, <2>2, Zenon DEF AnalogSafe, AnalogTypeOK
  <2>6. \A b \in Converters : adc'[b].eoc => b = Here' /\ readStep' = "poll"
    BY <1>1, <1>4, <1>5, <2>1 DEF AnalogSafe, AnalogInv, AnalogTypeOK
  <2>5. AnalogInv'
    BY <1>1, <2>1, <2>3, <2>6, Zenon DEF AnalogSafe, AnalogInv, CountIsItsSensors
  <2> QED BY <2>4, <2>5 DEF AnalogSafe
<1> QED BY <1>6, <1>7

LEMMA ConversionSafe == ASSUME AnalogSafe, Convert \/ Drop PROVE AnalogSafe'
<1>1. PICK a \in Converters :
        /\ adc[a].conversion # Nothing
        /\ \/ adc' = [adc EXCEPT ![a].conversion = Nothing, ![a].eoc = TRUE,
                                  ![a].dr = adc[a].conversion]
           \/ adc' = [adc EXCEPT ![a].conversion = Nothing]
        /\ UNCHANGED <<sensor, readStep, waited, count>> /\ troubled' \in BOOLEAN
  BY AnalogFacts DEF Convert, Drop
<1>2. a = Here /\ adc[a] = my /\ readStep = "poll" /\ my.conversion = Mine /\ my \in Registers
  BY <1>1, AnalogFacts DEF AnalogSafe, AnalogTypeOK, my
<1>3. CASE adc' = [adc EXCEPT ![a].conversion = Nothing, ![a].eoc = TRUE,
                              ![a].dr = adc[a].conversion]
  <2> DEFINE r == [my EXCEPT !.conversion = Nothing, !.eoc = TRUE, !.dr = Mine]
  <2>1. adc' = [adc EXCEPT ![Here] = r]
    BY <1>2, <1>3 DEF AnalogSafe, AnalogTypeOK
  <2>2. r \in Registers /\ r.conversion = Nothing /\ r.sq1 = my.sq1 /\ r.dr = Mine
    BY <1>2, AnalogFacts, NothingIsSample DEF Registers
  <2> HIDE DEF r
  <2> QED BY <1>1, <1>2, <2>1, <2>2, AnalogFacts, StepHere
<1>4. CASE adc' = [adc EXCEPT ![a].conversion = Nothing]
  <2> DEFINE r == [my EXCEPT !.conversion = Nothing]
  <2>1. adc' = [adc EXCEPT ![Here] = r]
    BY <1>2, <1>4 DEF AnalogSafe, AnalogTypeOK
  <2>2. /\ r \in Registers /\ r.conversion = Nothing /\ r.sq1 = my.sq1 /\ r.dr = my.dr
        /\ r.eoc = my.eoc
    BY <1>2, NothingIsSample DEF Registers
  <2> HIDE DEF r
  <2> QED BY <1>1, <1>2, <2>1, <2>2, AnalogFacts, StepHere
<1> QED BY <1>1, <1>3, <1>4

LEMMA WatchdogResetSafe == ASSUME AnalogSafe, WatchdogReset PROVE AnalogSafe'
<1>1. /\ sensor' = "apps1" /\ readStep' = "start" /\ adc' = Configured
      /\ waited' \in 0 .. MAX_WAIT /\ count' \in Samples /\ troubled' \in BOOLEAN
  BY AnalogFacts DEF WatchdogReset
<1>2. Here' = "ADC2" /\ sensor' \in Sensors
  BY <1>1, ConfiguredFacts DEF Here
<1>3. AnalogTypeOK'
  BY <1>1, <1>2, ConfiguredFacts DEF AnalogTypeOK
<1>4. AnalogInv'
  BY <1>1, <1>2, ConfiguredFacts DEF AnalogInv, CountIsItsSensors, my, Converters
<1> QED BY <1>3, <1>4 DEF AnalogSafe

LEMMA AnalogStutters == ASSUME AnalogSafe, UNCHANGED analogVars PROVE AnalogSafe'
BY DEF analogVars, AnalogSafe, AnalogTypeOK, AnalogInv, CountIsItsSensors, my, Here

\* The ranges and what ties the converters to the reading in progress hold in
\* every state.
LEMMA AnalogInvariant == AnalogSpec => []AnalogSafe
<1>1. AnalogInit => AnalogSafe
  BY AnalogStarts
<1>2. AnalogSafe /\ [AnalogNext]_analogVars => AnalogSafe'
  BY AnalogStutters, SwitchChannelSafe, StartSafe, EnabledSafe, EnableTimeoutSafe,
     PollSafe, GetValueSafe, StopSafe, DisabledSafe, AnalogTickSafe, SettleSafe,
     ConversionSafe, WatchdogResetSafe, Zenon
  DEF AnalogNext, ReadingSteps
<1> QED BY <1>1, <1>2, PTL DEF AnalogSpec

\* The ranges of the readings' state, and that a converter works only while its
\* sensor is read.
THEOREM AnalogTyped == AnalogSpec => []AnalogTypeOK
BY AnalogInvariant, PTL DEF AnalogSafe

\* Every reading of safety_task returns a conversion of its own sensor started
\* for it, whatever the timeouts of ADC_Enable and ADC_ConversionStop_Disable.
THEOREM ReadingsAreTheirSensors == AnalogSpec => []CountIsItsSensors
<1>1. AnalogSafe => CountIsItsSensors
  BY DEF AnalogSafe, AnalogInv
<1> QED BY <1>1, AnalogInvariant, PTL

-------------------------------------------------------------------------------
(* The lines                                                               *)

TOTAL == LINES * LINE_LENGTH
Held == {{}} \cup {{b} : b \in 0 .. TOTAL}

\* What the lines before one hold.
LEMMA Products ==
  ASSUME NEW number \in 1 .. LINES
  PROVE  /\ (number - 1) * LINE_LENGTH \in Nat
         /\ (number - 1) * LINE_LENGTH + LINE_LENGTH = number * LINE_LENGTH
         /\ number * LINE_LENGTH <= TOTAL /\ TOTAL \in Nat
<1>1. number \in Nat /\ number - 1 \in Nat /\ LINES - number \in Nat /\ LINES \in Nat /\ LINE_LENGTH \in Nat
  BY LinkAssumption
<1>2. \A m \in Nat : m * LINE_LENGTH \in Nat
  BY <1>1
<1>3. (number - 1) * LINE_LENGTH + LINE_LENGTH = number * LINE_LENGTH
  BY <1>1
<1>4. LINES * LINE_LENGTH = number * LINE_LENGTH + (LINES - number) * LINE_LENGTH
  BY <1>1
<1>5. number * LINE_LENGTH \in Nat /\ (LINES - number) * LINE_LENGTH \in Nat
  BY <1>1, <1>2
<1> QED BY <1>1, <1>2, <1>3, <1>4, <1>5 DEF TOTAL

LEMMA Ranges ==
  ASSUME LinkTypeOK
  PROVE  /\ line \in 1 .. LINES /\ left \in 0 .. LINE_LENGTH /\ LINES \in Nat \ {0}
         /\ LINE_LENGTH \in Nat \ {0} /\ TOTAL \in Nat
         /\ txDr \in Held /\ shift \in Held /\ out \in Seq(1 .. TOTAL)
<1>1. line \in 1 .. LINES /\ left \in 0 .. LINE_LENGTH /\ out \in Seq(1 .. TOTAL)
  BY DEF LinkTypeOK, TOTAL
<1>2. \A register \in {txDr, shift} :
        register = {} \/ \E b \in 0 .. TOTAL : register = {b}
  BY DEF LinkTypeOK, TOTAL
<1>3. txDr \in Held /\ shift \in Held
  BY <1>2 DEF Held
<1> QED BY <1>1, <1>3, LinkAssumption, Products

\* The registers' part of the ranges.
LEMMA HeldTypes ==
  ASSUME txDr' \in Held, shift' \in Held
  PROVE  \A register \in {txDr', shift'} :
           register = {} \/ \E b \in 0 .. LINES * LINE_LENGTH : register = {b}
BY DEF Held, TOTAL

\* The byte that is sent next is one of the iteration.
LEMMA NextByte ==
  ASSUME LinkTypeOK, linkStep = "send", left > 0
  PROVE  /\ Handed \in 0 .. TOTAL - 1
         /\ (line - 1) * LINE_LENGTH + (LINE_LENGTH - left) + 1 = Handed + 1
<1> DEFINE before == (line - 1) * LINE_LENGTH
<1>1. Handed = before + (LINE_LENGTH - left)
  BY DEF Handed, InLine
<1>2. /\ before \in Nat /\ before + LINE_LENGTH <= TOTAL /\ TOTAL \in Nat
      /\ left \in 1 .. LINE_LENGTH /\ LINE_LENGTH \in Nat
  BY Ranges, Products
<1> HIDE DEF before
<1>3. Handed \in 0 .. TOTAL - 1 /\ before + (LINE_LENGTH - left) + 1 = Handed + 1
  BY <1>1, <1>2
<1> QED BY <1>3 DEF before

LEMMA LinkStarts == LinkInit => LinkTypeOK /\ SpentInv /\ FlightInv
<1> SUFFICES ASSUME LinkInit PROVE LinkTypeOK /\ SpentInv /\ FlightInv
  OBVIOUS
<1>1. /\ linkStep = "rest" /\ line = 1 /\ left = 0 /\ gState = "ready" /\ tickstart = 0
      /\ uwTick = 0 /\ spent = 0 /\ failed = FALSE /\ dashboard = FALSE
      /\ txDr = {} /\ shift = {} /\ out = <<>>
  BY DEF LinkInit
<1>2. /\ 1 \in 1 .. LINES /\ 0 \in 0 .. LINE_LENGTH /\ 0 \in 0 .. HAL_TICKS - 1
      /\ 0 \in 0 .. MAX_SPENT
  BY LinkAssumption
<1>3. out \in Seq(1 .. LINES * LINE_LENGTH)
  BY <1>1
<1>4. LinkTypeOK
  BY <1>1, <1>2, <1>3 DEF LinkTypeOK, InLine
<1> QED BY <1>1, <1>4 DEF SpentInv, FlightInv, InLine

\* The ranges after a call has returned.
LEMMA ReturnTyped ==
  ASSUME LinkTypeOK, NEW ok \in BOOLEAN, ReturnFrom(ok), gState' = "ready", UNCHANGED uartVars
  PROVE  LinkTypeOK' /\ SpentInv' /\ ~InLine'
<1>1. /\ failed' \in BOOLEAN /\ dashboard' \in BOOLEAN /\ linkStep' \in {"call", "report"}
      /\ left' = 0 /\ tickstart' = 0 /\ spent' = 0 /\ uwTick' = uwTick
  BY DEF ReturnFrom, LinkTypeOK
<1>2. line' \in 1 .. LINES
  BY LinkAssumption DEF ReturnFrom, LinkTypeOK
<1>3. /\ 0 \in 0 .. LINE_LENGTH /\ 0 \in 0 .. HAL_TICKS - 1 /\ 0 \in 0 .. MAX_SPENT
  BY LinkAssumption
<1>4. txDr' = txDr /\ shift' = shift /\ out' = out
  BY DEF uartVars
<1>5. LinkTypeOK'
  BY <1>1, <1>2, <1>3, <1>4 DEF LinkTypeOK, InLine
<1> QED BY <1>1, <1>5 DEF SpentInv, InLine

\* The ranges and the time of a line.
LinkTimed == LinkTypeOK /\ SpentInv

LEMMA BeginTimed == ASSUME LinkTimed, BeginLines PROVE LinkTimed'
<1>1. /\ linkStep = "rest" /\ linkStep' = "call" /\ line' = 1 /\ failed' = FALSE /\ out' = <<>>
      /\ txDr' = {Leftover : b \in txDr} /\ shift' = {Leftover : b \in shift}
      /\ UNCHANGED <<left, gState, dashboard, tickstart, uwTick, spent>>
  BY DEF BeginLines, clockVars
<1>2. 1 \in 1 .. LINES /\ 0 \in 0 .. TOTAL
  BY LinkAssumption, Ranges DEF LinkTimed
<1>3. txDr' \in Held /\ shift' \in Held
  BY <1>1, <1>2, Ranges DEF LinkTimed, Held, Leftover
<1>4. out' \in Seq(1 .. LINES * LINE_LENGTH)
  BY <1>1
<1>5. LinkTypeOK'
  BY <1>1, <1>2, <1>3, <1>4, HeldTypes DEF LinkTimed, LinkTypeOK, InLine
<1> QED BY <1>1, <1>5 DEF LinkTimed, SpentInv, InLine

LEMMA CallTimed == ASSUME LinkTimed, Call PROVE LinkTimed'
<1>1. linkStep = "call" /\ gState = "ready" /\ LinkTypeOK
  BY DEF Call, LinkTimed, LinkTypeOK, InLine
<1>2. /\ gState' = "busy_tx" /\ left' = LINE_LENGTH /\ tickstart' = uwTick /\ linkStep' = "send"
      /\ UNCHANGED <<line, failed, dashboard, uwTick, spent, txDr, shift, out>>
  BY <1>1 DEF Call, uartVars
<1>3. LINE_LENGTH \in 0 .. LINE_LENGTH
  BY LinkAssumption
<1>4. LinkTypeOK'
  BY <1>1, <1>2, <1>3 DEF LinkTypeOK, InLine
<1>5. spent = 0 /\ uwTick \in Int
  BY <1>1 DEF LinkTimed, SpentInv, InLine, LinkTypeOK
<1> QED BY <1>2, <1>4, <1>5 DEF LinkTimed, SpentInv, InLine

LEMMA SendTimed == ASSUME LinkTimed, SendByte PROVE LinkTimed'
<1>1. /\ linkStep = "send" /\ left > 0 /\ left' = left - 1
      /\ UNCHANGED <<linkStep, line, gState, failed, dashboard, tickstart, uwTick, spent,
                     shift, out>>
  BY DEF SendByte, clockVars
<1>2. txDr' = {Handed + 1} /\ Handed + 1 \in 0 .. TOTAL
  BY <1>1, NextByte, Ranges DEF SendByte, LinkTimed
<1>3. txDr' \in Held /\ shift' \in Held
  BY <1>1, <1>2, Ranges DEF LinkTimed, Held
<1>4. left' \in 0 .. LINE_LENGTH
  BY <1>1, Ranges DEF LinkTimed
<1>5. LinkTypeOK'
  BY <1>1, <1>3, <1>4, HeldTypes DEF LinkTimed, LinkTypeOK, InLine
<1> QED BY <1>1, <1>5 DEF LinkTimed, SpentInv, InLine

LEMMA ReturnsTimed == ASSUME LinkTimed, LineDone \/ (TestClock /\ lineExpired) PROVE LinkTimed'
BY ReturnTyped DEF LinkTimed, LineDone, TestClock, stateAfterTimeout

LEMMA FlagTimed ==
  ASSUME LinkTimed, FlagUnset \/ (TestClock /\ ~lineExpired) PROVE LinkTimed'
<1>1. /\ linkStep \in {"send", "clock"} /\ linkStep' \in {"send", "clock"}
      /\ UNCHANGED <<line, left, gState, failed, dashboard, tickstart, uwTick, spent, txDr,
                     shift, out>>
  BY DEF FlagUnset, TestClock, clockVars, uartVars
<1> QED BY <1>1 DEF LinkTimed, LinkTypeOK, SpentInv, InLine

LEMMA ReportTimed == ASSUME LinkTimed, Report PROVE LinkTimed'
<1>1. /\ linkStep = "report" /\ linkStep' = "rest" /\ dashboard' = failed /\ failed' = FALSE
      /\ UNCHANGED <<line, left, gState, tickstart, uwTick, spent, txDr, shift, out>>
  BY DEF Report, clockVars, uartVars
<1> QED BY <1>1 DEF LinkTimed, LinkTypeOK, SpentInv, InLine

LEMMA TickTimed == ASSUME LinkTimed, HalTick PROVE LinkTimed'
<1>1. /\ uwTick \in 0 .. HAL_TICKS - 1 /\ tickstart \in 0 .. HAL_TICKS - 1
      /\ spent \in 0 .. MAX_SPENT /\ HAL_TICKS \in Nat /\ MAX_SPENT \in Nat
      /\ MAX_SPENT < HAL_TICKS
  BY LinkAssumption DEF LinkTimed, LinkTypeOK
<1>2. /\ UNCHANGED <<linkStep, line, left, gState, failed, dashboard, tickstart, txDr, shift,
                     out>>
      /\ uwTick' = IF uwTick + 1 = HAL_TICKS THEN 0 ELSE uwTick + 1
      /\ InLine' = InLine
  BY DEF HalTick, uartVars, InLine
<1>3. uwTick' \in 0 .. HAL_TICKS - 1
  BY <1>1, <1>2
<1>4. CASE InLine
  <2>1. spent < MAX_SPENT /\ spent' = spent + 1
    BY <1>4 DEF HalTick
  <2>2. spent = IF uwTick >= tickstart THEN uwTick - tickstart
                ELSE uwTick - tickstart + HAL_TICKS
    BY <1>4 DEF LinkTimed, SpentInv
  <2>3. spent' = IF uwTick' >= tickstart THEN uwTick' - tickstart
                 ELSE uwTick' - tickstart + HAL_TICKS
    BY <1>1, <1>2, <2>1, <2>2
  <2>4. spent' \in 0 .. MAX_SPENT
    BY <1>1, <2>1
  <2>5. LinkTypeOK'
    BY <1>2, <1>3, <2>4 DEF LinkTimed, LinkTypeOK
  <2> QED BY <1>2, <1>4, <2>3, <2>5 DEF LinkTimed, SpentInv
<1>5. CASE ~InLine
  <2>1. spent' = 0 /\ 0 \in 0 .. MAX_SPENT
    BY <1>1, <1>5 DEF HalTick
  <2>2. LinkTypeOK'
    BY <1>2, <1>3, <2>1 DEF LinkTimed, LinkTypeOK
  <2> QED BY <1>2, <1>5, <2>1, <2>2 DEF LinkTimed, SpentInv
<1> QED BY <1>4, <1>5

LEMMA TransmitterTimed == ASSUME LinkTimed, LoadShift \/ ShiftOut PROVE LinkTimed'
<1>1. UNCHANGED <<linkStep, line, left, gState, failed, dashboard, tickstart, uwTick, spent>>
  BY DEF LoadShift, ShiftOut, clockVars
<1>2. txDr' \in Held /\ shift' \in Held
  BY Ranges DEF LoadShift, ShiftOut, LinkTimed, Held
<1>3. out' \in Seq(1 .. TOTAL)
  <2>1. CASE LoadShift
    BY <2>1, Ranges DEF LoadShift, LinkTimed
  <2>2. CASE ShiftOut
    <3>1. PICK b \in shift : out' = IF b = Leftover THEN out ELSE Append(out, b)
      BY <2>2 DEF ShiftOut
    <3>2. b \in 0 .. TOTAL /\ TOTAL \in Nat /\ out \in Seq(1 .. TOTAL)
      BY Ranges DEF LinkTimed, Held
    <3>3. CASE b = Leftover
      BY <3>1, <3>2, <3>3
    <3>4. CASE b # Leftover
      <4>1. b \in 1 .. TOTAL
        BY <3>2, <3>4 DEF Leftover
      <4> QED BY <3>1, <3>2, <3>4, <4>1
    <3> QED BY <3>3, <3>4
  <2> QED BY <2>1, <2>2
<1>4. LinkTypeOK'
  BY <1>1, <1>2, <1>3, HeldTypes DEF LinkTimed, LinkTypeOK, InLine, TOTAL
<1> QED BY <1>1, <1>4 DEF LinkTimed, SpentInv, InLine

LEMMA LinkStutters == ASSUME LinkTimed, UNCHANGED linkVars PROVE LinkTimed'
BY DEF linkVars, clockVars, uartVars, LinkTimed, LinkTypeOK, SpentInv, InLine

LEMMA LinkTimedStep == ASSUME LinkTimed, [LinkNext]_linkVars PROVE LinkTimed'
BY LinkStutters, BeginTimed, CallTimed, SendTimed, ReturnsTimed, FlagTimed, ReportTimed,
   TickTimed, TransmitterTimed, Zenon
DEF LinkNext, LinkTaskSteps

LEMMA LinkTimedInvariant == LinkSpec => []LinkTimed
<1>1. LinkInit => LinkTimed
  BY LinkStarts DEF LinkTimed
<1> QED BY <1>1, LinkTimedStep, PTL DEF LinkSpec

\* The ranges of the dashboard's line and of the UART's handle.
THEOREM LinkTyped == LinkSpec => []LinkTypeOK
BY LinkTimedInvariant, PTL DEF LinkTimed

\* HAL_UART_Transmit gives a line up only after its timeout, wherever the count wraps.
THEOREM CutsAreLate == LinkSpec => CutOnlyLate
<1> DEFINE Cut == TestClock /\ linkStep' # "send" => spent > LINE_TIMEOUT
<1>1. ASSUME LinkTimed, [LinkNext]_linkVars PROVE [Cut]_linkVars
  <2> SUFFICES ASSUME TestClock, linkStep' # "send" PROVE spent > LINE_TIMEOUT
    OBVIOUS
  <2>1. lineExpired /\ InLine
    BY DEF TestClock, InLine
  <2>2. spent = IF uwTick >= tickstart THEN uwTick - tickstart
                ELSE uwTick - tickstart + HAL_TICKS
    BY <1>1, <2>1 DEF LinkTimed, SpentInv
  <2>3. (IF uwTick >= tickstart THEN uwTick - tickstart
         ELSE uwTick - tickstart + HAL_TICKS) > LINE_TIMEOUT
    BY <2>1, Zenon DEF lineExpired
  <2> QED BY <2>2, <2>3
<1> HIDE DEF Cut
<1>2. LinkSpec => [][Cut]_linkVars
  BY <1>1, LinkTimedInvariant, PTL DEF LinkSpec
<1> QED BY <1>2 DEF CutOnlyLate, Cut

\* Intervals of at most two numbers.
LEMMA NoInterval == ASSUME NEW low \in Int, NEW h \in Int, low .. h = {} PROVE h < low
<1>1. low <= h => low \in low .. h
  OBVIOUS
<1> QED BY <1>1

LEMMA ShortInterval ==
  \A low, h, b \in Int : \A rest :
    (rest = {} \/ rest = {b + 1}) /\ {b} \cup rest = low .. h
      => b = low /\ b <= h /\ rest = (low + 1) .. h
<1> SUFFICES ASSUME NEW low \in Int, NEW h \in Int, NEW b \in Int, NEW rest,
                    rest = {} \/ rest = {b + 1}, {b} \cup rest = low .. h
             PROVE  b = low /\ b <= h /\ rest = (low + 1) .. h
  OBVIOUS
<1>1. b \in low .. h
  OBVIOUS
<1>2. low \in low .. h
  BY <1>1
<1>3. low \in {b} \cup rest
  BY <1>2
<1>4. b = low /\ b <= h
  BY <1>1, <1>3
<1>5. ASSUME NEW i PROVE i \in rest <=> i \in (low + 1) .. h
  <2>1. i \in rest <=> i \in low .. h /\ i # low
    BY <1>4
  <2> QED BY <2>1
<1> QED BY <1>4, <1>5

\* What FlightInv says inside an iteration with no line cut.
Flight(h) ==
  /\ \A i \in 1 .. Len(out) : out[i] = i
  /\ Len(out) <= h
  /\ (shift \cup txDr) \ {Leftover} = (Len(out) + 1) .. h
  /\ \A b \in shift, c \in txDr : c = b + 1 \/ (b = Leftover /\ c = Leftover)
  /\ Leftover \in shift \cup txDr => out = <<>>

LinkSafe == LinkTimed /\ FlightInv

LEMMA FlightIs ==
  FlightInv <=> (linkStep # "rest" /\ ~failed =>
                   Flight(Handed) /\ (linkStep = "report" => shift = {} /\ txDr = {}))
BY DEF FlightInv, Flight

LEMMA BeginFlight == ASSUME LinkSafe, BeginLines PROVE FlightInv'
<1>1. /\ linkStep' = "call" /\ line' = 1 /\ out' = <<>>
      /\ txDr' \subseteq {Leftover} /\ shift' \subseteq {Leftover}
  BY DEF BeginLines
<1>2. Handed' = 0
  BY <1>1, Ranges DEF Handed, InLine, LinkSafe, LinkTimed
<1>3. Len(out') = 0
  BY <1>1
<1>4. (shift' \cup txDr') \ {Leftover} = (Len(out') + 1) .. Handed'
  BY <1>1, <1>2, <1>3
<1> QED BY <1>1, <1>2, <1>3, <1>4 DEF FlightInv

LEMMA ReturnFlight ==
  ASSUME LinkSafe, \/ LineDone
                   \/ Call
                   \/ TestClock
                   \/ FlagUnset
                   \/ Report
                   \/ HalTick
  PROVE  FlightInv'
<1> SUFFICES ASSUME linkStep' # "rest", ~failed' PROVE FlightInv'
  BY DEF FlightInv
<1>1. LinkTypeOK /\ UNCHANGED <<txDr, shift, out>>
  BY DEF LinkSafe, LinkTimed, LineDone, Call, TestClock, FlagUnset, Report, HalTick, uartVars
<1>2. linkStep # "rest" /\ ~failed
  BY <1>1 DEF LineDone, Call, TestClock, FlagUnset, Report, HalTick, ReturnFrom, LinkTypeOK,
              clockVars
<1>3. Handed' = Handed /\ (linkStep' = "report" => shift = {} /\ txDr = {})
  <2>1. CASE LineDone
    <3>1. /\ linkStep = "send" /\ left = 0 /\ TC
          /\ line' = (IF line < LINES THEN line + 1 ELSE 1)
          /\ linkStep' = (IF line < LINES THEN "call" ELSE "report")
      BY <2>1 DEF LineDone, ReturnFrom
    <3>2. Handed = (line - 1) * LINE_LENGTH + LINE_LENGTH /\ line \in 1 .. LINES
      BY <1>1, <3>1, Ranges DEF Handed, InLine
    <3>3. Handed = line * LINE_LENGTH
      BY <3>2, Products
    <3>4. CASE line < LINES
      <4>1. Handed' = (line' - 1) * LINE_LENGTH + 0 /\ line' - 1 = line
        BY <1>1, <3>1, <3>4, Ranges DEF Handed, InLine
      <4>2. line * LINE_LENGTH \in Nat
        BY <1>1, Ranges
      <4> QED BY <3>1, <3>3, <3>4, <4>1, <4>2
    <3>5. CASE ~(line < LINES)
      <4>1. line = LINES
        BY <1>1, <3>5, Ranges
      <4>2. linkStep' = "report" /\ Handed' = LINES * LINE_LENGTH
        BY <3>1, <3>5 DEF Handed
      <4> QED BY <3>1, <3>3, <4>1, <4>2 DEF TC
    <3> QED BY <3>4, <3>5
  <2>2. CASE Call
    <3>1. /\ linkStep = "call" /\ linkStep' = "send" /\ left' = LINE_LENGTH /\ line' = line
      BY <1>1, <2>2 DEF Call, LinkTypeOK, InLine
    <3> QED BY <1>1, <3>1, Ranges, Products DEF Handed, InLine
  <2>3. CASE TestClock \/ FlagUnset
    <3>1. /\ linkStep \in {"send", "clock"} /\ linkStep' \in {"send", "clock"}
          /\ left' = left /\ line' = line
      BY <2>3 DEF TestClock, FlagUnset, ReturnFrom
    <3> QED BY <3>1 DEF Handed, InLine
  <2>4. CASE Report
    BY <2>4 DEF Report
  <2>5. CASE HalTick
    BY <1>2, <2>5 DEF HalTick, Handed, InLine, LinkSafe, FlightInv
  <2> QED BY <2>1, <2>2, <2>3, <2>4, <2>5
<1>4. Flight(Handed)
  BY <1>2, FlightIs DEF LinkSafe
<1> QED BY <1>1, <1>3, <1>4 DEF Flight, FlightInv

LEMMA SendFlight == ASSUME LinkSafe, SendByte PROVE FlightInv'
<1> SUFFICES ASSUME ~failed' PROVE FlightInv'
  BY DEF FlightInv
<1>1. /\ linkStep = "send" /\ left > 0 /\ txDr = {} /\ left' = left - 1
      /\ UNCHANGED <<linkStep, line, failed, shift, out>>
  BY DEF SendByte, TXE
<1>2. txDr' = {Handed + 1} /\ Handed \in Nat /\ LinkTypeOK
  BY <1>1, NextByte, Ranges DEF SendByte, LinkSafe, LinkTimed
<1>3. Handed' = Handed + 1
  <2>1. /\ (line - 1) * LINE_LENGTH \in Nat /\ LINE_LENGTH \in Nat /\ left \in 0 .. LINE_LENGTH
    BY <1>2, Ranges, Products
  <2> QED BY <1>1, <2>1 DEF Handed, InLine
<1>4. Flight(Handed)
  BY <1>1, FlightIs DEF LinkSafe
<1>5. Len(out) \in Nat /\ shift \in Held
  BY <1>2, Ranges
<1>6. (shift \cup txDr') \ {Leftover} = (Len(out) + 1) .. (Handed + 1)
  BY <1>1, <1>2, <1>4, <1>5 DEF Flight, Leftover
<1>7. \A b \in shift : Handed + 1 = b + 1
  <2>1. TAKE b \in shift
  <2>2. shift = {b} /\ b \in Nat
    BY <1>5, Ranges, <1>2 DEF Held
  <2>3. CASE b = Leftover
    <3>1. Len(out) = 0
      BY <1>4, <2>2, <2>3 DEF Flight
    <3>2. (Len(out) + 1) .. Handed = {}
      BY <1>1, <1>4, <2>2, <2>3 DEF Flight
    <3> QED BY <1>2, <2>3, <3>1, <3>2 DEF Leftover
  <2>4. CASE b # Leftover
    <3>1. {b} \cup {} = (Len(out) + 1) .. Handed /\ Len(out) + 1 \in Int /\ Handed \in Int
      BY <1>1, <1>2, <1>4, <1>5, <2>2, <2>4 DEF Flight
    <3>2. b \in Int /\ Len(out) + 1 + 1 \in Int
      BY <1>5, <2>2
    <3>3. b = Len(out) + 1 /\ b <= Handed /\ (Len(out) + 1 + 1) .. Handed = {}
      <4> DEFINE low == Len(out) + 1
                 rest == {}
      <4>1. low \in Int /\ (rest = {} \/ rest = {b + 1}) /\ {b} \cup rest = low .. Handed
        BY <3>1, <3>2
      <4> HIDE DEF low, rest
      <4>2. b = low /\ b <= Handed /\ rest = (low + 1) .. Handed
        BY <3>1, <3>2, <4>1, ShortInterval
      <4> QED BY <4>2 DEF low, rest
    <3>4. Handed < Len(out) + 1 + 1
      BY <3>1, <3>2, <3>3, NoInterval, Zenon
    <3> QED BY <1>2, <1>5, <3>3, <3>4
  <2> QED BY <2>3, <2>4
<1>8. Leftover \in shift => out = <<>>
  BY <1>4 DEF Flight
<1>9. Leftover \notin txDr'
  BY <1>2 DEF Leftover
<1>10. /\ \A i \in 1 .. Len(out) : out[i] = i
       /\ Len(out) <= Handed + 1
  BY <1>2, <1>4, <1>5 DEF Flight
<1> QED BY <1>1, <1>2, <1>3, <1>6, <1>7, <1>8, <1>9, <1>10 DEF FlightInv

LEMMA LoadFlight == ASSUME LinkSafe, LoadShift PROVE FlightInv'
<1>1. /\ shift = {} /\ txDr # {} /\ shift' = txDr /\ txDr' = {}
      /\ UNCHANGED <<linkStep, line, left, failed, out>>
  BY DEF LoadShift
<1>2. Handed' = Handed
  BY <1>1 DEF Handed, InLine
<1> QED BY <1>1, <1>2 DEF LinkSafe, FlightInv

LEMMA ShiftFlight == ASSUME LinkSafe, ShiftOut PROVE FlightInv'
<1> SUFFICES ASSUME linkStep' # "rest", ~failed' PROVE FlightInv'
  BY DEF FlightInv
<1>1. PICK b \in shift :
        /\ shift' = {}
        /\ out' = IF b = Leftover THEN out ELSE Append(out, b)
        /\ UNCHANGED <<linkStep, line, left, failed, txDr>>
  BY DEF ShiftOut
<1>2. Handed' = Handed
  BY <1>1 DEF Handed, InLine
<1>3. /\ Flight(Handed) /\ linkStep # "report"
  BY <1>1, FlightIs DEF LinkSafe
<1>4. /\ shift = {b} /\ b \in Nat /\ out \in Seq(1 .. TOTAL) /\ Len(out) \in Nat
      /\ txDr = {} \/ \E c \in Nat : txDr = {c}
  BY Ranges DEF LinkSafe, LinkTimed, Held
<1>5. CASE b = Leftover
  <2>1. out' = out
    BY <1>1, <1>5
  <2>2. (shift' \cup txDr') \ {Leftover} = (shift \cup txDr) \ {Leftover}
    BY <1>1, <1>4, <1>5
  <2> QED BY <1>1, <1>2, <1>3, <2>1, <2>2 DEF Flight, FlightInv
<1>6. CASE b # Leftover
  <2>1. Leftover \notin txDr /\ (txDr = {} \/ txDr = {b + 1})
    BY <1>3, <1>4, <1>6 DEF Flight, Leftover
  <2>2. {b} \cup txDr = (Len(out) + 1) .. Handed
    BY <1>3, <1>4, <1>6, <2>1 DEF Flight
  <2>3. Handed \in Int
    BY Ranges, Products DEF Handed, LinkSafe, LinkTimed
  <2>4. /\ Len(out) + 1 \in Int /\ b \in Int /\ Len(out) + 1 + 1 = Len(out) + 2
        /\ txDr \in {{}, {b + 1}}
    BY <1>4, <2>1
  <2>9. b = Len(out) + 1 /\ b <= Handed /\ txDr = (Len(out) + 1 + 1) .. Handed
    <3> DEFINE low == Len(out) + 1
    <3>1. low \in Int /\ {b} \cup txDr = low .. Handed
      BY <2>2, <2>4
    <3> HIDE DEF low
    <3>2. b = low /\ b <= Handed /\ txDr = (low + 1) .. Handed
      BY <2>3, <2>4, <3>1, ShortInterval
    <3> QED BY <3>2 DEF low
  <2>5. txDr = (Len(out) + 2) .. Handed
    BY <2>4, <2>9
  <2>6. /\ out' = Append(out, b) /\ Len(out') = Len(out) + 1
        /\ \A i \in 1 .. Len(out') : out'[i] = i
    BY <1>1, <1>3, <1>4, <1>6, <2>9 DEF Flight
  <2>7. (shift' \cup txDr') \ {Leftover} = (Len(out') + 1) .. Handed
    BY <1>1, <1>4, <2>1, <2>5, <2>6
  <2>8. Len(out') <= Handed
    BY <2>6, <2>9
  <2> QED BY <1>1, <1>2, <1>3, <2>1, <2>6, <2>7, <2>8 DEF FlightInv
<1> QED BY <1>5, <1>6

LEMMA LinkSafeInvariant == LinkSpec => []LinkSafe
<1>1. LinkInit => LinkSafe
  BY LinkStarts DEF LinkSafe, LinkTimed
<1>2. ASSUME LinkSafe, UNCHANGED linkVars PROVE FlightInv'
  BY <1>2 DEF LinkSafe, FlightInv, Handed, InLine, linkVars, clockVars, uartVars
<1>3. ASSUME LinkSafe, [LinkNext]_linkVars PROVE FlightInv'
  BY <1>2, <1>3, BeginFlight, ReturnFlight, SendFlight, LoadFlight, ShiftFlight, Zenon
  DEF LinkNext, LinkTaskSteps
<1>4. LinkSafe /\ [LinkNext]_linkVars => LinkSafe'
  BY <1>3, LinkTimedStep DEF LinkSafe
<1> QED BY <1>1, <1>4, PTL DEF LinkSpec

\* An iteration that clears FAULT_DASHBOARD has put every byte of its lines on the
\* wire, once and in order, whatever an earlier one that was cut had left behind.
THEOREM ClearedIsSent == LinkSpec => ClearMeansSent
<1> DEFINE Sent == Report /\ ~dashboard' => out = Telemetry
<1>1. ASSUME LinkSafe PROVE Sent
  <2> SUFFICES ASSUME Report, ~dashboard' PROVE out = Telemetry
    OBVIOUS
  <2>1. linkStep = "report" /\ ~failed
    BY DEF Report
  <2>2. Flight(TOTAL) /\ shift = {} /\ txDr = {}
    BY <1>1, <2>1, FlightIs DEF LinkSafe, Handed, TOTAL
  <2>3. out \in Seq(1 .. TOTAL) /\ Len(out) \in Nat /\ TOTAL \in Nat
    BY <1>1, Ranges DEF LinkSafe, LinkTimed
  <2>4. (Len(out) + 1) .. TOTAL = {} /\ Len(out) <= TOTAL
    BY <2>2 DEF Flight
  <2>8. Len(out) + 1 \in Int /\ TOTAL \in Int
    BY <2>3
  <2>9. TOTAL < Len(out) + 1
    BY <2>4, <2>8, NoInterval
  <2>5. Len(out) = TOTAL
    BY <2>3, <2>4, <2>9
  <2>6. out = [i \in 1 .. TOTAL |-> out[i]]
    BY <2>3, <2>5
  <2>7. \A i \in 1 .. TOTAL : out[i] = i
    BY <2>2, <2>5 DEF Flight
  <2> QED BY <2>6, <2>7 DEF Telemetry, TOTAL
<1> HIDE DEF Sent
<1>2. LinkSpec => [][Sent]_linkVars
  BY <1>1, LinkSafeInvariant, PTL DEF LinkSpec
<1> QED BY <1>2 DEF ClearMeansSent, Sent

-------------------------------------------------------------------------------
(* The composition                                                         *)

\* Its steps without the fairness that each part's tasks and devices have.
HardwareSteps == HardwareInit /\ [][HardwareNext]_hardwareVars

\* A step is one of one part, and the others stand still.
LEMMA OnePartMoves ==
  ASSUME [HardwareNext]_hardwareVars
  PROVE  /\ [KernelNext]_kernelVars /\ [ReceiveNext]_receiveVars
         /\ [TransmitNext]_transmitVars /\ [SpeedNext]_speedVars
         /\ [AnalogNext]_analogVars /\ [LinkNext]_linkVars
<1>1. CASE KernelPart
  BY <1>1 DEF KernelPart
<1>2. CASE ReceivePart
  BY <1>2 DEF ReceivePart
<1>3. CASE TransmitPart
  BY <1>3 DEF TransmitPart
<1>4. CASE SpeedPart
  BY <1>4 DEF SpeedPart
<1>5. CASE AnalogPart
  BY <1>5 DEF AnalogPart
<1>6. CASE LinkPart
  BY <1>6 DEF LinkPart
<1>7. CASE UNCHANGED hardwareVars
  BY <1>7 DEF hardwareVars
<1> QED BY <1>1, <1>2, <1>3, <1>4, <1>5, <1>6, <1>7 DEF HardwareNext

\* What lies under the tasks behaves as each of its parts: the kernel, the receive
\* interrupt, the mailboxes, the edge counter, the converters and the UART take
\* nothing from each other, so what is proved of one of them holds of all (runs
\* of MCHardware).
THEOREM HardwareImplementsParts ==
  HardwareSpec => /\ KernelSpec /\ ReceiveSpec /\ TransmitSpec
                  /\ SpeedSpec /\ AnalogSpec /\ LinkSpec
<1>1. HardwareInit => /\ KernelInit /\ ReceiveInit /\ TransmitInit
                      /\ SpeedInit /\ AnalogInit /\ LinkInit
  BY DEF HardwareInit
<1>2. HardwareSpec => HardwareSteps
  BY PTL DEF HardwareSpec, HardwareSteps
<1>3. HardwareSteps => KernelSpec
  BY <1>1, OnePartMoves, PTL DEF HardwareSteps, KernelSpec
<1>4. HardwareSteps => ReceiveSpec
  BY <1>1, OnePartMoves, PTL DEF HardwareSteps, ReceiveSpec
<1>5. HardwareSteps => TransmitSpec
  BY <1>1, OnePartMoves, PTL DEF HardwareSteps, TransmitSpec
<1>6. HardwareSteps => SpeedSpec
  BY <1>1, OnePartMoves, PTL DEF HardwareSteps, SpeedSpec
<1>7. HardwareSteps => AnalogSpec
  BY <1>1, OnePartMoves, PTL DEF HardwareSteps, AnalogSpec
<1>8. HardwareSteps => LinkSpec
  BY <1>1, OnePartMoves, PTL DEF HardwareSteps, LinkSpec
<1> QED BY <1>2, <1>3, <1>4, <1>5, <1>6, <1>7, <1>8

\* Every part's state stays in its range while the others move (run `hardware`).
THEOREM HardwareTyped == HardwareSpec => []HardwareTypeOK
<1>1. /\ KernelTypeOK /\ ReceiveTypeOK /\ TransmitTypeOK /\ AnalogTypeOK /\ LinkTypeOK
      => HardwareTypeOK
  BY DEF HardwareTypeOK
<1> QED BY <1>1, HardwareImplementsParts, KernelTyped, ReceptionTyped,
           TransmissionTyped, AnalogTyped, LinkTyped, PTL
===============================================================================
