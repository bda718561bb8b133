------------------------------ MODULE Timing_proofs ------------------------------
(* Proofs about the two models in milliseconds: rtd_task, for every period,   *)
(* lateness, buzzer time and tick counter wide enough to tell them apart, and *)
(* the independent watchdog, for every oscillator, period and jitter.         *)
EXTENDS RtdSequence, IndependentWatchdog, TLAPS

\* A sum of two counts wraps once at most.
LEMMA WrapOnce ==
  ASSUME NEW n \in Nat \ {0}, NEW a \in 0 .. n - 1, NEW m \in 0 .. n - 1
  PROVE  /\ (a + m) % n \in 0 .. n - 1
         /\ (a + m) % n = a + m \/ (a + m) % n = a + m - n
<1>1. (a + m) % n \in 0 .. n - 1
  OBVIOUS
<1>2. a + m = n * ((a + m) \div n) + ((a + m) % n)
  OBVIOUS
<1>3. CASE a + m < n
  BY <1>1, <1>2, <1>3
<1>4. CASE a + m >= n
  BY <1>1, <1>2, <1>4
<1> QED BY <1>1, <1>3, <1>4

\* A count less than the modulus is its own remainder, one wrap below included.
LEMMA Remainder ==
  ASSUME NEW n \in Nat \ {0}, NEW a \in 0 .. n - 1
  PROVE  a % n = a /\ (a - n) % n = a
OBVIOUS

\* The counter stands m further at u than at t; it wraps in between at most once.
Further(u, t, m) == u - t = m \/ u - t = m - TICK_MOD

\* A distance grows with the counter, over a wrap of it.
LEMMA DistanceGrows ==
  ASSUME TICK_MOD \in Nat, NEW start \in 0 .. TICK_MOD - 1, NEW s \in Nat, NEW m \in Nat,
         NEW t \in 0 .. TICK_MOD - 1, NEW u \in 0 .. TICK_MOD - 1,
         Further(t, start, s), Further(u, t, m), s + m < TICK_MOD
  PROVE  Further(u, start, s + m)
BY DEF Further

-------------------------------------------------------------------------------
(* The inductive invariant                                                 *)

\* What ties the history to the program's own variables: the buzzer sounds in
\* RTD only, and there its length is what the task reads off the tick counter.
SoundInv ==
  /\ buzzer => vcu_state = "RTD"
  /\ vcu_state = "RTD" =>
       /\ buzzer
       /\ Further(tick, buzzer_start, sounded)
  /\ sounded < SOUND_CAP

SequenceInv == SequenceTypeOK /\ SoundInv

LEMMA Bounds ==
  /\ TICK_MOD \in Nat \ {0} /\ SOUND_CAP \in Nat \ {0}
  /\ SOUND_CAP < TICK_MOD /\ RTD_BUZZER_MS <= SOUND_CAP
  /\ \A late \in 0 .. LATE_MS :
       /\ RTD_PERIOD_MS + late \in Nat \ {0}
       /\ RTD_PERIOD_MS + late < SOUND_CAP
       /\ RTD_PERIOD_MS + late \in 0 .. TICK_MOD - 1
       /\ RTD_BUZZER_MS + RTD_PERIOD_MS + late <= SOUND_CAP
BY SequenceAssumption DEF SOUND_CAP

LEMMA SequenceStarts == SequenceInit => SequenceInv
<1> SUFFICES ASSUME SequenceInit PROVE SequenceInv
  OBVIOUS
<1>1. vcu_state = "TS_OFF" /\ ~buzzer /\ {tsal, rtd_button, buzzer, hard, brake} \subseteq BOOLEAN
  BY Zenon DEF SequenceInit, RtdInit
<1>2. phase = "sample" /\ tick = 0 /\ buzzer_start = 0 /\ sounded = 0
  BY DEF SequenceInit
<1>3. 0 \in 0 .. TICK_MOD - 1 /\ 0 \in 0 .. SOUND_CAP /\ 0 < SOUND_CAP
  BY Bounds
<1> QED BY <1>1, <1>2, <1>3 DEF SequenceInv, SequenceTypeOK, SoundInv, VcuState

\* In RTD, what the task reads off the clock is the length of the sound.
LEMMA ClockReadsSound ==
  ASSUME SequenceInv, vcu_state = "RTD"
  PROVE  elapsed_since(tick, buzzer_start) <=> sounded >= RTD_BUZZER_MS
<1>1. sounded \in 0 .. TICK_MOD - 1
  BY Bounds DEF SequenceInv, SequenceTypeOK, SoundInv
<1>2. sounded % TICK_MOD = sounded /\ (sounded - TICK_MOD) % TICK_MOD = sounded
  BY <1>1, Bounds, Remainder
<1>3. (tick - buzzer_start) % TICK_MOD = sounded
  BY <1>2 DEF SequenceInv, SoundInv, Further
<1> QED BY <1>3 DEF elapsed_since

LEMMA SampleKeeps == SequenceInv /\ SampleStep => SequenceInv'
BY DEF SequenceInv, SequenceTypeOK, SoundInv, SampleStep, Sample, VcuState

\* The switch, apart from time: how state and buzzer change together.
LEMMA SwitchMoves ==
  ASSUME SequenceInv, SwitchStep
  PROVE  /\ vcu_state' \in VcuState /\ buzzer' \in BOOLEAN
         /\ buzzer' <=> vcu_state' = "RTD"
         /\ vcu_state' = "RTD" =>
              \/ vcu_state = "TS_ACTIVE" /\ ~buzzer
              \/ vcu_state = "RTD" /\ buzzer /\ sounded < RTD_BUZZER_MS
         /\ vcu_state = "RTD" /\ vcu_state' = "DRIVE" =>
              buzzer /\ sounded >= RTD_BUZZER_MS
<1> DEFINE e == elapsed_since(tick, buzzer_start)
<1>0. buzzer \in BOOLEAN /\ (buzzer <=> vcu_state = "RTD") /\ sounded \in Nat
  BY DEF SequenceInv, SequenceTypeOK, SoundInv
<1>1. PICK h, b \in BOOLEAN : Switch(h, b, e)
  BY DEF SwitchStep
<1>2. vcu_state = "RTD" => (e <=> sounded >= RTD_BUZZER_MS)
  BY ClockReadsSound
<1> HIDE DEF e
<1>3. CASE FromFault(h)
  BY <1>0, <1>3 DEF FromFault, VcuState
<1>4. CASE FromTsOff
  BY <1>0, <1>4 DEF FromTsOff, VcuState
<1>5. CASE FromTsActive(b)
  BY <1>0, <1>5 DEF FromTsActive, VcuState
<1>6. CASE FromRtd(e)
  <2>1. vcu_state' \in {"TS_OFF", "DRIVE", "RTD"}
    BY <1>6 DEF FromRtd
  <2>2. buzzer' \in BOOLEAN /\ (buzzer' <=> vcu_state' = "RTD")
    BY <1>0, <1>6, Zenon DEF FromRtd
  <2>3. vcu_state' = "RTD" => ~e
    BY <1>6 DEF FromRtd
  <2>4. vcu_state' = "DRIVE" => e
    BY <1>6 DEF FromRtd
  <2>5. vcu_state = "RTD" /\ buzzer
    BY <1>0, <1>6 DEF FromRtd
  <2>6. RTD_BUZZER_MS \in Nat
    BY SequenceAssumption
  <2> QED BY <1>0, <1>2, <2>1, <2>2, <2>3, <2>4, <2>5, <2>6 DEF VcuState
<1>7. CASE FromDrive
  BY <1>0, <1>7 DEF FromDrive, VcuState
<1> QED BY <1>1, <1>3, <1>4, <1>5, <1>6, <1>7 DEF Switch

LEMMA SwitchKeeps == SequenceInv /\ SwitchStep => SequenceInv'
<1> SUFFICES ASSUME SequenceInv, SwitchStep PROVE SequenceInv'
  OBVIOUS
<1> USE DEF SequenceInv, SequenceTypeOK
<1>1. PICK late \in 0 .. LATE_MS :
        /\ tick' = (tick + (RTD_PERIOD_MS + late)) % TICK_MOD
        /\ sounded' = IF ~buzzer' THEN sounded
                      ELSE IF buzzer THEN sounding(sounded + (RTD_PERIOD_MS + late))
                      ELSE RTD_PERIOD_MS + late
  BY DEF SwitchStep
<1> DEFINE ms == RTD_PERIOD_MS + late
<1>2. /\ ms \in 0 .. TICK_MOD - 1 /\ ms < SOUND_CAP /\ RTD_BUZZER_MS + ms <= SOUND_CAP
      /\ ms \in Nat
  BY SequenceAssumption, Bounds
<1>3. /\ buzzer_start' = IF vcu_state = "TS_ACTIVE" /\ vcu_state' = "RTD"
                         THEN tick ELSE buzzer_start
      /\ hard' \in BOOLEAN /\ brake' \in BOOLEAN /\ phase' = "sample"
      /\ tsal' = tsal /\ rtd_button' = rtd_button
  BY DEF SwitchStep, start_after, Switch
<1>4. /\ tick' \in 0 .. TICK_MOD - 1
      /\ Further(tick', tick, ms)
  <2>1. ms \in 0 .. TICK_MOD - 1 /\ tick \in 0 .. TICK_MOD - 1 /\ TICK_MOD \in Nat \ {0}
    BY <1>2, Bounds
  <2>2. tick' = (tick + ms) % TICK_MOD
    BY <1>1
  <2> HIDE DEF ms, SequenceInv, SequenceTypeOK
  <2>3. /\ (tick + ms) % TICK_MOD \in 0 .. TICK_MOD - 1
        /\ (tick + ms) % TICK_MOD = tick + ms \/ (tick + ms) % TICK_MOD = tick + ms - TICK_MOD
    BY <2>1, WrapOnce
  <2> QED BY <2>1, <2>2, <2>3 DEF Further
<1>0. /\ TICK_MOD \in Nat \ {0} /\ SOUND_CAP \in Nat \ {0} /\ SOUND_CAP < TICK_MOD
      /\ tick \in 0 .. TICK_MOD - 1 /\ buzzer_start \in 0 .. TICK_MOD - 1
      /\ sounded \in Nat /\ RTD_BUZZER_MS \in Nat
  BY Bounds, SequenceAssumption
<1> HIDE DEF ms, SequenceInv, SequenceTypeOK
<1>5. CASE ~buzzer'
  BY <1>1, <1>3, <1>4, <1>5, SwitchMoves DEF SoundInv, VcuState, SequenceInv, SequenceTypeOK
<1>6. CASE buzzer' /\ ~buzzer
  <2>1. vcu_state = "TS_ACTIVE" /\ vcu_state' = "RTD" /\ sounded' = ms /\ buzzer_start' = tick
    BY <1>1, <1>3, <1>6, SwitchMoves DEF ms
  <2>2. ms \in 0 .. SOUND_CAP /\ ms < SOUND_CAP
    BY <1>0, <1>2
  <2>3. Further(tick', buzzer_start', sounded')
    BY <1>4, <2>1
  <2> QED BY <1>3, <1>4, <1>6, <2>1, <2>2, <2>3 DEF SoundInv, VcuState, SequenceInv, SequenceTypeOK
<1>7. CASE buzzer' /\ buzzer
  <2>1. vcu_state = "RTD" /\ vcu_state' = "RTD" /\ sounded < RTD_BUZZER_MS
    BY <1>7, SwitchMoves
  <2>2. sounded + ms < SOUND_CAP /\ RTD_BUZZER_MS \in Nat
    BY <1>0, <1>2, <2>1
  <2>3. sounded' = sounded + ms /\ buzzer_start' = buzzer_start
    BY <1>1, <1>3, <1>7, <2>1, <2>2 DEF ms, sounding
  <2>4. sounded' \in 0 .. SOUND_CAP /\ sounded' < SOUND_CAP
    BY <1>0, <1>2, <2>2, <2>3
  <2>5. Further(tick, buzzer_start, sounded)
    BY <2>1 DEF SequenceInv, SoundInv
  <2>6. sounded + ms < TICK_MOD
    BY <1>0, <1>2, <2>2
  <2>7. Further(tick', buzzer_start', sounded')
    BY <1>0, <1>2, <1>4, <2>3, <2>5, <2>6, DistanceGrows
  <2> QED BY <1>3, <1>4, <1>7, <2>1, <2>3, <2>4, <2>7 DEF SoundInv, VcuState, SequenceInv, SequenceTypeOK
<1>8. buzzer' \in BOOLEAN
  BY SwitchMoves
<1> QED BY <1>5, <1>6, <1>7, <1>8

LEMMA StutterKeeps == SequenceInv /\ UNCHANGED sequenceVars => SequenceInv'
BY DEF SequenceInv, SequenceTypeOK, SoundInv, sequenceVars, rtdVars

LEMMA SequenceInductive == SequenceSpec => []SequenceInv
<1>1. SequenceInv /\ [SequenceNext]_sequenceVars => SequenceInv'
  BY SampleKeeps, SwitchKeeps, StutterKeeps DEF SequenceNext
<1> QED BY <1>1, SequenceStarts, PTL DEF SequenceSpec

-------------------------------------------------------------------------------
(* The results                                                             *)

\* The start of the buzzer and the tick stay counts of the counter, across every
\* wrap and every interrupted attempt (rtd_task_fn).
THEOREM SequenceTyped == SequenceSpec => []SequenceTypeOK
BY SequenceInductive, PTL DEF SequenceInv

\* The buzzer never sounds for its time, a period and a lateness, on any counter
\* wide enough to count them (rtd_task.c RTD case and osDelay).
THEOREM BuzzerOvershoot == SequenceSpec => []BuzzerOvershootBounded
<1>1. SequenceInv => BuzzerOvershootBounded
  BY DEF SequenceInv, SoundInv, BuzzerOvershootBounded
<1> QED BY <1>1, SequenceInductive, PTL

\* Drive comes after a full, unbroken sound of the buzzer only, wherever the
\* counter wraps (rtd_task.c RTD case).
THEOREM DriveAfterBuzzer == SequenceSpec => DriveOnlyAfterBuzzer
<1>1. SequenceInv /\ [SequenceNext]_sequenceVars =>
        [ (vcu_state = "RTD" /\ vcu_state' = "DRIVE")
            => (buzzer /\ sounded >= RTD_BUZZER_MS) ]_sequenceVars
  <2> SUFFICES ASSUME SequenceInv, SequenceNext, vcu_state = "RTD", vcu_state' = "DRIVE"
               PROVE  buzzer /\ sounded >= RTD_BUZZER_MS
    OBVIOUS
  <2>1. CASE SampleStep
    BY <2>1 DEF SampleStep, Sample
  <2>2. CASE SwitchStep
    BY <2>2, SwitchMoves
  <2> QED BY <2>1, <2>2 DEF SequenceNext
<1> QED BY <1>1, SequenceInductive, PTL DEF SequenceSpec, DriveOnlyAfterBuzzer

-------------------------------------------------------------------------------
(* The independent watchdog                                                *)

\* What of the time since the last feed was asked for by osDelayUntil.
slept == since_feed - held - lateness

\* The delay asks for no more than the period, all but start-up and readings is
\* delay or lateness, and an iteration's samples are no older than what the watchdog
\* has counted, plus what it had counted at most when they were driven out.
WatchInv ==
  /\ WatchTypeOK
  /\ slept \in 0 .. LOOP_MS
  /\ stage = "start" => slept = 0
  /\ stage = "delay" => slept <= since_entry
  /\ stage \in {"read", "drive", "feed"} => since_entry <= since_feed
  /\ stage = "feed" => sample_age = since_entry
  /\ closed => sample_age <= since_feed + WD_MAX_MS

LEMMA WatchStarts == WatchInit => WatchInv
<1> SUFFICES ASSUME WatchInit PROVE WatchInv
  OBVIOUS
<1>1. slept = 0
  BY DEF WatchInit, slept
<1>2. closed \in BOOLEAN /\ ~closed
  BY Zenon DEF WatchInit
<1>3. WatchTypeOK
  BY <1>2, WatchdogAssumption DEF WatchInit, WatchTypeOK, Stage
<1>4. (slept \in 0 .. LOOP_MS)
  BY <1>1, WatchdogAssumption
<1> QED BY <1>1, <1>2, <1>3, <1>4 DEF WatchInit, WatchInv

LEMMA EnterKeeps == WatchInv /\ Enter => WatchInv'
BY WatchdogAssumption DEF Enter, WatchInv, WatchTypeOK, Stage, slept

LEMMA ReadingsKeep == WatchInv /\ Readings => WatchInv'
BY WatchdogAssumption DEF Readings, WatchInv, WatchTypeOK, Stage, slept

\* The output stands for samples as old as the iteration, which began after the
\* last feed.
LEMMA DriveKeeps == WatchInv /\ Drive => WatchInv'
BY WatchdogAssumption DEF Drive, WatchInv, WatchTypeOK, Stage, slept

\* What the watchdog had counted moves from its count to the age of the samples.
LEMMA FeedKeeps == WatchInv /\ Feed => WatchInv'
BY WatchdogAssumption DEF Feed, feeds, WatchInv, WatchTypeOK, Stage, slept

LEMMA TickKeeps == WatchInv /\ Tick => WatchInv'
<1> SUFFICES ASSUME WatchInv, Tick PROVE WatchInv'
  OBVIOUS
<1>1. /\ since_feed' = since_feed + 1 /\ since_feed < WD_MAX_MS
      /\ since_entry' = since_entry + 1 /\ sample_age' = sample_age + 1
      /\ stage' = stage /\ closed' = closed
  BY DEF Tick, unfed
<1>2. CASE stage \in {"start", "read"} /\ held' = held + 1 /\ lateness' = lateness
  BY <1>1, <1>2, WatchdogAssumption DEF WatchInv, WatchTypeOK, Stage, slept
<1>3. CASE stage = "delay" /\ since_entry < LOOP_MS /\ UNCHANGED <<held, lateness>>
  BY <1>1, <1>3, WatchdogAssumption DEF WatchInv, WatchTypeOK, Stage, slept
<1>4. CASE /\ stage \in {"drive", "feed"} \/ (stage = "delay" /\ since_entry >= LOOP_MS)
           /\ lateness < JITTER_MS
           /\ lateness' = lateness + 1
           /\ held' = held
  BY <1>1, <1>4, WatchdogAssumption DEF WatchInv, WatchTypeOK, Stage, slept
<1> QED BY <1>2, <1>3, <1>4 DEF Tick

LEMMA ExpireKeeps == WatchInv /\ Expire => WatchInv'
<1> SUFFICES ASSUME WatchInv, Expire PROVE WatchInv'
  OBVIOUS
<1>1. slept' = 0
  BY DEF Expire, slept
<1>2. closed' \in BOOLEAN /\ ~closed'
  BY Zenon DEF Expire
<1>3. WatchTypeOK'
  BY <1>2, WatchdogAssumption DEF Expire, WatchTypeOK, Stage
<1>4. (slept \in 0 .. LOOP_MS)'
  BY <1>1, WatchdogAssumption
<1> QED BY <1>1, <1>2, <1>3, <1>4 DEF Expire, WatchInv

\* What ties the watchdog's count to the history of start-up, readings and samples
\* holds in every state, for every oscillator, period and jitter.
THEOREM WatchInvariant == WatchSpec => []WatchInv
<1>1. WatchInv /\ [WatchNext]_watchVars => WatchInv'
  <2>1. WatchInv /\ UNCHANGED watchVars => WatchInv'
    BY DEF watchVars, WatchInv, WatchTypeOK, slept
  <2> QED
    BY <2>1, EnterKeeps, ReadingsKeep, DriveKeeps, FeedKeeps, TickKeeps, ExpireKeeps DEF WatchNext
<1> QED BY <1>1, WatchStarts, PTL DEF WatchSpec

\* The circuit is never closed on samples older than twice the watchdog's longest
\* time, wherever a conversion of the monitor hangs.
THEOREM WatchFresh == WatchSpec => []ClosedOnFreshSamples
<1>1. WatchInv => ClosedOnFreshSamples
  BY WatchdogAssumption DEF WatchInv, WatchTypeOK, ClosedOnFreshSamples
<1> QED BY <1>1, WatchInvariant, PTL

\* The watchdog expires only after start-up or readings that took its shortest
\* time, a period and its lateness apart.
THEOREM WatchBites == WatchSpec => []BitesOnlyHeldUp
<1>1. WatchInv => BitesOnlyHeldUp
  BY WatchdogAssumption DEF WatchInv, WatchTypeOK, BitesOnlyHeldUp, slept
<1> QED BY <1>1, WatchInvariant, PTL
===============================================================================
