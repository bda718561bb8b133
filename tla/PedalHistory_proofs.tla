------------------------- MODULE PedalHistory_proofs -------------------------
(***************************************************************************)
(* The monitor against the history of the pedals: its faults from the      *)
(* averages on (SafetyTimeline), for every period, limit, word size and    *)
(* resolution, and its cuts, its releases and its slew from the raw counts *)
(* on (PedalChain), for a filter of every length.                          *)
(***************************************************************************)
EXTENDS SafetyTimeline, PedalChain, SafetyMonitor_proofs, WellFoundedInduction

-------------------------------------------------------------------------------
(* Lengths of runs                                                         *)

\* A run as long as the bound of the history is past the limit.
LEMMA CapSustained == HISTORY_CAP \in Nat /\ Sustained(HISTORY_CAP)
<1> DEFINE q == APPS_IMPLAUSIBILITY_LIMIT_MS \div PERIOD_MS
<1>1. PERIOD_MS \in Nat \ {0} /\ APPS_IMPLAUSIBILITY_LIMIT_MS \in Nat
  BY PedalAssumption, MonitorAssumption
<1>2. q \in Int /\ q >= 0 /\ APPS_IMPLAUSIBILITY_LIMIT_MS < (q + 1) * PERIOD_MS
  BY <1>1, SMTT(30)
<1> QED BY <1>2 DEF HISTORY_CAP, Sustained

\* A longer run is past the limit if a shorter one is.
LEMMA SustainedMonotone ==
  ASSUME NEW m \in Nat, NEW n \in Nat, m <= n, Sustained(m)
  PROVE  Sustained(n)
<1>1. PERIOD_MS \in Nat /\ APPS_IMPLAUSIBILITY_LIMIT_MS \in Nat
  BY PedalAssumption, MonitorAssumption
<1>2. m * PERIOD_MS <= n * PERIOD_MS
  BY <1>1, SMTT(30)
<1> QED BY <1>1, <1>2 DEF Sustained

\* An empty run is not.
LEMMA EmptyNotSustained == ~Sustained(0)
BY PedalAssumption, MonitorAssumption DEF Sustained

\* The larger of two runs is past the limit if one of them is.
LEMMA SustainedLarger ==
  ASSUME NEW m \in Nat, NEW n \in Nat
  PROVE  Sustained(LargerOf(m, n)) <=> (Sustained(m) \/ Sustained(n))
<1>1. CASE m >= n
  BY <1>1, SustainedMonotone DEF LargerOf
<1>2. CASE ~(m >= n)
  BY <1>2, SustainedMonotone DEF LargerOf
<1> QED BY <1>1, <1>2

\* On the pedals the acquisition can deliver, the code's plausibility test and
\* recovery gate say what the history records.
LEMMA SameTests ==
  ASSUME NEW a1 \in Pedal, NEW a2 \in Pedal
  PROVE  /\ implausible(a1, a2) <=> disagree(a1, a2)
         /\ released(a1, a2) <=> bothIdle(a1, a2)
<1>1. Scale \in Nat /\ a1 \in 0 .. 100 * Scale /\ a2 \in 0 .. 100 * Scale
  BY PedalAssumption, MonitorAssumption
<1> QED
  BY <1>1 DEF implausible, disagree, released, bothIdle, apps_signal_in_range,
              APPS_PLAUSIBILITY_THRESH, APPS_SIGNAL_MIN, APPS_SIGNAL_MAX, APPS_IDLE

-------------------------------------------------------------------------------
(* Whole percents                                                          *)

\* A quotient lies below q exactly if the dividend lies below q times the divisor.
LEMMA Quotient ==
  ASSUME NEW s \in Nat \ {0}, NEW a \in Int, NEW q \in Int
  PROVE  a \div s \in Int /\ (a \div s < q <=> a < q * s)
<1> DEFINE d == a \div s
<1>1. d \in Int /\ d * s <= a /\ a < (d + 1) * s
  BY SMTT(30)
<1> HIDE DEF d
<1>2. d < q => (d + 1) * s <= q * s
  BY <1>1, SMTT(30)
<1>3. q <= d => q * s <= d * s
  BY <1>1, SMTT(30)
<1>4. q * s \in Int /\ d * s \in Int /\ (d + 1) * s \in Int
  BY <1>1
<1>5. d \in Int /\ (d < q <=> a < q * s)
  BY <1>1, <1>2, <1>3, <1>4
<1> QED BY <1>5 DEF d

\* The truncated throttle reaches a whole percentage exactly if the travel does.
LEMMA WholeTravel ==
  ASSUME NEW a1 \in Pedal, NEW a2 \in Pedal, NEW q \in 1 .. 100
  PROVE  throttle_of(a1, a2) >= q <=> travel(a1, a2, q) >= 0
<1>1. Scale \in Nat \ {0} /\ 2 * Scale \in Nat \ {0} /\ a1 + a2 \in Int /\ a1 \in Int /\ a2 \in Int
  BY PedalAssumption, MonitorAssumption
<1> DEFINE d == (a1 + a2) \div (2 * Scale)
<1>2. d \in Int /\ (d < q <=> a1 + a2 < q * (2 * Scale))
  BY <1>1, Quotient
<1>3. Clamp(0, 100, d) >= q <=> d >= q
  <2> HIDE DEF d
  <2> QED BY <1>2 DEF Clamp
<1>4. q * (2 * Scale) = 2 * q * Scale /\ 2 * q * Scale \in Int
  BY <1>1, SMTT(30)
<1>5. throttle_of(a1, a2) = Clamp(0, 100, d)
  BY DEF throttle_of
<1> HIDE DEF d
<1> QED BY <1>1, <1>2, <1>3, <1>4, <1>5 DEF travel

\* The truncated brake exceeds 10 exactly if the travel reaches 11.
LEMMA WholeBrake ==
  ASSUME NEW count \in BseCount
  PROVE  pressure_sensor_get_percent(count) > 10 <=> pressed(count, 11) >= 0
<1>1. count \in 0 .. 4095
  BY MonitorAssumption
<1> QED
  BY <1>1 DEF pressure_sensor_get_percent, pressed, Clamp, BSE_MIN, BSE_MAX

-------------------------------------------------------------------------------
(* The inductive invariant                                                 *)

HistoryOK ==
  /\ run \in 0 .. HISTORY_CAP /\ worst \in 0 .. HISTORY_CAP
  /\ overlap \in BOOLEAN

\* The counter measures the run until both are past the limit.
CounterInv ==
  \/ /\ apps_state.implausible_ms <= APPS_IMPLAUSIBILITY_LIMIT_MS
     /\ apps_state.implausible_ms = run * PERIOD_MS
  \/ /\ apps_state.implausible_ms > APPS_IMPLAUSIBILITY_LIMIT_MS
     /\ Sustained(run)

LatchInv ==
  /\ apps_state.torque_inhibited <=> Sustained(worst)
  /\ bppc_state.latched <=> overlap

ReportInv ==
  /\ "APPS" \in faults <=> apps_state.torque_inhibited
  /\ "BPPC" \in faults <=> bppc_state.latched
  /\ fw_state <=> (~apps_state.torque_inhibited /\ bse_in_band(bse_count))

TimelineInv ==
  /\ MonitorTypeOK
  /\ NoTimeoutFlag
  /\ HistoryOK
  /\ CounterInv
  /\ LatchInv
  /\ ReportInv

LEMMA InitTimeline == TimelineInit => TimelineInv
<1> SUFFICES ASSUME TimelineInit PROVE TimelineInv
  OBVIOUS
<1>1. MonitorTypeOK /\ NoTimeoutFlag
  BY BootTyped DEF TimelineInit, MonitorInit, NoTimeoutFlag, fault_init
<1>2. HistoryOK
  <2>1. run \in 0 .. HISTORY_CAP /\ worst \in 0 .. HISTORY_CAP
    BY CapSustained DEF TimelineInit
  <2>2. overlap \in BOOLEAN
    BY Zenon DEF TimelineInit
  <2> QED BY <2>1, <2>2 DEF HistoryOK
<1>3. apps_state = [implausible_ms |-> 0, torque_inhibited |-> FALSE]
      /\ bppc_state = [latched |-> FALSE]
  BY DEF TimelineInit, MonitorInit, apps_state_init, bppc_state_init
<1>4. CounterInv
  BY <1>3, PedalAssumption, MonitorAssumption DEF TimelineInit, CounterInv
<1>5. LatchInv
  BY <1>3, EmptyNotSustained DEF TimelineInit, LatchInv
<1>6. ReportInv
  BY <1>3 DEF TimelineInit, MonitorInit, ReportInv, fault_init, bse_in_band,
              BSE_RAW_OPEN_LO
<1> QED BY <1>1, <1>2, <1>4, <1>5, <1>6 DEF TimelineInv

\* The saturating counter and the recorded run stay in step.
LEMMA CounterStep ==
  ASSUME MonitorTypeOK, HistoryOK, CounterInv,
         NEW a1 \in Pedal, NEW a2 \in Pedal, NEW count \in BseCount,
         Iterate(a1, a2, count), Record(a1, a2, count)
  PROVE  CounterInv'
<1> DEFINE ms == apps_state.implausible_ms
           L  == APPS_IMPLAUSIBILITY_LIMIT_MS
<1>1. /\ PERIOD_MS \in Nat \ {0} /\ L \in Nat /\ UINT32_MAX \in Nat
      /\ PERIOD_MS + L <= UINT32_MAX
      /\ ms \in 0 .. UINT32_MAX /\ run \in 0 .. HISTORY_CAP /\ HISTORY_CAP \in Nat
  BY PedalAssumption, MonitorAssumption, CapSustained
     DEF MonitorTypeOK, AppsState, HistoryOK
<1>2. apps_state'.implausible_ms = implausible_ms_next(ms, disagree(a1, a2), PERIOD_MS)
  <2>1. implausible(a1, a2) = disagree(a1, a2)
    BY SameTests DEF implausible, disagree
  <2> QED BY <2>1 DEF Iterate, Evaluate, apps_plausibility_update
<1>3. CASE ~disagree(a1, a2)
  <2>1. apps_state'.implausible_ms = 0 /\ run' = 0
    BY <1>2, <1>3 DEF implausible_ms_next, Record
  <2> QED BY <1>1, <2>1 DEF CounterInv
<1>4. CASE disagree(a1, a2) /\ ms <= L
  <2>1. ms = run * PERIOD_MS /\ ~Sustained(run)
    BY <1>1, <1>4 DEF CounterInv, Sustained
  <2>2. run # HISTORY_CAP
    BY <2>1, CapSustained
  <2>3. run' = run + 1
    BY <1>1, <1>4, <2>2 DEF Record, AtMost
  <2>4. apps_state'.implausible_ms = ms + PERIOD_MS
    BY <1>1, <1>2, <1>4 DEF implausible_ms_next
  <2>5. (run + 1) * PERIOD_MS = run * PERIOD_MS + PERIOD_MS
    BY <1>1, SMTT(30)
  <2>6. apps_state'.implausible_ms = run' * PERIOD_MS
    BY <2>1, <2>3, <2>4, <2>5
  <2>7. apps_state'.implausible_ms \in Int
    BY <1>1, <2>4
  <2> QED BY <1>1, <2>6, <2>7 DEF CounterInv, Sustained
<1>5. CASE disagree(a1, a2) /\ ms > L
  <2>1. Sustained(run)
    BY <1>1, <1>5 DEF CounterInv
  <2>2. run' \in Nat /\ run <= run'
    BY <1>1, <1>5 DEF Record, AtMost
  <2>3. Sustained(run')
    BY <1>1, <2>1, <2>2, SustainedMonotone
  <2>4. apps_state'.implausible_ms > L
    BY <1>1, <1>2, <1>5 DEF implausible_ms_next
  <2> QED BY <2>3, <2>4 DEF CounterInv, Sustained
<1> QED BY <1>1, <1>3, <1>4, <1>5

LEMMA HistoryStep ==
  ASSUME HistoryOK, NEW a1, NEW a2, NEW count, Record(a1, a2, count)
  PROVE  HistoryOK'
<1>1. run' \in 0 .. HISTORY_CAP
  BY CapSustained DEF HistoryOK, Record, AtMost
<1>2. worst' \in 0 .. HISTORY_CAP
  BY <1>1, CapSustained DEF HistoryOK, Record, LargerOf
<1>3. overlap' \in BOOLEAN
  BY DEF Record
<1> QED BY <1>1, <1>2, <1>3 DEF HistoryOK

\* The two latches follow the history.
LEMMA LatchStep ==
  ASSUME MonitorTypeOK, HistoryOK, CounterInv, LatchInv,
         NEW a1 \in Pedal, NEW a2 \in Pedal, NEW count \in BseCount,
         Iterate(a1, a2, count), Record(a1, a2, count)
  PROVE  LatchInv'
<1>1. HistoryOK' /\ CounterInv' /\ MonitorTypeOK'
  BY HistoryStep, CounterStep, IterateTyped
<1>2. run' \in Nat /\ worst \in Nat /\ worst' \in Nat
  BY <1>1, CapSustained DEF HistoryOK
<1>3. apps_state'.implausible_ms > APPS_IMPLAUSIBILITY_LIMIT_MS <=> Sustained(run')
  BY <1>1, PedalAssumption
     DEF CounterInv, Sustained, MonitorTypeOK, AppsState
<1>4. apps_state'.torque_inhibited
        <=> \/ disagree(a1, a2) /\ Sustained(run')
            \/ Sustained(worst) /\ (disagree(a1, a2) \/ ~bothIdle(a1, a2))
  BY <1>3, SameTests DEF Iterate, Evaluate, apps_plausibility_update, LatchInv
<1>5. apps_state'.torque_inhibited <=> Sustained(worst')
  <2>1. CASE ~disagree(a1, a2) /\ bothIdle(a1, a2)
    BY <1>4, <2>1, EmptyNotSustained DEF Record
  <2>2. CASE ~disagree(a1, a2) /\ ~bothIdle(a1, a2)
    <3>1. run' = 0 /\ worst' = LargerOf(worst, run')
      BY <2>2 DEF Record
    <3> QED BY <1>2, <1>4, <2>2, <3>1, SustainedLarger, EmptyNotSustained
  <2>3. CASE disagree(a1, a2)
    <3>1. worst' = LargerOf(worst, run')
      BY <2>3 DEF Record
    <3> QED BY <1>2, <1>4, <2>3, <3>1, SustainedLarger
  <2> QED BY <2>1, <2>2, <2>3
<1>6. bppc_state'.latched <=> overlap'
  <2>1. brake' \in Int /\ throttle' \in Int
    BY <1>1 DEF MonitorTypeOK
  <2>2. bppc_state'.latched
          <=> \/ bppc_state.latched /\ throttle' >= 5
              \/ ~bppc_state.latched /\ brake' > 10 /\ throttle' > 25
    BY DEF Iterate, Evaluate, bppc_update, BPPC_APPS_LOW_PCT, BPPC_APPS_HIGH_PCT,
           BPPC_BRAKE_THRESH_PCT
  <2>3. overlap' <=> (throttle' >= 5 /\ (overlap \/ (brake' > 10 /\ throttle' > 25)))
    <3>1. throttle' = throttle_of(a1, a2) /\ brake' = pressure_sensor_get_percent(count)
      BY DEF Iterate, Acquire
    <3>2. travel(a1, a2, 5) >= 0 <=> throttle' >= 5
      BY <3>1, WholeTravel
    <3>3. travel(a1, a2, 26) >= 0 <=> throttle' > 25
      BY <2>1, <3>1, WholeTravel
    <3>4. pressed(count, 11) >= 0 <=> brake' > 10
      BY <3>1, WholeBrake
    <3> QED BY <3>2, <3>3, <3>4 DEF Record
  <2>4. throttle' > 25 => throttle' >= 5
    BY <2>1
  <2>5. bppc_state.latched <=> overlap
    BY DEF LatchInv
  <2> QED BY <2>2, <2>3, <2>4, <2>5
<1> QED BY <1>5, <1>6 DEF LatchInv

\* The registry and the circuit follow the latches.
LEMMA ReportStep ==
  ASSUME MonitorTypeOK, NoTimeoutFlag,
         NEW a1 \in Pedal, NEW a2 \in Pedal, NEW count \in BseCount,
         Iterate(a1, a2, count)
  PROVE  ReportInv' /\ NoTimeoutFlag'
<1>1. faults' = reported(faults, apps_state', bse_count', bppc_state')
  BY DEF Iterate, Evaluate
<1>2. NoTimeoutFlag'
  BY <1>1 DEF NoTimeoutFlag, reported, fault_report, fault_set, fault_clear
<1>3. /\ "APPS" \in faults' <=> apps_state'.torque_inhibited
      /\ "BPPC" \in faults' <=> bppc_state'.latched
  BY <1>1 DEF reported, fault_report, fault_set, fault_clear
<1>4. fw_state' = (Verdict' \cap FAULT_HARD_MASK = {})
  BY IterateCircuit DEF NoTimeoutFlag
<1>5. Verdict' \cap FAULT_HARD_MASK = {}
        <=> (~apps_state'.torque_inhibited /\ bse_in_band(bse_count)')
  BY DEF Verdict, FAULT_HARD_MASK
<1> QED BY <1>2, <1>3, <1>4, <1>5 DEF ReportInv

LEMMA StepTimeline == TimelineInv /\ [TimelineNext]_timelineVars => TimelineInv'
<1> SUFFICES ASSUME TimelineInv, [TimelineNext]_timelineVars PROVE TimelineInv'
  OBVIOUS
<1>1. CASE TimelineNext
  <2>1. PICK a1, a2 \in Pedal, count \in BseCount :
               Iterate(a1, a2, count) /\ Record(a1, a2, count)
    BY <1>1 DEF TimelineNext
  <2>2. MonitorTypeOK'
    BY <2>1, IterateTyped DEF TimelineInv
  <2>3. HistoryOK'
    BY <2>1, HistoryStep DEF TimelineInv
  <2>4. CounterInv'
    BY <2>1, CounterStep DEF TimelineInv
  <2>5. LatchInv'
    BY <2>1, LatchStep DEF TimelineInv
  <2>6. ReportInv' /\ NoTimeoutFlag'
    BY <2>1, ReportStep DEF TimelineInv
  <2> QED BY <2>2, <2>3, <2>4, <2>5, <2>6 DEF TimelineInv
<1>2. CASE UNCHANGED timelineVars
  BY <1>2 DEF timelineVars, monitorVars, historyVars, TimelineInv, MonitorTypeOK,
              NoTimeoutFlag, HistoryOK, CounterInv, LatchInv, ReportInv, Sustained,
              bse_in_band
<1> QED BY <1>1, <1>2

THEOREM TimelineInvariant == TimelineSpec => []TimelineInv
BY InitTimeline, StepTimeline, PTL DEF TimelineSpec

\* FAULT_APPS is exactly a disagreement that outlasted the limit since the
\* pedal was last released (run `timeline').
THEOREM TimelineAppsCut == TimelineSpec => []AppsCutExactly
<1>1. TimelineInv => AppsCutExactly
  BY DEF TimelineInv, ReportInv, LatchInv, AppsCutExactly
<1> QED BY <1>1, TimelineInvariant, PTL

\* FAULT_BPPC is exactly an overlap of brake and throttle since the throttle
\* was last below 5 % (run `timeline').
THEOREM TimelineBppcCut == TimelineSpec => []BppcCutExactly
<1>1. TimelineInv => BppcCutExactly
  BY DEF TimelineInv, ReportInv, LatchInv, BppcCutExactly
<1> QED BY <1>1, TimelineInvariant, PTL

\* The circuit is closed exactly without a pending cut and with a brake sensor
\* in band (run `timeline').
THEOREM TimelineCircuit == TimelineSpec => []CircuitExactly
<1>1. TimelineInv => CircuitExactly
  BY DEF TimelineInv, ReportInv, LatchInv, CircuitExactly
<1> QED BY <1>1, TimelineInvariant, PTL

-------------------------------------------------------------------------------
(* Sums over a history, for a history of any length                        *)

\* Induction over the naturals for a set: every set of naturals has a least
\* element, so one that holds 0 and with every number the next holds them all.
LEMMA SetInduction ==
  ASSUME NEW T, 0 \in T, \A n \in Nat : n \in T => n + 1 \in T
  PROVE  Nat \subseteq T
<1> DEFINE R == OpToRel(<, Nat)
           U == Nat \ T
<1>1. IsWellFoundedOn(R, Nat)
  BY NatLessThanWellFounded
<1>2. SUFFICES ASSUME U # {} PROVE FALSE
  OBVIOUS
<1>3. U \subseteq Nat
  OBVIOUS
<1>4. \E x \in U : \A y \in U : ~(<<y, x>> \in R)
  <2> HIDE DEF U, R
  <2> QED BY <1>1, <1>2, <1>3, WFMin
<1>5. PICK x \in U : \A y \in U : ~(<<y, x>> \in R)
  BY <1>4
<1>6. \A y \in U : ~(y < x)
  BY <1>5, <1>3 DEF OpToRel
<1> HIDE DEF R
<1>7. x \in Nat /\ x \notin T /\ x # 0
  BY <1>5
<1>8. x - 1 \in Nat /\ x - 1 < x /\ (x - 1) + 1 = x
  BY <1>7
<1>9. x - 1 \in T
  BY <1>6, <1>8
<1> QED BY <1>7, <1>8, <1>9

History == [1 .. HISTORYSIZE -> Int]

\* The loop of pot_get_percent, up to the sample n.
AddsUp(sum, hist, n) ==
  sum = [k \in 0 .. n |-> IF k = 0 THEN 0 ELSE sum[k - 1] + hist[k]]

LEMMA SumExists ==
  ASSUME NEW h \in History
  PROVE  \E sum : AddsUp(sum, h, HISTORYSIZE)
<1> USE DEF History
<1> DEFINE T == {n \in Nat : n <= HISTORYSIZE =>
                   \E sum \in [0 .. n -> Int] : AddsUp(sum, h, n)}
<1>1. 0 \in T
  <2>1. [k \in 0 .. 0 |-> 0] \in [0 .. 0 -> Int] /\ AddsUp([k \in 0 .. 0 |-> 0], h, 0)
    BY DEF AddsUp
  <2> QED BY <2>1
<1>2. ASSUME NEW n \in Nat, n \in T PROVE n + 1 \in T
  <2>1. SUFFICES ASSUME n + 1 <= HISTORYSIZE
                 PROVE  \E sum \in [0 .. n + 1 -> Int] : AddsUp(sum, h, n + 1)
    OBVIOUS
  <2>2. n <= HISTORYSIZE
    BY <2>1, ChainAssumption
  <2>3. PICK s \in [0 .. n -> Int] : AddsUp(s, h, n)
    BY <1>2, <2>2
  <2> DEFINE t == [k \in 0 .. n + 1 |-> IF k <= n THEN s[k] ELSE s[n] + h[n + 1]]
  <2>4. t \in [0 .. n + 1 -> Int]
    BY <2>1, <2>3, ChainAssumption
  <2>5. \A k \in 0 .. n : s[k] = IF k = 0 THEN 0 ELSE s[k - 1] + h[k]
    BY <2>3 DEF AddsUp
  <2>6. \A k \in 0 .. n + 1 : t[k] = IF k = 0 THEN 0 ELSE t[k - 1] + h[k]
    <3>1. ASSUME NEW k \in 0 .. n PROVE t[k] = IF k = 0 THEN 0 ELSE t[k - 1] + h[k]
      <4>1. t[k] = s[k] /\ (k # 0 => t[k - 1] = s[k - 1])
        OBVIOUS
      <4> QED BY <2>5, <4>1
    <3>2. t[n + 1] = t[(n + 1) - 1] + h[n + 1]
      OBVIOUS
    <3>3. \A k \in 0 .. n + 1 : k \in 0 .. n \/ (k = n + 1 /\ k # 0)
      OBVIOUS
    <3> HIDE DEF t
    <3> QED BY <3>1, <3>2, <3>3
  <2>7. AddsUp(t, h, n + 1)
    BY <2>4, <2>6 DEF AddsUp
  <2> QED BY <2>4, <2>7
<1>3. Nat \subseteq T
  <2> HIDE DEF T
  <2> QED BY <1>1, <1>2, SetInduction
<1> QED BY <1>3, ChainAssumption

\* The recursive function of the model is such a sum.
LEMMA SumsAddUp ==
  ASSUME NEW h \in History
  PROVE  /\ sums(h)[0] = 0
         /\ \A n \in 0 .. HISTORYSIZE - 1 : sums(h)[n + 1] = sums(h)[n] + h[n + 1]
<1>1. AddsUp(sums(h), h, HISTORYSIZE)
  BY SumExists DEF sums, AddsUp
<1> DEFINE s == sums(h)
<1> HIDE DEF s
<1>2. s = [k \in 0 .. HISTORYSIZE |-> IF k = 0 THEN 0 ELSE s[k - 1] + h[k]]
  BY <1>1 DEF AddsUp, s
<1>3. \A k \in 0 .. HISTORYSIZE : s[k] = IF k = 0 THEN 0 ELSE s[k - 1] + h[k]
  BY <1>2
<1>4. s[0] = 0 /\ \A n \in 0 .. HISTORYSIZE - 1 : s[n + 1] = s[n] + h[n + 1]
  BY <1>3, ChainAssumption
<1> QED BY <1>4 DEF s

\* A sum lies between as many times the least and the greatest sample.
LEMMA SumBetween ==
  ASSUME NEW h \in History, NEW lo \in Int, NEW hi \in Int,
         \A i \in 1 .. HISTORYSIZE : lo <= h[i] /\ h[i] <= hi
  PROVE  \A n \in 0 .. HISTORYSIZE : sums(h)[n] \in n * lo .. n * hi
<1> DEFINE s == sums(h)
           T == {n \in Nat : n <= HISTORYSIZE =>
                   s[n] \in Int /\ n * lo <= s[n] /\ s[n] <= n * hi}
<1>1. s[0] = 0 /\ \A n \in 0 .. HISTORYSIZE - 1 : s[n + 1] = s[n] + h[n + 1]
  BY SumsAddUp
<1> HIDE DEF s
<1>2. 0 \in T
  BY <1>1
<1>3. ASSUME NEW n \in Nat, n \in T PROVE n + 1 \in T
  <2>1. SUFFICES ASSUME n + 1 <= HISTORYSIZE
                 PROVE  /\ s[n + 1] \in Int
                        /\ (n + 1) * lo <= s[n + 1] /\ s[n + 1] <= (n + 1) * hi
    OBVIOUS
  <2>2. s[n] \in Int /\ n * lo <= s[n] /\ s[n] <= n * hi /\ s[n + 1] = s[n] + h[n + 1]
    BY <1>1, <1>3, <2>1, ChainAssumption
  <2>3. h[n + 1] \in Int /\ lo <= h[n + 1] /\ h[n + 1] <= hi
    BY <2>1, ChainAssumption DEF History
  <2>4. (n + 1) * lo = n * lo + lo /\ (n + 1) * hi = n * hi + hi
    OBVIOUS
  <2>5. n * lo \in Int /\ n * hi \in Int
    OBVIOUS
  <2> QED BY <2>2, <2>3, <2>4, <2>5
<1>4. Nat \subseteq T
  <2> HIDE DEF T
  <2> QED BY <1>2, <1>3, SetInduction
<1>5. \A n \in 0 .. HISTORYSIZE : n * lo \in Int /\ n * hi \in Int
  BY ChainAssumption
<1>6. \A n \in 0 .. HISTORYSIZE : s[n] \in n * lo .. n * hi
  BY <1>4, <1>5, ChainAssumption
<1> QED BY <1>6 DEF s

\* Samples apart by at least d have sums apart by as many times d.
LEMMA SumApart ==
  ASSUME NEW a \in History, NEW b \in History, NEW d \in Int,
         \A i \in 1 .. HISTORYSIZE : a[i] - b[i] >= d
  PROVE  mean(a) - mean(b) >= HISTORYSIZE * d
<1> DEFINE s == sums(a)
           t == sums(b)
           T == {n \in Nat : n <= HISTORYSIZE =>
                   s[n] \in Int /\ t[n] \in Int /\ s[n] - t[n] >= n * d}
<1>1. /\ s[0] = 0 /\ \A n \in 0 .. HISTORYSIZE - 1 : s[n + 1] = s[n] + a[n + 1]
      /\ t[0] = 0 /\ \A n \in 0 .. HISTORYSIZE - 1 : t[n + 1] = t[n] + b[n + 1]
  BY SumsAddUp
<1> HIDE DEF s, t
<1>2. 0 \in T
  BY <1>1
<1>3. ASSUME NEW n \in Nat, n \in T PROVE n + 1 \in T
  <2>1. SUFFICES ASSUME n + 1 <= HISTORYSIZE
                 PROVE  /\ s[n + 1] \in Int /\ t[n + 1] \in Int
                        /\ s[n + 1] - t[n + 1] >= (n + 1) * d
    OBVIOUS
  <2>2. /\ s[n] \in Int /\ t[n] \in Int /\ s[n] - t[n] >= n * d
        /\ s[n + 1] = s[n] + a[n + 1] /\ t[n + 1] = t[n] + b[n + 1]
    BY <1>1, <1>3, <2>1, ChainAssumption
  <2>3. a[n + 1] \in Int /\ b[n + 1] \in Int /\ a[n + 1] - b[n + 1] >= d
    BY <2>1, ChainAssumption DEF History
  <2>4. (n + 1) * d = n * d + d /\ n * d \in Int
    OBVIOUS
  <2> QED BY <2>2, <2>3, <2>4
<1>4. Nat \subseteq T
  <2> HIDE DEF T
  <2> QED BY <1>2, <1>3, SetInduction
<1> QED BY <1>4, ChainAssumption DEF s, t, mean

\* A new sample replaces the oldest one in the sum.
LEMMA SumShifts ==
  ASSUME NEW h \in History, NEW x \in Int
  PROVE  mean(shifted(h, x)) = mean(h) + x - h[HISTORYSIZE]
<1> DEFINE g == shifted(h, x)
           s == sums(h)
           t == sums(g)
           T == {n \in Nat : n + 1 <= HISTORYSIZE =>
                   s[n] \in Int /\ t[n + 1] = s[n] + x}
<1>0. g \in History /\ \A i \in 1 .. HISTORYSIZE : g[i] = IF i = 1 THEN x ELSE h[i - 1]
  BY ChainAssumption DEF History, shifted
<1> HIDE DEF g
<1>1. /\ s[0] = 0 /\ \A n \in 0 .. HISTORYSIZE - 1 : s[n + 1] = s[n] + h[n + 1]
      /\ t[0] = 0 /\ \A n \in 0 .. HISTORYSIZE - 1 : t[n + 1] = t[n] + g[n + 1]
  BY <1>0, SumsAddUp
<1> HIDE DEF s, t
<1>2. 0 \in T
  BY <1>0, <1>1, ChainAssumption
<1>3. ASSUME NEW n \in Nat, n \in T PROVE n + 1 \in T
  <2>1. SUFFICES ASSUME (n + 1) + 1 <= HISTORYSIZE
                 PROVE  s[n + 1] \in Int /\ t[(n + 1) + 1] = s[n + 1] + x
    OBVIOUS
  <2>2. /\ s[n] \in Int /\ t[n + 1] = s[n] + x
        /\ s[n + 1] = s[n] + h[n + 1] /\ t[(n + 1) + 1] = t[n + 1] + g[(n + 1) + 1]
    BY <1>1, <1>3, <2>1, ChainAssumption
  <2>3. h[n + 1] \in Int /\ g[(n + 1) + 1] = h[n + 1]
    BY <1>0, <2>1, ChainAssumption DEF History
  <2> QED BY <2>2, <2>3
<1>4. Nat \subseteq T
  <2> HIDE DEF T
  <2> QED BY <1>2, <1>3, SetInduction
<1>5. t[HISTORYSIZE] = s[HISTORYSIZE - 1] + x /\ s[HISTORYSIZE - 1] \in Int
  BY <1>4, ChainAssumption
<1>6. s[HISTORYSIZE] = s[HISTORYSIZE - 1] + h[HISTORYSIZE] /\ h[HISTORYSIZE] \in Int
  BY <1>1, ChainAssumption DEF History
<1>7. t[HISTORYSIZE] = s[HISTORYSIZE] + x - h[HISTORYSIZE]
  BY <1>5, <1>6
<1> QED BY <1>7 DEF s, t, g, mean

-------------------------------------------------------------------------------
(* The inductive invariant of the pedals                                   *)

\* As many of the newest samples of one channel as the history says lie above
\* the other channel's by more than the threshold.
Deviating(k, a, b) == \A i \in 1 .. HISTORYSIZE : i <= k => a[i] - b[i] > 2 * 10

\* Once they fill the filter, the monitor's counter runs.
Counted(k, state) ==
  k >= HISTORYSIZE =>
    state.implausible_ms >= (k - HISTORYSIZE + 1) * PERIOD_MS

\* A released pedal samples half a percent at most.
Released(k, a) == \A i \in 1 .. HISTORYSIZE : i <= k => a[i] <= 1

PastTypeOK == {apart[1], apart[2], released_for} \subseteq 0 .. DELAY

\* The outputs are those of the histories.
OutputInv ==
  /\ throttle = throttle_of(mean(hist1), mean(hist2))
  /\ torque_cmd = torque_from_throttle_pct(throttle)

\* A recorded disagreement as long as the filter and the limit inhibits torque.
InhibitedInTime ==
  \A channel \in {1, 2} : apart[channel] >= DELAY => apps_state.torque_inhibited

ChainInv ==
  /\ MonitorTypeOK
  /\ ChainTypeOK
  /\ PastTypeOK
  /\ Deviating(apart[1], hist1, hist2) /\ Deviating(apart[2], hist2, hist1)
  /\ Counted(apart[1], apps_state) /\ Counted(apart[2], apps_state)
  /\ Released(released_for, hist1) /\ Released(released_for, hist2)
  /\ OutputInv
  /\ InhibitedInTime

-------------------------------------------------------------------------------

LEMMA Constants ==
  /\ HISTORYSIZE \in Nat /\ HISTORYSIZE >= 1 /\ Scale = 2 * HISTORYSIZE
  /\ PERIOD_MS \in Nat /\ PERIOD_MS >= 1
  /\ APPS_IMPLAUSIBILITY_LIMIT_MS \in Nat /\ UINT32_MAX \in Nat
  /\ APPS_IMPLAUSIBILITY_LIMIT_MS + PERIOD_MS <= UINT32_MAX
  /\ Pedal = 0 .. 100 * (2 * HISTORYSIZE)
BY PedalAssumption, MonitorAssumption, ChainAssumption

\* The iterations the rule allows: one more and the limit is exceeded.
LEMMA LimitSteps ==
  LET q == APPS_IMPLAUSIBILITY_LIMIT_MS \div PERIOD_MS
  IN  /\ q \in Nat /\ DELAY = HISTORYSIZE + q /\ DELAY \in Nat
      /\ (q + 1) * PERIOD_MS \in Int
      /\ (q + 1) * PERIOD_MS > APPS_IMPLAUSIBILITY_LIMIT_MS
      /\ (q + 1) * PERIOD_MS <= UINT32_MAX
<1> DEFINE q == APPS_IMPLAUSIBILITY_LIMIT_MS \div PERIOD_MS
<1>1. q \in Int /\ q >= 0
  BY Constants, SMTT(30)
<1>2. q * PERIOD_MS <= APPS_IMPLAUSIBILITY_LIMIT_MS
      /\ APPS_IMPLAUSIBILITY_LIMIT_MS < (q + 1) * PERIOD_MS
  BY Constants, SMTT(30)
<1>3. (q + 1) * PERIOD_MS = q * PERIOD_MS + PERIOD_MS /\ q * PERIOD_MS \in Int
  BY <1>1, Constants, SMTT(30)
<1> QED BY <1>1, <1>2, <1>3, Constants DEF DELAY

\* A sample is a percentage in half percents, of a released pedal half a percent
\* at most.
LEMMA SampleRange ==
  ASSUME NEW count \in Count
  PROVE  sample(count) \in 0 .. 200 /\ (count <= APPS_0 => sample(count) <= 1)
<1>1. count \in Int
  BY ChainAssumption
<1>2. /\ (2 * 100 * (count - APPS_0)) \div (APPS_100 - APPS_0) \in Int
      /\ count <= APPS_0 =>
           (2 * 100 * (count - APPS_0)) \div (APPS_100 - APPS_0) <= 0
  BY <1>1 DEF APPS_0, APPS_100
<1> HIDE DEF APPS_0, APPS_100
<1> QED BY <1>2 DEF sample, Clamp

\* The entries of a history.
LEMMA Entries ==
  ASSUME NEW h \in [1 .. HISTORYSIZE -> 0 .. 200]
  PROVE  /\ h \in History
         /\ \A i \in 1 .. HISTORYSIZE : h[i] \in Int /\ 0 <= h[i] /\ h[i] <= 200
<1>1. \A i \in 1 .. HISTORYSIZE : h[i] \in 0 .. 200
  BY Zenon
<1>2. h = [i \in 1 .. HISTORYSIZE |-> h[i]]
  BY Zenon
<1>3. \A i \in 1 .. HISTORYSIZE : h[i] \in Int /\ 0 <= h[i] /\ h[i] <= 200
  <2>1. \A v \in 0 .. 200 : v \in Int /\ 0 <= v /\ v <= 200
    OBVIOUS
  <2> QED BY <1>1, <2>1, Zenon
<1>4. h \in [1 .. HISTORYSIZE -> Int]
  BY <1>2, <1>3, Zenon
<1> QED BY <1>3, <1>4 DEF History

\* A history of percentages has a percentage as its mean.
LEMMA MeanRange ==
  ASSUME NEW h \in [1 .. HISTORYSIZE -> 0 .. 200]
  PROVE  h \in History /\ mean(h) \in Pedal
<1>1. h \in History
  BY Entries
<1>2. \A i \in 1 .. HISTORYSIZE : 0 <= h[i] /\ h[i] <= 200
  BY Entries
<1>3. sums(h)[HISTORYSIZE] \in HISTORYSIZE * 0 .. HISTORYSIZE * 200
  BY <1>1, <1>2, SumBetween, Constants
<1> QED BY <1>1, <1>3, Constants DEF mean

LEMMA ShiftedRange ==
  ASSUME NEW h \in [1 .. HISTORYSIZE -> 0 .. 200], NEW x \in 0 .. 200
  PROVE  /\ shifted(h, x) \in [1 .. HISTORYSIZE -> 0 .. 200]
         /\ shifted(h, x)[1] = x
         /\ \A i \in 1 .. HISTORYSIZE : i # 1 => shifted(h, x)[i] = h[i - 1]
BY Constants DEF shifted

-------------------------------------------------------------------------------
(* A disagreement                                                          *)

\* The recorded length and the samples that deviate grow together.
LEMMA DeviatingGrows ==
  ASSUME NEW a \in [1 .. HISTORYSIZE -> 0 .. 200], NEW b \in [1 .. HISTORYSIZE -> 0 .. 200],
         NEW x \in 0 .. 200, NEW y \in 0 .. 200, NEW k \in 0 .. DELAY,
         Deviating(k, a, b), x - y > 2 * 10
  PROVE  Deviating(Cap(k + 1), shifted(a, x), shifted(b, y))
<1>1. DELAY \in Nat /\ HISTORYSIZE <= DELAY
  BY LimitSteps, Constants
<1>2. \A i \in 1 .. HISTORYSIZE : i <= Cap(k + 1) => i - 1 <= k
  BY <1>1, Constants DEF Cap
<1>3. \A i \in 1 .. HISTORYSIZE : i = 1 \/ i - 1 \in 1 .. HISTORYSIZE
  BY Constants
<1>4. ASSUME NEW i \in 1 .. HISTORYSIZE, i <= Cap(k + 1)
      PROVE  shifted(a, x)[i] - shifted(b, y)[i] > 2 * 10
  <2>1. CASE i = 1
    BY <2>1, ShiftedRange
  <2>2. CASE i # 1
    <3>1. i - 1 \in 1 .. HISTORYSIZE /\ i - 1 <= k
      BY <1>2, <1>3, <1>4, <2>2
    <3>2. a[i - 1] - b[i - 1] > 2 * 10
      BY <3>1 DEF Deviating
    <3>3. shifted(a, x)[i] = a[i - 1] /\ shifted(b, y)[i] = b[i - 1]
      BY <2>2, ShiftedRange, Zenon
    <3> QED BY <3>2, <3>3
  <2> QED BY <2>1, <2>2
<1> QED BY <1>4 DEF Deviating

\* Filters full of a disagreement disagree.
LEMMA DeviatingMeans ==
  ASSUME NEW a \in [1 .. HISTORYSIZE -> 0 .. 200], NEW b \in [1 .. HISTORYSIZE -> 0 .. 200],
         NEW k \in Int, k >= HISTORYSIZE, Deviating(k, a, b)
  PROVE  implausible(mean(a), mean(b)) /\ implausible(mean(b), mean(a))
<1>1. ASSUME NEW i \in 1 .. HISTORYSIZE PROVE a[i] - b[i] >= 21
  <2>1. a[i] \in Int /\ b[i] \in Int
    BY Entries
  <2>2. i <= k
    BY Constants
  <2>3. a[i] - b[i] > 2 * 10
    BY <2>2 DEF Deviating
  <2> QED BY <2>1, <2>3
<1>2. mean(a) - mean(b) >= HISTORYSIZE * 21
  <2>1. a \in History /\ b \in History /\ 21 \in Int
    BY MeanRange
  <2> QED BY <1>1, <2>1, SumApart
<1>3. mean(a) \in Int /\ mean(b) \in Int
  BY MeanRange, Constants
<1>4. mean(a) - mean(b) > APPS_PLAUSIBILITY_THRESH
  BY <1>2, <1>3, Constants DEF APPS_PLAUSIBILITY_THRESH
<1> QED BY <1>4 DEF implausible

\* So the counter runs, and cuts when the recorded length has reached its cap.
LEMMA CountedGrows ==
  ASSUME MonitorTypeOK, NEW k \in 0 .. DELAY, Counted(k, apps_state),
         NEW p, NEW q, Cap(k + 1) >= HISTORYSIZE => implausible(p, q),
         apps_state' = apps_plausibility_update(apps_state, p, q, PERIOD_MS)
  PROVE  /\ Cap(k + 1) \in 0 .. DELAY
         /\ Counted(Cap(k + 1), apps_state')
         /\ Cap(k + 1) >= DELAY => apps_state'.torque_inhibited
<1> DEFINE L == APPS_IMPLAUSIBILITY_LIMIT_MS \div PERIOD_MS
           n == Cap(k + 1)
           ms == apps_state.implausible_ms
<1>1. /\ L \in Nat /\ DELAY = HISTORYSIZE + L /\ DELAY \in Nat
      /\ (L + 1) * PERIOD_MS \in Int
      /\ (L + 1) * PERIOD_MS > APPS_IMPLAUSIBILITY_LIMIT_MS
      /\ (L + 1) * PERIOD_MS <= UINT32_MAX
  BY LimitSteps
<1> HIDE DEF L
<1>2. /\ n \in 0 .. DELAY /\ n <= k + 1
  BY <1>1 DEF Cap
<1>3. ms \in 0 .. UINT32_MAX
  BY DEF MonitorTypeOK, AppsState
<1>4. SUFFICES ASSUME n >= HISTORYSIZE
               PROVE  /\ apps_state'.implausible_ms >= (n - HISTORYSIZE + 1) * PERIOD_MS
                      /\ n >= DELAY => apps_state'.torque_inhibited
  <2>1. DELAY >= HISTORYSIZE
    BY <1>1, Constants
  <2> QED BY <1>1, <1>2, <2>1, Constants DEF Counted
<1>5. apps_state'.implausible_ms =
        IF ms <= UINT32_MAX - PERIOD_MS THEN ms + PERIOD_MS ELSE UINT32_MAX
  BY <1>4 DEF apps_plausibility_update, implausible_ms_next
<1>6. apps_state'.torque_inhibited =
        \/ apps_state'.implausible_ms > APPS_IMPLAUSIBILITY_LIMIT_MS
        \/ apps_state.torque_inhibited
  BY <1>4 DEF apps_plausibility_update, MonitorTypeOK, AppsState
<1> DEFINE j == n - HISTORYSIZE
<1> HIDE DEF n
<1>7. j \in 0 .. L
  BY <1>1, <1>2, <1>4, Constants
<1>8. /\ j * PERIOD_MS \in Int /\ j * PERIOD_MS + PERIOD_MS = (j + 1) * PERIOD_MS
      /\ (j + 1) * PERIOD_MS <= (L + 1) * PERIOD_MS
  BY <1>1, <1>7, Constants, SMTT(30)
<1>9. ms >= j * PERIOD_MS
  <2>1. CASE j = 0
    BY <1>3, <2>1, Constants
  <2>2. CASE j > 0
    <3>1. k >= HISTORYSIZE /\ k - HISTORYSIZE + 1 >= j
      BY <1>2, <1>7, <2>2, Constants
    <3>2. ms >= (k - HISTORYSIZE + 1) * PERIOD_MS
      BY <3>1 DEF Counted
    <3>3. (k - HISTORYSIZE + 1) * PERIOD_MS >= j * PERIOD_MS
      BY <1>7, <3>1, Constants, SMTT(30)
    <3>4. (k - HISTORYSIZE + 1) * PERIOD_MS \in Int
      BY Constants
    <3> QED BY <1>3, <1>8, <3>2, <3>3, <3>4
  <2> QED BY <1>7, <2>1, <2>2
<1>10. apps_state'.implausible_ms >= (j + 1) * PERIOD_MS
  BY <1>1, <1>3, <1>5, <1>8, <1>9, Constants
<1>11. n >= DELAY => apps_state'.torque_inhibited
  <2>1. n >= DELAY => j = L
    BY <1>1, <1>7, Constants, <1>2
  <2>2. apps_state'.implausible_ms \in Int
    BY <1>3, <1>5, Constants
  <2> QED BY <1>1, <1>6, <1>10, <2>1, <2>2, Constants
<1> QED BY <1>10, <1>11

-------------------------------------------------------------------------------
(* A release                                                               *)

\* The recorded length and the released samples grow together.
LEMMA ReleasedGrows ==
  ASSUME NEW a \in [1 .. HISTORYSIZE -> 0 .. 200], NEW x \in 0 .. 200,
         NEW k \in 0 .. DELAY, Released(k, a), x <= 1
  PROVE  Released(Cap(k + 1), shifted(a, x))
<1>1. DELAY \in Nat /\ HISTORYSIZE <= DELAY
  BY LimitSteps, Constants
<1>2. \A i \in 1 .. HISTORYSIZE : i <= Cap(k + 1) => i - 1 <= k
  BY <1>1, Constants DEF Cap
<1>3. ASSUME NEW i \in 1 .. HISTORYSIZE, i <= Cap(k + 1)
      PROVE  shifted(a, x)[i] <= 1
  <2>1. CASE i = 1
    BY <2>1, ShiftedRange
  <2>2. CASE i # 1
    <3>1. i - 1 \in 1 .. HISTORYSIZE /\ i - 1 <= k
      BY <1>2, <1>3, <2>2, Constants
    <3>2. a[i - 1] <= 1
      BY <3>1 DEF Released
    <3>3. shifted(a, x)[i] = a[i - 1]
      BY <2>2, ShiftedRange, Zenon
    <3> QED BY <3>2, <3>3
  <2> QED BY <2>1, <2>2
<1> QED BY <1>3 DEF Released

\* Filters full of released samples command no torque.
LEMMA ReleasedMeans ==
  ASSUME NEW a \in [1 .. HISTORYSIZE -> 0 .. 200], NEW b \in [1 .. HISTORYSIZE -> 0 .. 200],
         NEW k \in Int, k >= HISTORYSIZE, Released(k, a), Released(k, b)
  PROVE  torque_from_throttle_pct(throttle_of(mean(a), mean(b))) = 0
<1>1. ASSUME NEW h \in [1 .. HISTORYSIZE -> 0 .. 200], Released(k, h)
      PROVE  mean(h) \in 0 .. HISTORYSIZE
  <2>1. \A i \in 1 .. HISTORYSIZE : i <= k
    BY Constants
  <2>2. \A i \in 1 .. HISTORYSIZE : 0 <= h[i] /\ h[i] <= 1
    BY <1>1, <2>1, Entries DEF Released
  <2>3. h \in History /\ 0 \in Int /\ 1 \in Int
    BY Entries
  <2>4. \A n \in 0 .. HISTORYSIZE : sums(h)[n] \in n * 0 .. n * 1
    BY <2>2, <2>3, SumBetween
  <2> QED BY <2>4, Constants DEF mean
<1>2. mean(a) \in 0 .. HISTORYSIZE /\ mean(b) \in 0 .. HISTORYSIZE
  BY <1>1
<1>3. 2 * Scale = 4 * HISTORYSIZE
  BY Constants
<1> DEFINE m == mean(a) + mean(b)
<1>4. /\ 2 * Scale \in Nat \ {0}
      /\ m \in Int /\ 0 * (2 * Scale) <= m /\ m < 1 * (2 * Scale)
  BY <1>2, <1>3, Constants
<1>5. m \div (2 * Scale) = 0
  <2> HIDE DEF m
  <2>1. m \div (2 * Scale) \in Int /\ ~(m \div (2 * Scale) < 0) /\ m \div (2 * Scale) < 1
    BY <1>4, Quotient
  <2> QED BY <2>1
<1>6. throttle_of(mean(a), mean(b)) = 0
  BY <1>5 DEF throttle_of, Clamp
<1> QED BY <1>6 DEF torque_from_throttle_pct, TORQUE_MIN_CMD

-------------------------------------------------------------------------------
(* One iteration                                                           *)

LEMMA ChainInitial == ChainInit => ChainInv
<1> SUFFICES ASSUME ChainInit PROVE ChainInv
  OBVIOUS
<1> DEFINE zero == [i \in 1 .. HISTORYSIZE |-> 0]
<1>1. hist1 = zero /\ hist2 = zero
  BY DEF ChainInit
<1>2. /\ zero \in [1 .. HISTORYSIZE -> 0 .. 200]
      /\ \A i \in 1 .. HISTORYSIZE : zero[i] = 0
  BY Constants
<1> HIDE DEF zero
<1>3. MonitorTypeOK
  BY BootTyped DEF ChainInit
<1>4. ChainTypeOK
  BY <1>1, <1>2, MeanRange DEF ChainTypeOK
<1>5. apart = <<0, 0>> /\ released_for = 0 /\ 0 \in 0 .. DELAY /\ HISTORYSIZE >= 1 /\ DELAY >= 1
  BY LimitSteps, Constants DEF ChainInit
<1>6. apart[1] = 0 /\ apart[2] = 0
  BY <1>5
<1>7. PastTypeOK /\ Counted(apart[1], apps_state) /\ Counted(apart[2], apps_state) /\ InhibitedInTime
  BY <1>5, <1>6, Constants, LimitSteps DEF PastTypeOK, Counted, InhibitedInTime
<1>8. /\ Deviating(0, hist1, hist2) /\ Deviating(0, hist2, hist1)
      /\ Released(0, hist1) /\ Released(0, hist2)
  BY Constants DEF Deviating, Released
<1>9. OutputInv
  <2>1. Released(HISTORYSIZE, zero)
    BY <1>2 DEF Released
  <2>2. mean(zero) = 0
    <3>1. sums(zero)[HISTORYSIZE] \in HISTORYSIZE * 0 .. HISTORYSIZE * 0
      BY <1>2, Entries, SumBetween, Constants
    <3> QED BY <3>1, Constants DEF mean
  <2>3. throttle_of(0, 0) = 0
    <3>1. (0 + 0) \div (2 * Scale) = 0
      BY Constants
    <3> QED BY <3>1 DEF throttle_of, Clamp
  <2>4. throttle = 0 /\ torque_cmd = 0
    BY DEF ChainInit, MonitorInit
  <2>5. torque_from_throttle_pct(0) = 0
    BY DEF torque_from_throttle_pct, TORQUE_MIN_CMD
  <2> QED BY <1>1, <2>2, <2>3, <2>4, <2>5 DEF OutputInv
<1> QED BY <1>3, <1>4, <1>5, <1>6, <1>7, <1>8, <1>9 DEF ChainInv

\* An iteration of the chain is one of the monitor on pedals it knows.
LEMMA ChainIterates ==
  ASSUME ChainInv, NEW count1 \in Count, NEW count2 \in Count, NEW count \in BseCount,
         hist1' = shifted(hist1, sample(count1)), hist2' = shifted(hist2, sample(count2)),
         Iterate(mean(hist1'), mean(hist2'), count)
  PROVE  /\ sample(count1) \in 0 .. 200 /\ sample(count2) \in 0 .. 200
         /\ ChainTypeOK'
         /\ mean(hist1') \in Pedal /\ mean(hist2') \in Pedal
         /\ MonitorTypeOK'
         /\ OutputInv'
<1>1. sample(count1) \in 0 .. 200 /\ sample(count2) \in 0 .. 200
  BY SampleRange
<1>2. /\ hist1' \in [1 .. HISTORYSIZE -> 0 .. 200]
      /\ hist2' \in [1 .. HISTORYSIZE -> 0 .. 200]
  BY <1>1, ShiftedRange DEF ChainInv, ChainTypeOK
<1>3. mean(hist1') \in Pedal /\ mean(hist2') \in Pedal
  BY <1>2, MeanRange
<1>4. mean(hist1)' = mean(hist1') /\ mean(hist2)' = mean(hist2')
  BY DEF mean, sums
<1>5. ChainTypeOK'
  BY <1>2, <1>3, <1>4 DEF ChainTypeOK
<1>6. MonitorTypeOK'
  BY <1>3, IterateTyped DEF ChainInv
<1>7. OutputInv'
  BY <1>4 DEF OutputInv, Iterate, Acquire
<1> QED BY <1>1, <1>3, <1>5, <1>6, <1>7

LEMMA ChainStep == ChainInv /\ [ChainNext]_chainVars => ChainInv'
<1> SUFFICES ASSUME ChainInv, [ChainNext]_chainVars PROVE ChainInv'
  OBVIOUS
<1>1. CASE ChainNext
  <2>1. PICK count1 \in Count, count2 \in Count, count \in BseCount :
          /\ hist1' = shifted(hist1, sample(count1))
          /\ hist2' = shifted(hist2, sample(count2))
          /\ Iterate(mean(hist1'), mean(hist2'), count)
          /\ Observe(count1, count2)
    BY <1>1 DEF ChainNext
  <2> DEFINE x == sample(count1)
             y == sample(count2)
  <2>2. /\ x \in 0 .. 200 /\ y \in 0 .. 200
        /\ ChainTypeOK' /\ MonitorTypeOK' /\ OutputInv'
    BY <2>1, ChainIterates
  <2>3. /\ hist1 \in [1 .. HISTORYSIZE -> 0 .. 200] /\ hist2 \in [1 .. HISTORYSIZE -> 0 .. 200]
        /\ hist1' \in [1 .. HISTORYSIZE -> 0 .. 200] /\ hist2' \in [1 .. HISTORYSIZE -> 0 .. 200]
        /\ apart[1] \in 0 .. DELAY /\ apart[2] \in 0 .. DELAY /\ released_for \in 0 .. DELAY
    BY <2>2 DEF ChainInv, ChainTypeOK, PastTypeOK
  <2>4. /\ apart'[1] = IF x - y > 2 * 10 THEN Cap(apart[1] + 1) ELSE 0
        /\ apart'[2] = IF y - x > 2 * 10 THEN Cap(apart[2] + 1) ELSE 0
        /\ released_for' = IF count1 <= APPS_0 /\ count2 <= APPS_0
                             THEN Cap(released_for + 1) ELSE 0
    BY <2>1 DEF Observe, above
  <2>5. /\ apps_state' = apps_plausibility_update(apps_state, mean(hist1'), mean(hist2'), PERIOD_MS)
    BY <2>1 DEF Iterate, Evaluate
  <2>6. DELAY \in Nat /\ DELAY >= 1 /\ HISTORYSIZE >= 1 /\ 0 \in 0 .. DELAY
    BY LimitSteps, Constants
  <2>7. /\ Deviating(0, hist1', hist2') /\ Deviating(0, hist2', hist1')
        /\ Released(0, hist1') /\ Released(0, hist2')
    BY Constants DEF Deviating, Released
  <2> HIDE DEF x, y
  <2>8. /\ apart'[1] \in 0 .. DELAY
        /\ Deviating(apart'[1], hist1', hist2') /\ Counted(apart'[1], apps_state')
        /\ apart'[1] >= DELAY => apps_state'.torque_inhibited
    <3>1. CASE x - y > 2 * 10
      <4> DEFINE k == Cap(apart[1] + 1)
      <4>1. Deviating(k, hist1', hist2')
        BY <2>1, <2>2, <2>3, <3>1, DeviatingGrows DEF ChainInv, x, y
      <4>2. k \in Int
        BY <2>3, <2>6 DEF Cap
      <4>3. k >= HISTORYSIZE => implausible(mean(hist1'), mean(hist2'))
        BY <2>3, <4>1, <4>2, DeviatingMeans
      <4>4. /\ k \in 0 .. DELAY /\ Counted(k, apps_state')
            /\ k >= DELAY => apps_state'.torque_inhibited
        BY <2>3, <2>5, <4>3, CountedGrows DEF ChainInv
      <4> QED BY <2>4, <3>1, <4>1, <4>4
    <3>2. CASE ~(x - y > 2 * 10)
      BY <2>4, <2>6, <2>7, <3>2, Constants DEF Counted
    <3> QED BY <3>1, <3>2
  <2>9. /\ apart'[2] \in 0 .. DELAY
        /\ Deviating(apart'[2], hist2', hist1') /\ Counted(apart'[2], apps_state')
        /\ apart'[2] >= DELAY => apps_state'.torque_inhibited
    <3>1. CASE y - x > 2 * 10
      <4> DEFINE k == Cap(apart[2] + 1)
      <4>1. Deviating(k, hist2', hist1')
        BY <2>1, <2>2, <2>3, <3>1, DeviatingGrows DEF ChainInv, x, y
      <4>2. k \in Int
        BY <2>3, <2>6 DEF Cap
      <4>3. k >= HISTORYSIZE => implausible(mean(hist1'), mean(hist2'))
        BY <2>3, <4>1, <4>2, DeviatingMeans
      <4>4. /\ k \in 0 .. DELAY /\ Counted(k, apps_state')
            /\ k >= DELAY => apps_state'.torque_inhibited
        BY <2>3, <2>5, <4>3, CountedGrows DEF ChainInv
      <4> QED BY <2>4, <3>1, <4>1, <4>4
    <3>2. CASE ~(y - x > 2 * 10)
      BY <2>4, <2>6, <2>7, <3>2, Constants DEF Counted
    <3> QED BY <3>1, <3>2
  <2>10. released_for' \in 0 .. DELAY /\ Released(released_for', hist1') /\ Released(released_for', hist2')
    <3>1. CASE count1 <= APPS_0 /\ count2 <= APPS_0
      <4>1. x <= 1 /\ y <= 1
        BY <3>1, SampleRange DEF x, y
      <4>2. /\ Released(Cap(released_for + 1), hist1')
            /\ Released(Cap(released_for + 1), hist2')
        BY <2>1, <2>2, <2>3, <4>1, ReleasedGrows DEF ChainInv, x, y
      <4>3. Cap(released_for + 1) \in 0 .. DELAY
        BY <2>3, <2>6 DEF Cap
      <4> QED BY <2>4, <3>1, <4>2, <4>3
    <3>2. CASE ~(count1 <= APPS_0 /\ count2 <= APPS_0)
      BY <2>4, <2>6, <2>7, <3>2
    <3> QED BY <3>1, <3>2
  <2>11. PastTypeOK' /\ InhibitedInTime'
    BY <2>8, <2>9, <2>10 DEF PastTypeOK, InhibitedInTime
  <2>12. /\ Deviating(apart[1], hist1, hist2)' /\ Deviating(apart[2], hist2, hist1)'
         /\ Counted(apart[1], apps_state)' /\ Counted(apart[2], apps_state)'
         /\ Released(released_for, hist1)' /\ Released(released_for, hist2)'
    BY <2>8, <2>9, <2>10 DEF Deviating, Counted, Released
  <2> QED BY <2>2, <2>11, <2>12 DEF ChainInv
<1>2. CASE UNCHANGED chainVars
  <2>1. /\ UNCHANGED <<throttle, brake, torque_cmd, brakelight, bse_count, faults, fw_state>>
        /\ UNCHANGED <<apps_state, bppc_state, hist1, hist2, apart, released_for>>
    BY <1>2 DEF chainVars, monitorVars, pastVars
  <2>2. mean(hist1)' = mean(hist1) /\ mean(hist2)' = mean(hist2)
    BY <2>1 DEF mean, sums
  <2>3. MonitorTypeOK'
    BY <2>1 DEF ChainInv, MonitorTypeOK
  <2>4. ChainTypeOK' /\ OutputInv' /\ PastTypeOK' /\ InhibitedInTime'
    BY <2>1, <2>2 DEF ChainInv, ChainTypeOK, OutputInv, PastTypeOK, InhibitedInTime
  <2>5. /\ Deviating(apart[1], hist1, hist2)' /\ Deviating(apart[2], hist2, hist1)'
        /\ Counted(apart[1], apps_state)' /\ Counted(apart[2], apps_state)'
        /\ Released(released_for, hist1)' /\ Released(released_for, hist2)'
    BY <2>1 DEF ChainInv, Deviating, Counted, Released
  <2> QED BY <2>3, <2>4, <2>5 DEF ChainInv
<1> QED BY <1>1, <1>2

THEOREM ChainInvariant == ChainSpec => []ChainInv
BY ChainInitial, ChainStep, PTL DEF ChainSpec

\* The filter's averages are percentages, for every length of the filter: what
\* SafetyMonitor assumes of its inputs (pot_get_percent).
THEOREM ChainTyped == ChainSpec => []ChainTypeOK
<1>1. ChainInv => ChainTypeOK
  BY DEF ChainInv
<1> QED BY <1>1, ChainInvariant, PTL

\* Released pedals command no torque after one length of the filter, whatever it
\* held before (run `chain').
THEOREM ChainReleases == ChainSpec => []ReleaseStopsTorque
<1>1. ChainInv => ReleaseStopsTorque
  <2> SUFFICES ASSUME ChainInv, released_for >= HISTORYSIZE PROVE torque_cmd = 0
    BY DEF ReleaseStopsTorque
  <2>1. released_for \in Int
    BY LimitSteps DEF ChainInv, PastTypeOK
  <2> QED BY <2>1, ReleasedMeans DEF ChainInv, ChainTypeOK, OutputInv
<1> QED BY <1>1, ChainInvariant, PTL

\* The monitor behind the filters behaves as the monitor on any percentages, so
\* what is proved of MonitorSpec holds from the raw counts on.
THEOREM ChainImplementsMonitor == ChainSpec => MonitorSpec
<1>1. ChainInit => MonitorInit
  BY DEF ChainInit
<1>2. ChainInv /\ [ChainNext]_chainVars => [MonitorNext]_monitorVars
  <2> SUFFICES ASSUME ChainInv, [ChainNext]_chainVars PROVE [MonitorNext]_monitorVars
    OBVIOUS
  <2>1. CASE ChainNext
    <3>1. PICK count1 \in Count, count2 \in Count, count \in BseCount :
            /\ hist1' = shifted(hist1, sample(count1))
            /\ hist2' = shifted(hist2, sample(count2))
            /\ Iterate(mean(hist1'), mean(hist2'), count)
      BY <2>1 DEF ChainNext
    <3>2. mean(hist1') \in Pedal /\ mean(hist2') \in Pedal
      BY <3>1, ChainIterates
    <3> QED BY <3>1, <3>2 DEF MonitorNext
  <2>2. CASE UNCHANGED chainVars
    BY <2>2 DEF chainVars
  <2> QED BY <2>1, <2>2
<1> QED BY <1>1, <1>2, ChainInvariant, PTL DEF ChainSpec, MonitorSpec

\* A raw disagreement cuts the torque and opens the circuit after one length of
\* the filter and the time the rule allows, for every length, period and limit
\* (run `chain').
THEOREM ChainCutsInTime == ChainSpec => []DisagreementCutInTime
<1>1. ChainInv /\ CutIsReported => DisagreementCutInTime
  BY DEF ChainInv, InhibitedInTime, CutIsReported, DisagreementCutInTime
<1> QED
  BY <1>1, ChainInvariant, ChainImplementsMonitor, MonitorReportsCut, PTL

\* So the chain, filters included, implements the abstract interlock whatever the
\* two channels read.
THEOREM ChainImplementsInterlock == ChainSpec => KeepsInterlock
BY ChainImplementsMonitor, MonitorImplementsInterlock

-------------------------------------------------------------------------------
(* The slew of the command                                                 *)

\* A quotient moves by at most b where its dividend moves by b divisors.
LEMMA QuotientMoves ==
  ASSUME NEW s \in Nat \ {0}, NEW a \in Int, NEW c \in Int, NEW b \in Int,
         c - a <= b * s
  PROVE  (c \div s) - (a \div s) <= b
<1> DEFINE q == a \div s
<1>1. q \in Int /\ a < (q + 1) * s
  BY Quotient
<1> HIDE DEF q
<1>2. (q + 1) * s + b * s = (q + 1 + b) * s
  BY <1>1, SMTT(30)
<1>3. (q + 1) * s \in Int /\ b * s \in Int
  BY <1>1
<1>4. c < (q + 1 + b) * s
  BY <1>1, <1>2, <1>3
<1>5. c \div s \in Int /\ c \div s < q + 1 + b
  <2>1. q + 1 + b \in Int
    BY <1>1
  <2> QED BY <1>4, <2>1, Quotient
<1> QED BY <1>1, <1>5 DEF q

\* One sample moves a mean by at most a full percentage of it.
LEMMA MeanMoves ==
  ASSUME NEW h \in [1 .. HISTORYSIZE -> 0 .. 200], NEW x \in 0 .. 200
  PROVE  mean(shifted(h, x)) - mean(h) \in -200 .. 200
<1> DEFINE old == h[HISTORYSIZE]
           before == mean(h)
           after == mean(shifted(h, x))
<1>1. HISTORYSIZE \in 1 .. HISTORYSIZE
  BY Constants
<1>2. old \in 0 .. 200
  BY <1>1, Zenon
<1>3. h \in History
  BY Entries, Zenon
<1>4. before \in Int
  BY MeanRange, Constants
<1>5. x \in Int
  OBVIOUS
<1>6. after = before + x - old
  BY <1>3, <1>5, SumShifts, Zenon
<1> HIDE DEF old, before, after
<1>7. after - before \in -200 .. 200
  BY <1>2, <1>4, <1>6
<1> QED BY <1>7 DEF before, after

\* Two means move the throttle by a sample's weight, in one direction.
LEMMA ThrottleMoves ==
  ASSUME NEW a1 \in Pedal, NEW a2 \in Pedal, NEW b1 \in Pedal, NEW b2 \in Pedal,
         b1 - a1 <= 200, b2 - a2 <= 200
  PROVE  throttle_of(b1, b2) - throttle_of(a1, a2) <= STEP_PCT
<1> DEFINE s == 2 * Scale
           a == a1 + a2
           b == b1 + b2
<1>1. s = 4 * HISTORYSIZE /\ s \in Nat \ {0} /\ a \in Int /\ b \in Int /\ b - a <= 400
  BY Constants
<1>2. STEP_PCT \in Int /\ STEP_PCT >= 0 /\ STEP_PCT * HISTORYSIZE >= 100
  <2>1. HISTORYSIZE \in Nat \ {0} /\ 100 + HISTORYSIZE - 1 \in Int
    BY Constants
  <2>2. /\ STEP_PCT \in Int /\ ~(STEP_PCT < 0)
        /\ 100 + HISTORYSIZE - 1 < (STEP_PCT + 1) * HISTORYSIZE
    <3> DEFINE n == 100 + HISTORYSIZE - 1
               q == n \div HISTORYSIZE
    <3>1. q \in Int /\ ~(q < 0)
      BY <2>1, Quotient, Constants
    <3>2. n < (q + 1) * HISTORYSIZE
      BY <2>1, <3>1, Quotient
    <3> QED BY <3>1, <3>2 DEF STEP_PCT
  <2>3. (STEP_PCT + 1) * HISTORYSIZE = STEP_PCT * HISTORYSIZE + HISTORYSIZE
        /\ STEP_PCT * HISTORYSIZE \in Int
    BY <2>2, Constants, SMTT(30)
  <2> QED BY <2>2, <2>3, Constants
<1>3. STEP_PCT * s >= 400
  BY <1>1, <1>2, Constants, SMTT(30)
<1>4. STEP_PCT * s \in Int
  BY <1>1, <1>2
<1>5. (b \div s) - (a \div s) <= STEP_PCT
  <2> HIDE DEF s, a, b
  <2>1. b - a <= STEP_PCT * s
    BY <1>1, <1>3, <1>4
  <2> QED BY <1>1, <1>2, <2>1, QuotientMoves
<1>6. a \div s \in Int /\ b \div s \in Int
  BY <1>1, Quotient
<1> QED BY <1>2, <1>5, <1>6 DEF throttle_of, Clamp

\* Between 0 and 100 percent the command is the rounded share of the largest.
LEMMA CommandIs ==
  ASSUME NEW t \in 0 .. 100
  PROVE  torque_from_throttle_pct(t) = (t * TORQUE_MAX_CMD + 50) \div 100
BY DEF torque_from_throttle_pct, torque_clamp, Clamp, TORQUE_MIN_CMD, TORQUE_MAX_CMD

\* A throttle that moves by one sample's weight moves the command by it.
LEMMA CommandMoves ==
  ASSUME NEW t \in 0 .. 100, NEW u \in 0 .. 100, STEP_PCT \in Int, u - t <= STEP_PCT
  PROVE  torque_from_throttle_pct(u) - torque_from_throttle_pct(t) <= STEP_CMD
<1> DEFINE a == t * TORQUE_MAX_CMD + 50
           c == u * TORQUE_MAX_CMD + 50
<1>1. a \in Int /\ c \in Int /\ c - a <= TORQUE_MAX_CMD * STEP_PCT
  BY DEF TORQUE_MAX_CMD
<1>2. STEP_CMD \in Int /\ TORQUE_MAX_CMD * STEP_PCT <= STEP_CMD * 100
  BY DEF STEP_CMD, TORQUE_MAX_CMD
<1>3. c - a <= STEP_CMD * 100
  BY <1>1, <1>2 DEF TORQUE_MAX_CMD
<1>4. (c \div 100) - (a \div 100) <= STEP_CMD
  BY <1>1, <1>2, <1>3, QuotientMoves
<1> QED BY <1>4, CommandIs

\* The filter limits the slew of the command, for every length of it: no sample,
\* however wild, moves the torque by more than its weight (run `chain').
THEOREM ChainIsSmooth == ChainSpec => TorqueIsSmooth
<1>1. ChainInv /\ ChainInv' /\ [ChainNext]_chainVars
        => [ torque_cmd' - torque_cmd \in -STEP_CMD .. STEP_CMD ]_chainVars
  <2> SUFFICES ASSUME ChainInv, ChainInv', ChainNext
               PROVE  torque_cmd' - torque_cmd \in -STEP_CMD .. STEP_CMD
    OBVIOUS
  <2>1. PICK count1 \in Count, count2 \in Count, count \in BseCount :
          /\ hist1' = shifted(hist1, sample(count1))
          /\ hist2' = shifted(hist2, sample(count2))
    BY DEF ChainNext
  <2> DEFINE a1 == mean(hist1)
             a2 == mean(hist2)
             b1 == mean(hist1')
             b2 == mean(hist2')
  <2>2. a1 \in Pedal /\ a2 \in Pedal /\ b1 \in Pedal /\ b2 \in Pedal
    <3>1. mean(hist1)' = b1 /\ mean(hist2)' = b2
      BY DEF mean, sums
    <3> QED BY <3>1 DEF ChainInv, ChainTypeOK
  <2>3. b1 - a1 \in -200 .. 200 /\ b2 - a2 \in -200 .. 200
    BY <2>1, SampleRange, MeanMoves DEF ChainInv, ChainTypeOK
  <2>4. throttle = throttle_of(a1, a2) /\ throttle' = throttle_of(b1, b2)
    <3>1. throttle_of(mean(hist1), mean(hist2))' = throttle_of(b1, b2)
      BY DEF mean, sums, throttle_of
    <3> QED BY <3>1 DEF ChainInv, OutputInv
  <2>5. /\ torque_cmd = torque_from_throttle_pct(throttle)
        /\ torque_cmd' = torque_from_throttle_pct(throttle')
    BY DEF ChainInv, OutputInv, torque_from_throttle_pct
  <2> HIDE DEF a1, a2, b1, b2
  <2>6. a1 \in Int /\ a2 \in Int /\ b1 \in Int /\ b2 \in Int
    BY <2>2, Constants
  <2>7. throttle \in 0 .. 100 /\ throttle' \in 0 .. 100
    BY DEF ChainInv, MonitorTypeOK
  <2>8. throttle' - throttle <= STEP_PCT /\ throttle - throttle' <= STEP_PCT
    BY <2>2, <2>3, <2>4, <2>6, ThrottleMoves
  <2>9. STEP_PCT \in Int
    BY Constants DEF STEP_PCT
  <2>10. torque_cmd' - torque_cmd <= STEP_CMD /\ torque_cmd - torque_cmd' <= STEP_CMD
    BY <2>5, <2>7, <2>8, <2>9, CommandMoves
  <2>11. torque_cmd \in Int /\ torque_cmd' \in Int /\ STEP_CMD \in Int
    BY <2>9 DEF ChainInv, MonitorTypeOK, TORQUE_MIN_CMD, TORQUE_MAX_CMD, STEP_CMD
  <2>12. \A n, m, k \in Int : m - n <= k /\ n - m <= k => m - n \in -k .. k
    OBVIOUS
  <2> QED BY <2>10, <2>11, <2>12, Zenon
<1> QED BY <1>1, ChainInvariant, PTL DEF ChainSpec, TorqueIsSmooth

-------------------------------------------------------------------------------
(* No spurious cut                                                         *)

\* Means further apart than the threshold have samples further apart than it.
LEMMA MeansApart ==
  ASSUME NEW a \in [1 .. HISTORYSIZE -> 0 .. 200], NEW b \in [1 .. HISTORYSIZE -> 0 .. 200],
         mean(a) - mean(b) > APPS_PLAUSIBILITY_THRESH
  PROVE  \E i \in 1 .. HISTORYSIZE : a[i] - b[i] > 20
<1>1. a \in History /\ b \in History /\ mean(a) \in Pedal /\ mean(b) \in Pedal
  BY MeanRange
<1>2. SUFFICES ASSUME \A i \in 1 .. HISTORYSIZE : ~(a[i] - b[i] > 20) PROVE FALSE
  OBVIOUS
<1>3. \A i \in 1 .. HISTORYSIZE : b[i] - a[i] >= -20
  <2>1. \A i \in 1 .. HISTORYSIZE : a[i] \in Int /\ b[i] \in Int
    BY Entries
  <2> QED BY <1>2, <2>1
<1> DEFINE d == -20
<1>4. mean(b) - mean(a) >= HISTORYSIZE * d
  <2>1. d \in Int /\ \A i \in 1 .. HISTORYSIZE : b[i] - a[i] >= d
    BY <1>3
  <2> HIDE DEF d
  <2> QED BY <1>1, <2>1, SumApart
<1> QED BY <1>1, <1>4, Constants DEF APPS_PLAUSIBILITY_THRESH

\* A cut starts only over filters that hold a disagreement, for every length of
\* the filter, period and limit.
THEOREM ChainCutNeedsDisagreement == ChainSpec => CutNeedsDisagreement
<1>1. ChainInv /\ ChainInv' /\ [ChainNext]_chainVars
        => [ (apps_state'.torque_inhibited /\ ~apps_state.torque_inhibited)
               => Suspect' ]_chainVars
  <2> SUFFICES ASSUME ChainInv', ChainNext,
                      apps_state'.torque_inhibited, ~apps_state.torque_inhibited
               PROVE  Suspect'
    OBVIOUS
  <2>1. apps_state' = apps_plausibility_update(apps_state, mean(hist1'), mean(hist2'), PERIOD_MS)
    BY DEF ChainNext, Iterate, Evaluate
  <2>2. implausible(mean(hist1'), mean(hist2'))
    BY <2>1 DEF apps_plausibility_update
  <2>3. /\ hist1' \in [1 .. HISTORYSIZE -> 0 .. 200] /\ hist2' \in [1 .. HISTORYSIZE -> 0 .. 200]
        /\ mean(hist1') \in Pedal /\ mean(hist2') \in Pedal
    BY MeanRange DEF ChainInv, ChainTypeOK
  <2>4. \/ mean(hist1') - mean(hist2') > APPS_PLAUSIBILITY_THRESH
        \/ mean(hist2') - mean(hist1') > APPS_PLAUSIBILITY_THRESH
    <3>1. apps_signal_in_range(mean(hist1')) /\ apps_signal_in_range(mean(hist2'))
      BY <2>3, Constants DEF apps_signal_in_range, APPS_SIGNAL_MIN, APPS_SIGNAL_MAX
    <3> QED BY <2>2, <3>1 DEF implausible
  <2>5. \E i \in 1 .. HISTORYSIZE :
          hist1'[i] - hist2'[i] > 20 \/ hist2'[i] - hist1'[i] > 20
    BY <2>3, <2>4, MeansApart
  <2>6. \A i \in 1 .. HISTORYSIZE : hist1'[i] \in Int /\ hist2'[i] \in Int
    BY <2>3, Entries
  <2> QED BY <2>5, <2>6 DEF Suspect
<1> QED BY <1>1, ChainInvariant, PTL DEF ChainSpec, CutNeedsDisagreement
===============================================================================
