------------------------- MODULE SafetyMonitor_proofs -------------------------
(***************************************************************************)
(* Theorems about one iteration of the safety monitor and about its        *)
(* specification.  The lemmas on an iteration are stated on the action, so *)
(* that the proofs about VCU can cite them for the same action.            *)
(***************************************************************************)
EXTENDS SafetyMonitor, TLAPS

\* The derived throttle is a whole percentage.
LEMMA ThrottleRange ==
  ASSUME NEW a1 \in Pedal, NEW a2 \in Pedal
  PROVE  throttle_of(a1, a2) \in 0 .. 100
<1>1. a1 \in Int /\ a2 \in Int /\ 2 * Scale \in Nat \ {0}
  BY PedalAssumption, MonitorAssumption
<1>2. (a1 + a2) \div (2 * Scale) \in Int
  BY <1>1
<1> QED BY <1>2 DEF throttle_of, Clamp

\* The scaled brake reading is a whole percentage.
LEMMA BrakeRange ==
  ASSUME NEW count \in BseCount
  PROVE  pressure_sensor_get_percent(count) \in 0 .. 100
<1>1. count \in Int
  BY MonitorAssumption
<1>2. ((count - BSE_MIN) * 100 + (BSE_MAX - BSE_MIN) \div 2)
         \div (BSE_MAX - BSE_MIN) \in Int
  BY <1>1 DEF BSE_MIN, BSE_MAX
<1> QED BY <1>2 DEF pressure_sensor_get_percent, Clamp

\* The torque command stays in the inverter's range.
LEMMA TorqueRange ==
  ASSUME NEW t \in Int
  PROVE  torque_from_throttle_pct(t) \in TORQUE_MIN_CMD .. TORQUE_MAX_CMD
<1>1. (t * TORQUE_MAX_CMD + 50) \div 100 \in Int
  BY DEF TORQUE_MAX_CMD
<1>2. torque_clamp((t * TORQUE_MAX_CMD + 50) \div 100)
        \in TORQUE_MIN_CMD .. TORQUE_MAX_CMD
  BY <1>1 DEF torque_clamp, Clamp, TORQUE_MIN_CMD, TORQUE_MAX_CMD
<1> QED BY <1>2 DEF torque_from_throttle_pct, TORQUE_MIN_CMD, TORQUE_MAX_CMD

\* The accumulated time stays within its word.
LEMMA ImplausibleMsRange ==
  ASSUME NEW ms \in 0 .. UINT32_MAX, NEW bad \in BOOLEAN
  PROVE  implausible_ms_next(ms, bad, PERIOD_MS) \in 0 .. UINT32_MAX
BY PedalAssumption, MonitorAssumption DEF implausible_ms_next

LEMMA AppsUpdateTyped ==
  ASSUME NEW st \in AppsState, NEW a1 \in Pedal, NEW a2 \in Pedal
  PROVE  apps_plausibility_update(st, a1, a2, PERIOD_MS) \in AppsState
<1>1. implausible(a1, a2) \in BOOLEAN
  BY DEF implausible
<1>2. st.implausible_ms \in 0 .. UINT32_MAX
  BY DEF AppsState
<1> QED BY <1>1, <1>2, ImplausibleMsRange DEF apps_plausibility_update, AppsState

LEMMA BppcUpdateTyped ==
  ASSUME NEW st, NEW b \in Int, NEW t \in Int
  PROVE  bppc_update(st, b, t) \in BppcState
<1>1. bppc_update(st, b, t).latched \in BOOLEAN
  BY DEF bppc_update
<1> QED BY <1>1 DEF bppc_update, BppcState

\* Reports add and remove flags of the registry and nothing else.
LEMMA ReportTyped ==
  ASSUME NEW R, NEW m \in SUBSET R, NEW f \in R, NEW ok \in BOOLEAN
  PROVE  fault_report(m, f, ok) \in SUBSET R
BY DEF fault_report, fault_set, fault_clear

LEMMA ReportedTyped ==
  ASSUME NEW R, {"APPS", "BSE", "BPPC"} \subseteq R, NEW m \in SUBSET R,
         NEW apps \in AppsState, NEW count, NEW bppc \in BppcState
  PROVE  reported(m, apps, count, bppc) \in SUBSET R
BY DEF reported, fault_report, fault_set, fault_clear

-------------------------------------------------------------------------------
(* One iteration                                                           *)

\* An iteration keeps the types, and the registry within any set of flags
\* that has the three the monitor reports.
LEMMA IterateTyped ==
  ASSUME MonitorTypeOK,
         NEW a1 \in Pedal, NEW a2 \in Pedal, NEW count \in BseCount,
         Iterate(a1, a2, count)
  PROVE  MonitorTypeOK'
<1>1. throttle' \in 0 .. 100
  BY ThrottleRange DEF Iterate, Acquire
<1>2. brake' \in 0 .. 100
  BY BrakeRange DEF Iterate, Acquire
<1>3. torque_cmd' \in TORQUE_MIN_CMD .. TORQUE_MAX_CMD
  <2>1. torque_cmd' = torque_from_throttle_pct(throttle') /\ throttle' \in Int
    BY <1>1 DEF Iterate, Acquire
  <2> QED BY <2>1, TorqueRange
<1>4. brakelight' \in BOOLEAN
  BY DEF Iterate, Acquire
<1>5. bse_count' \in 0 .. 4095
  BY MonitorAssumption DEF Iterate, Acquire
<1>6. apps_state' \in AppsState
  BY AppsUpdateTyped DEF Iterate, Evaluate, MonitorTypeOK
<1>7. bppc_state' \in BppcState
  <2>1. bppc_state' = bppc_update(bppc_state, brake', throttle')
    BY DEF Iterate, Evaluate
  <2>2. brake' \in Int /\ throttle' \in Int
    BY <1>1, <1>2
  <2> QED BY <2>1, <2>2, BppcUpdateTyped
<1>8. faults' \in SUBSET FaultFlag
  <2>1. faults' = reported(faults, apps_state', bse_count', bppc_state')
    BY DEF Iterate, Evaluate
  <2>2. {"APPS", "BSE", "BPPC"} \subseteq FaultFlag
    BY DEF FaultFlag
  <2> QED BY <1>6, <1>7, <2>1, <2>2, ReportedTyped DEF MonitorTypeOK
<1>9. fw_state' \in BOOLEAN
  BY DEF Iterate, Evaluate, circuit_of, fault_is_hard
<1> QED
  BY <1>1, <1>2, <1>3, <1>4, <1>5, <1>6, <1>7, <1>8, <1>9 DEF MonitorTypeOK

\* The three reports of an iteration make the torque-inhibiting part of the
\* registry equal to what its checks found, whatever it held before, provided
\* it did not hold FAULT_CAN_TIMEOUT.
LEMMA IterateReports ==
  ASSUME MonitorTypeOK, "CAN_TIMEOUT" \notin faults,
         NEW a1 \in Pedal, NEW a2 \in Pedal, NEW count \in BseCount,
         Iterate(a1, a2, count)
  PROVE  faults' \cap FAULT_TORQUE_INHIBIT_MASK = Verdict'
<1>1. faults' = reported(faults, apps_state', bse_count', bppc_state')
  BY DEF Iterate, Evaluate
<1>2. bse_in_band(bse_count)' = bse_in_band(bse_count')
  BY DEF bse_in_band
<1>3. FAULT_TORQUE_INHIBIT_MASK = {"APPS", "BSE", "CAN_TIMEOUT", "BPPC"}
  BY DEF FAULT_TORQUE_INHIBIT_MASK, FAULT_HARD_MASK
<1>4. \A f \in {"APPS", "BSE", "CAN_TIMEOUT", "BPPC"} :
        f \in faults' <=> f \in Verdict'
  BY <1>1, <1>2
     DEF Verdict, reported, fault_report, fault_set, fault_clear
<1>5. Verdict' \subseteq {"APPS", "BSE", "CAN_TIMEOUT", "BPPC"}
  BY DEF Verdict
<1> QED BY <1>3, <1>4, <1>5

\* So the circuit it drives is what its checks found.
LEMMA IterateCircuit ==
  ASSUME MonitorTypeOK, "CAN_TIMEOUT" \notin faults,
         NEW a1 \in Pedal, NEW a2 \in Pedal, NEW count \in BseCount,
         Iterate(a1, a2, count)
  PROVE  fw_state' = (Verdict' \cap FAULT_HARD_MASK = {})
<1>1. fw_state' = ~fault_is_hard(faults')
  BY DEF Iterate, Evaluate, circuit_of
<1>2. faults' \cap FAULT_HARD_MASK = Verdict' \cap FAULT_HARD_MASK
  BY IterateReports DEF FAULT_TORQUE_INHIBIT_MASK
<1> QED BY <1>1, <1>2 DEF fault_is_hard

\* A pedal released on both channels derives a throttle of at most 5 percent.
LEMMA ReleasedIsIdle ==
  ASSUME NEW a1 \in Pedal, NEW a2 \in Pedal, released(a1, a2)
  PROVE  throttle_of(a1, a2) <= 5
<1>1. Scale \in Nat /\ Scale > 0 /\ a1 \in Int /\ a2 \in Int
  BY PedalAssumption, MonitorAssumption
<1>2. a1 + a2 <= 5 * (2 * Scale)
  BY <1>1 DEF released, APPS_IDLE
<1> DEFINE q == (a1 + a2) \div (2 * Scale)
<1>3. q \in Int /\ q * (2 * Scale) <= a1 + a2
  BY <1>1
<1>4. q <= 5
  <2> HIDE DEF q
  <2>1. SUFFICES ASSUME q >= 6 PROVE FALSE
    BY <1>3
  <2>2. q * (2 * Scale) >= 6 * (2 * Scale)
    BY <1>1, <1>3, <2>1
  <2> QED BY <1>1, <1>2, <1>3, <2>2
<1> QED BY <1>3, <1>4 DEF throttle_of, Clamp

\* At or below 5 percent the command is at most the one of 5 percent.
LEMMA IdleTorque ==
  ASSUME NEW t \in 0 .. 5
  PROVE  torque_from_throttle_pct(t) <= torque_from_throttle_pct(5)
BY DEF torque_from_throttle_pct, torque_clamp, Clamp, TORQUE_MIN_CMD, TORQUE_MAX_CMD

\* A driver latch goes in an iteration only when the throttle is idle.
LEMMA IterateKeepsLatches ==
  ASSUME MonitorTypeOK,
         NEW a1 \in Pedal, NEW a2 \in Pedal, NEW count \in BseCount,
         Iterate(a1, a2, count),
         ~(DriverLatches \subseteq DriverLatches')
  PROVE  throttle' <= 5
<1>1. throttle' = throttle_of(a1, a2) /\ throttle' \in 0 .. 100
  BY ThrottleRange DEF Iterate, Acquire
<1>2. \/ apps_state.torque_inhibited /\ ~apps_state'.torque_inhibited
      \/ bppc_state.latched /\ ~bppc_state'.latched
  BY DEF DriverLatches, Verdict
<1>3. CASE apps_state.torque_inhibited /\ ~apps_state'.torque_inhibited
  <2>1. released(a1, a2)
    BY <1>3 DEF Iterate, Evaluate, apps_plausibility_update
  <2> QED BY <1>1, <2>1, ReleasedIsIdle
<1>4. CASE bppc_state.latched /\ ~bppc_state'.latched
  BY <1>1, <1>4 DEF Iterate, Evaluate, bppc_update, BPPC_APPS_LOW_PCT
<1> QED BY <1>2, <1>3, <1>4

-------------------------------------------------------------------------------
(* The abstract interlock                                                  *)

\* Before the first iteration, and after a restart, nothing is promised yet.
LEMMA BootIsAbstractInit == MonitorInit => Abstract!Init
<1> SUFFICES ASSUME MonitorInit PROVE Abstract!Init
  OBVIOUS
<1>1. DriverLatches = {}
  BY DEF MonitorInit, DriverLatches, Verdict, apps_state_init, bppc_state_init
<1> QED
  BY <1>1 DEF Abstract!Init, MonitorInit, bse_in_band, BSE_RAW_OPEN_LO

\* An iteration is a sample of the abstract interlock, whatever other tasks have
\* made of the registry.
LEMMA IterateIsSample ==
  ASSUME MonitorTypeOK, "CAN_TIMEOUT" \notin faults,
         NEW a1 \in Pedal, NEW a2 \in Pedal, NEW count \in BseCount,
         Iterate(a1, a2, count)
  PROVE  Abstract!Sample
<1>1. throttle' \in 0 .. 100
  BY IterateTyped DEF MonitorTypeOK
<1>2. DriverLatches \subseteq DriverLatches' \/ throttle' <= 5
  BY IterateKeepsLatches
<1>3. DriverLatches' \in SUBSET {"APPS", "BPPC"}
  BY DEF DriverLatches
<1>4. fw_state' = (bse_in_band(bse_count)' /\ "APPS" \notin DriverLatches')
  <2>1. fw_state' = (Verdict' \cap FAULT_HARD_MASK = {})
    BY IterateCircuit
  <2>2. "BSE" \in Verdict' <=> ~bse_in_band(bse_count)'
    BY DEF Verdict
  <2>3. Verdict' \cap FAULT_HARD_MASK = {}
          <=> "BSE" \notin Verdict' /\ "APPS" \notin Verdict'
    BY DEF Verdict, FAULT_HARD_MASK
  <2>4. "APPS" \in DriverLatches' <=> "APPS" \in Verdict'
    BY DEF DriverLatches
  <2> QED BY <2>1, <2>2, <2>3, <2>4
<1>5. bse_in_band(bse_count)' \in BOOLEAN
  BY DEF bse_in_band
<1> QED BY <1>1, <1>2, <1>3, <1>4, <1>5 DEF Abstract!Sample

-------------------------------------------------------------------------------
(* The monitor on its own                                                  *)

\* FAULT_CAN_TIMEOUT is never reported while the watchdog is compiled out.
NoTimeoutFlag == "CAN_TIMEOUT" \notin faults

\* The state app_create leaves is typed.
LEMMA BootTyped == MonitorInit => MonitorTypeOK
<1>1. apps_state_init \in AppsState
  BY PedalAssumption DEF apps_state_init, AppsState
<1>2. bppc_state_init \in BppcState
  BY DEF bppc_state_init, BppcState
<1>3. 0 \in TORQUE_MIN_CMD .. TORQUE_MAX_CMD
  BY DEF TORQUE_MIN_CMD, TORQUE_MAX_CMD
<1>4. SUFFICES ASSUME MonitorInit PROVE MonitorTypeOK
  OBVIOUS
<1>5. brakelight \in BOOLEAN /\ fw_state \in BOOLEAN /\ faults \in SUBSET FaultFlag
  BY <1>4 DEF MonitorInit, fault_init
<1>6. throttle \in 0 .. 100 /\ brake \in 0 .. 100 /\ bse_count \in 0 .. 4095
  BY <1>4 DEF MonitorInit
<1> QED BY <1>1, <1>2, <1>3, <1>4, <1>5, <1>6 DEF MonitorInit, MonitorTypeOK

\* The monitor's specification keeps its types.
THEOREM MonitorTyped == MonitorSpec => [](MonitorTypeOK /\ NoTimeoutFlag)
<1>1. MonitorInit => MonitorTypeOK /\ NoTimeoutFlag
  BY BootTyped DEF NoTimeoutFlag, MonitorInit, fault_init
<1>2. MonitorTypeOK /\ NoTimeoutFlag /\ [MonitorNext]_monitorVars
        => (MonitorTypeOK /\ NoTimeoutFlag)'
  <2> SUFFICES ASSUME MonitorTypeOK, NoTimeoutFlag, [MonitorNext]_monitorVars
               PROVE  (MonitorTypeOK /\ NoTimeoutFlag)'
    OBVIOUS
  <2>1. CASE MonitorNext
    <3>1. PICK a1, a2 \in Pedal, count \in BseCount : Iterate(a1, a2, count)
      BY <2>1 DEF MonitorNext
    <3>2. MonitorTypeOK'
      BY <3>1, IterateTyped
    <3>3. NoTimeoutFlag'
      BY <3>1 DEF NoTimeoutFlag, Iterate, Evaluate, reported, fault_report,
                  fault_set, fault_clear
    <3> QED BY <3>2, <3>3
  <2>2. CASE UNCHANGED monitorVars
    BY <2>2 DEF monitorVars, MonitorTypeOK, NoTimeoutFlag
  <2> QED BY <2>1, <2>2
<1> QED BY <1>1, <1>2, PTL DEF MonitorSpec

\* An accelerator cut is in the registry and has opened the circuit by the end
\* of the iteration that found it.
CutIsReported == apps_state.torque_inhibited => "APPS" \in faults /\ ~fw_state

THEOREM MonitorReportsCut == MonitorSpec => []CutIsReported
<1>1. MonitorInit => CutIsReported
  BY DEF MonitorInit, CutIsReported, apps_state_init
<1>2. MonitorTypeOK /\ NoTimeoutFlag /\ CutIsReported /\ [MonitorNext]_monitorVars
        => CutIsReported'
  <2> SUFFICES ASSUME MonitorTypeOK, NoTimeoutFlag, CutIsReported,
                      [MonitorNext]_monitorVars
               PROVE  CutIsReported'
    OBVIOUS
  <2>1. CASE MonitorNext
    <3>1. PICK a1, a2 \in Pedal, count \in BseCount : Iterate(a1, a2, count)
      BY <2>1 DEF MonitorNext
    <3>2. faults' \cap FAULT_TORQUE_INHIBIT_MASK = Verdict'
      BY <3>1, IterateReports DEF NoTimeoutFlag
    <3>3. fw_state' = (Verdict' \cap FAULT_HARD_MASK = {})
      BY <3>1, IterateCircuit DEF NoTimeoutFlag
    <3>4. apps_state'.torque_inhibited => "APPS" \in Verdict'
      BY DEF Verdict
    <3> QED BY <3>2, <3>3, <3>4 DEF CutIsReported, FAULT_HARD_MASK
  <2>2. CASE UNCHANGED monitorVars
    BY <2>2 DEF monitorVars, CutIsReported
  <2> QED BY <2>1, <2>2
<1> QED BY <1>1, <1>2, MonitorTyped, PTL DEF MonitorSpec

\* For every resolution, pedal set and limit: torque comes back after a driver
\* cut only with a released pedal (run `timeline').
THEOREM MonitorTorqueReturnsFromIdle == MonitorSpec => TorqueReturnsFromIdle
<1>1. MonitorTypeOK /\ NoTimeoutFlag /\ [MonitorNext]_monitorVars
        => [ (DriverLatches # {} /\ ~fault_torque_inhibited(faults'))
               => torque_cmd' <= torque_from_throttle_pct(5) ]_monitorVars
  <2> SUFFICES ASSUME MonitorTypeOK, NoTimeoutFlag, MonitorNext,
                      DriverLatches # {}, ~fault_torque_inhibited(faults')
               PROVE  torque_cmd' <= torque_from_throttle_pct(5)
    OBVIOUS
  <2>1. PICK a1, a2 \in Pedal, count \in BseCount : Iterate(a1, a2, count)
    BY DEF MonitorNext
  <2>2. Verdict' = {}
    BY <2>1, IterateReports DEF NoTimeoutFlag, fault_torque_inhibited
  <2>3. ~(DriverLatches \subseteq DriverLatches')
    BY <2>2 DEF DriverLatches
  <2>4. throttle' <= 5
    BY <2>1, <2>3, IterateKeepsLatches
  <2>5. throttle' \in 0 .. 5 /\ torque_cmd' = torque_from_throttle_pct(throttle')
    BY <2>1, <2>4, IterateTyped DEF MonitorTypeOK, Iterate, Acquire
  <2> QED BY <2>5, IdleTorque
<1> QED BY <1>1, MonitorTyped, PTL DEF MonitorSpec, TorqueReturnsFromIdle

\* The monitor on its own implements the abstract interlock: every iteration is
\* one of its samples.
THEOREM MonitorImplementsInterlock == MonitorSpec => KeepsInterlock
<1>1. MonitorTypeOK /\ NoTimeoutFlag /\ [MonitorNext]_monitorVars
        => [Abstract!Next]_(Abstract!vars)
  <2> SUFFICES ASSUME MonitorTypeOK, NoTimeoutFlag, [MonitorNext]_monitorVars
               PROVE  Abstract!Next \/ UNCHANGED Abstract!vars
    OBVIOUS
  <2>1. CASE MonitorNext
    <3>1. PICK a1, a2 \in Pedal, count \in BseCount : Iterate(a1, a2, count)
      BY <2>1 DEF MonitorNext
    <3> QED BY <3>1, IterateIsSample DEF NoTimeoutFlag, Abstract!Next
  <2>2. CASE UNCHANGED monitorVars
    BY <2>2 DEF monitorVars, Abstract!vars, DriverLatches, Verdict, bse_in_band
  <2> QED BY <2>1, <2>2
<1> QED
  BY <1>1, BootIsAbstractInit, MonitorTyped, PTL
     DEF MonitorSpec, KeepsInterlock, Abstract!Spec
===============================================================================
