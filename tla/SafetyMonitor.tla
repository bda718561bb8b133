----------------------------- MODULE SafetyMonitor -----------------------------
(***************************************************************************)
(* The safety monitor of Core/app/safety_task.c: one iteration of its      *)
(* 5 ms loop per step, on its own.  It is the highest-priority task and    *)
(* blocks only in its final delay, so no other task sees the middle of an  *)
(* iteration; the module VCU runs the same iteration among the other       *)
(* tasks.  The state is the part of app_data_t the iteration owns.         *)
(*                                                                         *)
(* Pedal is the set of percentages pot_get_percent can return: the mean of *)
(* 50 values it has clamped to 0..100.                                     *)
(***************************************************************************)
EXTENDS PedalLogic, FaultManager

CONSTANTS
  PERIOD_MS,  \* 1000 / SAFETY_FREQ, 5 in the code
  Pedal,      \* pedal percentages tried, in model units
  BseCount    \* raw readings of the brake sensor tried, 12 bits

ASSUME MonitorAssumption ==
  /\ PERIOD_MS \in Nat \ {0}
  /\ PERIOD_MS + APPS_IMPLAUSIBILITY_LIMIT_MS <= UINT32_MAX
  /\ Pedal \subseteq 0 .. 100 * Scale
  /\ BseCount \subseteq 0 .. 4095

VARIABLES
  throttle, brake,   \* derived travel, whole percents
  torque_cmd,        \* the command canbus_task will send
  brakelight,        \* brake-light output
  bse_count,         \* board.bse.count
  apps_state,        \* APPS plausibility and recovery
  bppc_state,        \* brake-throttle latch
  faults,            \* the fault registry
  fw_state           \* shutdown-circuit output, TRUE is closed

pedalVars   == <<throttle, brake, torque_cmd, brakelight, bse_count>>
latchVars   == <<apps_state, bppc_state>>
monitorVars == <<throttle, brake, torque_cmd, brakelight, bse_count,
                 apps_state, bppc_state, faults, fw_state>>

BRAKE_LIGHT_THRESH == 5
BSE_RAW_OPEN_LO    == 50
BSE_RAW_OPEN_HI    == 4000

bse_in_band(count) == count >= BSE_RAW_OPEN_LO /\ count <= BSE_RAW_OPEN_HI

-------------------------------------------------------------------------------

\* app_create before the scheduler starts: zeroed state, open circuit.
MonitorInit ==
  /\ throttle = 0
  /\ brake = 0
  /\ torque_cmd = 0
  /\ brakelight = FALSE
  /\ bse_count = 0
  /\ apps_state = apps_state_init
  /\ bppc_state = bppc_state_init
  /\ faults = fault_init
  /\ fw_state = FALSE

\* The first half of an iteration: the samples and what is derived from them.
Acquire(apps1_pct, apps2_pct, count) ==
  /\ bse_count'  = count
  /\ throttle'   = throttle_of(apps1_pct, apps2_pct)
  /\ brake'      = pressure_sensor_get_percent(count)
  /\ brakelight' = (brake' >= BRAKE_LIGHT_THRESH)
  /\ torque_cmd' = torque_from_throttle_pct(throttle')

\* The registry after the three checks, in the order the code reports them;
\* FAULT_CAN_TIMEOUT is compiled out (CAN_WATCHDOG_ARMED is 0).
reported(m, apps, count, bppc) ==
  fault_report(
    fault_report(
      fault_report(m, "APPS", ~apps.torque_inhibited),
      "BSE", bse_in_band(count)),
    "BPPC", ~bppc.latched)

\* Mutant: the circuit is driven before the checks have reported.
circuit_of_Stale(before, after) == ~fault_is_hard(before)

\* set_fw, on the registry before and after the iteration's reports.
circuit_of(before, after) == ~fault_is_hard(after)

\* The second half: the checks, their reports, and the shutdown circuit.
Evaluate(apps1_pct, apps2_pct) ==
  /\ apps_state' = apps_plausibility_update(apps_state, apps1_pct, apps2_pct,
                                            PERIOD_MS)
  /\ bppc_state' = bppc_update(bppc_state, brake', throttle')
  /\ faults'     = reported(faults, apps_state', bse_count', bppc_state')
  /\ fw_state'   = circuit_of(faults, faults')

\* One iteration of safety_task_fn.
Iterate(apps1_pct, apps2_pct, count) ==
  /\ Acquire(apps1_pct, apps2_pct, count)
  /\ Evaluate(apps1_pct, apps2_pct)

MonitorNext ==
  \E apps1_pct, apps2_pct \in Pedal, count \in BseCount :
    Iterate(apps1_pct, apps2_pct, count)

MonitorSpec == MonitorInit /\ [][MonitorNext]_monitorVars

-------------------------------------------------------------------------------

AppsState == [implausible_ms : 0 .. UINT32_MAX, torque_inhibited : BOOLEAN]
BppcState == [latched : BOOLEAN]

\* The state owned by the monitor has the types of app_data_t, and the
\* command stays in the inverter's range.
MonitorTypeOK ==
  /\ throttle \in 0 .. 100
  /\ brake \in 0 .. 100
  /\ torque_cmd \in TORQUE_MIN_CMD .. TORQUE_MAX_CMD
  /\ brakelight \in BOOLEAN
  /\ bse_count \in 0 .. 4095
  /\ apps_state \in AppsState
  /\ bppc_state \in BppcState
  /\ faults \in SUBSET FaultFlag
  /\ fw_state \in BOOLEAN

\* The flags the checks stand for, from the checks' own state: what the last
\* iteration found, whatever has become of the registry since.
Verdict ==
     (IF apps_state.torque_inhibited THEN {"APPS"} ELSE {})
  \cup (IF bse_in_band(bse_count) THEN {} ELSE {"BSE"})
  \cup (IF bppc_state.latched THEN {"BPPC"} ELSE {})

\* The driver-facing latches: those a released pedal has to clear.
DriverLatches == Verdict \cap {"APPS", "BPPC"}

\* Torque never comes back under a pressed pedal: on the step that ends an
\* inhibition held by one of the two driver latches, the new command is at
\* most the one of an idle pedal (apps.c recovery gate, plausibility.c clear
\* threshold), whatever mix of faults was active and in whichever order they
\* end.
TorqueReturnsFromIdle ==
  [][ (DriverLatches # {} /\ ~fault_torque_inhibited(faults'))
        => torque_cmd' <= torque_from_throttle_pct(5) ]_monitorVars

\* The monitor keeps the promise of the abstract interlock, from the two latches
\* and the last reading alone; the module VCU shows that it still does with the
\* other tasks and the registry between them (safety_task_fn, apps.c,
\* plausibility.c).
Abstract == INSTANCE Interlock WITH
  IDLE          <- 5,
  cuts          <- DriverLatches,
  brakeSensorOk <- bse_in_band(bse_count),
  circuit       <- fw_state,
  pedal         <- throttle

KeepsInterlock == Abstract!Spec
===============================================================================
