------------------------------ MODULE PedalLogic ------------------------------
(***************************************************************************)
(* The hardware-free decision logic of Core/control/apps.c,                *)
(* Core/control/torque.c and Core/safety/plausibility.c, and the brake     *)
(* scaling of Core/drivers/pressure_sense.c with map.c, as operators.      *)
(*                                                                         *)
(* A float percentage p is the integer p * Scale.  Scale is the resolution *)
(* at which two percentages are told apart; every comparison of the code   *)
(* is against a whole percentage, so any Scale \geq 1 keeps its meaning.   *)
(***************************************************************************)
EXTENDS Integers

CONSTANTS
  Scale,                        \* model units per percentage point
  APPS_IMPLAUSIBILITY_LIMIT_MS, \* 100 in the code
  UINT32_MAX                    \* where implausible_ms saturates

ASSUME PedalAssumption ==
  /\ Scale \in Nat \ {0}
  /\ APPS_IMPLAUSIBILITY_LIMIT_MS \in Nat
  /\ UINT32_MAX \in Nat

-------------------------------------------------------------------------------
(* control/apps.h, safety/plausibility.h and control/torque.h thresholds   *)

APPS_PLAUSIBILITY_THRESH == 10 * Scale
APPS_SIGNAL_MIN          == -5 * Scale
APPS_SIGNAL_MAX          == 105 * Scale
APPS_IDLE                == 5 * Scale

BPPC_BRAKE_THRESH_PCT == 10
BPPC_APPS_HIGH_PCT    == 25
BPPC_APPS_LOW_PCT     == 5

TORQUE_MIN_CMD == 0
TORQUE_MAX_CMD == 160

Clamp(lo, hi, x) == IF x < lo THEN lo ELSE IF x > hi THEN hi ELSE x

-------------------------------------------------------------------------------
(* APPS plausibility: apps_state_t is [implausible_ms, torque_inhibited]   *)

apps_state_init == [implausible_ms |-> 0, torque_inhibited |-> FALSE]

\* Mutant: the travel is rounded where the code truncates it.
throttle_of_Rounded(apps1_pct, apps2_pct) ==
  Clamp(0, 100, (apps1_pct + apps2_pct + Scale) \div (2 * Scale))

\* The mean of the channels, clamped, then truncated to int by safety_task.
throttle_of(apps1_pct, apps2_pct) ==
  Clamp(0, 100, (apps1_pct + apps2_pct) \div (2 * Scale))

apps_signal_in_range(pct) == pct >= APPS_SIGNAL_MIN /\ pct <= APPS_SIGNAL_MAX

\* The channels deviate or one of them is out of its band.
implausible(apps1_pct, apps2_pct) ==
  \/ apps1_pct - apps2_pct > APPS_PLAUSIBILITY_THRESH
  \/ apps2_pct - apps1_pct > APPS_PLAUSIBILITY_THRESH
  \/ ~apps_signal_in_range(apps1_pct)
  \/ ~apps_signal_in_range(apps2_pct)

\* Mutant: the accumulated time survives a plausible sample.
implausible_ms_next_NoReset(ms, bad, dt_ms) ==
  IF ~bad THEN ms
  ELSE IF ms <= UINT32_MAX - dt_ms THEN ms + dt_ms ELSE UINT32_MAX

\* Saturating accumulate, so that a long fault does not wrap the counter;
\* a plausible sample starts over.
implausible_ms_next(ms, bad, dt_ms) ==
  IF ~bad THEN 0
  ELSE IF ms <= UINT32_MAX - dt_ms THEN ms + dt_ms ELSE UINT32_MAX

\* Mutant: agreeing channels are enough to recover, wherever the pedal is.
released_Anywhere(apps1_pct, apps2_pct) == TRUE

\* The recovery gate: the pedal is released on both channels.
released(apps1_pct, apps2_pct) == apps1_pct <= APPS_IDLE /\ apps2_pct <= APPS_IDLE

\* The next apps_state_t; the function's result is ~torque_inhibited of it.
apps_plausibility_update(st, apps1_pct, apps2_pct, dt_ms) ==
  LET bad == implausible(apps1_pct, apps2_pct)
      ms  == implausible_ms_next(st.implausible_ms, bad, dt_ms)
  IN  [implausible_ms   |-> ms,
       torque_inhibited |-> \/ bad /\ ms > APPS_IMPLAUSIBILITY_LIMIT_MS
                            \/ /\ st.torque_inhibited
                               /\ bad \/ ~released(apps1_pct, apps2_pct)]

-------------------------------------------------------------------------------
(* Brake-throttle plausibility latch: bppc_state_t is its one flag         *)

bppc_state_init == [latched |-> FALSE]

\* Mutant: releasing the brake clears the latch.
bppc_update_BrakeReleases(st, brake_pct, throttle_pct) ==
  [latched |-> \/ st.latched /\ throttle_pct >= BPPC_APPS_LOW_PCT /\ brake_pct > 0
               \/ ~st.latched /\ brake_pct > BPPC_BRAKE_THRESH_PCT
                              /\ throttle_pct > BPPC_APPS_HIGH_PCT]

\* The next bppc_state_t; the function's result is ~latched of it.  A latched
\* state clears only when APPS drops below 5 %.
bppc_update(st, brake_pct, throttle_pct) ==
  [latched |-> \/ st.latched /\ throttle_pct >= BPPC_APPS_LOW_PCT
               \/ ~st.latched /\ brake_pct > BPPC_BRAKE_THRESH_PCT
                              /\ throttle_pct > BPPC_APPS_HIGH_PCT]

-------------------------------------------------------------------------------
(* Torque command and brake scaling                                        *)

torque_clamp(requested) == Clamp(TORQUE_MIN_CMD, TORQUE_MAX_CMD, requested)

\* Rounds throttle_pct / 100 * TORQUE_MAX_CMD to the nearest unit, halves up.
torque_from_throttle_pct(throttle_pct) ==
  IF throttle_pct <= 0 THEN TORQUE_MIN_CMD
  ELSE IF throttle_pct >= 100 THEN TORQUE_MAX_CMD
  ELSE torque_clamp((throttle_pct * TORQUE_MAX_CMD + 50) \div 100)

\* BSE_MIN and BSE_MAX of board_config.h; the result is truncated to int by
\* safety_task.  map() rounds by adding half the input range, which makes the
\* value (count - 198) / 4; what it subtracts below BSE_MIN is clamped away.
BSE_MIN == 200
BSE_MAX == 600

pressure_sensor_get_percent(count) ==
  Clamp(0, 100,
        ((count - BSE_MIN) * 100 + (BSE_MAX - BSE_MIN) \div 2)
           \div (BSE_MAX - BSE_MIN))
===============================================================================
