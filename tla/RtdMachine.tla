------------------------------ MODULE RtdMachine ------------------------------
(***************************************************************************)
(* The ready-to-drive state machine of Core/app/rtd_task.c, as the two     *)
(* halves of one iteration: the samples with the first test for a hard     *)
(* fault, and the switch on the state.  What the task reads of the rest of *)
(* the program - hard faults, brake light, elapsed ticks - is a parameter, *)
(* and each use of the module says where it comes from.                    *)
(***************************************************************************)

VARIABLES
  vcu_state,    \* vcu_state_t without its prefix
  tsal,         \* tractive-system-active input as last sampled
  rtd_button,   \* driver-action input as last sampled
  buzzer        \* buzzer output

rtdVars == <<vcu_state, tsal, rtd_button, buzzer>>

VcuState == {"TS_OFF", "TS_ACTIVE", "PRECHARGE", "RTD", "DRIVE", "FAULT"}

RtdInit ==
  /\ vcu_state = "TS_OFF"
  /\ tsal = FALSE
  /\ rtd_button = FALSE
  /\ buzzer = FALSE

\* Mutant: a hard fault forces FAULT only on a car that is under way.
Sample_UnderWay(ts, button, hard) ==
  /\ tsal' = ts
  /\ rtd_button' = button
  /\ IF hard /\ vcu_state \in {"RTD", "DRIVE"}
       THEN buzzer' = FALSE /\ vcu_state' = "FAULT"
       ELSE UNCHANGED <<buzzer, vcu_state>>

\* Sample the inputs; a hard fault silences the buzzer and forces FAULT.
Sample(ts, button, hard) ==
  /\ tsal' = ts
  /\ rtd_button' = button
  /\ IF hard
       THEN buzzer' = FALSE /\ vcu_state' = "FAULT"
       ELSE UNCHANGED <<buzzer, vcu_state>>

-------------------------------------------------------------------------------
(* The cases of the switch                                                 *)

rtd_entry_allowed(ts_active, brake_pressed, button) ==
  ts_active /\ brake_pressed /\ button

lost == ~tsal \/ ~rtd_button

\* Mutant: FAULT is left on the next poll, whatever stands.
FromFault_Unguarded(hard) ==
  /\ vcu_state = "FAULT"
  /\ vcu_state' = "TS_OFF"
  /\ UNCHANGED buzzer

FromFault(hard) ==
  /\ vcu_state = "FAULT"
  /\ vcu_state' = IF hard THEN "FAULT" ELSE "TS_OFF"
  /\ UNCHANGED buzzer

FromTsOff ==
  /\ vcu_state = "TS_OFF"
  /\ vcu_state' = IF tsal THEN "TS_ACTIVE" ELSE "TS_OFF"
  /\ buzzer' = FALSE

FromTsActive(brakelight_on) ==
  /\ vcu_state = "TS_ACTIVE"
  /\ IF rtd_entry_allowed(tsal, brakelight_on, rtd_button)
       THEN vcu_state' = "RTD" /\ buzzer' = TRUE
       ELSE /\ vcu_state' = IF tsal THEN "TS_ACTIVE" ELSE "TS_OFF"
            /\ UNCHANGED buzzer

\* Mutant: leaving RTD early does not silence the buzzer.
FromRtd_BuzzerKept(elapsed) ==
  /\ vcu_state = "RTD"
  /\ vcu_state' = IF lost THEN "TS_OFF" ELSE IF elapsed THEN "DRIVE" ELSE "RTD"
  /\ buzzer' = (buzzer /\ (lost \/ ~elapsed))

\* Mutant: nothing ever ends the buzzer but the inputs.
FromRtd_NoTimer(elapsed) ==
  /\ vcu_state = "RTD"
  /\ vcu_state' = IF lost THEN "TS_OFF" ELSE "RTD"
  /\ buzzer' = (buzzer /\ ~lost)

\* `elapsed' is the comparison of the ticks since buzzer_start.
FromRtd(elapsed) ==
  /\ vcu_state = "RTD"
  /\ vcu_state' = IF lost THEN "TS_OFF" ELSE IF elapsed THEN "DRIVE" ELSE "RTD"
  /\ buzzer' = (buzzer /\ ~lost /\ ~elapsed)

FromDrive ==
  /\ vcu_state \in {"DRIVE", "PRECHARGE"}
  /\ vcu_state' = IF vcu_state = "DRIVE" /\ ~lost THEN "DRIVE" ELSE "TS_OFF"
  /\ UNCHANGED buzzer

Switch(hard, brakelight_on, elapsed) ==
  /\ \/ FromFault(hard)
     \/ FromTsOff
     \/ FromTsActive(brakelight_on)
     \/ FromRtd(elapsed)
     \/ FromDrive
  /\ UNCHANGED <<tsal, rtd_button>>
===============================================================================
