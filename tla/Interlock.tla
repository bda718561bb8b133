------------------------------- MODULE Interlock -------------------------------
(***************************************************************************)
(* What the safety path promises to the driver and to the shutdown         *)
(* circuit, with no tasks, registry or timing: a driver cut ends only      *)
(* under a released pedal or with a restart of the controller, and the     *)
(* circuit is closed exactly while neither the accelerator cut nor a bad   *)
(* brake sensor stands.  SafetyMonitor and VCU implement it.               *)
(***************************************************************************)
EXTENDS Integers

CONSTANT IDLE   \* travel, in percent, at or below which a pedal is released

VARIABLES
  cuts,           \* which of the two driver cuts stand
  brakeSensorOk,  \* the last brake reading was in its band
  circuit,        \* shutdown circuit, TRUE is closed
  pedal           \* accelerator travel of the last sample

vars == <<cuts, brakeSensorOk, circuit, pedal>>

Init ==
  /\ cuts = {}
  /\ brakeSensorOk = FALSE
  /\ circuit = FALSE
  /\ pedal = 0

\* A sample of the pedals may start any cut but end one only when released.
Sample ==
  /\ pedal' \in 0 .. 100
  /\ brakeSensorOk' \in BOOLEAN
  /\ cuts' \in SUBSET {"APPS", "BPPC"}
  /\ cuts \subseteq cuts' \/ pedal' <= IDLE
  /\ circuit' = (brakeSensorOk' /\ "APPS" \notin cuts')

\* A restart of the controller: the cuts are forgotten, the circuit opens.
Restart ==
  /\ cuts' = {}
  /\ brakeSensorOk' = FALSE
  /\ circuit' = FALSE
  /\ pedal' = 0

Next == Sample \/ Restart

Spec == Init /\ [][Next]_vars
===============================================================================
