----------------------------- MODULE FaultManager -----------------------------
(***************************************************************************)
(* The fault registry of Core/safety/fault.h and fault.c, without the CAN  *)
(* command watchdog that shares those files.  A registry (fault_mgr_t) is  *)
(* the set of the flags whose bit is 1 in its word `latched'.  The         *)
(* operators are the values the C functions compute; the load and the      *)
(* store around that value are separate steps in the module VCU.           *)
(***************************************************************************)

\* fault_flag_t, one member per bit.
FaultFlag ==
  {"APPS", "BSE", "CAN_TIMEOUT", "BPPC", "CLI", "CANBUS_TX", "DASHBOARD"}

\* Hard faults open the shutdown circuit.
FAULT_HARD_MASK == {"APPS", "BSE", "CAN_TIMEOUT"}

\* Anything in this mask forces zero torque.
FAULT_TORQUE_INHIBIT_MASK == FAULT_HARD_MASK \cup {"BPPC"}

fault_init == {}

fault_set(m, f) == m \cup {f}

fault_clear(m, f) == m \ {f}

fault_torque_inhibited(m) == m \cap FAULT_TORQUE_INHIBIT_MASK # {}

fault_is_hard(m) == m \cap FAULT_HARD_MASK # {}

\* The pattern every reporter in app/ follows: clear the flag when the check
\* passes, set it when it does not.
fault_report(m, f, ok) == IF ok THEN fault_clear(m, f) ELSE fault_set(m, f)
===============================================================================
