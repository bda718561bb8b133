---------------------------------- MODULE VCU ----------------------------------
(***************************************************************************)
(* The five tasks of Core/app on one Cortex-M3 core under FreeRTOS'        *)
(* preemptive fixed-priority scheduler, and the independent watchdog.      *)
(*                                                                         *)
(* A step of a task is the longest stretch of its code that no other task  *)
(* can observe the middle of.  The shared state is the fault registry,     *)
(* whose updates in fault.c are a load and a store with the arithmetic in  *)
(* between (LDR / ORR or BIC / STR), the torque command and the            *)
(* notification of canbus_task.  Time is abstracted: a delay ends at any   *)
(* moment, and the 3 s of the buzzer have elapsed or not.  The module      *)
(* RtdSequence keeps time.                                                 *)
(***************************************************************************)
EXTENDS SafetyMonitor, RtdMachine

CONSTANT Tasks   \* the tasks present besides the safety monitor

ASSUME TasksAssumption == Tasks \subseteq {"RTD", "CLI", "CAN", "DASH"}

VARIABLES
  pc,           \* where each task is
  reg,          \* the new registry value each task holds between load and store
  notified,     \* canbus_task's notification value has the CANBUS_APPS bit
  can_torque,   \* local variable torque of canbus_task
  can_status,   \* local variable can_status of canbus_task, TRUE is HAL_OK
  clobber       \* history: who last changed the inhibit flags behind the
                \* monitor's back ("BOOT" before its first iteration)

canVars == <<notified, can_torque, can_status>>
vars    == <<monitorVars, pc, reg, canVars, rtdVars, clobber>>

AllTasks == Tasks \cup {"SAFETY"}

\* SAFETY_PRIO .. DASH_PRIO of app.h.
prio == [SAFETY |-> 24, RTD |-> 16, CLI |-> 15, CAN |-> 14, DASH |-> 4]

\* The first step of each task's loop.
start == [SAFETY |-> "iterate", RTD |-> "sample", CLI |-> "load",
          CAN |-> "wait", DASH |-> "load"]

-------------------------------------------------------------------------------
(* Scheduling                                                              *)

\* Mutant: canbus_task waits for a bit nobody sets.
ready_WrongBit(t) == pc[t] # "delay" /\ ~(t = "CAN" /\ pc[t] = "wait")

\* A task is ready unless it is in a delay or waits for a notification that
\* has not come.  A monitor whose ADC conversion never ends still occupies
\* the core: HAL_ADC_PollForConversion spins.
ready(t) ==
  /\ pc[t] # "delay"
  /\ t = "CAN" /\ pc[t] = "wait" => notified

\* Mutant: the priorities of dashboard_task and canbus_task are swapped.
running_DashOverCan(t) ==
  LET p == [prio EXCEPT !["CAN"] = 4, !["DASH"] = 14]
  IN  /\ t \in AllTasks
      /\ ready(t)
      /\ \A u \in AllTasks : ready(u) => p[u] <= p[t]

\* The scheduler runs the ready task of the highest priority.
running(t) ==
  /\ t \in AllTasks
  /\ ready(t)
  /\ \A u \in AllTasks : ready(u) => prio[u] <= prio[t]

at(t, label) == running(t) /\ pc[t] = label
goto(t, label) == pc' = [pc EXCEPT ![t] = label]

\* The tick interrupt ends a delay.
Wake(t) ==
  /\ pc[t] = "delay"
  /\ goto(t, start[t])
  /\ UNCHANGED <<monitorVars, reg, canVars, rtdVars, clobber>>

-------------------------------------------------------------------------------
(* The registry, as the tasks below the monitor update it                  *)

\* Load the registry and compute its new value.
Load(t, value) ==
  /\ reg' = [reg EXCEPT ![t] = value]
  /\ goto(t, "store")

inhibits(m) == m \cap FAULT_TORQUE_INHIBIT_MASK

\* Store that value, whatever the registry holds by now.
Store(t, next) ==
  /\ at(t, "store")
  /\ faults' = reg[t]
  /\ reg' = [reg EXCEPT ![t] = fault_init]
  /\ clobber' = IF inhibits(reg[t]) = inhibits(faults) THEN clobber ELSE t
  /\ goto(t, next)
  /\ UNCHANGED <<pedalVars, latchVars, fw_state, canVars, rtdVars>>

-------------------------------------------------------------------------------
(* safety_task                                                             *)

\* One iteration, the notification of canbus_task included.
SafetyIterate ==
  /\ at("SAFETY", "iterate")
  /\ \E apps1_pct, apps2_pct \in Pedal, count \in BseCount :
       Iterate(apps1_pct, apps2_pct, count)
  /\ notified' = TRUE
  /\ clobber' = "NONE"
  /\ goto("SAFETY", "delay")
  /\ UNCHANGED <<reg, can_torque, can_status, rtdVars>>

\* A conversion that never completes: stm32f103_adc_read polls for ever,
\* before anything of the iteration is visible to the other tasks.
AdcHang ==
  /\ at("SAFETY", "iterate")
  /\ goto("SAFETY", "hung")
  /\ UNCHANGED <<monitorVars, reg, canVars, rtdVars, clobber>>

-------------------------------------------------------------------------------
(* rtd_task                                                                *)

\* The samples and the first read of the registry.
RtdSample ==
  /\ at("RTD", "sample")
  /\ \E ts, button \in BOOLEAN : Sample(ts, button, fault_is_hard(faults))
  /\ goto("RTD", "switch")
  /\ UNCHANGED <<monitorVars, reg, canVars, clobber>>

\* The switch, on the registry and the brake light of this moment.
RtdSwitch ==
  /\ at("RTD", "switch")
  /\ \E elapsed \in BOOLEAN : Switch(fault_is_hard(faults), brakelight, elapsed)
  /\ goto("RTD", "delay")
  /\ UNCHANGED <<monitorVars, reg, canVars, clobber>>

-------------------------------------------------------------------------------
(* canbus_task                                                             *)

\* xTaskNotifyWait returns and clears every bit.
CanWait ==
  /\ at("CAN", "wait")
  /\ notified' = FALSE
  /\ goto("CAN", "gate")
  /\ UNCHANGED <<monitorVars, reg, can_torque, can_status, rtdVars, clobber>>

\* The test of the fault gate.
CanGate ==
  /\ at("CAN", "gate")
  /\ goto("CAN", IF fault_torque_inhibited(faults) THEN "send" ELSE "fetch")
  /\ UNCHANGED <<monitorVars, reg, canVars, rtdVars, clobber>>

\* The load of data->torque_cmd, when the gate was open.
CanFetch ==
  /\ at("CAN", "fetch")
  /\ can_torque' = torque_cmd
  /\ goto("CAN", "send")
  /\ UNCHANGED <<monitorVars, reg, notified, can_status, rtdVars, clobber>>

\* HAL_CAN_AddTxMessage takes the frame or has no free mailbox.  The local
\* torque is dead from here on; it is 0 again for the next gate.
CanSend(ok) ==
  /\ at("CAN", "send")
  /\ can_status' = ok
  /\ can_torque' = 0
  /\ goto("CAN", "load")
  /\ UNCHANGED <<monitorVars, reg, notified, rtdVars, clobber>>

\* fault_set or fault_clear of FAULT_CANBUS_TX; can_status is dead after it.
CanLoad ==
  /\ at("CAN", "load")
  /\ Load("CAN", fault_report(faults, "CANBUS_TX", can_status))
  /\ can_status' = TRUE
  /\ UNCHANGED <<monitorVars, notified, can_torque, rtdVars, clobber>>

-------------------------------------------------------------------------------
(* cli_task and dashboard_task                                             *)

CliLoad ==
  /\ at("CLI", "load")
  /\ Load("CLI", fault_clear(faults, "CLI"))
  /\ UNCHANGED <<monitorVars, canVars, rtdVars, clobber>>

\* The telemetry lines have gone out over the UART, or one has failed.
DashLoad(ok) ==
  /\ at("DASH", "load")
  /\ Load("DASH", fault_report(faults, "DASHBOARD", ok))
  /\ UNCHANGED <<monitorVars, canVars, rtdVars, clobber>>

-------------------------------------------------------------------------------
(* Power-up and the independent watchdog                                   *)

\* app_create; the scheduler is about to start with every task ready.
Init ==
  /\ MonitorInit
  /\ pc = [t \in AllTasks |-> start[t]]
  /\ reg = [t \in AllTasks |-> fault_init]
  /\ notified = FALSE
  /\ can_torque = 0
  /\ can_status = TRUE
  /\ RtdInit
  /\ clobber = "BOOT"

\* The watchdog is fed only at the end of an iteration of the monitor; a hung
\* monitor lets it expire (in time: IndependentWatchdog) and the controller boots
\* again, with every output low.
IwdgReset ==
  /\ pc["SAFETY"] = "hung"
  /\ throttle' = 0
  /\ brake' = 0
  /\ torque_cmd' = 0
  /\ brakelight' = FALSE
  /\ bse_count' = 0
  /\ apps_state' = apps_state_init
  /\ bppc_state' = bppc_state_init
  /\ faults' = fault_init
  /\ fw_state' = FALSE
  /\ pc' = [t \in AllTasks |-> start[t]]
  /\ reg' = [t \in AllTasks |-> fault_init]
  /\ notified' = FALSE
  /\ can_torque' = 0
  /\ can_status' = TRUE
  /\ vcu_state' = "TS_OFF"
  /\ tsal' = FALSE
  /\ rtd_button' = FALSE
  /\ buzzer' = FALSE
  /\ clobber' = "BOOT"

RtdStep  == RtdSample \/ RtdSwitch
CanStep  == \/ CanWait \/ CanGate \/ CanFetch \/ CanLoad \/ Store("CAN", "wait")
            \/ \E ok \in BOOLEAN : CanSend(ok)
CliStep  == CliLoad \/ Store("CLI", "delay")
DashStep == Store("DASH", "delay") \/ \E ok \in BOOLEAN : DashLoad(ok)

Next ==
  \/ SafetyIterate \/ AdcHang \/ IwdgReset
  \/ \E t \in AllTasks : Wake(t)
  \/ RtdStep \/ CanStep \/ CliStep \/ DashStep

Spec == Init /\ [][Next]_vars

\* Delays end, the core runs what is ready and an unfed watchdog expires.
\* Strong fairness for the tasks below the monitor: they are preempted again
\* and again, but every task above them sleeps most of its period.
Fairness ==
  /\ \A t \in AllTasks : WF_vars(Wake(t))
  /\ WF_vars(SafetyIterate)
  /\ WF_vars(IwdgReset)
  /\ SF_vars(RtdStep)
  /\ SF_vars(CliStep)
  /\ SF_vars(CanStep)
  /\ SF_vars(DashStep)

FairSpec == Spec /\ Fairness

-------------------------------------------------------------------------------

\* What a value in the registry, or on its way there, can hold: nothing sets
\* FAULT_CAN_TIMEOUT while the watchdog is compiled out.
Reportable == FaultFlag \ {"CAN_TIMEOUT"}

labels == [SAFETY |-> {"iterate", "hung", "delay"},
           RTD    |-> {"sample", "switch", "delay"},
           CLI    |-> {"load", "store", "delay"},
           CAN    |-> {"wait", "gate", "fetch", "send", "load", "store"},
           DASH   |-> {"load", "store", "delay"}]

Label == UNION {labels[t] : t \in DOMAIN labels}

PcOK == pc \in [AllTasks -> Label] /\ \A t \in AllTasks : pc[t] \in labels[t]

\* Types of the scheduler, of the tasks' locals and of the state machine; the
\* registry and the values on their way to it hold only what is reported.
TypeOK ==
  /\ MonitorTypeOK
  /\ faults \subseteq Reportable
  /\ PcOK
  /\ reg \in [AllTasks -> SUBSET Reportable]
  /\ notified \in BOOLEAN
  /\ can_torque \in TORQUE_MIN_CMD .. TORQUE_MAX_CMD
  /\ can_status \in BOOLEAN
  /\ vcu_state \in VcuState
  /\ tsal \in BOOLEAN
  /\ rtd_button \in BOOLEAN
  /\ buzzer \in BOOLEAN
  /\ clobber \in {"BOOT", "NONE", "CLI", "CAN", "DASH"}

CanAt(label) == "CAN" \in Tasks /\ pc["CAN"] = label

\* The circuit output is what the last iteration found, however many updates
\* of the registry were lost around it, and it is open from power-up or reset
\* to the first iteration: the monitor reports before it drives set_fw, and it
\* is the only one that drives it (safety_task.c, app.c).
CircuitFollowsVerdict ==
  fw_state <=> (clobber # "BOOT" /\ Verdict \cap FAULT_HARD_MASK = {})

\* When canbus_task tests the gate, the registry inhibits torque exactly when
\* the last iteration found a reason to, unless cli_task or canbus_task itself
\* has overwritten it since.  dashboard_task, whose lost updates hit the same
\* word, never gets in between: by the time canbus_task is notified the
\* monitor has reported again (app.h priorities, canbus_task.c).
GateSeesVerdictButForCliAndCan ==
  (CanAt("gate") /\ clobber \notin {"CLI", "CAN"})
    => (fault_torque_inhibited(faults) <=> Verdict # {})

\* The buzzer sounds exactly while the state machine is in RTD, whichever of
\* fault, lost inputs, elapsed time or reset ends it (rtd_task.c).
BuzzerExactlyInRtd == buzzer <=> vcu_state = "RTD"

\* The state machine leaves FAULT with a hard fault still standing only after
\* an update of the registry was lost (rtd_task.c reads it twice, between
\* iterations of the monitor).
FaultStateHolds ==
  [][ (vcu_state = "FAULT" /\ vcu_state' = "TS_OFF" /\ clobber = "NONE")
        => (pc["SAFETY"] = "hung" \/ Verdict \cap FAULT_HARD_MASK = {}) ]_vars

\* Torque frames never stop: unless the monitor hangs again and again,
\* canbus_task reaches its send again and again (safety_task.c notifies every
\* iteration, canbus_task.c waits with no timeout).
FramesKeepFlowing ==
  []<>(pc["SAFETY"] = "hung") \/ []<>CanAt("send")

standingHardFault ==
  /\ Verdict \cap FAULT_HARD_MASK # {}
  /\ pc["SAFETY"] # "hung"
  /\ clobber = "NONE"

\* A hard fault that comes to stand is shown by the state machine for good,
\* however the monitor preempts its two reads of the registry: only a fault that
\* goes again between two polls can pass it by (rtd_task.c, its poll after the
\* sample and the FAULT case).
StandingFaultShows == <>[]standingHardFault => <>[](vcu_state = "FAULT")

-------------------------------------------------------------------------------
(* The inductive invariant behind the properties of the registry           *)

\* Before its first iteration the monitor is ready, or hangs, and by its
\* priority keeps every other task from running.
BootInv ==
  clobber = "BOOT" =>
    /\ pc["SAFETY"] \in {"iterate", "hung"}
    /\ "CAN" \in Tasks => pc["CAN"] = "wait"
    /\ ~fw_state

\* From then on the circuit is what the last iteration found.
CircuitInv ==
  clobber # "BOOT" => fw_state = (Verdict \cap FAULT_HARD_MASK = {})

\* So is the inhibiting part of the registry while nobody has clobbered it.
NoneInv == clobber = "NONE" => inhibits(faults) = Verdict

\* After dashboard_task has, canbus_task needs another notification to move,
\* and the iteration that sends it reports anew.
DashInv ==
  (clobber = "DASH" /\ "CAN" \in Tasks) => (pc["CAN"] = "wait" /\ ~notified)

RegistryInv == BootInv /\ CircuitInv /\ NoneInv /\ DashInv

-------------------------------------------------------------------------------
(* What the documentation says and the code does not do                    *)

\* state_machine.h: TS_ACTIVE is "not yet driving" and torque is enabled from
\* RTD on.  The send path never looks at vcu_state.
NoTorqueBeforeRtd ==
  (CanAt("send") /\ can_torque > 0) => vcu_state \notin {"TS_OFF", "TS_ACTIVE"}

\* docs/faults.md: the inhibit mask "forces transmitted torque to 0 (enforced
\* at the CAN send boundary in canbus_task)".  The monitor can preempt
\* canbus_task between its test of the gate and its send.
NoTorqueSentUnderVerdict ==
  (CanAt("send") /\ can_torque > 0) => Verdict = {}

\* docs/faults.md: "Faults latch; recoverable ones are cleared explicitly when
\* their recovery conditions are met".  A store of another task's flag can
\* take an inhibiting flag away while its condition stands.
GateSeesVerdict ==
  (CanAt("gate") /\ Verdict # {}) => fault_torque_inhibited(faults)
===============================================================================
