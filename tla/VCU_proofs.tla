------------------------------ MODULE VCU_proofs ------------------------------
(***************************************************************************)
(* Theorems about the tasks together, for every set of tasks, of pedal     *)
(* positions and of brake readings.                                        *)
(***************************************************************************)
EXTENDS VCU, SafetyMonitor_proofs

-------------------------------------------------------------------------------
(* Scheduling facts                                                        *)

LEMMA TaskNames == AllTasks \subseteq {"SAFETY", "RTD", "CLI", "CAN", "DASH"}
BY TasksAssumption DEF AllTasks

\* A task moves to one of its own labels.
LEMMA GotoTyped ==
  ASSUME PcOK, NEW t \in AllTasks, NEW label \in labels[t], goto(t, label)
  PROVE  PcOK'
<1>1. label \in Label
  BY TaskNames DEF Label, labels
<1>2. pc' \in [AllTasks -> Label]
  BY <1>1 DEF PcOK, goto
<1>3. ASSUME NEW u \in AllTasks PROVE pc'[u] \in labels[u]
  BY DEF PcOK, goto
<1> QED BY <1>2, <1>3 DEF PcOK

\* The start label of a task is one of its labels.
LEMMA StartTyped == \A t \in AllTasks : start[t] \in labels[t]
BY TaskNames DEF start, labels

\* No task runs while the monitor is at its iteration or hangs in it.
LEMMA MonitorPreempts ==
  ASSUME NEW t \in {"RTD", "CLI", "CAN", "DASH"}, running(t)
  PROVE  pc["SAFETY"] \notin {"iterate", "hung"}
<1>1. SUFFICES ASSUME pc["SAFETY"] \in {"iterate", "hung"} PROVE FALSE
  OBVIOUS
<1>2. "SAFETY" \in AllTasks /\ ready("SAFETY")
  BY <1>1 DEF AllTasks, ready
<1>3. prio["SAFETY"] <= prio[t]
  BY <1>2 DEF running
<1> QED BY <1>3 DEF prio

\* dashboard_task runs only while canbus_task waits unnotified.
LEMMA CanPreemptsDash ==
  ASSUME PcOK, running("DASH"), "CAN" \in Tasks
  PROVE  pc["CAN"] = "wait" /\ ~notified
<1>1. "CAN" \in AllTasks /\ pc["CAN"] \in labels["CAN"]
  BY DEF AllTasks, PcOK
<1>2. ~ready("CAN")
  <2>1. SUFFICES ASSUME ready("CAN") PROVE FALSE
    OBVIOUS
  <2>2. prio["CAN"] <= prio["DASH"]
    BY <1>1, <2>1 DEF running
  <2> QED BY <2>2 DEF prio
<1> QED BY <1>1, <1>2 DEF ready, labels

-------------------------------------------------------------------------------
(* Types                                                                   *)

\* The parts of TypeOK that most actions leave alone.
OthersOK ==
  /\ notified \in BOOLEAN
  /\ can_torque \in TORQUE_MIN_CMD .. TORQUE_MAX_CMD
  /\ can_status \in BOOLEAN
  /\ vcu_state \in VcuState
  /\ tsal \in BOOLEAN
  /\ rtd_button \in BOOLEAN
  /\ buzzer \in BOOLEAN
  /\ clobber \in {"BOOT", "NONE", "CLI", "CAN", "DASH"}

LEMMA InitTyped == Init => TypeOK
<1> SUFFICES ASSUME Init PROVE TypeOK
  OBVIOUS
<1>1. MonitorTypeOK
  BY BootTyped DEF Init
<1>2. faults \subseteq Reportable
  BY DEF Init, MonitorInit, fault_init
<1>3. PcOK
  <2>1. \A t \in AllTasks : start[t] \in labels[t] /\ start[t] \in Label
    BY TaskNames DEF start, labels, Label
  <2> QED BY <2>1 DEF Init, PcOK
<1>4. reg \in [AllTasks -> SUBSET Reportable]
  BY DEF Init, fault_init
<1>5. OthersOK
  <2>1. /\ notified \in BOOLEAN /\ can_status \in BOOLEAN /\ tsal \in BOOLEAN
        /\ rtd_button \in BOOLEAN /\ buzzer \in BOOLEAN
    BY Zenon DEF Init, RtdInit
  <2>2. can_torque \in TORQUE_MIN_CMD .. TORQUE_MAX_CMD
    BY DEF Init, TORQUE_MIN_CMD, TORQUE_MAX_CMD
  <2>3. vcu_state \in VcuState /\ clobber \in {"BOOT", "NONE", "CLI", "CAN", "DASH"}
    BY DEF Init, RtdInit, VcuState
  <2> QED BY <2>1, <2>2, <2>3 DEF OthersOK
<1> QED BY <1>1, <1>2, <1>3, <1>4, <1>5 DEF TypeOK, OthersOK

\* The watchdog reset leads back to a state of power-up.
LEMMA ResetIsInit == IwdgReset => Init'
<1> SUFFICES ASSUME IwdgReset PROVE Init'
  OBVIOUS
<1>1. MonitorInit'
  BY Zenon DEF IwdgReset, MonitorInit
<1>2. AllTasks' = AllTasks
  BY DEF AllTasks
<1> QED BY <1>1, <1>2, Zenon DEF IwdgReset, Init, RtdInit

\* A load keeps the values on their way to the registry reportable.
LEMMA LoadTyped ==
  ASSUME TypeOK, NEW t \in AllTasks \cap {"CLI", "CAN", "DASH"},
         NEW f \in Reportable, NEW ok \in BOOLEAN,
         Load(t, fault_report(faults, f, ok))
  PROVE  PcOK' /\ reg' \in [AllTasks -> SUBSET Reportable]
<1>1. "store" \in labels[t]
  BY DEF labels
<1>2. fault_report(faults, f, ok) \in SUBSET Reportable
  BY ReportTyped DEF TypeOK
<1> QED BY <1>1, <1>2, GotoTyped DEF Load, TypeOK

\* A store writes such a value.
LEMMA StoreTyped ==
  ASSUME TypeOK, NEW t \in {"CLI", "CAN", "DASH"}, NEW next \in labels[t],
         Store(t, next)
  PROVE  TypeOK'
<1>1. t \in AllTasks /\ reg[t] \in SUBSET Reportable
  BY DEF Store, at, running, TypeOK
<1>2. PcOK'
  BY <1>1, GotoTyped DEF Store, TypeOK
<1>3. faults' \subseteq Reportable /\ reg' \in [AllTasks -> SUBSET Reportable]
  BY <1>1 DEF Store, TypeOK, fault_init
<1>4. MonitorTypeOK'
  <2>1. faults' \in SUBSET FaultFlag
    BY <1>3 DEF Reportable
  <2> QED BY <2>1 DEF Store, TypeOK, MonitorTypeOK, pedalVars, latchVars
<1>5. OthersOK'
  BY DEF Store, TypeOK, OthersOK, canVars, rtdVars
<1> QED BY <1>2, <1>3, <1>4, <1>5 DEF TypeOK, OthersOK

\* Every step keeps the types; one case per action.
LEMMA StepTyped == TypeOK /\ [Next]_vars => TypeOK'
<1> SUFFICES ASSUME TypeOK, [Next]_vars PROVE TypeOK'
  OBVIOUS
<1>1. CASE SafetyIterate
  <2>1. PICK a1, a2 \in Pedal, count \in BseCount : Iterate(a1, a2, count)
    BY <1>1 DEF SafetyIterate
  <2>2. MonitorTypeOK'
    BY <2>1, IterateTyped DEF TypeOK
  <2>3. faults' \subseteq Reportable
    <3>1. faults' = reported(faults, apps_state', bse_count', bppc_state')
      BY <2>1 DEF Iterate, Evaluate
    <3>2. apps_state' \in AppsState /\ bppc_state' \in BppcState
      BY <2>2 DEF MonitorTypeOK
    <3>3. {"APPS", "BSE", "BPPC"} \subseteq Reportable
      BY DEF Reportable, FaultFlag
    <3> QED BY <3>1, <3>2, <3>3, ReportedTyped DEF TypeOK
  <2>4. PcOK'
    BY <1>1, GotoTyped DEF SafetyIterate, TypeOK, AllTasks, labels
  <2>5. OthersOK' /\ reg' \in [AllTasks -> SUBSET Reportable]
    BY <1>1, Zenon DEF SafetyIterate, TypeOK, OthersOK, rtdVars
  <2> QED BY <2>2, <2>3, <2>4, <2>5 DEF TypeOK, OthersOK
<1>2. CASE AdcHang
  <2>1. PcOK'
    BY <1>2, GotoTyped DEF AdcHang, TypeOK, AllTasks, labels
  <2> QED
    BY <1>2, <2>1 DEF AdcHang, TypeOK, MonitorTypeOK, monitorVars, canVars, rtdVars
<1>3. CASE IwdgReset
  <2>1. Init'
    BY <1>3, ResetIsInit
  <2> QED BY <2>1, InitTyped, PTL
<1>4. CASE \E t \in AllTasks : Wake(t)
  <2>1. PICK t \in AllTasks : Wake(t)
    BY <1>4
  <2>2. PcOK'
    BY <2>1, GotoTyped, StartTyped DEF Wake, TypeOK
  <2> QED
    BY <2>1, <2>2 DEF Wake, TypeOK, MonitorTypeOK, monitorVars, canVars, rtdVars
<1>5. CASE RtdStep
  <2>1. CASE RtdSwitch
    <3>1. PcOK'
      BY <2>1, GotoTyped DEF RtdSwitch, TypeOK, at, running, labels
    <3>2. vcu_state' \in VcuState
      BY <2>1 DEF RtdSwitch, Switch, FromFault, FromTsOff, FromTsActive, FromRtd, FromDrive,
                  TypeOK, VcuState
    <3>3. buzzer' \in BOOLEAN
      BY <2>1, Zenon DEF RtdSwitch, Switch, FromFault, FromTsOff, FromTsActive, FromRtd,
                         FromDrive, TypeOK
    <3>4. tsal' = tsal /\ rtd_button' = rtd_button
      BY <2>1 DEF RtdSwitch, Switch
    <3> QED
      BY <2>1, <3>1, <3>2, <3>3, <3>4
         DEF RtdSwitch, TypeOK, MonitorTypeOK, monitorVars, canVars
  <2>2. CASE RtdSample
    <3>1. PICK ts, button \in BOOLEAN : Sample(ts, button, fault_is_hard(faults))
      BY <2>2 DEF RtdSample
    <3>2. PcOK'
      BY <2>2, GotoTyped DEF RtdSample, TypeOK, at, running, labels
    <3>3. vcu_state' \in VcuState
      BY <3>1 DEF Sample, TypeOK, VcuState
    <3>4. buzzer' \in BOOLEAN
      BY <3>1, Zenon DEF Sample, TypeOK
    <3>5. tsal' \in BOOLEAN /\ rtd_button' \in BOOLEAN
      BY <3>1 DEF Sample
    <3> QED
      BY <2>2, <3>2, <3>3, <3>4, <3>5
         DEF RtdSample, TypeOK, MonitorTypeOK, monitorVars, canVars
  <2> QED BY <1>5, <2>1, <2>2 DEF RtdStep
<1>6. CASE CanStep
  <2>1. CASE CanWait
    <3>1. PcOK'
      BY <2>1, GotoTyped DEF CanWait, TypeOK, at, running, labels
    <3>2. notified' \in BOOLEAN
      BY <2>1, Zenon DEF CanWait
    <3>3. MonitorTypeOK'
      BY <2>1 DEF CanWait, TypeOK, MonitorTypeOK, monitorVars
    <3> QED BY <2>1, <3>1, <3>2, <3>3 DEF CanWait, TypeOK, monitorVars, rtdVars
  <2>2. CASE CanGate
    <3>1. PcOK'
      BY <2>2, GotoTyped DEF CanGate, TypeOK, at, running, labels
    <3> QED
      BY <2>2, <3>1 DEF CanGate, TypeOK, MonitorTypeOK, monitorVars, canVars, rtdVars
  <2>3. CASE CanFetch
    <3>1. PcOK'
      BY <2>3, GotoTyped DEF CanFetch, TypeOK, at, running, labels
    <3> QED BY <2>3, <3>1 DEF CanFetch, TypeOK, MonitorTypeOK, monitorVars, rtdVars
  <2>4. CASE CanLoad
    <3>1. PcOK' /\ reg' \in [AllTasks -> SUBSET Reportable]
      <4>1. "CAN" \in AllTasks /\ "CANBUS_TX" \in Reportable
        BY <2>4 DEF CanLoad, at, running, Reportable, FaultFlag
      <4> QED BY <2>4, <4>1, LoadTyped DEF CanLoad, TypeOK
    <3> QED BY <2>4, <3>1 DEF CanLoad, TypeOK, MonitorTypeOK, monitorVars, rtdVars
  <2>5. CASE Store("CAN", "wait")
    BY <2>5, StoreTyped DEF labels
  <2>6. CASE \E ok \in BOOLEAN : CanSend(ok)
    <3>1. PICK ok \in BOOLEAN : CanSend(ok)
      BY <2>6
    <3>2. PcOK'
      BY <3>1, GotoTyped DEF CanSend, TypeOK, at, running, labels
    <3>3. can_torque' \in TORQUE_MIN_CMD .. TORQUE_MAX_CMD
      BY <3>1 DEF CanSend, TORQUE_MIN_CMD, TORQUE_MAX_CMD
    <3> QED
      BY <3>1, <3>2, <3>3 DEF CanSend, TypeOK, MonitorTypeOK, monitorVars, rtdVars
  <2> QED BY <1>6, <2>1, <2>2, <2>3, <2>4, <2>5, <2>6 DEF CanStep
<1>7. CASE CliStep
  <2>1. CASE CliLoad
    <3>1. "CLI" \in AllTasks /\ "CLI" \in Reportable
      BY <2>1 DEF CliLoad, at, running, Reportable, FaultFlag
    <3>2. Load("CLI", fault_report(faults, "CLI", TRUE))
      BY <2>1 DEF CliLoad, fault_report
    <3>3. PcOK' /\ reg' \in [AllTasks -> SUBSET Reportable]
      BY <3>1, <3>2, LoadTyped
    <3> QED
      BY <2>1, <3>3 DEF CliLoad, TypeOK, MonitorTypeOK, monitorVars, canVars, rtdVars
  <2>2. CASE Store("CLI", "delay")
    BY <2>2, StoreTyped DEF labels
  <2> QED BY <1>7, <2>1, <2>2 DEF CliStep
<1>8. CASE DashStep
  <2>1. CASE \E ok \in BOOLEAN : DashLoad(ok)
    <3>1. PICK ok \in BOOLEAN : DashLoad(ok)
      BY <2>1
    <3>2. "DASH" \in AllTasks /\ "DASHBOARD" \in Reportable
      BY <3>1 DEF DashLoad, at, running, Reportable, FaultFlag
    <3>3. PcOK' /\ reg' \in [AllTasks -> SUBSET Reportable]
      BY <3>1, <3>2, LoadTyped DEF DashLoad
    <3> QED
      BY <3>1, <3>3 DEF DashLoad, TypeOK, MonitorTypeOK, monitorVars, canVars, rtdVars
  <2>2. CASE Store("DASH", "delay")
    BY <2>2, StoreTyped DEF labels
  <2> QED BY <1>8, <2>1, <2>2 DEF DashStep
<1>9. CASE UNCHANGED vars
  BY <1>9 DEF vars, TypeOK, PcOK, MonitorTypeOK, monitorVars, canVars, rtdVars
<1> QED
  BY <1>1, <1>2, <1>3, <1>4, <1>5, <1>6, <1>7, <1>8, <1>9 DEF Next

\* Types hold in every reachable state, for every set of tasks and inputs: the
\* registry never holds a flag nobody reports, the command stays in range and
\* every task is at one of its own labels (run `registry').
THEOREM VcuTyped == Spec => []TypeOK
BY InitTyped, StepTyped, PTL DEF Spec

-------------------------------------------------------------------------------
(* The registry and the circuit                                            *)

\* A verdict depends on the checks' own state only.
LEMMA VerdictUnchanged ==
  ASSUME UNCHANGED latchVars, bse_count' = bse_count
  PROVE  Verdict' = Verdict
BY DEF Verdict, latchVars, bse_in_band

LEMMA InitRegistry == Init => RegistryInv
<1> SUFFICES ASSUME Init PROVE RegistryInv
  OBVIOUS
<1>1. clobber = "BOOT" /\ ~fw_state /\ "SAFETY" \in AllTasks
  BY DEF Init, MonitorInit, AllTasks
<1>2. pc["SAFETY"] = "iterate"
  BY <1>1 DEF Init, start
<1>3. "CAN" \in Tasks => pc["CAN"] = "wait"
  BY DEF Init, start, AllTasks
<1> QED
  BY <1>1, <1>2, <1>3 DEF RegistryInv, BootInv, CircuitInv, NoneInv, DashInv

\* An iteration establishes the invariant, whatever the registry held.
LEMMA IterateRegistry == TypeOK /\ SafetyIterate => RegistryInv'
<1> SUFFICES ASSUME TypeOK, SafetyIterate PROVE RegistryInv'
  OBVIOUS
<1>1. PICK a1, a2 \in Pedal, count \in BseCount : Iterate(a1, a2, count)
  BY DEF SafetyIterate
<1>2. "CAN_TIMEOUT" \notin faults /\ MonitorTypeOK
  BY DEF TypeOK, Reportable
<1>3. clobber' = "NONE"
  BY DEF SafetyIterate
<1>4. inhibits(faults') = Verdict'
  BY <1>1, <1>2, IterateReports DEF inhibits
<1>5. fw_state' = (Verdict' \cap FAULT_HARD_MASK = {})
  BY <1>1, <1>2, IterateCircuit
<1> QED
  BY <1>3, <1>4, <1>5
     DEF RegistryInv, BootInv, CircuitInv, NoneInv, DashInv, inhibits

\* A step of a task below the monitor that writes neither the registry nor the
\* notification, and moves canbus_task only if canbus_task itself runs.
LEMMA LocalStepRegistry ==
  ASSUME RegistryInv, NEW t \in {"RTD", "CLI", "CAN", "DASH"}, running(t),
         UNCHANGED <<monitorVars, clobber>>,
         t # "CAN" => UNCHANGED <<pc["CAN"], notified>>
  PROVE  RegistryInv'
<1>1. clobber # "BOOT"
  BY MonitorPreempts DEF RegistryInv, BootInv
<1>2. clobber = "DASH" /\ "CAN" \in Tasks => t # "CAN"
  BY DEF RegistryInv, DashInv, running, ready
<1>3. Verdict' = Verdict
  BY VerdictUnchanged DEF monitorVars, latchVars
<1> QED
  BY <1>1, <1>2, <1>3
     DEF RegistryInv, BootInv, CircuitInv, NoneInv, DashInv, monitorVars, inhibits

\* A store either leaves the inhibiting flags alone or is recorded.
LEMMA StoreRegistry ==
  ASSUME TypeOK, RegistryInv, NEW t \in {"CLI", "CAN", "DASH"}, NEW next,
         Store(t, next)
  PROVE  RegistryInv'
<1>1. running(t)
  BY DEF Store, at
<1>2. clobber # "BOOT"
  BY <1>1, MonitorPreempts DEF RegistryInv, BootInv
<1>3. Verdict' = Verdict /\ fw_state' = fw_state
  BY VerdictUnchanged DEF Store, pedalVars, latchVars
<1>4. clobber' # "BOOT"
  BY <1>2 DEF Store
<1>5. CircuitInv'
  BY <1>2, <1>3 DEF RegistryInv, CircuitInv
<1>6. NoneInv'
  BY <1>3 DEF RegistryInv, NoneInv, Store, inhibits
<1>7. DashInv'
  <2>1. SUFFICES ASSUME clobber' = "DASH", "CAN" \in Tasks
                 PROVE  (pc["CAN"] = "wait" /\ ~notified)'
    BY DEF DashInv
  <2>2. pc["CAN"] = "wait" /\ ~notified /\ t # "CAN"
    <3>1. CASE clobber = "DASH"
      BY <1>1, <2>1, <3>1 DEF RegistryInv, DashInv, running, ready
    <3>2. CASE t = "DASH"
      BY <1>1, <2>1, <3>2, CanPreemptsDash DEF TypeOK
    <3> QED BY <2>1, <3>1, <3>2 DEF Store
  <2> QED BY <2>1, <2>2 DEF Store, goto, canVars, TypeOK, PcOK, AllTasks
<1> QED BY <1>4, <1>5, <1>6, <1>7 DEF RegistryInv, BootInv

LEMMA StepRegistry == TypeOK /\ RegistryInv /\ [Next]_vars => RegistryInv'
<1> SUFFICES ASSUME TypeOK, RegistryInv, [Next]_vars PROVE RegistryInv'
  OBVIOUS
<1> USE DEF at
<1>1. CASE SafetyIterate
  BY <1>1, IterateRegistry
<1>2. CASE AdcHang
  <2>1. Verdict' = Verdict
    BY <1>2, VerdictUnchanged DEF AdcHang, monitorVars, latchVars
  <2>2. pc'["SAFETY"] = "hung" /\ pc'["CAN"] = pc["CAN"]
    BY <1>2 DEF AdcHang, goto, TypeOK, PcOK, AllTasks
  <2> QED
    BY <1>2, <2>1, <2>2 DEF AdcHang, RegistryInv, BootInv, CircuitInv, NoneInv,
                            DashInv, monitorVars, canVars, inhibits
<1>3. CASE IwdgReset
  <2>1. Init'
    BY <1>3, ResetIsInit
  <2> QED BY <2>1, InitRegistry, PTL
<1>4. CASE \E t \in AllTasks : Wake(t)
  <2>1. PICK t \in AllTasks : Wake(t)
    BY <1>4
  <2>2. Verdict' = Verdict
    BY <2>1, VerdictUnchanged DEF Wake, monitorVars, latchVars
  <2>3. pc' = [pc EXCEPT ![t] = start[t]] /\ pc[t] = "delay"
    BY <2>1 DEF Wake, goto
  <2>4. pc["SAFETY"] \in {"iterate", "hung"} => pc'["SAFETY"] = pc["SAFETY"]
    BY <2>3 DEF TypeOK, PcOK
  <2>5. pc["CAN"] = "wait" => pc'["CAN"] = "wait"
    BY <2>3 DEF TypeOK, PcOK
  <2> QED
    BY <2>1, <2>2, <2>4, <2>5
       DEF Wake, RegistryInv, BootInv, CircuitInv, NoneInv, DashInv, monitorVars,
           canVars, inhibits
<1>5. CASE RtdStep
  <2>1. /\ running("RTD")
        /\ UNCHANGED <<monitorVars, clobber, notified>>
        /\ \E label : goto("RTD", label)
    BY <1>5 DEF RtdStep, RtdSwitch, RtdSample, canVars
  <2>2. UNCHANGED <<pc["CAN"], notified>>
    BY <2>1 DEF goto, TypeOK, PcOK
  <2> QED BY <2>1, <2>2, LocalStepRegistry
<1>6. CASE CanStep
  <2>1. CASE Store("CAN", "wait")
    BY <2>1, StoreRegistry
  <2>2. CASE CanStep /\ ~Store("CAN", "wait")
    <3>1. running("CAN") /\ UNCHANGED <<monitorVars, clobber>>
      BY <2>2 DEF CanStep, CanWait, CanGate, CanFetch, CanLoad, CanSend
    <3> QED BY <3>1, LocalStepRegistry
  <2> QED BY <1>6, <2>1, <2>2
<1>7. CASE CliStep
  <2>1. CASE CliLoad
    <3>1. UNCHANGED <<pc["CAN"], notified>>
      BY <2>1 DEF CliLoad, Load, goto, canVars, TypeOK, PcOK
    <3> QED BY <2>1, <3>1, LocalStepRegistry DEF CliLoad
  <2> QED BY <1>7, <2>1, StoreRegistry DEF CliStep
<1>8. CASE DashStep
  <2>1. CASE \E ok \in BOOLEAN : DashLoad(ok)
    <3>1. UNCHANGED <<pc["CAN"], notified>>
      BY <2>1 DEF DashLoad, Load, goto, canVars, TypeOK, PcOK
    <3>2. running("DASH") /\ UNCHANGED <<monitorVars, clobber>>
      BY <2>1 DEF DashLoad
    <3> QED BY <3>1, <3>2, LocalStepRegistry
  <2> QED BY <1>8, <2>1, StoreRegistry DEF DashStep
<1>9. CASE UNCHANGED vars
  BY <1>9, VerdictUnchanged
     DEF vars, RegistryInv, BootInv, CircuitInv, NoneInv, DashInv, monitorVars,
         latchVars, canVars, inhibits
<1> QED
  BY <1>1, <1>2, <1>3, <1>4, <1>5, <1>6, <1>7, <1>8, <1>9 DEF Next

\* Types and the registry invariant hold in every reachable state.
THEOREM VcuRegistry == Spec => [](TypeOK /\ RegistryInv)
BY InitTyped, InitRegistry, StepTyped, StepRegistry, PTL DEF Spec

\* The circuit output is what the monitor found in its last iteration, for any
\* interleaving of lost registry updates (run `registry').
THEOREM VcuCircuit == Spec => []CircuitFollowsVerdict
<1>1. TypeOK /\ RegistryInv => CircuitFollowsVerdict
  BY DEF RegistryInv, BootInv, CircuitInv, CircuitFollowsVerdict, TypeOK, MonitorTypeOK
<1> QED BY <1>1, VcuRegistry, PTL

\* Only cli_task and canbus_task can make the gate differ from the verdict;
\* dashboard_task, the lowest, cannot (run `registry').
THEOREM VcuGate == Spec => []GateSeesVerdictButForCliAndCan
<1>1. TypeOK /\ RegistryInv => GateSeesVerdictButForCliAndCan
  <2> SUFFICES ASSUME TypeOK, RegistryInv, CanAt("gate"), clobber \notin {"CLI", "CAN"}
               PROVE  fault_torque_inhibited(faults) <=> Verdict # {}
    BY DEF GateSeesVerdictButForCliAndCan
  <2>1. clobber = "NONE"
    BY DEF TypeOK, RegistryInv, BootInv, DashInv, CanAt
  <2> QED BY <2>1 DEF RegistryInv, NoneInv, inhibits, fault_torque_inhibited
<1> QED BY <1>1, VcuRegistry, PTL

-------------------------------------------------------------------------------
(* The state machine                                                       *)

\* The buzzer sounds exactly in RTD, whatever ends it and however the samples,
\* the faults and the reset interleave (run `rtd').
THEOREM VcuBuzzer == Spec => []BuzzerExactlyInRtd
<1>1. Init => BuzzerExactlyInRtd
  BY DEF Init, RtdInit, BuzzerExactlyInRtd
<1>2. TypeOK /\ BuzzerExactlyInRtd /\ [Next]_vars => BuzzerExactlyInRtd'
  <2> SUFFICES ASSUME TypeOK, BuzzerExactlyInRtd, [Next]_vars
               PROVE  BuzzerExactlyInRtd'
    OBVIOUS
  <2> USE DEF BuzzerExactlyInRtd
  <2>1. CASE IwdgReset
    BY <2>1 DEF IwdgReset
  <2>2. CASE RtdSwitch
    BY <2>2 DEF RtdSwitch, Switch, FromFault, FromTsOff, FromTsActive, FromRtd, FromDrive
  <2>3. CASE RtdSample
    BY <2>3 DEF RtdSample, Sample
  <2>4. CASE UNCHANGED <<vcu_state, buzzer>>
    BY <2>4
  <2>5. \/ IwdgReset \/ RtdStep \/ UNCHANGED <<vcu_state, buzzer>>
    BY DEF Next, SafetyIterate, AdcHang, Wake, CanStep, CanWait, CanGate, CanFetch,
           CanSend, CanLoad, CliStep, CliLoad, DashStep, DashLoad, Store, rtdVars, vars
  <2> QED BY <2>1, <2>2, <2>3, <2>4, <2>5 DEF RtdStep
<1> QED BY <1>1, <1>2, VcuTyped, PTL DEF Spec

\* FAULT is left with a hard fault standing only behind a lost update.
THEOREM VcuFaultState == Spec => FaultStateHolds
<1>1. TypeOK /\ RegistryInv /\ [Next]_vars
        => [ (vcu_state = "FAULT" /\ vcu_state' = "TS_OFF" /\ clobber = "NONE")
               => (pc["SAFETY"] = "hung" \/ Verdict \cap FAULT_HARD_MASK = {}) ]_vars
  <2> SUFFICES ASSUME TypeOK, RegistryInv, Next, vcu_state = "FAULT",
                      vcu_state' = "TS_OFF", clobber = "NONE"
               PROVE  pc["SAFETY"] = "hung" \/ Verdict \cap FAULT_HARD_MASK = {}
    OBVIOUS
  <2>1. \/ IwdgReset
        \/ RtdSwitch
        \/ RtdSample
    BY DEF Next, RtdStep, SafetyIterate, AdcHang, Wake, CanStep, CanWait, CanGate,
           CanFetch, CanSend, CanLoad, CliStep, CliLoad, DashStep, DashLoad, Store,
           rtdVars
  <2>2. CASE IwdgReset
    BY <2>2 DEF IwdgReset
  <2>3. CASE RtdSwitch
    <3>1. ~fault_is_hard(faults)
      BY <2>3 DEF RtdSwitch, Switch, FromFault, FromTsOff, FromTsActive, FromRtd, FromDrive
    <3>2. inhibits(faults) = Verdict
      BY DEF RegistryInv, NoneInv
    <3> QED
      BY <3>1, <3>2 DEF fault_is_hard, inhibits, FAULT_TORQUE_INHIBIT_MASK
  <2>4. CASE RtdSample
    BY <2>4 DEF RtdSample, Sample
  <2> QED BY <2>1, <2>2, <2>3, <2>4
<1> QED BY <1>1, VcuRegistry, PTL DEF Spec, FaultStateHolds

-------------------------------------------------------------------------------
(* Refinement of Interlock                                                 *)

\* The tasks together implement the abstract promise: an iteration is a sample,
\* the watchdog reset a restart, every other step a stutter (run `registry').
THEOREM VcuImplementsInterlock == Spec => KeepsInterlock
<1>1. Init => Abstract!Init
  BY BootIsAbstractInit DEF Init
<1>2. TypeOK /\ RegistryInv /\ [Next]_vars => [Abstract!Next]_(Abstract!vars)
  <2> SUFFICES ASSUME TypeOK, RegistryInv, [Next]_vars
               PROVE  Abstract!Next \/ UNCHANGED Abstract!vars
    OBVIOUS
  <2>1. CASE SafetyIterate
    <3>1. PICK a1, a2 \in Pedal, count \in BseCount : Iterate(a1, a2, count)
      BY <2>1 DEF SafetyIterate
    <3>2. MonitorTypeOK /\ "CAN_TIMEOUT" \notin faults
      BY DEF TypeOK, Reportable
    <3> QED BY <3>1, <3>2, IterateIsSample DEF Abstract!Next
  <2>2. CASE IwdgReset
    <3>1. DriverLatches' = {}
      BY <2>2 DEF IwdgReset, DriverLatches, Verdict, apps_state_init, bppc_state_init
    <3>2. Abstract!Restart
      BY <2>2, <3>1
         DEF Abstract!Restart, IwdgReset, bse_in_band, BSE_RAW_OPEN_LO
    <3> QED BY <3>2 DEF Abstract!Next
  <2>3. CASE UNCHANGED <<pedalVars, latchVars, fw_state>>
    <3>1. DriverLatches' = DriverLatches
      BY <2>3, VerdictUnchanged DEF pedalVars, DriverLatches
    <3> QED BY <2>3, <3>1 DEF pedalVars, bse_in_band, Abstract!vars
  <2>4. SafetyIterate \/ IwdgReset \/ UNCHANGED <<pedalVars, latchVars, fw_state>>
    BY DEF Next, AdcHang, Wake, RtdStep, RtdSample, RtdSwitch, CanStep, CanWait,
           CanGate, CanFetch, CanSend, CanLoad, CliStep, CliLoad, DashStep, DashLoad,
           Store, monitorVars, vars, pedalVars, latchVars
  <2> QED BY <2>1, <2>2, <2>3, <2>4
<1> QED BY <1>1, <1>2, VcuRegistry, PTL DEF Spec, KeepsInterlock, Abstract!Spec
===============================================================================
