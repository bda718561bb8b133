------------------------------- MODULE MCHardware -------------------------------
(* What lies under the tasks: the kernel, the receive interrupt with the CAN *)
(* watchdog, the transmit mailboxes, the edge counter, the converters and    *)
(* the dashboard's UART.  They share no state, so a behaviour is one of one  *)
(* of them and the others stand still.                                       *)
EXTENDS Kernel, CanReceive, CanTransmit, SpeedSensor, AnalogInput, DashboardLink

MCPriority == [safety |-> 3, default |-> 3, canbus |-> 2, dash |-> 1, idle |-> 0]
MCPeriod == [safety |-> 2, default |-> 1, dash |-> 4]

VARIABLE unit   \* the part that moves

hardwareVars ==
  <<unit, kernelVars, receiveVars, transmitVars, speedVars, analogVars, linkVars>>

HardwareInit ==
  /\ unit \in {"kernel", "receive", "transmit", "speed", "analog", "link"}
  /\ KernelInit /\ ReceiveInit /\ TransmitInit /\ SpeedInit /\ AnalogInit /\ LinkInit

KernelPart ==
  /\ unit = "kernel" /\ KernelNext
  /\ UNCHANGED <<receiveVars, transmitVars, speedVars, analogVars, linkVars>>
ReceivePart ==
  /\ unit = "receive" /\ ReceiveNext
  /\ UNCHANGED <<kernelVars, transmitVars, speedVars, analogVars, linkVars>>
TransmitPart ==
  /\ unit = "transmit" /\ TransmitNext
  /\ UNCHANGED <<kernelVars, receiveVars, speedVars, analogVars, linkVars>>
SpeedPart ==
  /\ unit = "speed" /\ SpeedNext
  /\ UNCHANGED <<kernelVars, receiveVars, transmitVars, analogVars, linkVars>>
AnalogPart ==
  /\ unit = "analog" /\ AnalogNext
  /\ UNCHANGED <<kernelVars, receiveVars, transmitVars, speedVars, linkVars>>
LinkPart ==
  /\ unit = "link" /\ LinkNext
  /\ UNCHANGED <<kernelVars, receiveVars, transmitVars, speedVars, analogVars>>

HardwareNext ==
  /\ KernelPart \/ ReceivePart \/ TransmitPart \/ SpeedPart \/ AnalogPart \/ LinkPart
  /\ UNCHANGED unit

\* Fairness is that of the tasks and of the tick, each in the behaviours that are
\* its part's own.
HardwareSpec ==
  /\ HardwareInit /\ [][HardwareNext]_hardwareVars
  /\ WF_transmitVars(unit = "transmit" /\ MonitorIterates)
  /\ WF_transmitVars(unit = "transmit" /\ CanTaskSteps)
  /\ WF_analogVars(unit = "analog" /\ ReadingSteps)
  /\ WF_analogVars(unit = "analog" /\ Settle)
  /\ WF_analogVars(unit = "analog" /\ Convert)
  /\ WF_linkVars(unit = "link" /\ LinkTaskSteps)
  /\ WF_linkVars(unit = "link" /\ HalTick)

\* Every part's state is in its range; of the transmit path it says that what the
\* inverter decodes is a command the monitor can compute (can_catalog.c).
HardwareTypeOK ==
  KernelTypeOK /\ ReceiveTypeOK /\ TransmitTypeOK /\ AnalogTypeOK /\ LinkTypeOK
===============================================================================
