------------------------------ MODULE CanTransmit ------------------------------
(***************************************************************************)
(* The way of a torque command to the inverter: canbus_task, the codec of  *)
(* Core/proto/can_catalog.c, HAL_CAN_AddTxMessage and the transmit         *)
(* mailboxes as MX_CAN_Init configures them: no automatic retransmission,  *)
(* no recovery from bus-off, mailboxes ordered by identifier.  All frames  *)
(* carry the same identifier, so the lowest mailbox goes first and a newer *)
(* frame can overtake an older one.  The monitor is what canbus_task sees  *)
(* of it; canbus_task never runs in the middle of an iteration.            *)
(***************************************************************************)
EXTENDS Integers, FiniteSets

CONSTANTS
  Mailboxes,   \* the numbers of the transmit mailboxes, 0 .. 2 in the hardware
  Commands     \* the values of torque_cmd, 0 .. TORQUE_MAX_CMD in the code

CAN_DLC == 8

Int16 == -32768 .. 32767

ASSUME TransmitAssumption ==
  /\ Mailboxes \subseteq Nat /\ IsFiniteSet(Mailboxes)
  /\ Commands \subseteq Int16 /\ 0 \in Commands

VARIABLES
  torque_cmd,   \* the monitor's last command
  inhibited,    \* fault_torque_inhibited
  requested,    \* the notification of canbus_task
  txStep,       \* next step of canbus_task
  torque,       \* its local variable, 0 when dead
  canbus_tx,    \* FAULT_CANBUS_TX
  pending,      \* mailboxes with a transmission request
  mailbox,      \* the payload in each of them
  sending,      \* the mailbox whose frame is on the bus, if any, as a set
  bus,          \* "active", or "off" after too many errors
  wire,         \* the last command the inverter has received
  stale         \* history: torque received since torque is inhibited, in frames

taskVars == <<txStep, torque, canbus_tx>>
mailboxVars == <<pending, mailbox, sending, bus>>
monitorVars == <<torque_cmd, inhibited>>
transmitVars == <<monitorVars, requested, taskVars, mailboxVars, wire, stale>>

\* Mutant: the most significant byte goes first.
encode_BigEndian(cmd) ==
  [i \in 0 .. CAN_DLC - 1 |->
    CASE i = 0 -> ((cmd % 65536) \div 256) % 256 [] i = 1 -> (cmd % 65536) % 256 [] OTHER -> 0]

\* Little-endian two's complement in the first two bytes.
can_encode_torque_cmd(cmd) ==
  LET u == cmd % 65536
  IN  [i \in 0 .. CAN_DLC - 1 |->
        CASE i = 0 -> u % 256 [] i = 1 -> u \div 256 [] OTHER -> 0]

can_decode_torque_cmd(buf) ==
  LET u == buf[0] + 256 * buf[1] IN IF u < 32768 THEN u ELSE u - 65536

Payloads == [0 .. CAN_DLC - 1 -> 0 .. 255]

TransmitInit ==
  /\ torque_cmd = 0
  /\ inhibited = FALSE
  /\ requested = FALSE
  /\ txStep = "wait"
  /\ torque = 0
  /\ canbus_tx = FALSE
  /\ pending = {}
  /\ mailbox = [m \in Mailboxes |-> can_encode_torque_cmd(0)]
  /\ sending = {}
  /\ bus = "active"
  /\ wire = 0
  /\ stale = 0

\* An iteration of the monitor: a command, a verdict, a notification.
MonitorIterates ==
  \E cmd \in Commands, verdict \in BOOLEAN :
    /\ torque_cmd' = cmd
    /\ inhibited' = verdict
    /\ requested' = TRUE
    /\ stale' = IF inhibited /\ verdict THEN stale ELSE 0
    /\ UNCHANGED <<taskVars, mailboxVars, wire>>

-------------------------------------------------------------------------------
(* canbus_task                                                             *)

WaitForRequest ==
  /\ txStep = "wait"
  /\ requested
  /\ requested' = FALSE
  /\ txStep' = "gate"
  /\ UNCHANGED <<monitorVars, torque, canbus_tx, mailboxVars, wire, stale>>

\* Mutant: the command is sent whatever the registry says.
gateShut_Never == FALSE

gateShut == inhibited

\* Mutant: nothing is sent while torque is inhibited.
afterGate_Silent == IF gateShut THEN "wait" ELSE "load"

\* A shut gate leaves the local torque at zero.
afterGate == IF gateShut THEN "send" ELSE "load"

TestGate ==
  /\ txStep = "gate"
  /\ txStep' = afterGate
  /\ UNCHANGED <<monitorVars, requested, torque, canbus_tx, mailboxVars, wire, stale>>

LoadCommand ==
  /\ txStep = "load"
  /\ torque' = torque_cmd
  /\ txStep' = "send"
  /\ UNCHANGED <<monitorVars, requested, canbus_tx, mailboxVars, wire, stale>>

\* Mutant: the status of HAL_CAN_AddTxMessage is not looked at.
refused_Ignored == FALSE

\* No mailbox is free.
refused == pending = Mailboxes

\* HAL_CAN_AddTxMessage puts the frame into an empty mailbox of the hardware's
\* choice; its status sets or clears FAULT_CANBUS_TX.
AddTxMessage ==
  /\ txStep = "send"
  /\ \/ \E m \in Mailboxes \ pending :
          /\ mailbox' = [mailbox EXCEPT ![m] = can_encode_torque_cmd(torque)]
          /\ pending' = pending \cup {m}
     \/ /\ pending = Mailboxes
        /\ UNCHANGED <<mailbox, pending>>
  /\ canbus_tx' = refused
  /\ torque' = 0
  /\ txStep' = "wait"
  /\ UNCHANGED <<monitorVars, requested, sending, bus, wire, stale>>

-------------------------------------------------------------------------------
(* The CAN controller                                                      *)

\* The lowest mailbox is arbitrated first.
StartFrame ==
  /\ bus = "active"
  /\ sending = {}
  /\ \E m \in pending : /\ \A k \in pending : m <= k
                        /\ sending' = {m}
  /\ UNCHANGED <<monitorVars, requested, taskVars, pending, mailbox, bus, wire, stale>>

\* The one attempt for a mailbox is over; what it held is dead.
release(m) ==
  /\ pending' = pending \ {m}
  /\ mailbox' = [mailbox EXCEPT ![m] = can_encode_torque_cmd(0)]
  /\ sending' = {}

\* The inverter receives the frame.
Deliver ==
  \E m \in sending :
    LET cmd == can_decode_torque_cmd(mailbox[m])
    IN  /\ release(m)
        /\ wire' = cmd
        /\ stale' = IF inhibited /\ cmd # 0 THEN stale + 1 ELSE stale
        /\ UNCHANGED <<monitorVars, requested, taskVars, bus>>

\* An error or a lost arbitration: the frame is given up.
Lose ==
  \E m \in sending :
    /\ release(m)
    /\ UNCHANGED <<monitorVars, requested, taskVars, bus, wire, stale>>

\* One error too many: the controller leaves the bus for good, with the frames
\* that wait in the other mailboxes.
BusOff ==
  \E m \in sending :
    /\ release(m)
    /\ bus' = "off"
    /\ UNCHANGED <<monitorVars, requested, taskVars, wire, stale>>

CanTaskSteps == WaitForRequest \/ TestGate \/ LoadCommand \/ AddTxMessage

TransmitNext == MonitorIterates \/ CanTaskSteps \/ StartFrame \/ Deliver \/ Lose \/ BusOff

TransmitSpec == TransmitInit /\ [][TransmitNext]_transmitVars

\* The monitor is periodic, and canbus_task gets to run between its iterations.
TransmitFairness ==
  WF_transmitVars(MonitorIterates) /\ WF_transmitVars(CanTaskSteps)

-------------------------------------------------------------------------------

\* Everything is in its range: what the inverter decodes is a command that the
\* monitor can compute, and only a requested mailbox is on the bus.
TransmitTypeOK ==
  /\ torque_cmd \in Commands /\ torque \in Commands /\ wire \in Commands
  /\ inhibited \in BOOLEAN /\ requested \in BOOLEAN /\ canbus_tx \in BOOLEAN
  /\ txStep \in {"wait", "gate", "load", "send"}
  /\ pending \subseteq Mailboxes
  /\ mailbox \in [Mailboxes -> {can_encode_torque_cmd(cmd) : cmd \in Commands}]
  /\ sending \subseteq pending
  /\ bus \in {"active", "off"}
  /\ stale \in Nat

\* Once torque is inhibited at most as many frames with torque still reach the
\* inverter as there are mailboxes, and the one canbus_task had let pass, in
\* whatever order the mailboxes leave (canbus_task.c, MX_CAN_Init).
StaleFramesBounded == inhibited => stale <= Cardinality(Mailboxes) + 1

\* A controller that has left the bus is reported for good: the mailboxes fill up
\* and FAULT_CANBUS_TX stands (canbus_task.c).
BusOffIsReported == bus = "off" ~> []canbus_tx

\* Torque that stays inhibited ends: on a bus that lasts and lets frames through
\* again and again, the inverter comes to hold zero and keeps it, whatever older
\* frames the mailboxes still hold (canbus_task.c sends its zeros all the time).
ZeroReachesInverter ==
  /\ <>[]inhibited
  /\ [](bus = "active") /\ WF_transmitVars(StartFrame) /\ SF_transmitVars(Deliver)
  => <>[](wire = 0)

-------------------------------------------------------------------------------
(* The inductive invariant                                                 *)

\* Requested mailboxes that hold torque, and the frame on its way to them.
Loaded == {m \in pending : can_decode_torque_cmd(mailbox[m]) # 0}
OnItsWay == IF txStep = "load" \/ (txStep = "send" /\ torque # 0) THEN 1 ELSE 0

\* What torque is still to come is bounded with what has come; the local variable
\* holds a command only between its load and its sending.
StaleInv ==
  /\ inhibited => stale + Cardinality(Loaded) + OnItsWay <= Cardinality(Mailboxes) + 1
  /\ txStep # "send" => torque = 0
===============================================================================
