------------------------------- MODULE CanReceive -------------------------------
(***************************************************************************)
(* Reception around the CAN watchdog: the receive FIFO of CAN1, its        *)
(* interrupt (HAL_CAN_IRQHandler, HAL_CAN_GetRxMessage) and the callback   *)
(* of Core/app/app.c.  The FIFO is not locked: a frame that comes when it  *)
(* is full replaces the youngest one.  Of an extended frame the HAL leaves *)
(* StdId unset and the callback compares what the stack held.  No filter   *)
(* is set up in the code, which receives nothing because of it; the module *)
(* shows reception as it is with a filter that passes everything.          *)
(***************************************************************************)
EXTENDS CanWatchdog, Sequences

CONSTANT FIFO_SIZE   \* 3 in the hardware

ASSUME ReceiveAssumption == FIFO_SIZE \in Nat \ {0}

\* CAN_ID_INVERTER_HB, CAN_ID_AMS_DCBUS, any other standard identifier, and
\* an extended one.
Ids == {"HB", "DCBUS", "OTHER"}
Frames == Ids \cup {"EXT"}

VARIABLES
  fifo,         \* frames in the receive FIFO
  masked,       \* the kernel masks the interrupt, in a critical section
  dc_bus_pct,   \* "none" until a DC-bus percentage has been decoded
  busQuiet,     \* history: ms of calls since a heartbeat or an extended frame came
  hbQuiet,      \* history: ms of calls since a heartbeat came
  came,         \* history: what of the two came during the current call
  lost          \* history: a heartbeat was replaced since the last one was received

rxVars == <<fifo, masked, dc_bus_pct>>
busVars == <<busQuiet, hbQuiet, came, lost>>
receiveVars == <<wdVars, rxVars, busVars>>

ReceiveInit ==
  /\ Init
  /\ fifo = <<>>
  /\ masked = FALSE
  /\ dc_bus_pct = "none"
  /\ busQuiet = 0
  /\ hbQuiet = 0
  /\ came = {}
  /\ lost = FALSE

\* The frames that may feed the watchdog.
Feeding == {"HB", "EXT"}

\* The frame that a full FIFO loses.
replaced == IF Len(fifo) < FIFO_SIZE THEN {} ELSE {fifo[Len(fifo)]}

\* A frame comes from the bus.
Arrive(f) ==
  /\ fifo' = IF Len(fifo) < FIFO_SIZE THEN Append(fifo, f)
             ELSE [fifo EXCEPT ![Len(fifo)] = f]
  /\ busQuiet' = IF f \in Feeding THEN 0 ELSE busQuiet
  /\ hbQuiet' = IF f = "HB" THEN 0 ELSE hbQuiet
  /\ lost' = (lost \/ "HB" \in replaced)
  /\ came' = IF step = "load" THEN came ELSE came \cup ({f} \cap Feeding)
  /\ UNCHANGED <<wdVars, masked, dc_bus_pct>>

\* header.StdId after HAL_CAN_GetRxMessage.
identifier(f) == IF f = "EXT" THEN Ids ELSE {f}

\* Mutant: the identifier of another message is taken for the heartbeat's.
can_is_inverter_heartbeat_Other(id) == id = "OTHER"

can_is_inverter_heartbeat(id) == id = "HB"

\* One interrupt takes one frame: HAL_CAN_RxFifo0MsgPendingCallback.
Receive ==
  /\ fifo # <<>>
  /\ ~masked
  /\ fifo' = Tail(fifo)
  /\ \E id \in identifier(Head(fifo)) :
       /\ IF can_is_inverter_heartbeat(id) THEN OnRx ELSE UNCHANGED wdVars
       /\ dc_bus_pct' = IF id = "DCBUS" THEN "set" ELSE dc_bus_pct
  /\ lost' = IF Head(fifo) = "HB" THEN FALSE ELSE lost
  /\ UNCHANGED <<masked, busQuiet, hbQuiet, came>>

\* A critical section of a task; the monitor's own calls are outside of one.
Mask ==
  /\ masked' = ~masked
  /\ UNCHANGED <<wdVars, fifo, dc_bus_pct, busVars>>

\* An access of can_wd_update; a pending interrupt goes first.
Access ==
  /\ ~masked
  /\ fifo = <<>>
  /\ Update
  /\ busQuiet' = IF step = "return" /\ came = {} THEN cappedQuiet(busQuiet + WD_PERIOD_MS)
                 ELSE busQuiet
  /\ hbQuiet' = IF step = "return" /\ "HB" \notin came THEN cappedQuiet(hbQuiet + WD_PERIOD_MS)
                ELSE hbQuiet
  /\ came' = IF step = "return" THEN {} ELSE came
  /\ UNCHANGED <<rxVars, lost>>

ReceiveNext == Receive \/ Mask \/ Access \/ \E f \in Frames : Arrive(f)

ReceiveSpec == ReceiveInit /\ [][ReceiveNext]_receiveVars

-------------------------------------------------------------------------------

ReceiveTypeOK ==
  /\ WatchdogTypeOK
  /\ fifo \in Seq(Frames) /\ Len(fifo) <= FIFO_SIZE
  /\ masked \in BOOLEAN
  /\ dc_bus_pct \in {"none", "set"}
  /\ busQuiet \in 0 .. CAN_TIMEOUT_MS
  /\ hbQuiet \in 0 .. CAN_TIMEOUT_MS
  /\ came \subseteq Feeding
  /\ lost \in BOOLEAN

\* A bus without heartbeats is reported once the timeout is over, whatever other
\* standard frames come, pile up in the FIFO or are lost there (can_wd_update,
\* the callback in app.c); only extended frames can hide it.
SilentBusIsReported == busQuiet >= CAN_TIMEOUT_MS => fault

\* A timeout is reported while heartbeats come only if the last one received hit
\* a call of can_wd_update or one has been lost in the FIFO since.
TimeoutNeedsRaceOrLoss ==
  [][ (Access /\ step = "return" /\ fault' /\ hbQuiet' < CAN_TIMEOUT_MS)
        => raced \/ lost ]_receiveVars

-------------------------------------------------------------------------------
(* The inductive invariant                                                 *)

queued(set) == \E i \in DOMAIN fifo : fifo[i] \in set

\* The watchdog has heard no more than the bus brought, and all of it unless a
\* heartbeat waits in the FIFO or was lost there.
ReceiveInv ==
  /\ step = "load" => came = {}
  /\ busQuiet <= quiet
  /\ heard => came # {}
  /\ queued(Feeding) => busQuiet = 0 /\ (step # "load" => came # {})
  /\ ~lost /\ ~queued({"HB"}) => quiet <= hbQuiet /\ ("HB" \in came => heard)
===============================================================================
