---------------------------- MODULE Peripheral_proofs ----------------------------
(* Proofs about the CAN command watchdog, the CAN interrupt, the transmit   *)
(* mailboxes and the edge counter, for every period and timeout, every place *)
(* at which an interrupt can hit, every size of the FIFO, any mailboxes and  *)
(* any commands.                                                             *)
EXTENDS CanReceive, CanTransmit, SpeedSensor, FiniteSetTheorems, TLAPS

-------------------------------------------------------------------------------
(* The watchdog                                                            *)

\* A saturating addition stays in the range and does not lose the timeout.
LEMMA AdvancedBounds ==
  ASSUME NEW ms \in 0 .. WD_UINT32_MAX
  PROVE  /\ advanced(ms) \in 0 .. WD_UINT32_MAX
         /\ \A q \in 0 .. CAN_TIMEOUT_MS :
              ms >= q => advanced(ms) >= cappedQuiet(q + WD_PERIOD_MS)
         /\ \A q \in 0 .. CAN_TIMEOUT_MS :
              cappedQuiet(ms) = q
                => cappedQuiet(advanced(ms)) = cappedQuiet(q + WD_PERIOD_MS)
BY WatchdogAssumption DEF advanced, cappedQuiet

LEMMA WatchdogTypeInit == Init => WatchdogTypeOK
<1> SUFFICES ASSUME Init PROVE WatchdogTypeOK
  OBVIOUS
<1>1. /\ timed_out \in BOOLEAN /\ late \in BOOLEAN /\ fault \in BOOLEAN
      /\ heard \in BOOLEAN /\ raced \in BOOLEAN
  BY Zenon DEF Init
<1> QED BY <1>1, WatchdogAssumption DEF Init, WatchdogTypeOK

LEMMA WatchdogTypeStep == WatchdogTypeOK /\ [Next]_wdVars => WatchdogTypeOK'
<1> SUFFICES ASSUME WatchdogTypeOK, [Next]_wdVars PROVE WatchdogTypeOK'
  OBVIOUS
<1> USE WatchdogAssumption DEF WatchdogTypeOK
<1>1. CASE LoadSince
  <2>1. since' \in 0 .. WD_UINT32_MAX
    BY <1>1, AdvancedBounds DEF LoadSince
  <2> QED BY <1>1, <2>1 DEF LoadSince
<1>2. CASE StoreSince
  BY <1>2 DEF StoreSince
<1>3. CASE Compare
  <2>1. step' \in {"flag", "return"}
    BY <1>3 DEF Compare
  <2> QED BY <1>3, <2>1 DEF Compare
<1>4. CASE SetTimedOut
  BY <1>4 DEF SetTimedOut
<1>5. CASE Return
  <2>1. fault' \in BOOLEAN /\ heard' \in BOOLEAN /\ late' \in BOOLEAN
    BY <1>5, Zenon DEF Return
  <2>2. quiet' \in 0 .. CAN_TIMEOUT_MS
    BY <1>5 DEF Return, cappedQuiet
  <2> QED BY <1>5, <2>1, <2>2 DEF Return
<1>6. CASE OnRx
  <2>1. heard' \in BOOLEAN /\ raced' \in BOOLEAN /\ timed_out' \in BOOLEAN
    BY <1>6, Zenon DEF OnRx, flagAfterRx
  <2> QED BY <1>6, <2>1 DEF OnRx
<1>7. CASE UNCHANGED wdVars
  BY <1>7 DEF wdVars
<1> QED BY <1>1, <1>2, <1>3, <1>4, <1>5, <1>6, <1>7 DEF Next, Update

\* Every variable of the watchdog keeps its type (fault.c, can_wd_*).
THEOREM WatchdogTyped == Spec => []WatchdogTypeOK
BY WatchdogTypeInit, WatchdogTypeStep, PTL DEF Spec

-------------------------------------------------------------------------------

LEMMA WatchdogInvInit == Init => WatchdogInv
BY WatchdogAssumption
   DEF Init, WatchdogInv, SilenceInv, ExactInv, Carried, cappedQuiet

LEMMA SilenceStep ==
  WatchdogTypeOK /\ WatchdogTypeOK' /\ SilenceInv /\ [Next]_wdVars => SilenceInv'
<1> SUFFICES ASSUME WatchdogTypeOK, WatchdogTypeOK', SilenceInv, [Next]_wdVars
             PROVE  SilenceInv'
  OBVIOUS
<1> USE WatchdogAssumption DEF WatchdogTypeOK, SilenceInv, Carried
<1>1. CASE LoadSince
  <2>1. since' >= cappedQuiet(quiet + WD_PERIOD_MS)
    BY <1>1, AdvancedBounds DEF LoadSince
  <2> QED BY <1>1, <2>1 DEF LoadSince
<1>2. CASE StoreSince
  <2>1. Carried >= quiet
    BY DEF cappedQuiet
  <2> QED BY <1>2, <2>1 DEF StoreSince, cappedQuiet
<1>3. CASE Compare
  <2>1. step' = "return" => Carried < CAN_TIMEOUT_MS
    BY <1>3 DEF Compare, expired, cappedQuiet
  <2>2. step' \in {"flag", "return"}
    BY <1>3 DEF Compare
  <2>3. /\ step = "compare"
        /\ UNCHANGED <<since_rx_ms, timed_out, since, late, fault, quiet, heard>>
    BY <1>3 DEF Compare
  <2>4. Carried' = Carried
    BY <2>2, <2>3
  <2>5. since_rx_ms >= Carried /\ since >= Carried
    BY <2>3
  <2>6. Carried \in Int
    BY DEF cappedQuiet
  <2> HIDE DEF Carried
  <2> QED BY <2>1, <2>2, <2>3, <2>4, <2>5, <2>6
<1>4. CASE SetTimedOut
  BY <1>4 DEF SetTimedOut
<1>5. CASE Return
  <2>1. quiet' = Carried
    BY <1>5 DEF Return
  <2>2. Carried >= CAN_TIMEOUT_MS => fault'
    BY <1>5 DEF Return
  <2> QED BY <1>5, <2>1, <2>2 DEF Return
<1>6. CASE OnRx
  <2>1. heard' <=> step # "load"
    BY <1>6, Zenon DEF OnRx
  <2> QED BY <1>6, <2>1 DEF OnRx
<1>7. CASE UNCHANGED wdVars
  BY <1>7 DEF wdVars
<1> QED BY <1>1, <1>2, <1>3, <1>4, <1>5, <1>6, <1>7 DEF Next, Update

LEMMA ExactStep ==
  WatchdogTypeOK /\ WatchdogTypeOK' /\ WatchdogInv /\ [Next]_wdVars => ExactInv'
<1> SUFFICES ASSUME WatchdogTypeOK, WatchdogTypeOK', SilenceInv, ExactInv, [Next]_wdVars
             PROVE  ExactInv'
  BY DEF WatchdogInv
<1> USE WatchdogAssumption DEF WatchdogTypeOK, ExactInv, Carried
<1>1. CASE LoadSince
  <2>1. ~raced => cappedQuiet(since') = cappedQuiet(quiet + WD_PERIOD_MS)
    BY <1>1, AdvancedBounds DEF LoadSince
  <2>2. quiet >= CAN_TIMEOUT_MS => cappedQuiet(quiet + WD_PERIOD_MS) >= CAN_TIMEOUT_MS
    BY DEF cappedQuiet
  <2> QED BY <1>1, <2>1, <2>2 DEF LoadSince, cappedQuiet
<1>2. CASE StoreSince
  BY <1>2 DEF StoreSince, cappedQuiet
<1>3. CASE Compare
  <2>1. ~raced /\ step' = "flag" => Carried >= CAN_TIMEOUT_MS
    BY <1>3 DEF Compare, expired, cappedQuiet
  <2> QED BY <1>3, <2>1 DEF Compare, cappedQuiet
<1>4. CASE SetTimedOut
  BY <1>4 DEF SetTimedOut, cappedQuiet
<1>5. CASE Return
  <2>1. ~raced => quiet' = Carried
    BY <1>5 DEF Return
  <2> QED BY <1>5, <2>1 DEF Return, cappedQuiet
<1>6. CASE OnRx
  <2>1. /\ heard' <=> step # "load"
        /\ raced' <=> step # "load"
        /\ ~timed_out'
    BY <1>6, Zenon DEF OnRx, flagAfterRx
  <2>2. step = "load" => ~late
    BY DEF SilenceInv
  <2> QED BY <1>6, <2>1, <2>2 DEF OnRx, cappedQuiet
<1>7. CASE UNCHANGED wdVars
  BY <1>7 DEF wdVars, cappedQuiet
<1> QED BY <1>1, <1>2, <1>3, <1>4, <1>5, <1>6, <1>7 DEF Next, Update

\* The watchdog's invariant: the silence is never undercounted, and without a
\* race it is counted exactly (fault.c, can_wd_*).
THEOREM WatchdogInvariant == Spec => [](WatchdogTypeOK /\ WatchdogInv)
<1>1. Init => WatchdogInv
  BY WatchdogInvInit
<1>2. WatchdogTypeOK /\ WatchdogTypeOK' /\ WatchdogInv /\ [Next]_wdVars => WatchdogInv'
  BY SilenceStep, ExactStep DEF WatchdogInv
<1> QED BY WatchdogTyped, <1>1, <1>2, PTL DEF Spec

\* No interleaving with the receive interrupt makes the monitor miss a timeout
\* (can_wd_update against can_wd_on_rx).
THEOREM WatchdogSilence == Spec => []SilenceIsReported
<1>1. WatchdogInv => SilenceIsReported
  BY DEF WatchdogInv, SilenceInv, SilenceIsReported
<1> QED BY WatchdogInvariant, <1>1, PTL

\* A false timeout needs a heartbeat in the middle of an update, and lasts only
\* until one comes between two (can_wd_update against can_wd_on_rx).
THEOREM WatchdogFalseTimeout == Spec => FalseTimeoutNeedsRace
<1>1. WatchdogTypeOK /\ WatchdogInv /\ [Next]_wdVars
        => [(Return /\ fault' /\ quiet' < CAN_TIMEOUT_MS) => raced]_wdVars
  <2> SUFFICES ASSUME WatchdogTypeOK, ExactInv, Return, fault', ~raced
               PROVE  ~(quiet' < CAN_TIMEOUT_MS)
    BY DEF WatchdogInv
  <2>1. timed_out \/ late
    BY DEF Return
  <2>2. quiet' = Carried /\ Carried \in Int
    BY WatchdogAssumption
       DEF Return, Carried, ExactInv, WatchdogTypeOK, cappedQuiet
  <2>3. Carried >= CAN_TIMEOUT_MS
    BY <2>1 DEF ExactInv
  <2> QED BY <2>2, <2>3, WatchdogAssumption
<1> QED BY WatchdogInvariant, <1>1, PTL DEF Spec, FalseTimeoutNeedsRace

-------------------------------------------------------------------------------
(* Reception                                                               *)

LEMMA ReceiveTyped == ReceiveInit => ReceiveTypeOK /\ ReceiveInv
<1> SUFFICES ASSUME ReceiveInit PROVE ReceiveTypeOK /\ ReceiveInv
  OBVIOUS
<1> USE WatchdogAssumption, ReceiveAssumption
<1>1. WatchdogTypeOK
  BY WatchdogTypeInit DEF ReceiveInit
<1>2. fifo \in Seq(Frames) /\ Len(fifo) = 0 /\ DOMAIN fifo = {}
  BY DEF ReceiveInit
<1>3. masked \in BOOLEAN /\ lost \in BOOLEAN
  BY Zenon DEF ReceiveInit
<1>4. busQuiet = 0 /\ hbQuiet = 0 /\ came = {} /\ dc_bus_pct = "none" /\ quiet = 0 /\ ~heard
  BY DEF ReceiveInit, Init
<1> QED BY <1>1, <1>2, <1>3, <1>4 DEF ReceiveTypeOK, ReceiveInv, queued

\* Whatever happens around it, the watchdog takes its own steps only.
LEMMA ReceiveIsWatchdog == [ReceiveNext]_receiveVars => [Next]_wdVars
<1>1. Receive => [Next]_wdVars
  BY DEF Receive, Next
<1>2. Mask => UNCHANGED wdVars
  BY DEF Mask
<1>3. Access => Next
  BY DEF Access, Next
<1>4. \A f \in Frames : Arrive(f) => UNCHANGED wdVars
  BY DEF Arrive
<1>5. UNCHANGED receiveVars => UNCHANGED wdVars
  BY DEF receiveVars
<1> QED BY <1>1, <1>2, <1>3, <1>4, <1>5 DEF ReceiveNext

\* What a frame does to the FIFO.
LEMMA FifoArrival ==
  ASSUME ReceiveTypeOK, NEW f \in Frames, Arrive(f)
  PROVE  /\ fifo' \in Seq(Frames) /\ Len(fifo') <= FIFO_SIZE
         /\ \A i \in DOMAIN fifo' : fifo'[i] = f \/ (i \in DOMAIN fifo /\ fifo'[i] = fifo[i])
         /\ \A i \in DOMAIN fifo :
              fifo[i] \in replaced \/ (i \in DOMAIN fifo' /\ fifo'[i] = fifo[i])
         /\ \E i \in DOMAIN fifo' : fifo'[i] = f
<1> USE ReceiveAssumption DEF ReceiveTypeOK
<1>1. CASE Len(fifo) < FIFO_SIZE
  <2>1. fifo' = Append(fifo, f)
    BY <1>1 DEF Arrive
  <2> QED BY <1>1, <2>1
<1>2. CASE ~(Len(fifo) < FIFO_SIZE)
  <2>1. fifo' = [fifo EXCEPT ![Len(fifo)] = f] /\ replaced = {fifo[Len(fifo)]}
    BY <1>2 DEF Arrive, replaced
  <2>2. Len(fifo) \in Nat \ {0} /\ Len(fifo) \in DOMAIN fifo
    BY <1>2
  <2>3. fifo' \in Seq(Frames) /\ Len(fifo') = Len(fifo) /\ DOMAIN fifo' = DOMAIN fifo
    BY <2>1, <2>2
  <2> QED BY <2>1, <2>2, <2>3
<1> QED BY <1>1, <1>2

LEMMA FifoReception ==
  ASSUME ReceiveTypeOK, fifo # <<>>
  PROVE  /\ Head(fifo) \in Frames /\ Tail(fifo) \in Seq(Frames)
         /\ Len(Tail(fifo)) <= FIFO_SIZE
         /\ \E i \in DOMAIN fifo : fifo[i] = Head(fifo)
         /\ \A i \in DOMAIN Tail(fifo) : \E j \in DOMAIN fifo : Tail(fifo)[i] = fifo[j]
         /\ \A i \in DOMAIN fifo :
              fifo[i] = Head(fifo) \/ \E j \in DOMAIN Tail(fifo) : Tail(fifo)[j] = fifo[i]
<1> USE ReceiveAssumption DEF ReceiveTypeOK
<1>1. Len(fifo) \in Nat \ {0} /\ fifo \in Seq(Frames) /\ 1 \in DOMAIN fifo /\ Head(fifo) = fifo[1]
  OBVIOUS
<1>2. /\ Tail(fifo) \in Seq(Frames) /\ Len(Tail(fifo)) = Len(fifo) - 1
      /\ \A i \in 1 .. Len(fifo) - 1 : Tail(fifo)[i] = fifo[i + 1]
  BY <1>1
<1>3. \A i \in DOMAIN fifo : i # 1 => i - 1 \in DOMAIN Tail(fifo) /\ Tail(fifo)[i - 1] = fifo[i]
  BY <1>1, <1>2
<1>4. \A i \in DOMAIN Tail(fifo) : i + 1 \in DOMAIN fifo /\ Tail(fifo)[i] = fifo[i + 1]
  BY <1>1, <1>2
<1> QED BY <1>1, <1>2, <1>3, <1>4

LEMMA ReceiveTypeStep ==
  ASSUME ReceiveTypeOK, [ReceiveNext]_receiveVars PROVE ReceiveTypeOK'
<1> USE WatchdogAssumption, ReceiveAssumption
<1>0. WatchdogTypeOK'
  BY ReceiveIsWatchdog, WatchdogTypeStep DEF ReceiveTypeOK
<1>1. ASSUME NEW f \in Frames, Arrive(f) PROVE ReceiveTypeOK'
  <2>1. lost' \in BOOLEAN
    BY <1>1, Zenon DEF Arrive
  <2>2. came' \subseteq Feeding
    BY <1>1 DEF Arrive, ReceiveTypeOK
  <2>3. busQuiet' \in 0 .. CAN_TIMEOUT_MS /\ hbQuiet' \in 0 .. CAN_TIMEOUT_MS
    BY <1>1 DEF Arrive, ReceiveTypeOK
  <2> QED BY <1>0, <1>1, <2>1, <2>2, <2>3, FifoArrival DEF Arrive, ReceiveTypeOK
<1>2. CASE Receive
  <2>1. lost' \in BOOLEAN
    BY <1>2, Zenon DEF Receive, ReceiveTypeOK
  <2>2. dc_bus_pct' \in {"none", "set"}
    BY <1>2 DEF Receive, ReceiveTypeOK
  <2> QED BY <1>0, <1>2, <2>1, <2>2, FifoReception DEF Receive, ReceiveTypeOK
<1>3. CASE Mask
  <2>1. masked' \in BOOLEAN
    BY <1>3, Zenon DEF Mask
  <2> QED BY <1>0, <1>3, <2>1 DEF Mask, ReceiveTypeOK, busVars
<1>4. CASE Access
  <2>1. busQuiet' \in 0 .. CAN_TIMEOUT_MS /\ hbQuiet' \in 0 .. CAN_TIMEOUT_MS
    BY <1>4 DEF Access, ReceiveTypeOK, cappedQuiet
  <2>2. came' \subseteq Feeding
    BY <1>4 DEF Access, ReceiveTypeOK
  <2> QED BY <1>0, <1>4, <2>1, <2>2 DEF Access, ReceiveTypeOK, rxVars
<1>5. CASE UNCHANGED receiveVars
  BY <1>0, <1>5 DEF receiveVars, rxVars, busVars, ReceiveTypeOK
<1> QED BY <1>1, <1>2, <1>3, <1>4, <1>5 DEF ReceiveNext

LEMMA ReceiveInvStep ==
  ASSUME ReceiveTypeOK, ReceiveInv, [ReceiveNext]_receiveVars PROVE ReceiveInv'
<1> USE WatchdogAssumption
<1>0. /\ quiet \in 0 .. CAN_TIMEOUT_MS /\ busQuiet \in 0 .. CAN_TIMEOUT_MS
      /\ hbQuiet \in 0 .. CAN_TIMEOUT_MS
  BY DEF ReceiveTypeOK, WatchdogTypeOK
<1>1. ASSUME NEW f \in Frames, Arrive(f) PROVE ReceiveInv'
  <2>1. /\ \A i \in DOMAIN fifo' : fifo'[i] = f \/ (i \in DOMAIN fifo /\ fifo'[i] = fifo[i])
        /\ \A i \in DOMAIN fifo :
             fifo[i] \in replaced \/ (i \in DOMAIN fifo' /\ fifo'[i] = fifo[i])
        /\ \E i \in DOMAIN fifo' : fifo'[i] = f
    BY <1>1, FifoArrival
  <2>2. /\ busQuiet' = IF f \in Feeding THEN 0 ELSE busQuiet
        /\ hbQuiet' = IF f = "HB" THEN 0 ELSE hbQuiet
        /\ lost' = (lost \/ "HB" \in replaced)
        /\ came' = IF step = "load" THEN came ELSE came \cup ({f} \cap Feeding)
        /\ UNCHANGED <<step, quiet, heard>>
    BY <1>1 DEF Arrive, wdVars
  <2>3. queued(Feeding)' => f \in Feeding \/ queued(Feeding)
    BY <2>1 DEF queued
  <2>4. ~lost' /\ ~queued({"HB"})' => f # "HB" /\ ~lost /\ ~queued({"HB"})
    BY <2>1, <2>2 DEF queued
  <2>5. came \subseteq came' /\ (f # "HB" => ("HB" \in came' => "HB" \in came))
        /\ (f \in Feeding /\ step # "load" => came' # {})
    BY <2>2
  <2> QED BY <1>0, <2>2, <2>3, <2>4, <2>5 DEF ReceiveInv
<1>2. CASE Receive
  <2>1. /\ fifo # <<>> /\ fifo' = Tail(fifo)
        /\ lost' = IF Head(fifo) = "HB" THEN FALSE ELSE lost
        /\ UNCHANGED <<busQuiet, hbQuiet, came>>
    BY <1>2 DEF Receive
  <2>2. /\ Head(fifo) \in Frames
        /\ \E i \in DOMAIN fifo : fifo[i] = Head(fifo)
        /\ \A i \in DOMAIN fifo' : \E j \in DOMAIN fifo : fifo'[i] = fifo[j]
        /\ \A i \in DOMAIN fifo :
             fifo[i] = Head(fifo) \/ \E j \in DOMAIN fifo' : fifo'[j] = fifo[i]
    BY <2>1, FifoReception
  <2>3. /\ queued(Feeding)' => queued(Feeding)
        /\ Head(fifo) \in Feeding => queued(Feeding)
        /\ ~queued({"HB"})' => Head(fifo) = "HB" \/ ~queued({"HB"})
    BY <2>2 DEF queued
  <2>4. PICK id \in identifier(Head(fifo)) :
          IF can_is_inverter_heartbeat(id) THEN OnRx ELSE UNCHANGED wdVars
    BY <1>2 DEF Receive
  <2>5. CASE id = "HB"
    <3>1. Head(fifo) \in Feeding
      BY <2>2, <2>4, <2>5 DEF identifier, Frames, Ids, Feeding
    <3>2. OnRx
      BY <2>4, <2>5 DEF can_is_inverter_heartbeat
    <3>3. heard' <=> step # "load"
      BY <3>2, Zenon DEF OnRx
    <3>4. quiet' = 0 /\ step' = step
      BY <3>2 DEF OnRx
    <3>5. queued(Feeding) /\ busQuiet = 0 /\ (step = "load" <=> came = {})
      BY <2>3, <3>1 DEF ReceiveInv
    <3> QED BY <1>0, <2>1, <3>3, <3>4, <3>5 DEF ReceiveInv
  <2>6. CASE id # "HB"
    <3>1. Head(fifo) # "HB"
      BY <2>4, <2>6 DEF identifier
    <3>2. UNCHANGED <<quiet, heard, step>>
      BY <2>4, <2>6 DEF can_is_inverter_heartbeat, wdVars
    <3> QED BY <2>1, <2>3, <3>1, <3>2 DEF ReceiveInv
  <2> QED BY <2>5, <2>6
<1>3. CASE Mask
  BY <1>3 DEF Mask, busVars, wdVars, ReceiveInv, queued
<1>4. CASE Access
  <2>1. /\ fifo = <<>> /\ fifo' = fifo /\ Update /\ lost' = lost
        /\ busQuiet' = IF step = "return" /\ came = {} THEN cappedQuiet(busQuiet + WD_PERIOD_MS)
                       ELSE busQuiet
        /\ hbQuiet' = IF step = "return" /\ "HB" \notin came
                        THEN cappedQuiet(hbQuiet + WD_PERIOD_MS) ELSE hbQuiet
        /\ came' = IF step = "return" THEN {} ELSE came
    BY <1>4 DEF Access, rxVars
  <2>2. ~queued(Feeding) /\ ~queued({"HB"}) /\ ~queued(Feeding)' /\ ~queued({"HB"})'
    BY <2>1 DEF queued
  <2>3. CASE Return
    <3>1. /\ step = "return" /\ step' = "load" /\ heard' = FALSE
          /\ quiet' = IF heard THEN quiet ELSE cappedQuiet(quiet + WD_PERIOD_MS)
      BY <2>3 DEF Return
    <3>2. \A q, r \in 0 .. CAN_TIMEOUT_MS :
            /\ q <= r => cappedQuiet(q + WD_PERIOD_MS) <= cappedQuiet(r + WD_PERIOD_MS)
            /\ q <= cappedQuiet(q + WD_PERIOD_MS)
      BY DEF cappedQuiet
    <3>3. busQuiet' <= quiet'
      <4>1. CASE came = {}
        BY <1>0, <2>1, <3>1, <3>2, <4>1 DEF ReceiveInv
      <4>2. CASE came # {}
        <5>1. busQuiet' = busQuiet /\ busQuiet <= quiet
          BY <2>1, <4>2 DEF ReceiveInv
        <5>2. quiet <= quiet' /\ quiet' \in Int
          <6>1. cappedQuiet(quiet + WD_PERIOD_MS) \in Int
            BY <1>0 DEF cappedQuiet
          <6> QED BY <1>0, <3>1, <3>2, <6>1
        <5> QED BY <1>0, <5>1, <5>2
      <4> QED BY <4>1, <4>2
    <3>4. ~lost => quiet' <= hbQuiet'
      <4> SUFFICES ASSUME ~lost PROVE quiet' <= hbQuiet'
        OBVIOUS
      <4>1. quiet <= hbQuiet /\ ("HB" \in came => heard)
        BY <2>2 DEF ReceiveInv
      <4>2. CASE "HB" \in came
        BY <1>0, <2>1, <3>1, <4>1, <4>2
      <4>3. CASE "HB" \notin came /\ heard
        <5>1. quiet' = quiet /\ hbQuiet' = cappedQuiet(hbQuiet + WD_PERIOD_MS)
          BY <2>1, <3>1, <4>3
        <5>2. hbQuiet <= hbQuiet' /\ hbQuiet' \in Int
          BY <1>0, <5>1 DEF cappedQuiet
        <5> QED BY <1>0, <4>1, <5>1, <5>2
      <4>4. CASE "HB" \notin came /\ ~heard
        <5>1. /\ quiet' = cappedQuiet(quiet + WD_PERIOD_MS)
              /\ hbQuiet' = cappedQuiet(hbQuiet + WD_PERIOD_MS)
          BY <2>1, <3>1, <4>4
        <5> QED BY <1>0, <3>2, <4>1, <5>1
      <4> QED BY <4>2, <4>3, <4>4
    <3>5. came' = {} /\ ~heard'
      BY <2>1, <3>1
    <3> QED BY <2>1, <2>2, <3>1, <3>3, <3>4, <3>5 DEF ReceiveInv
  <2>4. CASE ~Return
    <3>1. step # "return" /\ step' # "load" /\ UNCHANGED <<quiet, heard>>
      BY <2>1, <2>4 DEF Update, LoadSince, StoreSince, Compare, SetTimedOut
    <3> QED BY <2>1, <2>2, <3>1 DEF ReceiveInv
  <2> QED BY <2>3, <2>4
<1>5. CASE UNCHANGED receiveVars
  BY <1>5 DEF receiveVars, wdVars, rxVars, busVars, ReceiveInv, queued
<1> QED BY <1>1, <1>2, <1>3, <1>4, <1>5 DEF ReceiveNext

\* The watchdog among interrupts, FIFO and critical sections is the watchdog, with
\* everything that is proved of it.
THEOREM ReceptionIsWatchdog == ReceiveSpec => Spec
<1>1. ReceiveInit => Init
  BY DEF ReceiveInit
<1> QED BY <1>1, ReceiveIsWatchdog, PTL DEF ReceiveSpec, Spec

LEMMA ReceiveInvariant == ReceiveSpec => [](ReceiveTypeOK /\ ReceiveInv)
<1>1. ReceiveInit => ReceiveTypeOK /\ ReceiveInv
  BY ReceiveTyped
<1>2. (ReceiveTypeOK /\ ReceiveInv) /\ [ReceiveNext]_receiveVars
        => (ReceiveTypeOK /\ ReceiveInv)'
  BY ReceiveTypeStep, ReceiveInvStep
<1> QED BY <1>1, <1>2, PTL DEF ReceiveSpec

\* The state of reception is well typed.
THEOREM ReceptionTyped == ReceiveSpec => []ReceiveTypeOK
BY ReceiveInvariant, PTL

\* A bus without heartbeats is reported, for any timeout and size of the FIFO.
THEOREM SilentBus == ReceiveSpec => []SilentBusIsReported
<1>1. ReceiveTypeOK /\ ReceiveInv /\ SilenceIsReported => SilentBusIsReported
  BY WatchdogAssumption
     DEF ReceiveTypeOK, WatchdogTypeOK, ReceiveInv, SilenceIsReported, SilentBusIsReported
<1> QED BY <1>1, ReceiveInvariant, ReceptionIsWatchdog, WatchdogSilence, PTL

\* A timeout while heartbeats come needs a race or a loss in the FIFO.
THEOREM TimeoutByRaceOrLoss == ReceiveSpec => TimeoutNeedsRaceOrLoss
<1>1. ReceiveTypeOK /\ ReceiveInv /\ (ReceiveTypeOK /\ ReceiveInv)'
        /\ [(Return /\ fault' /\ quiet' < CAN_TIMEOUT_MS) => raced]_wdVars
        => [(Access /\ step = "return" /\ fault' /\ hbQuiet' < CAN_TIMEOUT_MS)
              => raced \/ lost]_receiveVars
  <2> SUFFICES ASSUME ReceiveTypeOK, ReceiveInv, ReceiveTypeOK', ReceiveInv',
                      [(Return /\ fault' /\ quiet' < CAN_TIMEOUT_MS) => raced]_wdVars,
                      Access, step = "return", fault', hbQuiet' < CAN_TIMEOUT_MS, ~lost
               PROVE  raced
    OBVIOUS
  <2>1. Return /\ fifo' = <<>> /\ lost' = lost
    BY DEF Access, Update, LoadSince, StoreSince, Compare, SetTimedOut, rxVars
  <2>2. ~queued({"HB"})'
    BY <2>1 DEF queued
  <2>3. quiet' <= hbQuiet'
    BY <2>1, <2>2 DEF ReceiveInv
  <2>4. quiet' \in 0 .. CAN_TIMEOUT_MS /\ hbQuiet' \in 0 .. CAN_TIMEOUT_MS
    BY DEF ReceiveTypeOK, WatchdogTypeOK
  <2>5. quiet' < CAN_TIMEOUT_MS
    BY <2>3, <2>4, WatchdogAssumption
  <2>6. step' # step
    BY <2>1 DEF Return
  <2> QED BY <2>1, <2>5, <2>6 DEF wdVars
<1> QED BY <1>1, ReceiveInvariant, ReceptionIsWatchdog, WatchdogFalseTimeout, PTL
        DEF FalseTimeoutNeedsRace, TimeoutNeedsRaceOrLoss

-------------------------------------------------------------------------------
(* Transmission                                                            *)

\* The bit pattern of a 16-bit command.
LEMMA BitPattern ==
  ASSUME NEW cmd \in Int16
  PROVE  /\ cmd % 65536 \in Nat /\ cmd % 65536 < 65536
         /\ cmd >= 0 => cmd % 65536 = cmd /\ cmd < 32768
         /\ cmd < 0 => cmd % 65536 = cmd + 65536 /\ cmd >= -32768
<1>1. cmd \in Int /\ cmd >= -32768 /\ cmd <= 32767
  BY DEF Int16
<1>2. CASE cmd >= 0
  BY <1>1, <1>2
<1>3. CASE cmd < 0
  BY <1>1, <1>3
<1> QED BY <1>1, <1>2, <1>3

LEMMA Bytes ==
  ASSUME NEW u \in Nat, u < 65536
  PROVE  /\ u % 256 \in 0 .. 255
         /\ u \div 256 \in 0 .. 255
         /\ (u % 256) + 256 * (u \div 256) = u
<1>1. u % 256 >= 0 /\ u % 256 < 256 /\ u % 256 \in Int
  OBVIOUS
<1>2. u \div 256 >= 0 /\ u \div 256 < 256 /\ u \div 256 \in Int
  OBVIOUS
<1>3. (u % 256) + 256 * (u \div 256) = u
  OBVIOUS
<1>4. \A b \in Int : b >= 0 /\ b < 256 => b \in 0 .. 255
  OBVIOUS
<1>5. u % 256 \in 0 .. 255
  BY <1>1, <1>4
<1>6. u \div 256 \in 0 .. 255
  BY <1>2, <1>4
<1> QED BY <1>3, <1>5, <1>6

\* The payload is eight bytes.
LEMMA EncodeIsPayload ==
  ASSUME NEW cmd \in Int16
  PROVE  can_encode_torque_cmd(cmd) \in Payloads
<1> DEFINE u == cmd % 65536
<1>1. u \in Nat /\ u < 65536
  BY BitPattern
<1> HIDE DEF u
<1>2. u % 256 \in 0 .. 255 /\ u \div 256 \in 0 .. 255
  BY <1>1, Bytes
<1>3. \A i \in 0 .. CAN_DLC - 1 :
        (CASE i = 0 -> u % 256 [] i = 1 -> u \div 256 [] OTHER -> 0) \in 0 .. 255
  BY <1>2
<1> QED BY <1>3 DEF can_encode_torque_cmd, Payloads, u

\* Every 16-bit command survives the codec, negative ones as two's complement.
THEOREM CodecRoundTrip ==
  ASSUME NEW cmd \in Int16
  PROVE  can_decode_torque_cmd(can_encode_torque_cmd(cmd)) = cmd
<1> DEFINE u == cmd % 65536
           buf == can_encode_torque_cmd(cmd)
<1>1. buf[0] = u % 256 /\ buf[1] = u \div 256
  BY DEF can_encode_torque_cmd, CAN_DLC
<1>2. u \in Nat /\ u < 65536 /\ cmd \in Int
      /\ (cmd >= 0 => u = cmd /\ cmd < 32768)
      /\ (cmd < 0 => u = cmd + 65536 /\ cmd >= -32768)
  BY BitPattern DEF Int16
<1> HIDE DEF buf, u
<1>3. buf[0] + 256 * buf[1] = u
  BY <1>1, <1>2, Bytes
<1>4. can_decode_torque_cmd(buf) = IF u < 32768 THEN u ELSE u - 65536
  BY <1>3 DEF can_decode_torque_cmd
<1>5. can_decode_torque_cmd(buf) = cmd
  BY <1>2, <1>4
<1> QED BY <1>5 DEF buf

LEMMA TransmitInitInv == TransmitInit => TransmitTypeOK /\ StaleInv
<1> SUFFICES ASSUME TransmitInit PROVE TransmitTypeOK /\ StaleInv
  OBVIOUS
<1> USE TransmitAssumption DEF TransmitInit
<1>1. inhibited \in BOOLEAN /\ requested \in BOOLEAN /\ canbus_tx \in BOOLEAN
  BY Zenon
<1>2. mailbox \in [Mailboxes -> {can_encode_torque_cmd(cmd) : cmd \in Commands}]
  OBVIOUS
<1> QED BY <1>1, <1>2 DEF TransmitTypeOK, StaleInv

\* The inverter decodes a command, whichever mailbox the frame was in.
LEMMA DecodesCommand ==
  ASSUME TransmitTypeOK, NEW m \in pending
  PROVE  can_decode_torque_cmd(mailbox[m]) \in Commands
<1>1. PICK cmd \in Commands : mailbox[m] = can_encode_torque_cmd(cmd)
  BY DEF TransmitTypeOK
<1> QED BY <1>1, CodecRoundTrip, TransmitAssumption

LEMMA TransmitTypeStep ==
  ASSUME TransmitTypeOK, [TransmitNext]_transmitVars PROVE TransmitTypeOK'
<1> USE TransmitAssumption DEF TransmitTypeOK, taskVars, mailboxVars, monitorVars
<1>1. CASE MonitorIterates
  <2>1. inhibited' \in BOOLEAN /\ requested' \in BOOLEAN
    BY <1>1, Zenon DEF MonitorIterates
  <2>2. torque_cmd' \in Commands /\ stale' \in Nat
        /\ UNCHANGED <<txStep, torque, canbus_tx, pending, mailbox, sending, bus, wire>>
    BY <1>1 DEF MonitorIterates
  <2> QED BY <2>1, <2>2
<1>2. CASE WaitForRequest
  <2>1. requested' \in BOOLEAN
    BY <1>2, Zenon DEF WaitForRequest
  <2> QED BY <1>2, <2>1 DEF WaitForRequest
<1>3. CASE TestGate
  BY <1>3 DEF TestGate, afterGate
<1>4. CASE LoadCommand
  BY <1>4 DEF LoadCommand
<1>5. CASE AddTxMessage
  <2>1. canbus_tx' \in BOOLEAN
    BY <1>5, Zenon DEF AddTxMessage, refused
  <2>2. /\ pending' \subseteq Mailboxes /\ pending \subseteq pending'
        /\ mailbox' \in [Mailboxes -> {can_encode_torque_cmd(cmd) : cmd \in Commands}]
    BY <1>5 DEF AddTxMessage
  <2> QED BY <1>5, <2>1, <2>2 DEF AddTxMessage
<1>6. CASE StartFrame
  BY <1>6 DEF StartFrame
<1>7. ASSUME NEW m \in sending, release(m)
      PROVE  /\ pending' \subseteq Mailboxes /\ sending' \subseteq pending'
             /\ mailbox' \in [Mailboxes -> {can_encode_torque_cmd(cmd) : cmd \in Commands}]
  BY <1>7 DEF release
<1>8. CASE Deliver
  <2>1. PICK m \in sending :
          /\ release(m) /\ wire' = can_decode_torque_cmd(mailbox[m])
          /\ stale' \in {stale, stale + 1}
          /\ UNCHANGED <<torque_cmd, inhibited, requested, txStep, torque, canbus_tx, bus>>
    BY <1>8 DEF Deliver
  <2>2. wire' \in Commands
    BY <2>1, DecodesCommand
  <2> QED BY <1>7, <2>1, <2>2
<1>9. CASE Lose \/ BusOff
  <2>1. PICK m \in sending :
          /\ release(m) /\ bus' \in {bus, "off"}
          /\ UNCHANGED <<torque_cmd, inhibited, requested, txStep, torque, canbus_tx, wire,
                         stale>>
    BY <1>9 DEF Lose, BusOff
  <2> QED BY <1>7, <2>1
<1>10. CASE UNCHANGED transmitVars
  BY <1>10 DEF transmitVars
<1> QED BY <1>1, <1>2, <1>3, <1>4, <1>5, <1>6, <1>8, <1>9, <1>10
        DEF TransmitNext, CanTaskSteps

\* At most the mailboxes are loaded.
LEMMA LoadedBounds ==
  ASSUME TransmitTypeOK
  PROVE  /\ Loaded \subseteq Mailboxes /\ IsFiniteSet(Loaded)
         /\ Cardinality(Loaded) \in Nat /\ Cardinality(Mailboxes) \in Nat
         /\ Cardinality(Loaded) <= Cardinality(Mailboxes)
<1>1. Loaded \subseteq Mailboxes
  BY DEF Loaded, TransmitTypeOK
<1> QED BY <1>1, TransmitAssumption, FS_Subset, FS_CardinalityType

LEMMA StaleStep ==
  ASSUME TransmitTypeOK, TransmitTypeOK', StaleInv, [TransmitNext]_transmitVars
  PROVE  StaleInv'
<1> USE DEF taskVars, mailboxVars, monitorVars
<1> DEFINE C == Cardinality(Mailboxes)
           L == Cardinality(Loaded)
<1>0. /\ C \in Nat /\ L \in Nat /\ L <= C /\ stale \in Nat /\ IsFiniteSet(Loaded)
      /\ Cardinality(Loaded)' \in Nat /\ Cardinality(Loaded)' <= C
      /\ OnItsWay \in {0, 1}
  <2>1. Loaded' \subseteq Mailboxes
    BY DEF Loaded, TransmitTypeOK
  <2>2. Cardinality(Loaded)' \in Nat /\ Cardinality(Loaded)' <= C
    BY <2>1, TransmitAssumption, FS_Subset, FS_CardinalityType
  <2> QED BY <2>2, LoadedBounds DEF TransmitTypeOK, OnItsWay
<1>1. CASE MonitorIterates
  <2>1. /\ UNCHANGED <<pending, mailbox, txStep, torque>>
        /\ stale' = IF inhibited /\ inhibited' THEN stale ELSE 0
    BY <1>1 DEF MonitorIterates
  <2>2. Loaded' = Loaded /\ OnItsWay' = OnItsWay
    BY <2>1 DEF Loaded, OnItsWay
  <2> HIDE DEF L, C
  <2>3. L + OnItsWay <= C + 1
    BY <1>0
  <2> QED BY <1>0, <2>1, <2>2, <2>3 DEF StaleInv, L, C
<1>2. CASE WaitForRequest
  <2>1. Loaded' = Loaded /\ OnItsWay' = OnItsWay
    BY <1>2 DEF WaitForRequest, Loaded, OnItsWay
  <2> QED BY <1>2, <2>1 DEF WaitForRequest, StaleInv
<1>3. CASE TestGate
  <2>1. Loaded' = Loaded
    BY <1>3 DEF TestGate, afterGate, Loaded
  <2>2. inhibited => OnItsWay' = OnItsWay
    <3> SUFFICES ASSUME inhibited PROVE OnItsWay' = OnItsWay
      OBVIOUS
    <3>1. txStep = "gate" /\ txStep' = "send" /\ torque' = torque /\ torque = 0
      BY <1>3 DEF TestGate, afterGate, gateShut, StaleInv
    <3> QED BY <3>1 DEF OnItsWay
  <2> QED BY <1>3, <2>1, <2>2 DEF TestGate, StaleInv
<1>4. CASE LoadCommand
  <2>1. Loaded' = Loaded /\ OnItsWay' <= OnItsWay /\ OnItsWay' \in {0, 1}
    BY <1>4 DEF LoadCommand, Loaded, OnItsWay
  <2> QED BY <1>0, <1>4, <2>1 DEF LoadCommand, StaleInv
<1>5. CASE AddTxMessage
  <2>1. /\ txStep = "send" /\ txStep' = "wait" /\ OnItsWay' = 0
        /\ UNCHANGED <<inhibited, stale>>
    BY <1>5 DEF AddTxMessage, OnItsWay
  <2>2. Cardinality(Loaded)' <= L + OnItsWay
    <3>1. CASE UNCHANGED <<mailbox, pending>>
      BY <1>0, <3>1 DEF Loaded
    <3>2. ASSUME NEW m \in Mailboxes \ pending,
                 mailbox' = [mailbox EXCEPT ![m] = can_encode_torque_cmd(torque)],
                 pending' = pending \cup {m}
          PROVE  Cardinality(Loaded)' <= L + OnItsWay
      <4>1. mailbox'[m] = can_encode_torque_cmd(torque)
            /\ \A k \in pending : mailbox'[k] = mailbox[k]
        BY <3>2 DEF TransmitTypeOK
      <4>2. can_decode_torque_cmd(mailbox'[m]) = torque
        BY <4>1, CodecRoundTrip, TransmitAssumption DEF TransmitTypeOK
      <4>3. m \notin Loaded
        BY <3>2 DEF Loaded
      <4>4. Loaded' = {k \in pending' : can_decode_torque_cmd(mailbox'[k]) # 0}
        BY DEF Loaded
      <4>5. CASE torque # 0
        <5>1. Loaded' = Loaded \cup {m}
          BY <3>2, <4>1, <4>2, <4>4, <4>5 DEF Loaded
        <5>2. Cardinality(Loaded)' = L + 1
          BY <1>0, <4>3, <5>1, FS_AddElement
        <5> QED BY <1>0, <2>1, <4>5, <5>2 DEF OnItsWay
      <4>6. CASE torque = 0
        <5>1. Loaded' = Loaded
          BY <3>2, <4>1, <4>2, <4>4, <4>6 DEF Loaded
        <5> QED BY <1>0, <5>1
      <4> QED BY <4>5, <4>6
    <3> QED BY <1>5, <3>1, <3>2 DEF AddTxMessage
  <2>3. txStep' # "send" => torque' = 0
    BY <1>5 DEF AddTxMessage
  <2>4. inhibited => stale + L + OnItsWay <= C + 1
    BY DEF StaleInv
  <2> HIDE DEF L, C
  <2> QED BY <1>0, <2>1, <2>2, <2>3, <2>4 DEF StaleInv, C
<1>6. CASE StartFrame
  <2>1. Loaded' = Loaded /\ OnItsWay' = OnItsWay
    BY <1>6 DEF StartFrame, Loaded, OnItsWay
  <2> QED BY <1>6, <2>1 DEF StartFrame, StaleInv
<1>7. ASSUME NEW m \in sending, release(m) PROVE Loaded' = Loaded \ {m}
  BY <1>7 DEF release, Loaded, TransmitTypeOK
<1>8. CASE Deliver
  <2>1. PICK m \in sending :
          /\ release(m)
          /\ stale' = IF inhibited /\ can_decode_torque_cmd(mailbox[m]) # 0 THEN stale + 1
                      ELSE stale
          /\ UNCHANGED <<inhibited, txStep, torque>>
    BY <1>8 DEF Deliver
  <2>2. OnItsWay' = OnItsWay /\ Loaded' = Loaded \ {m}
    BY <1>7, <2>1 DEF OnItsWay
  <2>3. m \in Loaded <=> can_decode_torque_cmd(mailbox[m]) # 0
    BY DEF Loaded, TransmitTypeOK
  <2>4. Cardinality(Loaded)' = IF m \in Loaded THEN L - 1 ELSE L
    BY <1>0, <2>2, FS_RemoveElement
  <2> HIDE DEF L
  <2> QED BY <1>0, <2>1, <2>2, <2>3, <2>4 DEF StaleInv, L
<1>9. CASE Lose \/ BusOff
  <2>1. PICK m \in sending : release(m) /\ UNCHANGED <<inhibited, txStep, torque, stale>>
    BY <1>9 DEF Lose, BusOff
  <2>2. OnItsWay' = OnItsWay /\ Loaded' = Loaded \ {m}
    BY <1>7, <2>1 DEF OnItsWay
  <2>3. Cardinality(Loaded)' <= L
    BY <1>0, <2>2, FS_RemoveElement
  <2> HIDE DEF L
  <2> QED BY <1>0, <2>1, <2>2, <2>3 DEF StaleInv, L
<1>10. CASE UNCHANGED transmitVars
  BY <1>10 DEF transmitVars, StaleInv, Loaded, OnItsWay
<1> QED BY <1>1, <1>2, <1>3, <1>4, <1>5, <1>6, <1>8, <1>9, <1>10
        DEF TransmitNext, CanTaskSteps

LEMMA TransmitInvariant == TransmitSpec => [](TransmitTypeOK /\ StaleInv)
<1>1. TransmitInit => TransmitTypeOK /\ StaleInv
  BY TransmitInitInv
<1>2. (TransmitTypeOK /\ StaleInv) /\ [TransmitNext]_transmitVars
        => (TransmitTypeOK /\ StaleInv)'
  BY TransmitTypeStep, StaleStep
<1> QED BY <1>1, <1>2, PTL DEF TransmitSpec

\* What the inverter decodes is always a command the monitor can compute.
THEOREM TransmissionTyped == TransmitSpec => []TransmitTypeOK
BY TransmitInvariant, PTL

\* Inhibited torque ends after a bounded number of frames, in whatever order the
\* mailboxes leave.
THEOREM StaleFrames == TransmitSpec => []StaleFramesBounded
<1>1. TransmitTypeOK /\ StaleInv => StaleFramesBounded
  <2> SUFFICES ASSUME TransmitTypeOK, StaleInv, inhibited
               PROVE  stale <= Cardinality(Mailboxes) + 1
    BY DEF StaleFramesBounded
  <2>1. OnItsWay \in {0, 1} /\ stale \in Nat
    BY DEF OnItsWay, TransmitTypeOK
  <2> QED BY <2>1, LoadedBounds DEF StaleInv
<1> QED BY <1>1, TransmitInvariant, PTL

-------------------------------------------------------------------------------
(* The edge counter                                                        *)

EdgesInv ==
  /\ half \in {"load", "store"}
  /\ pulses \in Nat /\ n \in Nat /\ edges \in Nat /\ counted \in Nat /\ between \in Nat
  /\ EdgesAccounted
  /\ half = "store" => counted + n + between = edges

\* No edge is counted twice, and none is lost but between the halves of an update,
\* for any number of edges.
THEOREM EdgesAreAccounted == SpeedSpec => []EdgesAccounted
<1>1. SpeedInit => EdgesInv
  BY DEF SpeedInit, EdgesInv, EdgesAccounted
<1>2. EdgesInv /\ [SpeedNext]_speedVars => EdgesInv'
  <2> SUFFICES ASSUME EdgesInv, [SpeedNext]_speedVars PROVE EdgesInv'
    OBVIOUS
  <2> USE DEF EdgesInv, EdgesAccounted
  <2>1. CASE OnEdge
    BY <2>1 DEF OnEdge
  <2>2. CASE LoadPulses
    BY <2>2 DEF LoadPulses
  <2>3. CASE StorePulses
    BY <2>3 DEF StorePulses, remaining
  <2>4. CASE UNCHANGED speedVars
    BY <2>4 DEF speedVars
  <2> QED BY <2>1, <2>2, <2>3, <2>4 DEF SpeedNext
<1>3. EdgesInv => EdgesAccounted
  BY DEF EdgesInv
<1> QED BY <1>1, <1>2, <1>3, PTL DEF SpeedSpec
===============================================================================
