------------------------------ MODULE Kernel_proofs ------------------------------
(* Proofs about the kernel's tick and delays, for every set of tasks, every  *)
(* period and every width of the tick counter.                               *)
EXTENDS Kernel, TLAPS

\* Unsigned arithmetic stays in its range, and a difference is undone by a sum.
LEMMA TickArithmetic ==
  ASSUME NEW a \in 0 .. TICKS - 1, NEW b \in 0 .. TICKS - 1
  PROVE  /\ plus(a, b) \in 0 .. TICKS - 1
         /\ minus(a, b) \in 0 .. TICKS - 1
         /\ plus(b, minus(a, b)) = a
         /\ minus(plus(a, b), a) = b
         /\ a # b => minus(a, b) # 0
BY KernelAssumption DEF plus, minus

LEMMA PeriodBounds ==
  ASSUME NEW t \in Timed
  PROVE  /\ PERIOD[t] \in 1 .. TICKS - 1
         /\ 2 * (PERIOD[t] + MAX_LATE) < TICKS
         /\ MAX_LATE \in Nat /\ TICKS \in Nat
BY KernelAssumption DEF Timed

\* The head of a list of delayed tasks is not later than any of them.
LEMMA EarliestIsFirst ==
  ASSUME wake \in [Tasks -> 0 .. TICKS - 1],
         NEW lists, NEW m \in Earliest(lists)
  PROVE  /\ m \in 0 .. TICKS - 1
         /\ \A t \in Tasks : lists[t] = "delayed" => m <= wake[t]
<1>1. CASE delayed(lists) = {}
  BY <1>1, KernelAssumption DEF Earliest, delayed, portMAX_DELAY
<1>2. CASE delayed(lists) # {}
  <2>1. m \in {wake[t] : t \in delayed(lists)} /\ \A t \in delayed(lists) : m <= wake[t]
    BY <1>2 DEF Earliest
  <2> QED BY <2>1 DEF delayed
<1> QED BY <1>1, <1>2

TickVarsOK ==
  /\ xTickCount \in 0 .. TICKS - 1
  /\ where \in [Tasks -> {"ready", "delayed", "overflow", "suspended"}]
  /\ wake \in [Tasks -> 0 .. TICKS - 1]
  /\ xNextTaskUnblockTime \in 0 .. TICKS - 1

\* A counted tick brings every sleeping task one tick nearer to its waking, and
\* wakes exactly those that had one left.
LEMMA TickLemma ==
  ASSUME TickVarsOK, ListsInv, CountTick
  PROVE  /\ TickVarsOK' /\ ListsInv'
         /\ xTickCount' = plus(xTickCount, 1)
         /\ \A t \in Tasks :
              /\ where[t] \in {"ready", "suspended"} => where'[t] = where[t]
              /\ where[t] \in {"delayed", "overflow"} =>
                   IF Left(t) = 1 THEN where'[t] = "ready" /\ Left(t)' = 0
                   ELSE where'[t] \in {"delayed", "overflow"} /\ Left(t)' = Left(t) - 1
<1> DEFINE now == plus(xTickCount, 1)
           lists == switched(now)
<1> USE DEF TickVarsOK
<1>0. TICKS \in Nat \ {0} /\ now \in 0 .. TICKS - 1
      /\ (now = 0 <=> xTickCount = TICKS - 1) /\ (now # 0 => now = xTickCount + 1)
  BY KernelAssumption DEF plus
<1>1. PICK unblock \in (IF now = 0 THEN Earliest(lists) ELSE {xNextTaskUnblockTime}) :
        LET due == IF now >= unblock THEN dueBy(now, lists) ELSE {}
        IN  /\ xTickCount' = now
            /\ where' = [t \in Tasks |-> IF t \in due THEN "ready" ELSE lists[t]]
            /\ wake' = [t \in Tasks |-> IF t \in due THEN 0 ELSE wake[t]]
            /\ xNextTaskUnblockTime' \in
                 IF now >= unblock THEN Earliest(where') ELSE {unblock}
  BY DEF CountTick
<1> DEFINE due == IF now >= unblock THEN dueBy(now, lists) ELSE {}
<1>2. /\ xTickCount' = now
      /\ where' = [t \in Tasks |-> IF t \in due THEN "ready" ELSE lists[t]]
      /\ wake' = [t \in Tasks |-> IF t \in due THEN 0 ELSE wake[t]]
      /\ xNextTaskUnblockTime' \in IF now >= unblock THEN Earliest(where') ELSE {unblock}
  BY <1>1
<1>3. \A t \in Tasks : lists[t] = IF now # 0 THEN where[t]
        ELSE CASE where[t] = "delayed" -> "overflow"
               [] where[t] = "overflow" -> "delayed" [] OTHER -> where[t]
  BY DEF switched
<1>4. \A t \in Tasks : lists[t] = "delayed" =>
         /\ wake[t] >= now
         /\ where[t] \in {"delayed", "overflow"}
         /\ Left(t) = wake[t] - now + 1
         /\ unblock <= wake[t]
  <2>1. now = 0 => \A t \in Tasks : lists[t] = "delayed" => unblock <= wake[t]
    BY <1>1, EarliestIsFirst
  <2> QED BY <1>0, <1>1, <1>3, <2>1 DEF Left, ListsInv
<1>5. \A t \in Tasks : lists[t] = "overflow" =>
         /\ now # 0 /\ where[t] = "overflow" /\ wake[t] < now
         /\ Left(t) = wake[t] + TICKS - now + 1 /\ Left(t) # 1
  BY <1>0, <1>3 DEF Left, ListsInv
<1>6. unblock \in 0 .. TICKS - 1
  <2>1. CASE now = 0
    BY <2>1, <1>1, EarliestIsFirst
  <2>2. CASE now # 0
    BY <2>2, <1>1
  <2> QED BY <2>1, <2>2
<1>7. \A t \in Tasks : t \in due <=> lists[t] = "delayed" /\ wake[t] = now
  <2> SUFFICES ASSUME NEW t \in Tasks
               PROVE  t \in due <=> lists[t] = "delayed" /\ wake[t] = now
    OBVIOUS
  <2>1. t \in due <=> now >= unblock /\ lists[t] = "delayed" /\ wake[t] <= now
    BY DEF dueBy, delayed
  <2>2. lists[t] = "delayed" => wake[t] >= now /\ unblock <= wake[t]
    BY <1>4
  <2> HIDE DEF due, lists, now
  <2> QED BY <2>1, <2>2, <1>0, <1>6
<1>8. \A t \in Tasks : /\ where'[t] = IF t \in due THEN "ready" ELSE lists[t]
                       /\ wake'[t] = IF t \in due THEN 0 ELSE wake[t]
  BY <1>2
<1>9. wake' \in [Tasks -> 0 .. TICKS - 1]
  BY <1>0, <1>2
<1>10. where' \in [Tasks -> {"ready", "delayed", "overflow", "suspended"}]
  <2>1. \A t \in Tasks : lists[t] \in {"ready", "delayed", "overflow", "suspended"}
    BY <1>3
  <2> HIDE DEF lists, due
  <2> QED BY <1>2, <2>1
<1>11. /\ xNextTaskUnblockTime' \in 0 .. TICKS - 1
       /\ \A t \in Tasks : where'[t] = "delayed" =>
            wake'[t] > now /\ wake'[t] >= xNextTaskUnblockTime'
  <2>1. \A t \in Tasks : where'[t] = "delayed" =>
          lists[t] = "delayed" /\ wake'[t] = wake[t] /\ wake[t] # now
    BY <1>7, <1>8
  <2>2. \A t \in Tasks : where'[t] = "delayed" => wake'[t] > now /\ unblock <= wake'[t]
    BY <2>1, <1>4, <1>0
  <2>3. CASE now >= unblock
    <3>1. xNextTaskUnblockTime' \in Earliest(where')
      BY <2>3, <1>2
    <3>2. /\ xNextTaskUnblockTime' \in 0 .. TICKS - 1
          /\ \A t \in Tasks : where'[t] = "delayed" => xNextTaskUnblockTime' <= wake[t]
      BY <3>1, EarliestIsFirst
    <3> QED BY <3>2, <2>1, <2>2, <1>0
  <2>4. CASE ~(now >= unblock)
    BY <2>4, <1>2, <2>2, <1>6
  <2> QED BY <2>3, <2>4
<1>12. \A t \in Tasks : where'[t] = "overflow" => lists[t] = "overflow" /\ wake'[t] < now
  BY <1>5, <1>7, <1>8
<1>13. TickVarsOK' /\ ListsInv'
  BY <1>0, <1>2, <1>9, <1>10, <1>11, <1>12 DEF ListsInv
<1>14. ASSUME NEW t \in Tasks
       PROVE  /\ where[t] \in {"ready", "suspended"} => where'[t] = where[t]
              /\ where[t] \in {"delayed", "overflow"} =>
                   IF Left(t) = 1 THEN where'[t] = "ready" /\ Left(t)' = 0
                   ELSE where'[t] \in {"delayed", "overflow"} /\ Left(t)' = Left(t) - 1
  <2>1. CASE where[t] \in {"ready", "suspended"}
    BY <2>1, <1>3, <1>7, <1>8
  <2>2. CASE where[t] \in {"delayed", "overflow"}
    <3>1. lists[t] \in {"delayed", "overflow"}
      BY <2>2, <1>3
    <3>2. CASE lists[t] = "delayed"
      <4>1. Left(t) = 1 <=> t \in due
        BY <3>2, <1>4, <1>7, <1>0
      <4>2. t \in due => where'[t] = "ready"
        BY <1>8
      <4>3. t \notin due => where'[t] = "delayed" /\ wake'[t] = wake[t]
        BY <1>8, <3>2
      <4> HIDE DEF due, lists, now
      <4> QED BY <2>2, <3>2, <4>1, <4>2, <4>3, <1>2, <1>4, <1>0 DEF Left
    <3>3. CASE lists[t] = "overflow"
      <4>1. where'[t] = "overflow" /\ wake'[t] = wake[t]
        BY <3>3, <1>7, <1>8
      <4>2. Left(t) = wake[t] + TICKS - now + 1 /\ Left(t) # 1
        BY <3>3, <1>5
      <4> HIDE DEF due, lists, now
      <4> QED BY <2>2, <4>1, <4>2, <1>2, <1>0 DEF Left
    <3> QED BY <3>1, <3>2, <3>3
  <2> QED BY <2>1, <2>2
<1> QED BY <1>2, <1>13, <1>14

\* A task that calls a delay sleeps the ticks it asked for; nobody else's sleep
\* changes.
LEMMA SleepLemma ==
  ASSUME TickVarsOK, ListsInv, NEW t \in Timed, NEW n \in 1 .. TICKS - 1,
         AddCurrentTaskToDelayedList(t, n)
  PROVE  /\ TickVarsOK' /\ ListsInv' /\ UNCHANGED xTickCount
         /\ where'[t] \in {"delayed", "overflow"} /\ Left(t)' = n
         /\ \A u \in Tasks \ {t} : where'[u] = where[u] /\ Left(u)' = Left(u)
<1> DEFINE time == plus(xTickCount, n)
<1> USE DEF TickVarsOK
<1>0. TICKS \in Nat \ {0} /\ t \in Tasks
  BY KernelAssumption DEF Timed
<1>1. time \in 0 .. TICKS - 1
      /\ time = IF xTickCount + n < TICKS THEN xTickCount + n ELSE xTickCount + n - TICKS
  BY <1>0 DEF plus
<1>2. /\ wake' = [wake EXCEPT ![t] = time]
      /\ where' = [where EXCEPT ![t] = IF time < xTickCount THEN "overflow" ELSE "delayed"]
      /\ xNextTaskUnblockTime' =
           IF ~(time < xTickCount) /\ time < xNextTaskUnblockTime
             THEN time ELSE xNextTaskUnblockTime
      /\ xTickCount' = xTickCount
  BY DEF AddCurrentTaskToDelayedList, listOf
<1> HIDE DEF time
<1>3. TickVarsOK'
  BY <1>0, <1>1, <1>2
<1>4. /\ wake'[t] = time
      /\ where'[t] = IF time < xTickCount THEN "overflow" ELSE "delayed"
      /\ \A u \in Tasks \ {t} : wake'[u] = wake[u] /\ where'[u] = where[u]
  BY <1>0, <1>2
<1>5. Left(t)' = n
  BY <1>0, <1>1, <1>2, <1>4 DEF Left
<1>6. \A u \in Tasks \ {t} : Left(u)' = Left(u)
  BY <1>2, <1>4 DEF Left
<1>7. ListsInv'
  <2> SUFFICES ASSUME NEW u \in Tasks
               PROVE  /\ where'[u] = "delayed" =>
                           wake'[u] > xTickCount' /\ wake'[u] >= xNextTaskUnblockTime'
                      /\ where'[u] = "overflow" => wake'[u] < xTickCount'
    BY DEF ListsInv
  <2>1. CASE u = t
    BY <2>1, <1>0, <1>1, <1>2, <1>4
  <2>2. CASE u # t
    <3>1. wake'[u] = wake[u] /\ where'[u] = where[u]
      BY <2>2, <1>4
    <3>2. wake[u] \in 0 .. TICKS - 1
      OBVIOUS
    <3> QED BY <3>1, <3>2, <1>1, <1>2 DEF ListsInv
  <2> QED BY <2>1, <2>2
<1> QED BY <1>2, <1>3, <1>4, <1>5, <1>6, <1>7

\* The part of the invariant about sleeping tasks.
LEMMA SleepingLeft ==
  ASSUME KernelTypeOK, ListsInv, NEW t \in Tasks
  PROVE  /\ Left(t) \in 0 .. TICKS - 1
         /\ Left(t) > 0 <=> where[t] \in {"delayed", "overflow"}
BY KernelAssumption DEF KernelTypeOK, ListsInv, Left

LEMMA TypedTickVars == KernelTypeOK => TickVarsOK
BY DEF KernelTypeOK, TickVarsOK

-------------------------------------------------------------------------------

LEMMA KernelInitInv == KernelInit => KernelTypeOK /\ KernelInv
<1> SUFFICES ASSUME KernelInit PROVE KernelTypeOK /\ KernelInv
  OBVIOUS
<1> USE KernelAssumption DEF KernelInit
<1>1. \A t \in Periodic : PERIOD[t] \in Nat
  OBVIOUS
<1>2. pxCurrentTCB \in Tasks
  BY DEF Highest
<1>3. KernelTypeOK
  <2>1. elapsed \in [Periodic -> Nat]
    BY <1>1
  <2>2. /\ entry \in [Periodic -> 0 .. TICKS - 1] /\ tcnt \in [Periodic -> 0 .. TICKS - 1]
        /\ wake \in [Tasks -> 0 .. TICKS - 1]
    OBVIOUS
  <2>3. xYieldPending \in BOOLEAN /\ notified \in BOOLEAN
    BY Zenon
  <2>4. portMAX_DELAY \in 0 .. TICKS - 1
    BY DEF portMAX_DELAY
  <2> QED BY <1>2, <2>1, <2>2, <2>3, <2>4 DEF KernelTypeOK
<1>4. /\ ListsInv /\ NotifyInv
      /\ \A t \in Tasks : Placed(t)
      /\ \A t \in Periodic : Counting(t)
  BY DEF ListsInv, Placed, Counting, NotifyInv
<1>5. SchedulerInv /\ HighestReadyRuns
  BY <1>2 DEF SchedulerInv, HighestReadyRuns
<1>6. \A t \in Periodic : Rested(t)
  BY <1>1 DEF Rested, age
<1> QED BY <1>3, <1>4, <1>5, <1>6 DEF KernelInv

\* What a counted tick does to the parts of the invariant that speak of time,
\* in the interrupt and while the pended ticks are unwound.
LEMMA AgeLemma ==
  ASSUME KernelTypeOK, KernelInv, CountTick, UNCHANGED <<pc, entry, tcnt>>,
         \A t \in Periodic : age(t)' = age(t) + 1,
         \A t \in Periodic : pc[t] \in {"notify", "until", "delayuntil"} =>
            elapsed'[t] <= PERIOD[t] + MAX_LATE /\ age(t)' <= PERIOD[t] + MAX_LATE
  PROVE  /\ ListsInv' /\ \A t \in Tasks : Placed(t)'
         /\ \A t \in Periodic : Counting(t)' /\ Rested(t)'
<1> USE DEF KernelInv
<1>1. /\ TickVarsOK' /\ ListsInv' /\ xTickCount' = plus(xTickCount, 1)
      /\ \A t \in Tasks :
           /\ where[t] \in {"ready", "suspended"} => where'[t] = where[t]
           /\ where[t] \in {"delayed", "overflow"} =>
                IF Left(t) = 1 THEN where'[t] = "ready" /\ Left(t)' = 0
                ELSE where'[t] \in {"delayed", "overflow"} /\ Left(t)' = Left(t) - 1
  BY TickLemma, TypedTickVars
<1>2. \A t \in Tasks : where[t] \in {"ready", "suspended", "delayed", "overflow"}
  BY DEF KernelTypeOK
<1>3. \A t \in Tasks : Placed(t)'
  <2>1. \A t \in Tasks : /\ where'[t] \in {"delayed", "overflow"}
                              => where[t] \in {"delayed", "overflow"}
                         /\ where'[t] = "suspended" => where[t] = "suspended"
    BY <1>1, <1>2
  <2> QED BY <2>1 DEF Placed
<1>4. \A t \in Periodic : Counting(t)'
  <2> SUFFICES ASSUME NEW t \in Periodic, pc[t] \in {"notify", "until", "delayuntil"}
               PROVE  /\ where'[t] = "ready"
                      /\ age(t)' \in 0 .. PERIOD[t] + MAX_LATE
                      /\ elapsed'[t] <= PERIOD[t] + MAX_LATE
                      /\ minus(xTickCount', entry[t]) = age(t)'
                      /\ pc[t] = "delayuntil" =>
                           /\ minus(tcnt[t], entry[t]) <= age(t)'
                           /\ minus(tcnt[t], entry[t]) < PERIOD[t]
    BY DEF Counting
  <2>1. t \in Tasks /\ PERIOD[t] \in 1 .. TICKS - 1
        /\ 2 * (PERIOD[t] + MAX_LATE) < TICKS /\ MAX_LATE \in Nat /\ TICKS \in Nat
    BY KernelAssumption, PeriodBounds DEF Timed
  <2>2. where'[t] = "ready"
    BY <1>1, <2>1 DEF Counting
  <2>3. /\ elapsed'[t] <= PERIOD[t] + MAX_LATE /\ age(t)' <= PERIOD[t] + MAX_LATE
        /\ age(t)' = age(t) + 1
    OBVIOUS
  <2>4. /\ age(t) \in 0 .. PERIOD[t] + MAX_LATE
        /\ minus(xTickCount, entry[t]) = age(t)
        /\ pc[t] = "delayuntil" => /\ minus(tcnt[t], entry[t]) <= age(t)
                                   /\ minus(tcnt[t], entry[t]) < PERIOD[t]
    BY DEF Counting
  <2>5. elapsed[t] \in Nat /\ xPendedTicks \in Nat
    BY KernelAssumption DEF KernelTypeOK
  <2>6. entry[t] \in 0 .. TICKS - 1 /\ tcnt[t] \in 0 .. TICKS - 1
        /\ xTickCount \in 0 .. TICKS - 1
    BY DEF KernelTypeOK
  <2>7. age(t)' \in 0 .. PERIOD[t] + MAX_LATE
    <3> HIDE DEF age
    <3> QED BY <2>1, <2>3, <2>4
  <2>8. minus(xTickCount', entry[t]) = age(t) + 1
    BY <1>1, <2>1, <2>3, <2>4, <2>6, <2>7 DEF minus, plus
  <2>9. minus(tcnt[t], entry[t]) \in 0 .. TICKS - 1
    BY <2>6, TickArithmetic
  <2> QED BY <2>1, <2>2, <2>3, <2>4, <2>7, <2>8, <2>9
<1>5. \A t \in Periodic : Rested(t)'
  <2> SUFFICES ASSUME NEW t \in Periodic, pc[t] \in {"start", "resume", "yield"}
               PROVE  IF where'[t] = "ready" THEN age(t)' >= PERIOD[t]
                      ELSE age(t)' + Left(t)' = PERIOD[t]
    BY DEF Rested
  <2>1. t \in Tasks /\ t # Waiter /\ PERIOD[t] \in Nat
    BY KernelAssumption
  <2>2. elapsed[t] \in Nat /\ xPendedTicks \in Nat
    BY KernelAssumption DEF KernelTypeOK
  <2>3. age(t) \in Int /\ age(t)' = age(t) + 1
    BY <2>2 DEF age
  <2>4. Left(t) \in Nat
    BY <2>1, SleepingLeft, KernelAssumption
  <2>5. where[t] \in {"ready", "delayed", "overflow"}
    BY <1>2, <2>1 DEF Placed
  <2>6. CASE where[t] = "ready"
    <3>1. where'[t] = "ready" /\ age(t) >= PERIOD[t]
      BY <2>1, <2>6, <1>1 DEF Rested
    <3> QED BY <3>1, <2>1, <2>3
  <2>7. CASE where[t] \in {"delayed", "overflow"}
    <3>1. age(t) + Left(t) = PERIOD[t]
      BY <2>7 DEF Rested
    <3>2. CASE Left(t) = 1
      BY <3>1, <3>2, <2>1, <2>3, <2>7, <1>1
    <3>3. CASE Left(t) # 1
      BY <3>1, <3>3, <2>1, <2>3, <2>4, <2>7, <1>1
    <3> QED BY <3>2, <3>3
  <2> QED BY <2>5, <2>6, <2>7
<1> QED BY <1>1, <1>3, <1>4, <1>5

-------------------------------------------------------------------------------

\* vTaskDelayUntil sleeps exactly what is left of the period, and does not sleep
\* when nothing is, wherever the count has got to elapsed osDelayUntil read it.
LEMMA DelayUntilLemma ==
  ASSUME KernelTypeOK, KernelInv, NEW t \in Periodic, vTaskDelayUntil(t)
  PROVE  \/ /\ age(t) < PERIOD[t]
            /\ PERIOD[t] - age(t) \in 1 .. TICKS - 1
            /\ AddCurrentTaskToDelayedList(t, PERIOD[t] - age(t))
         \/ age(t) >= PERIOD[t] /\ UNCHANGED delayVars
<1> DEFINE time == plus(entry[t], PERIOD[t])
           ahead == IF xTickCount < tcnt[t] THEN time < tcnt[t] /\ time > xTickCount
                    ELSE time < tcnt[t] \/ time > xTickCount
<1>1. IF ahead THEN AddCurrentTaskToDelayedList(t, minus(time, xTickCount))
      ELSE UNCHANGED delayVars
  BY DEF vTaskDelayUntil
<1>2. /\ PERIOD[t] \in 1 .. TICKS - 1 /\ 2 * (PERIOD[t] + MAX_LATE) < TICKS
      /\ MAX_LATE \in Nat /\ TICKS \in Nat
  BY PeriodBounds DEF Timed
<1>3. /\ entry[t] \in 0 .. TICKS - 1 /\ tcnt[t] \in 0 .. TICKS - 1
      /\ xTickCount \in 0 .. TICKS - 1
  BY DEF KernelTypeOK
<1>4. /\ age(t) \in 0 .. PERIOD[t] + MAX_LATE
      /\ minus(xTickCount, entry[t]) = age(t)
      /\ minus(tcnt[t], entry[t]) <= age(t) /\ minus(tcnt[t], entry[t]) < PERIOD[t]
  BY DEF vTaskDelayUntil, KernelInv, Counting, at
<1>5. ahead <=> age(t) < PERIOD[t]
  <2> HIDE DEF age
  <2> QED BY <1>2, <1>3, <1>4 DEF minus, plus
<1>6. age(t) < PERIOD[t] => minus(time, xTickCount) = PERIOD[t] - age(t)
  <2> HIDE DEF age
  <2> QED BY <1>2, <1>3, <1>4 DEF minus, plus
<1> HIDE DEF ahead, time, age
<1> QED BY <1>1, <1>2, <1>4, <1>5, <1>6

LEMMA DelayLemma ==
  ASSUME NEW t \in Relative, vTaskDelay(t)
  PROVE  PERIOD[t] \in 1 .. TICKS - 1 /\ AddCurrentTaskToDelayedList(t, PERIOD[t])
BY PeriodBounds DEF vTaskDelay, Timed

\* Types of what a delay and a tick change.
LEMMA TypeStep ==
  KernelTypeOK /\ KernelInv /\ [KernelNext]_kernelVars => KernelTypeOK'
<1> SUFFICES ASSUME KernelTypeOK, KernelInv, [KernelNext]_kernelVars
             PROVE  KernelTypeOK'
  OBVIOUS
<1> USE KernelAssumption DEF KernelTypeOK
<1>0. TickVarsOK /\ ListsInv
  BY TypedTickVars DEF KernelInv
<1>1. CASE TickCounted
  <2>1. TickVarsOK'
    BY <1>0, <1>1, TickLemma DEF TickCounted
  <2>2. pxCurrentTCB' \in Tasks
    BY <1>1 DEF TickCounted, vTaskSwitchContext, Highest
  <2>3. elapsed' \in [Periodic -> Nat]
    BY <1>1 DEF TickCounted, Interrupted
  <2> QED BY <1>1, <2>1, <2>2, <2>3 DEF TickCounted, TickVarsOK, notifyVars
<1>2. CASE TickPended
  <2>1. elapsed' \in [Periodic -> Nat]
    BY <1>2 DEF TickPended, Interrupted
  <2> QED BY <1>2, <2>1 DEF TickPended, delayVars, notifyVars
<1>3. CASE xTaskNotifyWait
  <2>1. pxCurrentTCB' \in Tasks
    BY <1>3 DEF xTaskNotifyWait, vTaskSwitchContext, Highest
  <2>2. where' \in [Tasks -> {"ready", "delayed", "overflow", "suspended"}]
    BY <1>3 DEF xTaskNotifyWait
  <2>3. pc' \in [Tasks -> {"start", "notify", "until", "delayuntil", "resume", "yield",
                           "taking"}]
    BY <1>3 DEF xTaskNotifyWait, goto
  <2>4. notifyState' \in {"none", "waiting", "received"}
    BY <1>3 DEF xTaskNotifyWait
  <2> QED BY <1>3, <2>1, <2>2, <2>3, <2>4 DEF xTaskNotifyWait
<1>4. CASE Take
  BY <1>4 DEF Take, goto, delayVars
<1>5. ASSUME NEW t \in Timed, BeginIteration(t) PROVE KernelTypeOK'
  <2>1. pc' \in [Tasks -> {"start", "notify", "until", "delayuntil", "resume", "yield",
                           "taking"}]
    BY <1>5 DEF BeginIteration, goto
  <2> QED BY <1>5, <2>1 DEF BeginIteration, delayVars, notifyVars
<1>6. ASSUME NEW t \in Timed, osDelayUntil(t) PROVE KernelTypeOK'
  <2>1. pc' \in [Tasks -> {"start", "notify", "until", "delayuntil", "resume", "yield",
                           "taking"}]
    BY <1>6 DEF osDelayUntil, goto
  <2>2. entry' \in [Periodic -> 0 .. TICKS - 1] /\ tcnt' \in [Periodic -> 0 .. TICKS - 1]
    BY <1>6 DEF osDelayUntil
  <2> QED BY <1>6, <2>1, <2>2 DEF osDelayUntil, delayVars, notifyVars
<1>7. ASSUME NEW t \in Timed, vTaskDelayUntil(t) PROVE KernelTypeOK'
  <2>1. t \in Periodic
    BY <1>7 DEF vTaskDelayUntil
  <2>2. TickVarsOK'
    <3>1. CASE UNCHANGED delayVars
      BY <3>1, <1>0 DEF delayVars, TickVarsOK
    <3>2. ASSUME NEW n \in 1 .. TICKS - 1, AddCurrentTaskToDelayedList(t, n)
          PROVE  TickVarsOK'
      BY <3>2, <1>0, SleepLemma
    <3> QED BY <1>7, <2>1, <3>1, <3>2, DelayUntilLemma
  <2>3. pc' \in [Tasks -> {"start", "notify", "until", "delayuntil", "resume", "yield",
                           "taking"}]
    BY <1>7 DEF vTaskDelayUntil, goto
  <2>4. /\ entry' = [entry EXCEPT ![t] = 0] /\ tcnt' = [tcnt EXCEPT ![t] = 0]
        /\ scheduler' = "suspended"
        /\ UNCHANGED <<pxCurrentTCB, xPendedTicks, xYieldPending, notifyVars, elapsed>>
    BY <1>7 DEF vTaskDelayUntil
  <2>5. entry' \in [Periodic -> 0 .. TICKS - 1] /\ tcnt' \in [Periodic -> 0 .. TICKS - 1]
    <3>1. 0 \in 0 .. TICKS - 1
      OBVIOUS
    <3> QED BY <2>4, <3>1
  <2>6. xYieldPending' \in BOOLEAN /\ notified' \in BOOLEAN
    BY <2>4, Zenon DEF notifyVars
  <2> QED BY <2>2, <2>3, <2>4, <2>5, <2>6 DEF TickVarsOK, notifyVars
<1>8. ASSUME NEW t \in Timed, vTaskDelay(t) PROVE KernelTypeOK'
  <2>1. TickVarsOK'
    BY <1>0, <1>8, DelayLemma, SleepLemma DEF vTaskDelay
  <2>2. pc' \in [Tasks -> {"start", "notify", "until", "delayuntil", "resume", "yield",
                           "taking"}]
    BY <1>8 DEF vTaskDelay, goto
  <2> QED BY <1>8, <2>1, <2>2 DEF vTaskDelay, TickVarsOK, notifyVars
<1>9. ASSUME NEW t \in Timed, Unwind(t) PROVE KernelTypeOK'
  <2>1. TickVarsOK'
    BY <1>0, <1>9, TickLemma DEF Unwind
  <2>2. xYieldPending' \in BOOLEAN
    BY <1>9, Zenon DEF Unwind, xSwitchRequired
  <2>3. xPendedTicks' \in 0 .. MAX_PENDED
    BY <1>9 DEF Unwind
  <2> QED BY <1>9, <2>1, <2>2, <2>3 DEF Unwind, TickVarsOK, notifyVars
<1>10. ASSUME NEW t \in Timed, xTaskResumeAll(t) PROVE KernelTypeOK'
  <2>1. pxCurrentTCB' \in Tasks
    BY <1>10 DEF xTaskResumeAll, vTaskSwitchContext, Highest
  <2>2. pc' \in [Tasks -> {"start", "notify", "until", "delayuntil", "resume", "yield",
                           "taking"}]
    BY <1>10 DEF xTaskResumeAll, goto
  <2>3. xYieldPending' \in BOOLEAN
    BY <1>10, Zenon DEF xTaskResumeAll
  <2> QED BY <1>10, <2>1, <2>2, <2>3 DEF xTaskResumeAll, delayVars, notifyVars
<1>11. ASSUME NEW t \in Timed, Yield(t) PROVE KernelTypeOK'
  <2>1. pxCurrentTCB' \in Tasks
    BY <1>11 DEF Yield, vTaskSwitchContext, Highest
  <2>2. pc' \in [Tasks -> {"start", "notify", "until", "delayuntil", "resume", "yield",
                           "taking"}]
    BY <1>11 DEF Yield, goto
  <2> QED BY <1>11, <2>1, <2>2 DEF Yield, delayVars, notifyVars
<1>12. ASSUME NEW t \in Timed, xTaskNotify(t) PROVE KernelTypeOK'
  <2>1. pxCurrentTCB' \in Tasks
    BY <1>12 DEF xTaskNotify, vTaskSwitchContext, Highest
  <2>2. where' \in [Tasks -> {"ready", "delayed", "overflow", "suspended"}]
    BY <1>12 DEF xTaskNotify
  <2>3. pc' \in [Tasks -> {"start", "notify", "until", "delayuntil", "resume", "yield",
                           "taking"}]
    BY <1>12 DEF xTaskNotify, goto
  <2> QED BY <1>12, <2>1, <2>2, <2>3 DEF xTaskNotify
<1>13. CASE UNCHANGED kernelVars
  BY <1>13 DEF kernelVars, delayVars, notifyVars
<1> HIDE DEF KernelTypeOK
<1> QED BY <1>1, <1>2, <1>3, <1>4, <1>5, <1>6, <1>7, <1>8, <1>9, <1>10, <1>11, <1>12,
           <1>13 DEF KernelNext

\* A step of one task that leaves the count, the interrupts and the other tasks
\* alone keeps their part of the invariant.
LEMMA OthersLemma ==
  ASSUME KernelTypeOK, KernelInv, NEW t, NEW label,
         goto(t, label), UNCHANGED <<xTickCount, xPendedTicks>>,
         \A u \in Tasks \ {t} : UNCHANGED <<where[u], wake[u]>>,
         \A u \in Periodic \ {t} : UNCHANGED <<entry[u], tcnt[u], elapsed[u]>>
  PROVE  /\ \A u \in Tasks \ {t} : Placed(u)'
         /\ \A u \in Periodic \ {t} : Counting(u)' /\ Rested(u)'
<1>1. \A u \in Tasks \ {t} : pc'[u] = pc[u] /\ Left(u)' = Left(u)
  BY DEF KernelTypeOK, goto, Left
<1>2. \A u \in Periodic \ {t} : u \in Tasks \ {t} /\ age(u)' = age(u)
  BY KernelAssumption DEF age
<1>3. \A u \in Tasks \ {t} : Placed(u)'
  BY <1>1 DEF KernelInv, Placed
<1>4. ASSUME NEW u \in Periodic \ {t} PROVE Counting(u)'
  <2>1. /\ minus(xTickCount, entry[u])' = minus(xTickCount, entry[u])
        /\ minus(tcnt[u], entry[u])' = minus(tcnt[u], entry[u])
    BY DEF minus
  <2>2. age(u)' = age(u) /\ pc'[u] = pc[u] /\ where'[u] = where[u] /\ elapsed'[u] = elapsed[u]
    BY <1>1, <1>2
  <2>3. Counting(u)
    BY DEF KernelInv
  <2> HIDE DEF age, minus
  <2> QED BY <2>1, <2>2, <2>3 DEF Counting
<1>5. ASSUME NEW u \in Periodic \ {t} PROVE Rested(u)'
  BY <1>1, <1>2 DEF KernelInv, Rested
<1> QED BY <1>3, <1>4, <1>5

LEMMA TickCountedStep ==
  ASSUME KernelTypeOK, KernelInv, TickCounted PROVE KernelInv'
<1> USE KernelAssumption
<1>1. /\ scheduler = "running" /\ Interrupted /\ CountTick
      /\ UNCHANGED <<pc, xPendedTicks, scheduler, xYieldPending, entry, tcnt, notifyVars>>
  BY DEF TickCounted
<1>2. xPendedTicks = 0 /\ ~xYieldPending /\ \A t \in Tasks : pc[t] # "resume"
  BY <1>1 DEF KernelInv, SchedulerInv
<1>3. /\ \A t \in Periodic : elapsed'[t] = elapsed[t] + 1 /\ elapsed[t] \in Nat
      /\ \A t \in Periodic : where[t] = "ready" => elapsed[t] < PERIOD[t] + MAX_LATE
  BY <1>1 DEF Interrupted, KernelTypeOK
<1>4. \A t \in Periodic : age(t)' = age(t) + 1
  BY <1>1, <1>2, <1>3 DEF age
<1>5. \A t \in Periodic : pc[t] \in {"notify", "until", "delayuntil"} =>
        elapsed'[t] <= PERIOD[t] + MAX_LATE /\ age(t)' <= PERIOD[t] + MAX_LATE
  BY <1>1, <1>2, <1>3 DEF KernelInv, Counting, age
<1>6. /\ ListsInv' /\ \A t \in Tasks : Placed(t)'
      /\ \A t \in Periodic : Counting(t)' /\ Rested(t)'
  <2> HIDE DEF age
  <2> QED BY <1>1, <1>4, <1>5, AgeLemma
<1>7. pxCurrentTCB' \in Tasks
  BY DEF TickCounted, vTaskSwitchContext, Highest, KernelTypeOK
<1>8. SchedulerInv'
  BY <1>1, <1>2, <1>7 DEF SchedulerInv
<1>9. NotifyInv'
  <2>1. where'[Waiter] = "suspended" => where[Waiter] = "suspended"
    <3>1. /\ where[Waiter] \in {"ready", "suspended"} => where'[Waiter] = where[Waiter]
          /\ where[Waiter] \in {"delayed", "overflow"} => where'[Waiter] # "suspended"
      BY <1>1, TickLemma, TypedTickVars DEF KernelInv
    <3> QED BY <3>1 DEF KernelTypeOK
  <2> QED BY <1>1, <2>1 DEF notifyVars, NotifyInv, KernelInv
<1>10. HighestReadyRuns'
  <2> SUFFICES ASSUME pc[pxCurrentTCB'] # "yield" PROVE pxCurrentTCB' \in Highest(where')
    BY <1>1 DEF HighestReadyRuns
  <2>1. CASE xSwitchRequired
    BY <2>1 DEF TickCounted, vTaskSwitchContext
  <2>2. CASE ~xSwitchRequired
    <3>1. pxCurrentTCB' = pxCurrentTCB /\ pxCurrentTCB \in Highest(where)
      BY <1>1, <2>2 DEF TickCounted, KernelInv, HighestReadyRuns
    <3>2. \A t \in Tasks : Priority[t] \in Nat
      OBVIOUS
    <3>3. \A t \in Tasks : where'[t] = "ready" /\ where[t] # "ready"
                             => ~(Priority[t] >= Priority[pxCurrentTCB])
      BY <2>2 DEF xSwitchRequired, preempts
    <3>4. where'[pxCurrentTCB] = "ready"
      BY <1>1, <3>1, TickLemma, TypedTickVars DEF KernelInv, Highest
    <3> QED BY <3>1, <3>2, <3>3, <3>4 DEF Highest
  <2> QED BY <2>1, <2>2
<1> QED BY <1>6, <1>8, <1>9, <1>10 DEF KernelInv

LEMMA UnwindStep ==
  ASSUME KernelTypeOK, KernelInv, NEW t \in Timed, Unwind(t) PROVE KernelInv'
<1> USE KernelAssumption
<1>1. /\ pxCurrentTCB = t /\ pc[t] = "resume" /\ CountTick
      /\ scheduler' = "unwinding" /\ xPendedTicks' = xPendedTicks - 1
      /\ UNCHANGED <<pc, pxCurrentTCB, entry, tcnt, notifyVars, elapsed>>
  BY DEF Unwind, at
<1>2. xPendedTicks \in Nat \ {0} /\ \A u \in Periodic : elapsed[u] \in Nat
  BY DEF Unwind, KernelTypeOK
<1>3. \A u \in Periodic : age(u)' = age(u) + 1
  BY <1>1, <1>2 DEF age
<1>4. \A u \in Periodic : pc[u] \in {"notify", "until", "delayuntil"} =>
        elapsed'[u] <= PERIOD[u] + MAX_LATE /\ age(u)' <= PERIOD[u] + MAX_LATE
  BY <1>1, <1>2 DEF KernelInv, Counting, age
<1>5. /\ ListsInv' /\ \A u \in Tasks : Placed(u)'
      /\ \A u \in Periodic : Counting(u)' /\ Rested(u)'
  <2> HIDE DEF age
  <2> QED BY <1>1, <1>3, <1>4, AgeLemma
<1>6. SchedulerInv' /\ HighestReadyRuns'
  BY <1>1 DEF SchedulerInv, HighestReadyRuns, KernelInv
<1>7. NotifyInv'
  <2>1. where'[Waiter] = "suspended" => where[Waiter] = "suspended"
    <3>1. /\ where[Waiter] \in {"ready", "suspended"} => where'[Waiter] = where[Waiter]
          /\ where[Waiter] \in {"delayed", "overflow"} => where'[Waiter] # "suspended"
      BY <1>1, TickLemma, TypedTickVars DEF KernelInv
    <3> QED BY <3>1 DEF KernelTypeOK
  <2> QED BY <1>1, <2>1 DEF notifyVars, NotifyInv, KernelInv
<1> QED BY <1>5, <1>6, <1>7 DEF KernelInv

LEMMA TickPendedStep ==
  ASSUME KernelTypeOK, KernelInv, TickPended PROVE KernelInv'
<1> USE KernelAssumption
<1>1. /\ scheduler = "suspended" /\ Interrupted /\ xPendedTicks' = xPendedTicks + 1
      /\ UNCHANGED <<pc, pxCurrentTCB, scheduler, xYieldPending, delayVars, entry, tcnt,
                     notifyVars>>
  BY DEF TickPended
<1>2. \A t \in Periodic : elapsed'[t] = elapsed[t] + 1 /\ elapsed[t] \in Nat
  BY <1>1 DEF Interrupted, KernelTypeOK
<1>3. \A t \in Periodic : age(t)' = age(t)
  BY <1>1, <1>2 DEF age, KernelTypeOK
<1>4. \A t \in Periodic : where[t] = "ready" => elapsed'[t] <= PERIOD[t] + MAX_LATE
  BY <1>1, <1>2 DEF Interrupted
<1>5. /\ ListsInv' /\ NotifyInv' /\ SchedulerInv' /\ HighestReadyRuns'
      /\ \A t \in Tasks : Placed(t)'
  BY <1>1 DEF KernelInv, ListsInv, NotifyInv, SchedulerInv, HighestReadyRuns, Placed,
              delayVars, notifyVars
<1>6. ASSUME NEW t \in Periodic PROVE Counting(t)' /\ Rested(t)'
  <2>1. /\ minus(xTickCount, entry[t])' = minus(xTickCount, entry[t])
        /\ minus(tcnt[t], entry[t])' = minus(tcnt[t], entry[t])
        /\ Left(t)' = Left(t) /\ UNCHANGED <<pc, where>>
    BY <1>1 DEF delayVars, Left, minus
  <2> HIDE DEF minus, age, Left
  <2>2. Counting(t) /\ Rested(t)
    BY DEF KernelInv
  <2> QED BY <1>3, <1>4, <2>1, <2>2 DEF Counting, Rested
<1> QED BY <1>5, <1>6 DEF KernelInv

\* The steps of a periodic task that read the count.
LEMMA ReadingStep ==
  ASSUME KernelTypeOK, KernelInv, NEW t \in Periodic, BeginIteration(t) \/ osDelayUntil(t)
  PROVE  KernelInv'
<1> USE KernelAssumption
<1>0. t \in Tasks /\ t \in Timed /\ pxCurrentTCB = t /\ pc[t] \in {"start", "until"}
      /\ UNCHANGED <<pxCurrentTCB, xPendedTicks, scheduler, xYieldPending, delayVars,
                     notifyVars>>
  BY DEF BeginIteration, osDelayUntil, at, Timed
<1>1. scheduler = "running" /\ xPendedTicks = 0 /\ \A u \in Tasks : pc[u] # "resume"
  BY <1>0 DEF KernelInv, SchedulerInv
<1>2. PICK label \in {"notify", "until", "delayuntil", "start"} :
        /\ goto(t, label)
        /\ (label = "notify" => t = Notifier)
  BY DEF BeginIteration, osDelayUntil
<1>3. \A u \in Periodic \ {t} : UNCHANGED <<entry[u], tcnt[u], elapsed[u]>>
  BY DEF BeginIteration, osDelayUntil, KernelTypeOK
<1>4. /\ \A u \in Tasks \ {t} : Placed(u)'
      /\ \A u \in Periodic \ {t} : Counting(u)' /\ Rested(u)'
  <2>1. UNCHANGED <<xTickCount, xPendedTicks, where, wake>>
    BY <1>0 DEF delayVars
  <2> QED BY <1>2, <1>3, <2>1, OthersLemma
<1>5. pc'[t] = label /\ pc' = [pc EXCEPT ![t] = label]
  BY <1>0, <1>2 DEF goto, KernelTypeOK
<1>6. ListsInv' /\ NotifyInv'
  BY <1>0 DEF ListsInv, NotifyInv, KernelInv, delayVars, notifyVars
<1>7. SchedulerInv' /\ HighestReadyRuns'
  <2>1. pxCurrentTCB' = t /\ scheduler' = "running" /\ xPendedTicks' = 0 /\ ~xYieldPending'
    BY <1>0, <1>1 DEF KernelInv, SchedulerInv
  <2>2. \A u \in Tasks : pc'[u] # "resume"
    BY <1>1, <1>5 DEF KernelTypeOK
  <2>3. t \in Highest(where) /\ where' = where
    BY <1>0, <1>1 DEF KernelInv, HighestReadyRuns, delayVars
  <2> QED BY <1>0, <2>1, <2>2, <2>3 DEF SchedulerInv, HighestReadyRuns, Highest
<1>8. PERIOD[t] \in 1 .. TICKS - 1 /\ 2 * (PERIOD[t] + MAX_LATE) < TICKS
      /\ MAX_LATE \in Nat /\ TICKS \in Nat /\ elapsed[t] \in Nat
      /\ xTickCount \in 0 .. TICKS - 1 /\ entry[t] \in 0 .. TICKS - 1
  BY <1>0, PeriodBounds DEF KernelTypeOK
<1>9. CASE BeginIteration(t)
  <2>1. entry'[t] = xTickCount /\ elapsed'[t] = 0 /\ label \in {"notify", "until"}
        /\ xTickCount' = xTickCount /\ xPendedTicks' = 0 /\ where'[t] = where[t]
    BY <1>0, <1>1, <1>2, <1>5, <1>9 DEF BeginIteration, KernelTypeOK, goto, delayVars
  <2>2. where[t] = "ready"
    BY <1>0, <1>1 DEF KernelInv, HighestReadyRuns, Highest
  <2>3. Counting(t)' /\ Rested(t)' /\ Placed(t)'
    BY <1>5, <1>8, <2>1, <2>2, <1>2 DEF Counting, Rested, Placed, age, minus
  <2> QED BY <1>4, <1>6, <1>7, <2>3 DEF KernelInv
<1>10. CASE osDelayUntil(t)
  <2>1. where[t] = "ready" /\ age(t) \in 0 .. PERIOD[t] + MAX_LATE
        /\ elapsed[t] <= PERIOD[t] + MAX_LATE /\ minus(xTickCount, entry[t]) = age(t)
    BY <1>10 DEF KernelInv, Counting, osDelayUntil, at
  <2>2. age(t)' = age(t) /\ elapsed'[t] = elapsed[t] /\ where'[t] = where[t]
        /\ xTickCount' = xTickCount
    BY <1>0, <1>10 DEF age, osDelayUntil, delayVars
  <2>3. stillAhead(toGo(t)) <=> age(t) < PERIOD[t]
    <3> HIDE DEF age
    <3> QED BY <1>8, <2>1 DEF stillAhead, toGo, plus, minus
  <2>4. CASE age(t) < PERIOD[t]
    <3>1. tcnt'[t] = xTickCount /\ entry'[t] = entry[t] /\ label = "delayuntil"
      BY <2>3, <2>4, <1>0, <1>2, <1>5, <1>10 DEF osDelayUntil, KernelTypeOK, goto
    <3>2. minus(tcnt[t], entry[t])' = age(t) /\ minus(xTickCount, entry[t])' = age(t)
      BY <3>1, <2>1, <2>2 DEF minus
    <3> HIDE DEF age, minus
    <3>3. Counting(t)' /\ Rested(t)' /\ Placed(t)'
      BY <1>0, <1>5, <1>8, <2>1, <2>2, <2>4, <3>1, <3>2 DEF Counting, Rested, Placed
    <3> QED BY <1>4, <1>6, <1>7, <3>3 DEF KernelInv
  <2>5. CASE ~(age(t) < PERIOD[t])
    <3>1. label = "start"
      BY <2>3, <2>5, <1>0, <1>2, <1>5, <1>10 DEF osDelayUntil, KernelTypeOK, goto
    <3> HIDE DEF age, minus
    <3>2. Counting(t)' /\ Rested(t)' /\ Placed(t)'
      BY <1>0, <1>5, <1>8, <2>1, <2>2, <2>5, <3>1 DEF Counting, Rested, Placed
    <3> QED BY <1>4, <1>6, <1>7, <3>2 DEF KernelInv
  <2> QED BY <2>4, <2>5
<1> QED BY <1>9, <1>10

\* The steps that put the running task into a list of delayed tasks.
LEMMA DelayStep ==
  ASSUME KernelTypeOK, KernelInv, NEW t \in Timed, vTaskDelayUntil(t) \/ vTaskDelay(t)
  PROVE  KernelInv'
<1> USE KernelAssumption
<1>0. /\ t \in Tasks /\ t # Waiter /\ pxCurrentTCB = t /\ pxCurrentTCB' = t
      /\ scheduler' = "suspended" /\ goto(t, "resume")
      /\ UNCHANGED <<xPendedTicks, xYieldPending, notifyVars, elapsed>>
  BY DEF vTaskDelayUntil, vTaskDelay, at, Timed
<1>1. \/ \E n \in 1 .. TICKS - 1 :
           /\ AddCurrentTaskToDelayedList(t, n)
           /\ (t \in Periodic => age(t) + n = PERIOD[t])
      \/ t \in Periodic /\ where[t] = "ready" /\ age(t) >= PERIOD[t] /\ UNCHANGED delayVars
  <2>1. CASE vTaskDelayUntil(t)
    <3>1. t \in Periodic /\ where[t] = "ready" /\ age(t) \in Int /\ PERIOD[t] \in Int
      BY <2>1 DEF vTaskDelayUntil, at, KernelInv, Counting
    <3>2. age(t) + (PERIOD[t] - age(t)) = PERIOD[t]
      <4> HIDE DEF age
      <4> QED BY <3>1
    <3> HIDE DEF age
    <3> QED BY <2>1, <3>1, <3>2, DelayUntilLemma
  <2>2. CASE vTaskDelay(t)
    <3>1. t \in Relative /\ t \notin Periodic
      BY <2>2 DEF vTaskDelay
    <3> QED BY <2>2, <3>1, DelayLemma
  <2> QED BY <2>1, <2>2
<1>2. /\ ListsInv' /\ UNCHANGED xTickCount
      /\ \A u \in Tasks \ {t} : where'[u] = where[u] /\ wake'[u] = wake[u]
      /\ t \notin Periodic => where'[t] \in {"delayed", "overflow"}
      /\ where'[t] \in {"ready", "delayed", "overflow"}
      /\ t \in Periodic => IF where'[t] = "ready" THEN age(t) >= PERIOD[t]
                            ELSE age(t) + Left(t)' = PERIOD[t]
  <2>1. ASSUME NEW n \in 1 .. TICKS - 1, AddCurrentTaskToDelayedList(t, n)
        PROVE  /\ ListsInv' /\ UNCHANGED xTickCount
               /\ \A u \in Tasks \ {t} : where'[u] = where[u]
               /\ where'[t] \in {"delayed", "overflow"} /\ Left(t)' = n
    BY <2>1, SleepLemma, TypedTickVars DEF KernelInv
  <2>2. ASSUME NEW n \in 1 .. TICKS - 1, AddCurrentTaskToDelayedList(t, n)
        PROVE  \A u \in Tasks \ {t} : wake'[u] = wake[u]
    BY <2>2 DEF AddCurrentTaskToDelayedList, KernelTypeOK
  <2>3. UNCHANGED delayVars => ListsInv'
    BY DEF delayVars, ListsInv, KernelInv
  <2> HIDE DEF age, Left
  <2> QED BY <1>1, <2>1, <2>2, <2>3 DEF delayVars
<1>4. \A u \in Periodic \ {t} : UNCHANGED <<entry[u], tcnt[u], elapsed[u]>>
  BY DEF vTaskDelayUntil, vTaskDelay, KernelTypeOK
<1>5. /\ \A u \in Tasks \ {t} : Placed(u)'
      /\ \A u \in Periodic \ {t} : Counting(u)' /\ Rested(u)'
  BY <1>0, <1>2, <1>4, OthersLemma
<1>6. pc'[t] = "resume" /\ \A u \in Tasks \ {t} : pc'[u] = pc[u]
  BY <1>0 DEF goto, KernelTypeOK
<1>7. SchedulerInv' /\ HighestReadyRuns'
  BY <1>0, <1>6 DEF KernelInv, SchedulerInv, HighestReadyRuns
<1>8. NotifyInv'
  BY <1>0, <1>2 DEF KernelInv, NotifyInv, notifyVars
<1>9. Placed(t)'
  BY <1>2, <1>6, <1>0 DEF Placed
<1>10. ASSUME t \in Periodic PROVE Counting(t)' /\ Rested(t)'
  <2>1. age(t)' = age(t)
    BY <1>0 DEF age
  <2> HIDE DEF age, Left
  <2> QED BY <1>2, <1>6, <1>10, <2>1 DEF Counting, Rested
<1> QED BY <1>2, <1>5, <1>7, <1>8, <1>9, <1>10 DEF KernelInv

\* The two ways out of a delay.
LEMMA ResumeStep ==
  ASSUME KernelTypeOK, KernelInv, NEW t \in Timed, xTaskResumeAll(t) \/ Yield(t)
  PROVE  KernelInv'
<1> USE KernelAssumption
<1>0. /\ t \in Tasks /\ pxCurrentTCB = t /\ pc[t] \in {"resume", "yield"}
      /\ xPendedTicks = 0 /\ xPendedTicks' = 0
      /\ UNCHANGED <<delayVars, entry, tcnt, notifyVars, elapsed>>
  BY DEF xTaskResumeAll, Yield, at, unwound, Timed, KernelInv, SchedulerInv
<1>1. PICK label \in {"start", "yield"} : goto(t, label)
  BY DEF xTaskResumeAll, Yield
<1>2. pc'[t] = label /\ \A u \in Tasks \ {t} : pc'[u] = pc[u]
  BY <1>0, <1>1 DEF goto, KernelTypeOK
<1>3. UNCHANGED <<xTickCount, where, wake, xPendedTicks>>
  BY <1>0 DEF delayVars
<1>4. /\ \A u \in Tasks \ {t} : Placed(u)'
      /\ \A u \in Periodic \ {t} : Counting(u)' /\ Rested(u)'
  BY <1>0, <1>1, <1>3, OthersLemma
<1>5. ListsInv' /\ NotifyInv'
  BY <1>0 DEF ListsInv, NotifyInv, KernelInv, delayVars, notifyVars
<1>6. scheduler' = "running" /\ ~xYieldPending' /\ pxCurrentTCB' \in Tasks
  <2>1. CASE xTaskResumeAll(t)
    BY <2>1, <1>0 DEF xTaskResumeAll, vTaskSwitchContext, Highest
  <2>2. CASE Yield(t)
    <3>1. scheduler = "running" /\ ~xYieldPending
      BY <2>2, <1>0 DEF Yield, at, KernelInv, SchedulerInv
    <3> QED BY <2>2, <3>1 DEF Yield, vTaskSwitchContext, Highest
  <2> QED BY <2>1, <2>2
<1>7. \A u \in Tasks : pc'[u] # "resume"
  BY <1>0, <1>2 DEF KernelInv, SchedulerInv
<1>8. SchedulerInv'
  BY <1>0, <1>6, <1>7 DEF SchedulerInv
<1>9. HighestReadyRuns'
  <2>1. CASE xTaskResumeAll(t)
    BY <2>1, <1>0, <1>2 DEF xTaskResumeAll, vTaskSwitchContext, HighestReadyRuns, goto,
                             KernelTypeOK
  <2>2. CASE Yield(t)
    BY <2>2 DEF Yield, vTaskSwitchContext, HighestReadyRuns
  <2> QED BY <2>1, <2>2
<1>10. Placed(t)'
  BY <1>0, <1>2, <1>3 DEF KernelInv, Placed
<1>11. ASSUME t \in Periodic PROVE Counting(t)' /\ Rested(t)'
  <2>1. age(t)' = age(t) /\ Left(t)' = Left(t)
    BY <1>0, <1>3 DEF age, Left
  <2>2. Rested(t)
    BY <1>11 DEF KernelInv
  <2> HIDE DEF age, Left
  <2> QED BY <1>0, <1>2, <1>3, <2>1, <2>2 DEF Counting, Rested
<1> QED BY <1>4, <1>5, <1>8, <1>9, <1>10, <1>11 DEF KernelInv

\* The notification and the two halves of the wait for it.
LEMMA NotifyStep ==
  ASSUME KernelTypeOK, KernelInv, xTaskNotify(Notifier) PROVE KernelInv'
<1> USE KernelAssumption
<1> DEFINE t == Notifier
<1>0. /\ t \in Tasks /\ t \in Periodic /\ t # Waiter /\ pxCurrentTCB = t /\ pc[t] = "notify"
      /\ goto(t, "until") /\ notifyState' = "received" /\ notified' = TRUE
      /\ UNCHANGED <<xPendedTicks, scheduler, xYieldPending, xTickCount, wake,
                     xNextTaskUnblockTime, entry, tcnt, elapsed>>
      /\ where' = IF notifyState = "waiting" THEN [where EXCEPT ![Waiter] = "ready"]
                  ELSE where
  BY DEF xTaskNotify, at
<1>1. /\ pc'[t] = "until" /\ \A u \in Tasks \ {t} : pc'[u] = pc[u]
      /\ \A u \in Tasks \ {Waiter} : where'[u] = where[u]
      /\ where'[Waiter] \in {where[Waiter], "ready"}
  BY <1>0 DEF goto, KernelTypeOK
<1>2. scheduler = "running" /\ xPendedTicks = 0 /\ ~xYieldPending
      /\ \A u \in Tasks : pc[u] # "resume"
  BY <1>0 DEF KernelInv, SchedulerInv
<1>3. \A u \in Tasks : Placed(u)'
  BY <1>0, <1>1 DEF KernelInv, Placed
<1>4. ASSUME NEW u \in Periodic PROVE Counting(u)' /\ Rested(u)'
  <2>1. /\ minus(xTickCount, entry[u])' = minus(xTickCount, entry[u])
        /\ minus(tcnt[u], entry[u])' = minus(tcnt[u], entry[u])
        /\ age(u)' = age(u)
    BY <1>0 DEF minus, age
  <2>2. u \in Tasks \ {Waiter}
    OBVIOUS
  <2>3. where'[u] = where[u] /\ Left(u)' = Left(u) /\ elapsed'[u] = elapsed[u]
    BY <1>0, <1>1, <2>2 DEF Left
  <2>4. \/ pc'[u] = pc[u]
        \/ pc[u] = "notify" /\ pc'[u] = "until"
    BY <1>0, <1>1, <2>2
  <2>5. Counting(u) /\ Rested(u)
    BY DEF KernelInv
  <2> HIDE DEF age, minus, Left
  <2> QED BY <2>1, <2>3, <2>4, <2>5 DEF Counting, Rested
<1>5. ListsInv'
  BY <1>0, <1>1 DEF ListsInv, KernelInv
<1>6. NotifyInv'
  <2>1. where'[Waiter] # "suspended"
    BY <1>0, <1>1 DEF NotifyInv, KernelInv, KernelTypeOK
  <2> QED BY <1>0, <2>1 DEF NotifyInv
<1>7. pxCurrentTCB' \in Tasks /\ HighestReadyRuns'
  <2>1. CASE notifyState = "waiting" /\ Priority[Waiter] > Priority[t]
    BY <2>1 DEF xTaskNotify, vTaskSwitchContext, HighestReadyRuns, Highest
  <2>2. CASE ~(notifyState = "waiting" /\ Priority[Waiter] > Priority[t])
    <3>1. pxCurrentTCB' = t /\ t \in Highest(where)
      BY <1>0, <1>2, <2>2 DEF xTaskNotify, KernelInv, HighestReadyRuns
    <3>2. \A u \in Tasks : Priority[u] \in Nat
      OBVIOUS
    <3> QED BY <1>0, <1>1, <2>2, <3>1, <3>2 DEF HighestReadyRuns, Highest
  <2> QED BY <2>1, <2>2
<1>8. SchedulerInv'
  BY <1>0, <1>1, <1>2, <1>7 DEF SchedulerInv
<1> QED BY <1>3, <1>4, <1>5, <1>6, <1>7, <1>8 DEF KernelInv

LEMMA WaitStep ==
  ASSUME KernelTypeOK, KernelInv, xTaskNotifyWait \/ Take PROVE KernelInv'
<1> USE KernelAssumption
<1> DEFINE t == Waiter
<1>0. /\ t \in Tasks /\ t \notin Timed /\ pxCurrentTCB = t /\ pc[t] \in {"start", "taking"}
      /\ UNCHANGED <<xPendedTicks, scheduler, xYieldPending, xTickCount, wake,
                     xNextTaskUnblockTime, entry, tcnt, elapsed>>
  BY DEF xTaskNotifyWait, Take, at, delayVars, Timed
<1>1. PICK label \in {"start", "taking"} : goto(t, label)
  BY DEF xTaskNotifyWait, Take
<1>2. /\ pc'[t] = label /\ \A u \in Tasks \ {t} : pc'[u] = pc[u]
      /\ \A u \in Tasks \ {t} : where'[u] = where[u]
  BY <1>0, <1>1 DEF goto, KernelTypeOK, xTaskNotifyWait, Take, delayVars
<1>3. scheduler = "running" /\ xPendedTicks = 0 /\ ~xYieldPending
      /\ \A u \in Tasks : pc[u] # "resume"
  BY <1>0 DEF KernelInv, SchedulerInv
<1>4. t \in Highest(where) /\ where[t] = "ready"
  BY <1>0, <1>3 DEF KernelInv, HighestReadyRuns, Highest
<1>5. /\ \A u \in Tasks \ {t} : Placed(u)'
      /\ \A u \in Periodic \ {t} : Counting(u)' /\ Rested(u)'
  BY <1>0, <1>1, <1>2, OthersLemma
<1>6. t \notin Periodic
  OBVIOUS
<1>7. CASE xTaskNotifyWait
  <2>1. /\ where'[t] = IF mustWait THEN "suspended" ELSE "ready"
        /\ notifyState' = IF mustWait THEN "waiting" ELSE notifyState
        /\ notified' = notified
        /\ IF mustWait THEN vTaskSwitchContext ELSE UNCHANGED pxCurrentTCB
        /\ label = "taking"
    BY <1>0, <1>1, <1>2, <1>4, <1>7 DEF xTaskNotifyWait, KernelTypeOK, goto
  <2>2. ListsInv'
    BY <1>0, <1>2, <2>1 DEF ListsInv, KernelInv
  <2>3. NotifyInv'
    BY <2>1, <1>4 DEF NotifyInv, KernelInv, mustWait
  <2>4. Placed(t)'
    BY <1>0, <1>2, <2>1 DEF Placed
  <2>5. pxCurrentTCB' \in Tasks /\ HighestReadyRuns'
    <3>1. CASE mustWait
      BY <2>1, <3>1 DEF vTaskSwitchContext, HighestReadyRuns, Highest
    <3>2. CASE ~mustWait
      BY <1>0, <1>2, <1>4, <2>1, <3>2 DEF HighestReadyRuns, Highest
    <3> QED BY <3>1, <3>2
  <2>6. SchedulerInv'
    BY <1>0, <1>1, <1>2, <1>3, <2>5 DEF SchedulerInv
  <2> QED BY <1>5, <1>6, <2>2, <2>3, <2>4, <2>5, <2>6 DEF KernelInv
<1>8. CASE Take
  <2>1. UNCHANGED <<pxCurrentTCB, where>> /\ notified' = FALSE
    BY <1>8 DEF Take, delayVars
  <2>2. ListsInv' /\ NotifyInv'
    BY <1>0, <1>4, <2>1 DEF ListsInv, NotifyInv, KernelInv
  <2>3. Placed(t)'
    BY <1>0, <1>2, <1>4, <2>1 DEF Placed
  <2>4. HighestReadyRuns'
    BY <1>0, <1>2, <1>4, <2>1 DEF HighestReadyRuns
  <2>5. SchedulerInv'
    BY <1>0, <1>2, <1>3, <2>1 DEF SchedulerInv
  <2> QED BY <1>5, <1>6, <2>2, <2>3, <2>4, <2>5 DEF KernelInv
<1> QED BY <1>7, <1>8

LEMMA StepInv ==
  ASSUME KernelTypeOK, KernelInv, [KernelNext]_kernelVars PROVE KernelTypeOK' /\ KernelInv'
<1>1. KernelTypeOK'
  BY TypeStep
<1>2. CASE UNCHANGED kernelVars
  <2>1. UNCHANGED <<pc, pxCurrentTCB, xPendedTicks, scheduler, xYieldPending, xTickCount,
                    where, wake, xNextTaskUnblockTime, entry, tcnt, notifyState, notified,
                    elapsed>>
    BY <1>2 DEF kernelVars, delayVars, notifyVars
  <2>2. ListsInv' /\ SchedulerInv' /\ HighestReadyRuns' /\ NotifyInv'
    BY <2>1 DEF KernelInv, ListsInv, SchedulerInv, HighestReadyRuns, Highest, NotifyInv
  <2>3. \A t \in Tasks : Placed(t)'
    BY <2>1 DEF KernelInv, Placed
  <2>4. \A t \in Periodic : Counting(t)' /\ Rested(t)'
    BY <2>1 DEF KernelInv, Counting, Rested, age, Left, minus
  <2> QED BY <1>1, <2>2, <2>3, <2>4 DEF KernelInv
<1>3. \A t \in Timed : BeginIteration(t) \/ osDelayUntil(t) => t \in Periodic
  BY DEF BeginIteration, osDelayUntil
<1>4. \A t \in Timed : xTaskNotify(t) => xTaskNotify(Notifier)
  BY DEF xTaskNotify
<1>5. CASE KernelNext
  <2>1. \A t \in Timed : xTaskNotify(t) => KernelInv'
    BY <1>4, NotifyStep
  <2>2. \A t \in Timed : BeginIteration(t) \/ osDelayUntil(t) => KernelInv'
    BY <1>3, ReadingStep
  <2>3. \A t \in Timed : vTaskDelayUntil(t) \/ vTaskDelay(t) => KernelInv'
    BY DelayStep
  <2>4. \A t \in Timed : xTaskResumeAll(t) \/ Yield(t) => KernelInv'
    BY ResumeStep
  <2>5. \A t \in Timed : Unwind(t) => KernelInv'
    BY UnwindStep
  <2>6. TickCounted \/ TickPended \/ xTaskNotifyWait \/ Take => KernelInv'
    BY TickCountedStep, TickPendedStep, WaitStep
  <2> HIDE DEF KernelInv
  <2> QED BY <1>1, <1>5, <2>1, <2>2, <2>3, <2>4, <2>5, <2>6 DEF KernelNext
<1> QED BY <1>1, <1>2, <1>5

-------------------------------------------------------------------------------

\* The invariant holds throughout.
LEMMA InvHolds == KernelSpec => [](KernelTypeOK /\ KernelInv)
<1>1. KernelInit => KernelTypeOK /\ KernelInv
  BY KernelInitInv
<1>2. (KernelTypeOK /\ KernelInv) /\ [KernelNext]_kernelVars => (KernelTypeOK /\ KernelInv)'
  BY StepInv
<1> QED BY <1>1, <1>2, PTL DEF KernelSpec

\* The state of the kernel is well typed in every reachable state.
THEOREM KernelTyped == KernelSpec => []KernelTypeOK
BY InvHolds, PTL

\* The inductive invariant, for any tasks, periods and width of the count.
THEOREM KernelInvariant == KernelSpec => []KernelInv
BY InvHolds, PTL

\* A periodic task sleeps to the end of its period, whatever ticks fell between
\* the reading of the count and the sleep and wherever the count wraps.
THEOREM SleepEndsWithPeriod == KernelSpec => []SleepsToPeriod
<1>1. KernelTypeOK /\ KernelInv => SleepsToPeriod
  <2> SUFFICES ASSUME KernelTypeOK, KernelInv, NEW t \in Periodic,
                      where[t] \in {"delayed", "overflow"}
               PROVE  elapsed[t] - xPendedTicks + Left(t) = PERIOD[t]
    BY DEF SleepsToPeriod
  <2>1. t \in Tasks
    BY KernelAssumption
  <2>2. Placed(t) /\ Rested(t)
    BY <2>1 DEF KernelInv
  <2> QED BY <2>2 DEF Placed, Rested, age
<1> QED BY <1>1, InvHolds, PTL

\* No iteration of a periodic task begins before the last one's period is over.
THEOREM PeriodIsKept == KernelSpec => PeriodNeverShort
<1>1. KernelTypeOK /\ KernelInv =>
        \A t \in Periodic : BeginIteration(t) => elapsed[t] >= PERIOD[t]
  <2> SUFFICES ASSUME KernelTypeOK, KernelInv, NEW t \in Periodic, BeginIteration(t)
               PROVE  elapsed[t] >= PERIOD[t]
    OBVIOUS
  <2>1. pxCurrentTCB = t /\ pc[t] = "start"
    BY DEF BeginIteration, at
  <2>2. scheduler = "running" /\ xPendedTicks = 0
    BY <2>1 DEF KernelInv, SchedulerInv
  <2>3. where[t] = "ready"
    BY <2>1, <2>2 DEF KernelInv, HighestReadyRuns, Highest
  <2>4. age(t) >= PERIOD[t]
    BY <2>1, <2>3 DEF KernelInv, Rested
  <2>5. elapsed[t] \in Nat
    BY DEF KernelTypeOK
  <2> QED BY <2>2, <2>4, <2>5 DEF age
<1> QED BY <1>1, InvHolds, PTL DEF PeriodNeverShort

\* The running task is one of the highest priority that is ready.
THEOREM HighestRuns == KernelSpec => []HighestReadyRuns
<1>1. KernelInv => HighestReadyRuns
  BY DEF KernelInv
<1> QED BY <1>1, KernelInvariant, PTL

\* canbus_task never sleeps on a notification that is there.
THEOREM WakeUpNeverLost == KernelSpec => []NoLostWakeUp
<1>1. KernelInv => NoLostWakeUp
  BY DEF KernelInv, NotifyInv, NoLostWakeUp
<1> QED BY <1>1, KernelInvariant, PTL

\* The sleep of a timed task as the abstract alarm sees it.
sleep == [t \in Timed |-> Left(t)]

\* A step that touches no delay leaves the alarms alone.
LEMMA Stutters ==
  ASSUME UNCHANGED <<xTickCount, wake>>, \A t \in Timed : where'[t] = where[t]
  PROVE  UNCHANGED sleep
<1>1. \A t \in Timed : Left(t)' = Left(t)
  BY DEF Left
<1> QED BY <1>1 DEF sleep

LEMMA AlarmStep ==
  ASSUME KernelTypeOK, KernelInv, [KernelNext]_kernelVars
  PROVE  [Alarms!Next]_sleep
<1> USE KernelAssumption
<1>0. Timed \subseteq Tasks /\ Waiter \notin Timed
  BY DEF Timed
<1>1. ASSUME CountTick PROVE Alarms!Next
  <2>1. \A t \in Tasks :
          /\ where[t] \in {"ready", "suspended"} => where'[t] = where[t]
          /\ where[t] \in {"delayed", "overflow"} =>
               IF Left(t) = 1 THEN where'[t] = "ready" /\ Left(t)' = 0
               ELSE where'[t] \in {"delayed", "overflow"} /\ Left(t)' = Left(t) - 1
    BY <1>1, TickLemma, TypedTickVars DEF KernelInv
  <2>2. \A t \in Tasks : where[t] \in {"ready", "suspended", "delayed", "overflow"}
    BY DEF KernelTypeOK
  <2>3. \A t \in Tasks : where[t] \in {"ready", "suspended"} => Left(t) = 0 /\ Left(t)' = 0
    BY <2>1 DEF Left
  <2>4. \A t \in Tasks : where[t] \in {"delayed", "overflow"} => Left(t) > 0
    BY SleepingLeft DEF KernelInv
  <2>5. \A t \in Timed : Left(t)' = IF Left(t) = 0 THEN 0 ELSE Left(t) - 1
    <3> HIDE DEF Left
    <3> QED BY <1>0, <2>1, <2>2, <2>3, <2>4
  <2>6. sleep' = [t \in Timed |-> IF sleep[t] = 0 THEN 0 ELSE sleep[t] - 1]
    BY <2>5 DEF sleep
  <2> QED BY <2>6 DEF Alarms!Next, Alarms!Tick, sleep
<1>2. ASSUME NEW t \in Timed, NEW n \in 1 .. TICKS - 1, where[t] = "ready",
             AddCurrentTaskToDelayedList(t, n)
      PROVE  Alarms!Next
  <2>1. /\ Left(t)' = n
        /\ \A u \in Tasks \ {t} : Left(u)' = Left(u)
    BY <1>2, SleepLemma, TypedTickVars DEF KernelInv
  <2>2. Left(t) = 0
    BY <1>2 DEF Left
  <2>3. sleep' = [sleep EXCEPT ![t] = n] /\ sleep[t] = 0
    BY <1>0, <2>1, <2>2 DEF sleep
  <2>4. n \in 1 .. portMAX_DELAY
    BY DEF portMAX_DELAY
  <2> QED BY <2>3, <2>4 DEF Alarms!Next, Alarms!Sleep, sleep
<1>3. ASSUME NEW t \in Timed, pxCurrentTCB = t, pc[t] \in {"start", "delayuntil"}
      PROVE  where[t] = "ready"
  BY <1>0, <1>3 DEF KernelInv, SchedulerInv, HighestReadyRuns, Highest
<1>4. ASSUME NEW t \in Timed, vTaskDelayUntil(t) PROVE Alarms!Next \/ UNCHANGED sleep
  <2>1. t \in Periodic /\ where[t] = "ready"
    BY <1>3, <1>4 DEF vTaskDelayUntil, at
  <2>2. CASE UNCHANGED delayVars
    BY <2>2, Stutters DEF delayVars
  <2> QED BY <2>1, <2>2, <1>2, <1>4, DelayUntilLemma
<1>5. ASSUME NEW t \in Timed, vTaskDelay(t) PROVE Alarms!Next
  <2>1. t \in Relative /\ where[t] = "ready"
    BY <1>3, <1>5 DEF vTaskDelay, at
  <2> QED BY <2>1, <1>2, <1>5, DelayLemma
<1>6. ASSUME NEW t \in Timed, xTaskNotify(t) PROVE UNCHANGED sleep
  <2>1. \A u \in Timed : where'[u] = where[u]
    BY <1>0, <1>6 DEF xTaskNotify, KernelTypeOK
  <2> QED BY <1>6, <2>1, Stutters DEF xTaskNotify
<1>7. ASSUME xTaskNotifyWait PROVE UNCHANGED sleep
  <2>1. \A u \in Timed : where'[u] = where[u]
    BY <1>0, <1>7 DEF xTaskNotifyWait, KernelTypeOK
  <2> QED BY <1>7, <2>1, Stutters DEF xTaskNotifyWait
<1>8. UNCHANGED delayVars => UNCHANGED sleep
  BY Stutters DEF delayVars
<1>9. ASSUME KernelNext PROVE Alarms!Next \/ UNCHANGED sleep
  <2>1. TickCounted => Alarms!Next
    BY <1>1 DEF TickCounted
  <2>2. TickPended \/ Take => UNCHANGED sleep
    BY <1>8 DEF TickPended, Take
  <2>3. \A t \in Timed : BeginIteration(t) \/ osDelayUntil(t) \/ xTaskResumeAll(t) \/ Yield(t)
                            => UNCHANGED sleep
    BY <1>8 DEF BeginIteration, osDelayUntil, xTaskResumeAll, Yield
  <2>4. \A t \in Timed : Unwind(t) => Alarms!Next
    BY <1>1 DEF Unwind
  <2> QED BY <1>4, <1>5, <1>6, <1>7, <1>9, <2>1, <2>2, <2>3, <2>4 DEF KernelNext
<1>10. UNCHANGED kernelVars => UNCHANGED sleep
  BY <1>8 DEF kernelVars
<1> QED BY <1>9, <1>10

\* The kernel keeps every alarm: a task that asks for n ticks is woken by the n-th
\* counted tick after the call.
THEOREM KernelKeepsAlarms == KernelSpec => KeepsAlarms
<1>1. KernelInit => Alarms!Init
  <2> SUFFICES ASSUME KernelInit PROVE Alarms!Init
    OBVIOUS
  <2>1. \A t \in Timed : Left(t) = 0
    BY KernelAssumption DEF KernelInit, Left, Timed
  <2> QED BY <2>1 DEF Alarms!Init
<1>2. KernelTypeOK /\ KernelInv /\ [KernelNext]_kernelVars
        => [Alarms!Next]_[t \in Timed |-> Left(t)]
  BY AlarmStep DEF sleep
<1> QED BY <1>1, <1>2, InvHolds, PTL DEF KernelSpec, KeepsAlarms, Alarms!Spec
===============================================================================
