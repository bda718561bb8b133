--------------------------------- MODULE Kernel ---------------------------------
(***************************************************************************)
(* The kernel under the application's tasks, as they use it: the tick, the *)
(* two lists of delayed tasks that swap when the 32-bit count wraps, the   *)
(* ticks that are pended while the scheduler is suspended, osDelayUntil    *)
(* and osDelay with what they call, xTaskNotify and xTaskNotifyWait, and   *)
(* the choice of the running task.                                         *)
(*                                                                         *)
(* The tick interrupt falls between any two steps except in a critical     *)
(* section.  Unwinding the pended ticks is one, and takes a step for each. *)
(* A list is a set here: only its head, the earliest wake time, is used.   *)
(* A value that is dead, a local or the wake time of a ready task, is 0.   *)
(***************************************************************************)
EXTENDS Integers

CONSTANTS
  Tasks,        \* all tasks, the idle task among them
  Idle,         \* never blocks
  Periodic,     \* tasks whose iteration ends in osDelayUntil(entry + period)
  Relative,     \* tasks whose iteration ends in osDelay(period)
  Notifier,     \* the periodic task that notifies in every iteration
  Waiter,       \* the task that waits for it
  Priority,     \* uxPriority of each task
  PERIOD,       \* ticks, of the periodic and the relative tasks
  TICKS,        \* xTickCount counts modulo this, 2^32 in the code
  MAX_LATE,     \* bound of the model: how late an iteration may end
  MAX_PENDED    \* bound of the model: ticks while the scheduler is suspended

portMAX_DELAY == TICKS - 1

ASSUME KernelAssumption ==
  /\ Idle \in Tasks /\ Periodic \subseteq Tasks /\ Relative \subseteq Tasks
  /\ Notifier \in Periodic /\ Waiter \in Tasks
  /\ Periodic \cap Relative = {} /\ Waiter \notin Periodic \cup Relative
  /\ Idle \notin Periodic \cup Relative \cup {Waiter}
  /\ Priority \in [Tasks -> Nat]
  /\ \A t \in Tasks : Priority[t] >= Priority[Idle]
  /\ TICKS \in Nat \ {0} /\ MAX_LATE \in Nat /\ MAX_PENDED \in Nat
  /\ PERIOD \in [Periodic \cup Relative -> Nat \ {0}]
  /\ \A t \in Periodic \cup Relative : 2 * (PERIOD[t] + MAX_LATE) < TICKS

VARIABLES
  pc,                    \* where each task is
  pxCurrentTCB,
  xTickCount,
  xPendedTicks,
  scheduler,             \* "running", "suspended", or "unwinding" in xTaskResumeAll
  xYieldPending,
  where,                 \* the list each task is in
  wake,                  \* xItemValue of its list item
  xNextTaskUnblockTime,
  entry, tcnt,           \* locals of the periodic tasks and of osDelayUntil
  notifyState,           \* ucNotifyState of Waiter, "waiting", "received", "none"
  notified,              \* ulNotifiedValue of Waiter has the bit
  elapsed                \* history: tick interrupts since a periodic task read entry

delayVars == <<xTickCount, where, wake, xNextTaskUnblockTime>>
notifyVars == <<notifyState, notified>>
kernelVars == <<pc, pxCurrentTCB, xPendedTicks, scheduler, xYieldPending,
                delayVars, entry, tcnt, notifyVars, elapsed>>

Timed == Periodic \cup Relative

\* osKernelStart: every task is ready, and one of the highest priority runs.
Highest(lists) ==
  {t \in Tasks : /\ lists[t] = "ready"
                 /\ \A u \in Tasks : lists[u] = "ready" => Priority[u] <= Priority[t]}

KernelInit ==
  /\ pc = [t \in Tasks |-> "start"]
  /\ where = [t \in Tasks |-> "ready"]
  /\ pxCurrentTCB \in Highest(where)
  /\ xTickCount = 0
  /\ xPendedTicks = 0
  /\ scheduler = "running"
  /\ xYieldPending = FALSE
  /\ wake = [t \in Tasks |-> 0]
  /\ xNextTaskUnblockTime = portMAX_DELAY
  /\ entry = [t \in Periodic |-> 0]
  /\ tcnt = [t \in Periodic |-> 0]
  /\ notifyState = "none"
  /\ notified = FALSE
  /\ elapsed = [t \in Periodic |-> PERIOD[t]]

\* Unsigned arithmetic on TickType_t.
plus(a, b) == IF a + b < TICKS THEN a + b ELSE a + b - TICKS
minus(a, b) == IF a >= b THEN a - b ELSE a - b + TICKS

\* vTaskSwitchContext, in PendSV.
vTaskSwitchContext == pxCurrentTCB' \in Highest(where')
goto(t, label) == pc' = [pc EXCEPT ![t] = label]
at(t, label) == pxCurrentTCB = t /\ pc[t] = label

-------------------------------------------------------------------------------
(* The tick                                                                *)

delayed(lists) == {t \in Tasks : lists[t] = "delayed"}

\* The value of the head of the delayed list, as a set: prvResetNextTaskUnblockTime.
Earliest(lists) ==
  IF delayed(lists) = {} THEN {portMAX_DELAY}
  ELSE {m \in {wake[t] : t \in delayed(lists)} :
         \A t \in delayed(lists) : m <= wake[t]}

\* taskSWITCH_DELAYED_LISTS, when the count wraps.
switched(now) ==
  IF now # 0 THEN where
  ELSE [t \in Tasks |-> CASE where[t] = "delayed"  -> "overflow"
                          [] where[t] = "overflow" -> "delayed"
                          [] OTHER -> where[t]]

\* Mutant: a task is released only by the tick after its wake time.
dueBy_Late(now, lists) == {t \in delayed(lists) : wake[t] < now}

\* The items at the head of the list that are not in the future.
dueBy(now, lists) == {t \in delayed(lists) : wake[t] <= now}

\* Mutant: a released task preempts only a task of the same priority.
preempts_Equal(t) == Priority[t] = Priority[pxCurrentTCB]

preempts(t) == Priority[t] >= Priority[pxCurrentTCB]

\* xTaskIncrementTick with the scheduler running: the next unblock time is taken
\* anew when the lists are switched and when it has come.
CountTick ==
  LET now   == plus(xTickCount, 1)
      lists == switched(now)
  IN  \E unblock \in IF now = 0 THEN Earliest(lists) ELSE {xNextTaskUnblockTime} :
        LET due == IF now >= unblock THEN dueBy(now, lists) ELSE {}
        IN  /\ xTickCount' = now
            /\ where' = [t \in Tasks |-> IF t \in due THEN "ready" ELSE lists[t]]
            /\ wake' = [t \in Tasks |-> IF t \in due THEN 0 ELSE wake[t]]
            /\ xNextTaskUnblockTime' \in
                 IF now >= unblock THEN Earliest(where') ELSE {unblock}

\* Its result: a task it released is not below the running one, or another
\* ready task has the same priority (time slicing), or a switch is pending.
xSwitchRequired ==
  \/ \E t \in Tasks : where[t] # "ready" /\ where'[t] = "ready" /\ preempts(t)
  \/ \E t, u \in Tasks : /\ t # u /\ where'[t] = "ready" /\ where'[u] = "ready"
                         /\ Priority[t] = Priority[pxCurrentTCB]
                         /\ Priority[u] = Priority[pxCurrentTCB]
  \/ xYieldPending

\* A tick interrupt happens; no iteration is later than the bound.
Interrupted ==
  /\ \A t \in Periodic : where[t] = "ready" => elapsed[t] < PERIOD[t] + MAX_LATE
  /\ elapsed' = [t \in Periodic |-> elapsed[t] + 1]

TickCounted ==
  /\ scheduler = "running"
  /\ Interrupted
  /\ CountTick
  /\ IF xSwitchRequired THEN vTaskSwitchContext ELSE UNCHANGED pxCurrentTCB
  /\ UNCHANGED <<pc, xPendedTicks, scheduler, xYieldPending, entry, tcnt, notifyVars>>

\* The count stands while the scheduler is suspended.
TickPended ==
  /\ scheduler = "suspended"
  /\ xPendedTicks < MAX_PENDED
  /\ Interrupted
  /\ xPendedTicks' = xPendedTicks + 1
  /\ UNCHANGED <<pc, pxCurrentTCB, scheduler, xYieldPending, delayVars, entry, tcnt,
                 notifyVars>>

-------------------------------------------------------------------------------
(* Delays                                                                  *)

\* Mutant: a wake time behind a wrap goes into the current list.
listOf_One(time) == "delayed"

\* The list for a wake time.
listOf(time) == IF time < xTickCount THEN "overflow" ELSE "delayed"

\* prvAddCurrentTaskToDelayedList.
AddCurrentTaskToDelayedList(t, n) ==
  LET time == plus(xTickCount, n)
  IN  /\ wake' = [wake EXCEPT ![t] = time]
      /\ where' = [where EXCEPT ![t] = listOf(time)]
      /\ xNextTaskUnblockTime' =
           IF listOf(time) = "delayed" /\ time < xNextTaskUnblockTime
             THEN time ELSE xNextTaskUnblockTime
      /\ UNCHANGED xTickCount

\* An iteration of a periodic task starts with the reading of the count.
BeginIteration(t) ==
  /\ t \in Periodic
  /\ at(t, "start")
  /\ entry' = [entry EXCEPT ![t] = xTickCount]
  /\ elapsed' = [elapsed EXCEPT ![t] = 0]
  /\ goto(t, IF t = Notifier THEN "notify" ELSE "until")
  /\ UNCHANGED <<pxCurrentTCB, xPendedTicks, scheduler, xYieldPending, delayVars,
                 tcnt, notifyVars>>

\* What is left to the target, as an unsigned difference.
toGo(t) == minus(plus(entry[t], PERIOD[t]), xTickCount)

\* A difference with the top bit set is a target that has passed.
stillAhead(n) == n # 0 /\ 2 * n < TICKS

\* osDelayUntil up to vTaskDelayUntil; a passed target is an error the callers
\* ignore.
osDelayUntil(t) ==
  /\ t \in Periodic
  /\ at(t, "until")
  /\ IF stillAhead(toGo(t))
       THEN /\ tcnt' = [tcnt EXCEPT ![t] = xTickCount]
            /\ goto(t, "delayuntil")
            /\ UNCHANGED entry
       ELSE /\ entry' = [entry EXCEPT ![t] = 0]
            /\ goto(t, "start")
            /\ UNCHANGED tcnt
  /\ UNCHANGED <<pxCurrentTCB, xPendedTicks, scheduler, xYieldPending, delayVars,
                 notifyVars, elapsed>>

\* vTaskDelayUntil up to xTaskResumeAll, with the previous wake time tcnt.
vTaskDelayUntil(t) ==
  LET time  == plus(entry[t], PERIOD[t])
      delay == IF xTickCount < tcnt[t] THEN time < tcnt[t] /\ time > xTickCount
               ELSE time < tcnt[t] \/ time > xTickCount
  IN  /\ t \in Periodic
      /\ at(t, "delayuntil")
      /\ scheduler' = "suspended"
      /\ IF delay THEN AddCurrentTaskToDelayedList(t, minus(time, xTickCount))
                  ELSE UNCHANGED delayVars
      /\ goto(t, "resume")
      /\ entry' = [entry EXCEPT ![t] = 0]
      /\ tcnt' = [tcnt EXCEPT ![t] = 0]
      /\ UNCHANGED <<pxCurrentTCB, xPendedTicks, xYieldPending, notifyVars, elapsed>>

\* vTaskDelay up to xTaskResumeAll.
vTaskDelay(t) ==
  /\ t \in Relative
  /\ at(t, "start")
  /\ scheduler' = "suspended"
  /\ AddCurrentTaskToDelayedList(t, PERIOD[t])
  /\ goto(t, "resume")
  /\ UNCHANGED <<pxCurrentTCB, xPendedTicks, xYieldPending, entry, tcnt, notifyVars,
                 elapsed>>

\* xTaskResumeAll processes one of the ticks that were pended.
Unwind(t) ==
  /\ at(t, "resume")
  /\ xPendedTicks > 0
  /\ scheduler' = "unwinding"
  /\ CountTick
  /\ xPendedTicks' = xPendedTicks - 1
  /\ xYieldPending' = xSwitchRequired
  /\ UNCHANGED <<pc, pxCurrentTCB, entry, tcnt, notifyVars, elapsed>>

\* Mutant: the ticks that were pended are dropped.
unwound_Dropped == TRUE

unwound == xPendedTicks = 0

\* Its end; it has yielded if a released task asked for it.
xTaskResumeAll(t) ==
  /\ at(t, "resume")
  /\ unwound
  /\ scheduler' = "running"
  /\ xPendedTicks' = 0
  /\ xYieldPending' = FALSE
  /\ goto(t, IF xYieldPending THEN "start" ELSE "yield")
  /\ UNCHANGED delayVars
  /\ IF xYieldPending THEN vTaskSwitchContext ELSE UNCHANGED pxCurrentTCB
  /\ UNCHANGED <<entry, tcnt, notifyVars, elapsed>>

\* portYIELD_WITHIN_API, unless it has.
Yield(t) ==
  /\ at(t, "yield")
  /\ goto(t, "start")
  /\ UNCHANGED delayVars
  /\ vTaskSwitchContext
  /\ UNCHANGED <<xPendedTicks, scheduler, xYieldPending, entry, tcnt, notifyVars, elapsed>>

-------------------------------------------------------------------------------
(* Notifications                                                           *)

\* xTaskGenericNotify with eSetBits, a critical section.
xTaskNotify(t) ==
  /\ t = Notifier
  /\ at(t, "notify")
  /\ notifyState' = "received"
  /\ notified' = TRUE
  /\ where' = IF notifyState = "waiting" THEN [where EXCEPT ![Waiter] = "ready"]
              ELSE where
  /\ goto(t, "until")
  /\ IF notifyState = "waiting" /\ Priority[Waiter] > Priority[t]
       THEN vTaskSwitchContext ELSE UNCHANGED pxCurrentTCB
  /\ UNCHANGED <<xPendedTicks, scheduler, xYieldPending, xTickCount, wake,
                 xNextTaskUnblockTime, entry, tcnt, elapsed>>

\* Mutant: the task blocks even when a notification is pending.
mustWait_Always == TRUE

mustWait == notifyState # "received"

\* The first critical section of xTaskNotifyWait; HAL_MAX_DELAY is portMAX_DELAY,
\* which suspends the task.
xTaskNotifyWait ==
  /\ at(Waiter, "start")
  /\ notifyState' = IF mustWait THEN "waiting" ELSE notifyState
  /\ where' = IF mustWait THEN [where EXCEPT ![Waiter] = "suspended"] ELSE where
  /\ goto(Waiter, "taking")
  /\ IF mustWait THEN vTaskSwitchContext ELSE UNCHANGED pxCurrentTCB
  /\ UNCHANGED <<xPendedTicks, scheduler, xYieldPending, xTickCount, wake,
                 xNextTaskUnblockTime, notified, entry, tcnt, elapsed>>

\* The second one returns the value and clears it.
Take ==
  /\ at(Waiter, "taking")
  /\ notified' = FALSE
  /\ notifyState' = "none"
  /\ goto(Waiter, "start")
  /\ UNCHANGED <<pxCurrentTCB, xPendedTicks, scheduler, xYieldPending, delayVars,
                 entry, tcnt, elapsed>>

KernelNext ==
  \/ TickCounted \/ TickPended \/ xTaskNotifyWait \/ Take
  \/ \E t \in Timed :
       \/ BeginIteration(t) \/ osDelayUntil(t) \/ vTaskDelayUntil(t) \/ vTaskDelay(t)
       \/ Unwind(t) \/ xTaskResumeAll(t) \/ Yield(t) \/ xTaskNotify(t)

KernelSpec == KernelInit /\ [][KernelNext]_kernelVars

-------------------------------------------------------------------------------
(* Properties                                                              *)

KernelTypeOK ==
  /\ pc \in [Tasks -> {"start", "notify", "until", "delayuntil", "resume", "yield",
                       "taking"}]
  /\ pxCurrentTCB \in Tasks
  /\ xTickCount \in 0 .. TICKS - 1
  /\ xPendedTicks \in 0 .. MAX_PENDED
  /\ scheduler \in {"running", "suspended", "unwinding"}
  /\ xYieldPending \in BOOLEAN
  /\ where \in [Tasks -> {"ready", "delayed", "overflow", "suspended"}]
  /\ wake \in [Tasks -> 0 .. TICKS - 1]
  /\ xNextTaskUnblockTime \in 0 .. TICKS - 1
  /\ entry \in [Periodic -> 0 .. TICKS - 1]
  /\ tcnt \in [Periodic -> 0 .. TICKS - 1]
  /\ notifyState \in {"none", "waiting", "received"}
  /\ notified \in BOOLEAN
  /\ elapsed \in [Periodic -> Nat]

\* The ticks a sleeping task has still to sleep by its place in the lists.
Left(t) == CASE where[t] = "delayed"  -> wake[t] - xTickCount
             [] where[t] = "overflow" -> wake[t] + TICKS - xTickCount
             [] OTHER -> 0

Alarms == INSTANCE Alarm WITH
  Sleepers  <- Timed,
  MAX_SLEEP <- portMAX_DELAY,
  left      <- [t \in Timed |-> Left(t)]

\* Every sleep lasts the ticks it was asked for, across wraps of the count,
\* ticks pended meanwhile and other tasks' sleeps (vTaskDelay, vTaskDelayUntil).
KeepsAlarms == Alarms!Spec

\* A periodic task sleeps to the end of its period and not a tick longer,
\* wherever ticks fell between the reading of the count and the sleep: the
\* interrupts since the iteration began, but for the ones still pended, and the
\* rest of the sleep are the period (safety_task, dashboard_task, osDelayUntil).
SleepsToPeriod ==
  \A t \in Periodic :
    where[t] \in {"delayed", "overflow"} => elapsed[t] - xPendedTicks + Left(t) = PERIOD[t]

\* No iteration of a periodic task begins before the last one's period is over.
PeriodNeverShort ==
  [][\A t \in Periodic : BeginIteration(t) => elapsed[t] >= PERIOD[t]]_kernelVars

\* While the scheduler is not suspended the running task is one of the highest
\* priority that is ready, but for a task on its way to sleep (safety_task's
\* iterations are uninterrupted by lower tasks because of it).
HighestReadyRuns ==
  scheduler = "running" /\ pc[pxCurrentTCB] # "yield" => pxCurrentTCB \in Highest(where)

\* canbus_task never sleeps with a notification pending (xTaskNotify against
\* xTaskNotifyWait, which loops with no timeout).
NoLostWakeUp == where[Waiter] = "suspended" => ~notified

-------------------------------------------------------------------------------
(* The inductive invariant                                                 *)

\* The lists: what is delayed lies ahead and no earlier than the next unblock
\* time, what is behind the wrap is below the count, and so the list is empty
\* when the two are switched, as the kernel asserts (tasks.c:203).
ListsInv ==
  \A t \in Tasks :
    /\ where[t] = "delayed" => wake[t] > xTickCount /\ wake[t] >= xNextTaskUnblockTime
    /\ where[t] = "overflow" => wake[t] < xTickCount

\* Which task can be in which list, and where its code is then.
Placed(t) ==
  /\ where[t] \in {"delayed", "overflow"}
       => t \in Timed /\ pc[t] \in {"start", "resume", "yield"}
  /\ where[t] = "suspended" => t = Waiter
  /\ pc[t] \in {"notify", "until", "delayuntil"} => t \in Periodic
  /\ pc[t] = "taking" => t = Waiter
  /\ pc[t] = "notify" => t = Notifier

\* The scheduler is suspended only within the running task's delay.
SchedulerInv ==
  /\ \A t \in Tasks : pc[t] = "resume" => t = pxCurrentTCB
  /\ scheduler = "running" <=> pc[pxCurrentTCB] # "resume"
  /\ scheduler = "running" => xPendedTicks = 0 /\ ~xYieldPending

\* The count, less what it was when an iteration began, is the interrupts since
\* then that are not pended; a count osDelayUntil has read lies in between.
age(t) == elapsed[t] - xPendedTicks

Counting(t) ==
  pc[t] \in {"notify", "until", "delayuntil"} =>
    /\ where[t] = "ready"
    /\ age(t) \in 0 .. PERIOD[t] + MAX_LATE
    /\ elapsed[t] <= PERIOD[t] + MAX_LATE
    /\ minus(xTickCount, entry[t]) = age(t)
    /\ pc[t] = "delayuntil" =>
         /\ minus(tcnt[t], entry[t]) <= age(t)
         /\ minus(tcnt[t], entry[t]) < PERIOD[t]

\* An iteration that is over has taken its period, or the rest of it is slept.
Rested(t) ==
  pc[t] \in {"start", "resume", "yield"} =>
    IF where[t] = "ready" THEN age(t) >= PERIOD[t] ELSE age(t) + Left(t) = PERIOD[t]

\* A notification that is there is marked as received.
NotifyInv ==
  /\ notified => notifyState = "received"
  /\ where[Waiter] = "suspended" => notifyState = "waiting"

KernelInv ==
  /\ ListsInv /\ SchedulerInv /\ HighestReadyRuns /\ NotifyInv
  /\ \A t \in Tasks : Placed(t)
  /\ \A t \in Periodic : Counting(t) /\ Rested(t)
===============================================================================
