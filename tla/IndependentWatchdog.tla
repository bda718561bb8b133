-------------------------- MODULE IndependentWatchdog --------------------------
(***************************************************************************)
(* The independent watchdog in time: its half second against the readings  *)
(* of the safety monitor (Core/app/safety_task.c), whose polls have no     *)
(* limit (stm32f103_adc_read), against the monitor's period and against    *)
(* what is left of start-up once the watchdog runs (main.c, app.c).        *)
(*                                                                         *)
(* A step of time is a millisecond.  The watchdog counts its own, slow and *)
(* inexact oscillator and expires some time between WD_MIN_MS and          *)
(* WD_MAX_MS after it was last fed.  What the checks find in the readings  *)
(* is any hard fault or none (SafetyMonitor has the checks).               *)
(***************************************************************************)
EXTENDS Integers

CONSTANTS
  WD_MIN_MS,   \* 78 counts of 256 cycles of the oscillator at its fastest
  WD_MAX_MS,   \* 79 counts at its slowest
  LOOP_MS,     \* the monitor's period, 5 in the code
  JITTER_MS    \* the most that interrupts and the tick add to one iteration

ASSUME WatchdogAssumption ==
  /\ WD_MIN_MS \in Nat /\ WD_MAX_MS \in Nat
  /\ WD_MIN_MS <= WD_MAX_MS
  /\ LOOP_MS \in Nat \ {0}
  /\ JITTER_MS \in Nat

VARIABLES
  stage,       \* where the program is, from the start of the watchdog on
  closed,      \* the circuit output
  since_feed,  \* ms since the watchdog was last fed
  since_entry, \* ms since the monitor's iteration read the tick count
  lateness,    \* ms since the last feed that were neither asked for nor waited
  sample_age,  \* history: ms since the iteration began whose samples the
               \* output stands for
  held         \* history: ms since the last feed in start-up or in readings

watchVars == <<stage, closed, since_feed, since_entry, lateness, sample_age, held>>

Stage == {"start", "read", "drive", "feed", "delay"}

\* stm32f103_iwdg_init has started the watchdog and fed it; the output is open.
WatchInit ==
  /\ stage = "start"
  /\ closed = FALSE
  /\ since_feed = 0
  /\ since_entry = 0
  /\ lateness = 0
  /\ sample_age = 0
  /\ held = 0

-------------------------------------------------------------------------------
(* The program                                                             *)

\* An iteration begins: after start-up at once, and after the delay when the
\* period is over.  An iteration that took longer does not wait: osDelayUntil
\* returns an error, which is ignored.
Enter ==
  /\ stage = "start" \/ (stage = "delay" /\ since_entry >= LOOP_MS)
  /\ stage' = "read"
  /\ since_entry' = 0
  /\ UNCHANGED <<closed, since_feed, lateness, sample_age, held>>

\* The three readings have ended, however long their polls took.
Readings ==
  /\ stage = "read"
  /\ stage' = "drive"
  /\ UNCHANGED <<closed, since_feed, since_entry, lateness, sample_age, held>>

\* set_fw, on what the checks make of the samples.
Drive ==
  /\ stage = "drive"
  /\ closed' \in BOOLEAN
  /\ sample_age' = since_entry
  /\ stage' = "feed"
  /\ UNCHANGED <<since_feed, since_entry, lateness, held>>

\* Mutant: a monitor that holds the circuit open does not feed.
feeds_Closed(output) == output

\* stm32f103_iwdg_refresh is reached with the circuit open, too.
feeds(output) == TRUE

\* The refresh at the end of the iteration.
Feed ==
  /\ stage = "feed"
  /\ since_feed' = IF feeds(closed) THEN 0 ELSE since_feed
  /\ lateness' = 0
  /\ held' = 0
  /\ stage' = "delay"
  /\ UNCHANGED <<closed, since_entry, sample_age>>

-------------------------------------------------------------------------------
(* Time and the watchdog                                                   *)

\* Mutant: the tick interrupt feeds the watchdog.
unfed_Tick(ms) == 0

\* Only the monitor feeds it.
unfed(ms) == ms + 1

\* A millisecond passes.  Start-up and the readings take any time, the delay as
\* long as was asked, and the highest-priority task little more than that.
Tick ==
  /\ since_feed < WD_MAX_MS
  /\ \/ stage \in {"start", "read"} /\ held' = held + 1 /\ lateness' = lateness
     \/ stage = "delay" /\ since_entry < LOOP_MS /\ UNCHANGED <<held, lateness>>
     \/ /\ stage \in {"drive", "feed"} \/ (stage = "delay" /\ since_entry >= LOOP_MS)
        /\ lateness < JITTER_MS
        /\ lateness' = lateness + 1
        /\ held' = held
  /\ since_feed' = unfed(since_feed)
  /\ since_entry' = since_entry + 1
  /\ sample_age' = sample_age + 1
  /\ UNCHANGED <<stage, closed>>

\* The watchdog resets the controller, which opens the circuit.  What of start-up
\* comes before the watchdog's next start takes its time unwatched (see Boot).
Expire ==
  /\ since_feed >= WD_MIN_MS
  /\ stage' = "start"
  /\ closed' = FALSE
  /\ since_feed' = 0
  /\ since_entry' = 0
  /\ lateness' = 0
  /\ sample_age' = 0
  /\ held' = 0

WatchNext == Enter \/ Readings \/ Drive \/ Feed \/ Tick \/ Expire

WatchSpec == WatchInit /\ [][WatchNext]_watchVars

-------------------------------------------------------------------------------

WatchTypeOK ==
  /\ stage \in Stage
  /\ closed \in BOOLEAN
  /\ since_feed \in 0 .. WD_MAX_MS
  /\ since_entry \in Nat
  /\ lateness \in 0 .. JITTER_MS
  /\ sample_age \in Nat
  /\ held \in Nat

\* The circuit is never closed on samples older than twice the watchdog's longest
\* time, wherever a conversion hangs: an iteration may be held up for almost that
\* time, drive the output on what it read before, feed, and the next one may hang
\* (stm32f103_adc_read, set_fw and stm32f103_iwdg_refresh in safety_task_fn).
ClosedOnFreshSamples == closed => sample_age <= 2 * WD_MAX_MS

\* The watchdog bites only what holds the program up: while the readings and
\* start-up take less than its shortest time, a period and its lateness apart, it
\* does not expire, whatever faults stand and however periods overrun.
BitesOnlyHeldUp ==
  since_feed >= WD_MIN_MS => held >= WD_MIN_MS - LOOP_MS - JITTER_MS
===============================================================================
