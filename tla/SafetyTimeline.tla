---------------------------- MODULE SafetyTimeline ----------------------------
(***************************************************************************)
(* The safety monitor with history variables: what the pedals have done    *)
(* over the past iterations, recorded without the monitor's own operators  *)
(* or counters.  The properties say that the faults the monitor reports    *)
(* are exactly the ones the rules in control/apps.h and                    *)
(* safety/plausibility.h call for, neither late nor spurious, but for the  *)
(* percent by which casts to int shift the brake-throttle thresholds.      *)
(***************************************************************************)
EXTENDS SafetyMonitor

\* Bound of the recorded lengths: past the limit a run's length is immaterial.
HISTORY_CAP == APPS_IMPLAUSIBILITY_LIMIT_MS \div PERIOD_MS + 1

VARIABLES
  run,      \* iterations, up to now without a break, whose channels disagreed
  worst,    \* longest such run since the pedal was last seen released
  overlap   \* brake and throttle overlapped since APPS was last below 5 %,
            \* by a whole percent past each threshold

historyVars  == <<run, worst, overlap>>
timelineVars == <<monitorVars, historyVars>>

AtMost(cap, n) == IF n <= cap THEN n ELSE cap
LargerOf(m, n) == IF m >= n THEN m ELSE n

disagree(apps1_pct, apps2_pct) ==
  apps1_pct \notin apps2_pct - 10 * Scale .. apps2_pct + 10 * Scale

bothIdle(apps1_pct, apps2_pct) == {apps1_pct, apps2_pct} \subseteq 0 .. 5 * Scale

\* The travels before anything truncates them: the mean of the channels, and
\* (count - 198) / 4 percent of brake, as map() rounds.
travel(apps1_pct, apps2_pct, pct) == apps1_pct + apps2_pct - 2 * pct * Scale
pressed(count, pct)               == count - 198 - 4 * pct

Record(apps1_pct, apps2_pct, count) ==
  /\ run' = IF disagree(apps1_pct, apps2_pct)
              THEN AtMost(HISTORY_CAP, run + 1)
              ELSE 0
  /\ worst' = IF ~disagree(apps1_pct, apps2_pct) /\ bothIdle(apps1_pct, apps2_pct)
                THEN 0
                ELSE LargerOf(worst, run')
  /\ overlap' = /\ travel(apps1_pct, apps2_pct, 5) >= 0
                /\ \/ overlap
                   \/ pressed(count, 11) >= 0 /\ travel(apps1_pct, apps2_pct, 26) >= 0

TimelineInit ==
  MonitorInit /\ run = 0 /\ worst = 0 /\ overlap = FALSE

TimelineNext ==
  \E apps1_pct, apps2_pct \in Pedal, count \in BseCount :
    Iterate(apps1_pct, apps2_pct, count) /\ Record(apps1_pct, apps2_pct, count)

TimelineSpec == TimelineInit /\ [][TimelineNext]_timelineVars

-------------------------------------------------------------------------------

Sustained(n) == n * PERIOD_MS > APPS_IMPLAUSIBILITY_LIMIT_MS

\* FAULT_APPS stands exactly when, since the pedal was last released with the
\* channels in agreement, they disagreed without a break for longer than the
\* limit: shorter glitches never add up to a cut, a long one is never lost to
\* the counter's saturation, and nothing but a released pedal ends a cut
\* (apps_plausibility_update and its report in safety_task_fn).
AppsCutExactly == ("APPS" \in faults) <=> Sustained(worst)

\* FAULT_BPPC stands exactly when at least 11 % of brake met at least 26 % of
\* throttle in some iteration since the throttle was last below 5 %: releasing the
\* brake changes nothing.  The travels are the ones before the casts to int, which
\* put the cut up to a percent later than the thresholds of plausibility.h
\* (safety_task_fn with its casts, bppc_update).
BppcCutExactly == ("BPPC" \in faults) <=> overlap

\* The circuit is closed exactly when no sustained disagreement is pending and
\* the brake sensor reads inside its band: a brake-throttle cut alone leaves
\* it closed, and it is open from power-up to the first good iteration
\* (set_fw in safety_task_fn).
CircuitExactly == fw_state <=> (~Sustained(worst) /\ bse_in_band(bse_count))
===============================================================================
