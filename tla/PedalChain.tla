------------------------------ MODULE PedalChain ------------------------------
(***************************************************************************)
(* The safety monitor from the raw ADC counts of the two APPS on: the      *)
(* scaling of Core/drivers/map.c, the clamp and the moving average of      *)
(* Core/drivers/pot.c, and the iteration of SafetyMonitor on the averages. *)
(*                                                                         *)
(* Scale is 2 * HISTORYSIZE: a sample is a whole number of half percents,  *)
(* so the sum of a full history is its mean in model units.  Pedal is not  *)
(* an input here: by ChainTypeOK the averages stay in it.                  *)
(***************************************************************************)
EXTENDS SafetyMonitor

CONSTANTS
  HISTORYSIZE,   \* 50 in the code
  Count          \* raw readings of an APPS tried, 12 bits

ASSUME ChainAssumption ==
  /\ HISTORYSIZE \in Nat \ {0}
  /\ Scale = 2 * HISTORYSIZE
  /\ Count \subseteq 0 .. 4095
  /\ Pedal = 0 .. 100 * Scale

VARIABLES
  hist1, hist2,  \* hist of the two pot_t, newest first, in half percents
  apart,         \* history: for how many iterations the raw travels have been
                 \* deviating, channel 1 above or channel 2 above, capped
  released_for,  \* history: ... both pedals have been released
  open_for       \* history: ... channel 1 has been out of its band

pastVars  == <<apart, released_for, open_for>>
chainVars == <<monitorVars, hist1, hist2, pastVars>>

-------------------------------------------------------------------------------
(* drivers/map.c and drivers/pot.c                                         *)

\* APPS1_0, APPS1_100 of board.h; APPS2 has the same.
APPS_0   == 200
APPS_100 == 300

\* Mutant: the reading is not clamped.
sample_Unclamped(count) == 2 * (count - APPS_0) + 1

\* Mutant: the count's offset is taken off in unsigned arithmetic.
sample_Unsigned(count) == Clamp(0, 200, 2 * ((count - APPS_0) % 65536) + 1)

\* One reading in half percents, clamped.  The input range is 100 counts, so
\* map() adds half a percent; what it subtracts below APPS_0 is clamped away.
sample(count) ==
  Clamp(0, 200, (2 * 100 * (count - APPS_0)) \div (APPS_100 - APPS_0) + 1)

\* Mutant: the older samples stay where they are.
shifted_Stuck(hist, s) == [i \in 1 .. HISTORYSIZE |-> IF i = 1 THEN s ELSE hist[i]]

\* The history with a new sample.
shifted(hist, s) == [i \in 1 .. HISTORYSIZE |-> IF i = 1 THEN s ELSE hist[i - 1]]

\* What the loop has added up after so many samples.
sums(hist) ==
  LET sum[n \in 0 .. HISTORYSIZE] == IF n = 0 THEN 0 ELSE sum[n - 1] + hist[n]
  IN  sum

\* pot_get_percent: the mean of the history, in model units.
mean(hist) == sums(hist)[HISTORYSIZE]

-------------------------------------------------------------------------------

DELAY == HISTORYSIZE + APPS_IMPLAUSIBILITY_LIMIT_MS \div PERIOD_MS

Cap(k) == IF k < DELAY THEN k ELSE DELAY

\* pot_init fills the histories with 0.
ChainInit ==
  /\ MonitorInit
  /\ hist1 = [i \in 1 .. HISTORYSIZE |-> 0]
  /\ hist2 = [i \in 1 .. HISTORYSIZE |-> 0]
  /\ apart = <<0, 0>>
  /\ released_for = 0
  /\ open_for = 0

\* Raw travel differs by more than the threshold, channel a above channel b.
above(a, b) == sample(a) - sample(b) > 2 * 10

out_of_band(count) ==
  \/ count < APPS_0 - 5
  \/ count > APPS_100 + 5

Observe(count1, count2) ==
  /\ apart' = <<IF above(count1, count2) THEN Cap(apart[1] + 1) ELSE 0,
                IF above(count2, count1) THEN Cap(apart[2] + 1) ELSE 0>>
  /\ released_for' = IF count1 <= APPS_0 /\ count2 <= APPS_0
                       THEN Cap(released_for + 1) ELSE 0
  /\ open_for' = IF out_of_band(count1) THEN Cap(open_for + 1) ELSE 0

\* One iteration of safety_task_fn, its conversions included.
ChainNext ==
  \E count1, count2 \in Count, count \in BseCount :
    /\ hist1' = shifted(hist1, sample(count1))
    /\ hist2' = shifted(hist2, sample(count2))
    /\ Iterate(mean(hist1'), mean(hist2'), count)
    /\ Observe(count1, count2)

ChainSpec == ChainInit /\ [][ChainNext]_chainVars

-------------------------------------------------------------------------------

\* The histories are full and hold percentages, as does their mean: what
\* SafetyMonitor assumes of its inputs.
ChainTypeOK ==
  /\ hist1 \in [1 .. HISTORYSIZE -> 0 .. 200]
  /\ hist2 \in [1 .. HISTORYSIZE -> 0 .. 200]
  /\ {mean(hist1), mean(hist2)} \subseteq Pedal

\* A raw disagreement that keeps its direction has cut the torque and opened the
\* circuit after one length of the filter and the time the rule allows, whatever
\* the pedals did before (pot_get_percent in front of apps_plausibility_update,
\* the report and set_fw in safety_task_fn).
DisagreementCutInTime ==
  \A channel \in {1, 2} :
    apart[channel] >= DELAY => "APPS" \in faults /\ ~fw_state

\* Two samples of one iteration, both still in the filters, disagree.
Suspect == \E i \in 1 .. HISTORYSIZE : hist1[i] - hist2[i] \notin -20 .. 20

\* And nothing else cuts: a cut starts only over filters that still hold a
\* disagreement of the raw travels, never from travels out of range, from filters
\* that lag one another or from a pedal that moves fast (map, pot_get_percent,
\* apps_plausibility_update).
CutNeedsDisagreement ==
  [][ (apps_state'.torque_inhibited /\ ~apps_state.torque_inhibited)
        => Suspect' ]_chainVars

\* Pedals released for one length of the filter command no torque, whatever
\* they did before (pot_get_percent, torque_from_throttle_pct).
ReleaseStopsTorque == released_for >= HISTORYSIZE => torque_cmd = 0

\* What one sample of each channel weighs in whole percents, and in torque.
STEP_PCT == (100 + HISTORYSIZE - 1) \div HISTORYSIZE
STEP_CMD == (TORQUE_MAX_CMD * STEP_PCT + 99) \div 100

\* An iteration moves the torque by no more than one sample's weight, however
\* wild the sample and in whichever direction: the filter is a limit on the slew
\* of the command, 4 of 160 counts with its 50 samples (map, pot_get_percent,
\* apps_throttle_pct, torque_from_throttle_pct).
TorqueIsSmooth ==
  [][ torque_cmd' - torque_cmd \in -STEP_CMD .. STEP_CMD ]_chainVars

\* apps.h: "Out-of-range / floating / open-circuit on either channel is
\* implausible."  pot_get_percent clamps before the check can see it, and an
\* open channel looks like a released one.
OpenCircuitIsImplausible == open_for >= DELAY => apps_state.torque_inhibited
===============================================================================
