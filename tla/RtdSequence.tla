------------------------------ MODULE RtdSequence ------------------------------
(***************************************************************************)
(* rtd_task in time: its relative 50 ms delay, the 32-bit tick counter it  *)
(* reads and the 3 s of the buzzer.  The other tasks are an environment    *)
(* that shows it any hard fault and any brake light at either of its two   *)
(* reads.  The ticks of an iteration itself are part of LATE_MS.           *)
(***************************************************************************)
EXTENDS RtdMachine, Integers

CONSTANTS
  RTD_PERIOD_MS,     \* period of rtd_task_fn, 50 in the code
  RTD_BUZZER_MS,     \* 3000 in the code
  RTD_BUZZER_MS_MAX, \* the longest the rules allow, 3000 in the code
  LATE_MS,           \* the most that preemption adds to one period
  TICK_MOD           \* the tick counter counts modulo this, 2^32 in the code

ASSUME SequenceAssumption ==
  /\ RTD_PERIOD_MS \in Nat \ {0}
  /\ RTD_BUZZER_MS \in Nat \ {0}
  /\ RTD_BUZZER_MS_MAX \in Nat
  /\ RTD_BUZZER_MS <= RTD_BUZZER_MS_MAX
  /\ LATE_MS \in Nat
  /\ TICK_MOD \in Nat
  /\ TICK_MOD > RTD_BUZZER_MS + RTD_PERIOD_MS + LATE_MS

\* Bound of the recorded length: what the buzzer must not reach.
SOUND_CAP == RTD_BUZZER_MS + RTD_PERIOD_MS + LATE_MS

VARIABLES
  phase,          \* next half of the iteration
  tick,           \* osKernelGetTickCount
  buzzer_start,   \* local variable of the task
  hard,           \* hard fault, as last read
  brake,          \* brake light, as last read
  sounded         \* history: for how many ms the buzzer has been on, capped

sequenceVars == <<rtdVars, phase, tick, buzzer_start, hard, brake, sounded>>

SequenceInit ==
  /\ RtdInit
  /\ phase = "sample"
  /\ tick = 0
  /\ buzzer_start = 0
  /\ hard = FALSE
  /\ brake = FALSE
  /\ sounded = 0

SampleStep ==
  /\ phase = "sample"
  /\ hard' \in BOOLEAN
  /\ \E ts, button \in BOOLEAN : Sample(ts, button, hard')
  /\ phase' = "switch"
  /\ UNCHANGED <<tick, buzzer_start, brake, sounded>>

\* Mutant: the difference is taken without the wrap of the counter.
elapsed_NoWrap(now, start) == now - start >= RTD_BUZZER_MS

\* Unsigned subtraction of two tick counts.
elapsed_since(now, start) == (now - start) % TICK_MOD >= RTD_BUZZER_MS

\* Mutant: the start of the buzzer is not taken anew on a second entry.
start_Once(from, to) ==
  IF from = "TS_ACTIVE" /\ to = "RTD" /\ buzzer_start = 0 THEN tick ELSE buzzer_start

\* The buzzer's start is read on entry to RTD.
start_after(from, to) ==
  IF from = "TS_ACTIVE" /\ to = "RTD" THEN tick ELSE buzzer_start

sounding(ms) == IF ms < SOUND_CAP THEN ms ELSE SOUND_CAP

\* The switch and the delay after it: `late' ms of preemption on top.
SwitchStep ==
  /\ phase = "switch"
  /\ hard' \in BOOLEAN
  /\ brake' \in BOOLEAN
  /\ Switch(hard', brake', elapsed_since(tick, buzzer_start))
  /\ buzzer_start' = start_after(vcu_state, vcu_state')
  /\ \E late \in 0 .. LATE_MS :
       LET ms == RTD_PERIOD_MS + late
       IN  /\ tick' = (tick + ms) % TICK_MOD
           /\ sounded' = IF ~buzzer' THEN sounded
                         ELSE IF buzzer THEN sounding(sounded + ms) ELSE ms
  /\ phase' = "sample"

SequenceNext == SampleStep \/ SwitchStep

SequenceSpec == SequenceInit /\ [][SequenceNext]_sequenceVars

-------------------------------------------------------------------------------

SequenceTypeOK ==
  /\ vcu_state \in VcuState
  /\ {tsal, rtd_button, buzzer, hard, brake} \subseteq BOOLEAN
  /\ phase \in {"sample", "switch"}
  /\ tick \in 0 .. TICK_MOD - 1
  /\ buzzer_start \in 0 .. TICK_MOD - 1
  /\ sounded \in 0 .. SOUND_CAP

\* Drive is entered only after the buzzer has sounded without a break for the
\* full time, across a wrap of the tick counter and after any number of
\* interrupted attempts (rtd_task.c RTD case).
DriveOnlyAfterBuzzer ==
  [][ (vcu_state = "RTD" /\ vcu_state' = "DRIVE")
        => (buzzer /\ sounded >= RTD_BUZZER_MS) ]_sequenceVars

\* The buzzer outlasts its time by less than one period and its lateness, for
\* the task polls the clock once a period (rtd_task.c RTD case).  That is the
\* bound the code keeps, not the rule's: see BuzzerWithinRule.
BuzzerOvershootBounded == sounded < SOUND_CAP

driverReady == tsal /\ rtd_button /\ brake /\ ~hard

\* A driver who holds the button and the brake with the tractive system up and
\* no hard fault gets into Drive and stays there: no state of the machine is a
\* trap (rtd_task.c switch).
HeldDriverDrives == <>[]driverReady => <>[](vcu_state = "DRIVE")

-------------------------------------------------------------------------------
(* What the documentation says and the code does not do                    *)

\* state_machine.h: "RTD buzzer duration must be within [1000, 3000] ms".  The time
\* to sound is already the longest allowed, and the poll that ends it comes late.
BuzzerWithinRule == sounded <= RTD_BUZZER_MS_MAX
===============================================================================
