-------------------------------- MODULE MCTiming --------------------------------
(* What races a clock: start-up with its timeouts and the watchdog, the      *)
(* watchdog once the monitor feeds it, and rtd_task in time.  They share no  *)
(* state, so a behaviour is one of one of them and the others stand still.   *)
EXTENDS Boot, IndependentWatchdog, RtdSequence

VARIABLE unit   \* the part that moves

timingVars == <<unit, bootVars, watchVars, sequenceVars>>

\* Start-up that stands still has one environment.
TimingInit ==
  /\ unit \in {"boot", "watchdog", "sequence"}
  /\ Init /\ WatchInit /\ SequenceInit
  /\ unit # "boot" => ~busIdle /\ ~lsi /\ holds = 0

BootPart     == unit = "boot" /\ Next /\ UNCHANGED <<watchVars, sequenceVars>>
WatchdogPart == unit = "watchdog" /\ WatchNext /\ UNCHANGED <<bootVars, sequenceVars>>
SequencePart == unit = "sequence" /\ SequenceNext /\ UNCHANGED <<bootVars, watchVars>>

TimingNext == (BootPart \/ WatchdogPart \/ SequencePart) /\ UNCHANGED unit

\* Start-up goes on while it can, and an unfed watchdog expires.  The delay of
\* rtd_task always ends and the task then runs: it is the second highest of the
\* application, and the highest sleeps most of its period.
TimingSpec ==
  /\ TimingInit /\ [][TimingNext]_timingVars
  /\ WF_bootVars(unit = "boot" /\ main)
  /\ WF_bootVars(unit = "boot" /\ WatchdogBites)
  /\ WF_sequenceVars(unit = "sequence" /\ SequenceNext)
===============================================================================
