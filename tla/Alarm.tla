--------------------------------- MODULE Alarm ---------------------------------
(***************************************************************************)
(* What the kernel promises of a sleep: a task that asks for n ticks is    *)
(* woken by the n-th counted tick after the call, not earlier and not      *)
(* later, whoever else sleeps and wherever the tick counter wraps.         *)
(***************************************************************************)
EXTENDS Naturals

CONSTANTS
  Sleepers,
  MAX_SLEEP   \* the longest sleep there is

VARIABLE left   \* ticks each task has still to sleep, 0 when it is awake

Init == left = [t \in Sleepers |-> 0]

Sleep(t, n) ==
  /\ left[t] = 0
  /\ left' = [left EXCEPT ![t] = n]

\* One counted tick: every sleep gets shorter by it.
Tick == left' = [t \in Sleepers |-> IF left[t] = 0 THEN 0 ELSE left[t] - 1]

Next == Tick \/ \E t \in Sleepers, n \in 1 .. MAX_SLEEP : Sleep(t, n)

Spec == Init /\ [][Next]_left
===============================================================================
