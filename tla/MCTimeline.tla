------------------------------ MODULE MCTimeline ------------------------------
(* SafetyTimeline with half-percent pedals at and around every threshold.    *)
EXTENDS SafetyTimeline

\* 0, 4.5, 5, 5.5, 15.5, 25.5, 26 and 100 percent.
MCPedal == {0, 9, 10, 11, 31, 51, 52, 200}

\* The pedal released, 10.25 % and 11 % of brake, and out of the band above.
MCBseCount == {50, 239, 242, 4001}
===============================================================================
