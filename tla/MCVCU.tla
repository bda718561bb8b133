--------------------------------- MODULE MCVCU ---------------------------------
(* VCU at whole percents, with a limit of two iterations for the APPS rule.  *)
EXTENDS VCU

\* Released, beyond every threshold, and, one channel of each, in disagreement.
MCPedal == {0, 60}

\* Out of band, brake released, half travel.
MCBseCount == {0, 100, 400}

\* The smallest input that still starts and ends all three faults.
RegistryBseCount == {0, 400}

\* One pedal position: neither the sequence nor the liveness of the tasks depends
\* on it, and the brake sensor starts and ends the hard faults.
LivePedal == {0}
===============================================================================
