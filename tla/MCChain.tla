-------------------------------- MODULE MCChain --------------------------------
(* PedalChain with a filter of three samples and a limit of two iterations.  *)
EXTENDS PedalChain

\* Every percentage the monitor may be given.
MCPedal == 0 .. 100 * Scale

\* Open, released, 12.5 % and full travel.
MCCount == {0, 200, 212, 300}

\* The brake released, its sensor in order.
MCBseCount == {100}
===============================================================================
