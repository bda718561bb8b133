------------------------------ MODULE SpeedSensor ------------------------------
(***************************************************************************)
(* The wheel-speed counter of Core/drivers/speed_sensor.c: the EXTI        *)
(* interrupt counts edges, dashboard_task consumes the count once per      *)
(* window with a load and a store the interrupt can fall between.  Fewer   *)
(* than 2^32 edges come in one window, so the count never wraps.           *)
(***************************************************************************)
EXTENDS Naturals

CONSTANTS
  WINDOW_MS,   \* 1000 / DASH_FREQ in the code
  MAX_EDGES    \* bound of the model: edges in one behaviour

ASSUME SpeedAssumption == WINDOW_MS \in Nat \ {0} /\ MAX_EDGES \in Nat

VARIABLES
  pulses, hz,  \* speed_sensor_t; hz in whole hertz
  half,        \* next half of speed_sensor_update
  n,           \* its local variable
  edges,       \* history: edges there have been
  counted,     \* history: edges all updates have accounted for
  between      \* history: edges that fell between the halves of an update

speedVars == <<pulses, hz, half, n, edges, counted, between>>

SpeedInit ==
  /\ pulses = 0
  /\ hz = 0
  /\ half = "load"
  /\ n = 0
  /\ edges = 0
  /\ counted = 0
  /\ between = 0

\* speed_sensor_on_edge, in the interrupt.
OnEdge ==
  /\ edges < MAX_EDGES
  /\ edges' = edges + 1
  /\ pulses' = pulses + 1
  /\ between' = IF half = "load" THEN between ELSE between + 1
  /\ UNCHANGED <<hz, half, n, counted>>

\* The first half of speed_sensor_update.
LoadPulses ==
  /\ half = "load"
  /\ n' = pulses
  /\ half' = "store"
  /\ UNCHANGED <<pulses, hz, edges, counted, between>>

\* Mutant: the count is not consumed.
remaining_Kept == pulses

\* The count after an update.
remaining == 0

\* The second half, with the frequency computed from the loaded count.
StorePulses ==
  /\ half = "store"
  /\ pulses' = remaining
  /\ hz' = (n * 1000) \div WINDOW_MS
  /\ counted' = counted + n
  /\ n' = 0
  /\ half' = "load"
  /\ UNCHANGED <<edges, between>>

SpeedNext == OnEdge \/ LoadPulses \/ StorePulses

SpeedSpec == SpeedInit /\ [][SpeedNext]_speedVars

-------------------------------------------------------------------------------

\* Between two updates every edge has been reported or is waiting to be, once,
\* except those that fell between the halves of an update: no edge is counted
\* twice and no other one is lost (speed_sensor_update, speed_sensor_on_edge;
\* by speed_sensor.h none at all should be lost).
EdgesAccounted == half = "load" => counted + pulses + between = edges
===============================================================================
