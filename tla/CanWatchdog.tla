------------------------------ MODULE CanWatchdog ------------------------------
(***************************************************************************)
(* The CAN command watchdog of Core/safety/fault.c, as it runs when        *)
(* CAN_WATCHDOG_ARMED is 1: can_wd_update in the safety monitor, which the *)
(* receive interrupt can hit between any two of its accesses, and          *)
(* can_wd_on_rx in that interrupt.  since_rx_ms and timed_out are not      *)
(* volatile: a value the code has just stored may be taken from memory or  *)
(* from a register when it is used again.                                  *)
(***************************************************************************)
EXTENDS Integers

CONSTANTS
  WD_PERIOD_MS,    \* dt_ms of every call, 5 in the code
  CAN_TIMEOUT_MS,  \* 100 in the code
  WD_UINT32_MAX    \* where since_rx_ms saturates

ASSUME WatchdogAssumption ==
  /\ WD_PERIOD_MS \in Nat \ {0}
  /\ CAN_TIMEOUT_MS \in Nat \ {0}
  /\ WD_UINT32_MAX \in Nat
  /\ WD_UINT32_MAX >= CAN_TIMEOUT_MS + WD_PERIOD_MS

VARIABLES
  since_rx_ms, timed_out,   \* can_watchdog_t
  step,    \* next access of can_wd_update; "load" also between two calls
  since,   \* since_rx_ms in a register
  late,    \* timed_out is known to be set, in a register
  fault,   \* what the last call returned: FAULT_CAN_TIMEOUT
  quiet,   \* history: ms of calls since the last heartbeat, capped
  heard,   \* history: a heartbeat has come during the current call
  raced    \* history: the last heartbeat came during a call

wdVars == <<since_rx_ms, timed_out, step, since, late, fault, quiet, heard, raced>>

Init ==
  /\ since_rx_ms = 0
  /\ timed_out = FALSE
  /\ step = "load"
  /\ since = 0
  /\ late = FALSE
  /\ fault = FALSE
  /\ quiet = 0
  /\ heard = FALSE
  /\ raced = FALSE

\* Saturating addition of the period.
advanced(ms) ==
  IF ms <= WD_UINT32_MAX - WD_PERIOD_MS THEN ms + WD_PERIOD_MS ELSE WD_UINT32_MAX

LoadSince ==
  /\ step = "load"
  /\ since' = advanced(since_rx_ms)
  /\ step' = "store"
  /\ UNCHANGED <<since_rx_ms, timed_out, late, fault, quiet, heard, raced>>

StoreSince ==
  /\ step = "store"
  /\ since_rx_ms' = since
  /\ step' = "compare"
  /\ UNCHANGED <<timed_out, since, late, fault, quiet, heard, raced>>

\* Mutant: the window has to be exceeded.
expired_OffByOne(ms) == ms > CAN_TIMEOUT_MS

expired(ms) == ms >= CAN_TIMEOUT_MS

\* The comparison, on the register or on a fresh load.
Compare ==
  /\ step = "compare"
  /\ \E ms \in {since, since_rx_ms} :
       step' = IF expired(ms) THEN "flag" ELSE "return"
  /\ UNCHANGED <<since_rx_ms, timed_out, since, late, fault, quiet, heard, raced>>

SetTimedOut ==
  /\ step = "flag"
  /\ timed_out' = TRUE
  /\ late' = TRUE
  /\ step' = "return"
  /\ UNCHANGED <<since_rx_ms, since, fault, quiet, heard, raced>>

cappedQuiet(ms) == IF ms < CAN_TIMEOUT_MS THEN ms ELSE CAN_TIMEOUT_MS

\* The flag is returned, and safety_task reports it.
Return ==
  /\ step = "return"
  /\ \E result \in {timed_out, late \/ timed_out} : fault' = result
  /\ quiet' = IF heard THEN quiet ELSE cappedQuiet(quiet + WD_PERIOD_MS)
  /\ heard' = FALSE
  /\ late' = FALSE
  /\ since' = 0
  /\ step' = "load"
  /\ UNCHANGED <<since_rx_ms, timed_out, raced>>

flagAfterRx == FALSE

\* can_wd_on_rx, in the interrupt of an inverter heartbeat.
OnRx ==
  /\ since_rx_ms' = 0
  /\ timed_out' = flagAfterRx
  /\ quiet' = 0
  /\ heard' = (step # "load")
  /\ raced' = (step # "load")
  /\ UNCHANGED <<step, since, late, fault>>

Update == LoadSince \/ StoreSince \/ Compare \/ SetTimedOut \/ Return

Next == Update \/ OnRx

Spec == Init /\ [][Next]_wdVars

-------------------------------------------------------------------------------

WatchdogTypeOK ==
  /\ since_rx_ms \in 0 .. WD_UINT32_MAX
  /\ since \in 0 .. WD_UINT32_MAX
  /\ step \in {"load", "store", "compare", "flag", "return"}
  /\ timed_out \in BOOLEAN
  /\ late \in BOOLEAN
  /\ fault \in BOOLEAN
  /\ heard \in BOOLEAN
  /\ raced \in BOOLEAN
  /\ quiet \in 0 .. CAN_TIMEOUT_MS

\* Silence is never missed: a call that completes the timeout without a
\* heartbeat reports it, and so does every later one until the next heartbeat,
\* wherever earlier heartbeats hit earlier calls and however long the silence
\* lasts (can_wd_update against can_wd_on_rx).
SilenceIsReported == quiet >= CAN_TIMEOUT_MS => fault

\* A timeout is reported without the silence only when the last heartbeat came
\* during a call, whose store undid it; a heartbeat between two calls ends
\* every timeout, false ones included (fault.c has no lock around either).
FalseTimeoutNeedsRace ==
  [][ (Return /\ fault' /\ quiet' < CAN_TIMEOUT_MS) => raced ]_wdVars

-------------------------------------------------------------------------------
(* The inductive invariant                                                 *)

\* The silence to be accounted for once the current call is over, unless a
\* heartbeat hits it.
Carried == IF step \in {"store", "compare", "flag", "return"} /\ ~heard
             THEN cappedQuiet(quiet + WD_PERIOD_MS) ELSE quiet

SilenceInv ==
  /\ since_rx_ms >= quiet
  /\ step = "load" => ~heard /\ ~late
  /\ step # "load" => since >= Carried
  /\ step \in {"compare", "flag", "return"} => since_rx_ms >= Carried
  /\ (step = "return" /\ Carried >= CAN_TIMEOUT_MS) => timed_out
  /\ quiet >= CAN_TIMEOUT_MS => fault

\* Without a race the counter is the silence itself, up to the timeout.
ExactInv ==
  /\ heard => raced
  /\ ~raced =>
       /\ cappedQuiet(since_rx_ms) =
            IF step \in {"compare", "flag", "return"} THEN Carried ELSE quiet
       /\ step # "load" => cappedQuiet(since) = Carried
       /\ timed_out \/ late \/ step = "flag" => Carried >= CAN_TIMEOUT_MS

WatchdogInv == SilenceInv /\ ExactInv
===============================================================================
