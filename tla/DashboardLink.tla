----------------------------- MODULE DashboardLink -----------------------------
(***************************************************************************)
(* The telemetry of dashboard_task: an iteration writes its lines one      *)
(* after the other through dashboard_write and HAL_UART_Transmit, which    *)
(* polls the transmitter's flags against a timeout for the whole line.     *)
(* The task has the lowest priority: time passes between any two of its    *)
(* steps, between the test of a flag and that of the clock too.  The       *)
(* transmitter moves its bytes on in its own time or never.  The report to *)
(* the registry is a single step here; VCU has its two halves.             *)
(***************************************************************************)
EXTENDS Integers, Sequences

CONSTANTS
  LINES,          \* lines of an iteration, 7 in the code
  LINE_LENGTH,    \* bytes of a line
  LINE_TIMEOUT,   \* ticks for a line, 200 in the code
  HAL_TICKS,      \* uwTick counts modulo this, 2^32 in the code
  MAX_SPENT       \* bound of the model: ticks in one line

\* The bound leaves room for the timeout, and the count is wider than the bound.
ASSUME LinkAssumption ==
  /\ LINES \in Nat \ {0} /\ LINE_LENGTH \in Nat \ {0}
  /\ LINE_TIMEOUT \in Nat /\ MAX_SPENT \in Nat /\ HAL_TICKS \in Nat
  /\ LINE_TIMEOUT < MAX_SPENT /\ MAX_SPENT < HAL_TICKS

\* The bytes of an iteration by their number, and one an earlier iteration left.
Telemetry == [i \in 1 .. LINES * LINE_LENGTH |-> i]
Leftover == 0

VARIABLES
  linkStep,    \* where in its iteration dashboard_task is
  line,        \* number of the line
  left,        \* TxXferCount
  gState,      \* of the UART's handle
  tickstart,   \* local of HAL_UART_Transmit, 0 when it is dead
  uwTick,      \* the HAL's tick count
  failed,      \* ret of dashboard_task is not HAL_OK
  dashboard,   \* FAULT_DASHBOARD
  txDr, shift, \* data and shift register of the transmitter, a byte at most, as sets
  spent,       \* history: ticks since the line began, 0 outside of one
  out          \* history: bytes of this iteration that have left

clockVars == <<tickstart, uwTick, spent>>
uartVars == <<txDr, shift, out>>
linkVars == <<linkStep, line, left, gState, failed, dashboard, clockVars, uartVars>>

LinkInit ==
  /\ linkStep = "rest"
  /\ line = 1
  /\ left = 0
  /\ gState = "ready"
  /\ tickstart = 0 /\ uwTick = 0 /\ spent = 0
  /\ failed = FALSE
  /\ dashboard = FALSE
  /\ txDr = {} /\ shift = {} /\ out = <<>>

-------------------------------------------------------------------------------
(* The task                                                                *)

\* An iteration begins; bytes of a line that was cut may still be on their way.
BeginLines ==
  /\ linkStep = "rest"
  /\ linkStep' = "call"
  /\ line' = 1
  /\ failed' = FALSE
  /\ out' = <<>>
  /\ txDr' = {Leftover : b \in txDr}
  /\ shift' = {Leftover : b \in shift}
  /\ UNCHANGED <<left, gState, dashboard, clockVars>>

\* dashboard_write returns, and the next line follows or the report.
ReturnFrom(ok) ==
  /\ failed' = (failed \/ ~ok)
  /\ line' = IF line < LINES THEN line + 1 ELSE 1
  /\ linkStep' = IF line < LINES THEN "call" ELSE "report"
  /\ left' = 0
  /\ tickstart' = 0 /\ spent' = 0
  /\ UNCHANGED <<dashboard, uwTick>>

\* HAL_UART_Transmit up to its loop, or HAL_BUSY.
Call ==
  /\ linkStep = "call"
  /\ IF gState = "ready"
       THEN /\ gState' = "busy_tx"
            /\ left' = LINE_LENGTH
            /\ tickstart' = uwTick
            /\ linkStep' = "send"
            /\ UNCHANGED <<line, failed, dashboard, uwTick, spent>>
       ELSE ReturnFrom(FALSE) /\ UNCHANGED gState
  /\ UNCHANGED uartVars

\* TXE: the data register is empty.
TXE == txDr = {}

\* Mutant: the transmission is over when the last byte has left the data register.
TC_Early == txDr = {}

\* TC: the shift register is empty too.
TC == txDr = {} /\ shift = {}

SendByte ==
  /\ linkStep = "send"
  /\ left > 0 /\ TXE
  /\ txDr' = {(line - 1) * LINE_LENGTH + (LINE_LENGTH - left) + 1}
  /\ left' = left - 1
  /\ UNCHANGED <<linkStep, line, gState, failed, dashboard, clockVars, shift, out>>

LineDone ==
  /\ linkStep = "send"
  /\ left = 0 /\ TC
  /\ gState' = "ready"
  /\ ReturnFrom(TRUE)
  /\ UNCHANGED uartVars

\* UART_WaitOnFlagUntilTimeout finds its flag unset and goes on to the clock.
FlagUnset ==
  /\ linkStep = "send"
  /\ IF left > 0 THEN ~TXE ELSE ~TC
  /\ linkStep' = "clock"
  /\ UNCHANGED <<line, left, gState, failed, dashboard, clockVars, uartVars>>

\* Mutant: the end of the line is computed first and compared.
lineExpired_Deadline == uwTick > ((tickstart + LINE_TIMEOUT) % HAL_TICKS)

\* An unsigned difference, compared.
lineExpired ==
  (IF uwTick >= tickstart THEN uwTick - tickstart ELSE uwTick - tickstart + HAL_TICKS)
    > LINE_TIMEOUT

\* Mutant: the handle stays busy after a timeout.
stateAfterTimeout_Busy == "busy_tx"

stateAfterTimeout == "ready"

\* It tests the clock: the flag may have come meanwhile.
TestClock ==
  /\ linkStep = "clock"
  /\ IF lineExpired
       THEN gState' = stateAfterTimeout /\ ReturnFrom(FALSE)
       ELSE /\ linkStep' = "send"
            /\ UNCHANGED <<line, left, gState, failed, dashboard, clockVars>>
  /\ UNCHANGED uartVars

Report ==
  /\ linkStep = "report"
  /\ dashboard' = failed
  /\ linkStep' = "rest"
  /\ failed' = FALSE
  /\ UNCHANGED <<line, left, gState, clockVars, uartVars>>

LinkTaskSteps ==
  BeginLines \/ Call \/ SendByte \/ LineDone \/ FlagUnset \/ TestClock \/ Report

-------------------------------------------------------------------------------
(* Time and the transmitter                                                *)

InLine == linkStep \in {"send", "clock"}

HalTick ==
  /\ InLine => spent < MAX_SPENT
  /\ uwTick' = IF uwTick + 1 = HAL_TICKS THEN 0 ELSE uwTick + 1
  /\ spent' = IF InLine THEN spent + 1 ELSE 0
  /\ UNCHANGED <<linkStep, line, left, gState, failed, dashboard, tickstart, uartVars>>

LoadShift ==
  /\ shift = {} /\ txDr # {}
  /\ shift' = txDr
  /\ txDr' = {}
  /\ UNCHANGED <<linkStep, line, left, gState, failed, dashboard, clockVars, out>>

ShiftOut ==
  \E b \in shift :
    /\ shift' = {}
    /\ out' = IF b = Leftover THEN out ELSE Append(out, b)
    /\ UNCHANGED <<linkStep, line, left, gState, failed, dashboard, clockVars, txDr>>

LinkNext == LinkTaskSteps \/ HalTick \/ LoadShift \/ ShiftOut

LinkSpec == LinkInit /\ [][LinkNext]_linkVars

\* The task gets to run, and the tick's interrupt is taken.
LinkFairness == WF_linkVars(LinkTaskSteps) /\ WF_linkVars(HalTick)

-------------------------------------------------------------------------------

LinkTypeOK ==
  /\ linkStep \in {"rest", "call", "send", "clock", "report"}
  /\ line \in 1 .. LINES /\ left \in 0 .. LINE_LENGTH
  /\ gState \in {"ready", "busy_tx"}
  /\ tickstart \in 0 .. HAL_TICKS - 1 /\ uwTick \in 0 .. HAL_TICKS - 1
  /\ spent \in 0 .. MAX_SPENT
  /\ failed \in BOOLEAN /\ dashboard \in BOOLEAN
  /\ \A register \in {txDr, shift} :
       register = {} \/ \E b \in 0 .. LINES * LINE_LENGTH : register = {b}
  /\ out \in Seq(1 .. LINES * LINE_LENGTH)
  /\ gState = "busy_tx" <=> InLine

\* An iteration that reports no fault has put all of its lines on the wire, every
\* byte once and in order, whatever an earlier one left behind: a line that was
\* cut is always reported (dashboard_task.c, HAL_UART_Transmit).
ClearMeansSent ==
  [][Report /\ ~dashboard' => out = Telemetry]_linkVars

\* No line is cut before its time is over, wherever the count wraps and the task
\* is preempted (UART_WaitOnFlagUntilTimeout).
CutOnlyLate ==
  [][TestClock /\ linkStep' # "send" => spent > LINE_TIMEOUT]_linkVars

\* A transmitter that has stopped does not stop the task: every iteration ends.  And
\* a timeout leaves nothing behind: once lines get through in time again the fault
\* goes for good (HAL_UART_Transmit's state after a timeout).
LinkRecovers ==
  /\ linkStep # "rest" ~> linkStep = "rest"
  /\ <>[](spent <= LINE_TIMEOUT) => <>[]~dashboard

-------------------------------------------------------------------------------
(* The inductive invariant                                                 *)

\* The time spent is the unsigned difference the code computes.
SpentInv ==
  spent = IF ~InLine THEN 0
          ELSE IF uwTick >= tickstart THEN uwTick - tickstart
          ELSE uwTick - tickstart + HAL_TICKS

\* Bytes the iteration has handed to the transmitter if no line was cut.
Handed ==
  IF linkStep = "report" THEN LINES * LINE_LENGTH
  ELSE (line - 1) * LINE_LENGTH + (IF InLine THEN LINE_LENGTH - left ELSE 0)

\* As long as no line was cut they are out or in the registers, in their order and
\* after what an earlier iteration left.
FlightInv ==
  linkStep # "rest" /\ ~failed =>
    /\ \A i \in 1 .. Len(out) : out[i] = i
    /\ Len(out) <= Handed
    /\ (shift \cup txDr) \ {Leftover} = (Len(out) + 1) .. Handed
    /\ \A b \in shift, c \in txDr : c = b + 1 \/ (b = Leftover /\ c = Leftover)
    /\ Leftover \in shift \cup txDr => out = <<>>
    /\ linkStep = "report" => shift = {} /\ txDr = {}
===============================================================================
