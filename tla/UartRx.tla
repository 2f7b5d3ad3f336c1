------------------------------- MODULE UartRx -------------------------------
(***************************************************************************)
(* One USART receiver of the STM32 and the polling HAL_UART_Receive that   *)
(* task2 (USART3) and task3 (USART1) call on it.  The peripheral has a     *)
(* single data register DR with the flags RXNE and ORE: a byte that        *)
(* arrives while RXNE is set is lost and raises ORE.  The code reads SR    *)
(* and DR in separate accesses, and the task can be preempted between any  *)
(* two of them, so bytes arrive between any two of them.                   *)
(*                                                                         *)
(* A byte is named by its position in the stream of the peer.  The buffer  *)
(* is the caller's rbuf/rrbuf: no call clears it.                          *)
(***************************************************************************)
EXTENDS Naturals

CONSTANTS
  Size,       \* the Size argument of HAL_UART_Receive (2 in both tasks)
  Timeout,    \* the Timeout argument, in ticks
  MaxBytes    \* bound on the bytes the peer sends

ASSUME UartAssumption ==
  Size \in Nat \ {0} /\ Timeout \in Nat /\ MaxBytes \in Nat

VARIABLES
  sent, arrived,           \* bytes sent by the peer, bytes that reached the pin
  delivered, lost,         \* history: what became of the bytes that arrived
  dr, rxne, ore,           \* data register, SR.RXNE, SR.ORE
  rx,                      \* where the receiving task is in the HAL
  oreSeen,                 \* ORE as the SR read that found RXNE saw it
  count,                   \* huart->RxXferCount
  elapsed,                 \* HAL_GetTick() - tickstart, up to Timeout + 1
  ret,                     \* value of the last call
  buf                      \* the caller's buffer; 0 is a byte never written

line == <<sent, arrived, delivered, lost>>
reg  == <<dr, rxne, ore>>
call == <<rx, oreSeen, count, elapsed, ret, buf>>
vars == <<line, reg, call>>

Byte == 1 .. MaxBytes

TypeOK ==
  /\ sent \in 0 .. MaxBytes
  /\ arrived \in 0 .. sent
  /\ delivered \subseteq Byte
  /\ lost \subseteq Byte
  /\ dr \in 0 .. arrived
  /\ rxne \in BOOLEAN
  /\ ore \in BOOLEAN
  /\ rx \in {"ready", "flag", "data", "time", "overrun", "clear"}
  /\ oreSeen \in BOOLEAN
  /\ count \in 0 .. Size
  /\ elapsed \in 0 .. Timeout + 1
  /\ ret \in {"none", "HAL_OK", "HAL_TIMEOUT"}
  /\ buf \in [1 .. Size -> 0 .. MaxBytes]

Init ==
  /\ sent = 0 /\ arrived = 0 /\ delivered = {} /\ lost = {}
  /\ dr = 0 /\ rxne = FALSE /\ ore = FALSE
  /\ rx = "ready" /\ oreSeen = FALSE /\ count = 0 /\ elapsed = 0 /\ ret = "none"
  /\ buf = [k \in 1 .. Size |-> 0]

-----------------------------------------------------------------------------
(* The peer and the peripheral. *)

Send ==
  /\ sent < MaxBytes
  /\ sent' = sent + 1
  /\ UNCHANGED <<arrived, delivered, lost, reg, call>>

\* The shift register completes a byte into an empty DR.
Arrive ==
  /\ arrived < sent
  /\ ~rxne
  /\ arrived' = arrived + 1
  /\ dr' = arrived + 1
  /\ rxne' = TRUE
  /\ UNCHANGED <<sent, delivered, lost, ore, call>>

\* DR is still full: it keeps the older byte, the new one is lost.
Overrun ==
  /\ arrived < sent
  /\ rxne
  /\ arrived' = arrived + 1
  /\ lost' = lost \cup {arrived + 1}
  /\ ore' = TRUE
  /\ UNCHANGED <<sent, delivered, dr, rxne, call>>

Tick ==
  /\ rx # "ready"
  /\ elapsed <= Timeout
  /\ elapsed' = elapsed + 1
  /\ UNCHANGED <<line, reg, rx, oreSeen, count, ret, buf>>

-----------------------------------------------------------------------------
(* HAL_UART_Receive and UART_WaitOnFlagUntilTimeout. *)

\* Faults: a count one too high; a buffer cleared by the call.
CallOneMore ==
  /\ rx = "ready" /\ rx' = "flag" /\ count' = Size + 1 /\ elapsed' = 0 /\ ret' = "none"
  /\ UNCHANGED <<line, reg, oreSeen, buf>>

CallClears ==
  /\ rx = "ready" /\ rx' = "flag" /\ count' = Size /\ elapsed' = 0 /\ ret' = "none"
  /\ buf' = [k \in 1 .. Size |-> 0]
  /\ UNCHANGED <<line, reg, oreSeen>>

Call ==
  /\ rx = "ready"
  /\ rx' = "flag"
  /\ count' = Size
  /\ elapsed' = 0
  /\ ret' = "none"
  /\ UNCHANGED <<line, reg, oreSeen, buf>>

\* One read of SR tests RXNE and, as a side effect, arms the clearing of an
\* ORE that is already set.
TestRxne ==
  /\ rx = "flag"
  /\ rx' = IF rxne THEN "data" ELSE "time"
  /\ oreSeen' = ore
  /\ UNCHANGED <<line, reg, count, elapsed, ret, buf>>

\* Faults: the read leaves RXNE set; the buffer is filled from its end.
ReadInto(slot, flagAfter) ==
  /\ rx = "data"
  /\ buf' = [buf EXCEPT ![slot] = dr]
  /\ delivered' = delivered \cup {dr}
  /\ rxne' = flagAfter
  /\ ore' = (ore /\ ~ oreSeen)
  /\ count' = count - 1
  /\ IF count = 1 THEN rx' = "ready" /\ ret' = "HAL_OK"
                  ELSE rx' = "flag" /\ UNCHANGED ret
  /\ UNCHANGED <<sent, arrived, lost, dr, oreSeen, elapsed>>

ReadDataKeepsRxne == ReadInto(Size - count + 1, TRUE)
ReadDataBackwards == ReadInto(count, FALSE)

\* The read of DR.  An ORE raised after the SR read may or may not go with it.
ReadData ==
  /\ rx = "data"
  /\ buf' = [buf EXCEPT ![Size - count + 1] = dr]
  /\ delivered' = delivered \cup {dr}
  /\ rxne' = FALSE
  /\ ore' \in IF oreSeen THEN {FALSE} ELSE {FALSE, ore}
  /\ count' = count - 1
  /\ IF count = 1 THEN rx' = "ready" /\ ret' = "HAL_OK"
                  ELSE rx' = "flag" /\ UNCHANGED ret
  /\ UNCHANGED <<sent, arrived, lost, dr, oreSeen, elapsed>>

\* Fault: the timeout is never found.
TestTimeoutNever ==
  /\ rx = "time" /\ rx' = "overrun"
  /\ UNCHANGED <<line, reg, oreSeen, count, elapsed, ret, buf>>

TestTimeout ==
  /\ rx = "time"
  /\ IF elapsed > Timeout \/ Timeout = 0
     THEN rx' = "ready" /\ ret' = "HAL_TIMEOUT"
     ELSE rx' = "overrun" /\ UNCHANGED ret
  /\ UNCHANGED <<line, reg, oreSeen, count, elapsed, buf>>

TestOverrun ==
  /\ rx = "overrun"
  /\ rx' = IF ore THEN "clear" ELSE "flag"
  /\ UNCHANGED <<line, reg, oreSeen, count, elapsed, ret, buf>>

\* Fault: the clearing leaves RXNE set.
ClearOverrunKeepsRxne ==
  /\ rx = "clear" /\ rx' = "ready" /\ ret' = "HAL_TIMEOUT" /\ ore' = FALSE
  /\ lost' = IF rxne THEN lost \cup {dr} ELSE lost
  /\ UNCHANGED <<sent, arrived, delivered, dr, rxne, oreSeen, count, elapsed, buf>>

\* __HAL_UART_CLEAR_OREFLAG reads SR and DR: whatever DR holds is discarded.
\* The wait returns HAL_ERROR and HAL_UART_Receive turns it into HAL_TIMEOUT.
ClearOverrun ==
  /\ rx = "clear"
  /\ lost' = IF rxne THEN lost \cup {dr} ELSE lost
  /\ rxne' = FALSE
  /\ ore' = FALSE
  /\ rx' = "ready"
  /\ ret' = "HAL_TIMEOUT"
  /\ UNCHANGED <<sent, arrived, delivered, dr, oreSeen, count, elapsed, buf>>

Step == TestRxne \/ ReadData \/ TestTimeout \/ TestOverrun \/ ClearOverrun

Next == Send \/ Arrive \/ Overrun \/ Tick \/ Call \/ Step

\* The scheduler is a round robin of equal priorities: a ready task runs again
\* and again, and the tick interrupt cannot be held off forever.
Spec == Init /\ [][Next]_vars
FairSpec == Spec /\ WF_vars(Step) /\ WF_vars(Tick) /\ WF_vars(Call)

-----------------------------------------------------------------------------
(* Safety. *)

\* What the peripheral still holds.
Held == IF rxne THEN {dr} ELSE {}

\* Every byte that arrived is in exactly one place: handed to the task, lost,
\* or in DR.  DR is written by Arrive only and each read of it empties it.
Accounted ==
  /\ delivered \cap lost = {}
  /\ (delivered \cup lost) \cap Held = {}
  /\ delivered \cup lost \cup Held = 1 .. arrived

\* The bytes of the frame HAL_OK returns are in stream order, and a byte missing
\* between two of them was lost, never kept back for a later call.
WholeFrame ==
  ret = "HAL_OK" =>
    \A k \in 1 .. Size - 1 :
      /\ buf[k] < buf[k + 1]
      /\ \A i \in Byte : buf[k] < i /\ i < buf[k + 1] => i \in lost

\* A slot of the caller's buffer only ever changes to a newer byte: a call that
\* times out leaves the rest of the previous frame behind the new bytes.
NeverOlder == [][\A k \in 1 .. Size : buf'[k] # buf[k] => buf'[k] > buf[k]]_vars

\* The frame HAL_UART_Receive leaves behind is a prefix of new bytes followed by
\* slots of earlier calls: slots at or past the write position are no newer than
\* those before it.
StaleTail ==
  rx # "ready" \/ ret = "HAL_TIMEOUT" =>
    \A j, k \in 1 .. Size : j <= Size - count /\ k > Size - count => buf[k] < buf[j]

(* Liveness: a call returns, whatever arrives while it polls. *)
ReceiveReturns == rx # "ready" ~> rx = "ready"

(* The receiver is a lossy line that keeps order. *)
Line == INSTANCE LossyLine WITH
          MaxBytes <- MaxBytes, sent <- sent, delivered <- delivered, lost <- lost
LineSpec == Line!Spec
=============================================================================
