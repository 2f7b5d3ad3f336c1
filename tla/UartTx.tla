------------------------------- MODULE UartTx -------------------------------
(***************************************************************************)
(* HAL_UART_Transmit on USART3, called by the three tasks without a lock:  *)
(* task1 sends its report with it, and every printf of every task calls it *)
(* once per character, through fputc.  gState is tested and set in two     *)
(* accesses, and TxXferCount, which counts a transfer down, is a field of  *)
(* the handle that all calls share.                                        *)
(*                                                                         *)
(* A step is one access to the handle or to a register.  The shift         *)
(* register is not told apart from the line.                               *)
(***************************************************************************)
EXTENDS Naturals

CONSTANTS
  Callers,    \* the tasks
  Size,       \* Size[c]: the Size argument of the calls of c
  Timeout,    \* the Timeout argument, in ticks
  Wrap,       \* TxXferCount is counted modulo Wrap (2^16 in the handle)
  MaxPos      \* bound on the elements the line carries before a call times out

ASSUME TxAssumption ==
  /\ Size \in [Callers -> Nat \ {0}]
  /\ Timeout \in Nat /\ MaxPos \in Nat /\ Wrap \in Nat \ {0}
  /\ \A c \in Callers : Size[c] < Wrap /\ Size[c] <= MaxPos
  /\ "empty" \notin Callers /\ "old" \notin Callers

VARIABLES
  gState,     \* huart->gState
  count,      \* huart->TxXferCount
  dr,         \* whose element DR holds; "old" is one of an earlier call
  pc,         \* where each caller is in its call
  pos,        \* pdata8bits: the element it writes next
  loaded,     \* TxXferCount as it read it to decrement it
  elapsed,    \* HAL_GetTick() - tickstart, up to Timeout + 1
  ret,        \* value of its last call
  sent,       \* history: elements of its call that went to the line
  alone       \* history: no other call overlapped its call

handle == <<gState, count>>
local  == <<pos, loaded, elapsed, ret>>
ghost  == <<sent, alone>>
vars   == <<handle, dr, pc, local, ghost>>

Label == {"idle", "claim", "start", "loop", "txe", "txeLate", "write", "load", "store",
          "tc", "tcLate", "done", "abort"}

Inside(c) == pc[c] # "idle"

TypeOK ==
  /\ gState \in {"READY", "BUSY_TX"}
  /\ count \in 0 .. Wrap - 1
  /\ dr \in Callers \cup {"empty", "old"}
  /\ pc \in [Callers -> Label]
  /\ pos \in [Callers -> 1 .. MaxPos + 1]
  /\ loaded \in [Callers -> 0 .. Wrap - 1]
  /\ elapsed \in [Callers -> 0 .. Timeout + 1]
  /\ ret \in [Callers -> {"none", "HAL_OK", "HAL_BUSY", "HAL_TIMEOUT"}]
  /\ sent \in [Callers -> 0 .. MaxPos]
  /\ alone \in [Callers -> BOOLEAN]

Init ==
  /\ gState = "READY" /\ count = 0 /\ dr = "empty"
  /\ pc = [c \in Callers |-> "idle"]
  /\ pos = [c \in Callers |-> 1]
  /\ loaded = [c \in Callers |-> 0]
  /\ elapsed = [c \in Callers |-> 0]
  /\ ret = [c \in Callers |-> "none"]
  /\ sent = [c \in Callers |-> 0]
  /\ alone = [c \in Callers |-> FALSE]

Goto(c, from, to) == pc[c] = from /\ pc' = [pc EXCEPT ![c] = to]

-----------------------------------------------------------------------------
(* Entry: if (gState == READY) ... gState = BUSY_TX. *)

Enter(c) ==
  /\ gState = "READY"
  /\ Goto(c, "idle", "claim")
  /\ ret' = [ret EXCEPT ![c] = "none"]
  /\ sent' = [sent EXCEPT ![c] = 0]
  /\ dr' = IF dr = c THEN "old" ELSE dr
  /\ alone' = [u \in Callers |-> IF u = c THEN \A v \in Callers : ~ Inside(v)
                                 ELSE alone[u] /\ ~ Inside(u)]
  /\ UNCHANGED <<handle, pos, loaded, elapsed>>

\* HAL_BUSY, which no caller looks at.
Refuse(c) ==
  /\ pc[c] = "idle"
  /\ gState # "READY"
  /\ ret' = [ret EXCEPT ![c] = "HAL_BUSY"]
  /\ UNCHANGED <<handle, dr, pc, pos, loaded, elapsed, ghost>>

Claim(c) ==
  /\ Goto(c, "claim", "start")
  /\ gState' = "BUSY_TX"
  /\ UNCHANGED <<count, dr, local, ghost>>

Start(c) ==
  /\ Goto(c, "start", "loop")
  /\ elapsed' = [elapsed EXCEPT ![c] = 0]
  /\ count' = Size[c]
  /\ UNCHANGED <<gState, dr, pos, loaded, ret, ghost>>

-----------------------------------------------------------------------------
(* while (TxXferCount > 0): wait for TXE, write DR, TxXferCount--. *)

\* Fault: the last element is left out.
LoopShort(c) ==
  /\ Goto(c, "loop", IF count > 1 THEN "txe" ELSE "tc")
  /\ UNCHANGED <<handle, dr, local, ghost>>

Loop(c) ==
  /\ Goto(c, "loop", IF count > 0 THEN "txe" ELSE "tc")
  /\ UNCHANGED <<handle, dr, local, ghost>>

\* A call whose line time is used up no longer finds TXE set.
WaitTxe(c) ==
  /\ Goto(c, "txe", IF dr = "empty" /\ pos[c] <= MaxPos THEN "write" ELSE "txeLate")
  /\ UNCHANGED <<handle, dr, local, ghost>>

\* DR may have been filled by another call since TXE was read: that element is
\* overwritten.
WriteData(c) ==
  /\ Goto(c, "write", "load")
  /\ dr' = c
  /\ pos' = [pos EXCEPT ![c] = @ + 1]
  /\ UNCHANGED <<handle, loaded, elapsed, ret, ghost>>

Load(c) ==
  /\ Goto(c, "load", "store")
  /\ loaded' = [loaded EXCEPT ![c] = count]
  /\ UNCHANGED <<handle, dr, pos, elapsed, ret, ghost>>

\* Fault: the count goes below zero.
StoreUnsigned(c) ==
  /\ Goto(c, "store", "loop")
  /\ count' = loaded[c] - 1
  /\ loaded' = [loaded EXCEPT ![c] = 0]
  /\ UNCHANGED <<gState, dr, pos, elapsed, ret, ghost>>

Store(c) ==
  /\ Goto(c, "store", "loop")
  /\ count' = (loaded[c] + Wrap - 1) % Wrap
  /\ loaded' = [loaded EXCEPT ![c] = 0]
  /\ UNCHANGED <<gState, dr, pos, elapsed, ret, ghost>>

WaitTc(c) ==
  /\ Goto(c, "tc", IF dr = "empty" THEN "done" ELSE "tcLate")
  /\ UNCHANGED <<handle, dr, local, ghost>>

\* Fault: the wait has no end.
TestLateNever(c) ==
  /\ \E w \in {"txe", "tc"} : Goto(c, IF w = "txe" THEN "txeLate" ELSE "tcLate", w)
  /\ UNCHANGED <<handle, dr, local, ghost>>

\* The timeout test of UART_WaitOnFlagUntilTimeout, after a flag was found reset.
TestLate(c) ==
  /\ \E w \in {"txe", "tc"} :
       Goto(c, IF w = "txe" THEN "txeLate" ELSE "tcLate",
            IF elapsed[c] > Timeout \/ Timeout = 0 THEN "abort" ELSE w)
  /\ UNCHANGED <<handle, dr, local, ghost>>

\* Fault: a timeout leaves the port busy.
ReturnBusy(c, from, value) ==
  /\ Goto(c, from, "idle")
  /\ gState' = IF value = "HAL_OK" THEN "READY" ELSE gState
  /\ ret' = [ret EXCEPT ![c] = value]
  /\ pos' = [pos EXCEPT ![c] = 1]
  /\ elapsed' = [elapsed EXCEPT ![c] = 0]
  /\ UNCHANGED <<count, dr, loaded, ghost>>

\* Both ends set gState, whoever else is transmitting.  The locals are dead.
Return(c, from, value) ==
  /\ Goto(c, from, "idle")
  /\ gState' = "READY"
  /\ ret' = [ret EXCEPT ![c] = value]
  /\ pos' = [pos EXCEPT ![c] = 1]
  /\ elapsed' = [elapsed EXCEPT ![c] = 0]
  /\ UNCHANGED <<count, dr, loaded, ghost>>

Done(c)  == Return(c, "done", "HAL_OK")
Abort(c) == Return(c, "abort", "HAL_TIMEOUT")

-----------------------------------------------------------------------------
(* The tick and the peripheral. *)

Tick ==
  /\ \E c \in Callers : Inside(c) /\ elapsed[c] <= Timeout
  /\ elapsed' = [c \in Callers |-> IF Inside(c) /\ elapsed[c] <= Timeout
                                   THEN elapsed[c] + 1 ELSE elapsed[c]]
  /\ UNCHANGED <<handle, dr, pc, pos, loaded, ret, ghost>>

Shift ==
  /\ dr # "empty"
  /\ dr' = "empty"
  /\ sent' = IF dr \in Callers THEN [sent EXCEPT ![dr] = @ + 1] ELSE sent
  /\ UNCHANGED <<handle, pc, local, alone>>

-----------------------------------------------------------------------------
Step(c) ==
  \/ Claim(c) \/ Start(c) \/ Loop(c) \/ WaitTxe(c) \/ WriteData(c) \/ Load(c)
  \/ Store(c) \/ WaitTc(c) \/ TestLate(c) \/ Done(c) \/ Abort(c)

Next == (\E c \in Callers : Enter(c) \/ Refuse(c) \/ Step(c)) \/ Tick \/ Shift

Spec == Init /\ [][Next]_vars

\* Every task gets its time slices, the tick interrupt and the line go on.
FairSpec ==
  /\ Spec
  /\ \A c \in Callers : WF_vars(Step(c))
  /\ WF_vars(Tick) /\ WF_vars(Shift)

-----------------------------------------------------------------------------

\* The port never stays busy for nobody: however the calls race for gState, it
\* is BUSY_TX only while a call is inside, so a HAL_BUSY has a cause that ends.
BusyIsHonest == gState = "BUSY_TX" => \E c \in Callers : Inside(c)

\* A call that no other overlapped and that returns HAL_OK has sent its elements,
\* all of them, none more.
LoneCallWhole ==
  \A c \in Callers : alone[c] /\ ret[c] = "HAL_OK" => sent[c] = Size[c]

\* Every call returns, those included whose shared count wrapped around.
CallReturns == \A c \in Callers : Inside(c) ~> ~ Inside(c)

\* @param Size: a call sends at most Size elements.
AtMostSize == \A c \in Callers : pos[c] <= Size[c] + 1
=============================================================================
