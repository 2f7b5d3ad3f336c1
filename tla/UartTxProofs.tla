---------------------------- MODULE UartTxProofs ----------------------------
(***************************************************************************)
(* Proofs about module UartTx, for any callers, sizes and timeout.         *)
(***************************************************************************)
EXTENDS UartTx, TLAPS

InDR(c) == IF dr = c THEN 1 ELSE 0

\* What has left a call, or waits in DR, was written by it; it writes no element
\* whose line time is used up.
Written ==
  \A c \in Callers :
    /\ sent[c] + InDR(c) <= MaxPos
    /\ Inside(c) => sent[c] + InDR(c) <= pos[c] - 1
    /\ pc[c] \in {"idle", "claim", "start"} => pos[c] = 1
    /\ pc[c] = "write" => pos[c] <= MaxPos
    /\ ret[c] = "HAL_OK" => pc[c] = "idle"

\* A lone call: the shared count is what remains of its own transfer.
LoneProgress(c) ==
  /\ \A v \in Callers \ {c} : ~ Inside(v)
  /\ sent[c] + InDR(c) = pos[c] - 1
  /\ pc[c] \in {"claim", "start"} => pos[c] = 1
  /\ pc[c] \in {"loop", "txe", "txeLate", "write"} => count + pos[c] = Size[c] + 1
  /\ pc[c] \in {"txe", "txeLate", "write"} => count > 0
  /\ pc[c] \in {"load", "store"} => count > 0 /\ count + pos[c] = Size[c] + 2
  /\ pc[c] = "store" => loaded[c] = count
  /\ pc[c] \in {"tc", "tcLate", "done"} => pos[c] = Size[c] + 1
  /\ pc[c] \in {"write", "done"} => dr = "empty"

Lone ==
  \A c \in Callers : alone[c] =>
    /\ Inside(c) => LoneProgress(c)
    /\ ret[c] = "HAL_OK" => dr # c /\ sent[c] = Size[c]

IInv == TypeOK /\ Written /\ BusyIsHonest /\ Lone
-----------------------------------------------------------------------------

LEMMA InitIInv == Init => IInv
<1> SUFFICES ASSUME Init PROVE IInv
  OBVIOUS
<1> USE TxAssumption DEF Init
<1>1. TypeOK
  <2>1. Wrap \in Nat /\ MaxPos \in Nat /\ Timeout \in Nat
    OBVIOUS
  <2>2. 0 \in 0 .. Wrap - 1 /\ 0 \in 0 .. MaxPos /\ 0 \in 0 .. Timeout + 1
        /\ 1 \in 1 .. MaxPos + 1
    BY <2>1
  <2>3. QED
    BY <2>2 DEF TypeOK, Label
<1>2. Written /\ BusyIsHonest /\ Lone
  BY DEF Written, BusyIsHonest, Lone, Inside, InDR
<1>3. QED
  BY <1>1, <1>2 DEF IInv

-----------------------------------------------------------------------------

LEMMA LabelType ==
  ASSUME TypeOK, NEW c \in Callers, NEW from, NEW to \in Label, Goto(c, from, to)
  PROVE  pc' \in [Callers -> Label]
  BY DEF Goto, TypeOK

LEMMA StepTypeOK == IInv /\ [Next]_vars => TypeOK'
<1> SUFFICES ASSUME IInv, [Next]_vars
             PROVE  TypeOK'
  OBVIOUS
<1> USE TxAssumption DEF IInv, TypeOK, handle, local, ghost
<1>1. ASSUME NEW c \in Callers, Enter(c) PROVE TypeOK'
  <2>1. pc' \in [Callers -> Label]
    BY <1>1, LabelType DEF Enter, Label
  <2>2. sent' \in [Callers -> 0 .. MaxPos] /\ dr' \in Callers \cup {"empty", "old"}
    BY <1>1 DEF Enter
  <2>3. alone' \in [Callers -> BOOLEAN]
    BY <1>1 DEF Enter, Inside
  <2>4. QED
    BY <1>1, <2>1, <2>2, <2>3 DEF Enter
<1>2. ASSUME NEW c \in Callers, Refuse(c) PROVE TypeOK'
  BY <1>2 DEF Refuse
<1>3. ASSUME NEW c \in Callers, Claim(c) PROVE TypeOK'
  <2>1. pc' \in [Callers -> Label]
    BY <1>3, LabelType DEF Claim, Label
  <2>2. QED
    BY <1>3, <2>1 DEF Claim
<1>4. ASSUME NEW c \in Callers, Start(c) PROVE TypeOK'
  <2>1. pc' \in [Callers -> Label]
    BY <1>4, LabelType DEF Start, Label
  <2>2. Size[c] \in 0 .. Wrap - 1 /\ 0 \in 0 .. Timeout + 1
    OBVIOUS
  <2>3. elapsed' \in [Callers -> 0 .. Timeout + 1] /\ count' \in 0 .. Wrap - 1
    BY <1>4, <2>2 DEF Start
  <2>4. QED
    BY <1>4, <2>1, <2>3 DEF Start
<1>5. ASSUME NEW c \in Callers, Loop(c) \/ WaitTxe(c) \/ WaitTc(c) \/ TestLate(c)
      PROVE  TypeOK'
  <2>1. pc' \in [Callers -> Label]
    <3>1. \E from, to \in Label : Goto(c, from, to)
      BY <1>5 DEF Loop, WaitTxe, WaitTc, TestLate, Label
    <3>2. QED
      BY <3>1, LabelType
  <2>2. QED
    BY <1>5, <2>1 DEF Loop, WaitTxe, WaitTc, TestLate
<1>6. ASSUME NEW c \in Callers, WriteData(c) PROVE TypeOK'
  <2>1. pc' \in [Callers -> Label]
    BY <1>6, LabelType DEF WriteData, Label
  <2>2. pos[c] <= MaxPos
    BY <1>6 DEF WriteData, Goto, Written
  <2>3. pos' \in [Callers -> 1 .. MaxPos + 1]
    BY <1>6, <2>2 DEF WriteData
  <2>4. QED
    BY <1>6, <2>1, <2>3 DEF WriteData
<1>7. ASSUME NEW c \in Callers, Load(c) PROVE TypeOK'
  <2>1. pc' \in [Callers -> Label]
    BY <1>7, LabelType DEF Load, Label
  <2>2. QED
    BY <1>7, <2>1 DEF Load
<1>8. ASSUME NEW c \in Callers, Store(c) PROVE TypeOK'
  <2>1. pc' \in [Callers -> Label]
    BY <1>8, LabelType DEF Store, Label
  <2>2. (loaded[c] + Wrap - 1) % Wrap \in 0 .. Wrap - 1
    <3>1. loaded[c] + Wrap - 1 \in Nat /\ Wrap \in Nat \ {0}
      OBVIOUS
    <3>2. QED
      BY <3>1
  <2>3. loaded' \in [Callers -> 0 .. Wrap - 1]
    <3>1. 0 \in 0 .. Wrap - 1
      OBVIOUS
    <3>2. QED
      BY <1>8, <3>1 DEF Store
  <2>4. QED
    BY <1>8, <2>1, <2>2, <2>3 DEF Store
<1>9. ASSUME NEW c \in Callers, Done(c) \/ Abort(c) PROVE TypeOK'
  <2>1. PICK from \in Label, value \in {"HAL_OK", "HAL_TIMEOUT"} : Return(c, from, value)
    BY <1>9 DEF Done, Abort, Label
  <2>2. pc' \in [Callers -> Label]
    BY <2>1, LabelType DEF Return, Label
  <2>3. 1 \in 1 .. MaxPos + 1 /\ 0 \in 0 .. Timeout + 1
    OBVIOUS
  <2>4. pos' \in [Callers -> 1 .. MaxPos + 1] /\ elapsed' \in [Callers -> 0 .. Timeout + 1]
    BY <2>1, <2>3 DEF Return
  <2>5. QED
    BY <2>1, <2>2, <2>4 DEF Return
<1>10. CASE Tick
  <2>1. elapsed' \in [Callers -> 0 .. Timeout + 1]
    BY <1>10 DEF Tick
  <2>2. QED
    BY <1>10, <2>1 DEF Tick
<1>11. CASE Shift
  <2>1. sent' \in [Callers -> 0 .. MaxPos]
    BY <1>11 DEF Shift, Written, InDR
  <2>2. QED
    BY <1>11, <2>1 DEF Shift
<1>12. CASE UNCHANGED vars
  BY <1>12 DEF vars
<1>13. QED
  BY <1>1, <1>2, <1>3, <1>4, <1>5, <1>6, <1>7, <1>8, <1>9, <1>10, <1>11, <1>12
  DEF Next, Step

-----------------------------------------------------------------------------

LEMMA StepWritten == IInv /\ [Next]_vars => Written'
<1> SUFFICES ASSUME IInv, [Next]_vars, NEW u \in Callers
             PROVE  /\ sent'[u] + InDR(u)' <= MaxPos
                    /\ Inside(u)' => sent'[u] + InDR(u)' <= pos'[u] - 1
                    /\ pc'[u] \in {"idle", "claim", "start"} => pos'[u] = 1
                    /\ pc'[u] = "write" => pos'[u] <= MaxPos
                    /\ ret'[u] = "HAL_OK" => pc'[u] = "idle"
  BY DEF Written
<1> DEFINE Goal == /\ sent'[u] + InDR(u)' <= MaxPos
                   /\ Inside(u)' => sent'[u] + InDR(u)' <= pos'[u] - 1
                   /\ pc'[u] \in {"idle", "claim", "start"} => pos'[u] = 1
                   /\ pc'[u] = "write" => pos'[u] <= MaxPos
                   /\ ret'[u] = "HAL_OK" => pc'[u] = "idle"
<1>0. /\ TypeOK /\ sent[u] + InDR(u) <= MaxPos
      /\ Inside(u) => sent[u] + InDR(u) <= pos[u] - 1
      /\ pc[u] \in {"idle", "claim", "start"} => pos[u] = 1
      /\ pc[u] = "write" => pos[u] <= MaxPos
      /\ ret[u] = "HAL_OK" => pc[u] = "idle"
  BY DEF IInv, Written
<1> USE TxAssumption, <1>0 DEF TypeOK, Inside, InDR, Goto, handle, local, ghost
<1>1. ASSUME NEW c \in Callers, Enter(c) PROVE Goal
  BY <1>1 DEF Enter
<1>2. ASSUME NEW c \in Callers, Refuse(c) PROVE Goal
  BY <1>2 DEF Refuse
<1>3. ASSUME NEW c \in Callers, Claim(c) \/ Start(c) \/ Loop(c) PROVE Goal
  BY <1>3 DEF Claim, Start, Loop
<1>4. ASSUME NEW c \in Callers, WaitTxe(c) \/ WaitTc(c) \/ TestLate(c) PROVE Goal
  BY <1>4 DEF WaitTxe, WaitTc, TestLate
<1>5. ASSUME NEW c \in Callers, WriteData(c) PROVE Goal
  BY <1>5 DEF WriteData
<1>6. ASSUME NEW c \in Callers, Load(c) \/ Store(c) PROVE Goal
  BY <1>6 DEF Load, Store
<1>7. ASSUME NEW c \in Callers, Done(c) \/ Abort(c) PROVE Goal
  BY <1>7 DEF Done, Abort, Return
<1>8. CASE Tick \/ UNCHANGED vars
  BY <1>8 DEF Tick, vars
<1>9. CASE Shift
  BY <1>9 DEF Shift
<1>10. Goal
  BY <1>1, <1>2, <1>3, <1>4, <1>5, <1>6, <1>7, <1>8, <1>9 DEF Next, Step
<1>11. QED
  BY <1>10

LEMMA StepBusy == IInv /\ [Next]_vars => BusyIsHonest'
<1> SUFFICES ASSUME IInv, [Next]_vars, gState' = "BUSY_TX"
             PROVE  \E c \in Callers : Inside(c)'
  BY DEF BusyIsHonest
<1> USE DEF IInv, TypeOK, Inside, Goto
<1>1. CASE \E c \in Callers : Claim(c)
  BY <1>1 DEF Claim
<1>2. CASE gState' = gState /\ \A c \in Callers : Inside(c) => Inside(c)'
  BY <1>2 DEF BusyIsHonest
<1>3. ASSUME NEW c \in Callers, Done(c) \/ Abort(c) PROVE FALSE
  BY <1>3 DEF Done, Abort, Return
<1>4. ASSUME NEW c \in Callers, Enter(c) \/ Refuse(c) \/ Start(c) \/ Loop(c)
      PROVE  gState' = gState /\ \A u \in Callers : Inside(u) => Inside(u)'
  BY <1>4 DEF Enter, Refuse, Start, Loop, handle
<1>5. ASSUME NEW c \in Callers, WaitTxe(c) \/ WriteData(c) \/ Load(c) \/ Store(c)
      PROVE  gState' = gState /\ \A u \in Callers : Inside(u) => Inside(u)'
  BY <1>5 DEF WaitTxe, WriteData, Load, Store, handle
<1>6. ASSUME NEW c \in Callers, WaitTc(c) \/ TestLate(c)
      PROVE  gState' = gState /\ \A u \in Callers : Inside(u) => Inside(u)'
  BY <1>6 DEF WaitTc, TestLate, handle
<1>7. ASSUME Tick \/ Shift \/ UNCHANGED vars
      PROVE  gState' = gState /\ \A u \in Callers : Inside(u) => Inside(u)'
  BY <1>7 DEF Tick, Shift, vars, handle
<1>8. QED
  BY <1>1, <1>2, <1>3, <1>4, <1>5, <1>6, <1>7 DEF Next, Step

-----------------------------------------------------------------------------

\* The steps of the caller itself.
LEMMA OwnStepLone ==
  ASSUME IInv, NEW c \in Callers, alone[c], LoneProgress(c), Inside(c), Step(c)
  PROVE  /\ Inside(c)' => LoneProgress(c)'
         /\ ret'[c] = "HAL_OK" => dr' # c /\ sent'[c] = Size[c]
<1> DEFINE Goal == /\ Inside(c)' => LoneProgress(c)'
                   /\ ret'[c] = "HAL_OK" => dr' # c /\ sent'[c] = Size[c]
<1>0. TypeOK /\ ret[c] # "HAL_OK"
  BY DEF IInv, Written, Inside
<1> USE TxAssumption, <1>0 DEF TypeOK, LoneProgress, Inside, InDR, Goto, handle, local, ghost
<1>1. CASE Claim(c) \/ Start(c)
  BY <1>1 DEF Claim, Start
<1>2. CASE Loop(c)
  BY <1>2 DEF Loop
<1>3. CASE WaitTxe(c) \/ TestLate(c)
  BY <1>3 DEF WaitTxe, TestLate
<1>4. CASE WriteData(c)
  <2>1. /\ pc[c] = "write" /\ pc' = [pc EXCEPT ![c] = "load"]
        /\ pos' = [pos EXCEPT ![c] = @ + 1] /\ dr' = c
        /\ UNCHANGED <<count, sent, ret>>
    BY <1>4 DEF WriteData
  <2>2. sent[c] + InDR(c) = pos[c] - 1 /\ dr # c
    BY <2>1
  <2>3. QED
    BY <2>1, <2>2
<1>5. CASE Load(c)
  BY <1>5 DEF Load
<1>6. CASE Store(c)
  <2>1. loaded[c] \in 1 .. Wrap - 1 /\ Wrap \in Nat \ {0}
    BY <1>6 DEF Store
  <2>2. (loaded[c] + Wrap - 1) % Wrap = loaded[c] - 1
    BY <2>1
  <2>3. count' = loaded[c] - 1
    BY <1>6, <2>2 DEF Store
  <2>4. QED
    BY <1>6, <2>1, <2>3 DEF Store
<1>7. CASE WaitTc(c)
  BY <1>7 DEF WaitTc
<1>8. CASE Done(c) \/ Abort(c)
  BY <1>8 DEF Done, Abort, Return
<1>9. QED
  BY <1>1, <1>2, <1>3, <1>4, <1>5, <1>6, <1>7, <1>8 DEF Step

LEMMA StepLone == IInv /\ [Next]_vars => Lone'
<1> SUFFICES ASSUME IInv, [Next]_vars, NEW c \in Callers, alone'[c]
             PROVE  /\ Inside(c)' => LoneProgress(c)'
                    /\ ret'[c] = "HAL_OK" => dr' # c /\ sent'[c] = Size[c]
  BY DEF Lone
<1> DEFINE Goal == /\ Inside(c)' => LoneProgress(c)'
                   /\ ret'[c] = "HAL_OK" => dr' # c /\ sent'[c] = Size[c]
<1>0. /\ TypeOK
      /\ alone[c] /\ Inside(c) => LoneProgress(c)
      /\ alone[c] /\ ret[c] = "HAL_OK" => dr # c /\ sent[c] = Size[c]
      /\ ret[c] = "HAL_OK" => pc[c] = "idle"
  BY DEF IInv, Written, Lone
<1> USE TxAssumption, <1>0
<1>1. ASSUME Enter(c) PROVE Goal
  <2>1. /\ pc' = [pc EXCEPT ![c] = "claim"] /\ ret'[c] = "none"
        /\ sent'[c] = 0 /\ dr' # c /\ pos' = pos /\ ~ Inside(c)
        /\ \A v \in Callers : ~ Inside(v)
    BY <1>1 DEF Enter, TypeOK, Inside, Goto
  <2>2. pos[c] = 1
    BY <2>1 DEF IInv, Written, Inside
  <2>3. QED
    BY <2>1, <2>2 DEF TypeOK, LoneProgress, Inside, InDR
<1>2. ASSUME Refuse(c) PROVE Goal
  BY <1>2 DEF Refuse, TypeOK, Inside
<1>3. ASSUME Step(c) PROVE Goal
  <2>1. alone[c] /\ Inside(c)
    BY <1>3 DEF Step, Claim, Start, Loop, WaitTxe, WriteData, Load, Store, WaitTc, TestLate,
                Done, Abort, Return, Goto, Inside, local, ghost
  <2>2. QED
    BY <1>3, <2>1, OwnStepLone
<1>4. ASSUME NEW v \in Callers, v # c, Enter(v) PROVE Goal
  BY <1>4 DEF Enter, TypeOK, Inside, Goto
<1>5. ASSUME NEW v \in Callers, v # c, Refuse(v) PROVE Goal
  BY <1>5 DEF Refuse, TypeOK, Inside, LoneProgress, InDR, handle, ghost
<1>6. ASSUME NEW v \in Callers, v # c, Step(v) PROVE Goal
  <2>1. /\ Inside(v) /\ pc'[c] = pc[c] /\ ret'[c] = ret[c] /\ sent' = sent
        /\ alone' = alone /\ dr' \in {dr, v}
    <3>1. CASE Claim(v) \/ Start(v) \/ Loop(v) \/ WaitTxe(v)
      BY <1>6, <3>1 DEF Claim, Start, Loop, WaitTxe, Goto, Inside, TypeOK, local, ghost
    <3>2. CASE WriteData(v) \/ Load(v) \/ Store(v)
      BY <1>6, <3>2 DEF WriteData, Load, Store, Goto, Inside, TypeOK, local, ghost
    <3>3. CASE WaitTc(v) \/ TestLate(v)
      BY <1>6, <3>3 DEF WaitTc, TestLate, Goto, Inside, TypeOK, local, ghost
    <3>4. CASE Done(v) \/ Abort(v)
      BY <1>6, <3>4 DEF Done, Abort, Return, Goto, Inside, TypeOK, ghost
    <3>5. QED
      BY <1>6, <3>1, <3>2, <3>3, <3>4 DEF Step
  <2>2. ~ Inside(c)
    BY <1>6, <2>1 DEF LoneProgress
  <2>3. QED
    BY <1>6, <2>1, <2>2 DEF Inside
<1>7. ASSUME Tick \/ UNCHANGED vars PROVE Goal
  BY <1>7 DEF Tick, TypeOK, Inside, LoneProgress, InDR, handle, local, ghost, vars
<1>8. ASSUME Shift PROVE Goal
  BY <1>8 DEF Shift, TypeOK, Inside, LoneProgress, InDR, handle, local
<1>9. Goal
  BY <1>1, <1>2, <1>3, <1>4, <1>5, <1>6, <1>7, <1>8 DEF Next
<1>10. QED
  BY <1>9

-----------------------------------------------------------------------------

\* The strengthening holds in every state of the port.
THEOREM Invariance == Spec => []IInv
<1>1. IInv /\ [Next]_vars => IInv'
  BY StepTypeOK, StepWritten, StepBusy, StepLone DEF IInv
<1>2. QED
  BY InitIInv, <1>1, PTL DEF Spec

\* TypeOK: the shared count stays within its width, and a call never writes past
\* what the line carries before its timeout.
THEOREM TypeCorrect == Spec => []TypeOK
<1>1. IInv => TypeOK
  BY DEF IInv
<1>2. QED
  BY <1>1, Invariance, PTL

\* BusyIsHonest: no race of the callers leaves huart->gState busy for ever.
THEOREM NeverStuckBusy == Spec => []BusyIsHonest
<1>1. IInv => BusyIsHonest
  BY DEF IInv
<1>2. QED
  BY <1>1, Invariance, PTL

\* LoneCallWhole: HAL_OK of a call no other overlapped means that exactly Size
\* elements went to the line.
THEOREM LoneCallsAreWhole == Spec => []LoneCallWhole
<1>1. IInv => LoneCallWhole
  BY DEF IInv, Lone, LoneCallWhole
<1>2. QED
  BY <1>1, Invariance, PTL
=============================================================================
