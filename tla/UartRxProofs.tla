---------------------------- MODULE UartRxProofs ----------------------------
(***************************************************************************)
(* Proofs about module UartRx, for every buffer size, timeout and number   *)
(* of bytes: the receiver accounts for every byte, keeps the order of the  *)
(* stream, tells a gap from a late byte, and implements LossyLine.         *)
(***************************************************************************)
EXTENDS UartRx, TLAPS

\* Where HAL_UART_Receive is: a wait for RXNE has bytes left to receive, and DR
\* is read only after RXNE was seen set (nothing else clears it).
Control ==
  /\ rx # "ready" => count >= 1
  /\ rx = "data" => rxne
  /\ ret = "HAL_OK" => count = 0 /\ rx = "ready"
  /\ rxne => dr >= 1

\* DR is newer than everything the task has got; the buffer holds bytes it got.
InOrder ==
  /\ rxne => \A i \in delivered : i < dr
  /\ \A k \in 1 .. Size : buf[k] \in delivered \cup {0}

\* A call has been made: count says how much of buf belongs to the last one.
Called == rx # "ready" \/ ret # "none"

\* The slots the last call wrote: in order, with only lost bytes between them,
\* the last one the newest byte delivered, and all newer than the other slots.
Frame ==
  Called =>
    /\ \A j, k \in 1 .. Size : j < k /\ k <= Size - count => buf[j] < buf[k]
    /\ \A k \in 1 .. Size - 1 : k + 1 <= Size - count =>
         \A i \in Byte : buf[k] < i /\ i < buf[k + 1] => i \in lost
    /\ \A k \in 1 .. Size : k = Size - count => \A i \in delivered : i <= buf[k]
    /\ \A j, k \in 1 .. Size : j <= Size - count /\ k > Size - count => buf[k] < buf[j]

IInv == TypeOK /\ Control /\ Accounted /\ InOrder /\ Frame
-----------------------------------------------------------------------------

LEMMA InitIInv == Init => IInv
<1> SUFFICES ASSUME Init PROVE IInv
  OBVIOUS
<1> USE UartAssumption DEF Init
<1>1. TypeOK
  <2>1. /\ sent \in 0 .. MaxBytes /\ arrived \in 0 .. sent /\ dr \in 0 .. arrived
        /\ count \in 0 .. Size /\ elapsed \in 0 .. Timeout + 1
        /\ buf \in [1 .. Size -> 0 .. MaxBytes]
    OBVIOUS
  <2>2. /\ delivered \subseteq Byte /\ lost \subseteq Byte
        /\ rxne \in BOOLEAN /\ ore \in BOOLEAN /\ oreSeen \in BOOLEAN
    OBVIOUS
  <2>3. QED
    BY <2>1, <2>2 DEF TypeOK
<1>c. Control
  BY DEF Control
<1>2. Accounted
  BY DEF Accounted, Held
<1>3. InOrder /\ Frame
  BY DEF InOrder, Frame, Called
<1>4. QED
  BY <1>1, <1>c, <1>2, <1>3 DEF IInv

LEMMA StepTypeOK == IInv /\ [Next]_vars => TypeOK' /\ Control'
<1> SUFFICES ASSUME IInv, [Next]_vars
             PROVE  TypeOK' /\ Control'
  OBVIOUS
<1> USE UartAssumption DEF IInv, TypeOK, Control
<1>1. CASE Send
  BY <1>1 DEF Send, reg, call, Byte
<1>2. CASE Arrive
  BY <1>2 DEF Arrive, call, Byte
<1>3. CASE Overrun
  BY <1>3 DEF Overrun, call, Byte
<1>4. CASE Tick
  BY <1>4 DEF Tick, line, reg, Byte
<1>5. CASE Call
  BY <1>5 DEF Call, line, reg, Byte
<1>6. CASE TestRxne
  BY <1>6 DEF TestRxne, line, reg, Byte
<1>7. CASE ReadData
  <2>1. dr \in Byte /\ count - 1 \in 0 .. Size
    BY <1>7 DEF ReadData, Byte
  <2>2. buf' \in [1 .. Size -> 0 .. MaxBytes]
    BY <1>7, <2>1 DEF ReadData, Byte
  <2>3. delivered' \subseteq Byte
    BY <1>7, <2>1 DEF ReadData
  <2>4. /\ rx' \in {"ready", "flag"}
        /\ ret' \in {"none", "HAL_OK", "HAL_TIMEOUT"}
        /\ rx' # "ready" => count' >= 1
        /\ ret' = "HAL_OK" => count' = 0 /\ rx' = "ready"
    BY <1>7, <2>1 DEF ReadData
  <2>5. /\ ore' \in BOOLEAN
        /\ rxne' = FALSE
        /\ UNCHANGED <<sent, arrived, lost, dr, oreSeen, elapsed>>
        /\ count' = count - 1
    BY <1>7 DEF ReadData
  <2>6. QED
    BY <2>1, <2>2, <2>3, <2>4, <2>5
<1>8. CASE TestTimeout
  BY <1>8 DEF TestTimeout, line, reg, Byte
<1>9. CASE TestOverrun
  BY <1>9 DEF TestOverrun, line, reg, Byte
<1>10. CASE ClearOverrun
  <2>1. lost' \subseteq Byte
    BY <1>10 DEF ClearOverrun, Byte
  <2>2. rxne' \in BOOLEAN /\ ore' \in BOOLEAN /\ ~ rxne'
    BY <1>10 DEF ClearOverrun
  <2>3. /\ UNCHANGED <<sent, arrived, delivered, dr, oreSeen, count, elapsed, buf>>
        /\ rx' = "ready" /\ ret' = "HAL_TIMEOUT"
    BY <1>10 DEF ClearOverrun
  <2>4. QED
    BY <2>1, <2>2, <2>3
<1>11. CASE UNCHANGED vars
  BY <1>11 DEF vars, line, reg, call, Byte
<1>12. QED
  BY <1>1, <1>2, <1>3, <1>4, <1>5, <1>6, <1>7, <1>8, <1>9, <1>10, <1>11 DEF Next, Step

\* Only a read of DR, an arrival, an overrun and the clearing of one move a byte.
LEMMA StepAccounted == IInv /\ [Next]_vars => Accounted' /\ InOrder'
<1> SUFFICES ASSUME IInv, [Next]_vars
             PROVE  Accounted' /\ InOrder'
  OBVIOUS
<1> USE UartAssumption DEF IInv, Accounted, InOrder, Held
<1>1. ASSUME UNCHANGED <<arrived, delivered, lost, dr, rxne, buf>>
      PROVE  Accounted' /\ InOrder'
  BY <1>1
<1>2. CASE Arrive
  <2>1. /\ arrived' = arrived + 1 /\ dr' = arrived + 1 /\ rxne' /\ ~ rxne
        /\ UNCHANGED <<delivered, lost, buf>>
    BY <1>2 DEF Arrive, call
  <2>2. arrived \in Nat /\ delivered \cup lost = 1 .. arrived
    BY <2>1 DEF TypeOK
  <2>3. QED
    BY <2>1, <2>2
<1>3. CASE Overrun
  <2>1. /\ arrived' = arrived + 1 /\ lost' = lost \cup {arrived + 1} /\ rxne /\ rxne'
        /\ UNCHANGED <<delivered, dr, buf>>
    BY <1>3 DEF Overrun, call
  <2>2. arrived \in Nat /\ dr \in 0 .. arrived
    BY DEF TypeOK
  <2>3. QED
    BY <2>1, <2>2
<1>4. CASE ReadData
  <2>1. /\ rxne /\ ~ rxne' /\ delivered' = delivered \cup {dr}
        /\ buf' = [buf EXCEPT ![Size - count + 1] = dr]
        /\ UNCHANGED <<arrived, lost, dr>>
    BY <1>4 DEF ReadData, Control
  <2>2. buf \in [1 .. Size -> 0 .. MaxBytes]
    BY DEF TypeOK
  <2>3. QED
    BY <2>1, <2>2
<1>5. CASE ClearOverrun
  <2>1. /\ lost' = IF rxne THEN lost \cup {dr} ELSE lost
        /\ ~ rxne'
        /\ UNCHANGED <<arrived, delivered, dr, buf>>
    BY <1>5 DEF ClearOverrun
  <2>2. QED
    BY <2>1
<1>6. QED
  BY <1>1, <1>2, <1>3, <1>4, <1>5
  DEF Next, Step, Send, Tick, Call, TestRxne, TestTimeout, TestOverrun, vars, line, reg, call

\* A step keeps the shape of the frame: ReadData appends a byte newer than all
\* that were delivered, and every older one it skips is accounted for as lost.
LEMMA StepFrame == IInv /\ [Next]_vars => Frame'
<1> SUFFICES ASSUME IInv, [Next]_vars
             PROVE  Frame'
  OBVIOUS
<1> USE UartAssumption
<1>0. TypeOK /\ Control /\ Accounted /\ InOrder /\ Frame
  BY DEF IInv
<1>1. ASSUME Called' => Called, lost \subseteq lost', UNCHANGED <<delivered, count, buf>>
      PROVE  Frame'
  BY <1>0, <1>1 DEF Frame
<1>2. CASE Call
  <2>1. count' = Size /\ UNCHANGED <<delivered, lost, buf>>
    BY <1>2 DEF Call, line
  <2>2. QED
    BY <2>1 DEF Frame
<1>3. CASE ReadData
  <2> DEFINE n == Size - count + 1
  <2>1. /\ n \in 1 .. Size /\ n = Size - count' /\ count \in 0 .. Size
        /\ buf' = [buf EXCEPT ![n] = dr]
        /\ buf \in [1 .. Size -> 0 .. MaxBytes]
        /\ dr \in Byte /\ delivered' = delivered \cup {dr} /\ lost' = lost
        /\ count' = count - 1
    BY <1>0, <1>3 DEF ReadData, TypeOK, Control, Byte
  <2>2. Called /\ rxne
    BY <1>0, <1>3 DEF ReadData, Control, Called
  <2>3. \A k \in 1 .. Size : buf[k] < dr
    BY <1>0, <2>1, <2>2 DEF InOrder, Byte
  <2>4. \A j, k \in 1 .. Size : j < k /\ k <= n => buf'[j] < buf'[k]
    <3>1. TAKE j, k \in 1 .. Size
    <3>2. HAVE j < k /\ k <= n
    <3>3. CASE k = n
      BY <2>1, <2>3, <3>2, <3>3
    <3>4. CASE k # n
      <4>1. k <= Size - count
        BY <2>1, <3>2, <3>4
      <4>2. buf[j] < buf[k]
        BY <1>0, <2>2, <3>2, <4>1 DEF Frame
      <4>3. QED
        BY <2>1, <3>2, <3>4, <4>2
    <3>5. QED
      BY <3>3, <3>4
  <2>5. \A k \in 1 .. Size - 1 : k + 1 <= n =>
          \A i \in Byte : buf'[k] < i /\ i < buf'[k + 1] => i \in lost
    <3>1. SUFFICES ASSUME NEW k \in 1 .. Size - 1, k + 1 <= n,
                          NEW i \in Byte, buf'[k] < i, i < buf'[k + 1]
                   PROVE  i \in lost
      OBVIOUS
    <3>2. CASE k + 1 = n
      <4>1. buf'[k] = buf[k] /\ buf'[k + 1] = dr
        BY <2>1, <3>2
      <4>2. \A d \in delivered : d <= buf[k]
        BY <1>0, <2>1, <2>2, <3>2 DEF Frame
      <4>3. i \notin delivered /\ i # dr /\ i \in 1 .. arrived
        BY <1>0, <2>1, <3>1, <4>1, <4>2 DEF Byte, TypeOK
      <4>4. QED
        BY <1>0, <2>2, <4>3 DEF Accounted, Held
    <3>3. CASE k + 1 # n
      <4>1. buf'[k] = buf[k] /\ buf'[k + 1] = buf[k + 1] /\ k + 1 <= Size - count
        BY <2>1, <3>1, <3>3
      <4>2. QED
        BY <1>0, <2>2, <3>1, <4>1 DEF Frame
    <3>4. QED
      BY <3>2, <3>3
  <2>6. \A i \in delivered' : i <= buf'[n]
    BY <1>0, <2>1, <2>2 DEF InOrder, TypeOK, Byte
  <2>7. \A j, k \in 1 .. Size : j <= n /\ k > n => buf'[k] < buf'[j]
    <3>1. TAKE j, k \in 1 .. Size
    <3>2. HAVE j <= n /\ k > n
    <3>3. buf'[k] = buf[k]
      BY <2>1, <3>2
    <3>4. CASE j = n
      BY <2>1, <2>3, <3>3, <3>4
    <3>5. CASE j # n
      <4>1. j <= Size - count /\ k > Size - count
        BY <2>1, <3>2, <3>5
      <4>2. buf[k] < buf[j]
        BY <1>0, <2>2, <4>1 DEF Frame
      <4>3. QED
        BY <2>1, <3>2, <3>3, <3>5, <4>2
    <3>6. QED
      BY <3>4, <3>5
  <2>8. QED
    BY <2>1, <2>4, <2>5, <2>6, <2>7 DEF Frame
<1>4. QED
  BY <1>1, <1>2, <1>3
  DEF Next, Step, Send, Arrive, Overrun, Tick, TestRxne, TestTimeout, TestOverrun,
      ClearOverrun, Called, vars, line, reg, call

-----------------------------------------------------------------------------

\* The inductive invariant holds in every reachable state.
THEOREM Invariance == Spec => []IInv
<1>1. IInv /\ [Next]_vars => IInv'
  BY StepTypeOK, StepAccounted, StepFrame DEF IInv
<1>2. QED
  BY InitIInv, <1>1, PTL DEF Spec

\* HAL_UART_Receive keeps every variable in its range: the buffer index stays
\* inside the buffer, whenever bytes come and ticks pass.
THEOREM TypeCorrect == Spec => []TypeOK
<1>1. IInv => TypeOK
  BY DEF IInv
<1>2. QED
  BY Invariance, <1>1, PTL

\* No byte that arrived is duplicated, and none disappears without being counted
\* as lost: it was delivered once, lost once, or is still in DR.
THEOREM EveryByteAccounted == Spec => []Accounted
<1>1. IInv => Accounted
  BY DEF IInv
<1>2. QED
  BY Invariance, <1>1, PTL

\* HAL_OK means a frame in stream order whose gaps are losses.
THEOREM FramesAreWhole == Spec => []WholeFrame
<1>1. IInv => WholeFrame
  <2> SUFFICES ASSUME IInv, ret = "HAL_OK"
               PROVE  \A k \in 1 .. Size - 1 :
                        /\ buf[k] < buf[k + 1]
                        /\ \A i \in Byte : buf[k] < i /\ i < buf[k + 1] => i \in lost
    BY DEF WholeFrame
  <2>1. count = 0 /\ Called /\ Frame
    BY DEF IInv, Control, Called
  <2>2. TAKE k \in 1 .. Size - 1
  <2>3. /\ k \in 1 .. Size /\ k + 1 \in 1 .. Size /\ k < k + 1
        /\ k + 1 <= Size - count
    BY <2>1, UartAssumption
  <2>4. buf[k] < buf[k + 1]
    BY <2>1, <2>3 DEF Frame
  <2>5. QED
    BY <2>1, <2>3, <2>4 DEF Frame
<1>2. QED
  BY Invariance, <1>1, PTL

\* After a call that timed out, and during a call, the slots not written yet hold
\* bytes older than all that were written.
THEOREM TailIsStale == Spec => []StaleTail
<1>1. IInv => StaleTail
  <2> SUFFICES ASSUME IInv, rx # "ready" \/ ret = "HAL_TIMEOUT"
               PROVE  \A j, k \in 1 .. Size :
                        j <= Size - count /\ k > Size - count => buf[k] < buf[j]
    BY DEF StaleTail
  <2>1. Called /\ Frame
    BY DEF IInv, Called
  <2>2. QED
    BY <2>1 DEF Frame
<1>2. QED
  BY Invariance, <1>1, PTL

\* A slot of the buffer is never overwritten with an older byte.
THEOREM SlotsOnlyAdvance == Spec => NeverOlder
<1>1. IInv /\ [Next]_vars => [\A k \in 1 .. Size : buf'[k] # buf[k] => buf'[k] > buf[k]]_vars
  <2> SUFFICES ASSUME IInv, Next, NEW k \in 1 .. Size, buf'[k] # buf[k]
               PROVE  buf'[k] > buf[k]
    BY DEF vars
  <2>1. ReadData
    BY DEF Next, Step, Send, Arrive, Overrun, Tick, Call, TestRxne, TestTimeout,
           TestOverrun, ClearOverrun, call
  <2>2. buf \in [1 .. Size -> 0 .. MaxBytes] /\ rxne /\ buf[k] \in delivered \cup {0}
    BY <2>1 DEF IInv, TypeOK, Control, InOrder, ReadData
  <2>3. buf[k] < dr
    BY <2>2 DEF IInv, TypeOK, Control, InOrder
  <2>4. buf'[k] = dr
    BY <2>1, <2>2 DEF ReadData
  <2>5. QED
    BY <2>3, <2>4
<1>2. QED
  BY Invariance, <1>1, PTL DEF Spec, NeverOlder

\* The receiver implements the lossy line: sending maps to Send, an overrun and
\* the clearing of a full DR to Lose, the read of DR to Deliver (DR is the oldest
\* byte in flight), and all other steps to stuttering.
THEOREM ImplementsLine == Spec => LineSpec
<1>1. Init => Line!Init
  BY DEF Init, Line!Init
<1>2. IInv /\ [Next]_vars => [Line!Next]_(Line!vars)
  <2> SUFFICES ASSUME IInv, [Next]_vars
               PROVE  Line!Next \/ UNCHANGED Line!vars
    OBVIOUS
  <2> USE DEF Line!vars, Line!Next
  <2>1. CASE Send
    BY <2>1 DEF Send, Line!Send
  <2>2. CASE Overrun
    <3>1. /\ arrived + 1 \in 1 .. sent
          /\ arrived + 1 \notin delivered \cup lost
          /\ lost' = lost \cup {arrived + 1}
      BY <2>2 DEF Overrun, IInv, TypeOK, Accounted
    <3>2. UNCHANGED <<sent, delivered>>
      BY <2>2 DEF Overrun
    <3>3. QED
      BY <3>1, <3>2 DEF Line!Lose, Line!InFlight
  <2>3. CASE ReadData
    <3>1. /\ rxne /\ dr \in 1 .. sent /\ dr \notin delivered \cup lost
          /\ delivered' = delivered \cup {dr}
      BY <2>3 DEF ReadData, IInv, TypeOK, Control, Accounted, Held
    <3>2. \A j \in Line!InFlight : dr <= j
      <4>1. TAKE j \in Line!InFlight
      <4>2. j \in Nat /\ j \notin delivered \cup lost
        BY DEF Line!InFlight, IInv, TypeOK
      <4>3. j = dr \/ j > arrived
        BY <3>1, <4>1, <4>2 DEF IInv, TypeOK, Accounted, Held, Line!InFlight
      <4>4. QED
        BY <4>2, <4>3 DEF IInv, TypeOK
    <3>3. UNCHANGED <<sent, lost>>
      BY <2>3 DEF ReadData
    <3>4. QED
      BY <3>1, <3>2, <3>3 DEF Line!Deliver, Line!InFlight
  <2>4. CASE ClearOverrun
    <3>1. CASE rxne
      <4>1. dr \in 1 .. sent /\ dr \notin delivered \cup lost
        BY <3>1 DEF IInv, TypeOK, Control, Accounted, Held
      <4>2. lost' = lost \cup {dr} /\ UNCHANGED <<sent, delivered>>
        BY <2>4, <3>1 DEF ClearOverrun
      <4>3. QED
        BY <4>1, <4>2 DEF Line!Lose, Line!InFlight
    <3>2. CASE ~ rxne
      BY <2>4, <3>2 DEF ClearOverrun
    <3>3. QED
      BY <3>1, <3>2
  <2>5. QED
    BY <2>1, <2>2, <2>3, <2>4
    DEF Next, Step, Arrive, Tick, Call, TestRxne, TestTimeout, TestOverrun, vars, line
<1>3. QED
  BY Invariance, <1>1, <1>2, PTL DEF Spec, LineSpec, Line!Spec

=============================================================================
