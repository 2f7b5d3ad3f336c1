------------------------------- MODULE Dht11 -------------------------------
(***************************************************************************)
(* DHT11_ReadData, which task1 calls in every loop.  The sensor answers on *)
(* one wire with pulses whose length is the bit; the driver waits for the  *)
(* edges in loops without a timeout and samples the wire a fixed delay     *)
(* after each rising edge.  m_delay_us measures that delay with SysTick    *)
(* and gives up at a tick of the HAL, which TIM4 counts: the two timers    *)
(* have one period and whatever phase the start gave them.                 *)
(*                                                                         *)
(* Time is counted from the release of the wire and jumps to where the     *)
(* driver looks next.  A preemption, or an interrupt, lets time pass       *)
(* between two looks; one inside a loop or a delay is one before or after  *)
(* it.                                                                     *)
(***************************************************************************)
EXTENDS Integers, FiniteSetsExt

CONSTANTS
  Fields,       \* data bytes before the checksum (4 in the sensor)
  Width,        \* bits of a byte (8 in the sensor)
  Weight,       \* what each bit is worth in its byte: 2^7 for the first, 1 for the last
  Wake, Delay,  \* the arguments of m_delay_us: before the answer, before a sample
  Answer,       \* when the sensor pulls the wire low
  AnswerLow, AnswerHigh, BitLow, High0, High1,  \* the lengths of its pulses
  Period,       \* of SysTick and of TIM4
  Phases,       \* how far the timers may be when the wire is released
  Cuts,         \* the times at which the sensor may be pulled out
  Gaps,         \* how long task1 may be away
  MaxPreempts   \* bound on how often

Bits == (Fields + 1) * Width

ASSUME DhtAssumption ==
  /\ Fields \in Nat \ {0} /\ Width \in Nat \ {0} /\ Period \in Nat \ {0}
  /\ Weight \in [1 .. Bits -> Nat \ {0}] /\ MaxPreempts \in Nat
  /\ \A d \in {Wake, Delay, AnswerLow, AnswerHigh, BitLow, High0, High1} : d \in 1 .. Period
  /\ Answer \in Nat
  /\ Phases \subseteq 0 .. Period - 1 /\ Cuts \subseteq Nat /\ Gaps \subseteq Nat \ {0}

\* The sensor answers within the first delay; a sample falls behind a short pulse,
\* within a long one, and before the next.
ASSUME PulseAssumption ==
  /\ Answer <= Wake /\ Wake < Answer + AnswerLow
  /\ High0 <= Delay /\ Delay < High1 /\ Delay < High0 + BitLow

VARIABLES
  sent,       \* what the sensor sends, data bytes and checksum: the bits that are 1
  edges,      \* when the wire changes, first down
  cut,        \* when the sensor is pulled out
  sys, hal,   \* phases of SysTick and of TIM4
  pc,         \* where the driver is
  t,          \* time since the wire was released
  k,          \* the bit the driver reads
  data,       \* DHT11_Data, with the bits read so far: those that are 1
  ret,        \* what DHT11_ReadData returned
  preempts,
  off         \* history: the bits the driver was disturbed in, 0 for the time before them

sensor == <<sent, edges, cut, sys, hal>>
vars   == <<sensor, pc, t, k, data, ret, preempts, off>>

\* What bits are worth together: each brings as many units as its weight.
Worth(bits) == Cardinality(UNION {{b} \X (1 .. Weight[b]) : b \in bits})

\* The data bytes as an int, which no carry is lost in, and the fifth byte.
Sum(d)      == Worth({b \in d : b <= Fields * Width})
Checksum(d) == Worth({b \in d : b > Fields * Width})

-----------------------------------------------------------------------------
(* The wire.  Nobody pulls it low outside the answer: it idles high. *)

\* When bit b begins: behind the response and the bits before it.
Begin(s, b) ==
  LET ones == s \intersect (1 .. b - 1)
  IN Answer + AnswerLow + AnswerHigh + (b - 1) * BitLow
       + Cardinality(ones) * High1 + Cardinality((1 .. b - 1) \ ones) * High0

\* The edges of an answer: the response, the bits, and the low that ends it.
Wave(s) ==
  {Answer, Answer + AnswerLow}
    \union {Begin(s, b) : b \in 1 .. Bits + 1} \union {Begin(s, b) + BitLow : b \in 1 .. Bits + 1}

\* A wire that is cut while it is low goes up.
CutAt(wave, c) ==
  LET left == {e \in wave : e < c}
  IN IF Cardinality(left) % 2 = 1 THEN left \union {c} ELSE left

\* How many edges the wire has had.
Passed == Cardinality({e \in edges : e <= t})

Low == Passed % 2 = 1

\* Whether the wire has the level now or at an edge to come.
Comes(low) == Low = low \/ \E e \in edges : e > t

FirstTime(low) == IF Low = low THEN t ELSE Min({e \in edges : e > t})

-----------------------------------------------------------------------------
(* m_delay_us.  SysTick counts down, the tick of the HAL up. *)

SysTickVal(u) == Period - 1 - ((u + sys) % Period)
NextTick      == t + Period - ((t + hal) % Period)

\* When a delay of d that is called now returns: d later or at the next tick; when
\* SysTick reloads before, at the next tick and then when SysTick is down to the rest.
DelayEnd(d) ==
  LET rest == Period + SysTickVal(t) - d
  IN IF d > SysTickVal(t) THEN NextTick + Max({0, SysTickVal(NextTick) - rest})
     ELSE Min({t + d, NextTick})

-----------------------------------------------------------------------------
TypeOK ==
  /\ sent \subseteq 1 .. Bits /\ edges \subseteq Nat
  /\ cut \in Cuts /\ sys \in Phases /\ hal \in Phases
  /\ pc \in {"wake", "answer", "low", "high", "rise", "delay", "sample", "fall", "done"}
  /\ t \in Nat
  /\ k \in 1 .. Bits + 1
  /\ data \subseteq 1 .. Bits
  /\ ret \in {"none", "refused", "accepted"}
  /\ preempts \in 0 .. MaxPreempts
  /\ off \subseteq 0 .. Bits

\* The values of the sensor have a sum that fits a byte.  The start signal, a low
\* of 18 ms, is over.
Init ==
  /\ sent \in {s \in SUBSET (1 .. Bits) : Checksum(s) = Sum(s)}
  /\ cut \in Cuts /\ edges = CutAt(Wave(sent), cut)
  /\ sys \in Phases /\ hal \in Phases
  /\ pc = "wake" /\ t = 0 /\ k = 1 /\ ret = "none" /\ preempts = 0
  /\ data = {} /\ off = {}

\* The bit the driver is in.
Bit == IF pc \in {"wake", "answer", "low", "high"} THEN 0 ELSE k

Goto(from, to) == pc = from /\ pc' = to

DelayTo(from, d, to) ==
  /\ Goto(from, to)
  /\ t' = DelayEnd(d)
  /\ off' = off \union IF t' = t + d THEN {} ELSE {Bit}
  /\ UNCHANGED <<sensor, k, data, ret, preempts>>

WakeDelay == DelayTo("wake", Wake, "answer")
BitDelay  == DelayTo("delay", Delay, "sample")

\* if (DHT11_ReadPin == 0), looked at once.
TestAnswer ==
  /\ IF Low THEN Goto("answer", "low") /\ UNCHANGED ret
            ELSE Goto("answer", "done") /\ ret' = "refused"
  /\ UNCHANGED <<sensor, t, k, data, preempts, off>>

\* while (DHT11_ReadPin != level), for ever if need be.
WaitFor(low, from, to) ==
  /\ Goto(from, to)
  /\ Comes(low)
  /\ t' = FirstTime(low)
  /\ UNCHANGED <<sensor, k, data, ret, preempts, off>>

\* Fault: the high of the response is not waited for.
WaitAnswerHighGone == Goto("high", "rise") /\ UNCHANGED <<sensor, t, k, data, ret, preempts, off>>

WaitAnswerLow  == WaitFor(FALSE, "low", "high")
WaitAnswerHigh == WaitFor(TRUE, "high", "rise")
WaitRise       == WaitFor(FALSE, "rise", "delay")

\* Fault: the checksum is read and not compared.
NextBitNoSum(d) ==
  /\ k' = k + 1
  /\ IF k < Bits THEN pc' = "rise" /\ UNCHANGED ret ELSE pc' = "done" /\ ret' = "accepted"

\* The next bit, or the test of the checksum.
NextBit(d) ==
  /\ k' = k + 1
  /\ IF k < Bits THEN pc' = "rise" /\ UNCHANGED ret
     ELSE pc' = "done" /\ ret' = IF Checksum(d) = Sum(d) THEN "accepted" ELSE "refused"

\* Fault: the shift is one too many.
SetBitHigh == data \union {k - 1}

\* temp |= 1 << (7 - i)
SetBit == data \union {k}

Sample ==
  /\ pc = "sample"
  /\ IF Low THEN NextBit(data) ELSE pc' = "fall" /\ UNCHANGED <<k, ret>>
  /\ UNCHANGED <<sensor, t, data, preempts, off>>

\* Fault: a wait for the end of a high pulse that gives up when there is none.
WaitFallBounded ==
  /\ pc = "fall"
  /\ t' = IF Comes(TRUE) THEN FirstTime(TRUE) ELSE t
  /\ data' = SetBit
  /\ NextBit(data')
  /\ UNCHANGED <<sensor, preempts, off>>

WaitFall ==
  /\ pc = "fall"
  /\ Comes(TRUE)
  /\ t' = FirstTime(TRUE)
  /\ data' = SetBit
  /\ NextBit(data')
  /\ UNCHANGED <<sensor, preempts, off>>

\* Another task of the same priority, or an interrupt handler, runs for a while.
Preempt ==
  /\ pc # "done"
  /\ preempts < MaxPreempts
  /\ preempts' = preempts + 1
  /\ off' = off \union {Bit}
  /\ \E e \in edges : e > t
  /\ \E gap \in Gaps : t' = t + gap
  /\ UNCHANGED <<sensor, pc, k, data, ret>>

-----------------------------------------------------------------------------
Step ==
  \/ WakeDelay \/ TestAnswer \/ WaitAnswerLow \/ WaitAnswerHigh
  \/ WaitRise \/ BitDelay \/ Sample \/ WaitFall

Next == Step \/ Preempt

Spec == Init /\ [][Next]_vars
FairSpec == Spec /\ WF_vars(Step)

-----------------------------------------------------------------------------
\* The sensor stays to the end of the answer.
Whole == edges = Wave(sent)

\* How many edges the wire has had when the driver gets to its place and is in step.
Due ==
  IF pc = "low" THEN 1 ELSE IF pc = "high" THEN 2
  ELSE IF pc = "rise" THEN 2 * k + 1 ELSE IF pc \in {"delay", "sample", "fall"} THEN 2 * k + 2
  ELSE IF ret = "accepted" THEN 2 * (Bits + 1) + 1 ELSE 0

\* The driver has not let two edges go by unseen.
InStep == pc # "done" => Passed <= Due + 1

Wrong == (data \ sent) \union (sent \ data)

\* At every phase of the timers and however often task1 is preempted, a reading is
\* accepted only when the driver has kept in step with the wire: a bit is wrong only
\* by what happened within it, a preemption or a delay that m_delay_us got wrong,
\* and never one bit alone, which the checksum finds (DHT11_ReadByte).
AcceptedIsInStep ==
  ret = "accepted" => Wrong \subseteq off /\ \A b \in Wrong : Wrong # {b}

\* Every bit uses up an edge down: whatever the preemptions and the timers, a
\* sensor that is pulled out before its last bit is over is never believed.
NothingFromACutSensor ==
  ret = "accepted" => Cardinality(edges) >= 2 * (Bits + 1) + 1

\* The loops without a timeout end for a driver that keeps in step with a sensor that
\* stays, whatever the timers and the preemptions do besides, and with no bit
\* disturbed the read gives what was sent.
ReadEnds ==
  [](Whole /\ InStep) => <>(pc = "done" /\ (off = {} => ret = "accepted" /\ data = sent))
=============================================================================
