----------------------------- MODULE Controller -----------------------------
(***************************************************************************)
(* The STM32 application: task1 (sensors and report), task2 (commands from *)
(* the ESP32 on USART3) and task3 (commands from the panel on USART1), at  *)
(* equal priority under a preemptive round robin, and the key interrupts.  *)
(*                                                                         *)
(* The tasks share the four flags and the output pins without a lock, so a *)
(* step is one access to them.  The two serial lines are those of module   *)
(* LossyLine: bytes arrive in order and any byte may be lost.  A loss is   *)
(* seen only when the byte would have been next, so only that byte can be  *)
(* lost here.                                                              *)
(***************************************************************************)
EXTENDS Naturals, Sequences

CONSTANTS
  Streams,      \* [task2, task3 -> set of byte sequences its peer may send]
  Lossy,        \* whether the lines lose bytes
  LowSensors,   \* the ADC channels, of 1 and 2, that may drop below 500
  Keys,         \* the keys that are pressed, of KEY1 and KEY2
  MaxPresses    \* bound on the presses

Receivers == {"task2", "task3"}
Tasks     == Receivers \cup {"task1"}

Letter == {"A", "W", "L", "B"}
Digit  == {"0", "1"}
Byte   == Letter \cup Digit \cup {"CR", "LF", "NUL"}

Lamp == {"CESUO", "CHUFANG", "KETING"}
Pin  == Lamp \cup {"AIR", "WINDOW", "WARN"}

ASSUME ControllerAssumption ==
  /\ Streams \in [Receivers -> SUBSET Seq(Byte)]
  /\ Lossy \in BOOLEAN
  /\ LowSensors \subseteq {1, 2}
  /\ Keys \subseteq {"KEY1", "KEY2"}
  /\ MaxPresses \in Nat

VARIABLES
  stream,     \* what each peer sends, fixed in the initial state
  next,       \* number of bytes of it that were received or lost
  rbuf,       \* rbuf of task2, rrbuf of task3: never cleared
  flag,       \* air_flag, w_flag, led_flag, beep_flag
  pin,        \* the outputs: TRUE is on, or open
  low,        \* data[1] < 500 and data[2] < 500 in the DMA buffer
  pc, out,    \* control of each task; the next pin of the sequence it writes
  val,        \* the level it writes
  presses

port == <<stream, next>>
env  == <<low, presses>>
ctl  == <<pc, out, val>>
vars == <<stream, next, rbuf, flag, pin, low, pc, out, val, presses>>

Bytes(s) == {s[i] : i \in DOMAIN s}

\* The bytes of a line that its task has received so far, or lost.
Gone(t) == {stream[t][i] : i \in 1 .. next[t]}

Label == {"byte1", "byte2", "scan", "test", "write", "reset", "dht", "ir", "fire", "report"}

PcOf(t) == IF t = "task1" THEN {"dht", "ir", "fire", "write", "report"}
                          ELSE {"byte1", "byte2", "scan", "test", "write", "reset"}

TypeOK ==
  /\ stream \in [Receivers -> Seq(Byte)]
  /\ next \in [Receivers -> Nat]
  /\ \A t \in Receivers : next[t] <= Len(stream[t])
  /\ rbuf \in [Receivers -> [1 .. 2 -> Byte]]
  /\ flag \in [Letter -> BOOLEAN]
  /\ pin \in [Pin -> BOOLEAN]
  /\ low \in [{1, 2} -> BOOLEAN]
  /\ pc \in [Tasks -> Label]
  /\ \A t \in Tasks : pc[t] \in PcOf(t)
  /\ out \in [Tasks -> Pin \cup {"none"}]
  /\ val \in [Tasks -> BOOLEAN]
  /\ presses \in 0 .. MaxPresses

Init ==
  /\ stream \in {s \in [Receivers -> Streams["task2"] \cup Streams["task3"]] :
                   \A t \in Receivers : s[t] \in Streams[t]}
  /\ next = [t \in Receivers |-> 0]
  /\ rbuf = [t \in Receivers |-> <<"NUL", "NUL">>]
  /\ flag = [l \in Letter |-> FALSE]
  /\ pin = [p \in Pin |-> FALSE]
  /\ low = [k \in {1, 2} |-> FALSE]
  /\ pc = [t \in Tasks |-> IF t = "task1" THEN "dht" ELSE "byte1"]
  /\ out = [t \in Tasks |-> "none"]
  /\ val = [t \in Tasks |-> FALSE]
  /\ presses = 0

Goto(t, label) == pc' = [pc EXCEPT ![t] = label]

-----------------------------------------------------------------------------
(* HAL_UART_Receive(huart, rbuf, 2, 1000).  vTaskDelay is part of the wait  *)
(* for the first byte: bytes that overrun DR meanwhile are lost.            *)

Pending(t) == next[t] < Len(stream[t])

\* Fault: more is lost than was sent.
LoseUnsent(t) ==
  /\ Lossy
  /\ next' = [next EXCEPT ![t] = @ + 1]
  /\ UNCHANGED <<stream, rbuf, flag, pin, ctl, env>>

Lose(t) ==
  /\ Lossy
  /\ Pending(t)
  /\ next' = [next EXCEPT ![t] = @ + 1]
  /\ UNCHANGED <<stream, rbuf, flag, pin, ctl, env>>

ReceiveByte(t) ==
  /\ pc[t] \in {"byte1", "byte2"}
  /\ Pending(t)
  /\ next' = [next EXCEPT ![t] = @ + 1]
  /\ rbuf' = [rbuf EXCEPT ![t][IF pc[t] = "byte1" THEN 1 ELSE 2] = stream[t][next[t] + 1]]
  /\ Goto(t, IF pc[t] = "byte1" THEN "byte2" ELSE "scan")
  /\ UNCHANGED <<stream, flag, pin, out, val, env>>

\* The result is ignored: the task goes on with whatever rbuf holds.
ReceiveTimeout(t) ==
  /\ pc[t] \in {"byte1", "byte2"}
  /\ Goto(t, "scan")
  /\ UNCHANGED <<port, rbuf, flag, pin, out, val, env>>

-----------------------------------------------------------------------------
(* The command branches of task2 and task3. *)

\* Fault: the flags lie in the opposite order.
ClearedByReversed(l) == CASE l = "A" -> {}
                          [] l = "W" -> {"A"}
                          [] l = "L" -> {"A", "W"}
                          [] l = "B" -> {"A", "W", "L"}

\* sscanf("%d") stores four bytes at a one-byte flag.  The build places the
\* flags one after the other, in this order, so the store clears the later ones.
ClearedBy(l) == CASE l = "A" -> {"W", "L", "B"}
                  [] l = "W" -> {"L", "B"}
                  [] l = "L" -> {"B"}
                  [] l = "B" -> {}

\* Fault: the store repeats its low byte over the later flags.
StoreSpreads(l, v) == [m \in Letter |-> IF m = l \/ m \in ClearedBy(l) THEN v ELSE flag[m]]

Store(l, v) == [m \in Letter |-> IF m = l THEN v
                                 ELSE flag[m] /\ m \notin ClearedBy(l)]

\* Without a digit after the letter, sscanf stores nothing.
Scan(t) ==
  /\ pc[t] = "scan"
  /\ flag' = IF rbuf[t][1] \in Letter /\ rbuf[t][2] \in Digit
             THEN Store(rbuf[t][1], rbuf[t][2] = "1") ELSE flag
  /\ Goto(t, IF rbuf[t][1] \in Letter THEN "test" ELSE "byte1")
  /\ UNCHANGED <<port, rbuf, pin, out, val, env>>

FirstPin(l) == CASE l = "A" -> "AIR" [] l = "W" -> "WINDOW"
                 [] l = "L" -> "CESUO" [] l = "B" -> "WARN"

\* The lamps are three pins, written one after the other.
AfterPin(p) == CASE p = "CESUO" -> "CHUFANG" [] p = "CHUFANG" -> "KETING"
                 [] OTHER -> "none"

\* if (flag): a read of the shared flag, after the store.
Test(t) ==
  /\ pc[t] = "test"
  /\ val' = [val EXCEPT ![t] = flag[rbuf[t][1]]]
  /\ out' = [out EXCEPT ![t] = FirstPin(rbuf[t][1])]
  /\ Goto(t, "write")
  /\ UNCHANGED <<port, rbuf, flag, pin, env>>

\* Fault: led_flag is not reset.
AfterWritesNoReset(t) == IF t = "task1" THEN "report" ELSE "byte1"

\* Where a task goes after the last write of its sequence.
AfterWrites(t) ==
  CASE t = "task1" -> "report"
    [] t # "task1" /\ out[t] = "KETING" /\ val[t] -> "reset"
    [] OTHER -> "byte1"

WritePin(t) ==
  /\ pc[t] = "write"
  /\ pin' = [pin EXCEPT ![out[t]] = val[t]]
  /\ out' = [out EXCEPT ![t] = AfterPin(out[t])]
  /\ IF AfterPin(out[t]) = "none"
     THEN Goto(t, AfterWrites(t)) /\ val' = [val EXCEPT ![t] = FALSE]
     ELSE UNCHANGED <<pc, val>>
  /\ UNCHANGED <<port, rbuf, flag, env>>

\* led_flag = 0, after the lamps were turned on.
ResetLed(t) ==
  /\ pc[t] = "reset"
  /\ flag' = [flag EXCEPT !["L"] = FALSE]
  /\ Goto(t, "byte1")
  /\ UNCHANGED <<port, rbuf, pin, out, val, env>>

-----------------------------------------------------------------------------
(* task1. *)

\* DHT11_ReadData, which module Dht11 looks into.  Only numbers of the report depend
\* on what it returns.
ReadDht ==
  /\ pc["task1"] = "dht"
  /\ Goto("task1", "ir")
  /\ UNCHANGED <<port, rbuf, flag, pin, out, val, env>>

StartWrites(p) ==
  /\ out' = [out EXCEPT !["task1"] = p]
  /\ val' = [val EXCEPT !["task1"] = TRUE]
  /\ Goto("task1", "write")

\* Fault: the fire sensor is not reached.
TestPresenceOnly ==
  /\ pc["task1"] = "ir"
  /\ IF low[2] THEN StartWrites("CESUO")
               ELSE Goto("task1", "report") /\ UNCHANGED <<out, val>>
  /\ UNCHANGED <<port, rbuf, flag, pin, env>>

\* if (data[2] < 500): lamps on, and data[1] is not looked at.
TestPresence ==
  /\ pc["task1"] = "ir"
  /\ IF low[2] THEN StartWrites("CESUO")
               ELSE Goto("task1", "fire") /\ UNCHANGED <<out, val>>
  /\ UNCHANGED <<port, rbuf, flag, pin, env>>

\* else if (data[1] < 500): alarm on.  Nothing in task1 turns it off.
TestFire ==
  /\ pc["task1"] = "fire"
  /\ IF low[1] THEN StartWrites("WARN")
               ELSE Goto("task1", "report") /\ UNCHANGED <<out, val>>
  /\ UNCHANGED <<port, rbuf, flag, pin, env>>

\* The two transmissions and vTaskDelay.  The report carries the flags of this
\* moment; no state of the controller depends on it.
Report ==
  /\ pc["task1"] = "report"
  /\ Goto("task1", "dht")
  /\ UNCHANGED <<port, rbuf, flag, pin, out, val, env>>

-----------------------------------------------------------------------------
(* The environment: the ADC's DMA and the key interrupts.  An interrupt runs  *)
(* to its end between two steps of a task.                                    *)

Sense ==
  /\ \E k \in LowSensors : low' = [low EXCEPT ![k] = ~ @]
  /\ UNCHANGED <<port, rbuf, flag, pin, ctl, presses>>

Press(key, off) ==
  /\ key \in Keys
  /\ presses < MaxPresses
  /\ presses' = presses + 1
  /\ pin' = [p \in Pin |-> pin[p] /\ p \notin off]
  /\ UNCHANGED <<port, rbuf, flag, ctl, low>>

Key1 == Press("KEY1", {"WARN"})
Key2 == Press("KEY2", Lamp)

-----------------------------------------------------------------------------
ReceiverStep(t) ==
  \/ ReceiveByte(t) \/ ReceiveTimeout(t)
  \/ Scan(t) \/ Test(t) \/ WritePin(t) \/ ResetLed(t)

SensorStep == ReadDht \/ TestPresence \/ TestFire \/ WritePin("task1") \/ Report

Next ==
  \/ \E t \in Receivers : ReceiverStep(t) \/ Lose(t)
  \/ SensorStep
  \/ Sense \/ Key1 \/ Key2

\* Time slicing gives every task of the priority its turn and no HAL call of a task
\* blocks for ever.  A read of the DHT11 may: its loops have no timeout.  The
\* environment owes nothing.
Spec == Init /\ [][Next]_vars
FairSpec ==
  /\ Spec
  /\ \A t \in Receivers : WF_vars(ReceiverStep(t))
  /\ WF_vars(SensorStep /\ pc["task1"] # "dht")

-----------------------------------------------------------------------------
(* Safety. *)

OnlySource(t, l) == \A u \in Receivers \ {t} : l \notin Bytes(stream[u])

\* Task t is between the store into a flag and the last write of its branch.
InBranch(t, l) ==
  t \in Receivers /\ rbuf[t][1] = l /\ pc[t] \in {"test", "write", "reset"}

\* A task that has a branch of l running has got l from its own line.
CommandGone(t, l) == {l, "1"} \subseteq Gone(t)

\* The air conditioner and the window are on only if one line carried the letter
\* and a 1: the four-byte stores of the other branches, lost bytes and stale
\* buffers never turn a device on by themselves.
OnOnlyByCommand ==
  \A l \in {"A", "W"} : pin[FirstPin(l)] => \E t \in Receivers : CommandGone(t, l)

\* While one side only commands the air conditioner, what task1 reports of it
\* (air_flag) is what the pin is, outside the branch itself.
AirReportTrue ==
  \A t \in Receivers :
    OnlySource(t, "A") /\ ~ InBranch(t, "A") => pin["AIR"] = flag["A"]

\* While one side only commands the window, it is never reported open when it is
\* shut.  The converse fails: an A frame clears w_flag.
WindowNotFalselyOpen ==
  \A t \in Receivers :
    OnlySource(t, "W") /\ ~ InBranch(t, "W") => (flag["W"] => pin["WINDOW"])

\* led_flag is set only while a task runs the L branch: at every other moment
\* task1 reports the lamps off, whatever they are.
LedFlagTransient == flag["L"] => \E t \in Receivers : InBranch(t, "L")

LetterOf(p) == CHOOSE l \in Letter :
                 FirstPin(l) = IF p \in Lamp THEN "CESUO" ELSE p

\* A device goes off only for a 0 that was sent to it, or a key: a command to
\* turn it on never turns it off.
OneTurnsOn ==
  [][\A p \in Pin : pin[p] /\ ~ pin'[p] =>
       \/ presses' # presses
       \/ \E t \in Receivers : {LetterOf(p), "0"} \subseteq Gone(t)]_vars

-----------------------------------------------------------------------------
(* Liveness. *)

\* Fire without presence keeps the alarm coming back, although KEY1, a B0 and
\* its stale copies turn it off, for as long as the reads of the DHT11 in front of
\* the test end: one that never does leaves the house without a fire alarm.
FireAlarm ==
  <>[](low[1] /\ ~ low[2]) /\ []<>(pc["task1"] # "dht") => []<> pin["WARN"]

\* The frame the only commanding side leaves in its buffer is run again on every
\* loop, so the air conditioner ends, and stays, as that frame says.
AirConverges ==
  \A t \in Receivers, d \in Digit :
    <>[](OnlySource(t, "A") /\ rbuf[t] = <<"A", d>>) => <>[](pin["AIR"] = (d = "1"))
=============================================================================
