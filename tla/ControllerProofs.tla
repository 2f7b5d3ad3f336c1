-------------------------- MODULE ControllerProofs --------------------------
(***************************************************************************)
(* Proofs about module Controller, for all streams of the two peers, with  *)
(* or without loss, and any number of key presses.                         *)
(***************************************************************************)
EXTENDS Controller, TLAPS

\* The bytes a task works on came from its own line, and its control and the pin
\* it is about to write belong to the branch of its buffered letter.
Branch ==
  /\ \A t \in Receivers : \A i \in 1 .. 2 : rbuf[t][i] \in Gone(t) \cup {"NUL"}
  /\ \A t \in Receivers :
       /\ pc[t] \in {"test", "write", "reset"} => rbuf[t][1] \in Letter
       /\ pc[t] = "reset" => rbuf[t][1] = "L"
       /\ pc[t] = "write" => out[t] = FirstPin(rbuf[t][1]) \/ (rbuf[t][1] = "L" /\ out[t] \in Lamp)
  /\ pc["task1"] = "write" => out["task1"] \in Lamp \cup {"WARN"}
  /\ \A t \in Tasks : pc[t] # "write" => val[t] = FALSE /\ out[t] = "none"

\* led_flag is set only on behalf of a task that will clear it.
LedHeld ==
  flag["L"] => \E t \in Receivers :
    /\ rbuf[t][1] = "L"
    /\ pc[t] = "test" \/ (pc[t] = "write" /\ val[t]) \/ pc[t] = "reset"

\* Under one commanding side, the level about to be written is the flag.
AirAgrees ==
  \A t \in Receivers : OnlySource(t, "A") =>
    /\ ~ InBranch(t, "A") => pin["AIR"] = flag["A"]
    /\ pc[t] = "write" /\ rbuf[t][1] = "A" => val[t] = flag["A"]

WindowAgrees ==
  \A t \in Receivers : OnlySource(t, "W") =>
    /\ ~ InBranch(t, "W") => (flag["W"] => pin["WINDOW"])
    /\ pc[t] = "write" /\ rbuf[t][1] = "W" => (flag["W"] => val[t])

\* A flag, a level about to be written and a pin are set only by a command.
Commanded(l) == \E t \in Receivers : CommandGone(t, l)

OnByCommand ==
  \A l \in {"A", "W"} :
    /\ flag[l] => Commanded(l)
    /\ pin[FirstPin(l)] => Commanded(l)
    /\ \A t \in Tasks : out[t] = FirstPin(l) /\ val[t] => Commanded(l)

IInv == TypeOK /\ Branch /\ LedHeld /\ AirAgrees /\ WindowAgrees /\ OnByCommand
-----------------------------------------------------------------------------

LEMMA PinFacts ==
  /\ FirstPin("A") = "AIR" /\ FirstPin("W") = "WINDOW"
  /\ FirstPin("L") = "CESUO" /\ FirstPin("B") = "WARN"
  /\ AfterPin("CESUO") = "CHUFANG" /\ AfterPin("CHUFANG") = "KETING"
  /\ AfterPin("KETING") = "none" /\ AfterPin("AIR") = "none"
  /\ AfterPin("WINDOW") = "none" /\ AfterPin("WARN") = "none"
  BY DEF FirstPin, AfterPin

LEMMA ClearFacts ==
  /\ ClearedBy("A") = {"W", "L", "B"} /\ ClearedBy("W") = {"L", "B"}
  /\ ClearedBy("L") = {"B"} /\ ClearedBy("B") = {}
  BY DEF ClearedBy

LEMMA InitIInv == Init => IInv
<1> SUFFICES ASSUME Init PROVE IInv
  OBVIOUS
<1> USE ControllerAssumption DEF Init
<1>1. stream \in [Receivers -> Seq(Byte)] /\ \A t \in Receivers : Len(stream[t]) \in Nat
  BY DEF Receivers
<1>2. TypeOK
  <2>1. /\ next \in [Receivers -> Nat] /\ rbuf \in [Receivers -> [1 .. 2 -> Byte]]
        /\ flag \in [Letter -> BOOLEAN] /\ pin \in [Pin -> BOOLEAN]
        /\ low \in [{1, 2} -> BOOLEAN] /\ presses \in 0 .. MaxPresses
    BY DEF Byte, Letter
  <2>2. /\ pc \in [Tasks -> Label] /\ out \in [Tasks -> Pin \cup {"none"}]
        /\ val \in [Tasks -> BOOLEAN] /\ \A t \in Tasks : pc[t] \in PcOf(t)
    BY DEF Label, PcOf
  <2>3. QED
    BY <1>1, <2>1, <2>2 DEF TypeOK
<1>3. Branch
  BY DEF Branch, Receivers, Tasks
<1>4. LedHeld /\ AirAgrees /\ WindowAgrees
  BY DEF LedHeld, AirAgrees, WindowAgrees, Letter, Pin, Receivers, Tasks
<1>5. OnByCommand
  BY PinFacts DEF OnByCommand, Letter, Pin, Lamp
<1>6. QED
  BY <1>2, <1>3, <1>4, <1>5 DEF IInv

-----------------------------------------------------------------------------

\* A jump to a label of the task keeps the control typed.
LEMMA GotoType ==
  ASSUME TypeOK, NEW t \in Tasks, NEW l \in PcOf(t), Goto(t, l)
  PROVE  pc' \in [Tasks -> Label] /\ \A u \in Tasks : pc'[u] \in PcOf(u)
<1>1. l \in Label
  BY DEF PcOf, Label
<1>2. pc' = [pc EXCEPT ![t] = l] /\ pc \in [Tasks -> Label]
  BY DEF Goto, TypeOK
<1>3. ASSUME NEW u \in Tasks PROVE pc'[u] \in PcOf(u)
  BY <1>2 DEF TypeOK
<1>4. QED
  BY <1>1, <1>2, <1>3

\* The pin a task is about to write.
LEMMA OutType ==
  ASSUME TypeOK, Branch, NEW t \in Tasks, pc[t] = "write"
  PROVE  out[t] \in Pin
<1>1. CASE t = "task1"
  BY <1>1 DEF Branch, Pin
<1>2. CASE t \in Receivers
  <2>1. rbuf[t][1] \in Letter
    BY <1>2 DEF Branch
  <2>2. FirstPin(rbuf[t][1]) \in Pin
    BY <2>1, PinFacts DEF Letter, Pin, Lamp
  <2>3. QED
    BY <1>2, <2>2 DEF Branch, Pin
<1>3. QED
  BY <1>1, <1>2 DEF Tasks

LEMMA StepTypeOK == IInv /\ [Next]_vars => TypeOK'
<1> SUFFICES ASSUME IInv, [Next]_vars
             PROVE  TypeOK'
  OBVIOUS
<1> USE ControllerAssumption DEF IInv, TypeOK
<1>0. Receivers \subseteq Tasks /\ "task1" \in Tasks /\ "task1" \notin Receivers
  BY DEF Receivers, Tasks
<1>1. ASSUME NEW t \in Receivers, Lose(t) PROVE TypeOK'
  BY <1>1 DEF Lose, Pending, ctl, env
<1>2. ASSUME NEW t \in Receivers, ReceiveByte(t) PROVE TypeOK'
  <2>1. next' \in [Receivers -> Nat] /\ \A u \in Receivers : next'[u] <= Len(stream[u])
    BY <1>2 DEF ReceiveByte, Pending
  <2>2. stream[t][next[t] + 1] \in Byte
    <3>1. next[t] + 1 \in 1 .. Len(stream[t]) /\ stream[t] \in Seq(Byte)
      BY <1>2 DEF ReceiveByte, Pending
    <3>2. QED
      BY <3>1
  <2>3. rbuf' \in [Receivers -> [1 .. 2 -> Byte]]
    BY <1>2, <2>2 DEF ReceiveByte
  <2>4. pc' \in [Tasks -> Label] /\ \A u \in Tasks : pc'[u] \in PcOf(u)
    BY <1>0, <1>2 DEF ReceiveByte, Goto, Label, PcOf
  <2>5. QED
    BY <1>2, <2>1, <2>3, <2>4 DEF ReceiveByte, env
<1>3. ASSUME NEW t \in Receivers, ReceiveTimeout(t) PROVE TypeOK'
  <2>1. pc' \in [Tasks -> Label] /\ \A u \in Tasks : pc'[u] \in PcOf(u)
    BY <1>0, <1>3 DEF ReceiveTimeout, Goto, Label, PcOf
  <2>2. QED
    BY <1>3, <2>1 DEF ReceiveTimeout, port, env
<1>4. ASSUME NEW t \in Receivers, Scan(t) PROVE TypeOK'
  <2>1. pc' \in [Tasks -> Label] /\ \A u \in Tasks : pc'[u] \in PcOf(u)
    BY <1>0, <1>4 DEF Scan, Goto, Label, PcOf
  <2>2. flag' \in [Letter -> BOOLEAN]
    BY <1>4 DEF Scan, Store
  <2>3. QED
    BY <1>4, <2>1, <2>2 DEF Scan, port, env
<1>5. ASSUME NEW t \in Receivers, Test(t) PROVE TypeOK'
  <2>1. pc' \in [Tasks -> Label] /\ \A u \in Tasks : pc'[u] \in PcOf(u)
    BY <1>0, <1>5 DEF Test, Goto, Label, PcOf
  <2>2. rbuf[t][1] \in Letter
    BY <1>5 DEF Test, Branch
  <2>3. FirstPin(rbuf[t][1]) \in Pin
    BY <2>2, PinFacts DEF Letter, Pin, Lamp
  <2>4. out' \in [Tasks -> Pin \cup {"none"}] /\ val' \in [Tasks -> BOOLEAN]
    BY <1>0, <1>5, <2>2, <2>3 DEF Test
  <2>5. QED
    BY <1>5, <2>1, <2>4 DEF Test, port, env
<1>6. ASSUME NEW t \in Tasks, WritePin(t) PROVE TypeOK'
  <2>1. out[t] \in Pin
    BY <1>6, OutType DEF WritePin
  <2>2. AfterPin(out[t]) \in Pin \cup {"none"}
    BY <2>1, PinFacts DEF Pin, Lamp
  <2>3. AfterWrites(t) \in PcOf(t) /\ AfterWrites(t) \in Label
    BY DEF AfterWrites, PcOf, Label
  <2>4. pc' \in [Tasks -> Label] /\ \A u \in Tasks : pc'[u] \in PcOf(u)
    <3>1. CASE AfterPin(out[t]) = "none"
      BY <1>6, <2>3, <3>1, GotoType DEF WritePin
    <3>2. CASE AfterPin(out[t]) # "none"
      BY <1>6, <3>2 DEF WritePin
    <3>3. QED
      BY <3>1, <3>2
  <2>5. /\ out' \in [Tasks -> Pin \cup {"none"}]
        /\ pin' \in [Pin -> BOOLEAN]
        /\ val' \in [Tasks -> BOOLEAN]
    BY <1>6, <2>1, <2>2 DEF WritePin
  <2>6. QED
    BY <1>6, <2>4, <2>5 DEF WritePin, port, env
<1>7. ASSUME NEW t \in Receivers, ResetLed(t) PROVE TypeOK'
  <2>1. pc' \in [Tasks -> Label] /\ \A u \in Tasks : pc'[u] \in PcOf(u)
    BY <1>0, <1>7 DEF ResetLed, Goto, Label, PcOf
  <2>2. QED
    BY <1>7, <2>1 DEF ResetLed, port, env
<1>8. CASE ReadDht \/ TestPresence \/ TestFire \/ Report
  <2>1. pc' \in [Tasks -> Label] /\ \A u \in Tasks : pc'[u] \in PcOf(u)
    <3>1. \E l \in {"write", "fire", "report", "ir", "dht"} : Goto("task1", l)
      BY <1>8 DEF ReadDht, TestPresence, TestFire, Report, StartWrites
    <3>2. {"write", "fire", "report", "ir", "dht"} = PcOf("task1")
      BY DEF PcOf
    <3>3. QED
      BY <1>0, <3>1, <3>2, GotoType
  <2>2. out' \in [Tasks -> Pin \cup {"none"}] /\ val' \in [Tasks -> BOOLEAN]
    BY <1>0, <1>8 DEF ReadDht, TestPresence, TestFire, Report, StartWrites, Pin, Lamp
  <2>3. QED
    BY <1>8, <2>1, <2>2 DEF ReadDht, TestPresence, TestFire, Report, port, env
<1>9. CASE Sense
  BY <1>9 DEF Sense, port, ctl
<1>10. CASE Key1 \/ Key2
  <2>1. pin' \in [Pin -> BOOLEAN]
    BY <1>10 DEF Key1, Key2, Press
  <2>2. presses' \in 0 .. MaxPresses
    BY <1>10 DEF Key1, Key2, Press
  <2>3. QED
    BY <1>10, <2>1, <2>2 DEF Key1, Key2, Press, port, ctl
<1>11. CASE UNCHANGED vars
  BY <1>11 DEF vars
<1>12. QED
  BY <1>0, <1>1, <1>2, <1>3, <1>4, <1>5, <1>6, <1>7, <1>8, <1>9, <1>10, <1>11
  DEF Next, ReceiverStep, SensorStep

-----------------------------------------------------------------------------

\* Only Lose and ReceiveByte move the position in a line, and only forwards.
LEMMA LineStep ==
  ASSUME IInv, [Next]_vars
  PROVE  /\ stream' = stream
         /\ \A t \in Receivers : next'[t] \in {next[t], next[t] + 1}
         /\ \A t \in Receivers : Gone(t) \subseteq Gone(t)'
<1> USE DEF IInv, TypeOK
<1>1. stream' = stream
  BY DEF Next, ReceiverStep, SensorStep, Lose, ReceiveByte, ReceiveTimeout, Scan, Test,
         WritePin, ResetLed, ReadDht, TestPresence, TestFire, Report, Sense, Key1, Key2, Press,
         port, vars
<1>2. \A t \in Receivers : next'[t] \in {next[t], next[t] + 1}
  <2>1. CASE \E t \in Receivers : Lose(t) \/ ReceiveByte(t)
    BY <2>1 DEF Lose, ReceiveByte
  <2>2. CASE UNCHANGED next
    BY <2>2
  <2>3. QED
    BY <2>1, <2>2
    DEF Next, ReceiverStep, SensorStep, ReceiveTimeout, Scan, Test, WritePin, ResetLed,
        ReadDht, TestPresence, TestFire, Report, Sense, Key1, Key2, Press, port, vars
<1>3. ASSUME NEW t \in Receivers PROVE Gone(t) \subseteq Gone(t)'
  <2>1. next[t] \in Nat /\ next'[t] \in Nat /\ next[t] <= next'[t]
    <3>1. next[t] \in Nat
      OBVIOUS
    <3>2. next'[t] \in {next[t], next[t] + 1}
      BY <1>2
    <3>3. QED
      BY <3>1, <3>2
  <2>2. QED
    BY <1>1, <2>1 DEF Gone
<1>4. QED
  BY <1>1, <1>2, <1>3

\* What a buffered byte is evidence of.
LEMMA StepBuffers ==
  ASSUME IInv, [Next]_vars
  PROVE  \A t \in Receivers : \A i \in 1 .. 2 : rbuf'[t][i] \in Gone(t)' \cup {"NUL"}
<1> USE DEF IInv, TypeOK
<1>1. CASE \E t \in Receivers : ReceiveByte(t)
  <2>1. PICK t \in Receivers : ReceiveByte(t)
    BY <1>1
  <2> DEFINE k == IF pc[t] = "byte1" THEN 1 ELSE 2
  <2>2. /\ rbuf' = [rbuf EXCEPT ![t][k] = stream[t][next[t] + 1]]
        /\ next' = [next EXCEPT ![t] = @ + 1]
        /\ stream' = stream
    BY <2>1 DEF ReceiveByte
  <2>3. stream[t][next[t] + 1] \in Gone(t)'
    <3>1. next'[t] = next[t] + 1 /\ next[t] \in Nat
      BY <2>2
    <3>2. next[t] + 1 \in 1 .. next'[t]
      BY <3>1
    <3>3. QED
      BY <2>2, <3>2 DEF Gone
  <2>4. TAKE u \in Receivers
  <2>5. TAKE i \in 1 .. 2
  <2>6. CASE u = t /\ i = k
    BY <2>2, <2>3, <2>6
  <2>7. CASE ~ (u = t /\ i = k)
    <3>1. rbuf'[u][i] = rbuf[u][i]
      BY <2>2, <2>7
    <3>2. QED
      BY <3>1, LineStep DEF Branch
  <2>8. QED
    BY <2>6, <2>7
<1>2. CASE UNCHANGED rbuf
  BY <1>2, LineStep DEF Branch
<1>3. QED
  BY <1>1, <1>2
  DEF Next, ReceiverStep, SensorStep, Lose, ReceiveTimeout, Scan, Test, WritePin, ResetLed,
      ReadDht, TestPresence, TestFire, Report, Sense, Key1, Key2, Press, vars

LEMMA StepBranch == IInv /\ [Next]_vars => Branch'
<1> SUFFICES ASSUME IInv, [Next]_vars
             PROVE  Branch'
  OBVIOUS
<1> DEFINE
  Mine(t) ==
    /\ pc[t] \in {"test", "write", "reset"} => rbuf[t][1] \in Letter
    /\ pc[t] = "reset" => rbuf[t][1] = "L"
    /\ pc[t] = "write" => out[t] = FirstPin(rbuf[t][1])
                            \/ (rbuf[t][1] = "L" /\ out[t] \in Lamp)
  Idle(t) == pc[t] # "write" => val[t] = FALSE /\ out[t] = "none"
  Sensor == pc["task1"] = "write" => out["task1"] \in Lamp \cup {"WARN"}
  Rest == (\A t \in Receivers : Mine(t)) /\ (\A t \in Tasks : Idle(t)) /\ Sensor
<1>0. TypeOK /\ Rest
  BY DEF IInv, Branch
<1>t. Receivers \subseteq Tasks /\ "task1" \in Tasks /\ "task1" \notin Receivers
  BY DEF Receivers, Tasks
<1> USE <1>t DEF TypeOK
<1>1. ASSUME NEW t \in Receivers, ReceiveByte(t) PROVE Rest'
  BY <1>0, <1>1 DEF ReceiveByte, Goto
<1>2. ASSUME NEW t \in Receivers, ReceiveTimeout(t) PROVE Rest'
  BY <1>0, <1>2 DEF ReceiveTimeout, Goto
<1>3. ASSUME NEW t \in Receivers, Scan(t) PROVE Rest'
  BY <1>0, <1>3 DEF Scan, Goto
<1>4. ASSUME NEW t \in Receivers, Test(t) PROVE Rest'
  <2>1. /\ pc' = [pc EXCEPT ![t] = "write"] /\ rbuf' = rbuf /\ rbuf[t][1] \in Letter
        /\ out' = [out EXCEPT ![t] = FirstPin(rbuf[t][1])]
        /\ val' = [val EXCEPT ![t] = flag[rbuf[t][1]]]
    BY <1>0, <1>4 DEF Test, Goto
  <2>2. \A u \in Receivers : Mine(u)'
    BY <1>0, <2>1
  <2>3. \A u \in Tasks : Idle(u)'
    BY <1>0, <2>1
  <2>4. Sensor'
    BY <1>0, <2>1
  <2>5. QED
    BY <2>2, <2>3, <2>4
<1>5. ASSUME NEW t \in Tasks, WritePin(t) PROVE Rest'
  <2>1. /\ pc[t] = "write" /\ rbuf' = rbuf /\ out[t] \in Pin
        /\ out' = [out EXCEPT ![t] = AfterPin(out[t])]
    BY <1>0, <1>5, OutType DEF WritePin, IInv
  <2>2. CASE AfterPin(out[t]) # "none"
    <3>1. out[t] \in Lamp /\ AfterPin(out[t]) \in Lamp
      BY <2>1, <2>2, PinFacts DEF Pin, Lamp
    <3>2. t \in Receivers => rbuf[t][1] = "L"
      BY <1>0, <2>1, <3>1, PinFacts DEF Letter, Lamp
    <3>3. pc' = pc /\ val' = val
      BY <1>5, <2>2 DEF WritePin
    <3>4. \A u \in Receivers : Mine(u)'
      BY <1>0, <2>1, <3>1, <3>2, <3>3
    <3>5. (\A u \in Tasks : Idle(u)') /\ Sensor'
      BY <1>0, <2>1, <3>1, <3>3
    <3>6. QED
      BY <3>4, <3>5
  <2>3. CASE AfterPin(out[t]) = "none"
    <3>1. /\ pc' = [pc EXCEPT ![t] = AfterWrites(t)]
          /\ val' = [val EXCEPT ![t] = FALSE]
      BY <1>5, <2>3 DEF WritePin, Goto
    <3>2. AfterWrites(t) # "write" /\ AfterWrites(t) # "test"
      BY DEF AfterWrites
    <3>3. t \in Receivers /\ AfterWrites(t) = "reset" => rbuf[t][1] = "L"
      <4>1. SUFFICES ASSUME t \in Receivers, out[t] = "KETING" PROVE rbuf[t][1] = "L"
        BY DEF AfterWrites
      <4>2. QED
        BY <1>0, <2>1, <4>1, PinFacts DEF Letter
    <3>4. \A u \in Receivers : Mine(u)'
      BY <1>0, <2>1, <3>1, <3>2, <3>3 DEF Letter
    <3>5. (\A u \in Tasks : Idle(u)') /\ Sensor'
      BY <1>0, <2>1, <2>3, <3>1, <3>2
    <3>6. QED
      BY <3>4, <3>5
  <2>4. QED
    BY <2>2, <2>3
<1>6. ASSUME NEW t \in Receivers, ResetLed(t) PROVE Rest'
  BY <1>0, <1>6 DEF ResetLed, Goto
<1>7. ASSUME ReadDht \/ TestPresence \/ TestFire \/ Report PROVE Rest'
  <2>1. /\ rbuf' = rbuf
        /\ \A u \in Receivers : pc'[u] = pc[u] /\ out'[u] = out[u] /\ val'[u] = val[u]
    BY <1>0, <1>7 DEF ReadDht, TestPresence, TestFire, Report, StartWrites, Goto
  <2>2. \/ pc'["task1"] = "write" /\ out'["task1"] \in Lamp \cup {"WARN"}
        \/ pc'["task1"] # "write" /\ val'["task1"] = FALSE /\ out'["task1"] = "none"
    BY <1>0, <1>7 DEF ReadDht, TestPresence, TestFire, Report, StartWrites, Goto, Lamp
  <2>3. QED
    BY <1>0, <2>1, <2>2 DEF Tasks
<1>8. ASSUME UNCHANGED <<rbuf, pc, out, val>> PROVE Rest'
  BY <1>0, <1>8
<1>9. Rest'
  BY <1>1, <1>2, <1>3, <1>4, <1>5, <1>6, <1>7, <1>8
  DEF Next, ReceiverStep, SensorStep, Lose, Sense, Key1, Key2, Press, ctl, vars
<1>10. QED
  BY <1>9, StepBuffers DEF Branch

-----------------------------------------------------------------------------

LEMMA StepLedHeld == IInv /\ [Next]_vars => LedHeld'
<1> SUFFICES ASSUME IInv, [Next]_vars, flag'["L"]
             PROVE  \E t \in Receivers :
                      /\ rbuf'[t][1] = "L"
                      /\ pc'[t] = "test" \/ (pc'[t] = "write" /\ val'[t]) \/ pc'[t] = "reset"
  BY DEF LedHeld
<1> DEFINE Holds(t) == /\ rbuf[t][1] = "L"
                       /\ pc[t] = "test" \/ (pc[t] = "write" /\ val[t]) \/ pc[t] = "reset"
<1>0. TypeOK /\ Branch /\ (flag["L"] => \E t \in Receivers : Holds(t)) /\ "L" \in Letter
  BY DEF IInv, LedHeld, Letter
<1>t. Receivers \subseteq Tasks /\ "task1" \notin Receivers
  BY DEF Receivers, Tasks
<1>1. ASSUME NEW t \in Receivers, Scan(t) PROVE \E u \in Receivers : Holds(u)'
  <2>1. pc[t] = "scan" /\ rbuf' = rbuf /\ val' = val
    BY <1>1 DEF Scan
  <2>2. CASE rbuf[t][1] = "L"
    BY <1>0, <1>1, <1>t, <2>2 DEF Scan, Goto, TypeOK
  <2>3. CASE rbuf[t][1] # "L"
    <3>1. flag["L"]
      BY <1>0, <1>1, <2>3 DEF Scan, Store
    <3>2. PICK w \in Receivers : Holds(w)
      BY <1>0, <3>1
    <3>3. w # t
      BY <2>1, <3>2
    <3>4. pc'[w] = pc[w]
      BY <1>0, <1>1, <1>t, <3>3 DEF Scan, Goto, TypeOK
    <3>5. QED
      BY <2>1, <3>2, <3>4
  <2>4. QED
    BY <2>2, <2>3
<1>2. ASSUME NEW t \in Receivers, ResetLed(t) PROVE FALSE
  BY <1>0, <1>2 DEF ResetLed, TypeOK
<1>3. ASSUME UNCHANGED flag,
             \A w \in Receivers : Holds(w) => Holds(w)'
      PROVE  \E u \in Receivers : Holds(u)'
  BY <1>0, <1>3
<1>4. ASSUME NEW t \in Receivers, Test(t) PROVE \A w \in Receivers : Holds(w) => Holds(w)'
  BY <1>0, <1>4, <1>t DEF Test, Goto, TypeOK
<1>5. ASSUME NEW t \in Tasks, WritePin(t) PROVE \A w \in Receivers : Holds(w) => Holds(w)'
  <2>1. SUFFICES ASSUME t \in Receivers, Holds(t) PROVE Holds(t)'
    BY <1>0, <1>5, <1>t DEF WritePin, Goto, TypeOK
  <2>2. out[t] \in Lamp /\ val[t] /\ t # "task1"
    BY <1>0, <1>5, <1>t, <2>1, PinFacts DEF Branch, Lamp, WritePin
  <2>3. CASE out[t] = "KETING"
    BY <1>0, <1>5, <1>t, <2>1, <2>2, <2>3, PinFacts DEF WritePin, Goto, AfterWrites, TypeOK
  <2>4. CASE out[t] # "KETING"
    <3>1. AfterPin(out[t]) # "none"
      BY <2>2, <2>4, PinFacts DEF Lamp
    <3>2. QED
      BY <1>5, <2>1, <3>1 DEF WritePin
  <2>5. QED
    BY <2>3, <2>4
<1>6. ASSUME NEW t \in Receivers, ReceiveByte(t) \/ ReceiveTimeout(t)
      PROVE  \A w \in Receivers : Holds(w) => Holds(w)'
  BY <1>0, <1>6, <1>t DEF ReceiveByte, ReceiveTimeout, Goto, TypeOK
<1>7. ASSUME ReadDht \/ TestPresence \/ TestFire \/ Report
      PROVE  \A w \in Receivers : Holds(w) => Holds(w)'
  BY <1>0, <1>7, <1>t DEF ReadDht, TestPresence, TestFire, Report, StartWrites, Goto, TypeOK
<1>8. ASSUME UNCHANGED <<rbuf, pc, val>>
      PROVE  \A w \in Receivers : Holds(w) => Holds(w)'
  BY <1>8
<1>9. \/ \E t \in Receivers : Scan(t) \/ ResetLed(t)
      \/ UNCHANGED flag
  BY DEF Next, ReceiverStep, SensorStep, Lose, ReceiveByte, ReceiveTimeout, Test, WritePin,
         ReadDht, TestPresence, TestFire, Report, Sense, Key1, Key2, Press, vars
<1>10. \/ \E t \in Receivers : \/ Scan(t) \/ ResetLed(t) \/ Test(t)
                               \/ ReceiveByte(t) \/ ReceiveTimeout(t)
       \/ \E t \in Tasks : WritePin(t)
       \/ ReadDht \/ TestPresence \/ TestFire \/ Report
       \/ UNCHANGED <<rbuf, pc, val>>
  BY <1>t DEF Next, ReceiverStep, SensorStep, Lose, Sense, Key1, Key2, Press, ctl, vars, Tasks
<1>11. \E u \in Receivers : Holds(u)'
  BY <1>1, <1>2, <1>3, <1>4, <1>5, <1>6, <1>7, <1>8, <1>9, <1>10
<1>12. QED
  BY <1>11

\* A letter that only one line carries is never in the buffer of the other task.
LEMMA OnlyInOneBuffer ==
  ASSUME IInv, NEW l \in Letter, NEW t \in Receivers, OnlySource(t, l),
         NEW u \in Receivers, u # t
  PROVE  rbuf[u][1] # l
<1>1. rbuf[u][1] \in Gone(u) \cup {"NUL"}
  BY DEF IInv, Branch
<1>2. Gone(u) \subseteq Bytes(stream[u])
  <2>1. stream[u] \in Seq(Byte) /\ next[u] \in Nat /\ next[u] <= Len(stream[u])
    BY DEF IInv, TypeOK
  <2>2. 1 .. next[u] \subseteq DOMAIN stream[u]
    BY <2>1
  <2>3. QED
    BY <2>2 DEF Gone, Bytes
<1>3. l \notin Bytes(stream[u]) /\ l # "NUL"
  BY DEF OnlySource, Letter
<1>4. QED
  BY <1>1, <1>2, <1>3

\* The device of such a letter is written by one task, and its flag is set by the
\* same; the other branches can only clear w_flag.
LEMMA OneWriter ==
  ASSUME IInv, [Next]_vars, NEW l \in {"A", "W"}, NEW t \in Receivers, OnlySource(t, l)
  PROVE  /\ \/ pin'[FirstPin(l)] = pin[FirstPin(l)]
            \/ WritePin(t) /\ rbuf[t][1] = l /\ pin'[FirstPin(l)] = val[t]
         /\ \/ flag'[l] = flag[l]
            \/ Scan(t) /\ rbuf[t][1] = l
            \/ l = "W" /\ ~ flag'[l]
<1>0. /\ TypeOK /\ Branch /\ l \in Letter /\ FirstPin(l) \in {"AIR", "WINDOW"}
      /\ FirstPin(l) \in Pin
  BY PinFacts DEF IInv, Letter, Pin
<1>1. \/ pin'[FirstPin(l)] = pin[FirstPin(l)]
      \/ WritePin(t) /\ rbuf[t][1] = l /\ pin'[FirstPin(l)] = val[t]
  <2>1. ASSUME NEW u \in Tasks, WritePin(u), out[u] = FirstPin(l)
        PROVE  u = t /\ rbuf[t][1] = l /\ pin'[FirstPin(l)] = val[t]
    <3>1. pc[u] = "write" /\ out[u] \notin Lamp /\ out[u] # "WARN"
      BY <1>0, <2>1 DEF WritePin, Lamp
    <3>2. u \in Receivers /\ out[u] = FirstPin(rbuf[u][1]) /\ rbuf[u][1] \in Letter
      BY <1>0, <3>1 DEF Branch, Tasks
    <3>3. rbuf[u][1] = l
      BY <2>1, <3>2, PinFacts DEF Letter
    <3>4. u = t
      BY <1>0, <3>2, <3>3, OnlyInOneBuffer
    <3>5. QED
      BY <1>0, <2>1, <3>3, <3>4 DEF WritePin, TypeOK
  <2>2. ASSUME NEW u \in Tasks, WritePin(u), out[u] # FirstPin(l)
        PROVE  pin'[FirstPin(l)] = pin[FirstPin(l)]
    BY <1>0, <2>2 DEF WritePin, TypeOK
  <2>3. ASSUME Key1 \/ Key2 PROVE pin'[FirstPin(l)] = pin[FirstPin(l)]
    <3>1. PICK off \in {{"WARN"}, Lamp} : pin' = [p \in Pin |-> pin[p] /\ p \notin off]
      BY <2>3 DEF Key1, Key2, Press
    <3>2. FirstPin(l) \notin off
      BY <1>0, <3>1 DEF Lamp
    <3>3. pin[FirstPin(l)] \in BOOLEAN /\ pin'[FirstPin(l)] = (pin[FirstPin(l)] /\ TRUE)
      BY <1>0, <3>1, <3>2 DEF TypeOK
    <3>4. QED
      BY <3>3
  <2>4. (\E u \in Tasks : WritePin(u)) \/ Key1 \/ Key2 \/ UNCHANGED pin
    BY DEF Next, ReceiverStep, SensorStep, Lose, ReceiveByte, ReceiveTimeout, Scan, Test,
           ResetLed, ReadDht, TestPresence, TestFire, Report, Sense, vars, Tasks
  <2>5. QED
    BY <2>1, <2>2, <2>3, <2>4
<1>2. \/ flag'[l] = flag[l]
      \/ Scan(t) /\ rbuf[t][1] = l
      \/ l = "W" /\ ~ flag'[l]
  <2>1. ASSUME NEW u \in Receivers, Scan(u)
        PROVE  \/ flag'[l] = flag[l]
               \/ u = t /\ rbuf[t][1] = l
               \/ l = "W" /\ ~ flag'[l]
    <3>1. CASE rbuf[u][1] = l
      BY <1>0, <2>1, <3>1, OnlyInOneBuffer
    <3>2. CASE rbuf[u][1] # l
      <4>1. SUFFICES ASSUME flag' = Store(rbuf[u][1], rbuf[u][2] = "1"),
                            rbuf[u][1] \in Letter
                     PROVE  flag'[l] = flag[l] \/ (l = "W" /\ ~ flag'[l])
        BY <2>1 DEF Scan
      <4>2. flag'[l] = (flag[l] /\ l \notin ClearedBy(rbuf[u][1])) /\ flag[l] \in BOOLEAN
        BY <1>0, <3>2, <4>1 DEF Store, TypeOK
      <4>3. l = "A" => l \notin ClearedBy(rbuf[u][1])
        BY <4>1, ClearFacts DEF Letter
      <4>4. QED
        BY <4>2, <4>3
    <3>3. QED
      BY <3>1, <3>2
  <2>2. ASSUME NEW u \in Receivers, ResetLed(u) PROVE flag'[l] = flag[l]
    BY <1>0, <2>2 DEF ResetLed, TypeOK
  <2>3. (\E u \in Receivers : Scan(u) \/ ResetLed(u)) \/ UNCHANGED flag
    BY DEF Next, ReceiverStep, SensorStep, Lose, ReceiveByte, ReceiveTimeout, Test, WritePin,
           ReadDht, TestPresence, TestFire, Report, Sense, Key1, Key2, Press, vars
  <2>4. QED
    BY <2>1, <2>2, <2>3
<1>3. QED
  BY <1>1, <1>2

-----------------------------------------------------------------------------

FlagKept(l) == flag'[l] = flag[l] \/ (l = "W" /\ ~ flag'[l])
PinKept(l)  == pin'[FirstPin(l)] = pin[FirstPin(l)]
TaskKept(t) == pc'[t] = pc[t] /\ rbuf'[t] = rbuf[t] /\ val'[t] = val[t]

\* What a step is to the branch of such a letter: it leaves it alone, or enters
\* it, or copies its flag, or writes its pin and ends it.
LEMMA BranchStep ==
  ASSUME IInv, [Next]_vars, NEW l \in {"A", "W"}, NEW t \in Receivers, OnlySource(t, l)
  PROVE  \/ TaskKept(t) /\ PinKept(l) /\ FlagKept(l)
         \/ ~ InBranch(t, l) /\ ~ InBranch(t, l)' /\ PinKept(l) /\ FlagKept(l)
         \/ pc'[t] = "test" /\ InBranch(t, l)'
         \/ InBranch(t, l)' /\ pc'[t] = "write" /\ val'[t] = flag[l] /\ flag' = flag
         \/ /\ pc[t] = "write" /\ rbuf[t][1] = l /\ ~ InBranch(t, l)'
            /\ flag' = flag /\ pin'[FirstPin(l)] = val[t]
<1>0. TypeOK /\ Branch
  BY DEF IInv
<1>t. Receivers \subseteq Tasks /\ "task1" \in Tasks /\ t \in Tasks /\ t # "task1"
  BY DEF Receivers, Tasks
<1>1. /\ PinKept(l) \/ (WritePin(t) /\ rbuf[t][1] = l /\ pin'[FirstPin(l)] = val[t])
      /\ FlagKept(l) \/ (Scan(t) /\ rbuf[t][1] = l)
  BY OneWriter DEF PinKept, FlagKept
<1>2. CASE ReceiveByte(t) \/ ReceiveTimeout(t)
  <2>1. pc[t] \in {"byte1", "byte2"} /\ pc'[t] \in {"byte2", "scan"}
    BY <1>0, <1>t, <1>2 DEF ReceiveByte, ReceiveTimeout, Goto, TypeOK
  <2>2. PinKept(l) /\ FlagKept(l)
    BY <1>2 DEF ReceiveByte, ReceiveTimeout, PinKept, FlagKept
  <2>3. QED
    BY <2>1, <2>2 DEF InBranch
<1>3. CASE Scan(t)
  <2>1. CASE rbuf[t][1] = l
    BY <1>0, <1>t, <1>3, <2>1 DEF Scan, Goto, InBranch, Letter, TypeOK
  <2>2. CASE rbuf[t][1] # l
    BY <1>1, <1>3, <2>2 DEF Scan, InBranch, PinKept
  <2>3. QED
    BY <2>1, <2>2
<1>4. CASE Test(t)
  <2>1. pc'[t] = "write" /\ val'[t] = flag[rbuf[t][1]] /\ rbuf' = rbuf /\ flag' = flag
        /\ pin' = pin
    BY <1>0, <1>t, <1>4 DEF Test, Goto, TypeOK
  <2>2. QED
    BY <2>1 DEF InBranch, PinKept, FlagKept
<1>5. CASE WritePin(t)
  <2>1. pc[t] = "write" /\ rbuf' = rbuf /\ flag' = flag
    BY <1>5 DEF WritePin
  <2>2. CASE rbuf[t][1] = l
    <3>1. out[t] = FirstPin(l) /\ out[t] \notin Lamp
      BY <1>0, <2>1, <2>2, PinFacts DEF Branch, Lamp
    <3>2. AfterPin(out[t]) = "none" /\ AfterWrites(t) = "byte1"
      BY <1>t, <3>1, PinFacts DEF AfterWrites, Lamp
    <3>3. pc'[t] = "byte1"
      BY <1>0, <1>t, <1>5, <3>2 DEF WritePin, Goto, TypeOK
    <3>4. pin'[FirstPin(l)] = val[t]
      BY <1>0, <1>5, <3>1, PinFacts DEF WritePin, TypeOK, Pin
    <3>5. QED
      BY <2>1, <2>2, <3>3, <3>4 DEF InBranch
  <2>3. CASE rbuf[t][1] # l
    BY <1>1, <2>1, <2>3 DEF InBranch, FlagKept
  <2>4. QED
    BY <2>2, <2>3
<1>6. CASE ResetLed(t)
  <2>1. rbuf[t][1] = "L" /\ rbuf' = rbuf /\ pin' = pin
    BY <1>0, <1>6 DEF ResetLed, Branch
  <2>2. FlagKept(l)
    <3>1. flag' = [flag EXCEPT !["L"] = FALSE] /\ flag \in [Letter -> BOOLEAN] /\ l # "L"
      BY <1>0, <1>6 DEF ResetLed, TypeOK
    <3>2. flag'[l] = flag[l]
      BY <3>1 DEF Letter
    <3>3. QED
      BY <3>2 DEF FlagKept
  <2>3. QED
    BY <2>1, <2>2 DEF InBranch, PinKept
<1>7. CASE ~ ReceiverStep(t)
  <2>1. PinKept(l) /\ FlagKept(l)
    BY <1>1, <1>7 DEF ReceiverStep
  <2>2. ASSUME NEW u \in Tasks, u # t,
               \/ ReceiveByte(u) \/ ReceiveTimeout(u) \/ Scan(u)
               \/ Test(u) \/ WritePin(u) \/ ResetLed(u)
        PROVE  TaskKept(t)
    <3>1. CASE ReceiveByte(u) \/ ReceiveTimeout(u) \/ Scan(u)
      BY <1>0, <1>t, <2>2, <3>1 DEF ReceiveByte, ReceiveTimeout, Scan, Goto, TaskKept, TypeOK
    <3>2. CASE Test(u) \/ WritePin(u) \/ ResetLed(u)
      BY <1>0, <1>t, <2>2, <3>2 DEF Test, WritePin, ResetLed, Goto, TaskKept, TypeOK
    <3>3. QED
      BY <2>2, <3>1, <3>2
  <2>3. ASSUME ReadDht \/ TestPresence \/ TestFire \/ Report PROVE TaskKept(t)
    BY <1>0, <1>t, <2>3
    DEF ReadDht, TestPresence, TestFire, Report, StartWrites, Goto, TaskKept, TypeOK
  <2>4. ASSUME UNCHANGED <<pc, rbuf, val>> PROVE TaskKept(t)
    BY <2>4 DEF TaskKept
  <2>5. \/ \E u \in Tasks \ {t} : \/ ReceiveByte(u) \/ ReceiveTimeout(u) \/ Scan(u)
                                  \/ Test(u) \/ WritePin(u) \/ ResetLed(u)
        \/ ReadDht \/ TestPresence \/ TestFire \/ Report
        \/ UNCHANGED <<pc, rbuf, val>>
    BY <1>t, <1>7
    DEF Next, ReceiverStep, SensorStep, Lose, Sense, Key1, Key2, Press, ctl, vars
  <2>6. TaskKept(t)
    BY <2>2, <2>3, <2>4, <2>5
  <2>7. QED
    BY <2>1, <2>6
<1>8. QED
  BY <1>2, <1>3, <1>4, <1>5, <1>6, <1>7 DEF ReceiverStep

LEMMA StepAgrees == IInv /\ [Next]_vars => AirAgrees' /\ WindowAgrees'
<1> SUFFICES ASSUME IInv, [Next]_vars
             PROVE  AirAgrees' /\ WindowAgrees'
  OBVIOUS
<1>1. TypeOK /\ AirAgrees /\ WindowAgrees /\ stream' = stream
  BY LineStep DEF IInv
<1>2. AirAgrees'
  <2>1. SUFFICES ASSUME NEW t \in Receivers, OnlySource(t, "A")
                 PROVE  /\ ~ InBranch(t, "A")' => pin'["AIR"] = flag'["A"]
                        /\ pc'[t] = "write" /\ rbuf'[t][1] = "A" => val'[t] = flag'["A"]
    BY <1>1 DEF AirAgrees, OnlySource
  <2>2. /\ ~ InBranch(t, "A") => pin["AIR"] = flag["A"]
        /\ pc[t] = "write" /\ rbuf[t][1] = "A" => val[t] = flag["A"]
    BY <1>1, <2>1 DEF AirAgrees
  <2>3. FlagKept("A") => flag'["A"] = flag["A"]
    BY DEF FlagKept
  <2>4. PinKept("A") => pin'["AIR"] = pin["AIR"]
    BY PinFacts DEF PinKept
  <2>5. CASE TaskKept(t) /\ PinKept("A") /\ FlagKept("A")
    BY <2>2, <2>3, <2>4, <2>5 DEF TaskKept, InBranch
  <2>6. CASE ~ InBranch(t, "A") /\ ~ InBranch(t, "A")' /\ PinKept("A") /\ FlagKept("A")
    BY <2>1, <2>2, <2>3, <2>4, <2>6 DEF InBranch
  <2>7. CASE pc'[t] = "test" /\ InBranch(t, "A")'
    BY <2>7
  <2>8. CASE InBranch(t, "A")' /\ pc'[t] = "write" /\ val'[t] = flag["A"] /\ flag' = flag
    BY <2>8
  <2>9. CASE /\ pc[t] = "write" /\ rbuf[t][1] = "A" /\ ~ InBranch(t, "A")'
             /\ flag' = flag /\ pin'[FirstPin("A")] = val[t]
    BY <2>1, <2>2, <2>9, PinFacts DEF InBranch
  <2>10. QED
    BY <2>1, <2>5, <2>6, <2>7, <2>8, <2>9, BranchStep
<1>3. WindowAgrees'
  <2>1. SUFFICES ASSUME NEW t \in Receivers, OnlySource(t, "W")
                 PROVE  /\ ~ InBranch(t, "W")' => (flag'["W"] => pin'["WINDOW"])
                        /\ pc'[t] = "write" /\ rbuf'[t][1] = "W" => (flag'["W"] => val'[t])
    BY <1>1 DEF WindowAgrees, OnlySource
  <2>2. /\ ~ InBranch(t, "W") => (flag["W"] => pin["WINDOW"])
        /\ pc[t] = "write" /\ rbuf[t][1] = "W" => (flag["W"] => val[t])
    BY <1>1, <2>1 DEF WindowAgrees
  <2>3. FlagKept("W") => (flag'["W"] => flag["W"])
    BY DEF FlagKept
  <2>4. PinKept("W") => pin'["WINDOW"] = pin["WINDOW"]
    BY PinFacts DEF PinKept
  <2>5. CASE TaskKept(t) /\ PinKept("W") /\ FlagKept("W")
    BY <2>2, <2>3, <2>4, <2>5 DEF TaskKept, InBranch
  <2>6. CASE ~ InBranch(t, "W") /\ ~ InBranch(t, "W")' /\ PinKept("W") /\ FlagKept("W")
    BY <2>1, <2>2, <2>3, <2>4, <2>6 DEF InBranch
  <2>7. CASE pc'[t] = "test" /\ InBranch(t, "W")'
    BY <2>7
  <2>8. CASE InBranch(t, "W")' /\ pc'[t] = "write" /\ val'[t] = flag["W"] /\ flag' = flag
    BY <2>8
  <2>9. CASE /\ pc[t] = "write" /\ rbuf[t][1] = "W" /\ ~ InBranch(t, "W")'
             /\ flag' = flag /\ pin'[FirstPin("W")] = val[t]
    BY <2>1, <2>2, <2>9, PinFacts DEF InBranch
  <2>10. QED
    BY <2>1, <2>5, <2>6, <2>7, <2>8, <2>9, BranchStep
<1>4. QED
  BY <1>2, <1>3

-----------------------------------------------------------------------------

\* The evidence of a command is never withdrawn.
LEMMA CommandedGrows ==
  ASSUME IInv, [Next]_vars, NEW l \in Letter, Commanded(l)
  PROVE  Commanded(l)'
<1>1. PICK t \in Receivers : {l, "1"} \subseteq Gone(t)
  BY DEF Commanded, CommandGone
<1>2. Gone(t) \subseteq Gone(t)'
  BY LineStep
<1>3. {l, "1"} \subseteq Gone(t)'
  BY <1>1, <1>2
<1>4. QED
  BY <1>3 DEF Commanded, CommandGone

\* A store that sets the flag read both bytes of the command from its buffer.
LEMMA SetByCommand ==
  ASSUME IInv, [Next]_vars, NEW l \in {"A", "W"}, flag'[l]
  PROVE  Commanded(l)
<1>0. TypeOK /\ Branch /\ (flag[l] => Commanded(l)) /\ l \in Letter /\ l # "L"
  BY DEF IInv, OnByCommand, Letter
<1>1. ASSUME NEW t \in Receivers, Scan(t) PROVE Commanded(l)
  <2>1. CASE flag[l]
    BY <1>0, <2>1
  <2>2. CASE ~ flag[l]
    <3>1. /\ flag' = Store(rbuf[t][1], rbuf[t][2] = "1")
          /\ rbuf[t][1] \in Letter
      BY <1>1, <2>2 DEF Scan
    <3>2. rbuf[t][1] = l /\ rbuf[t][2] = "1"
      BY <1>0, <2>2, <3>1 DEF Store
    <3>3. rbuf[t][1] \in Gone(t) \cup {"NUL"} /\ rbuf[t][2] \in Gone(t) \cup {"NUL"}
      BY <1>0 DEF Branch
    <3>4. {l, "1"} \subseteq Gone(t)
      BY <3>2, <3>3
    <3>5. QED
      BY <3>4 DEF Commanded, CommandGone
  <2>3. QED
    BY <2>1, <2>2
<1>2. ASSUME NEW t \in Receivers, ResetLed(t) PROVE Commanded(l)
  <2>1. flag' = [flag EXCEPT !["L"] = FALSE] /\ flag \in [Letter -> BOOLEAN]
    BY <1>0, <1>2 DEF ResetLed, TypeOK
  <2>2. flag[l]
    BY <1>0, <2>1
  <2>3. QED
    BY <1>0, <2>2
<1>3. CASE UNCHANGED flag
  BY <1>0, <1>3
<1>4. QED
  BY <1>1, <1>2, <1>3
  DEF Next, ReceiverStep, SensorStep, Lose, ReceiveByte, ReceiveTimeout, Test, WritePin,
      ReadDht, TestPresence, TestFire, Report, Sense, Key1, Key2, Press, vars

\* A level comes from a flag, and is written by the task that read it.
LEMMA LevelByCommand ==
  ASSUME IInv, [Next]_vars, NEW l \in {"A", "W"}
  PROVE  \A t \in Tasks : out'[t] = FirstPin(l) /\ val'[t] => Commanded(l)
<1> DEFINE Level(t) == out[t] = FirstPin(l) /\ val[t]
<1>0. /\ TypeOK /\ Branch /\ FirstPin(l) \in {"AIR", "WINDOW"} /\ l \in Letter
      /\ (flag[l] => Commanded(l)) /\ \A t \in Tasks : Level(t) => Commanded(l)
  BY PinFacts DEF IInv, OnByCommand, Letter
<1>t. Receivers \subseteq Tasks /\ "task1" \in Tasks
  BY DEF Receivers, Tasks
<1>1. ASSUME NEW t \in Receivers, Test(t) PROVE \A u \in Tasks : Level(u)' => Commanded(l)
  <2>1. /\ rbuf[t][1] \in Letter
        /\ out' = [out EXCEPT ![t] = FirstPin(rbuf[t][1])]
        /\ val' = [val EXCEPT ![t] = flag[rbuf[t][1]]]
    BY <1>0, <1>1 DEF Test, Branch
  <2>2. TAKE u \in Tasks
  <2>3. CASE u = t
    <3>1. Level(u)' => rbuf[t][1] = l /\ flag[rbuf[t][1]]
      BY <1>0, <1>t, <2>1, <2>3, PinFacts DEF TypeOK, Letter
    <3>2. QED
      BY <1>0, <3>1
  <2>4. CASE u # t
    BY <1>0, <1>t, <2>1, <2>4 DEF TypeOK
  <2>5. QED
    BY <2>3, <2>4
<1>2. ASSUME NEW t \in Tasks, WritePin(t) PROVE \A u \in Tasks : Level(u)' => Commanded(l)
  <2>1. /\ out' = [out EXCEPT ![t] = AfterPin(out[t])]
        /\ val' = val \/ val' = [val EXCEPT ![t] = FALSE]
    BY <1>2 DEF WritePin
  <2>2. AfterPin(out[t]) \notin {"AIR", "WINDOW"}
    <3>1. out[t] \in Pin
      BY <1>0, <1>2, OutType DEF WritePin
    <3>2. QED
      BY <3>1, PinFacts DEF Pin, Lamp
  <2>3. QED
    BY <1>0, <2>1, <2>2 DEF TypeOK
<1>3. ASSUME TestPresence \/ TestFire PROVE \A u \in Tasks : Level(u)' => Commanded(l)
  <2>1. \/ UNCHANGED <<out, val>>
        \/ \E p \in {"CESUO", "WARN"} : /\ out' = [out EXCEPT !["task1"] = p]
                                        /\ val' = [val EXCEPT !["task1"] = TRUE]
    BY <1>3 DEF TestPresence, TestFire, StartWrites
  <2>2. QED
    BY <1>0, <1>t, <2>1 DEF TypeOK
<1>4. ASSUME UNCHANGED <<out, val>> PROVE \A u \in Tasks : Level(u)' => Commanded(l)
  BY <1>0, <1>4
<1>5. \/ (\E t \in Receivers : Test(t)) \/ (\E t \in Tasks : WritePin(t))
      \/ TestPresence \/ TestFire \/ UNCHANGED <<out, val>>
  BY <1>t DEF Next, ReceiverStep, SensorStep, Lose, ReceiveByte, ReceiveTimeout, Scan, ResetLed,
         ReadDht, Report, Sense, Key1, Key2, Press, ctl, vars
<1>6. QED
  BY <1>1, <1>2, <1>3, <1>4, <1>5

LEMMA PinByCommand ==
  ASSUME IInv, [Next]_vars, NEW l \in {"A", "W"}, pin'[FirstPin(l)]
  PROVE  Commanded(l)
<1>0. /\ TypeOK /\ FirstPin(l) \in Pin /\ (pin[FirstPin(l)] => Commanded(l))
      /\ \A t \in Tasks : out[t] = FirstPin(l) /\ val[t] => Commanded(l)
  BY PinFacts DEF IInv, OnByCommand, Letter, Pin
<1>1. ASSUME NEW t \in Tasks, WritePin(t) PROVE Commanded(l)
  BY <1>0, <1>1 DEF WritePin, TypeOK
<1>2. ASSUME Key1 \/ Key2 PROVE Commanded(l)
  BY <1>0, <1>2 DEF Key1, Key2, Press, TypeOK
<1>3. CASE UNCHANGED pin
  BY <1>0, <1>3
<1>4. (\E t \in Tasks : WritePin(t)) \/ Key1 \/ Key2 \/ UNCHANGED pin
  BY DEF Next, ReceiverStep, SensorStep, Lose, ReceiveByte, ReceiveTimeout, Scan, Test,
         ResetLed, ReadDht, TestPresence, TestFire, Report, Sense, vars, Tasks
<1>5. QED
  BY <1>1, <1>2, <1>3, <1>4

LEMMA StepOnByCommand == IInv /\ [Next]_vars => OnByCommand'
<1> SUFFICES ASSUME IInv, [Next]_vars, NEW l \in {"A", "W"}
             PROVE  /\ flag'[l] => Commanded(l)'
                    /\ pin'[FirstPin(l)] => Commanded(l)'
                    /\ \A t \in Tasks : out'[t] = FirstPin(l) /\ val'[t] => Commanded(l)'
  BY DEF OnByCommand
<1>1. Commanded(l) => Commanded(l)'
  BY CommandedGrows DEF Letter
<1>2. QED
  BY <1>1, SetByCommand, LevelByCommand, PinByCommand

-----------------------------------------------------------------------------

\* The strengthening holds in every state of the controller.
THEOREM Invariance == Spec => []IInv
<1>1. IInv /\ [Next]_vars => IInv'
  BY StepTypeOK, StepBranch, StepLedHeld, StepAgrees, StepOnByCommand DEF IInv
<1>2. QED
  BY InitIInv, <1>1, PTL DEF Spec

\* TypeOK: every buffer, flag, pin and label stays within its range.
THEOREM TypeCorrect == Spec => []TypeOK
<1>1. IInv => TypeOK
  BY DEF IInv
<1>2. QED
  BY <1>1, Invariance, PTL

\* OnOnlyByCommand: whatever two peers send and the lines lose, neither the
\* four-byte store of sscanf nor a stale buffer turns the air conditioner on or
\* opens the window without the letter and a 1 having come on one line.
THEOREM NothingTurnsOnByItself == Spec => []OnOnlyByCommand
<1>1. IInv => OnOnlyByCommand
  BY DEF IInv, OnByCommand, OnOnlyByCommand, Commanded
<1>2. QED
  BY <1>1, Invariance, PTL

\* AirReportTrue: with one commanding side, air_flag, which task1 reports, is the
\* level of the pin whenever no A branch is running.
THEOREM AirReportIsTrue == Spec => []AirReportTrue
<1>1. IInv => AirReportTrue
  BY DEF IInv, AirAgrees, AirReportTrue
<1>2. QED
  BY <1>1, Invariance, PTL

\* WindowNotFalselyOpen: with one commanding side, task1 never reports a shut
\* window open.
THEOREM WindowReportIsSafe == Spec => []WindowNotFalselyOpen
<1>1. IInv => WindowNotFalselyOpen
  BY DEF IInv, WindowAgrees, WindowNotFalselyOpen
<1>2. QED
  BY <1>1, Invariance, PTL

\* LedFlagTransient: led_flag outlives no L branch, so that reports taken
\* outside one say that the lamps are off.
THEOREM LedReportIsOff == Spec => []LedFlagTransient
<1>1. IInv => LedFlagTransient
  BY DEF IInv, LedHeld, LedFlagTransient, InBranch
<1>2. QED
  BY <1>1, Invariance, PTL
=============================================================================
