-------------------------- MODULE ZigbeeAppProofs --------------------------
(***************************************************************************)
(* Proofs about module ZigbeeApp, for any nodes, frames and bounds.        *)
(***************************************************************************)
EXTENDS ZigbeeApp, FiniteSetTheorems, TLAPS

Dht(p) == p.cluster = "DHT11"

Message == [event : {"AF"}, packet : Packet] \cup [event : {"ZDO"}, member : BOOLEAN]
             \cup [event : {"KEY"}, key : {"SW_1", "SW_2"}]

Types ==
  /\ rx \in [Nodes -> Seq(Byte)] /\ \A n \in Nodes : Len(rx[n]) <= BufLen
  /\ buf \in [Nodes -> [1 .. BufLen -> Byte]]
  /\ events \in [Nodes -> SUBSET Event]
  /\ timers \in [Nodes -> SUBSET Timer]
  /\ msgs \in [Nodes -> Seq(Message)] /\ \A n \in Nodes : Len(msgs[n]) <= MaxQueue
  /\ joined \in [Nodes -> BOOLEAN]
  /\ grouped \in [Nodes -> BOOLEAN]
  /\ air \subseteq Packet
  /\ out \in [Nodes -> {<<>>} \cup (Byte \X Byte)]
  /\ written \in [Nodes -> Nat] /\ \A n \in Nodes : written[n] <= Len(Frames[n])
  /\ handed \in [Nodes -> Nat] /\ \A n \in Nodes : handed[n] <= Len(Frames[n])
  /\ changes \in [Nodes -> Nat] /\ \A n \in Nodes : changes[n] <= MaxChanges[n]

\* What starts with one of the first w frames of the host of u, or is empty.
Whole(s, u, w) ==
  s = <<>> \/ /\ Len(s) >= 2
              /\ \E i \in 1 .. w : s[1] = Frames[u][i][1] /\ s[2] = Frames[u][i][2]

WholePacket(p, ws) == Dht(p) => p.to = Coordinator /\ Whole(p.data, p.from, ws[p.from])

\* Whatever is on its way from the driver of one node to the port of the
\* coordinator is whole.
Wholes ==
  /\ \A n \in Nodes : Whole(rx[n], n, written[n]) /\ Whole(StringOf(buf[n]), n, written[n])
  /\ \A p \in air : WholePacket(p, written)
  /\ \A n \in Nodes : \A i \in 1 .. Len(msgs[n]) :
       msgs[n][i].event = "AF" =>
         WholePacket(msgs[n][i].packet, written) /\ msgs[n][i].packet.to = n

\* The number of the frame a string starts with, 0 if there is none.
Num(u, s) == NumberOf(u, FirstTwo(s), 0)

\* The frame the resends of a node hold, and the one a resend on its way holds.
Newest(u, b) == Num(u, StringOf(b[u]))
Of(p)        == Num(p.from, p.data)

Queue     == msgs[Coordinator]
Resend(m) == m.event = "AF" /\ Dht(m.packet)

\* With one resend of a node in the air, numbers grow from the frame handed on
\* last over the queue, the air, the buffer and the driver to the frame written last.
Ordered ==
  /\ \A u \in Nodes :
       /\ handed[u] <= Newest(u, buf) /\ Newest(u, buf) <= written[u]
       /\ rx[u] # <<>> => Newest(u, buf) <= Num(u, rx[u])
  /\ \A p \in air : Dht(p) => handed[p.from] <= Of(p) /\ Of(p) <= Newest(p.from, buf)
  /\ \A p, q \in air : Dht(p) /\ Dht(q) /\ p.from = q.from => p = q
  /\ \A i \in 1 .. Len(Queue) : Resend(Queue[i]) =>
       /\ handed[Queue[i].packet.from] <= Of(Queue[i].packet)
       /\ Of(Queue[i].packet) <= Newest(Queue[i].packet.from, buf)
       /\ \A p \in air : Dht(p) /\ p.from = Queue[i].packet.from => Of(Queue[i].packet) <= Of(p)
  /\ \A i, j \in 1 .. Len(Queue) :
       i < j /\ Resend(Queue[i]) /\ Resend(Queue[j]) /\ Queue[i].packet.from = Queue[j].packet.from =>
         Of(Queue[i].packet) <= Of(Queue[j].packet)

IInv == Types /\ ResendAlive /\ Wholes /\ HandsOnFrames /\ (MaxAir = 1 => Ordered)

-----------------------------------------------------------------------------
(* Facts about the data. *)

LEMMA ConcatFacts ==
  ASSUME NEW S, NEW s \in Seq(S), NEW r \in Seq(S)
  PROVE  /\ s \o r \in Seq(S) /\ Len(s \o r) = Len(s) + Len(r)
         /\ \A i \in 1 .. Len(s) + Len(r) : (s \o r)[i] = IF i <= Len(s) THEN s[i] ELSE r[i - Len(s)]
OBVIOUS

\* A frame is two bytes, and neither is NUL or junk.
LEMMA FrameFacts ==
  ASSUME NEW n \in Nodes, NEW k \in 1 .. Len(Frames[n])
  PROVE  /\ Frames[n][k] \in Seq(Byte) /\ Len(Frames[n][k]) = 2
         /\ Frames[n][k] = <<Frames[n][k][1], Frames[n][k][2]>>
         /\ Frames[n][k][1] \in Byte \ {"NUL", "junk"}
         /\ Frames[n][k][2] \in Byte \ {"NUL", "junk"}
<1> DEFINE f == Frames[n][k]
<1>1. f \in STRING \X STRING /\ f \in FramesOf(n)
  BY ZigbeeAssumption DEF FramesOf
<1>2. f[1] \in Byte /\ f[2] \in Byte
  BY <1>1 DEF Byte
<1>3. f = <<f[1], f[2]>>
  BY <1>1
<1>4. f \in Seq(Byte) /\ Len(f) = 2
  <2>1. \A a, b \in Byte : <<a, b>> \in Seq(Byte) /\ Len(<<a, b>>) = 2
    OBVIOUS
  <2>2. <<f[1], f[2]>> \in Seq(Byte) /\ Len(<<f[1], f[2]>>) = 2
    BY <1>2, <2>1
  <2>3. QED
    BY <1>3, <2>2
<1>5. {f[1], f[2]} \cap {"NUL", "junk"} = {}
  BY <1>1, ZigbeeAssumption
<1>6. QED
  BY <1>2, <1>3, <1>4, <1>5

LEMMA TwoElements ==
  ASSUME NEW S, IsFiniteSet(S), NEW x \in S, NEW y \in S, x # y
  PROVE  Cardinality(S) >= 2
<1>1. IsFiniteSet({x}) /\ Cardinality({x}) = 1
  BY FS_Singleton
<1>2. y \notin {x}
  OBVIOUS
<1>3. IsFiniteSet({x} \cup {y}) /\ Cardinality({x} \cup {y}) = 2
  BY <1>1, <1>2, FS_AddElement
<1>4. {x} \cup {y} \subseteq S
  OBVIOUS
<1>5. QED
  BY <1>3, <1>4, FS_Subset, FS_CardinalityType

LEMMA StringFacts ==
  ASSUME NEW b \in [1 .. BufLen -> Byte]
  PROVE  /\ StringOf(b) \in Seq(Byte)
         /\ b[1] = "NUL" => StringOf(b) = <<>>
         /\ b[1] # "NUL" /\ b[2] # "NUL" =>
              Len(StringOf(b)) >= 2 /\ StringOf(b)[1] = b[1] /\ StringOf(b)[2] = b[2]
<1> DEFINE K == {k \in 1 .. BufLen : \A j \in 1 .. k : b[j] # "NUL"}
<1>1. IsFiniteSet(1 .. BufLen) /\ Cardinality(1 .. BufLen) = BufLen
  BY FS_Interval, ZigbeeAssumption
<1>2. IsFiniteSet(K) /\ Cardinality(K) <= BufLen /\ Cardinality(K) \in Nat
  BY <1>1, FS_Subset, FS_CardinalityType
<1>3. StringOf(b) = [i \in 1 .. Cardinality(K) |-> b[i]]
  BY DEF StringOf
<1>4. StringOf(b) \in Seq(Byte) /\ Len(StringOf(b)) = Cardinality(K)
  <2> HIDE DEF K
  <2>1. \A i \in 1 .. Cardinality(K) : b[i] \in Byte
    BY <1>2, ZigbeeAssumption
  <2>2. QED
    BY <1>2, <1>3, <2>1
<1>5. ASSUME b[1] = "NUL" PROVE StringOf(b) = <<>>
  <2>1. K = {}
    BY <1>5
  <2>2. Cardinality(K) = 0
    BY <2>1, FS_EmptySet
  <2>3. QED
    BY <1>4, <2>2
<1>6. ASSUME b[1] # "NUL", b[2] # "NUL" PROVE Cardinality(K) >= 2
  <2>1. {1, 2} \subseteq K
    BY <1>6, ZigbeeAssumption
  <2>2. 1 \in K /\ 2 \in K
    BY <2>1
  <2>3. QED
    <3> HIDE DEF K
    <3>1. \A x, y \in K : x # y => Cardinality(K) >= 2
      BY <1>2, TwoElements
    <3>2. QED
      BY <2>2, <3>1
<1>7. QED
  BY <1>2, <1>3, <1>4, <1>5, <1>6

LEMMA FirstTwoType ==
  ASSUME NEW d \in Seq(Byte)
  PROVE  FirstTwo(d) \in Byte \X Byte
<1>1. FirstTwo(d) = <<FirstTwo(d)[1], FirstTwo(d)[2]>>
  BY DEF FirstTwo
<1>2. FirstTwo(d)[1] \in Byte /\ FirstTwo(d)[2] \in Byte
  BY DEF FirstTwo, Byte
<1>3. QED
  BY <1>1, <1>2

\* A pair that starts a whole string is a frame, and has one number.
LEMMA NumberFacts ==
  ASSUME NEW u \in Nodes, NEW s \in Seq(Byte), Len(s) >= 2,
         NEW i \in 1 .. Len(Frames[u]), s[1] = Frames[u][i][1], s[2] = Frames[u][i][2]
  PROVE  /\ FirstTwo(s) = Frames[u][i]
         /\ \A old : NumberOf(u, FirstTwo(s), old) = i
<1>1. FirstTwo(s) = <<s[1], s[2]>>
  BY DEF FirstTwo
<1>2. FirstTwo(s) = Frames[u][i]
  BY <1>1, FrameFacts
<1>3. DOMAIN Frames[u] = 1 .. Len(Frames[u]) /\ FirstTwo(s) \in FramesOf(u)
  BY <1>2, ZigbeeAssumption DEF FramesOf
<1>4. \A j \in DOMAIN Frames[u] : Frames[u][j] = Frames[u][i] <=> j = i
  BY <1>3, ZigbeeAssumption DEF IsInjective
<1>5. (CHOOSE j \in DOMAIN Frames[u] : Frames[u][j] = FirstTwo(s)) = i
  BY <1>2, <1>3, <1>4
<1>6. QED
  BY <1>2, <1>3, <1>5 DEF NumberOf

LEMMA EmptyFacts ==
  /\ FirstTwo(<<>>) = <<"junk", "junk">>
  /\ \A u \in Nodes : \A old : NumberOf(u, FirstTwo(<<>>), old) = old
<1>1. FirstTwo(<<>>) = <<"junk", "junk">>
  BY DEF FirstTwo
<1>2. \A u \in Nodes : FirstTwo(<<>>) \notin FramesOf(u)
  BY <1>1, FrameFacts, ZigbeeAssumption DEF FramesOf
<1>3. QED
  BY <1>1, <1>2 DEF NumberOf

\* A whole string stays whole.
LEMMA WholeGrows ==
  ASSUME NEW s, NEW u, NEW w \in Nat, NEW x \in Nat, w <= x, Whole(s, u, w)
  PROVE  Whole(s, u, x)
BY DEF Whole

-----------------------------------------------------------------------------
(* Types. *)

LEMMA InitTypes == Init => Types
<1> SUFFICES ASSUME Init PROVE Types
  OBVIOUS
<1> USE ZigbeeAssumption DEF Init
<1>1. "NUL" \in Byte
  BY DEF Byte
<1>2. \A n \in Nodes : Len(Frames[n]) \in Nat /\ MaxChanges[n] \in Nat
  OBVIOUS
<1>3. rx \in [Nodes -> Seq(Byte)] /\ (\A n \in Nodes : Len(rx[n]) <= BufLen)
  OBVIOUS
<1>4. msgs \in [Nodes -> Seq(Message)] /\ (\A n \in Nodes : Len(msgs[n]) <= MaxQueue)
  OBVIOUS
<1>5. QED
  BY <1>1, <1>2, <1>3, <1>4 DEF Types, Event, Timer

LEMMA ReceivedTypes ==
  ASSUME Types, NEW n \in Nodes, NEW m, Received(n, m)
  PROVE  /\ m \in Message /\ msgs' \in [Nodes -> Seq(Message)]
         /\ \A u \in Nodes : Len(msgs'[u]) <= MaxQueue
         /\ events' \in [Nodes -> SUBSET Event]
         /\ Len(msgs[n]) > 0 /\ m = msgs[n][1]
         /\ Len(msgs'[n]) = Len(msgs[n]) - 1
         /\ \A i \in 1 .. Len(msgs'[n]) : msgs'[n][i] = msgs[n][i + 1]
         /\ \A u \in Nodes \ {n} : msgs'[u] = msgs[u]
         /\ \A u \in Nodes : \A e \in Timer : e \in events[u] => e \in events'[u]
         /\ UNCHANGED <<rx, buf, written, changes>>
<1> USE DEF Received, Types, host
<1>1. msgs[n] \in Seq(Message) /\ msgs[n] # <<>> /\ m = Head(msgs[n])
  OBVIOUS
<1>2. Tail(msgs[n]) \in Seq(Message) /\ Len(Tail(msgs[n])) = Len(msgs[n]) - 1
      /\ m \in Message /\ m = msgs[n][1] /\ Len(msgs[n]) > 0
      /\ \A i \in 1 .. Len(Tail(msgs[n])) : Tail(msgs[n])[i] = msgs[n][i + 1]
  BY <1>1
<1>3. msgs'[n] = Tail(msgs[n]) /\ msgs' = [msgs EXCEPT ![n] = Tail(msgs[n])]
  OBVIOUS
<1>4. events' \in [Nodes -> SUBSET Event]
  OBVIOUS
<1>5. \A u \in Nodes : \A e \in Timer : e \in events[u] => e \in events'[u]
  BY DEF Timer
<1>6. msgs' \in [Nodes -> Seq(Message)]
  BY <1>2, <1>3
<1>7. Len(msgs[n]) \in Nat /\ Len(msgs[n]) - 1 <= Len(msgs[n])
  BY <1>1
<1>8. \A u \in Nodes : Len(msgs'[u]) <= MaxQueue
  <2>1. Len(msgs'[n]) <= MaxQueue
    BY <1>2, <1>3, <1>7, ZigbeeAssumption
  <2>2. \A u \in Nodes \ {n} : msgs'[u] = msgs[u]
    BY <1>3
  <2>3. QED
    BY <2>1, <2>2
<1>9. QED
  BY <1>2, <1>3, <1>4, <1>5, <1>6, <1>8

LEMMA PostTypes ==
  ASSUME Types, NEW n \in Nodes, NEW m \in Message, Post(n, m)
  PROVE  /\ msgs' \in [Nodes -> Seq(Message)]
         /\ \A u \in Nodes : Len(msgs'[u]) <= MaxQueue
         /\ events' \in [Nodes -> SUBSET Event]
         /\ Len(msgs'[n]) = Len(msgs[n]) + 1
         /\ \A i \in 1 .. Len(msgs'[n]) :
              msgs'[n][i] = IF i = Len(msgs'[n]) THEN m ELSE msgs[n][i]
         /\ \A u \in Nodes \ {n} : msgs'[u] = msgs[u]
         /\ \A u \in Nodes : \A e \in Timer : e \in events[u] => e \in events'[u]
<1> USE DEF Post, Types
<1>1. msgs[n] \in Seq(Message) /\ Len(msgs[n]) \in Nat /\ MaxQueue \in Nat
  BY ZigbeeAssumption
<1>2. Append(msgs[n], m) \in Seq(Message) /\ Len(Append(msgs[n], m)) = Len(msgs[n]) + 1
      /\ \A i \in 1 .. Len(msgs[n]) + 1 :
           Append(msgs[n], m)[i] = IF i = Len(msgs[n]) + 1 THEN m ELSE msgs[n][i]
  BY <1>1
<1>3. msgs' = [msgs EXCEPT ![n] = Append(msgs[n], m)]
  OBVIOUS
<1>4. events' \in [Nodes -> SUBSET Event]
  BY DEF Event
<1>5. \A u \in Nodes : \A e \in Timer : e \in events[u] => e \in events'[u]
  OBVIOUS
<1>6. QED
  BY <1>1, <1>2, <1>3, <1>4, <1>5

LEMMA TransmitTypes ==
  ASSUME Types, NEW n \in Nodes, NEW packets \in SUBSET Packet, Transmit(n, packets)
  PROVE  air' \subseteq Packet /\ air \subseteq air' /\ air' \subseteq air \cup packets
BY DEF Transmit, Types

LEMMA ResendPacket ==
  ASSUME Types, NEW n \in Nodes
  PROVE  [cluster |-> "DHT11", from |-> n, to |-> Coordinator, data |-> StringOf(buf[n])] \in Packet
BY ZigbeeAssumption, StringFacts DEF Types, Packet

LEMMA StepTypes == Types /\ [Next]_vars => Types'
<1> SUFFICES ASSUME Types, [Next]_vars PROVE Types'
  OBVIOUS
<1> USE DEF host, osal, net, port
<1>1. ASSUME NEW n \in Nodes, HostWrites(n) PROVE Types'
  <2>0. PICK f : f = Frames[n][written[n] + 1]
    OBVIOUS
  <2>8. written[n] \in Nat /\ Len(Frames[n]) \in Nat /\ written[n] < Len(Frames[n])
    BY <1>1, ZigbeeAssumption DEF HostWrites, Types
  <2>1. written[n] + 1 \in 1 .. Len(Frames[n])
    BY <2>8
  <2>2. f \in Seq(Byte) /\ Len(f) = 2
    BY <2>0, <2>1, FrameFacts
  <2>3. rx' = [rx EXCEPT ![n] = rx[n] \o f] /\ written' = [written EXCEPT ![n] = written[n] + 1]
    BY <1>1, <2>0 DEF HostWrites, Types
  <2>4. rx[n] \o f \in Seq(Byte) /\ Len(rx[n] \o f) = Len(rx[n]) + 2
    <3>1. rx[n] \in Seq(Byte)
      BY DEF Types
    <3>2. \A s, r \in Seq(Byte) : s \o r \in Seq(Byte) /\ Len(s \o r) = Len(s) + Len(r)
      BY ConcatFacts
    <3>3. rx[n] \o f \in Seq(Byte) /\ Len(rx[n] \o f) = Len(rx[n]) + Len(f)
      BY <2>2, <3>1, <3>2
    <3>4. QED
      BY <2>2, <3>3
  <2>5. rx' \in [Nodes -> Seq(Byte)] /\ (\A u \in Nodes : Len(rx'[u]) <= BufLen)
    <3>1. Len(rx[n]) + 2 <= BufLen
      BY <1>1 DEF HostWrites
    <3>2. QED
      BY <2>3, <2>4, <3>1 DEF Types
  <2>6. written' \in [Nodes -> Nat] /\ (\A u \in Nodes : written'[u] <= Len(Frames[u]))
    BY <2>1, <2>3 DEF Types
  <2>7. QED
    BY <1>1, <2>5, <2>6 DEF HostWrites, Types
<1>2. ASSUME NEW n \in Nodes, UartCB(n) PROVE Types'
  <2>1. rx' \in [Nodes -> Seq(Byte)] /\ (\A u \in Nodes : Len(rx'[u]) <= BufLen)
    BY <1>2, ZigbeeAssumption DEF UartCB, Types
  <2>2. \A i \in 1 .. BufLen : i <= Len(rx[n]) => rx[n][i] \in Byte
    BY DEF Types
  <2>3. buf' \in [Nodes -> [1 .. BufLen -> Byte]]
    BY <1>2, <2>2 DEF UartCB, Types
  <2>4. QED
    BY <1>2, <2>1, <2>3 DEF UartCB, Types
<1>3. ASSUME NEW n \in Nodes, SendToCoordinator(n) PROVE Types'
  <2>1. air' \subseteq Packet
    BY <1>3, TransmitTypes, ResendPacket DEF SendToCoordinator
  <2>2. events' \in [Nodes -> SUBSET Event] /\ timers' \in [Nodes -> SUBSET Timer]
    BY <1>3 DEF SendToCoordinator, Types, Timer
  <2>3. QED
    BY <1>3, <2>1, <2>2 DEF SendToCoordinator, Types
<1>4. ASSUME NEW n \in Nodes, Discard(n) PROVE Types'
  BY <1>4 DEF Discard, Types
<1>5. ASSUME NEW n \in Nodes, MessageMSGCB(n) PROVE Types'
  <2>1. PICK p : /\ Received(n, [event |-> "AF", packet |-> p])
                 /\ IF p.cluster = "DHT11"
                    THEN /\ out' = [out EXCEPT ![n] = FirstTwo(p.data)]
                         /\ handed' = [handed EXCEPT ![p.from] = NumberOf(p.from, FirstTwo(p.data), @)]
                    ELSE UNCHANGED port
                 /\ UNCHANGED <<timers, joined, grouped, air>>
    BY <1>5 DEF MessageMSGCB
  <2>2. [event |-> "AF", packet |-> p] \in Message
    BY <2>1, ReceivedTypes
  <2>3. p \in Packet
    BY <2>2 DEF Message
  <2>4. FirstTwo(p.data) \in Byte \X Byte /\ p.from \in Nodes
    BY <2>3, FirstTwoType DEF Packet
  <2>5. \A old : NumberOf(p.from, FirstTwo(p.data), old) \in {old} \cup 1 .. Len(Frames[p.from])
    BY <2>4, ZigbeeAssumption DEF NumberOf, FramesOf
  <2>6. out' \in [Nodes -> {<<>>} \cup (Byte \X Byte)]
    BY <2>1, <2>4 DEF Types
  <2>7. handed' \in [Nodes -> Nat] /\ (\A u \in Nodes : handed'[u] <= Len(Frames[u]))
    <3>1. CASE p.cluster = "DHT11"
      <4> DEFINE k == NumberOf(p.from, FirstTwo(p.data), handed[p.from])
      <4>1. handed' = [handed EXCEPT ![p.from] = k]
        BY <2>1, <3>1
      <4>2. k \in Nat /\ k <= Len(Frames[p.from])
        <5>1. k \in {handed[p.from]} \cup 1 .. Len(Frames[p.from])
          BY <2>5
        <5>2. handed[p.from] \in Nat /\ handed[p.from] <= Len(Frames[p.from])
          BY <2>4 DEF Types
        <5>3. Len(Frames[p.from]) \in Nat
          BY <2>4, ZigbeeAssumption
        <5>4. QED
          BY <5>1, <5>2, <5>3
      <4>3. QED
        BY <2>4, <4>1, <4>2 DEF Types
    <3>2. QED
      BY <2>1, <3>1 DEF Types
  <2>8. QED
    BY <2>1, <2>6, <2>7, ReceivedTypes DEF Types
<1>6. ASSUME NEW n \in Nodes, StateChange(n) PROVE Types'
  <2>1. PICK member \in BOOLEAN :
          /\ Received(n, [event |-> "ZDO", member |-> member])
          /\ joined' = [joined EXCEPT ![n] = member]
          /\ timers' = IF member THEN [timers EXCEPT ![n] = @ \cup {"PERIODIC"}] ELSE timers
          /\ UNCHANGED <<grouped, air, port>>
    BY <1>6 DEF StateChange
  <2>2. joined' \in [Nodes -> BOOLEAN]
    BY <2>1, Zenon DEF Types
  <2>3. timers' \in [Nodes -> SUBSET Timer]
    BY <2>1 DEF Types, Timer
  <2>4. QED
    BY <2>1, <2>2, <2>3, ReceivedTypes DEF Types
<1>7. ASSUME NEW n \in Nodes, HandleKeys(n) PROVE Types'
  <2>1. CASE \E k : Received(n, [event |-> "KEY", key |-> k]) /\ UNCHANGED air
                    /\ grouped' = [grouped EXCEPT ![n] = ~ @] /\ UNCHANGED <<timers, joined, port>>
    <3>1. grouped' \in [Nodes -> BOOLEAN]
      BY <2>1, Zenon DEF Types
    <3>2. QED
      BY <2>1, <3>1, ReceivedTypes DEF Types
  <2>2. CASE /\ Received(n, [event |-> "KEY", key |-> "SW_1"])
             /\ Transmit(n, {[cluster |-> "FLASH", from |-> n, to |-> u, data |-> <<>>] :
                               u \in {v \in Nodes \ {n} : grouped[v]}})
             /\ UNCHANGED <<timers, joined, grouped, port>>
    <3>1. {[cluster |-> "FLASH", from |-> n, to |-> u, data |-> <<>>] :
             u \in {v \in Nodes \ {n} : grouped[v]}} \subseteq Packet
      <4>1. <<>> \in Seq(Byte)
        OBVIOUS
      <4>2. \A u \in Nodes : [cluster |-> "FLASH", from |-> n, to |-> u, data |-> <<>>] \in Packet
        BY <4>1 DEF Packet
      <4>3. QED
        BY <4>2
    <3>2. air' \subseteq Packet
      BY <2>2, <3>1, TransmitTypes
    <3>3. QED
      BY <2>2, <3>2, ReceivedTypes DEF Types
  <2>3. QED
    BY <1>7, <2>1, <2>2 DEF HandleKeys
<1>8. ASSUME NEW n \in Nodes, NEW e \in Timer, TimerExpires(n, e) PROVE Types'
  BY <1>8 DEF TimerExpires, Types, Event
<1>9. ASSUME NEW n \in Nodes, Environment(n) PROVE Types'
  <2>1. PICK m \in Message : Post(n, m)
    <3>1. [event |-> "ZDO", member |-> ~ joined[n]] \in Message
      BY Zenon DEF Message
    <3>2. \A k \in {"SW_1", "SW_2"} : [event |-> "KEY", key |-> k] \in Message
      BY DEF Message
    <3>3. QED
      BY <1>9, <3>1, <3>2 DEF Environment
  <2>2. changes' \in [Nodes -> Nat] /\ (\A u \in Nodes : changes'[u] <= MaxChanges[u])
    <3>1. changes' = [changes EXCEPT ![n] = changes[n] + 1] /\ changes[n] < MaxChanges[n]
      BY <1>9 DEF Environment
    <3>2. MaxChanges[n] \in Nat /\ changes[n] \in Nat
      BY ZigbeeAssumption DEF Types
    <3>3. changes[n] + 1 \in Nat /\ changes[n] + 1 <= MaxChanges[n]
      BY <3>1, <3>2
    <3>4. QED
      BY <3>1, <3>3 DEF Types
  <2>3. QED
    BY <1>9, <2>1, <2>2, PostTypes DEF Environment, Types
<1>10. ASSUME NEW p \in air, Deliver(p) PROVE Types'
  <2>1. p \in Packet /\ p.to \in Nodes
    BY DEF Types, Packet
  <2>2. [event |-> "AF", packet |-> p] \in Message
    BY <2>1 DEF Message
  <2>3. QED
    BY <1>10, <2>1, <2>2, PostTypes DEF Deliver, Types
<1>11. ASSUME NEW p \in air, LosePacket(p) PROVE Types'
  BY <1>11 DEF LosePacket, Types
<1>12. CASE UNCHANGED vars
  BY <1>12 DEF vars, Types
<1>13. QED
  BY <1>1, <1>2, <1>3, <1>4, <1>5, <1>6, <1>7, <1>8, <1>9, <1>10, <1>11, <1>12
     DEF Next, ProcessEvent

-----------------------------------------------------------------------------
(* The timer of the resends, and what is whole. *)

LEMMA StepResend == Types /\ ResendAlive /\ [Next]_vars => ResendAlive'
<1> SUFFICES ASSUME Types, ResendAlive, [Next]_vars PROVE ResendAlive'
  OBVIOUS
<1> USE DEF ResendAlive, Types, host, osal, net, port
<1>1. ASSUME NEW n \in Nodes, HostWrites(n) \/ UartCB(n) PROVE ResendAlive'
  BY <1>1 DEF HostWrites, UartCB
<1>2. ASSUME NEW n \in Nodes, SendToCoordinator(n) \/ Discard(n) PROVE ResendAlive'
  <2>1. CASE SendToCoordinator(n)
    <3>1. timers' = [timers EXCEPT ![n] = timers[n] \cup {"TO_COORDINATOR"}]
      BY <2>1 DEF SendToCoordinator
    <3>2. \A u \in Nodes : u # n => events'[u] = events[u]
      BY <2>1 DEF SendToCoordinator
    <3>3. QED
      BY <3>1, <3>2
  <2>2. CASE Discard(n)
    <3>1. "TO_COORDINATOR" \notin events[n]
      BY <2>2 DEF Discard
    <3>2. UNCHANGED timers /\ \A u \in Nodes : u # n => events'[u] = events[u]
      BY <2>2 DEF Discard
    <3>3. QED
      BY <3>1, <3>2
  <2>3. QED
    BY <1>2, <2>1, <2>2
<1>3. ASSUME NEW n \in Nodes, NEW m, Received(n, m),
             \A u \in Nodes : timers[u] \subseteq timers'[u]
      PROVE  ResendAlive'
  <2>1. \A u \in Nodes : "TO_COORDINATOR" \in events[u] => "TO_COORDINATOR" \in events'[u]
    BY <1>3 DEF Received
  <2>2. QED
    BY <1>3, <2>1
<1>4. ASSUME NEW n \in Nodes, MessageMSGCB(n) \/ HandleKeys(n) PROVE ResendAlive'
  BY <1>3, <1>4 DEF MessageMSGCB, HandleKeys
<1>5. ASSUME NEW n \in Nodes, StateChange(n) PROVE ResendAlive'
  <2>1. \A u \in Nodes : timers[u] \subseteq timers'[u]
    BY <1>5 DEF StateChange
  <2>2. QED
    BY <1>3, <1>5, <2>1 DEF StateChange
<1>6. ASSUME NEW n \in Nodes, NEW e \in Timer, TimerExpires(n, e) PROVE ResendAlive'
  BY <1>6 DEF TimerExpires
<1>7. ASSUME NEW n \in Nodes, NEW m, Post(n, m), UNCHANGED timers PROVE ResendAlive'
  BY <1>7 DEF Post
<1>8. ASSUME NEW n \in Nodes, Environment(n) PROVE ResendAlive'
  <2>1. PICK m : Post(n, m)
    BY <1>8 DEF Environment
  <2>2. UNCHANGED timers
    BY <1>8 DEF Environment
  <2>3. QED
    BY <1>7, <2>1, <2>2
<1>9. ASSUME NEW p \in air, Deliver(p) \/ LosePacket(p) PROVE ResendAlive'
  <2>1. p.to \in Nodes
    BY DEF Packet
  <2>2. QED
    BY <1>7, <1>9, <2>1 DEF Deliver, LosePacket
<1>10. CASE UNCHANGED vars
  BY <1>10 DEF vars
<1>11. QED
  BY <1>1, <1>2, <1>4, <1>5, <1>6, <1>8, <1>9, <1>10 DEF Next, ProcessEvent

LEMMA InitWholes == Init => Wholes /\ HandsOnFrames
<1> SUFFICES ASSUME Init PROVE Wholes /\ HandsOnFrames
  OBVIOUS
<1> USE ZigbeeAssumption DEF Init
<1>1. \A n \in Nodes : buf[n] \in [1 .. BufLen -> Byte] /\ buf[n][1] = "NUL"
  BY DEF Byte
<1>2. \A n \in Nodes : StringOf(buf[n]) = <<>>
  BY <1>1, StringFacts
<1>3. \A n \in Nodes : Whole(rx[n], n, written[n]) /\ Whole(StringOf(buf[n]), n, written[n])
  BY <1>2 DEF Whole
<1>4. \A n \in Nodes : 1 .. Len(msgs[n]) = {}
  OBVIOUS
<1>8. air = {}
  OBVIOUS
<1>5. Wholes
  BY ONLY <1>3, <1>4, <1>8 DEF Wholes
<1>6. HandsOnFrames
  BY DEF HandsOnFrames
<1>7. QED
  BY <1>5, <1>6

\* A message that is taken leaves a whole queue.
LEMMA ReceivedWholes ==
  ASSUME Types, Wholes, NEW n \in Nodes, NEW m, Received(n, m),
         \A p \in air' : p \in air \/ ~ Dht(p)
  PROVE  Wholes'
<1>1. \A u \in Nodes : \A i \in 1 .. Len(msgs'[u]) : \E j \in 1 .. Len(msgs[u]) :
        msgs'[u][i] = msgs[u][j]
  <2>1. ASSUME NEW i \in 1 .. Len(msgs'[n])
        PROVE  i + 1 \in 1 .. Len(msgs[n]) /\ msgs'[n][i] = msgs[n][i + 1]
    <3>1. Len(msgs[n]) \in Nat
      BY DEF Types
    <3>2. QED
      BY <3>1, ReceivedTypes
  <2>2. QED
    BY <2>1, ReceivedTypes
<1>2. UNCHANGED <<rx, buf, written>>
  BY ReceivedTypes
<1>3. \A p \in air' : WholePacket(p, written)
  BY DEF Wholes, WholePacket
<1>4. \A u \in Nodes : \A i \in 1 .. Len(msgs'[u]) :
        msgs'[u][i].event = "AF" =>
          WholePacket(msgs'[u][i].packet, written) /\ msgs'[u][i].packet.to = u
  BY <1>1 DEF Wholes
<1>5. QED
  BY ONLY Wholes, <1>2, <1>3, <1>4 DEF Wholes

LEMMA PostWholes ==
  ASSUME Types, Wholes, NEW n \in Nodes, NEW m \in Message, Post(n, m),
         m.event = "AF" => WholePacket(m.packet, written) /\ m.packet.to = n,
         air' \subseteq air, UNCHANGED <<rx, buf, written>>
  PROVE  Wholes'
<1>3. \A u \in Nodes : \A i \in 1 .. Len(msgs'[u]) :
        (msgs'[u][i] = m /\ u = n) \/ \E j \in 1 .. Len(msgs[u]) : msgs'[u][i] = msgs[u][j]
  <2>1. ASSUME NEW i \in 1 .. Len(msgs'[n]), i # Len(msgs'[n])
        PROVE  i \in 1 .. Len(msgs[n]) /\ msgs'[n][i] = msgs[n][i]
    <3>1. Len(msgs[n]) \in Nat
      BY DEF Types
    <3>2. QED
      BY <2>1, <3>1, PostTypes
  <2>2. ASSUME NEW i \in 1 .. Len(msgs'[n]), i = Len(msgs'[n]) PROVE msgs'[n][i] = m
    BY <2>2, PostTypes
  <2>3. \A u \in Nodes \ {n} : msgs'[u] = msgs[u]
    BY PostTypes
  <2>4. QED
    BY <2>1, <2>2, <2>3
<1>4. \A u \in Nodes : \A i \in 1 .. Len(msgs'[u]) :
        msgs'[u][i].event = "AF" =>
          WholePacket(msgs'[u][i].packet, written) /\ msgs'[u][i].packet.to = u
  BY <1>3 DEF Wholes
<1>5. QED
  BY ONLY Wholes, <1>4, air' \subseteq air, UNCHANGED <<rx, buf, written>> DEF Wholes

LEMMA HostWritesWholes ==
  ASSUME Types, Wholes, NEW n \in Nodes, HostWrites(n)
  PROVE  Wholes'
<1> USE DEF HostWrites, host, osal, net, port
<1>0. PICK f : f = Frames[n][written[n] + 1]
  OBVIOUS
<1>1. written[n] + 1 \in 1 .. Len(Frames[n]) /\ written[n] \in Nat
  <2>1. written[n] \in Nat /\ Len(Frames[n]) \in Nat /\ written[n] < Len(Frames[n])
    BY ZigbeeAssumption DEF Types
  <2>2. QED
    BY <2>1
<1>2. f \in Seq(Byte) /\ Len(f) = 2
  BY <1>0, <1>1, FrameFacts
<1>3. rx' = [rx EXCEPT ![n] = rx[n] \o f] /\ written' = [written EXCEPT ![n] = written[n] + 1]
  BY <1>0 DEF Types
<1>4. \A u \in Nodes : written[u] \in Nat /\ written'[u] \in Nat /\ written[u] <= written'[u]
  BY <1>3 DEF Types
<1>5. \A u \in Nodes : \A s : Whole(s, u, written[u]) => Whole(s, u, written'[u])
  BY <1>4, WholeGrows
<1>6. Whole(rx'[n], n, written'[n])
  <2>1. rx[n] \in Seq(Byte) /\ rx'[n] = rx[n] \o f
    BY <1>3 DEF Types
  <2>2. CASE rx[n] = <<>>
    <3>1. rx'[n] = f
      BY <1>2, <2>1, <2>2
    <3>2. written'[n] = written[n] + 1 /\ written'[n] \in 1 .. written'[n]
      BY <1>1, <1>3 DEF Types
    <3>3. f[1] = Frames[n][written'[n]][1] /\ f[2] = Frames[n][written'[n]][2]
      BY <1>0, <3>2
    <3>4. \E i \in 1 .. written'[n] : f[1] = Frames[n][i][1] /\ f[2] = Frames[n][i][2]
      BY <3>2, <3>3
    <3>5. Len(f) >= 2
      BY <1>2
    <3>6. Whole(f, n, written'[n])
      BY ONLY <3>4, <3>5 DEF Whole
    <3>7. QED
      BY <3>1, <3>6
  <2>3. CASE rx[n] # <<>>
    <3>1. Whole(rx[n], n, written'[n]) /\ Len(rx[n]) >= 2
      <4>1. Whole(rx[n], n, written[n])
        BY DEF Wholes
      <4>2. Len(rx[n]) >= 2
        BY ONLY <2>3, <4>1 DEF Whole
      <4>3. QED
        BY ONLY <1>5, <4>1, <4>2
    <3>2. \A s, r \in Seq(Byte) : /\ Len(s \o r) = Len(s) + Len(r)
                                 /\ \A i \in 1 .. Len(s) : (s \o r)[i] = s[i]
      OBVIOUS
    <3>3. Len(rx'[n]) >= 2 /\ rx'[n][1] = rx[n][1] /\ rx'[n][2] = rx[n][2]
      <4>1. Len(rx'[n]) = Len(rx[n]) + 2 /\ Len(rx[n]) \in Nat
        <5>1. Len(rx[n] \o f) = Len(rx[n]) + Len(f)
          BY <1>2, <2>1, <3>2
        <5>2. QED
          BY <1>2, <2>1, <5>1
      <4>2. \A i \in 1 .. Len(rx[n]) : rx'[n][i] = rx[n][i]
        BY <1>2, <2>1, <3>2
      <4>3. QED
        BY <3>1, <4>1, <4>2
    <3>4. QED
      BY <2>3, <3>1, <3>3 DEF Whole
  <2>4. QED
    BY <2>2, <2>3
<1>7. \A u \in Nodes : Whole(rx'[u], u, written'[u]) /\ Whole(StringOf(buf'[u]), u, written'[u])
  <2>1. \A u \in Nodes \ {n} : rx'[u] = rx[u]
    BY <1>3 DEF Types
  <2>2. UNCHANGED buf
    OBVIOUS
  <2>3. QED
    BY <1>5, <1>6, <2>1, <2>2 DEF Wholes
<1>8. \A p \in Packet : WholePacket(p, written) => WholePacket(p, written')
  BY <1>5 DEF WholePacket, Packet, Dht
<1>9. \A p \in air' : WholePacket(p, written')
  BY <1>8 DEF Wholes, Types
<1>10. \A u \in Nodes : \A i \in 1 .. Len(msgs'[u]) :
         msgs'[u][i].event = "AF" =>
           WholePacket(msgs'[u][i].packet, written') /\ msgs'[u][i].packet.to = u
  <2>1. \A u \in Nodes : \A i \in 1 .. Len(msgs[u]) :
          msgs[u][i].event = "AF" => msgs[u][i].packet \in Packet
    <3>1. \A m \in Message : m.event = "AF" => m.packet \in Packet
      BY DEF Message
    <3>2. \A u \in Nodes : \A i \in 1 .. Len(msgs[u]) : msgs[u][i] \in Message
      BY DEF Types
    <3>3. QED
      BY <3>1, <3>2
  <2>2. UNCHANGED msgs
    OBVIOUS
  <2>3. QED
    BY ONLY Wholes, <1>8, <2>1, <2>2 DEF Wholes
<1>11. QED
  BY ONLY <1>7, <1>9, <1>10 DEF Wholes

LEMMA UartCBWholes ==
  ASSUME Types, Wholes, NEW n \in Nodes, UartCB(n)
  PROVE  /\ Wholes'
         /\ Len(rx[n]) >= 2 /\ Len(StringOf(buf'[n])) >= 2
         /\ StringOf(buf'[n])[1] = rx[n][1] /\ StringOf(buf'[n])[2] = rx[n][2]
<1> USE DEF UartCB, host, osal, net, port
<1>1. rx[n] \in Seq(Byte) /\ rx[n] # <<>> /\ Len(rx[n]) \in Nat
  BY DEF Types
<1>2. PICK i \in 1 .. written[n] : /\ rx[n][1] = Frames[n][i][1] /\ rx[n][2] = Frames[n][i][2]
                                   /\ Len(rx[n]) >= 2
  BY <1>1 DEF Wholes, Whole
<1>3. i \in 1 .. Len(Frames[n])
  BY ZigbeeAssumption DEF Types
<1>4. rx[n][1] # "NUL" /\ rx[n][2] # "NUL"
  BY <1>2, <1>3, FrameFacts
<1>5. buf'[n] = [k \in 1 .. BufLen |-> IF k <= Len(rx[n]) THEN rx[n][k] ELSE buf[n][k]]
  BY DEF Types
<1>6. buf'[n][1] = rx[n][1] /\ buf'[n][2] = rx[n][2] /\ buf'[n] \in [1 .. BufLen -> Byte]
  <2>1. buf'[n][1] = rx[n][1] /\ buf'[n][2] = rx[n][2]
    BY <1>1, <1>2, <1>5, ZigbeeAssumption
  <2>2. \A k \in 1 .. BufLen : k <= Len(rx[n]) => rx[n][k] \in Byte
    BY <1>1
  <2>3. QED
    BY <1>5, <2>1, <2>2 DEF Types
<1>7. /\ Len(StringOf(buf'[n])) >= 2
      /\ StringOf(buf'[n])[1] = rx[n][1] /\ StringOf(buf'[n])[2] = rx[n][2]
  BY <1>4, <1>6, StringFacts
<1>10. Whole(rx'[n], n, written[n]) /\ Whole(StringOf(buf'[n]), n, written[n])
  <2>1. rx'[n] = <<>>
    BY DEF Types
  <2>2. QED
    BY <1>2, <1>7, <2>1 DEF Whole
<1>11. \A u \in Nodes \ {n} : rx'[u] = rx[u] /\ buf'[u] = buf[u]
  BY DEF Types
<1>12. \A u \in Nodes : Whole(rx'[u], u, written'[u]) /\ Whole(StringOf(buf'[u]), u, written'[u])
  BY <1>10, <1>11 DEF Wholes
<1>13. Wholes'
  <2>1. UNCHANGED <<air, msgs, written>>
    OBVIOUS
  <2>2. QED
    BY ONLY Wholes, <1>12, <2>1 DEF Wholes
<1>14. QED
  BY <1>2, <1>7, <1>13

LEMMA StepWholes == Types /\ Wholes /\ [Next]_vars => Wholes'
<1> SUFFICES ASSUME Types, Wholes, [Next]_vars PROVE Wholes'
  OBVIOUS
<1> USE DEF host, osal, net, port
<1>0. ASSUME UNCHANGED <<rx, buf, written, msgs>>, \A p \in air' : p \in air \/ WholePacket(p, written)
      PROVE  Wholes'
  BY ONLY Wholes, <1>0 DEF Wholes
<1>1. ASSUME NEW n \in Nodes, HostWrites(n) \/ UartCB(n) PROVE Wholes'
  BY <1>1, HostWritesWholes, UartCBWholes
<1>2. ASSUME NEW n \in Nodes, SendToCoordinator(n) PROVE Wholes'
  <2> DEFINE r == [cluster |-> "DHT11", from |-> n, to |-> Coordinator, data |-> StringOf(buf[n])]
  <2>1. WholePacket(r, written)
    BY DEF Wholes, WholePacket
  <2>2. \A p \in air' : p \in air \/ p = r
    BY <1>2, ResendPacket, TransmitTypes DEF SendToCoordinator
  <2>3. QED
    BY <1>0, <1>2, <2>1, <2>2 DEF SendToCoordinator
<1>3. ASSUME NEW n \in Nodes, NEW e \in Timer, Discard(n) \/ TimerExpires(n, e) PROVE Wholes'
  BY <1>0, <1>3 DEF Discard, TimerExpires
<1>4. ASSUME NEW n \in Nodes, MessageMSGCB(n) \/ StateChange(n) PROVE Wholes'
  BY <1>4, ReceivedWholes DEF MessageMSGCB, StateChange
<1>5. ASSUME NEW n \in Nodes, HandleKeys(n) PROVE Wholes'
  <2>1. \A p \in air' : p \in air \/ p.cluster = "FLASH"
    BY <1>5 DEF HandleKeys, Transmit
  <2>2. QED
    BY <1>5, <2>1, ReceivedWholes DEF HandleKeys, Dht
<1>6. ASSUME NEW n \in Nodes, Environment(n) PROVE Wholes'
  <2>1. PICK m \in Message : Post(n, m) /\ m.event # "AF"
    <3>1. [event |-> "ZDO", member |-> ~ joined[n]] \in Message
      BY Zenon DEF Message
    <3>2. \A k \in {"SW_1", "SW_2"} : [event |-> "KEY", key |-> k] \in Message
      BY DEF Message
    <3>3. QED
      BY <1>6, <3>1, <3>2 DEF Environment
  <2>2. QED
    BY <1>6, <2>1, PostWholes DEF Environment
<1>7. ASSUME NEW p \in air, Deliver(p) PROVE Wholes'
  <2>1. p \in Packet /\ p.to \in Nodes /\ WholePacket(p, written)
    BY DEF Types, Packet, Wholes
  <2>2. [event |-> "AF", packet |-> p] \in Message
    BY <2>1 DEF Message
  <2>3. QED
    BY <1>7, <2>1, <2>2, PostWholes DEF Deliver
<1>8. ASSUME NEW p \in air, LosePacket(p) PROVE Wholes'
  BY <1>0, <1>8 DEF LosePacket
<1>9. CASE UNCHANGED vars
  BY <1>0, <1>9 DEF vars
<1>10. QED
  BY <1>1, <1>2, <1>3, <1>4, <1>5, <1>6, <1>7, <1>8, <1>9 DEF Next, ProcessEvent, Timer

\* A message of the air that is taken is whole and goes to the coordinator.
LEMMA TakenPacket ==
  ASSUME Types, Wholes, NEW n \in Nodes, MessageMSGCB(n)
  PROVE  \E p \in Packet :
           /\ Received(n, [event |-> "AF", packet |-> p])
           /\ IF p.cluster = "DHT11"
              THEN /\ out' = [out EXCEPT ![n] = FirstTwo(p.data)]
                   /\ handed' = [handed EXCEPT ![p.from] = NumberOf(p.from, FirstTwo(p.data), @)]
              ELSE UNCHANGED port
           /\ UNCHANGED air
           /\ Dht(p) => n = Coordinator /\ Whole(p.data, p.from, written[p.from])
<1>1. PICK p : /\ Received(n, [event |-> "AF", packet |-> p])
               /\ IF p.cluster = "DHT11"
                  THEN /\ out' = [out EXCEPT ![n] = FirstTwo(p.data)]
                       /\ handed' = [handed EXCEPT ![p.from] = NumberOf(p.from, FirstTwo(p.data), @)]
                  ELSE UNCHANGED port
               /\ UNCHANGED air
  BY DEF MessageMSGCB
<1>2. PICK m : m = [event |-> "AF", packet |-> p]
  OBVIOUS
<1>3. m \in Message /\ Len(msgs[n]) > 0 /\ m = msgs[n][1]
  BY <1>1, <1>2, ReceivedTypes
<1>4. p \in Packet
  BY <1>2, <1>3 DEF Message
<1>5. 1 \in 1 .. Len(msgs[n])
  <2>1. Len(msgs[n]) \in Nat
    BY DEF Types
  <2>2. QED
    BY <1>3, <2>1
<1>6. WholePacket(p, written) /\ p.to = n
  BY <1>2, <1>3, <1>5 DEF Wholes
<1>7. QED
  BY <1>1, <1>4, <1>6 DEF WholePacket

LEMMA NumType == \A u \in Nodes : \A s : Num(u, s) \in Nat
BY ZigbeeAssumption DEF Num, NumberOf, FramesOf

LEMMA NumWhole ==
  ASSUME NEW u \in Nodes, NEW s \in Seq(Byte), NEW w \in Nat, w <= Len(Frames[u]), Whole(s, u, w)
  PROVE  /\ Num(u, s) <= w
         /\ s = <<>> => Num(u, s) = 0 /\ FirstTwo(s) = <<"junk", "junk">>
                          /\ \A old : NumberOf(u, FirstTwo(s), old) = old
         /\ s # <<>> => /\ Num(u, s) \in 1 .. w /\ FirstTwo(s) = Frames[u][Num(u, s)]
                        /\ \A old : NumberOf(u, FirstTwo(s), old) = Num(u, s)
<1>1. CASE s = <<>>
  BY <1>1, EmptyFacts DEF Num
<1>2. CASE s # <<>>
  <2>1. PICK i \in 1 .. w : s[1] = Frames[u][i][1] /\ s[2] = Frames[u][i][2] /\ Len(s) >= 2
    BY <1>2 DEF Whole
  <2>2. i \in 1 .. Len(Frames[u])
    BY ZigbeeAssumption
  <2>3. FirstTwo(s) = Frames[u][i] /\ \A old : NumberOf(u, FirstTwo(s), old) = i
    BY <2>1, <2>2, NumberFacts
  <2>4. QED
    BY <1>2, <2>3 DEF Num
<1>3. QED
  BY <1>1, <1>2

LEMMA StepHands == Types /\ Wholes /\ HandsOnFrames /\ [Next]_vars => HandsOnFrames'
<1> SUFFICES ASSUME Types, Wholes, HandsOnFrames, [Next]_vars PROVE HandsOnFrames'
  OBVIOUS
<1> USE DEF host, osal, net, port
<1>1. ASSUME UNCHANGED out, \A u \in Nodes : written'[u] \in Nat /\ written[u] <= written'[u]
      PROVE  HandsOnFrames'
  <2>1. \A u \in Nodes : 1 .. written[u] \subseteq 1 .. written'[u]
    BY <1>1 DEF Types
  <2>2. QED
    BY <1>1, <2>1 DEF HandsOnFrames
<1>2. UNCHANGED written => \A u \in Nodes : written'[u] \in Nat /\ written[u] <= written'[u]
  BY DEF Types
<1>3. ASSUME NEW n \in Nodes, HostWrites(n) PROVE HandsOnFrames'
  <2>1. \A u \in Nodes : written'[u] \in Nat /\ written[u] <= written'[u]
    BY <1>3 DEF HostWrites, Types
  <2>2. QED
    BY <1>1, <1>3, <2>1 DEF HostWrites
<1>4. ASSUME NEW n \in Nodes, MessageMSGCB(n) PROVE HandsOnFrames'
  <2>1. PICK p \in Packet :
           /\ Received(n, [event |-> "AF", packet |-> p])
           /\ IF p.cluster = "DHT11"
              THEN /\ out' = [out EXCEPT ![n] = FirstTwo(p.data)]
                   /\ handed' = [handed EXCEPT ![p.from] = NumberOf(p.from, FirstTwo(p.data), @)]
              ELSE UNCHANGED port
           /\ Dht(p) => Whole(p.data, p.from, written[p.from])
    BY <1>4, TakenPacket
  <2>2. UNCHANGED written
    BY <2>1, ReceivedTypes
  <2>3. CASE Dht(p)
    <3>1. /\ p.from \in Nodes /\ p.data \in Seq(Byte)
          /\ written[p.from] \in Nat /\ written[p.from] <= Len(Frames[p.from])
      BY DEF Packet, Types
    <3>2. FirstTwo(p.data) = <<"junk", "junk">>
          \/ \E i \in 1 .. written[p.from] : FirstTwo(p.data) = Frames[p.from][i]
      BY <2>1, <2>3, <3>1, NumWhole
    <3>3. out' = [out EXCEPT ![n] = FirstTwo(p.data)]
      BY <2>1, <2>3 DEF Dht
    <3>4. out'[n] = FirstTwo(p.data) /\ \A v \in Nodes : v # n => out'[v] = out[v]
      BY <3>3 DEF Types
    <3>5. ASSUME NEW v \in Nodes, out'[v] # <<>>, out'[v] # <<"junk", "junk">>
          PROVE  \E u \in Nodes : \E i \in 1 .. written[u] : out'[v] = Frames[u][i]
      <4>1. CASE v = n
        BY <3>1, <3>2, <3>4, <3>5, <4>1
      <4>2. CASE v # n
        BY <3>4, <3>5, <4>2 DEF HandsOnFrames
      <4>3. QED
        BY <4>1, <4>2
    <3>6. QED
      BY <2>2, <3>5 DEF HandsOnFrames
  <2>4. CASE ~ Dht(p)
    BY <1>1, <1>2, <2>1, <2>2, <2>4 DEF Dht
  <2>5. QED
    BY <2>3, <2>4
<1>5. ASSUME NEW n \in Nodes, UartCB(n) \/ SendToCoordinator(n) \/ Discard(n) \/ Environment(n)
      PROVE  HandsOnFrames'
  BY <1>1, <1>2, <1>5 DEF UartCB, SendToCoordinator, Discard, Environment
<1>10. ASSUME NEW n \in Nodes, NEW e \in Timer, TimerExpires(n, e) PROVE HandsOnFrames'
  BY <1>1, <1>2, <1>10 DEF TimerExpires
<1>6. ASSUME NEW n \in Nodes, StateChange(n) \/ HandleKeys(n) PROVE HandsOnFrames'
  BY <1>1, <1>2, <1>6 DEF StateChange, HandleKeys, Received
<1>7. ASSUME NEW p \in air, Deliver(p) \/ LosePacket(p) PROVE HandsOnFrames'
  BY <1>1, <1>2, <1>7 DEF Deliver, LosePacket
<1>8. CASE UNCHANGED vars
  BY <1>1, <1>2, <1>8 DEF vars
<1>9. QED
  BY <1>3, <1>4, <1>5, <1>6, <1>7, <1>8, <1>10 DEF Next, ProcessEvent

-----------------------------------------------------------------------------
(* The order of the resends. *)

LEMMA InitOrdered == Init => Ordered
<1> SUFFICES ASSUME Init PROVE Ordered
  OBVIOUS
<1>1. \A n \in Nodes : buf[n] \in [1 .. BufLen -> Byte] /\ buf[n][1] = "NUL"
  BY ZigbeeAssumption DEF Init, Byte
<1>2. \A n \in Nodes : StringOf(buf[n]) = <<>>
  BY <1>1, StringFacts
<1>3. \A n \in Nodes : Newest(n, buf) = 0
  BY <1>2, EmptyFacts DEF Newest, Num
<1>4. /\ \A n \in Nodes : rx[n] = <<>> /\ written[n] = 0 /\ handed[n] = 0
      /\ air = {} /\ Queue = <<>>
  BY ZigbeeAssumption DEF Init, Queue
<1>5. 1 .. Len(Queue) = {}
  BY <1>4
<1>6. QED
  BY ONLY <1>3, <1>4, <1>5 DEF Ordered

\* What the order rests on, when messages are taken and packets lost: the queue
\* moves up by k, and only a message that is taken is handed on.
LEMMA OrderedShrinks ==
  ASSUME Types, Ordered, NEW k \in 0 .. 1, UNCHANGED <<rx, buf, written>>,
         \A p \in air' : Dht(p) => p \in air,
         \A i \in 1 .. Len(Queue') : Resend(Queue'[i]) =>
           i + k \in 1 .. Len(Queue) /\ Queue'[i] = Queue[i + k],
         \A u \in Nodes :
           \/ handed'[u] = handed[u]
           \/ /\ k = 1 /\ 1 \in 1 .. Len(Queue) /\ Resend(Queue[1])
              /\ Queue[1].packet.from = u /\ handed'[u] = Of(Queue[1].packet)
  PROVE  Ordered'
<1>1. \A p \in air : p.from \in Nodes
  BY DEF Types, Packet
<1>2. \A i \in 1 .. Len(Queue) : Resend(Queue[i]) => Queue[i].packet.from \in Nodes
  <2>1. \A m \in Message : Resend(m) => m.packet.from \in Nodes
    BY DEF Message, Packet, Resend
  <2>2. \A i \in 1 .. Len(Queue) : Queue[i] \in Message
    BY ZigbeeAssumption DEF Types, Queue
  <2>3. QED
    BY <2>1, <2>2
<1>3. /\ \A u \in Nodes : Newest(u, buf) \in Nat /\ handed[u] \in Nat
      /\ \A p \in air : Of(p) \in Nat
      /\ \A i \in 1 .. Len(Queue) : Resend(Queue[i]) => Of(Queue[i].packet) \in Nat
  BY <1>1, <1>2, NumType DEF Newest, Of, Types
<1>4. \A i \in 1 .. Len(Queue') : Resend(Queue'[i]) => Queue'[i].packet.from \in Nodes
  BY <1>2
<1>5. \A u \in Nodes : /\ handed'[u] <= Newest(u, buf) /\ handed'[u] \in Nat
                       /\ \A p \in air' : Dht(p) /\ p.from = u => handed'[u] <= Of(p)
  <2>1. SUFFICES ASSUME NEW u \in Nodes
                 PROVE  /\ handed'[u] <= Newest(u, buf) /\ handed'[u] \in Nat
                        /\ \A p \in air' : Dht(p) /\ p.from = u => handed'[u] <= Of(p)
    OBVIOUS
  <2>2. CASE handed'[u] = handed[u]
    BY <1>3, <2>2 DEF Ordered
  <2>3. CASE /\ 1 \in 1 .. Len(Queue) /\ Resend(Queue[1])
             /\ Queue[1].packet.from = u /\ handed'[u] = Of(Queue[1].packet)
    BY <1>3, <2>3 DEF Ordered
  <2>4. QED
    BY <2>2, <2>3
<1>6. \A i \in 1 .. Len(Queue') : Resend(Queue'[i]) =>
        /\ handed'[Queue'[i].packet.from] <= Of(Queue'[i].packet)
        /\ Of(Queue'[i].packet) <= Newest(Queue'[i].packet.from, buf)
        /\ \A p \in air' : Dht(p) /\ p.from = Queue'[i].packet.from => Of(Queue'[i].packet) <= Of(p)
  <2>1. SUFFICES ASSUME NEW i \in 1 .. Len(Queue'), Resend(Queue'[i])
                 PROVE  /\ handed'[Queue'[i].packet.from] <= Of(Queue'[i].packet)
                        /\ Of(Queue'[i].packet) <= Newest(Queue'[i].packet.from, buf)
                        /\ \A p \in air' : Dht(p) /\ p.from = Queue'[i].packet.from =>
                             Of(Queue'[i].packet) <= Of(p)
    OBVIOUS
  <2>2. PICK q : q = Queue'[i]
    OBVIOUS
  <2>3. i + k \in 1 .. Len(Queue) /\ q = Queue[i + k] /\ Resend(q) /\ q.packet.from \in Nodes
    BY <1>4, <2>1, <2>2
  <2>4. /\ Of(q.packet) <= Newest(q.packet.from, buf)
        /\ \A p \in air' : Dht(p) /\ p.from = q.packet.from => Of(q.packet) <= Of(p)
    BY <2>3 DEF Ordered
  <2>5. handed'[q.packet.from] <= Of(q.packet)
    <3>1. CASE handed'[q.packet.from] = handed[q.packet.from]
      BY <2>3, <3>1 DEF Ordered
    <3>2. CASE /\ k = 1 /\ 1 \in 1 .. Len(Queue) /\ Resend(Queue[1])
               /\ Queue[1].packet.from = q.packet.from
               /\ handed'[q.packet.from] = Of(Queue[1].packet)
      <4>1. 1 < i + k
        BY <3>2
      <4>2. QED
        BY <2>3, <3>2, <4>1 DEF Ordered
    <3>3. QED
      BY <2>3, <3>1, <3>2
  <2>6. QED
    BY <2>2, <2>4, <2>5
<1>7. \A i, j \in 1 .. Len(Queue') :
        i < j /\ Resend(Queue'[i]) /\ Resend(Queue'[j])
          /\ Queue'[i].packet.from = Queue'[j].packet.from =>
            Of(Queue'[i].packet) <= Of(Queue'[j].packet)
  <2>1. \A i, j \in 1 .. Len(Queue') : i < j => i + k < j + k
    OBVIOUS
  <2>2. QED
    BY <2>1 DEF Ordered
<1>8. \A p \in air' : Dht(p) => Of(p) <= Newest(p.from, buf) /\ handed'[p.from] <= Of(p)
  BY <1>1, <1>5 DEF Ordered
<1>9. \A p, q \in air' : Dht(p) /\ Dht(q) /\ p.from = q.from => p = q
  BY DEF Ordered
<1>10. \A u \in Nodes : /\ handed'[u] <= Newest(u, buf) /\ Newest(u, buf) <= written[u]
                        /\ rx[u] # <<>> => Newest(u, buf) <= Num(u, rx[u])
  BY <1>5 DEF Ordered
<1>11. QED
  BY ONLY <1>6, <1>7, <1>8, <1>9, <1>10, UNCHANGED <<rx, buf, written>> DEF Ordered

LEMMA HostWritesOrdered ==
  ASSUME Types, Wholes, Ordered, NEW n \in Nodes, HostWrites(n)
  PROVE  Ordered'
<1> USE DEF HostWrites, host, osal, net, port
<1>1. Wholes' /\ Types'
  BY HostWritesWholes, StepTypes DEF Next
<1>2. UNCHANGED <<buf, msgs, air, handed>>
  OBVIOUS
<1>3. /\ \A u \in Nodes : u # n => rx'[u] = rx[u] /\ written'[u] = written[u]
      /\ written'[n] = written[n] + 1 /\ rx'[n] = rx[n] \o Frames[n][written[n] + 1]
  BY DEF Types
<1>4. Newest(n, buf) \in Nat /\ Num(n, rx'[n]) \in Nat /\ written[n] \in Nat
  BY NumType DEF Newest, Types
<1>5. Newest(n, buf) <= Num(n, rx'[n])
  <2>0. PICK f : f = Frames[n][written[n] + 1]
    OBVIOUS
  <2>1. written'[n] \in 1 .. Len(Frames[n])
    <3>1. written[n] < Len(Frames[n]) /\ Len(Frames[n]) \in Nat
      BY ZigbeeAssumption
    <3>2. QED
      BY <1>3, <1>4, <3>1
  <2>2. f \in Seq(Byte) /\ Len(f) = 2 /\ rx'[n] = rx[n] \o f /\ rx[n] \in Seq(Byte)
    BY <1>3, <2>0, <2>1, FrameFacts DEF Types
  <2>3. CASE rx[n] = <<>>
    <3>1. rx'[n] = f /\ Len(f) >= 2
      BY <2>2, <2>3
    <3>2. f = Frames[n][written'[n]]
      BY <1>3, <2>0
    <3>3. Num(n, f) = written'[n]
      <4>1. PICK i \in 1 .. Len(Frames[n]) : i = written'[n]
        BY <2>1
      <4>2. f[1] = Frames[n][i][1] /\ f[2] = Frames[n][i][2]
        BY <3>2, <4>1
      <4>3. NumberOf(n, FirstTwo(f), 0) = i
        <5>1. \A s \in Seq(Byte) :
                Len(s) >= 2 /\ s[1] = Frames[n][i][1] /\ s[2] = Frames[n][i][2] =>
                  \A old : NumberOf(n, FirstTwo(s), old) = i
          BY ONLY NumberFacts, n \in Nodes, i \in 1 .. Len(Frames[n])
        <5>2. f \in Seq(Byte) /\ Len(f) >= 2
          BY <2>2, <3>1
        <5>3. QED
          BY ONLY <4>2, <5>1, <5>2
      <4>4. QED
        BY ONLY <4>1, <4>3 DEF Num
    <3>4. Newest(n, buf) <= written[n]
      BY DEF Ordered
    <3>5. QED
      BY ONLY <1>3, <1>4, <3>1, <3>3, <3>4
  <2>4. CASE rx[n] # <<>>
    <3>1. Len(rx[n]) >= 2
      BY <2>4 DEF Wholes, Whole
    <3>2. \A s, r \in Seq(Byte) : /\ Len(s \o r) = Len(s) + Len(r)
                                 /\ \A i \in 1 .. Len(s) : (s \o r)[i] = s[i]
      OBVIOUS
    <3>3. Len(rx'[n]) >= 2 /\ rx'[n][1] = rx[n][1] /\ rx'[n][2] = rx[n][2]
      <4>1. Len(rx'[n]) = Len(rx[n]) + Len(f) /\ Len(rx[n]) \in Nat
        <5>1. Len(rx[n] \o f) = Len(rx[n]) + Len(f)
          BY ONLY <2>2, <3>2
        <5>2. QED
          BY <2>2, <5>1
      <4>2. \A i \in 1 .. Len(rx[n]) : rx'[n][i] = rx[n][i]
        BY <2>2, <3>2
      <4>3. QED
        BY <2>2, <3>1, <4>1, <4>2
    <3>4. FirstTwo(rx'[n]) = FirstTwo(rx[n])
      BY <2>2, <3>1, <3>3 DEF FirstTwo
    <3>5. QED
      BY <2>4, <3>4 DEF Ordered, Num
  <2>5. QED
    BY <2>3, <2>4
<1>6. \A u \in Nodes : /\ handed[u] <= Newest(u, buf) /\ Newest(u, buf) <= written'[u]
                       /\ rx'[u] # <<>> => Newest(u, buf) <= Num(u, rx'[u])
  BY <1>3, <1>4, <1>5 DEF Ordered
<1>7. Queue' = Queue
  BY <1>2 DEF Queue
<1>8. QED
  BY ONLY Ordered, <1>2, <1>6, <1>7 DEF Ordered

LEMMA UartCBOrdered ==
  ASSUME Types, Wholes, Ordered, NEW n \in Nodes, UartCB(n)
  PROVE  Ordered'
<1> USE DEF UartCB, host, osal, net, port
<1>1. UNCHANGED <<msgs, air, handed, written>>
  OBVIOUS
<1>2. /\ \A u \in Nodes : u # n => rx'[u] = rx[u] /\ buf'[u] = buf[u]
      /\ rx'[n] = <<>>
  BY DEF Types
<1>3. FirstTwo(StringOf(buf'[n])) = FirstTwo(rx[n])
  <2>1. /\ Len(rx[n]) >= 2 /\ Len(StringOf(buf'[n])) >= 2
        /\ StringOf(buf'[n])[1] = rx[n][1] /\ StringOf(buf'[n])[2] = rx[n][2]
    BY UartCBWholes
  <2>2. Len(rx[n]) \in Nat /\ Len(StringOf(buf'[n])) \in Nat
    <3>1. Types'
      BY StepTypes DEF Next
    <3>2. buf'[n] \in [1 .. BufLen -> Byte] /\ rx[n] \in Seq(Byte)
      BY <3>1 DEF Types
    <3>3. StringOf(buf'[n]) \in Seq(Byte)
      BY <3>2, StringFacts
    <3>4. QED
      BY <3>2, <3>3
  <2>3. QED
    BY <2>1, <2>2 DEF FirstTwo
<1>4. Newest(n, buf') = Num(n, rx[n])
  BY <1>3 DEF Newest, Num
<1>5. Newest(n, buf) <= Newest(n, buf') /\ Newest(n, buf') <= written[n]
  <2>1. /\ rx[n] # <<>> /\ rx[n] \in Seq(Byte) /\ Whole(rx[n], n, written[n])
        /\ written[n] \in Nat /\ written[n] <= Len(Frames[n])
    BY DEF Types, Wholes
  <2>2. QED
    BY <1>4, <2>1, NumWhole DEF Ordered
<1>6. \A u \in Nodes : Newest(u, buf) \in Nat /\ Newest(u, buf') \in Nat /\ handed[u] \in Nat
  BY NumType DEF Newest, Types
<1>7. \A u \in Nodes : Newest(u, buf) <= Newest(u, buf')
  <2>1. SUFFICES ASSUME NEW u \in Nodes PROVE Newest(u, buf) <= Newest(u, buf')
    OBVIOUS
  <2>2. CASE u # n
    <3>1. Newest(u, buf') = Newest(u, buf)
      BY <1>2, <2>2 DEF Newest
    <3>2. QED
      BY ONLY <1>6, <2>1, <3>1
  <2>3. QED
    BY <1>5, <2>2
<1>8. \A u \in Nodes : /\ handed[u] <= Newest(u, buf') /\ Newest(u, buf') <= written[u]
                       /\ rx'[u] # <<>> => Newest(u, buf') <= Num(u, rx'[u])
  <2>1. SUFFICES ASSUME NEW u \in Nodes
                 PROVE  /\ handed[u] <= Newest(u, buf') /\ Newest(u, buf') <= written[u]
                        /\ rx'[u] # <<>> => Newest(u, buf') <= Num(u, rx'[u])
    OBVIOUS
  <2>2. CASE u = n
    <3>1. handed[n] <= Newest(n, buf)
      BY DEF Ordered
    <3>2. handed[n] <= Newest(n, buf')
      BY ONLY <1>5, <1>6, <3>1, n \in Nodes
    <3>3. QED
      BY <1>2, <1>5, <2>2, <3>2
  <2>3. CASE u # n
    BY <1>2, <2>3 DEF Ordered, Newest
  <2>4. QED
    BY <2>2, <2>3
<1>9. \A u \in Nodes : \A k \in Nat : k <= Newest(u, buf) => k <= Newest(u, buf')
  BY ONLY <1>6, <1>7
<1>10. \A p \in air : Dht(p) => Of(p) <= Newest(p.from, buf')
  <2>1. \A p \in air : p.from \in Nodes /\ Of(p) \in Nat
    BY NumType DEF Types, Packet, Of
  <2>2. QED
    BY <1>9, <2>1 DEF Ordered
<1>11. \A i \in 1 .. Len(Queue) : Resend(Queue[i]) =>
         Of(Queue[i].packet) <= Newest(Queue[i].packet.from, buf')
  <2>1. \A m \in Message : Resend(m) => m.packet.from \in Nodes /\ Of(m.packet) \in Nat
    BY NumType DEF Message, Packet, Resend, Of
  <2>2. \A i \in 1 .. Len(Queue) : Queue[i] \in Message
    BY ZigbeeAssumption DEF Types, Queue
  <2>3. QED
    BY <1>9, <2>1, <2>2 DEF Ordered
<1>12. Queue' = Queue
  BY <1>1 DEF Queue
<1>13. QED
  BY ONLY Ordered, <1>1, <1>8, <1>10, <1>11, <1>12 DEF Ordered

LEMMA SendOrdered ==
  ASSUME Types, Wholes, Ordered, MaxAir = 1, NEW n \in Nodes, SendToCoordinator(n)
  PROVE  Ordered'
<1> DEFINE r == [cluster |-> "DHT11", from |-> n, to |-> Coordinator, data |-> StringOf(buf[n])]
<1>1. /\ UNCHANGED <<rx, buf, written, msgs, handed>> /\ Transmit(n, {r})
  BY DEF SendToCoordinator, host, net, port
<1>2. \A p \in air' : p \in air \/ p = r
  BY <1>1 DEF Transmit
<1>3. CASE air' = air
  <2>1. Queue' = Queue
    BY <1>1 DEF Queue
  <2>2. QED
    BY ONLY Ordered, <1>1, <1>3, <2>1 DEF Ordered
<1>4. CASE air' # air
  <2>1. air' = air \cup {r} /\ r.from = n /\ Dht(r)
    BY <1>1, <1>4 DEF Transmit, Dht
  <2>2. Of(r) = Newest(n, buf)
    BY DEF Of, Newest
  <2>3. \A p \in air : Dht(p) /\ p.from = n => p = r
    <3>1. SUFFICES ASSUME NEW p \in air, Dht(p), p.from = n, p # r PROVE FALSE
      OBVIOUS
    <3> DEFINE S == {q \in air' : q.from = n /\ q.cluster = "DHT11"}
    <3>2. \A q \in air : Dht(q) /\ q.from = n => q = p
      BY <3>1 DEF Ordered
    <3>3. p \in S /\ r \in S /\ S = {p} \cup {r}
      BY <2>1, <3>1, <3>2 DEF Dht
    <3>5. Cardinality(S) <= 1
      BY <1>1 DEF Transmit
    <3> HIDE DEF S, r
    <3>8. IsFiniteSet({p})
      BY FS_Singleton
    <3>4. IsFiniteSet(S)
      BY <3>3, <3>8, FS_AddElement
    <3>6. Cardinality(S) >= 2 /\ Cardinality(S) \in Nat
      BY <3>1, <3>3, <3>4, TwoElements, FS_CardinalityType
    <3>7. QED
      BY <3>5, <3>6
  <2> HIDE DEF r
  <2>4. \A p, q \in air' : Dht(p) /\ Dht(q) /\ p.from = q.from => p = q
    BY <2>1, <2>3 DEF Ordered
  <2>5. Newest(n, buf) \in Nat /\ Newest(n, buf) <= Newest(n, buf) /\ handed[n] <= Newest(n, buf)
    BY NumType DEF Newest, Ordered
  <2>6. \A p \in air' : Dht(p) => handed[p.from] <= Of(p) /\ Of(p) <= Newest(p.from, buf)
    BY <2>1, <2>2, <2>5 DEF Ordered
  <2>7. \A i \in 1 .. Len(Queue) : Resend(Queue[i]) =>
          \A p \in air' : Dht(p) /\ p.from = Queue[i].packet.from => Of(Queue[i].packet) <= Of(p)
    BY <2>1, <2>2 DEF Ordered
  <2>8. Queue' = Queue
    BY <1>1 DEF Queue
  <2>9. QED
    BY ONLY Ordered, <1>1, <2>4, <2>6, <2>7, <2>8 DEF Ordered
<1>5. QED
  BY <1>3, <1>4

\* What a turn of the message loop does to the queue of the coordinator.
LEMMA ReceivedQueue ==
  ASSUME Types, NEW n \in Nodes, NEW m, Received(n, m), NEW k \in 0 .. 1,
         k = IF n = Coordinator THEN 1 ELSE 0
  PROVE  \A i \in 1 .. Len(Queue') : i + k \in 1 .. Len(Queue) /\ Queue'[i] = Queue[i + k]
<1>1. Len(Queue) \in Nat
  BY ZigbeeAssumption DEF Types, Queue
<1>2. CASE n = Coordinator
  <2>1. /\ Len(Queue') = Len(Queue) - 1
        /\ \A i \in 1 .. Len(Queue') : Queue'[i] = Queue[i + 1]
    BY <1>2, ReceivedTypes DEF Queue
  <2>2. QED
    BY ONLY <1>1, <1>2, <2>1, k = IF n = Coordinator THEN 1 ELSE 0
<1>3. CASE n # Coordinator
  <2>1. Queue' = Queue
    BY <1>3, ReceivedTypes, ZigbeeAssumption DEF Queue
  <2>2. QED
    BY <1>1, <1>3, <2>1
<1>4. QED
  BY <1>2, <1>3

LEMMA MessageOrdered ==
  ASSUME Types, Wholes, Ordered, NEW n \in Nodes, MessageMSGCB(n)
  PROVE  /\ Ordered'
         /\ \A u \in Nodes : handed'[u] \in Nat /\ handed[u] <= handed'[u] /\ handed'[u] <= written[u]
<1>1. PICK p \in Packet :
         /\ Received(n, [event |-> "AF", packet |-> p])
         /\ IF p.cluster = "DHT11"
            THEN /\ out' = [out EXCEPT ![n] = FirstTwo(p.data)]
                 /\ handed' = [handed EXCEPT ![p.from] = NumberOf(p.from, FirstTwo(p.data), @)]
            ELSE UNCHANGED port
         /\ UNCHANGED air
         /\ Dht(p) => n = Coordinator /\ Whole(p.data, p.from, written[p.from])
  BY TakenPacket
<1>2. UNCHANGED <<rx, buf, written>>
  BY <1>1, ReceivedTypes
<1>3. PICK k \in 0 .. 1 : k = IF n = Coordinator THEN 1 ELSE 0
  OBVIOUS
<1>4. \A i \in 1 .. Len(Queue') : i + k \in 1 .. Len(Queue) /\ Queue'[i] = Queue[i + k]
  BY <1>1, <1>3, ReceivedQueue
<1>5. \A u \in Nodes : handed[u] \in Nat /\ written[u] \in Nat /\ Newest(u, buf) \in Nat
                     /\ handed[u] <= Newest(u, buf) /\ Newest(u, buf) <= written[u]
  BY NumType DEF Types, Newest, Ordered
<1>6. CASE Dht(p)
  <2>1. PICK m : m = [event |-> "AF", packet |-> p]
    OBVIOUS
  <2>2. 1 \in 1 .. Len(Queue) /\ Queue[1] = m
    <3>1. Len(msgs[n]) > 0 /\ m = msgs[n][1]
      BY <1>1, <2>1, ReceivedTypes
    <3>2. Len(msgs[n]) \in Nat
      BY DEF Types
    <3>3. QED
      BY <1>1, <1>6, <3>1, <3>2 DEF Queue
  <2>3. Resend(Queue[1]) /\ Queue[1].packet = p
    BY <1>6, <2>1, <2>2 DEF Resend
  <2>4. handed[p.from] <= Of(p) /\ Of(p) <= Newest(p.from, buf)
    BY <2>2, <2>3 DEF Ordered
  <2>5. /\ p.from \in Nodes /\ p.data \in Seq(Byte) /\ Of(p) \in Nat
        /\ Whole(p.data, p.from, written[p.from])
    BY <1>1, <1>6, NumType DEF Packet, Of
  <2>6. NumberOf(p.from, FirstTwo(p.data), handed[p.from]) = Of(p)
    <3>1. written[p.from] \in Nat /\ written[p.from] <= Len(Frames[p.from])
      BY <2>5 DEF Types
    <3>2. CASE p.data = <<>>
      <4>1. Of(p) = 0 /\ NumberOf(p.from, FirstTwo(p.data), handed[p.from]) = handed[p.from]
        BY ONLY EmptyFacts, <2>5, <3>2 DEF Of, Num
      <4>2. QED
        BY <1>5, <2>4, <2>5, <4>1
    <3>3. CASE p.data # <<>>
      BY <2>5, <3>1, <3>3, NumWhole DEF Of
    <3>4. QED
      BY <3>2, <3>3
  <2>7. handed' = [handed EXCEPT ![p.from] = Of(p)]
    BY <1>1, <1>6, <2>6 DEF Dht
  <2>8. \A u \in Nodes : handed'[u] = handed[u] \/ (p.from = u /\ handed'[u] = Of(p))
    BY <2>7 DEF Types
  <2>9. Ordered'
    <3>1. k = 1
      BY <1>1, <1>3, <1>6
    <3>2. \A u \in Nodes :
            \/ handed'[u] = handed[u]
            \/ /\ k = 1 /\ 1 \in 1 .. Len(Queue) /\ Resend(Queue[1])
               /\ Queue[1].packet.from = u /\ handed'[u] = Of(Queue[1].packet)
      BY <2>2, <2>3, <2>8, <3>1
    <3>3. \A q \in air' : Dht(q) => q \in air
      BY <1>1
    <3>4. QED
      BY <1>2, <1>4, <3>2, <3>3, OrderedShrinks
  <2>10. \A u \in Nodes : handed'[u] \in Nat /\ handed[u] <= handed'[u] /\ handed'[u] <= written[u]
    BY ONLY <1>5, <2>4, <2>5, <2>8
  <2>11. QED
    BY <2>9, <2>10
<1>7. CASE ~ Dht(p)
  <2>1. UNCHANGED handed
    BY <1>1, <1>7 DEF Dht, port
  <2>2. \A q \in air' : Dht(q) => q \in air
    BY <1>1
  <2>3. Ordered'
    BY <1>2, <1>4, <2>1, <2>2, OrderedShrinks
  <2>4. QED
    BY <1>5, <2>1, <2>3
<1>8. QED
  BY <1>6, <1>7

LEMMA DeliverOrdered ==
  ASSUME Types, Wholes, Ordered, NEW p \in air, Deliver(p)
  PROVE  Ordered'
<1>1. /\ UNCHANGED <<rx, buf, written, handed>> /\ air' = air \ {p}
      /\ Post(p.to, [event |-> "AF", packet |-> p])
  BY DEF Deliver, host, net, port
<1>2. PICK m : m = [event |-> "AF", packet |-> p]
  OBVIOUS
<1>3. m \in Message /\ p.to \in Nodes /\ p.from \in Nodes /\ Of(p) \in Nat
  BY <1>2, NumType DEF Types, Packet, Message, Of
<1>4. Len(Queue) \in Nat
  BY ZigbeeAssumption DEF Types, Queue
<1>5. CASE p.to = Coordinator /\ Dht(p)
  <2>1. Len(Queue') = Len(Queue) + 1 /\ Queue'[Len(Queue) + 1] = m
        /\ \A i \in 1 .. Len(Queue) : Queue'[i] = Queue[i]
    <3>1. /\ Len(Queue') = Len(Queue) + 1
          /\ \A i \in 1 .. Len(Queue') : Queue'[i] = IF i = Len(Queue') THEN m ELSE Queue[i]
      BY <1>1, <1>2, <1>3, <1>5, PostTypes DEF Queue
    <3>2. QED
      BY ONLY <1>4, <3>1
  <2>2. \A q \in air' : q \in air /\ ~ (Dht(q) /\ q.from = p.from)
    BY <1>1, <1>5 DEF Ordered
  <2>3. Resend(m) /\ m.packet = p
    BY <1>2, <1>5 DEF Resend
  <2>4. \A i \in 1 .. Len(Queue') : i \in 1 .. Len(Queue) \/ i = Len(Queue) + 1
    BY ONLY <1>4, <2>1
  <2>5. \A i \in 1 .. Len(Queue') : Resend(Queue'[i]) =>
          /\ handed[Queue'[i].packet.from] <= Of(Queue'[i].packet)
          /\ Of(Queue'[i].packet) <= Newest(Queue'[i].packet.from, buf)
          /\ \A q \in air' : Dht(q) /\ q.from = Queue'[i].packet.from => Of(Queue'[i].packet) <= Of(q)
    <3>1. SUFFICES ASSUME NEW i \in 1 .. Len(Queue'), Resend(Queue'[i])
                   PROVE  /\ handed[Queue'[i].packet.from] <= Of(Queue'[i].packet)
                          /\ Of(Queue'[i].packet) <= Newest(Queue'[i].packet.from, buf)
                          /\ \A q \in air' : Dht(q) /\ q.from = Queue'[i].packet.from =>
                               Of(Queue'[i].packet) <= Of(q)
      OBVIOUS
    <3>2. CASE i \in 1 .. Len(Queue)
      BY ONLY Ordered, <2>1, <2>2, <3>1, <3>2 DEF Ordered
    <3>3. CASE i = Len(Queue) + 1
      <4>1. handed[p.from] <= Of(p) /\ Of(p) <= Newest(p.from, buf)
        BY <1>5 DEF Ordered
      <4>2. QED
        BY ONLY <2>1, <2>2, <2>3, <3>3, <4>1
    <3>4. QED
      BY <2>4, <3>2, <3>3
  <2>6. \A i, j \in 1 .. Len(Queue') :
          i < j /\ Resend(Queue'[i]) /\ Resend(Queue'[j])
            /\ Queue'[i].packet.from = Queue'[j].packet.from =>
              Of(Queue'[i].packet) <= Of(Queue'[j].packet)
    <3>1. SUFFICES ASSUME NEW i \in 1 .. Len(Queue'), NEW j \in 1 .. Len(Queue'), i < j,
                          Resend(Queue'[i]), Resend(Queue'[j]),
                          Queue'[i].packet.from = Queue'[j].packet.from
                   PROVE  Of(Queue'[i].packet) <= Of(Queue'[j].packet)
      OBVIOUS
    <3>2. i \in 1 .. Len(Queue) /\ Queue'[i] = Queue[i]
      BY ONLY <1>4, <2>1, <2>4, <3>1
    <3>3. CASE j \in 1 .. Len(Queue)
      BY ONLY Ordered, <2>1, <3>1, <3>2, <3>3 DEF Ordered
    <3>4. CASE j = Len(Queue) + 1
      <4>1. Of(Queue[i].packet) <= Of(p)
        BY <1>5, <2>1, <2>3, <3>1, <3>2, <3>4 DEF Ordered
      <4>2. QED
        BY <2>1, <2>3, <3>2, <3>4, <4>1
    <3>5. QED
      BY <2>4, <3>3, <3>4
  <2>7. QED
    BY ONLY Ordered, <1>1, <2>2, <2>5, <2>6 DEF Ordered
<1>6. CASE ~ (p.to = Coordinator /\ Dht(p))
  <2>1. ~ Resend(m)
    BY <1>2, <1>6 DEF Resend, Wholes, WholePacket
  <2>2. \A i \in 1 .. Len(Queue') : Resend(Queue'[i]) => i \in 1 .. Len(Queue) /\ Queue'[i] = Queue[i]
    <3>1. CASE p.to = Coordinator
      <4>1. /\ Len(Queue') = Len(Queue) + 1
            /\ \A i \in 1 .. Len(Queue') : Queue'[i] = IF i = Len(Queue') THEN m ELSE Queue[i]
        BY <1>1, <1>2, <1>3, <3>1, PostTypes DEF Queue
      <4>2. QED
        BY ONLY <1>4, <2>1, <4>1
    <3>2. CASE p.to # Coordinator
      <4>1. Queue' = Queue
        BY <1>1, <1>2, <1>3, <3>2, PostTypes, ZigbeeAssumption DEF Queue
      <4>2. QED
        BY ONLY <4>1
    <3>3. QED
      BY <3>1, <3>2
  <2>3. \A i \in 1 .. Len(Queue') : Resend(Queue'[i]) => i + 0 \in 1 .. Len(Queue) /\ Queue'[i] = Queue[i + 0]
    BY ONLY <2>2
  <2>4. \A u \in Nodes : handed'[u] = handed[u]
    BY <1>1
  <2>5. \A q \in air' : Dht(q) => q \in air
    BY <1>1
  <2>6. QED
    BY <1>1, <2>3, <2>4, <2>5, OrderedShrinks
<1>7. QED
  BY <1>5, <1>6

LEMMA StepOrdered ==
  ASSUME Types, Wholes, Ordered, MaxAir = 1, [Next]_vars
  PROVE  Ordered'
<1> USE DEF host, osal, net, port
<1>1. ASSUME UNCHANGED <<rx, buf, written, msgs, handed>>, \A p \in air' : Dht(p) => p \in air
      PROVE  Ordered'
  <2>1. Queue' = Queue
    BY <1>1 DEF Queue
  <2>2. \A i \in 1 .. Len(Queue') : i + 0 \in 1 .. Len(Queue) /\ Queue'[i] = Queue[i + 0]
    BY <2>1
  <2>3. \A u \in Nodes : handed'[u] = handed[u]
    BY <1>1
  <2>4. QED
    BY <1>1, <2>2, <2>3, OrderedShrinks
<1>2. ASSUME NEW n \in Nodes, NEW m, Received(n, m), UNCHANGED handed,
             \A p \in air' : Dht(p) => p \in air
      PROVE  Ordered'
  <2>1. PICK k \in 0 .. 1 : k = IF n = Coordinator THEN 1 ELSE 0
    OBVIOUS
  <2>2. \A i \in 1 .. Len(Queue') : i + k \in 1 .. Len(Queue) /\ Queue'[i] = Queue[i + k]
    BY <1>2, <2>1, ReceivedQueue
  <2>3. UNCHANGED <<rx, buf, written>> /\ \A u \in Nodes : handed'[u] = handed[u]
    BY <1>2, ReceivedTypes
  <2>4. QED
    BY <1>2, <2>2, <2>3, OrderedShrinks
<1>3. ASSUME NEW n \in Nodes, HostWrites(n) \/ UartCB(n) \/ SendToCoordinator(n) \/ MessageMSGCB(n)
      PROVE  Ordered'
  BY <1>3, HostWritesOrdered, UartCBOrdered, SendOrdered, MessageOrdered
<1>4. ASSUME NEW n \in Nodes, Discard(n) PROVE Ordered'
  BY <1>1, <1>4 DEF Discard
<1>5. ASSUME NEW n \in Nodes, NEW e \in Timer, TimerExpires(n, e) PROVE Ordered'
  BY <1>1, <1>5 DEF TimerExpires
<1>6. ASSUME NEW n \in Nodes, StateChange(n) PROVE Ordered'
  BY <1>2, <1>6 DEF StateChange
<1>7. ASSUME NEW n \in Nodes, HandleKeys(n) PROVE Ordered'
  <2>1. \A p \in air' : Dht(p) => p \in air
    BY <1>7 DEF HandleKeys, Transmit, Dht
  <2>2. QED
    BY <1>2, <1>7, <2>1 DEF HandleKeys
<1>8. ASSUME NEW n \in Nodes, Environment(n) PROVE Ordered'
  <2>1. PICK m \in Message : Post(n, m) /\ m.event # "AF"
    <3>1. [event |-> "ZDO", member |-> ~ joined[n]] \in Message
      BY Zenon DEF Message, Types
    <3>2. \A k \in {"SW_1", "SW_2"} : [event |-> "KEY", key |-> k] \in Message
      BY DEF Message
    <3>3. QED
      BY <1>8, <3>1, <3>2 DEF Environment
  <2>2. \A i \in 1 .. Len(Queue') : Resend(Queue'[i]) =>
          i + 0 \in 1 .. Len(Queue) /\ Queue'[i] = Queue[i + 0]
    <3>1. Len(Queue) \in Nat
      BY ZigbeeAssumption DEF Types, Queue
    <3>2. CASE n = Coordinator
      <4>1. /\ Len(Queue') = Len(Queue) + 1
            /\ \A i \in 1 .. Len(Queue') : Queue'[i] = IF i = Len(Queue') THEN m ELSE Queue[i]
        BY <2>1, <3>2, PostTypes DEF Queue
      <4>2. ~ Resend(m)
        BY <2>1 DEF Resend
      <4>3. QED
        BY ONLY <3>1, <4>1, <4>2
    <3>3. CASE n # Coordinator
      <4>1. Queue' = Queue
        BY <2>1, <3>3, PostTypes, ZigbeeAssumption DEF Queue
      <4>2. QED
        BY ONLY <3>1, <4>1
    <3>4. QED
      BY <3>2, <3>3
  <2>3. /\ UNCHANGED <<rx, buf, written>> /\ \A u \in Nodes : handed'[u] = handed[u]
        /\ \A p \in air' : Dht(p) => p \in air
    BY <1>8 DEF Environment
  <2>4. QED
    BY <2>2, <2>3, OrderedShrinks
<1>9. ASSUME NEW p \in air, Deliver(p) PROVE Ordered'
  BY <1>9, DeliverOrdered
<1>10. ASSUME NEW p \in air, LosePacket(p) PROVE Ordered'
  BY <1>1, <1>10 DEF LosePacket
<1>11. CASE UNCHANGED vars
  BY <1>1, <1>11 DEF vars
<1>12. QED
  BY <1>3, <1>4, <1>5, <1>6, <1>7, <1>8, <1>9, <1>10, <1>11 DEF Next, ProcessEvent

-----------------------------------------------------------------------------

\* The invariant the results below are read from.
THEOREM Invariance == Spec => []IInv
<1>1. Init => IInv
  <2>1. Init => ResendAlive
    BY DEF Init, ResendAlive
  <2>2. QED
    BY <2>1, InitTypes, InitWholes, InitOrdered DEF IInv
<1>2. IInv /\ [Next]_vars => IInv'
  BY StepTypes, StepResend, StepWholes, StepHands, StepOrdered DEF IInv
<1>3. QED
  BY <1>1, <1>2, PTL DEF Spec

\* TypeOK: the buffers, queues and counters keep their bounds, and what the
\* coordinator writes is bytes.
THEOREM TypeCorrect == Spec => []TypeOK
<1>1. IInv => TypeOK
  <2> SUFFICES ASSUME IInv PROVE TypeOK
    OBVIOUS
  <2>1. \A n \in Nodes : Len(Frames[n]) \in Nat /\ MaxChanges[n] \in Nat
    BY ZigbeeAssumption
  <2>2. \A n \in Nodes : /\ written[n] \in 0 .. Len(Frames[n]) /\ handed[n] \in 0 .. Len(Frames[n])
                         /\ changes[n] \in 0 .. MaxChanges[n]
    BY <2>1 DEF IInv, Types
  <2>3. QED
    BY <2>2 DEF IInv, Types, TypeOK
<1>2. QED
  BY <1>1, Invariance, PTL

\* ResendAlive: no handler and no state of the network ends the loop of the resends.
THEOREM ResendNeverDies == Spec => []ResendAlive
<1>1. IInv => ResendAlive
  BY DEF IInv
<1>2. QED
  BY <1>1, Invariance, PTL

\* HandsOnFrames: however the bytes of a host are batched and overwritten, a pair
\* that the coordinator hands on is a frame that some host has written.
THEOREM FramesStayWhole == Spec => []HandsOnFrames
<1>1. IInv => HandsOnFrames
  BY DEF IInv
<1>2. QED
  BY <1>1, Invariance, PTL

\* LastWordSpec: with one resend of a node in the air, the nodes are a LastWord for
\* every host: HostWrites maps to Write, the handler of the coordinator to Hand or to
\* a stutter, every other step to a stutter.
THEOREM ImplementsLastWord == ASSUME MaxAir = 1 PROVE Spec => LastWordSpec
<1>1. Init => \A n \in Nodes : Radio(n)!Init
  BY DEF Init, Radio!Init
<1>2. IInv /\ [Next]_vars => \A n \in Nodes : [Radio(n)!Next]_(Radio(n)!vars)
  <2> SUFFICES ASSUME IInv, [Next]_vars, NEW u \in Nodes
               PROVE  Radio(u)!Next \/ UNCHANGED <<written[u], handed[u]>>
    BY DEF Radio!vars
  <2> USE DEF host, osal, net, port
  <2>1. CASE \E n \in Nodes : HostWrites(n)
    <3>1. PICK n \in Nodes : HostWrites(n)
      BY <2>1
    <3>2. UNCHANGED handed
      BY <3>1 DEF HostWrites
    <3>3. written' = [written EXCEPT ![n] = written[n] + 1] /\ written[n] < Len(Frames[n])
      BY <3>1 DEF HostWrites
    <3>4. CASE u = n
      <4>1. written'[u] = written[u] + 1 /\ written[u] < Len(Frames[u])
        BY <3>3, <3>4 DEF IInv, Types
      <4>2. QED
        BY <3>2, <4>1 DEF Radio!Next, Radio!Write
    <3>5. CASE u # n
      BY <3>2, <3>3, <3>5 DEF IInv, Types
    <3>6. QED
      BY <3>4, <3>5
  <2>2. CASE \E n \in Nodes : MessageMSGCB(n)
    <3>1. PICK n \in Nodes : MessageMSGCB(n)
      BY <2>2
    <3>2. UNCHANGED written
      BY <3>1 DEF MessageMSGCB, Received
    <3>3. handed'[u] \in Nat /\ handed[u] <= handed'[u] /\ handed'[u] <= written[u]
      BY <3>1, MessageOrdered DEF IInv
    <3>4. handed'[u] \in handed[u] .. written[u]
      BY <3>3 DEF IInv, Types
    <3>5. QED
      BY <3>2, <3>4 DEF Radio!Next, Radio!Hand
  <2>3. CASE ~ (\E n \in Nodes : HostWrites(n) \/ MessageMSGCB(n))
    BY <2>3 DEF Next, ProcessEvent, UartCB, SendToCoordinator, Discard, StateChange, HandleKeys,
       Received, TimerExpires, Environment, Deliver, LosePacket, vars
  <2>4. QED
    BY <2>1, <2>2, <2>3
<1>3. QED
  BY Invariance, <1>1, <1>2, PTL DEF Spec, LastWordSpec
=============================================================================
