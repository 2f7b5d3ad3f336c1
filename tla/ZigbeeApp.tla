----------------------------- MODULE ZigbeeApp -----------------------------
(***************************************************************************)
(* The Zigbee nodes between the panel and the STM32.  Every node runs the  *)
(* same SampleApp: what its host writes on UART0 is copied to the front of *)
(* zclSampleSw_UartBuf, and a timer sends that buffer, as a string, to the *)
(* coordinator every two seconds, for ever.  The coordinator writes the    *)
(* first two bytes of what it receives to its own UART0.                   *)
(*                                                                         *)
(* OSAL is cooperative: a handler, or one turn of its message loop, is a   *)
(* step.  The stack, the radio and the UART driver are external: a frame   *)
(* in the air may be lost or overtaken, and the driver calls back only     *)
(* between two frames of the host.                                         *)
(***************************************************************************)
EXTENDS Naturals, Sequences, FiniteSets, Functions

CONSTANTS
  Nodes,
  Coordinator,  \* the node with short address 0x0000
  Frames,       \* Frames[n]: the pairs of bytes the host of n writes, in order
  BufLen,       \* bound on what the driver holds, and on the buffer in use
  MaxChanges,   \* MaxChanges[n]: bound on the network changes and the keys of n
  MaxQueue,     \* bound on the OSAL messages waiting
  MaxAir        \* bound on the resends of one node on their way

FramesOf(n) == {Frames[n][i] : i \in DOMAIN Frames[n]}

Byte == {f[i] : f \in UNION {FramesOf(n) : n \in Nodes}, i \in 1 .. 2} \cup {"NUL", "junk"}

ASSUME ZigbeeAssumption ==
  /\ Coordinator \in Nodes
  /\ \A n \in Nodes : Frames[n] \in Seq(STRING \X STRING) /\ IsInjective(Frames[n])
  /\ \A n \in Nodes : \A f \in FramesOf(n) : {f[1], f[2]} \cap {"NUL", "junk"} = {}
  /\ BufLen \in Nat \ {0, 1}
  /\ MaxChanges \in [Nodes -> Nat] /\ MaxQueue \in Nat \ {0} /\ MaxAir \in Nat \ {0}

VARIABLES
  rx,        \* bytes in the receive buffer of the driver
  buf,       \* zclSampleSw_UartBuf
  events,    \* the pending events of the task
  timers,    \* the events with a running OSAL timer
  msgs,      \* its OSAL messages
  joined,    \* SampleApp_NwkState is one of the three states of a member
  grouped,   \* the endpoint is in group 1
  air,       \* packets on their way
  out,       \* the last pair of bytes written to UART0
  written,   \* history: how many of its frames the host wrote
  handed,    \* history: which frame of a node the coordinator handed on last
  changes    \* network changes and keys so far

host == <<rx, written>>
port == <<out, handed>>
osal == <<events, timers, msgs>>
net  == <<joined, grouped, changes>>
vars == <<host, buf, osal, net, air, port>>

Timer == {"PERIODIC", "TO_COORDINATOR"}
Event == Timer \cup {"MSG"}

Packet == [cluster : {"DHT11", "FLASH"}, from : Nodes, to : Nodes, data : Seq(Byte)]

TypeOK ==
  /\ \A n \in Nodes : rx[n] \in Seq(Byte) /\ Len(rx[n]) <= BufLen
  /\ buf \in [Nodes -> [1 .. BufLen -> Byte]]
  /\ events \in [Nodes -> SUBSET Event]
  /\ timers \in [Nodes -> SUBSET Timer]
  /\ \A n \in Nodes : Len(msgs[n]) <= MaxQueue
  /\ joined \in [Nodes -> BOOLEAN]
  /\ grouped \in [Nodes -> BOOLEAN]
  /\ \A p \in air : p \in Packet
  /\ \A n \in Nodes : out[n] = <<>> \/ out[n] \in Byte \X Byte
  /\ \A n \in Nodes : written[n] \in 0 .. Len(Frames[n])
  /\ \A n \in Nodes : handed[n] \in 0 .. Len(Frames[n])
  /\ \A n \in Nodes : changes[n] \in 0 .. MaxChanges[n]

\* SampleApp_Init.
Init ==
  /\ rx = [n \in Nodes |-> <<>>]
  /\ buf = [n \in Nodes |-> [i \in 1 .. BufLen |-> "NUL"]]
  /\ events = [n \in Nodes |-> {}]
  /\ timers = [n \in Nodes |-> {"TO_COORDINATOR"}]
  /\ msgs = [n \in Nodes |-> <<>>]
  /\ joined = [n \in Nodes |-> FALSE]
  /\ grouped = [n \in Nodes |-> TRUE]
  /\ air = {}
  /\ out = [n \in Nodes |-> <<>>]
  /\ written = [n \in Nodes |-> 0] /\ handed = [n \in Nodes |-> 0]
  /\ changes = [n \in Nodes |-> 0]

-----------------------------------------------------------------------------
(* UART0. *)

HostWrites(n) ==
  /\ written[n] < Len(Frames[n])
  /\ Len(rx[n]) + 2 <= BufLen
  /\ written' = [written EXCEPT ![n] = @ + 1]
  /\ rx' = [rx EXCEPT ![n] = @ \o Frames[n][written'[n]]]
  /\ UNCHANGED <<buf, osal, net, air, port>>

\* Fault: the last byte is not read.
UartCBShort(n) ==
  /\ rx[n] # <<>>
  /\ buf' = [buf EXCEPT ![n] = [i \in 1 .. BufLen |-> IF i < Len(rx[n]) THEN rx[n][i]
                                                      ELSE buf[n][i]]]
  /\ rx' = [rx EXCEPT ![n] = <<>>]
  /\ UNCHANGED <<written, osal, net, air, port>>

\* The bytes that came since the last call go to the front of the buffer; what
\* was behind them stays.
UartCB(n) ==
  /\ rx[n] # <<>>
  /\ buf' = [buf EXCEPT ![n] = [i \in 1 .. BufLen |-> IF i <= Len(rx[n]) THEN rx[n][i]
                                                      ELSE buf[n][i]]]
  /\ rx' = [rx EXCEPT ![n] = <<>>]
  /\ UNCHANGED <<written, osal, net, air, port>>

-----------------------------------------------------------------------------
(* SampleApp_ProcessEvent: messages first, then the timer of the buffer; the  *)
(* event of the periodic message is discarded, with whatever else is left.    *)

\* The string the buffer holds: what stands before its first NUL.
StringOf(b) ==
  [i \in 1 .. Cardinality({k \in 1 .. BufLen : \A j \in 1 .. k : b[j] # "NUL"}) |-> b[i]]

\* AF_DataRequest fails outside the network; the result is not looked at.
Transmit(n, packets) ==
  /\ air' = IF joined[n] THEN air \cup packets ELSE air
  /\ Cardinality({p \in air' : p.from = n /\ p.cluster = "DHT11"}) <= MaxAir

\* Fault: the timer is not started again.
SendOnce(n) ==
  /\ "MSG" \notin events[n]
  /\ "TO_COORDINATOR" \in events[n]
  /\ Transmit(n, {[cluster |-> "DHT11", from |-> n, to |-> Coordinator,
                   data |-> StringOf(buf[n])]})
  /\ events' = [events EXCEPT ![n] = @ \ {"TO_COORDINATOR"}]
  /\ UNCHANGED <<host, buf, timers, msgs, net, port>>

SendToCoordinator(n) ==
  /\ "MSG" \notin events[n]
  /\ "TO_COORDINATOR" \in events[n]
  /\ Transmit(n, {[cluster |-> "DHT11", from |-> n, to |-> Coordinator,
                   data |-> StringOf(buf[n])]})
  /\ timers' = [timers EXCEPT ![n] = @ \cup {"TO_COORDINATOR"}]
  /\ events' = [events EXCEPT ![n] = @ \ {"TO_COORDINATOR"}]
  /\ UNCHANGED <<host, buf, msgs, net, port>>

Discard(n) ==
  /\ events[n] # {}
  /\ events[n] \cap {"MSG", "TO_COORDINATOR"} = {}
  /\ events' = [events EXCEPT ![n] = {}]
  /\ UNCHANGED <<host, buf, timers, msgs, net, air, port>>

\* Fault: all of Data is written.
WholeData(data) == data

\* HalUARTWrite(0, Data, 2), however long Data is.
FirstTwo(data) == [i \in 1 .. 2 |-> IF i <= Len(data) THEN data[i] ELSE "junk"]

\* Fault: the handler returns 0 after the last message.
ReceivedReturnsZero(n, m) ==
  /\ "MSG" \in events[n]
  /\ msgs[n] # <<>>
  /\ Head(msgs[n]) = m
  /\ msgs' = [msgs EXCEPT ![n] = Tail(@)]
  /\ events' = [events EXCEPT ![n] = IF Tail(msgs[n]) = <<>> THEN {} ELSE @]
  /\ UNCHANGED <<host, buf, changes>>

\* One turn of the loop over the messages.
Received(n, m) ==
  /\ "MSG" \in events[n]
  /\ msgs[n] # <<>>
  /\ Head(msgs[n]) = m
  /\ msgs' = [msgs EXCEPT ![n] = Tail(@)]
  /\ events' = [events EXCEPT ![n] = IF Tail(msgs[n]) = <<>> THEN @ \ {"MSG"} ELSE @]
  /\ UNCHANGED <<host, buf, changes>>

\* Which frame of u a pair of bytes is; a pair that is none leaves the number.
NumberOf(u, pair, old) ==
  IF pair \in FramesOf(u) THEN CHOOSE i \in DOMAIN Frames[u] : Frames[u][i] = pair ELSE old

\* AF_INCOMING_MSG_CMD: SampleApp_MessageMSGCB.  A flash only blinks a LED.
MessageMSGCB(n) ==
  \E p \in {m.packet : m \in {x \in {msgs[n][i] : i \in DOMAIN msgs[n]} : x.event = "AF"}} :
    /\ Received(n, [event |-> "AF", packet |-> p])
    /\ IF p.cluster = "DHT11"
       THEN /\ out' = [out EXCEPT ![n] = FirstTwo(p.data)]
            /\ handed' = [handed EXCEPT ![p.from] = NumberOf(p.from, FirstTwo(p.data), @)]
       ELSE UNCHANGED port
    /\ UNCHANGED <<timers, joined, grouped, air>>

\* ZDO_STATE_CHANGE.
StateChange(n) ==
  \E member \in BOOLEAN :
    /\ Received(n, [event |-> "ZDO", member |-> member])
    /\ joined' = [joined EXCEPT ![n] = member]
    /\ timers' = IF member THEN [timers EXCEPT ![n] = @ \cup {"PERIODIC"}] ELSE timers
    /\ UNCHANGED <<grouped, air, port>>

\* KEY_CHANGE: SampleApp_HandleKeys.
HandleKeys(n) ==
  \/ /\ Received(n, [event |-> "KEY", key |-> "SW_1"])
     /\ Transmit(n, {[cluster |-> "FLASH", from |-> n, to |-> u, data |-> <<>>] :
                       u \in {v \in Nodes \ {n} : grouped[v]}})
     /\ UNCHANGED <<timers, joined, grouped, port>>
  \/ /\ Received(n, [event |-> "KEY", key |-> "SW_2"])
     /\ grouped' = [grouped EXCEPT ![n] = ~ @]
     /\ UNCHANGED <<timers, joined, air, port>>

-----------------------------------------------------------------------------
(* The stack: timers, messages, radio. *)

TimerExpires(n, e) ==
  /\ e \in timers[n]
  /\ timers' = [timers EXCEPT ![n] = @ \ {e}]
  /\ events' = [events EXCEPT ![n] = @ \cup {e}]
  /\ UNCHANGED <<host, buf, msgs, net, air, port>>

\* Fault: the message goes to the front of the queue.
PostFront(n, m) ==
  /\ Len(msgs[n]) < MaxQueue
  /\ msgs' = [msgs EXCEPT ![n] = <<m>> \o @]
  /\ events' = [events EXCEPT ![n] = @ \cup {"MSG"}]

Post(n, m) ==
  /\ Len(msgs[n]) < MaxQueue
  /\ msgs' = [msgs EXCEPT ![n] = Append(@, m)]
  /\ events' = [events EXCEPT ![n] = @ \cup {"MSG"}]

\* The network comes and goes: it is the coordinator's.  A key is pressed.
Environment(n) ==
  /\ changes[n] < MaxChanges[n]
  /\ changes' = [changes EXCEPT ![n] = @ + 1]
  /\ \/ /\ n = Coordinator \/ joined[Coordinator]
        /\ Post(n, [event |-> "ZDO", member |-> ~ joined[n]])
     \/ \E k \in {"SW_1", "SW_2"} : Post(n, [event |-> "KEY", key |-> k])
  /\ UNCHANGED <<host, buf, timers, joined, grouped, air, port>>

\* A packet that reaches a node outside the network is lost.
Deliver(p) ==
  /\ p \in air
  /\ joined[p.to]
  /\ Post(p.to, [event |-> "AF", packet |-> p])
  /\ air' = air \ {p}
  /\ UNCHANGED <<host, buf, timers, net, port>>

LosePacket(p) ==
  /\ p \in air
  /\ air' = air \ {p}
  /\ UNCHANGED <<host, buf, osal, net, port>>

-----------------------------------------------------------------------------
ProcessEvent(n) ==
  SendToCoordinator(n) \/ Discard(n) \/ MessageMSGCB(n) \/ StateChange(n) \/ HandleKeys(n)

Next ==
  \/ \E n \in Nodes : \/ HostWrites(n) \/ UartCB(n) \/ ProcessEvent(n) \/ Environment(n)
                      \/ \E e \in Timer : TimerExpires(n, e)
  \/ \E p \in air : Deliver(p) \/ LosePacket(p)

Spec == Init /\ [][Next]_vars

\* The OSAL loop polls the UART and runs every pending event, its timers expire,
\* and a packet that is sent again and again gets through.
FairSpec ==
  /\ Spec
  /\ \A n \in Nodes :
       /\ WF_vars(UartCB(n)) /\ WF_vars(ProcessEvent(n))
       /\ \A e \in Timer : WF_vars(TimerExpires(n, e))
       /\ SF_vars(\E p \in air : p.from = n /\ p.cluster = "DHT11" /\ Deliver(p))

-----------------------------------------------------------------------------

\* The loop of the resends never dies: no other event, and no state of the
\* network, loses its timer and its event both.
ResendAlive == \A n \in Nodes : "TO_COORDINATOR" \in events[n] \cup timers[n]

\* The coordinator hands on whole frames of some host only: bytes of two batches
\* never mix in the first two bytes of the buffer.
HandsOnFrames ==
  \A n \in Nodes : out[n] # <<>> /\ out[n] # <<"junk", "junk">> =>
    \E u \in Nodes : \E i \in 1 .. written[u] : out[n] = Frames[u][i]

\* The STM32 never takes up a command that a later one replaced: no resend of
\* the old buffer is handed on after the new one, while a resend arrives or is
\* lost within the two seconds of the next.  For every host the nodes are a LastWord.
Radio(n) == INSTANCE LastWord WITH Last <- Len(Frames[n]), written <- written[n], handed <- handed[n]
LastWordSpec ==
  /\ \A n \in Nodes : Radio(n)!Init
  /\ [][\A n \in Nodes : [Radio(n)!Next]_(Radio(n)!vars)]_vars

Member == \A n \in Nodes : joined[n]

\* The last command of a host gets through any losses, again and again, if the driver
\* has passed on the ones before it when it comes.  Of commands that reach the driver
\* between two polls only the first is ever handed on (SampleApp_MessageMSGCB writes
\* two bytes), so the last one of such a batch never arrives.
LastCommandArrives ==
  \A n \in {u \in Nodes : Frames[u] # <<>>} :
    LET all == Len(Frames[n])
    IN [](written[n] = all => Len(rx[n]) <= 2) /\ <>[](Member /\ written[n] = all)
         => []<>(out[Coordinator] = Frames[n][all])
=============================================================================
