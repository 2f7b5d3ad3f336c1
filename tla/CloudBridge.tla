---------------------------- MODULE CloudBridge ----------------------------
(***************************************************************************)
(* The ESP32 between the cloud and USART3 of the STM32.  Its loop          *)
(* reconnects when it must, lets PubSubClient handle one packet, and then, *)
(* when anything lies in the serial buffer, reads until a second passes    *)
(* without a byte and publishes what it has read.  callback turns a        *)
(* property set into commands, one line each, and answers it.              *)
(*                                                                         *)
(* The broker keeps nothing for a client that is away (a clean session,    *)
(* quality of service 0), and what a broken connection carried is gone.    *)
(* The other side of the serial line never ends its reports and the debug  *)
(* lines of its tasks.  What a publication holds is left out.              *)
(***************************************************************************)
EXTENDS Naturals, Sequences, FiniteSets, SequencesExt

CONSTANTS
  Sets,        \* the property sets of the cloud, in order: [SUBSET Key -> BOOLEAN]
  MaxParams,   \* the params that fit the 100 bytes of the document
  RxLen,       \* the lines that fit the serial receive buffer
  MaxDrops     \* bound on how often the connection breaks

Key   == {"air", "led", "window", "beep"}
Order == <<"air", "led", "window", "beep">>
Ids   == DOMAIN Sets

ASSUME BridgeAssumption ==
  /\ Sets \in Seq(UNION {[K -> BOOLEAN] : K \in SUBSET Key})
  /\ MaxParams \in Nat /\ RxLen \in Nat \ {0} /\ MaxDrops \in Nat

VARIABLES
  issued,      \* how many sets the cloud has sent
  connected,   \* client.connected()
  sub,         \* the subscription of this connection: not asked for, asked for,
               \* on, or refused; the broker passes the sets on when it is on
  inbox,       \* the sets on their way in the connection
  pc,          \* where the loop is
  cur, todo,   \* the set in callback, and the keys not yet tested
  line,        \* what Serial.println has written
  replied,     \* the sets that an answer was published for
  rx,          \* the lines in the serial receive buffer
  missed,      \* history: the sets that met a deaf bridge, or a connection that broke
  drops

cloud == <<issued, replied, missed>>
net   == <<connected, sub, inbox, drops>>
call  == <<cur, todo, line>>
vars  == <<cloud, net, call, pc, rx>>

\* What the STM32 has to do for a set, and when it has been told all of it.
Command(n, k) == [set |-> n, key |-> k, on |-> Sets[n][k]]
Done(n)       == \A k \in DOMAIN Sets[n] : Command(n, k) \in ToSet(line)

Fits(n) == Cardinality(DOMAIN Sets[n]) <= MaxParams

TypeOK ==
  /\ issued \in 0 .. Len(Sets) /\ replied \subseteq Ids /\ missed \subseteq Ids
  /\ connected \in BOOLEAN
  /\ sub \in {"none", "asked", "on", "refused"} /\ (sub # "none" => connected)
  /\ inbox \in Seq(Ids) /\ (inbox # <<>> => sub = "on")
  /\ pc \in {"top", "subscribe", "poll", "callback", "reply", "serial", "read"}
  /\ cur \in Ids \cup {0} /\ (cur = 0 <=> pc \notin {"callback", "reply"})
  /\ todo \in Seq(Key)
  /\ line \in Seq([set : Ids, key : Key, on : BOOLEAN])
  /\ rx \in 0 .. RxLen /\ drops \in 0 .. MaxDrops

Init ==
  /\ issued = 0 /\ replied = {} /\ missed = {}
  /\ connected = FALSE /\ sub = "none" /\ inbox = <<>> /\ drops = 0
  /\ cur = 0 /\ todo = <<>> /\ line = <<>>
  /\ pc = "top" /\ rx = 0

-----------------------------------------------------------------------------
(* The cloud, the connection and the STM32. *)

\* No set gets through: no connection, one that is not subscribed yet, or one whose
\* subscription was refused, which nobody looks at.
Deaf == ~ connected \/ pc = "subscribe" \/ sub \in {"asked", "refused"}

Issue ==
  /\ issued < Len(Sets)
  /\ issued' = issued + 1
  /\ inbox' = IF sub = "on" THEN Append(inbox, issued') ELSE inbox
  /\ missed' = IF Deaf THEN missed \cup {issued'} ELSE missed
  /\ UNCHANGED <<replied, connected, sub, drops, call, pc, rx>>

\* The broker takes up the subscription.
Grant ==
  /\ sub = "asked"
  /\ sub' = "on"
  /\ UNCHANGED <<cloud, connected, inbox, drops, call, pc, rx>>

\* Fault: what is under way outlives the connection.
DropKeepsInbox ==
  /\ connected
  /\ drops < MaxDrops
  /\ drops' = drops + 1
  /\ connected' = FALSE /\ sub' = "none"
  /\ UNCHANGED <<cloud, inbox, call, pc, rx>>

Drop ==
  /\ connected
  /\ drops < MaxDrops
  /\ drops' = drops + 1
  /\ connected' = FALSE /\ sub' = "none" /\ inbox' = <<>>
  /\ missed' = missed \cup ToSet(inbox)
  /\ UNCHANGED <<issued, replied, call, pc, rx>>

\* A line that finds the buffer full is lost.
Arrive ==
  /\ rx < RxLen
  /\ rx' = rx + 1
  /\ UNCHANGED <<cloud, net, call, pc>>

-----------------------------------------------------------------------------
(* loop *)

Goto(from, to) == pc = from /\ pc' = to

Connected ==
  /\ Goto("top", "poll")
  /\ connected
  /\ UNCHANGED <<cloud, net, call, rx>>

\* Fault: the subscription is taken to outlive the connection.
ConnectNoSubscribe ==
  /\ pc = "top" /\ ~ connected
  /\ connected' = TRUE
  /\ pc' = IF drops = 0 THEN "subscribe" ELSE "top"
  /\ UNCHANGED <<cloud, sub, inbox, drops, call, rx>>

\* reconnect, client.connect: an attempt that fails waits and is made again.
Connect ==
  /\ Goto("top", "subscribe")
  /\ ~ connected
  /\ connected' = TRUE
  /\ UNCHANGED <<cloud, sub, inbox, drops, call, rx>>

\* client.subscribe.  The result, and what the broker says to it later, are ignored.
Subscribe ==
  /\ Goto("subscribe", "top")
  /\ sub' \in IF connected THEN {"asked", "refused"} ELSE {sub}
  /\ UNCHANGED <<cloud, connected, inbox, drops, call, rx>>

\* Fault: the client is served when the serial buffer is empty.
PollWhenQuiet ==
  /\ pc = "poll"
  /\ IF inbox = <<>> \/ ~ connected \/ rx # 0
     THEN pc' = "serial" /\ UNCHANGED <<inbox, cur, todo>>
     ELSE /\ inbox' = Tail(inbox)
          /\ IF Fits(Head(inbox))
             THEN cur' = Head(inbox) /\ todo' = Order /\ pc' = "callback"
             ELSE pc' = "serial" /\ UNCHANGED <<cur, todo>>
  /\ UNCHANGED <<cloud, connected, sub, drops, line, rx>>

\* client.loop: one packet, and callback up to deserializeJson, which fails on a
\* set with too many params: no command and no answer.
Poll ==
  /\ pc = "poll"
  /\ IF inbox = <<>> \/ ~ connected
     THEN pc' = "serial" /\ UNCHANGED <<inbox, cur, todo>>
     ELSE /\ inbox' = Tail(inbox)
          /\ IF Fits(Head(inbox))
             THEN cur' = Head(inbox) /\ todo' = Order /\ pc' = "callback"
             ELSE pc' = "serial" /\ UNCHANGED <<cur, todo>>
  /\ UNCHANGED <<cloud, connected, sub, drops, line, rx>>

\* Fault: the tests are a chain of else if.
TestParamChain ==
  LET k == Head(todo)
      has == k \in DOMAIN Sets[cur]
  IN /\ pc = "callback"
     /\ todo' = IF has THEN <<>> ELSE Tail(todo)
     /\ line' = IF has THEN Append(line, Command(cur, k)) ELSE line
     /\ pc' = IF todo' = <<>> THEN "reply" ELSE "callback"
     /\ UNCHANGED <<cloud, net, cur, rx>>

\* if (params.containsKey(key)) Serial.println(...), one key after the other.
TestParam ==
  LET k == Head(todo)
      has == k \in DOMAIN Sets[cur]
  IN /\ pc = "callback"
     /\ todo' = Tail(todo)
     /\ line' = IF has THEN Append(line, Command(cur, k)) ELSE line
     /\ pc' = IF todo' = <<>> THEN "reply" ELSE "callback"
     /\ UNCHANGED <<cloud, net, cur, rx>>

\* delay(100) and the answer, whose failure is not looked at.  A comment beside it
\* says that OneNET does not get it even when it went out.
Reply ==
  /\ Goto("reply", "serial")
  /\ replied' = IF connected THEN replied \cup {cur} ELSE replied
  /\ cur' = 0
  /\ UNCHANGED <<issued, missed, net, todo, line, rx>>

Available ==
  /\ pc = "serial"
  /\ pc' = IF rx # 0 THEN "read" ELSE "top"
  /\ UNCHANGED <<cloud, net, call, rx>>

\* readString goes on while lines come within a second of each other.
ReadLine ==
  /\ pc = "read" /\ rx # 0
  /\ rx' = rx - 1
  /\ UNCHANGED <<cloud, net, call, pc>>

\* A second without a byte.  Nobody looks at whether the publication went out.
Publish ==
  /\ Goto("read", "top")
  /\ rx = 0
  /\ UNCHANGED <<cloud, net, call, rx>>

-----------------------------------------------------------------------------
Loop ==
  \/ Connected \/ Connect \/ Subscribe \/ Poll \/ TestParam \/ Reply
  \/ Available \/ ReadLine \/ Publish

Next == Issue \/ Grant \/ Drop \/ Arrive \/ Loop

Spec == Init /\ [][Next]_vars

\* The sketch runs and the broker takes the connection in the end.  A line that is
\* never silent for a second keeps readString for ever.
FairSpec == Spec /\ WF_vars(Loop)
-----------------------------------------------------------------------------
\* "success" is published only for a set that fitted the document and of which every
\* command had been written by then; the sets that did not fit leave no command
\* behind, and the line carries the commands in the order of the cloud, whatever the
\* connection did.  What the STM32 makes of the line is module Controller's.
RepliedIsDone ==
  /\ \A n \in replied : Done(n) /\ Fits(n)
  /\ \A i \in DOMAIN line : Fits(line[i].set)
  /\ \A i, j \in DOMAIN line : i <= j => line[i].set <= line[j].set

\* The ways to lose a set are a bridge that is not connected, or not subscribed yet, or
\* was refused, a connection that breaks with the set under way, and a set that does
\* not fit the document: a bridge that comes back asks again, and reading the serial
\* line between two polls loses none.
NoSetVanishes ==
  \A n \in 1 .. issued :
    n \in ToSet(inbox) \cup {cur} \cup missed \/ Done(n) \/ ~ Fits(n)

\* If readString returns again and again, a set that fits and has reached the
\* bridge is done, unless the connection breaks first.
SetReaches ==
  []<>(pc # "read") =>
    \A n \in Ids : (n \in ToSet(inbox) /\ Fits(n)) ~> (Done(n) \/ n \in missed)
=============================================================================
