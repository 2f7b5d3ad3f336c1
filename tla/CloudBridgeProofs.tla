------------------------- MODULE CloudBridgeProofs -------------------------
(***************************************************************************)
(* Proofs about module CloudBridge, for any sequence of property sets, any *)
(* size of the document and of the buffer, and any number of breaks.       *)
(***************************************************************************)
EXTENDS CloudBridge, TLAPS

\* Where the loop is in callback.
Control ==
  /\ connected /\ sub = "none" => pc = "subscribe"
  /\ pc = "subscribe" => sub = "none"
  /\ pc = "callback" => todo # <<>>
  /\ pc # "callback" => todo = <<>>
  /\ cur # 0 => cur \in 1 .. issued /\ Fits(cur)

\* A key of the set in callback that is not to be tested any more is written.
Tested ==
  cur # 0 => \A k \in DOMAIN Sets[cur] : k \in ToSet(todo) \/ Command(cur, k) \in ToSet(line)

\* The line, the set in callback and the sets on their way are in the order of
\* the cloud.
Ordered ==
  /\ \A i, j \in DOMAIN inbox : i < j => inbox[i] < inbox[j]
  /\ \A i \in DOMAIN inbox : cur < inbox[i] /\ inbox[i] <= issued
  /\ \A i \in DOMAIN line : /\ line[i].set <= issued /\ (cur # 0 => line[i].set <= cur)
                            /\ \A j \in DOMAIN inbox : line[i].set < inbox[j]
  /\ \A i, j \in DOMAIN line : i <= j => line[i].set <= line[j].set

IInv == TypeOK /\ Control /\ Tested /\ Ordered /\ RepliedIsDone /\ NoSetVanishes
-----------------------------------------------------------------------------
(* Facts about sequences and sets. *)

LEMMA TailFacts ==
  ASSUME NEW S, NEW s \in Seq(S), s # <<>>
  PROVE  /\ Tail(s) \in Seq(S) /\ Head(s) = s[1] /\ 1 \in DOMAIN s /\ s[1] \in S
         /\ \A i \in DOMAIN Tail(s) : i + 1 \in DOMAIN s /\ Tail(s)[i] = s[i + 1] /\ i \in Nat \ {0}
         /\ ToSet(s) = {s[1]} \cup ToSet(Tail(s))
<1>1. /\ Tail(s) \in Seq(S) /\ Head(s) = s[1] /\ 1 \in DOMAIN s /\ s[1] \in S
      /\ \A i \in DOMAIN Tail(s) : i + 1 \in DOMAIN s /\ Tail(s)[i] = s[i + 1] /\ i \in Nat \ {0}
  OBVIOUS
<1>2. \A i \in DOMAIN s : i = 1 \/ (i - 1 \in DOMAIN Tail(s) /\ Tail(s)[i - 1] = s[i])
  OBVIOUS
<1>3. \A i \in DOMAIN s : s[i] \in {s[1]} \cup ToSet(Tail(s))
  BY ONLY <1>2 DEF ToSet
<1>4. s[1] \in ToSet(s) /\ \A i \in DOMAIN Tail(s) : Tail(s)[i] \in ToSet(s)
  BY ONLY <1>1 DEF ToSet
<1>5. ToSet(s) = {s[1]} \cup ToSet(Tail(s))
  BY ONLY <1>3, <1>4 DEF ToSet
<1>6. QED
  BY ONLY <1>1, <1>5

LEMMA AppendFacts ==
  ASSUME NEW S, NEW s \in Seq(S), NEW x \in S
  PROVE  /\ Append(s, x) \in Seq(S)
         /\ \A i \in DOMAIN Append(s, x) :
              \/ i \in DOMAIN s /\ Append(s, x)[i] = s[i]
              \/ i = Len(s) + 1 /\ Append(s, x)[i] = x
         /\ \A i \in DOMAIN s : i < Len(s) + 1 /\ i \in Nat
         /\ ToSet(Append(s, x)) = ToSet(s) \cup {x}
<1>1. /\ Append(s, x) \in Seq(S)
      /\ \A i \in DOMAIN Append(s, x) :
           \/ i \in DOMAIN s /\ Append(s, x)[i] = s[i]
           \/ i = Len(s) + 1 /\ Append(s, x)[i] = x
      /\ \A i \in DOMAIN s : i < Len(s) + 1 /\ i \in Nat
  OBVIOUS
<1>2. /\ \A i \in DOMAIN s : i \in DOMAIN Append(s, x) /\ Append(s, x)[i] = s[i]
      /\ Len(s) + 1 \in DOMAIN Append(s, x) /\ Append(s, x)[Len(s) + 1] = x
  OBVIOUS
<1>3. QED
  BY ONLY <1>1, <1>2 DEF ToSet

LEMMA SetFacts ==
  /\ Ids = 1 .. Len(Sets) /\ Len(Sets) \in Nat
  /\ \A n \in Ids : /\ DOMAIN Sets[n] \subseteq Key
                    /\ \A k \in DOMAIN Sets[n] :
                         Command(n, k) \in [set : Ids, key : Key, on : BOOLEAN] /\ Command(n, k).set = n
<1>1. Ids = 1 .. Len(Sets) /\ Len(Sets) \in Nat
  BY BridgeAssumption DEF Ids
<1>2. ASSUME NEW n \in Ids
      PROVE  /\ DOMAIN Sets[n] \subseteq Key
             /\ \A k \in DOMAIN Sets[n] :
                  Command(n, k) \in [set : Ids, key : Key, on : BOOLEAN] /\ Command(n, k).set = n
  <2>1. PICK K \in SUBSET Key : Sets[n] \in [K -> BOOLEAN]
    BY BridgeAssumption DEF Ids
  <2>2. \A k \in K : Sets[n][k] \in BOOLEAN /\ DOMAIN Sets[n] = K
    BY <2>1
  <2>3. QED
    BY <2>1, <2>2 DEF Command
<1>3. QED
  BY <1>1, <1>2

LEMMA LineNumbers ==
  ASSUME TypeOK
  PROVE  \A i \in DOMAIN line : line[i].set \in Ids /\ line[i].set \in Nat
<1>1. line \in Seq([set : Ids, key : Key, on : BOOLEAN])
  BY DEF TypeOK
<1>2. \A i \in DOMAIN line : line[i] \in [set : Ids, key : Key, on : BOOLEAN]
  <2>1. \A S : \A s \in Seq(S) : \A i \in DOMAIN s : s[i] \in S
    OBVIOUS
  <2>2. QED
    BY ONLY <1>1, <2>1
<1>3. Ids \subseteq Nat
  BY SetFacts
<1>4. QED
  BY ONLY <1>2, <1>3
-----------------------------------------------------------------------------

LEMMA InitIInv == Init => IInv
<1> SUFFICES ASSUME Init PROVE IInv
  OBVIOUS
<1> USE BridgeAssumption, SetFacts DEF Init
<1>1. TypeOK
  <2>1. /\ inbox \in Seq(Ids) /\ todo \in Seq(Key)
        /\ line \in Seq([set : Ids, key : Key, on : BOOLEAN])
    OBVIOUS
  <2>2. issued \in 0 .. Len(Sets) /\ rx \in 0 .. RxLen /\ drops \in 0 .. MaxDrops
    OBVIOUS
  <2>3. QED
    BY <2>1, <2>2 DEF TypeOK
<1>2. Control /\ Tested
  BY DEF Control, Tested
<1>3. Ordered /\ RepliedIsDone
  BY DEF Ordered, RepliedIsDone
<1>4. NoSetVanishes
  BY DEF NoSetVanishes
<1>5. QED
  BY <1>1, <1>2, <1>3, <1>4 DEF IInv

\* The steps that touch neither the sets nor the line.
LEMMA QuietKeeps ==
  ASSUME IInv, UNCHANGED <<cloud, inbox, call>>, TypeOK', Control'
  PROVE  IInv'
<1> USE DEF cloud, call
<1>1. UNCHANGED <<issued, replied, missed, inbox, cur, todo, line>>
  OBVIOUS
<1>2. QED
  BY ONLY IInv, <1>1, TypeOK', Control' DEF IInv, Tested, Ordered, RepliedIsDone, NoSetVanishes, Done

LEMMA IssueKeeps ==
  ASSUME IInv, Issue
  PROVE  IInv'
<1> USE DEF Issue, cloud, net, call
<1>1. issued \in Nat /\ issued' = issued + 1 /\ issued' \in Ids
  BY SetFacts DEF IInv, TypeOK
<1>2. UNCHANGED <<replied, connected, sub, drops, cur, todo, line, pc, rx>>
  OBVIOUS
<1>3. CASE sub = "on"
  <2>1. inbox' = Append(inbox, issued') /\ inbox \in Seq(Ids) /\ missed' = missed
    <3>1. ~ Deaf
      BY <1>3 DEF IInv, TypeOK, Control, Deaf
    <3>2. QED
      BY <1>3, <3>1 DEF IInv, TypeOK
  <2>2. /\ inbox' \in Seq(Ids) /\ ToSet(inbox') = ToSet(inbox) \cup {issued'}
        /\ \A i \in DOMAIN inbox' :
             \/ i \in DOMAIN inbox /\ inbox'[i] = inbox[i]
             \/ i = Len(inbox) + 1 /\ inbox'[i] = issued'
        /\ \A i \in DOMAIN inbox : i < Len(inbox) + 1 /\ i \in Nat
    <3>1. inbox \in Seq(Ids) /\ issued' \in Ids /\ inbox' = Append(inbox, issued')
      BY ONLY <1>1, <2>1
    <3>2. \A x \in Ids :
            /\ Append(inbox, x) \in Seq(Ids) /\ ToSet(Append(inbox, x)) = ToSet(inbox) \cup {x}
            /\ \A i \in DOMAIN Append(inbox, x) :
                 \/ i \in DOMAIN inbox /\ Append(inbox, x)[i] = inbox[i]
                 \/ i = Len(inbox) + 1 /\ Append(inbox, x)[i] = x
            /\ \A i \in DOMAIN inbox : i < Len(inbox) + 1 /\ i \in Nat
      BY ONLY <3>1, AppendFacts
    <3>3. /\ Append(inbox, issued') \in Seq(Ids)
          /\ ToSet(Append(inbox, issued')) = ToSet(inbox) \cup {issued'}
          /\ \A i \in DOMAIN Append(inbox, issued') :
               \/ i \in DOMAIN inbox /\ Append(inbox, issued')[i] = inbox[i]
               \/ i = Len(inbox) + 1 /\ Append(inbox, issued')[i] = issued'
          /\ \A i \in DOMAIN inbox : i < Len(inbox) + 1 /\ i \in Nat
      BY ONLY <3>1, <3>2
    <3>4. QED
      BY ONLY <3>1, <3>3
  <2>3. TypeOK' /\ Control' /\ Tested' /\ RepliedIsDone'
    <3>1. /\ issued' \in 0 .. Len(Sets) /\ inbox' \in Seq(Ids) /\ missed' = missed
          /\ sub = "on" /\ issued \in Nat /\ issued' = issued + 1
      BY <1>1, <1>3, <2>1, <2>2, SetFacts
    <3>2. TypeOK'
      BY ONLY IInv, <1>2, <3>1 DEF IInv, TypeOK
    <3>3. cur # 0 => cur \in 1 .. issued'
      BY <3>1 DEF IInv, Control
    <3>4. Control'
      BY ONLY IInv, <1>2, <3>3 DEF IInv, Control, Fits
    <3>5. Tested' /\ RepliedIsDone'
      BY ONLY IInv, <1>2 DEF IInv, Tested, RepliedIsDone, Done, Command, Fits
    <3>6. QED
      BY ONLY <3>2, <3>4, <3>5
  <2>4. \A i \in DOMAIN inbox : inbox[i] <= issued /\ inbox[i] \in Nat /\ cur < inbox[i] /\ cur \in Nat
    BY SetFacts DEF IInv, Ordered, TypeOK
  <2>5. cur <= issued /\ \A i \in DOMAIN line : line[i].set <= issued /\ line[i].set \in Nat
    <3>1. cur <= issued
      BY <1>1 DEF IInv, TypeOK, Control
    <3>2. QED
      BY <3>1, LineNumbers DEF IInv, Ordered
  <2>6. \A i, j \in DOMAIN inbox' : i < j => inbox'[i] < inbox'[j]
    BY <1>1, <2>2, <2>4 DEF IInv, Ordered
  <2>7. \A i \in DOMAIN inbox' : cur < inbox'[i] /\ inbox'[i] <= issued'
    BY <1>1, <2>2, <2>4, <2>5, SetFacts DEF IInv, TypeOK
  <2>8. \A i \in DOMAIN line : /\ line[i].set <= issued' /\ (cur # 0 => line[i].set <= cur)
                               /\ \A j \in DOMAIN inbox' : line[i].set < inbox'[j]
    BY <1>1, <2>2, <2>5 DEF IInv, Ordered
  <2>9. Ordered'
    BY ONLY IInv, <1>2, <2>6, <2>7, <2>8 DEF IInv, Ordered
  <2>10. NoSetVanishes'
    BY <1>1, <1>2, <2>1, <2>2 DEF IInv, NoSetVanishes, Done
  <2>11. QED
    BY <2>3, <2>9, <2>10 DEF IInv
<1>4. CASE sub # "on"
  <2>1. inbox' = inbox /\ inbox = <<>> /\ missed' = missed \cup {issued'}
    <3>1. Deaf
      BY <1>4 DEF IInv, TypeOK, Control, Deaf
    <3>2. QED
      BY <1>4, <3>1 DEF IInv, TypeOK
  <2>2. TypeOK' /\ Control' /\ Tested' /\ RepliedIsDone'
    BY <1>1, <1>2, <1>4, <2>1, SetFacts DEF IInv, TypeOK, Control, Tested, RepliedIsDone, Done
  <2>3. DOMAIN inbox = {}
    BY <2>1
  <2>4. \A i \in DOMAIN line : line[i].set <= issued'
    <3>1. \A i \in DOMAIN line : line[i].set \in Nat
      BY LineNumbers DEF IInv
    <3>2. QED
      BY <1>1, <3>1 DEF IInv, Ordered
  <2>5. Ordered'
    BY ONLY IInv, <1>2, <2>1, <2>3, <2>4 DEF IInv, Ordered
  <2>6. NoSetVanishes'
    BY <1>1, <1>2, <2>1 DEF IInv, NoSetVanishes, Done
  <2>7. QED
    BY <2>2, <2>5, <2>6 DEF IInv
<1>5. QED
  BY <1>3, <1>4

LEMMA DropKeeps ==
  ASSUME IInv, Drop
  PROVE  IInv'
<1> USE DEF Drop, cloud, net, call
<1>1. /\ UNCHANGED <<issued, replied, cur, todo, line, pc, rx>> /\ inbox' = <<>>
      /\ missed' = missed \cup ToSet(inbox)
  OBVIOUS
<1>2. TypeOK'
  <2>1. ToSet(inbox) \subseteq Ids
    BY DEF IInv, TypeOK, ToSet
  <2>2. drops' \in 0 .. MaxDrops
    BY BridgeAssumption DEF IInv, TypeOK
  <2>3. inbox' \in Seq(Ids) /\ missed' \subseteq Ids
    BY <1>1, <2>1 DEF IInv, TypeOK
  <2>4. connected' = FALSE /\ sub' = "none"
    OBVIOUS
  <2>5. inbox' = <<>>
    BY <1>1
  <2>6. QED
    BY ONLY IInv, <1>1, <2>2, <2>3, <2>4, <2>5 DEF IInv, TypeOK
<1>3. Control'
  BY <1>1 DEF IInv, Control
<1>4. DOMAIN inbox' = {}
  BY <1>1
<1>5. QED
  BY ONLY IInv, <1>1, <1>2, <1>3, <1>4 DEF IInv, Tested, Ordered, RepliedIsDone, NoSetVanishes, Done

LEMMA PollKeeps ==
  ASSUME IInv, Poll
  PROVE  IInv'
<1> USE DEF Poll, cloud, net
<1>1. UNCHANGED <<cloud, connected, sub, drops, line, rx>> /\ cur = 0 /\ todo = <<>>
  BY DEF IInv, TypeOK, Control
<1>2. CASE inbox = <<>> \/ ~ connected
  <2>1. TypeOK' /\ Control' /\ UNCHANGED call
    BY <1>1, <1>2 DEF IInv, TypeOK, Control, call
  <2>2. QED
    BY <1>2, <2>1, QuietKeeps
<1>3. CASE ~ (inbox = <<>> \/ ~ connected)
  <2>1. PICK n : n = Head(inbox)
    OBVIOUS
  <2>2. /\ inbox' \in Seq(Ids) /\ n = inbox[1] /\ 1 \in DOMAIN inbox /\ n \in Ids
        /\ \A i \in DOMAIN inbox' : i + 1 \in DOMAIN inbox /\ inbox'[i] = inbox[i + 1] /\ i \in Nat \ {0}
        /\ ToSet(inbox) = {n} \cup ToSet(inbox')
    <3>1. \A s \in Seq(Ids) : s # <<>> =>
            /\ Tail(s) \in Seq(Ids) /\ Head(s) = s[1] /\ 1 \in DOMAIN s /\ s[1] \in Ids
            /\ \A i \in DOMAIN Tail(s) : i + 1 \in DOMAIN s /\ Tail(s)[i] = s[i + 1] /\ i \in Nat \ {0}
            /\ ToSet(s) = {s[1]} \cup ToSet(Tail(s))
      BY ONLY TailFacts
    <3>2. inbox \in Seq(Ids) /\ inbox # <<>> /\ inbox' = Tail(inbox)
      BY <1>3 DEF IInv, TypeOK
    <3>3. QED
      BY ONLY <2>1, <3>1, <3>2
  <2>3. \A i \in DOMAIN inbox' : n < inbox'[i] /\ inbox'[i] <= issued
    BY <2>2 DEF IInv, Ordered
  <2>4. n \in 1 .. issued /\ n # 0
    BY <2>2, SetFacts DEF IInv, Ordered, TypeOK
  <2>5. \A i, j \in DOMAIN inbox' : i < j => inbox'[i] < inbox'[j]
    <3>1. \A i, j \in DOMAIN inbox' : i < j => i + 1 < j + 1
      BY <2>2
    <3>2. QED
      BY <2>2, <3>1 DEF IInv, Ordered
  <2>6. \A i \in DOMAIN line : line[i].set < n /\ line[i].set <= n
                               /\ \A j \in DOMAIN inbox' : line[i].set < inbox'[j]
    <3>1. \A i \in DOMAIN line : line[i].set < n /\ line[i].set \in Nat
      BY <2>2, LineNumbers DEF IInv, Ordered
    <3>2. n \in Nat
      BY <2>2, SetFacts
    <3>3. QED
      BY <2>2, <3>1, <3>2 DEF IInv, Ordered
  <2>7. CASE Fits(n)
    <3>1. cur' = n /\ todo' = Order /\ pc' = "callback"
      BY <1>3, <2>1, <2>7
    <3>2. Order \in Seq(Key) /\ Order # <<>> /\ ToSet(Order) = Key
      BY DEF Order, Key, ToSet
    <3>3. TypeOK'
      BY <1>1, <1>3, <2>2, <2>4, <3>1, <3>2 DEF IInv, TypeOK, Control
    <3>4. Control' /\ Tested'
      BY <1>1, <2>2, <2>4, <2>7, <3>1, <3>2, SetFacts DEF IInv, Control, Tested, Fits
    <3>5. Ordered' /\ RepliedIsDone'
      BY ONLY IInv, <1>1, <2>3, <2>5, <2>6, <3>1 DEF IInv, Ordered, RepliedIsDone, Done, cloud
    <3>6. NoSetVanishes'
      BY ONLY IInv, <1>1, <2>2, <3>1 DEF IInv, NoSetVanishes, Done, cloud
    <3>7. QED
      BY <3>3, <3>4, <3>5, <3>6 DEF IInv
  <2>8. CASE ~ Fits(n)
    <3>1. UNCHANGED <<cur, todo>> /\ pc' = "serial"
      BY <1>3, <2>1, <2>8
    <3>2. TypeOK' /\ Control' /\ Tested'
      BY <1>1, <1>3, <2>2, <3>1 DEF IInv, TypeOK, Control, Tested
    <3>3. \A i \in DOMAIN inbox' : cur < inbox'[i]
      BY <1>1, <2>2, SetFacts
    <3>4. Ordered' /\ RepliedIsDone'
      BY ONLY IInv, <1>1, <2>3, <2>5, <2>6, <3>1, <3>3 DEF IInv, Ordered, RepliedIsDone, Done, cloud
    <3>5. NoSetVanishes'
      BY ONLY IInv, <1>1, <2>2, <2>8, <3>1 DEF IInv, NoSetVanishes, Done, cloud
    <3>6. QED
      BY <3>2, <3>4, <3>5 DEF IInv
  <2>9. QED
    BY <2>7, <2>8
<1>4. QED
  BY <1>2, <1>3
\* A test writes the command for its key, or there is none to write.
LEMMA TestParamKeeps ==
  ASSUME IInv, TestParam
  PROVE  IInv'
<1> USE DEF cloud, net
<1>1. PICK k : k = Head(todo)
  OBVIOUS
<1>2. /\ UNCHANGED <<issued, replied, missed, connected, sub, inbox, drops, cur, rx>>
      /\ todo' = Tail(todo) /\ pc' = IF todo' = <<>> THEN "reply" ELSE "callback"
      /\ line' = IF k \in DOMAIN Sets[cur] THEN Append(line, Command(cur, k)) ELSE line
      /\ pc = "callback"
  BY <1>1 DEF TestParam
<1>3. /\ todo \in Seq(Key) /\ todo # <<>> /\ cur \in Ids /\ cur \in 1 .. issued /\ issued \in Nat
      /\ cur # 0 /\ Fits(cur)
  BY <1>2, SetFacts DEF IInv, TypeOK, Control
<1>4. todo' \in Seq(Key) /\ ToSet(todo) = {k} \cup ToSet(todo')
  <2>1. \A s \in Seq(Key) : s # <<>> =>
          Tail(s) \in Seq(Key) /\ Head(s) = s[1] /\ ToSet(s) = {s[1]} \cup ToSet(Tail(s))
    BY ONLY TailFacts
  <2>2. QED
    BY ONLY <1>1, <1>2, <1>3, <2>1
<1>5. \A n, j : Command(n, j)' = Command(n, j)
  BY DEF Command
<1>6. Control'
  BY ONLY IInv, <1>2, <1>3 DEF IInv, Control, Fits
<1>7. CASE k \in DOMAIN Sets[cur]
  <2>1. PICK c : c = Command(cur, k)
    OBVIOUS
  <2>2. c \in [set : Ids, key : Key, on : BOOLEAN] /\ c.set = cur
    BY <1>3, <1>7, <2>1, SetFacts
  <2>3. /\ line' \in Seq([set : Ids, key : Key, on : BOOLEAN])
        /\ \A i \in DOMAIN line' : \/ i \in DOMAIN line /\ line'[i] = line[i]
                                   \/ i = Len(line) + 1 /\ line'[i] = c
        /\ \A i \in DOMAIN line : i < Len(line) + 1 /\ i \in Nat
        /\ ToSet(line') = ToSet(line) \cup {c}
    <3>1. PICK S : S = [set : Ids, key : Key, on : BOOLEAN]
      OBVIOUS
    <3>2. \A s \in Seq(S), x \in S :
            /\ Append(s, x) \in Seq(S)
            /\ \A i \in DOMAIN Append(s, x) :
                 \/ i \in DOMAIN s /\ Append(s, x)[i] = s[i]
                 \/ i = Len(s) + 1 /\ Append(s, x)[i] = x
            /\ \A i \in DOMAIN s : i < Len(s) + 1 /\ i \in Nat
            /\ ToSet(Append(s, x)) = ToSet(s) \cup {x}
      BY ONLY AppendFacts
    <3>3. line \in Seq(S) /\ line' = Append(line, c) /\ c \in S
      BY <1>2, <1>7, <2>1, <2>2, <3>1 DEF IInv, TypeOK
    <3>4. QED
      BY ONLY <3>1, <3>2, <3>3
  <2>4. TypeOK'
    BY ONLY IInv, <1>2, <1>3, <1>4, <2>3 DEF IInv, TypeOK
  <2>5. Tested'
    BY ONLY IInv, <1>2, <1>3, <1>4, <1>5, <2>1, <2>3 DEF IInv, Tested
  <2>6. Ordered'
    <3>1. \A i \in DOMAIN line : line[i].set \in Nat /\ line[i].set <= cur
      BY <1>3, LineNumbers DEF IInv, Ordered
    <3>2. \A i \in DOMAIN line' : line'[i].set <= cur /\ line'[i].set <= issued
      BY <1>3, <2>2, <2>3, <3>1 DEF IInv, Ordered
    <3>3. \A i \in DOMAIN line', j \in DOMAIN inbox : line'[i].set < inbox[j]
      BY <2>2, <2>3 DEF IInv, Ordered
    <3>4. \A i, j \in DOMAIN line' : i <= j => line'[i].set <= line'[j].set
      BY <1>3, <2>2, <2>3, <3>1 DEF IInv, Ordered
    <3>5. QED
      BY ONLY IInv, <1>2, <3>2, <3>3, <3>4 DEF IInv, Ordered
  <2>7. RepliedIsDone' /\ NoSetVanishes'
    <3>1. \A n : Done(n) => Done(n)'
      BY ONLY <1>5, <2>3 DEF Done
    <3>2. \A i, j \in DOMAIN line' : i <= j => line'[i].set <= line'[j].set
      BY <2>6 DEF Ordered
    <3>3. \A i \in DOMAIN line' : Fits(line'[i].set)
      BY ONLY IInv, <1>3, <2>2, <2>3 DEF IInv, RepliedIsDone
    <3>4. QED
      BY ONLY IInv, <1>2, <3>1, <3>2, <3>3 DEF IInv, RepliedIsDone, NoSetVanishes, Fits
  <2>8. QED
    BY <1>6, <2>4, <2>5, <2>6, <2>7 DEF IInv
<1>8. CASE k \notin DOMAIN Sets[cur]
  <2>1. line' = line
    BY <1>2, <1>8
  <2>2. TypeOK'
    BY ONLY IInv, <1>2, <1>3, <1>4, <2>1 DEF IInv, TypeOK
  <2>3. Tested'
    BY ONLY IInv, <1>2, <1>3, <1>4, <1>5, <1>8, <2>1 DEF IInv, Tested
  <2>4. Ordered' /\ RepliedIsDone' /\ NoSetVanishes'
    BY ONLY IInv, <1>2, <1>5, <2>1 DEF IInv, Ordered, RepliedIsDone, NoSetVanishes, Done, Fits
  <2>5. QED
    BY <1>6, <2>2, <2>3, <2>4 DEF IInv
<1>9. QED
  BY <1>7, <1>8

\* Nothing is left to test when the answer is sent.
LEMMA ReplyKeeps ==
  ASSUME IInv, Reply
  PROVE  IInv'
<1> USE DEF Reply, Goto, net
<1>1. /\ UNCHANGED <<issued, missed, connected, sub, inbox, drops, todo, line, rx>>
      /\ pc = "reply" /\ pc' = "serial" /\ cur' = 0
      /\ replied' = IF connected THEN replied \cup {cur} ELSE replied
  OBVIOUS
<1>2. cur \in Ids /\ cur # 0 /\ todo = <<>>
  BY <1>1, SetFacts DEF IInv, TypeOK, Control
<1>3. ToSet(todo) = {}
  BY <1>2 DEF ToSet
<1>4. Done(cur)
  BY <1>2, <1>3 DEF IInv, Tested, Done
<1>5. \A n, j : Command(n, j)' = Command(n, j)
  BY DEF Command
<1>6. \A n : Done(n)' = Done(n)
  BY ONLY <1>1, <1>5 DEF Done
<1>7. TypeOK' /\ Control' /\ Tested'
  BY <1>1, <1>2 DEF IInv, TypeOK, Control, Tested
<1>8. \A i \in DOMAIN inbox : 0 < inbox[i]
  <2>1. \A i \in DOMAIN inbox : inbox[i] \in Ids
    BY DEF IInv, TypeOK
  <2>2. QED
    BY <2>1, SetFacts
<1>9. Ordered'
  BY ONLY IInv, <1>1, <1>8 DEF IInv, Ordered
<1>10. RepliedIsDone' /\ NoSetVanishes'
  <2>1. Fits(cur)
    BY <1>2 DEF IInv, Control
  <2>2. QED
    BY ONLY IInv, <1>1, <1>4, <1>6, <2>1 DEF IInv, RepliedIsDone, NoSetVanishes, Fits
<1>11. QED
  BY <1>7, <1>9, <1>10 DEF IInv

LEMMA StepIInv == IInv /\ [Next]_vars => IInv'
<1> SUFFICES ASSUME IInv, [Next]_vars PROVE IInv'
  OBVIOUS
<1>1. CASE Issue
  BY <1>1, IssueKeeps
<1>2. CASE Drop
  BY <1>2, DropKeeps
<1>3. CASE Arrive
  <2>1. TypeOK' /\ Control' /\ UNCHANGED <<cloud, inbox, call>>
    BY <1>3, BridgeAssumption DEF Arrive, IInv, TypeOK, Control, cloud, net, call
  <2>2. QED
    BY <2>1, QuietKeeps
<1>4. CASE Connected
  <2>1. TypeOK' /\ Control' /\ UNCHANGED <<cloud, inbox, call>>
    BY <1>4 DEF Connected, Goto, IInv, TypeOK, Control, cloud, net, call
  <2>2. QED
    BY <2>1, QuietKeeps
<1>5. CASE Connect
  <2>1. TypeOK' /\ Control' /\ UNCHANGED <<cloud, inbox, call>>
    BY <1>5 DEF Connect, Goto, IInv, TypeOK, Control, cloud, call
  <2>2. QED
    BY <2>1, QuietKeeps
<1>14. CASE Subscribe
  <2>1. TypeOK' /\ Control' /\ UNCHANGED <<cloud, inbox, call>>
    BY <1>14 DEF Subscribe, Goto, IInv, TypeOK, Control, cloud, call
  <2>2. QED
    BY <2>1, QuietKeeps
<1>15. CASE Grant
  <2>1. TypeOK' /\ Control' /\ UNCHANGED <<cloud, inbox, call>>
    BY <1>15 DEF Grant, IInv, TypeOK, Control, cloud, call
  <2>2. QED
    BY <2>1, QuietKeeps
<1>6. CASE Poll
  BY <1>6, PollKeeps
<1>7. CASE TestParam
  BY <1>7, TestParamKeeps
<1>8. CASE Reply
  BY <1>8, ReplyKeeps
<1>9. CASE Available
  <2>1. TypeOK' /\ Control' /\ UNCHANGED <<cloud, inbox, call>>
    BY <1>9 DEF Available, IInv, TypeOK, Control, cloud, net, call
  <2>2. QED
    BY <2>1, QuietKeeps
<1>10. CASE ReadLine
  <2>1. TypeOK' /\ Control' /\ UNCHANGED <<cloud, inbox, call>>
    BY <1>10, BridgeAssumption DEF ReadLine, IInv, TypeOK, Control, cloud, net, call
  <2>2. QED
    BY <2>1, QuietKeeps
<1>11. CASE Publish
  <2>1. TypeOK' /\ Control' /\ UNCHANGED <<cloud, inbox, call>>
    BY <1>11 DEF Publish, Goto, IInv, TypeOK, Control, cloud, net, call
  <2>2. QED
    BY <2>1, QuietKeeps
<1>12. CASE UNCHANGED vars
  <2>1. TypeOK' /\ Control' /\ UNCHANGED <<cloud, inbox, call>>
    BY <1>12 DEF vars, IInv, TypeOK, Control, cloud, net, call
  <2>2. QED
    BY <2>1, QuietKeeps
<1>13. QED
  BY <1>1, <1>2, <1>3, <1>4, <1>5, <1>6, <1>7, <1>8, <1>9, <1>10, <1>11, <1>12, <1>14, <1>15 DEF Next, Loop
-----------------------------------------------------------------------------

\* The inductive invariant holds in every behaviour of the bridge.
THEOREM Invariance == Spec => []IInv
<1>1. QED
  BY InitIInv, StepIInv, PTL DEF Spec

\* Every variable of the bridge keeps its type, whatever the cloud sends and
\* however often the connection breaks.
THEOREM TypeCorrect == Spec => []TypeOK
<1>1. IInv => TypeOK
  BY DEF IInv
<1>2. QED
  BY <1>1, Invariance, PTL

\* callback publishes a success only for a property set that it has written a command
\* for every param of; of a set that does not fit it writes none, and the commands of
\* two sets are never mixed or swapped.
THEOREM RepliedMeansDone == Spec => []RepliedIsDone
<1>1. IInv => RepliedIsDone
  BY DEF IInv
<1>2. QED
  BY <1>1, Invariance, PTL

\* A set that fits is lost only by the connection or the subscription: with connect
\* and subscribe apart, a subscription that may be refused or be granted late, and
\* breaks between any two steps, no other step of loop or callback loses one.
THEOREM NoSetIsLost == Spec => []NoSetVanishes
<1>1. IInv => NoSetVanishes
  BY DEF IInv
<1>2. QED
  BY <1>1, Invariance, PTL
=============================================================================
