------------------------- MODULE PanelSoundProofs -------------------------
(***************************************************************************)
(* Proofs about module PanelSound, and through it about VoiceLink, for any *)
(* sizes of the recordings, the blocks and the reads, and any words.       *)
(***************************************************************************)
EXTENDS PanelSound, TLAPS

\* Nothing is under way to the server, and it waits for a size or is about to.
Waits == up = <<>> /\ server \in {"open", "size"}

\* All that is under way is a piece of the recording.
OfRec == \A n \in DOMAIN up : up[n] = <<"word", rec>>

\* The one message under way to the client, or in its buffer, is the answer.
OneAnswer(s, n) == Len(s) = 1 /\ IsAnswer(s[1]) /\ s[1].of = {n}

\* Where the two sides are with one recording.
Between == down = <<>> /\ Waits
Asked   == \/ down = <<>> /\ up = <<<<"size", rec>>>> /\ server \in {"open", "size"}
           \/ Len(down) = 1 /\ down[1].said = "next!!!!" /\ up = <<>> /\ server = "file"
              /\ left = FileSize /\ file = {}
Sending == /\ down = <<>> /\ server = "file" /\ OfRec
           /\ unsent >= 1 /\ left = unsent + Len(up) /\ file \subseteq {rec}
Sent    == \/ down = <<>> /\ server = "file" /\ OfRec /\ left >= 1 /\ left = Len(up) /\ file \subseteq {rec}
           \/ down = <<>> /\ server = "recognise" /\ up = <<>> /\ file = {rec}
           \/ Waits /\ OneAnswer(down, rec)

InStep ==
  fails = 0 /\ server # "gone" =>
    /\ client # "killed"
    /\ client \in {"off", "size", "start"} => Between
    /\ client = "next" => Asked /\ unsent = FileSize
    /\ client = "file" => Sending
    /\ client = "answer" => Sent
    /\ client = "act" => Between /\ OneAnswer(heard, rec)

Empty == server = "size" /\ fails = 0 => file = {}

LinkInv == LinkTypeOK /\ InStep /\ Empty
-----------------------------------------------------------------------------
(* Facts about sequences. *)

LEMMA SeqFacts ==
  ASSUME NEW S, NEW s \in Seq(S)
  PROVE  /\ s # <<>> => Tail(s) \in Seq(S) /\ Head(s) \in S /\ Head(s) = s[1]
         /\ Len(s) = 1 => Tail(s) = <<>> /\ s # <<>>
         /\ \A r \in Seq(S) : s \o r \in Seq(S) /\ Len(s \o r) = Len(s) + Len(r)
         /\ \A r \in Seq(S) : \A m \in DOMAIN (s \o r) :
              (m \in DOMAIN s /\ (s \o r)[m] = s[m]) \/ \E j \in DOMAIN r : (s \o r)[m] = r[j]
         /\ \A x \in S : Append(s, x) \in Seq(S)
         /\ \A x : s = <<>> => Append(s, x) = <<x>> /\ Len(Append(s, x)) = 1 /\ Append(s, x)[1] = x
<1>1. /\ s # <<>> => Tail(s) \in Seq(S) /\ Head(s) \in S /\ Head(s) = s[1]
      /\ Len(s) = 1 => Tail(s) = <<>> /\ s # <<>>
  <2>1. s # <<>> => Tail(s) \in Seq(S) /\ Head(s) \in S /\ Head(s) = s[1] /\ Len(Tail(s)) = Len(s) - 1
    OBVIOUS
  <2>2. Len(s) = 1 => s # <<>> /\ Len(Tail(s)) = 0
    BY <2>1
  <2>3. \A r \in Seq(S) : Len(r) = 0 => r = <<>>
    OBVIOUS
  <2>4. QED
    BY <2>1, <2>2, <2>3
<1>2. \A r \in Seq(S) : s \o r \in Seq(S) /\ Len(s \o r) = Len(s) + Len(r)
  OBVIOUS
<1>3. ASSUME NEW r \in Seq(S), NEW m \in DOMAIN (s \o r)
      PROVE  (m \in DOMAIN s /\ (s \o r)[m] = s[m]) \/ \E j \in DOMAIN r : (s \o r)[m] = r[j]
  <2>1. CASE m \in DOMAIN s
    BY <2>1
  <2>2. CASE m \notin DOMAIN s
    <3>1. m - Len(s) \in DOMAIN r /\ (s \o r)[m] = r[m - Len(s)]
      BY <2>2
    <3>2. QED
      BY <3>1
  <2>3. QED
    BY <2>1, <2>2
<1>4. \A x \in S : Append(s, x) \in Seq(S)
  OBVIOUS
<1>5. \A x : s = <<>> => Append(s, x) = <<x>> /\ Len(Append(s, x)) = 1 /\ Append(s, x)[1] = x
  OBVIOUS
<1>6. QED
  BY <1>1, <1>2, <1>3, <1>4, <1>5

LEMMA RestFacts ==
  ASSUME NEW S, NEW s \in Seq(S), NEW n \in 1 .. Len(s)
  PROVE  /\ SubSeq(s, n + 1, Len(s)) \in Seq(S) /\ Len(SubSeq(s, n + 1, Len(s))) = Len(s) - n
         /\ \A m \in DOMAIN SubSeq(s, n + 1, Len(s)) : \E j \in DOMAIN s : SubSeq(s, n + 1, Len(s))[m] = s[j]
         /\ n = Len(s) => SubSeq(s, n + 1, Len(s)) = <<>>
<1>1. SubSeq(s, n + 1, Len(s)) \in Seq(S) /\ Len(SubSeq(s, n + 1, Len(s))) = Len(s) - n
  OBVIOUS
<1>2. \A m \in DOMAIN SubSeq(s, n + 1, Len(s)) : m + n \in DOMAIN s /\ SubSeq(s, n + 1, Len(s))[m] = s[m + n]
  OBVIOUS
<1>3. n = Len(s) => SubSeq(s, n + 1, Len(s)) = <<>>
  OBVIOUS
<1>4. QED
  BY <1>1, <1>2, <1>3
-----------------------------------------------------------------------------
(* The steps of the link. *)

LEMMA RecFacts ==
  ASSUME LinkTypeOK
  PROVE  /\ (rec % Recordings) + 1 \in Rec /\ rec \in Rec
         /\ \A r \in Rec : {r} \in SUBSET Rec
<1> USE LinkAssumption DEF LinkTypeOK, Rec
<1>1. (rec % Recordings) + 1 \in Rec
  OBVIOUS
<1>2. QED
  BY <1>1

LEMMA SendSizeKeeps == ASSUME LinkInv, SendSize PROVE LinkInv'
<1> USE DEF SendSize
<1>1. /\ UNCHANGED <<rec, heard, down, server, left, file, fails, spoken>> /\ client = "size"
      /\ unsent' = FileSize
  OBVIOUS
<1>2. CASE server # "gone"
  <2>1. client' = "next" /\ up' = up \o <<<<"size", rec>>>>
    BY <1>2 DEF Sends
  <2>2. <<<<"size", rec>>>> \in Seq({"size", "word"} \X Rec)
    BY DEF LinkInv, LinkTypeOK
  <2>3. \A s, r \in Seq({"size", "word"} \X Rec) : s \o r \in Seq({"size", "word"} \X Rec)
    BY ONLY SeqFacts
  <2>4. up' \in Seq({"size", "word"} \X Rec)
    BY <2>1, <2>2, <2>3 DEF LinkInv, LinkTypeOK
  <2>5. LinkTypeOK'
    BY <1>1, <2>1, <2>4, LinkAssumption DEF LinkInv, LinkTypeOK
  <2>6. \A r \in Seq({"size", "word"} \X Rec) : <<>> \o r = r
    OBVIOUS
  <2>7. up = <<>> => up' = <<<<"size", rec>>>>
    BY <2>1, <2>2, <2>6
  <2>8. InStep' /\ Empty'
    BY <1>1, <2>1, <2>7 DEF LinkInv, InStep, Empty, Between, Waits, Asked
  <2>9. QED
    BY <2>5, <2>8 DEF LinkInv
<1>3. CASE server = "gone"
  BY <1>1, <1>3, LinkAssumption DEF Sends, LinkInv, LinkTypeOK, InStep, Empty
<1>4. QED
  BY <1>2, <1>3

LEMMA RecvNextKeeps == ASSUME LinkInv, RecvNext PROVE LinkInv'
<1> USE DEF RecvNext
<1>1. /\ UNCHANGED <<rec, unsent, heard, up, server, left, file, fails, spoken>>
      /\ client = "next" /\ client' = "file"
  OBVIOUS
<1>2. down \in Seq(Message) /\ down' \in Seq(Message)
  <2>1. \A s \in Seq(Message) : s # <<>> => Tail(s) \in Seq(Message)
    BY ONLY SeqFacts
  <2>2. down \in Seq(Message)
    BY DEF LinkInv, LinkTypeOK
  <2>3. down' \in Seq(Message)
    BY <2>1, <2>2
  <2>4. QED
    BY <2>2, <2>3
<1>3. LinkTypeOK'
  BY <1>1, <1>2 DEF LinkInv, LinkTypeOK
<1>4. ASSUME fails = 0, server # "gone" PROVE Sending'
  <2>1. Asked
    BY <1>1, <1>4 DEF LinkInv, InStep
  <2>2. down # <<>>
    BY <1>4
  <2>3. Len(down) = 1 /\ down[1].said = "next!!!!" /\ up = <<>> /\ server = "file" /\ left = FileSize /\ file = {}
    BY <2>1, <2>2 DEF Asked
  <2>4. ~ IsAnswer(down[1])
    BY <2>3, LinkAssumption DEF IsAnswer, Said
  <2>5. \A s \in Seq(Message) : (s # <<>> => Head(s) = s[1]) /\ (Len(s) = 1 => Tail(s) = <<>>)
    BY ONLY SeqFacts
  <2>6. down' = <<>>
    BY <1>2, <1>4, <2>2, <2>3, <2>4, <2>5
  <2>7. unsent = FileSize
    BY <1>1, <1>4 DEF LinkInv, InStep
  <2>8. QED
    BY <1>1, <2>3, <2>6, <2>7, LinkAssumption DEF Sending, OfRec
<1>5. QED
  BY <1>1, <1>3, <1>4 DEF LinkInv, InStep, Empty

LEMMA SendFileKeeps == ASSUME LinkInv, SendFile PROVE LinkInv'
<1> USE DEF SendFile
<1>1. PICK n : n = IF unsent < Block THEN unsent ELSE Block
  OBVIOUS
<1>2. /\ UNCHANGED <<rec, heard, down, server, left, file, fails, spoken>> /\ client = "file"
      /\ unsent' = unsent - n
  BY <1>1
<1>3. unsent \in 0 .. FileSize /\ FileSize \in Nat /\ n \in Nat /\ n <= unsent /\ unsent' \in 0 .. FileSize
      /\ (unsent >= 1 => n >= 1)
  BY <1>1, <1>2, LinkAssumption DEF LinkInv, LinkTypeOK
<1>4. CASE server # "gone"
  <2>1. PICK r : r = [m \in 1 .. n |-> <<"word", rec>>]
    OBVIOUS
  <2>2. up' = up \o r /\ client' = IF n = unsent THEN "answer" ELSE "file"
    BY <1>1, <1>4, <2>1 DEF Sends
  <2>3. r \in Seq({"size", "word"} \X Rec) /\ Len(r) = n /\ \A m \in DOMAIN r : r[m] = <<"word", rec>>
    BY <1>3, <2>1 DEF LinkInv, LinkTypeOK
  <2>4. \A s, q \in Seq({"size", "word"} \X Rec) :
          /\ s \o q \in Seq({"size", "word"} \X Rec) /\ Len(s \o q) = Len(s) + Len(q)
          /\ \A m \in DOMAIN (s \o q) :
               (m \in DOMAIN s /\ (s \o q)[m] = s[m]) \/ \E j \in DOMAIN q : (s \o q)[m] = q[j]
    BY ONLY SeqFacts
  <2>5. up \in Seq({"size", "word"} \X Rec)
    BY DEF LinkInv, LinkTypeOK
  <2>6. up' \in Seq({"size", "word"} \X Rec) /\ Len(up') = Len(up) + n /\ (OfRec => OfRec')
    <3>1. \A m \in DOMAIN up' : (m \in DOMAIN up /\ up'[m] = up[m]) \/ up'[m] = <<"word", rec>>
      BY ONLY <2>2, <2>3, <2>4, <2>5
    <3>2. OfRec => OfRec'
      BY ONLY <1>2, <3>1 DEF OfRec
    <3>3. up' \in Seq({"size", "word"} \X Rec) /\ Len(up') = Len(up) + n
      BY ONLY <2>2, <2>3, <2>4, <2>5
    <3>4. QED
      BY ONLY <3>2, <3>3
  <2>7. LinkTypeOK'
    BY <1>2, <1>3, <2>2, <2>6 DEF LinkInv, LinkTypeOK
  <2>8. ASSUME fails = 0 PROVE IF n = unsent THEN Sent' ELSE Sending'
    <3>1. Sending /\ Len(up) \in Nat /\ left \in Nat
      BY <1>2, <1>4, <2>5, <2>8, LinkAssumption DEF LinkInv, InStep, LinkTypeOK
    <3>2. CASE n = unsent
      BY <1>2, <1>3, <2>6, <3>1, <3>2 DEF Sending, Sent
    <3>3. CASE n # unsent
      BY <1>2, <1>3, <2>6, <3>1, <3>3 DEF Sending
    <3>4. QED
      BY <3>2, <3>3
  <2>9. InStep' /\ Empty'
    BY <1>2, <2>2, <2>8 DEF LinkInv, InStep, Empty
  <2>10. QED
    BY <2>7, <2>9 DEF LinkInv
<1>5. CASE server = "gone"
  <2>1. client' \in {"answer", "file", "killed"} /\ up' = up
    BY <1>5 DEF Sends
  <2>2. QED
    BY <1>2, <1>3, <1>5, <2>1 DEF LinkInv, LinkTypeOK, InStep, Empty
<1>6. QED
  BY <1>4, <1>5

LEMMA RecvAnswerKeeps == ASSUME LinkInv, RecvAnswer PROVE LinkInv'
<1> USE DEF RecvAnswer
<1>1. /\ UNCHANGED <<rec, unsent, up, server, left, file, fails, spoken>>
      /\ client = "answer" /\ client' = "act" /\ heard' = down /\ down' = <<>>
  OBVIOUS
<1>2. down' \in Seq(Message)
  BY <1>1
<1>3. LinkTypeOK'
  BY <1>1, <1>2 DEF LinkInv, LinkTypeOK
<1>4. ASSUME fails = 0, server # "gone" PROVE Between' /\ OneAnswer(heard, rec)'
  BY <1>1, <1>4 DEF LinkInv, InStep, Sent, Between, Waits, OneAnswer
<1>5. QED
  BY <1>1, <1>3, <1>4 DEF LinkInv, InStep, Empty

\* The client is at rest when it makes a new recording.
LEMMA RecordKeeps ==
  ASSUME LinkInv, Record, client \in {"act", "start"}
  PROVE  LinkInv'
<1> USE DEF Record
<1>1. UNCHANGED <<unsent, up, down, server, left, file, fails, spoken>> /\ client' = "size"
  OBVIOUS
<1>2. rec' \in Rec /\ heard' \in Seq(Message)
  BY RecFacts DEF LinkInv
<1>3. LinkTypeOK'
  BY <1>1, <1>2 DEF LinkInv, LinkTypeOK
<1>4. QED
  BY <1>1, <1>3 DEF LinkInv, InStep, Empty, Between, Waits

LEMMA OpenKeeps == ASSUME LinkInv, Open PROVE LinkInv'
<1> USE DEF Open
<1>1. UNCHANGED <<client, rec, unsent, heard, up, left, spoken>> /\ server = "open"
  OBVIOUS
<1>2. CASE server' = "size" /\ file' = {} /\ UNCHANGED <<down, fails, spoken>>
  <2>1. LinkTypeOK' /\ Empty'
    BY <1>1, <1>2 DEF LinkInv, LinkTypeOK, Empty
  <2>2. InStep'
    BY <1>1, <1>2 DEF LinkInv, InStep, Between, Waits, Asked, Sending, Sent, OneAnswer, IsAnswer
  <2>3. QED
    BY <2>1, <2>2 DEF LinkInv
<1>3. CASE fails < MaxFails /\ fails' = fails + 1 /\ Replies("error!!!", {}, "recognise") /\ UNCHANGED file
  <2>1. down' \in Seq(Message) /\ server' = "recognise"
    <3>1. PICK m : m = [said |-> "error!!!", of |-> {}]
      OBVIOUS
    <3>2. m \in Message
      BY <3>1 DEF Message
    <3>3. \A s \in Seq(Message), x \in Message : Append(s, x) \in Seq(Message)
      BY ONLY SeqFacts
    <3>4. QED
      BY <1>3, <3>1, <3>2, <3>3 DEF Replies, LinkInv, LinkTypeOK
  <2>2. fails' \in 0 .. MaxFails /\ fails' # 0
    BY <1>3, LinkAssumption DEF LinkInv, LinkTypeOK
  <2>3. LinkTypeOK'
    BY <1>1, <1>3, <2>1, <2>2 DEF LinkInv, LinkTypeOK
  <2>4. QED
    BY <2>2, <2>3 DEF LinkInv, InStep, Empty
<1>4. QED
  BY <1>2, <1>3

LEMMA RecvSizeKeeps == ASSUME LinkInv, RecvSize PROVE LinkInv'
<1> USE DEF RecvSize
<1>1. /\ UNCHANGED <<client, rec, unsent, heard, file, fails, spoken>>
      /\ server = "size" /\ server' = "file" /\ up # <<>> /\ up' = Tail(up)
      /\ down' = Append(down, [said |-> "next!!!!", of |-> {}])
      /\ IF Head(up)[1] = "size" THEN left' = FileSize ELSE left' \in {0, FileSize + 1}
  BY DEF Replies
<1>2. up \in Seq({"size", "word"} \X Rec) /\ down \in Seq(Message)
  BY DEF LinkInv, LinkTypeOK
<1>3. PICK m : m = [said |-> "next!!!!", of |-> {}]
  OBVIOUS
<1>4. m \in Message /\ m.said = "next!!!!"
  BY <1>3 DEF Message
<1>5. /\ up' \in Seq({"size", "word"} \X Rec) /\ Head(up) = up[1] /\ (Len(up) = 1 => up' = <<>>)
      /\ down' \in Seq(Message) /\ (down = <<>> => Len(down') = 1 /\ down'[1] = m)
  <2>1. \A s \in Seq({"size", "word"} \X Rec) :
          /\ s # <<>> => Tail(s) \in Seq({"size", "word"} \X Rec) /\ Head(s) = s[1]
          /\ Len(s) = 1 => Tail(s) = <<>>
    BY ONLY SeqFacts
  <2>2. \A s \in Seq(Message), x \in Message :
          /\ Append(s, x) \in Seq(Message)
          /\ s = <<>> => Len(Append(s, x)) = 1 /\ Append(s, x)[1] = x
    BY ONLY SeqFacts
  <2>3. QED
    BY ONLY <1>1, <1>2, <1>3, <1>4, <2>1, <2>2
<1>6. left' \in 0 .. FileSize + 1
  BY <1>1, LinkAssumption
<1>7. LinkTypeOK'
  BY <1>1, <1>5, <1>6 DEF LinkInv, LinkTypeOK
<1>8. ASSUME fails = 0 PROVE client = "next" /\ Asked' /\ unsent = FileSize
  <2>1. client = "next" /\ up = <<<<"size", rec>>>> /\ down = <<>> /\ unsent = FileSize
    BY <1>1, <1>8 DEF LinkInv, InStep, LinkTypeOK, Between, Waits, Asked, Sending, Sent
  <2>2. Len(up) = 1 /\ up[1] = <<"size", rec>> /\ up[1][1] = "size"
    BY <2>1
  <2>3. file = {}
    BY <1>1, <1>8 DEF LinkInv, Empty
  <2>4. QED
    BY ONLY <1>1, <1>4, <1>5, <2>1, <2>2, <2>3 DEF Asked
<1>9. QED
  BY <1>1, <1>7, <1>8 DEF LinkInv, InStep, Empty

LEMMA ReadFileKeeps == ASSUME LinkInv, ReadFile PROVE LinkInv'
<1> USE DEF ReadFile
<1>1. PICK n \in 1 .. ReadMax :
        /\ n <= Len(up)
        /\ up' = SubSeq(up, n + 1, Len(up))
        /\ file' = file \cup {up[m][2] : m \in 1 .. n}
        /\ IF n >= left THEN server' = "recognise" /\ left' = 0
                        ELSE left' = left - n /\ UNCHANGED server
  OBVIOUS
<1>2. UNCHANGED <<client, rec, unsent, heard, down, fails, spoken>> /\ server = "file"
  OBVIOUS
<1>3. up \in Seq({"size", "word"} \X Rec) /\ left \in 0 .. FileSize + 1 /\ file \subseteq Rec /\ rec \in Rec
      /\ FileSize \in Nat /\ ReadMax \in Nat /\ unsent \in Nat
  BY LinkAssumption DEF LinkInv, LinkTypeOK
<1>4. n \in 1 .. Len(up) /\ n \in Nat /\ Len(up) \in Nat /\ left \in Nat /\ 1 \in 1 .. n
  BY <1>1, <1>3
<1>5. /\ up' \in Seq({"size", "word"} \X Rec) /\ Len(up') = Len(up) - n
      /\ \A m \in DOMAIN up' : \E j \in DOMAIN up : up'[m] = up[j]
      /\ n = Len(up) => up' = <<>>
  <2>1. \A s \in Seq({"size", "word"} \X Rec) : \A k \in 1 .. Len(s) :
          /\ SubSeq(s, k + 1, Len(s)) \in Seq({"size", "word"} \X Rec)
          /\ Len(SubSeq(s, k + 1, Len(s))) = Len(s) - k
          /\ \A m \in DOMAIN SubSeq(s, k + 1, Len(s)) : \E j \in DOMAIN s : SubSeq(s, k + 1, Len(s))[m] = s[j]
          /\ k = Len(s) => SubSeq(s, k + 1, Len(s)) = <<>>
    BY ONLY RestFacts
  <2>2. QED
    BY ONLY <1>1, <1>3, <1>4, <2>1
<1>6. file' \subseteq Rec
  <2>1. \A m \in 1 .. n : m \in DOMAIN up
    BY <1>3, <1>4
  <2>2. \A m \in DOMAIN up : up[m] \in {"size", "word"} \X Rec
    BY <1>3
  <2>3. \A m \in 1 .. n : up[m][2] \in Rec
    BY <2>1, <2>2
  <2>4. QED
    BY ONLY <1>1, <1>3, <2>3
<1>7. left' \in 0 .. FileSize + 1 /\ server' \in {"recognise", "file"}
  BY <1>1, <1>2, <1>3, <1>4
<1>8. LinkTypeOK'
  BY <1>2, <1>5, <1>6, <1>7 DEF LinkInv, LinkTypeOK
<1>9. ASSUME OfRec PROVE OfRec' /\ (file \subseteq {rec} => file' = {rec})
  <2>1. \A m \in 1 .. n : up[m][2] = rec
    <3>1. \A m \in 1 .. n : m \in DOMAIN up
      BY <1>3, <1>4
    <3>2. QED
      BY <1>9, <3>1 DEF OfRec
  <2>2. file \subseteq {rec} => file' = {rec}
    BY ONLY <1>1, <1>4, <2>1
  <2>3. OfRec'
    BY ONLY <1>2, <1>5, <1>9 DEF OfRec
  <2>4. QED
    BY <2>2, <2>3
<1>10. ASSUME fails = 0 PROVE (client = "file" /\ Sending') \/ (client = "answer" /\ Sent')
  <2>1. up # <<>> /\ Len(up) # 0
    BY <1>3, <1>4
  <2>2. (client = "file" /\ Sending) \/ (client = "answer" /\ Sent)
    BY <1>2, <1>10, <2>1 DEF LinkInv, InStep, LinkTypeOK, Between, Waits, Asked
  <2>3. CASE client = "file" /\ Sending
    <3>1. left = unsent + Len(up) /\ unsent >= 1 /\ OfRec /\ down = <<>> /\ file \subseteq {rec}
      BY <2>3 DEF Sending
    <3>2. ~ (n >= left)
      BY <1>3, <1>4, <3>1
    <3>3. left' = unsent + Len(up')
      BY <1>1, <1>3, <1>4, <1>5, <3>1, <3>2
    <3>4. QED
      BY <1>1, <1>2, <1>9, <2>3, <3>1, <3>2, <3>3 DEF Sending
  <2>4. CASE client = "answer" /\ Sent
    <3>1. left = Len(up) /\ OfRec /\ down = <<>> /\ file \subseteq {rec}
      BY <1>2, <2>1, <2>4 DEF Sent, Waits
    <3>2. file' = {rec} /\ OfRec'
      BY <1>9, <3>1
    <3>3. CASE n >= left
      <4>1. n = Len(up)
        BY <1>4, <3>1, <3>3
      <4>2. QED
        BY <1>1, <1>2, <1>5, <2>4, <3>1, <3>2, <3>3, <4>1 DEF Sent
    <3>4. CASE ~ (n >= left)
      <4>1. left' = Len(up') /\ left' >= 1
        BY <1>1, <1>4, <1>5, <3>1, <3>4
      <4>2. QED
        BY <1>1, <1>2, <2>4, <3>1, <3>2, <3>4, <4>1 DEF Sent
    <3>5. QED
      BY <3>3, <3>4
  <2>5. QED
    BY <2>2, <2>3, <2>4
<1>11. QED
  BY <1>2, <1>7, <1>8, <1>10 DEF LinkInv, InStep, Empty

LEMMA RecogniseKeeps == ASSUME LinkInv, Recognise PROVE LinkInv'
<1> USE DEF Recognise
<1>1. UNCHANGED <<client, rec, unsent, heard, up, left, file, fails>> /\ server = "recognise"
  OBVIOUS
<1>2. ASSUME NEW w \in Said, Replies(w, file, "open"), spoken' \in 0 .. MaxSpoken PROVE LinkInv'
  <2>1. PICK m : m = [said |-> w, of |-> file]
    OBVIOUS
  <2>2. m \in Message /\ IsAnswer(m) /\ m.of = file
    BY <1>2, <2>1 DEF LinkInv, LinkTypeOK, Message, IsAnswer
  <2>3. down' = Append(down, m) /\ server' = "open" /\ down \in Seq(Message)
    BY <1>2, <2>1 DEF Replies, LinkInv, LinkTypeOK
  <2>4. down' \in Seq(Message) /\ (down = <<>> => Len(down') = 1 /\ down'[1] = m)
    <3>1. \A s \in Seq(Message), x \in Message :
            /\ Append(s, x) \in Seq(Message)
            /\ s = <<>> => Len(Append(s, x)) = 1 /\ Append(s, x)[1] = x
      BY ONLY SeqFacts
    <3>2. QED
      BY ONLY <2>2, <2>3, <3>1
  <2>5. LinkTypeOK' /\ Empty'
    BY <1>1, <1>2, <2>3, <2>4 DEF LinkInv, LinkTypeOK, Empty
  <2>6. ASSUME fails = 0 PROVE client = "answer" /\ Sent'
    <3>1. client = "answer" /\ down = <<>> /\ up = <<>> /\ file = {rec}
      BY <1>1, <2>6 DEF LinkInv, InStep, LinkTypeOK, Between, Waits, Asked, Sending, Sent
    <3>2. Waits' /\ OneAnswer(down, rec)'
      BY ONLY <1>1, <2>2, <2>3, <2>4, <3>1 DEF Waits, OneAnswer, IsAnswer
    <3>3. QED
      BY <3>1, <3>2 DEF Sent
  <2>7. QED
    BY <1>1, <2>5, <2>6 DEF LinkInv, InStep
<1>3. CASE Replies("my", file, "open") /\ UNCHANGED spoken
  BY <1>2, <1>3 DEF Said, LinkInv, LinkTypeOK
<1>4. CASE spoken < MaxSpoken /\ spoken' = spoken + 1 /\ \E w \in Words : Replies(w, file, "open")
  <2>1. spoken' \in 0 .. MaxSpoken
    BY <1>4, LinkAssumption DEF LinkInv, LinkTypeOK
  <2>2. QED
    BY <1>2, <1>4, <2>1 DEF Said
<1>5. CASE server' = "gone" /\ UNCHANGED <<down, spoken>>
  BY <1>1, <1>5 DEF LinkInv, LinkTypeOK, InStep, Empty
<1>6. QED
  BY <1>3, <1>4, <1>5

LEMMA LinkStepKeeps == ASSUME LinkInv, Client \/ Server PROVE LinkInv'
  BY SendSizeKeeps, RecvNextKeeps, SendFileKeeps, RecvAnswerKeeps, OpenKeeps, RecvSizeKeeps,
     ReadFileKeeps, RecogniseKeeps DEF Client, Server

LEMMA LinkRests == ASSUME LinkInv, UNCHANGED link PROVE LinkInv'
  BY DEF link, LinkInv, LinkTypeOK, InStep, Empty, Between, Waits, Asked, Sending, Sent, OfRec, OneAnswer,
     IsAnswer
-----------------------------------------------------------------------------
(* The players and the page. *)

State == {"none", "starting", "running", "stopped"}

SoundTypes ==
  /\ awake \in BOOLEAN /\ i \in 1 .. Songs
  /\ player \in [Slot -> [of : 0 .. Songs, is : State]]
  /\ cont \in BOOLEAN /\ shown \in BOOLEAN /\ label \in {"play", "stop"}
  /\ playing \in BOOLEAN /\ count \in 0 .. 2 /\ cover \in 1 .. Songs
  /\ ui \in {"idle", "start"} /\ calm \in BOOLEAN

\* What a player of the page is doing while the voice thread is silent.
Expected == IF cont THEN {"stopped"} ELSE IF playing THEN {"starting", "running"} ELSE {"stopped"}

\* One player at most, with the song of the cover and as the page remembers it.  A
\* continuation is on its way only to a player that the page counts as playing, and
\* the page counts its clicks from the first player on.
Owned ==
  calm =>
    /\ client # "start"
    /\ cont => playing /\ ui = "idle"
    /\ \A s \in Slot : player[s].is # "none" =>
         /\ ui = "idle" /\ player[s].of = cover /\ player[s].is \in Expected
         /\ playing \/ count # 0
         /\ \A u \in Slot \ {s} : player[u].is = "none"

IInv == SoundTypes /\ LinkInv /\ Owned

LEMMA StartTypes ==
  ASSUME SoundTypes, NEW song \in 0 .. Songs, Start(song)
  PROVE  player' \in [Slot -> [of : 0 .. Songs, is : State]]
<1> USE DEF SoundTypes, State
<1>1. CASE AnyIs("none")
  <2>1. PICK x : player' = [player EXCEPT ![x] = [of |-> song, is |-> "starting"]]
    BY <1>1 DEF Start
  <2>2. QED
    BY <2>1
<1>2. CASE ~ AnyIs("none")
  BY <1>2 DEF Start
<1>3. QED
  BY <1>1, <1>2

\* With no player there, one starts.
LEMMA StartOne ==
  ASSUME SoundTypes, \A s \in Slot : player[s].is = "none", NEW song, Start(song)
  PROVE  \E s \in Slot : player' = [player EXCEPT ![s] = [of |-> song, is |-> "starting"]]
<1>1. 1 \in Slot /\ \A y \in 1 .. 1 - 1 : player[y].is # "none"
  BY SoundAssumption DEF Slot
<1>2. \E x \in Slot : player[x].is = "none" /\ \A y \in 1 .. x - 1 : player[y].is # "none"
  BY <1>1
<1>3. AnyIs("none")
  BY <1>1 DEF AnyIs
<1>4. PICK s : s = CHOOSE x \in Slot : player[x].is = "none" /\ \A y \in 1 .. x - 1 : player[y].is # "none"
  OBVIOUS
<1>5. s \in Slot
  BY <1>2, <1>4
<1>6. QED
  BY <1>3, <1>4, <1>5 DEF Start

LEMMA BecomesFacts ==
  ASSUME SoundTypes, NEW from, NEW to \in State
  PROVE  /\ Becomes(from, to) \in [Slot -> [of : 0 .. Songs, is : State]]
         /\ \A s \in Slot :
              /\ player[s].is \notin from => Becomes(from, to)[s] = player[s]
              /\ player[s].is \in from => Becomes(from, to)[s].is = to
              /\ player[s].is \in from /\ to # "none" => Becomes(from, to)[s].of = player[s].of
<1>1. ASSUME NEW s \in Slot
      PROVE  /\ Becomes(from, to)[s] \in [of : 0 .. Songs, is : State]
             /\ player[s].is \notin from => Becomes(from, to)[s] = player[s]
             /\ player[s].is \in from => Becomes(from, to)[s].is = to
             /\ player[s].is \in from /\ to # "none" => Becomes(from, to)[s].of = player[s].of
  <2>1. PICK p : p = player[s]
    OBVIOUS
  <2>2. p \in [of : 0 .. Songs, is : State]
    BY <2>1 DEF SoundTypes
  <2>3. /\ p.is \notin from => Becomes(from, to)[s] = p
        /\ p.is \in from /\ to = "none" => Becomes(from, to)[s] = Idle
        /\ p.is \in from /\ to # "none" => Becomes(from, to)[s] = [p EXCEPT !.is = to]
    BY <2>1 DEF Becomes
  <2>4. Idle \in [of : 0 .. Songs, is : State] /\ Idle.is = "none"
    BY SoundAssumption DEF Idle, Prompt, State
  <2>5. [p EXCEPT !.is = to] \in [of : 0 .. Songs, is : State]
        /\ [p EXCEPT !.is = to].is = to /\ [p EXCEPT !.is = to].of = p.of
    BY <2>2
  <2>6. QED
    BY <2>1, <2>2, <2>3, <2>4, <2>5
<1>2. Becomes(from, to) \in [Slot -> [of : 0 .. Songs, is : State]]
  BY <1>1 DEF Becomes
<1>3. QED
  BY <1>1, <1>2

LEMMA StepTypes == ASSUME SoundTypes, NEW n \in Nat PROVE StepTo(n) \in 1 .. Songs
  BY SoundAssumption DEF SoundTypes, StepTo

-----------------------------------------------------------------------------
(* The steps of the shell. *)

LEMMA ShellKeeps == ASSUME IInv, Shell PROVE IInv'
<1> USE DEF IInv, voice, page
<1>1. CASE Exec
  <2>1. PICK s \in Slot : player[s].is = "starting" /\ player' = [player EXCEPT ![s].is = "running"]
    BY <1>1 DEF Exec
  <2>2. UNCHANGED <<link, voice, cont, page, calm>>
    BY <1>1 DEF Exec
  <2>3. /\ player' \in [Slot -> [of : 0 .. Songs, is : State]]
        /\ player'[s].is = "running" /\ player'[s].of = player[s].of
        /\ \A u \in Slot \ {s} : player'[u] = player[u]
    BY <2>1 DEF SoundTypes, State
  <2>4. SoundTypes' /\ LinkInv'
    BY <2>2, <2>3, LinkRests DEF SoundTypes
  <2>5. Owned'
    BY ONLY Owned, <2>1, <2>2, <2>3 DEF Owned, Expected, link, page
  <2>6. QED
    BY <2>4, <2>5
<1>2. CASE Continue
  <2>1. /\ cont /\ cont' = FALSE /\ player' = Becomes({"stopped"}, "running")
        /\ UNCHANGED <<link, voice, page, calm>>
    BY <1>2 DEF Continue
  <2>2. /\ player' \in [Slot -> [of : 0 .. Songs, is : State]]
        /\ \A s \in Slot : /\ player[s].is # "stopped" => player'[s] = player[s]
                           /\ player[s].is = "stopped" => player'[s].is = "running" /\ player'[s].of = player[s].of
    <3>1. "running" \in State
      BY DEF State
    <3>2. QED
      BY <2>1, <3>1, BecomesFacts
  <2>3. SoundTypes' /\ LinkInv'
    BY <2>1, <2>2, LinkRests DEF SoundTypes
  <2>4. Owned'
    BY ONLY Owned, <2>1, <2>2 DEF Owned, Expected, link, page
  <2>5. QED
    BY <2>3, <2>4
<1>3. CASE SongEnds
  <2>1. PICK s \in Slot : player[s].is = "running" /\ player' = [player EXCEPT ![s] = Idle]
    BY <1>3 DEF SongEnds
  <2>2. UNCHANGED <<link, voice, cont, page, calm>>
    BY <1>3 DEF SongEnds
  <2>3. /\ player' \in [Slot -> [of : 0 .. Songs, is : State]]
        /\ player'[s].is = "none"
        /\ \A u \in Slot \ {s} : player'[u] = player[u]
    BY <2>1, SoundAssumption DEF SoundTypes, State, Idle, Prompt
  <2>4. SoundTypes' /\ LinkInv'
    BY <2>2, <2>3, LinkRests DEF SoundTypes
  <2>5. Owned'
    BY ONLY Owned, <2>1, <2>2, <2>3 DEF Owned, Expected, link, page
  <2>6. QED
    BY <2>4, <2>5
<1>4. QED
  BY <1>1, <1>2, <1>3 DEF Shell

-----------------------------------------------------------------------------
(* The steps of the voice thread and of the server. *)

LEMMA TalkKeeps == ASSUME IInv, VoiceTalks \/ Serves PROVE IInv'
<1>1. (Client \/ Server) /\ UNCHANGED <<voice, sound, page, calm>>
  BY DEF VoiceTalks, Serves
<1>2. client' # "start" \/ client' = client
  BY <1>1 DEF Client, Server, SendSize, RecvNext, SendFile, RecvAnswer, Sends, Open, RecvSize, ReadFile, Recognise
<1>3. SoundTypes' /\ LinkInv'
  BY <1>1, LinkStepKeeps DEF IInv, SoundTypes, voice, sound, page
<1>4. Owned'
  BY ONLY IInv, <1>1, <1>2 DEF IInv, Owned, Expected, sound, page
<1>5. QED
  BY <1>3, <1>4 DEF IInv

LEMMA ActKeeps == ASSUME IInv, VoiceActs PROVE IInv'
<1> USE DEF IInv, voice, sound, page
<1>1. client = "act" /\ UNCHANGED page
  BY DEF VoiceActs
<1>2. 0 \in 0 .. Songs /\ i \in 0 .. Songs
  BY SoundAssumption DEF SoundTypes
<1>3. CASE Prompts
  <2>1. Start(0) /\ Record /\ awake' \in BOOLEAN /\ UNCHANGED <<i, cont>> /\ calm' = FALSE
    BY <1>3 DEF Prompts, Prompt, SoundTypes
  <2>2. SoundTypes'
    BY <1>1, <1>2, <2>1, StartTypes DEF SoundTypes
  <2>3. QED
    BY <1>1, <2>1, <2>2, RecordKeeps DEF Owned
<1>4. CASE PlaysSong
  <2>1. Start(i) /\ Record /\ UNCHANGED <<awake, i, cont>> /\ calm' = FALSE
    BY <1>4 DEF PlaysSong
  <2>2. SoundTypes'
    BY <1>1, <1>2, <2>1, StartTypes DEF SoundTypes
  <2>3. QED
    BY <1>1, <2>1, <2>2, RecordKeeps DEF Owned
<1>5. CASE Changes
  <2>1. /\ UNCHANGED <<rec, unsent, heard, up, down, server, left, file, fails, spoken, awake, cont>>
        /\ client' = "start" /\ calm' = FALSE /\ player' = Becomes({"running", "stopped"}, "none")
    BY <1>5 DEF Changes, KillAll
  <2>2. i' \in 1 .. Songs
    <3>1. 1 \in Nat /\ Songs - 1 \in Nat
      BY SoundAssumption
    <3>2. StepTo(1) \in 1 .. Songs /\ StepTo(Songs - 1) \in 1 .. Songs
      BY <3>1, StepTypes
    <3>3. QED
      BY <1>5, <3>2 DEF Changes
  <2>3. player' \in [Slot -> [of : 0 .. Songs, is : State]]
    BY <2>1, BecomesFacts DEF State
  <2>4. SoundTypes'
    BY <1>1, <2>1, <2>2, <2>3 DEF SoundTypes
  <2>5. LinkInv'
    BY <1>1, <2>1 DEF LinkInv, LinkTypeOK, InStep, Empty, Between, Waits
  <2>6. QED
    BY <2>1, <2>4, <2>5 DEF Owned
<1>6. CASE Pauses
  <2>1. Record /\ UNCHANGED <<awake, i>> /\ calm' = FALSE /\ cont' \in BOOLEAN
        /\ (player' = player \/ player' = Becomes({"running"}, "stopped"))
    BY <1>6 DEF Pauses, StopAll, SoundTypes
  <2>2. player' \in [Slot -> [of : 0 .. Songs, is : State]]
    <3>1. "stopped" \in State
      BY DEF State
    <3>2. QED
      BY <2>1, <3>1, BecomesFacts DEF SoundTypes
  <2>3. SoundTypes'
    BY <1>1, <2>1, <2>2 DEF SoundTypes
  <2>4. QED
    BY <1>1, <2>1, <2>3, RecordKeeps DEF Owned
<1>7. CASE DoesNothing
  <2>1. Record /\ client' = "size" /\ UNCHANGED <<awake, i, player, cont, calm>>
    BY <1>7 DEF DoesNothing, Record
  <2>2. SoundTypes'
    BY <1>1, <2>1 DEF SoundTypes
  <2>3. Owned'
    BY ONLY Owned, <1>1, <2>1 DEF Owned, Expected, page
  <2>4. QED
    BY <1>1, <2>1, <2>2, <2>3, RecordKeeps
<1>8. QED
  BY <1>3, <1>4, <1>5, <1>6, <1>7 DEF VoiceActs

LEMMA VoiceStartsKeeps == ASSUME IInv, VoiceStarts PROVE IInv'
<1>1. client = "start" /\ Record /\ Start(i) /\ UNCHANGED <<awake, i, cont, page, calm>>
  BY DEF VoiceStarts, voice
<1>2. ~ calm'
  BY <1>1 DEF IInv, Owned
<1>3. i \in 0 .. Songs
  BY SoundAssumption DEF IInv, SoundTypes
<1>4. SoundTypes'
  BY <1>1, <1>3, StartTypes DEF IInv, SoundTypes, page
<1>5. QED
  BY <1>1, <1>2, <1>4, RecordKeeps DEF IInv, Owned

-----------------------------------------------------------------------------
(* The steps of the page. *)

LEMMA VisitKeeps == ASSUME IInv, Visit \/ Leave PROVE IInv'
<1> USE DEF IInv, voice, sound
<1>1. /\ UNCHANGED <<link, voice, sound, playing, count, cover, ui, calm>>
      /\ shown' \in BOOLEAN /\ label' \in {"play", "stop"}
  BY DEF Visit, Leave, SoundTypes
<1>2. SoundTypes' /\ LinkInv'
  BY <1>1, LinkRests DEF SoundTypes
<1>3. Owned'
  BY ONLY IInv, <1>1 DEF IInv, Owned, Expected, link, sound
<1>4. QED
  BY <1>2, <1>3

LEMMA PlayPauseKeeps == ASSUME IInv, PlayPause PROVE IInv'
<1> USE DEF IInv, voice
<1>1. /\ ui = "idle" /\ calm' = (calm /\ ~ cont /\ ~ AnyIs("starting"))
      /\ count' = (IF count = 2 THEN 2 ELSE count + 1) /\ playing' = ~ playing
      /\ UNCHANGED <<link, voice, shown, cover, ui>>
  BY DEF PlayPause, Clicked
<1>2. calm' \in BOOLEAN /\ count' \in 0 .. 2 /\ count' # 0 /\ playing' \in BOOLEAN /\ (count' = 1 => count = 0)
  BY <1>1 DEF SoundTypes
<1>3. LinkInv'
  BY <1>1, LinkRests
<1>4. CASE playing
  <2>1. label' = "play" /\ player' = Becomes({"running"}, "stopped") /\ cont' = cont
    BY <1>4 DEF PlayPause, StopAll
  <2>2. /\ player' \in [Slot -> [of : 0 .. Songs, is : State]]
        /\ \A s \in Slot : /\ player[s].is # "running" => player'[s] = player[s]
                           /\ player[s].is = "running" => player'[s].is = "stopped" /\ player'[s].of = player[s].of
    <3>1. "stopped" \in State
      BY DEF State
    <3>2. QED
      BY <2>1, <3>1, BecomesFacts
  <2>3. SoundTypes'
    BY <1>1, <1>2, <2>1, <2>2 DEF SoundTypes
  <2>4. ASSUME calm' PROVE Owned'
    <3>1. /\ calm /\ ~ cont /\ ~ cont' /\ client' = client /\ client # "start"
          /\ ui' = "idle" /\ cover' = cover /\ playing' = FALSE /\ count' # 0
      BY <1>1, <1>2, <1>4, <2>1, <2>4 DEF link, Owned
    <3>2. \A s \in Slot : player[s].is # "none" =>
            player[s].is = "running" /\ player[s].of = cover /\ \A u \in Slot \ {s} : player[u].is = "none"
      <4>1. \A s \in Slot : player[s].is # "starting"
        BY <1>1, <2>4 DEF AnyIs
      <4>2. QED
        BY ONLY Owned, <1>4, <3>1, <4>1 DEF Owned, Expected
    <3>3. ASSUME NEW s \in Slot, player'[s].is # "none"
          PROVE  /\ player'[s].of = cover /\ player'[s].is = "stopped"
                 /\ \A u \in Slot \ {s} : player'[u].is = "none"
      <4>1. player[s].is # "none"
        BY ONLY <2>2, <3>3
      <4>2. QED
        BY ONLY <2>2, <3>2, <4>1
    <3>4. QED
      BY ONLY <3>1, <3>3 DEF Owned, Expected
  <2>5. QED
    BY <1>3, <2>3, <2>4 DEF Owned
<1>5. CASE ~ playing /\ count' = 1
  <2>1. label' = "stop" /\ Start(cover) /\ cont' = cont
    BY <1>5 DEF PlayPause
  <2>2. cover \in 0 .. Songs
    BY SoundAssumption DEF SoundTypes
  <2>3. SoundTypes'
    BY <1>1, <1>2, <2>1, <2>2, StartTypes DEF SoundTypes
  <2>4. ASSUME calm' PROVE Owned'
    <3>1. \A s \in Slot : player[s].is = "none"
      BY <1>1, <1>2, <1>5, <2>4 DEF Owned
    <3>2. PICK s \in Slot : player' = [player EXCEPT ![s] = [of |-> cover, is |-> "starting"]]
      BY <2>1, <3>1, StartOne
    <3>3. player'[s].of = cover /\ player'[s].is = "starting" /\ \A u \in Slot \ {s} : player'[u] = player[u]
      BY <3>2 DEF SoundTypes
    <3>4. playing' /\ ~ cont' /\ ui' = "idle" /\ cover' = cover /\ client' = client /\ calm /\ playing' = TRUE
      BY <1>1, <1>5, <2>1, <2>4 DEF link
    <3>5. QED
      BY ONLY Owned, <3>1, <3>3, <3>4 DEF Owned, Expected
  <2>5. QED
    BY <1>3, <2>3, <2>4 DEF Owned
<1>6. CASE ~ playing /\ count' # 1
  <2>1. label' = "stop" /\ cont' = TRUE /\ player' = player
    BY <1>6 DEF PlayPause
  <2>2. SoundTypes'
    BY <1>1, <1>2, <2>1 DEF SoundTypes
  <2>3. Owned'
    BY ONLY Owned, <1>1, <1>2, <1>6, <2>1 DEF Owned, Expected, AnyIs, link
  <2>4. QED
    BY <1>3, <2>2, <2>3
<1>7. QED
  BY <1>4, <1>5, <1>6

LEMMA ChangeCoverKeeps == ASSUME IInv, ChangeCover PROVE IInv'
<1> USE DEF IInv, voice
<1>1. /\ ui = "idle" /\ calm' = (calm /\ ~ cont /\ ~ AnyIs("starting"))
      /\ label' = "stop" /\ ui' = "start" /\ player' = Becomes({"running", "stopped"}, "none")
      /\ UNCHANGED <<link, voice, cont, shown, playing, count>>
  BY DEF ChangeCover, Clicked, KillAll
<1>2. calm' \in BOOLEAN
  BY <1>1 DEF SoundTypes
<1>3. cover' \in 1 .. Songs
  BY SoundAssumption DEF ChangeCover, SoundTypes
<1>4. /\ player' \in [Slot -> [of : 0 .. Songs, is : State]]
      /\ \A s \in Slot : /\ player[s].is \notin {"running", "stopped"} => player'[s] = player[s]
                         /\ player[s].is \in {"running", "stopped"} => player'[s].is = "none"
  <2>1. "none" \in State
    BY DEF State
  <2>2. QED
    BY <1>1, <2>1, BecomesFacts
<1>5. SoundTypes' /\ LinkInv'
  BY <1>1, <1>2, <1>3, <1>4, LinkRests DEF SoundTypes
<1>6. ASSUME calm' PROVE \A s \in Slot : player'[s].is = "none"
  <2>1. \A s \in Slot : player[s].is \in State /\ player[s].is # "starting"
    BY <1>1, <1>6 DEF AnyIs, SoundTypes
  <2>2. QED
    BY <1>4, <2>1 DEF State
<1>7. Owned'
  BY ONLY Owned, <1>1, <1>6 DEF Owned, link
<1>8. QED
  BY <1>5, <1>7

LEMMA PlayCoverKeeps == ASSUME IInv, PlayCover PROVE IInv'
<1> USE DEF IInv, voice
<1>1. /\ ui = "start" /\ ui' = "idle" /\ playing' = TRUE /\ Start(cover)
      /\ UNCHANGED <<link, voice, cont, shown, label, count, cover, calm>>
  BY DEF PlayCover
<1>2. cover \in 0 .. Songs
  BY SoundAssumption DEF SoundTypes
<1>3. SoundTypes' /\ LinkInv'
  BY <1>1, <1>2, StartTypes, LinkRests DEF SoundTypes
<1>4. ASSUME calm PROVE Owned'
  <2>1. \A s \in Slot : player[s].is = "none"
    BY <1>1, <1>4 DEF Owned
  <2>2. PICK s \in Slot : player' = [player EXCEPT ![s] = [of |-> cover, is |-> "starting"]]
    BY <1>1, <2>1, StartOne
  <2>3. player'[s].of = cover /\ player'[s].is = "starting" /\ \A u \in Slot \ {s} : player'[u] = player[u]
    BY <2>2 DEF SoundTypes
  <2>4. ~ cont' /\ client' = client
    BY <1>1, <1>4 DEF Owned, link
  <2>5. QED
    BY ONLY Owned, <1>1, <1>4, <2>1, <2>3, <2>4 DEF Owned, Expected
<1>5. QED
  BY <1>1, <1>3, <1>4 DEF Owned

-----------------------------------------------------------------------------

LEMMA InitIInv == Init => IInv
<1> SUFFICES ASSUME Init PROVE IInv
  OBVIOUS
<1> USE DEF Init, LinkInit
<1>1. LinkTypeOK
  <2>1. heard \in Seq(Message) /\ down \in Seq(Message) /\ up \in Seq({"size", "word"} \X Rec)
    OBVIOUS
  <2>2. rec \in Rec /\ unsent \in 0 .. FileSize /\ left \in 0 .. FileSize + 1
        /\ fails \in 0 .. MaxFails /\ spoken \in 0 .. MaxSpoken
    BY LinkAssumption DEF Rec
  <2>3. QED
    BY <2>1, <2>2 DEF LinkTypeOK
<1>2. SoundTypes
  <2>1. Idle \in [of : 0 .. Songs, is : State]
    BY SoundAssumption DEF Idle, Prompt, State
  <2>2. player \in [Slot -> [of : 0 .. Songs, is : State]]
    BY <2>1
  <2>3. i \in 1 .. Songs /\ cover \in 1 .. Songs /\ count \in 0 .. 2
    BY SoundAssumption
  <2>4. QED
    BY <2>2, <2>3 DEF SoundTypes
<1>3. Owned
  BY DEF Owned, Idle
<1>4. InStep /\ Empty
  BY DEF InStep, Empty, Between, Waits
<1>5. QED
  BY <1>1, <1>2, <1>3, <1>4 DEF IInv, LinkInv

LEMMA StepIInv == IInv /\ [Next]_vars => IInv'
<1> SUFFICES ASSUME IInv, [Next]_vars PROVE IInv'
  OBVIOUS
<1>1. CASE Next
  BY <1>1, TalkKeeps, ActKeeps, VoiceStartsKeeps, VisitKeeps, PlayPauseKeeps, ChangeCoverKeeps,
     PlayCoverKeeps, ShellKeeps DEF Next, Voice, Page
<1>2. CASE UNCHANGED vars
  <2>1. UNCHANGED <<link, voice, sound, page, calm>>
    BY <1>2 DEF vars
  <2>2. SoundTypes' /\ LinkInv'
    BY <2>1, LinkRests DEF IInv, SoundTypes, voice, sound, page
  <2>3. Owned'
    BY ONLY IInv, <2>1 DEF IInv, Owned, Expected, link, sound, page
  <2>4. QED
    BY <2>2, <2>3 DEF IInv
<1>3. QED
  BY <1>1, <1>2
-----------------------------------------------------------------------------

\* The invariant the results below are read from.
THEOREM Invariance == Spec => []IInv
<1>1. QED
  BY InitIInv, StepIInv, PTL DEF Spec

\* TypeOK: the two streams, the players and the page keep their types, whatever is
\* said and however often the page is opened.
THEOREM TypeCorrect == Spec => []TypeOK
<1>1. IInv => TypeOK
  BY DEF IInv, SoundTypes, LinkInv, TypeOK, State
<1>2. QED
  BY <1>1, Invariance, PTL

\* AnswersInStep: with no mark between the messages and the recordings, waiting for
\* next!!!! is enough to keep every answer with its recording.
THEOREM AnswerBelongs == Spec => []AnswersInStep
<1>1. IInv => AnswersInStep
  BY DEF IInv, LinkInv, InStep, OneAnswer, AnswersInStep
<1>2. QED
  BY <1>1, Invariance, PTL

\* PageOwnsSound: what the music page remembers from its clicks of all visits is
\* what plays, until the voice thread makes a sound or a click comes too early.
THEOREM PageIsRight == Spec => []PageOwnsSound
<1>1. IInv => PageOwnsSound
  BY DEF IInv, SoundTypes, Owned, Expected, PageOwnsSound, AnyIs
<1>2. QED
  BY <1>1, Invariance, PTL

-----------------------------------------------------------------------------
(* How the two sides come to an answer. *)

InOrder == fails = 0 /\ server # "gone"

\* Until the server fails to open its file, one side always has something to do:
\* it never happens that the thread is at a recv and the server at another, with
\* nothing under way between them.
NeitherWaits ==
  InOrder /\ client \notin {"off", "act", "start"} =>
    \/ client \in {"size", "file"}
    \/ client \in {"next", "answer"} /\ down # <<>>
    \/ server \in {"open", "recognise"} /\ down = <<>>
    \/ server = "size" /\ up # <<>> /\ down = <<>>
    \/ server = "file" /\ up # <<>>

\* What is still to be done for a recording: the words to send and to read, the
\* messages to wait for, the answer and the file to be opened for the next one.
ToSend ==
  CASE client \in {"size", "next"} -> FileSize
    [] client = "file" -> unsent
    [] OTHER -> 0

ToRead ==
  CASE client = "size" \/ (client = "next" /\ server # "file") -> FileSize + 1
    [] client \in {"next", "file", "answer"} /\ server = "file" -> left
    [] OTHER -> 0

ToHear ==
  CASE client = "size" -> 3
    [] client = "next" -> 2
    [] client \in {"file", "answer"} -> 1
    [] OTHER -> 0

ToAnswer ==
  (IF client \in {"act", "start"} \/ (client = "answer" /\ down # <<>>) THEN 0 ELSE 2)
    + (IF server = "open" THEN 1 ELSE 0)

Undone == ToSend + ToRead + ToHear + ToAnswer

\* Every step of the thread or the server gets something done, whatever the sizes
\* of the file, of what is sent at once and of what happens to be read at once.
TalkGetsOn ==
  [][InOrder /\ InOrder' /\ (VoiceTalks \/ Serves) => Undone' < Undone]_vars

Bounded == Undone \in 0 .. 2 * FileSize + 7

LEMMA UndoneTypes ==
  ASSUME LinkTypeOK
  PROVE  ToSend \in Nat /\ ToRead \in Nat /\ ToHear \in Nat /\ ToAnswer \in Nat
BY LinkAssumption DEF LinkTypeOK, ToSend, ToRead, ToHear, ToAnswer

LEMMA SumFalls ==
  \A a, b, c, d, e \in Nat : e < d => a + b + c + e < a + b + c + d /\ a + e + b + c < a + d + b + c
OBVIOUS

LEMMA ClientGetsOn ==
  ASSUME LinkInv, LinkInv', InOrder, InOrder', Client
  PROVE  Undone' < Undone
<1> USE LinkAssumption
<1>1. /\ ToSend \in Nat /\ ToRead \in Nat /\ ToHear \in Nat /\ ToAnswer \in Nat
      /\ FileSize \in Nat /\ unsent \in Nat /\ unsent' \in Nat /\ left \in Nat
  BY UndoneTypes DEF LinkInv, LinkTypeOK
<1>2. UNCHANGED <<server, left>>
  BY DEF Client, SendSize, RecvNext, SendFile, RecvAnswer
<1>3. CASE SendSize
  <2>1. client = "size" /\ client' = "next" /\ server # "file"
    BY <1>3 DEF SendSize, Sends, InOrder, LinkInv, InStep, Between, Waits
  <2>2. QED
    BY <1>1, <1>2, <2>1 DEF Undone, ToSend, ToRead, ToHear, ToAnswer
<1>4. CASE RecvNext
  <2>1. client = "next" /\ client' = "file" /\ unsent' = FileSize /\ server = "file"
    BY <1>4 DEF RecvNext, InOrder, LinkInv, InStep, Asked, Sending
  <2>2. QED
    BY <1>1, <1>2, <2>1 DEF Undone, ToSend, ToRead, ToHear, ToAnswer
<1>5. CASE SendFile
  <2>1. /\ client = "file" /\ server = "file" /\ down = <<>> /\ down' = <<>>
        /\ client' \in {"file", "answer"} /\ unsent' < unsent
    BY <1>1, <1>5 DEF SendFile, Sends, InOrder, LinkInv, InStep, Sending
  <2>2. QED
    BY <1>1, <1>2, <2>1 DEF Undone, ToSend, ToRead, ToHear, ToAnswer
<1>6. CASE RecvAnswer
  <2>1. client = "answer" /\ client' = "act" /\ server \in {"open", "size"}
    BY <1>6 DEF RecvAnswer, InOrder, LinkInv, InStep, Between, Waits
  <2>2. QED
    BY <1>1, <1>2, <2>1 DEF Undone, ToSend, ToRead, ToHear, ToAnswer
<1>7. QED
  BY <1>3, <1>4, <1>5, <1>6 DEF Client

LEMMA ServerGetsOn ==
  ASSUME LinkInv, LinkInv', InOrder, InOrder', Server
  PROVE  Undone' < Undone
<1> USE LinkAssumption
<1>1. /\ ToSend \in Nat /\ ToRead \in Nat /\ ToHear \in Nat /\ ToAnswer \in Nat
      /\ FileSize \in Nat /\ unsent \in Nat /\ left \in Nat /\ left' \in Nat
  BY UndoneTypes DEF LinkInv, LinkTypeOK
<1>2. UNCHANGED <<client, unsent>>
  BY DEF Server, Open, RecvSize, ReadFile, Recognise
<1>3. client \in {"off", "size", "next", "file", "answer", "act", "start"}
  BY DEF InOrder, LinkInv, LinkTypeOK, InStep
<1>4. CASE Open
  <2>1. server = "open" /\ server' = "size" /\ down' = down
    BY <1>4 DEF Open, InOrder, LinkInv, LinkTypeOK
  <2>2. ToSend' = ToSend /\ ToHear' = ToHear
    BY <1>2 DEF ToSend, ToHear
  <2>3. ToRead' = ToRead /\ ToAnswer' \in Nat /\ ToAnswer' < ToAnswer
    BY <1>1, <1>2, <2>1 DEF ToRead, ToAnswer
  <2>4. QED
    BY <1>1, <2>2, <2>3, SumFalls, Zenon DEF Undone
<1>5. CASE RecvSize
  <2>1. server = "size" /\ up # <<>> /\ server' = "file"
    BY <1>5 DEF RecvSize, Replies
  <2>2. client = "next"
    BY <1>3, <2>1 DEF InOrder, LinkInv, InStep, Between, Waits, Sending, Sent
  <2>3. left' = FileSize
    BY <1>2, <2>1, <2>2 DEF InOrder, LinkInv, InStep, Asked
  <2>4. QED
    BY <1>1, <1>2, <2>1, <2>2, <2>3 DEF Undone, ToSend, ToRead, ToHear, ToAnswer
<1>6. CASE ReadFile
  <2>1. /\ server = "file" /\ up # <<>> /\ down' = down
        /\ \/ server' = "file" /\ left' < left
           \/ server' = "recognise" /\ left >= 1
    <3>1. PICK n \in 1 .. ReadMax :
            /\ n <= Len(up)
            /\ IF n >= left THEN server' = "recognise" /\ left' = 0
                            ELSE left' = left - n /\ UNCHANGED server
      BY <1>6 DEF ReadFile
    <3>2. server = "file" /\ up # <<>> /\ down' = down
      BY <1>6, <3>1 DEF ReadFile
    <3>3. left >= 1
      BY <1>1, <1>3, <3>2 DEF InOrder, LinkInv, LinkTypeOK, InStep, Between, Waits, Asked, Sending, Sent
    <3>4. QED
      BY <1>1, <3>1, <3>2, <3>3
  <2>2. client \in {"file", "answer"}
    BY <1>3, <2>1 DEF InOrder, LinkInv, InStep, Between, Waits, Asked
  <2>3. ToSend' = ToSend /\ ToHear' = ToHear
    BY <1>2 DEF ToSend, ToHear
  <2>4. ToRead' \in Nat /\ ToRead' < ToRead
    BY <1>1, <1>2, <2>1, <2>2 DEF ToRead
  <2>5. ToAnswer' = ToAnswer
    BY <1>2, <2>1 DEF ToAnswer, InOrder
  <2>6. QED
    BY <1>1, <2>3, <2>4, <2>5, SumFalls, Zenon DEF Undone
<1>7. CASE Recognise
  <2>1. server = "recognise" /\ server' = "open"
    BY <1>7 DEF Recognise, Replies, InOrder
  <2>2. client = "answer" /\ down = <<>> /\ down' # <<>>
    BY <1>2, <1>3, <2>1 DEF InOrder, LinkInv, InStep, Between, Waits, Asked, Sending, Sent, OneAnswer
  <2>3. QED
    BY <1>1, <1>2, <2>1, <2>2 DEF Undone, ToSend, ToRead, ToHear, ToAnswer
<1>8. QED
  BY <1>4, <1>5, <1>6, <1>7 DEF Server

LEMMA UndoneBounded == LinkInv => Bounded
<1>1. ASSUME LinkInv PROVE Bounded
  <2>1. /\ ToSend \in 0 .. FileSize /\ ToRead \in 0 .. FileSize + 1
        /\ ToHear \in 0 .. 3 /\ ToAnswer \in 0 .. 3 /\ FileSize \in Nat
    BY <1>1, LinkAssumption DEF LinkInv, LinkTypeOK, ToSend, ToRead, ToHear, ToAnswer
  <2>2. QED
    BY <2>1 DEF Bounded, Undone
<1>2. QED
  BY <1>1

THEOREM NobodyWaits == Spec => []NeitherWaits
<1>1. ASSUME LinkInv PROVE NeitherWaits
  <2>1. SUFFICES ASSUME InOrder, client \notin {"off", "act", "start", "size", "file"}
                 PROVE  NeitherWaits
    BY DEF NeitherWaits
  <2>2. CASE client = "next"
    <3>1. Len(down) = 1 => down # <<>>
      OBVIOUS
    <3>2. up = <<<<"size", rec>>>> => up # <<>>
      OBVIOUS
    <3>3. QED
      BY <1>1, <2>1, <2>2, <3>1, <3>2 DEF NeitherWaits, LinkInv, InStep, InOrder, Asked
  <2>3. CASE client = "answer"
    <3>1. Len(down) = 1 => down # <<>>
      OBVIOUS
    <3>2. left >= 1 /\ left = Len(up) => up # <<>>
      OBVIOUS
    <3>3. QED
      BY <1>1, <2>1, <2>3, <3>1, <3>2 DEF NeitherWaits, LinkInv, InStep, InOrder, Sent, OneAnswer
  <2>4. QED
    BY <1>1, <2>1, <2>2, <2>3 DEF LinkInv, LinkTypeOK, InStep, InOrder
<1>2. IInv => NeitherWaits
  BY <1>1 DEF IInv
<1>3. QED
  BY Invariance, <1>2, PTL

THEOREM EveryTalkEnds == Spec => TalkGetsOn /\ []Bounded
<1>1. ASSUME IInv, IInv', InOrder, InOrder', VoiceTalks \/ Serves PROVE Undone' < Undone
  BY <1>1, ClientGetsOn, ServerGetsOn DEF IInv, VoiceTalks, Serves
<1>2. IInv /\ IInv' => [InOrder /\ InOrder' /\ (VoiceTalks \/ Serves) => Undone' < Undone]_vars
  BY <1>1
<1>3. IInv => Bounded
  BY UndoneBounded DEF IInv
<1>4. QED
  BY Invariance, <1>2, <1>3, PTL DEF TalkGetsOn
=============================================================================
