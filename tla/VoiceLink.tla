----------------------------- MODULE VoiceLink -----------------------------
(***************************************************************************)
(* The voice thread of the panel (check) and the recognition server, over  *)
(* one TCP connection.  For every recording the client sends its size and  *)
(* its bytes and waits for two messages; nothing on the wire says where a  *)
(* message or a recording ends.                                            *)
(*                                                                         *)
(* The upward stream is counted in words of four bytes, the length of the  *)
(* size.  Recordings are numbered in a circle.                             *)
(***************************************************************************)
EXTENDS Naturals, Sequences, SequencesExt

CONSTANTS
  Recordings,  \* the numbers of the recordings go round in 1 .. Recordings
  FileSize,    \* of a recording
  Block,       \* what the client reads and sends at once
  ReadMax,     \* what the server reads at most at once
  Words,       \* what the user may say
  MaxSpoken,   \* bound on the times anything is recognised
  MaxFails,    \* bound on the times the server cannot open its file
  MaxDown      \* bound on the messages under way to the client

ASSUME LinkAssumption ==
  /\ Recordings \in Nat \ {0, 1}
  /\ FileSize \in Nat \ {0} /\ Block \in Nat \ {0} /\ ReadMax \in Nat \ {0}
  /\ MaxFails \in Nat /\ MaxDown \in Nat /\ MaxSpoken \in Nat
  /\ Words \cap {"next!!!!", "error!!!"} = {}

VARIABLES
  client,    \* where the voice thread is
  rec,       \* its recording
  unsent,    \* what of it is still to be sent
  heard,     \* the messages in rbuf
  up, down,  \* the two streams
  server,    \* where the server is
  left,      \* filesize - all_size
  file,      \* the recordings with words in lyl.wav of the server
  fails, spoken

link == <<client, rec, unsent, heard, up, down, server, left, file, fails, spoken>>

Rec     == 1 .. Recordings
\* With nothing recognised the server says my.
Said    == Words \cup {"my"}
Message == [said : Said \cup {"next!!!!", "error!!!"}, of : SUBSET Rec]

IsAnswer(m) == m.said \in Said

LinkTypeOK ==
  /\ client \in {"off", "size", "next", "file", "answer", "act", "start", "killed"}
  /\ rec \in Rec /\ unsent \in 0 .. FileSize
  /\ heard \in Seq(Message) /\ down \in Seq(Message)
  /\ up \in Seq({"size", "word"} \X Rec)
  /\ server \in {"open", "size", "file", "recognise", "gone"}
  /\ left \in 0 .. FileSize + 1 /\ file \subseteq Rec
  /\ fails \in 0 .. MaxFails /\ spoken \in 0 .. MaxSpoken

\* Without a server to connect to the thread ends at once.
LinkInit ==
  /\ client \in {"off", "size"} /\ rec = 1 /\ unsent = 0 /\ heard = <<>>
  /\ up = <<>> /\ down = <<>>
  /\ server = "open" /\ left = 0 /\ file = {} /\ fails = 0 /\ spoken = 0

-----------------------------------------------------------------------------
(* check.  A send to a server that is gone is answered with a reset; the one  *)
(* after it kills the process.                                                *)

Sends(words, to) ==
  IF server # "gone" THEN client' = to /\ up' = up \o words
  ELSE client' \in {to, "killed"} /\ UNCHANGED up

SendSize ==
  /\ client = "size"
  /\ Sends(<<<<"size", rec>>>>, "next")
  /\ unsent' = FileSize
  /\ UNCHANGED <<rec, heard, down, server, left, file, fails, spoken>>

\* Fault: the recording is sent without waiting.
RecvNextNot ==
  /\ client = "next"
  /\ client' = "file"
  /\ UNCHANGED <<rec, unsent, heard, up, down, server, left, file, fails, spoken>>

\* recv of nine bytes: a message, or the front of a longer one, or the end of the
\* stream.  Whatever it is, the recording is sent.
RecvNext ==
  /\ client = "next"
  /\ \/ down # <<>> /\ down' = Tail(down)
     \/ down # <<>> /\ IsAnswer(Head(down)) /\ UNCHANGED down
     \/ down = <<>> /\ server = "gone" /\ UNCHANGED down
  /\ client' = "file"
  /\ UNCHANGED <<rec, unsent, heard, up, server, left, file, fails, spoken>>

SendFile ==
  LET n == IF unsent < Block THEN unsent ELSE Block
  IN /\ client = "file"
     /\ unsent' = unsent - n
     /\ Sends([i \in 1 .. n |-> <<"word", rec>>], IF n = unsent THEN "answer" ELSE "file")
     /\ UNCHANGED <<rec, heard, down, server, left, file, fails, spoken>>

\* recv of 256 bytes: all that has come.
RecvAnswer ==
  /\ client = "answer"
  /\ down # <<>> \/ server = "gone"
  /\ heard' = down /\ down' = <<>>
  /\ client' = "act"
  /\ UNCHANGED <<rec, unsent, up, server, left, file, fails, spoken>>

\* What was heard has been acted upon, and the next recording made.
Record ==
  /\ client' = "size"
  /\ rec' = (rec % Recordings) + 1
  /\ heard' = <<>>
  /\ UNCHANGED <<unsent, up, down, server, left, file, fails, spoken>>

-----------------------------------------------------------------------------
(* get_network_file and the main loop of the server. *)

Replies(words, of, to) ==
  /\ Len(down) < MaxDown
  /\ down' = Append(down, [said |-> words, of |-> of])
  /\ server' = to

\* A file that cannot be opened is told to the client; the file of the last
\* recording is recognised all the same.
Open ==
  /\ server = "open"
  /\ \/ server' = "size" /\ file' = {} /\ UNCHANGED <<down, fails, spoken>>
     \/ /\ fails < MaxFails
        /\ fails' = fails + 1
        /\ Replies("error!!!", {}, "recognise")
        /\ UNCHANGED file
  /\ UNCHANGED <<client, rec, unsent, heard, up, left, spoken>>

\* Fault: the answer to the size is left out.
RecvSizeSilent ==
  /\ server = "size" /\ up # <<>>
  /\ server' = "file" /\ left' = FileSize
  /\ up' = Tail(up)
  /\ UNCHANGED <<client, rec, unsent, heard, down, file, fails, spoken>>

\* Words of a recording, taken for a size, are any number: a low one or a
\* high one.
RecvSize ==
  /\ server = "size" /\ up # <<>>
  /\ IF Head(up)[1] = "size" THEN left' = FileSize ELSE left' \in {0, FileSize + 1}
  /\ up' = Tail(up)
  /\ Replies("next!!!!", {}, "file")
  /\ UNCHANGED <<client, rec, unsent, heard, file, fails, spoken>>

\* read and write, until the size is reached.
ReadFile ==
  /\ server = "file"
  /\ \E n \in 1 .. ReadMax :
       /\ n <= Len(up)
       /\ up' = SubSeq(up, n + 1, Len(up))
       /\ file' = file \cup {up[i][2] : i \in 1 .. n}
       /\ IF n >= left THEN server' = "recognise" /\ left' = 0
                       ELSE left' = left - n /\ UNCHANGED server
  /\ UNCHANGED <<client, rec, unsent, heard, down, fails, spoken>>

\* The words of the file, or the end of the process when the recogniser fails.  The
\* words stay in memory when the answer is "yl": a run that finds none may then say
\* those again, which is one of the choices here.  `of` is the file that is answered.
Recognise ==
  /\ server = "recognise"
  /\ \/ Replies("my", file, "open") /\ UNCHANGED spoken
     \/ /\ spoken < MaxSpoken
        /\ spoken' = spoken + 1
        /\ \E w \in Words : Replies(w, file, "open")
     \/ server' = "gone" /\ UNCHANGED <<down, spoken>>
  /\ UNCHANGED <<client, rec, unsent, heard, up, left, file, fails>>

-----------------------------------------------------------------------------
Client == SendSize \/ RecvNext \/ SendFile \/ RecvAnswer
Server == Open \/ RecvSize \/ ReadFile \/ Recognise

Act == client = "act" /\ Record

LinkSpec == LinkInit /\ [][Client \/ Act \/ Server]_link /\ WF_link(Client \/ Act) /\ WF_link(Server)

-----------------------------------------------------------------------------
\* Until the server fails to open its file, what the thread acts upon is the one
\* answer to the recording it has just sent, and the server asks for a recording
\* with a word that is a size.
AnswersInStep ==
  fails = 0 /\ server # "gone" /\ client = "act" =>
    Len(heard) = 1 /\ IsAnswer(heard[1]) /\ heard[1].of = {rec}

\* Until then neither side waits for the other for ever.
LinkGoes == []<>(client = "act") \/ <>(fails > 0 \/ server = "gone" \/ client = "off")
=============================================================================
