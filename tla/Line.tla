--------------------------------- MODULE Line ---------------------------------
(***************************************************************************)
(* The line to the network, byte by byte: tcpclient makes the connection   *)
(* and then one thread reads messages from it (FromNet, rcvFromNet) and    *)
(* another writes them (ToNet, sendToNet), every step one read or write.   *)
(*                                                                         *)
(* A message comes as fragments.  A fragment has a header of two bytes,    *)
(* its type (16#20: more follow, 16#00: the last, 16#40: control) and its  *)
(* length.  What leaves is never fragmented.  A read returns what there    *)
(* is, at most what was asked; a write takes as much as it takes.          *)
(***************************************************************************)
EXTENDS Integers, Sequences

CONSTANTS
  Bodies,       \* what a fragment from the network may carry
  OutMessages,  \* what fmt may queue for the line
  Greetings,    \* what the network may answer when the connection is made
  GarbageBytes, \* what may be in the length byte once the count is or'ed into it
  SignedMax,    \* greatest length a char can hold: 127
  MaxIn,        \* bound on the fragments that come
  MaxOut        \* bound on the bytes taken before the last message that leaves

Byte == 0 .. 255

ASSUME MessageAssumption ==
  /\ \A m \in Bodies : m \in Seq(Byte) /\ Len(m) \in 1 .. 255
  /\ \A m \in OutMessages : m \in Seq(Byte) /\ m # <<>>

ASSUME GreetingAssumption == \A g \in Greetings : g \in Seq(Byte) /\ Len(g) = 3
ASSUME ByteAssumption == GarbageBytes \subseteq Byte /\ SignedMax \in 1 .. 127
ASSUME BoundAssumption == MaxIn \in Nat /\ MaxOut \in Nat

VARIABLES
  peer,     \* the network's end: "open", "closed" or "reset"
  stream,   \* bytes sent by the network and not read yet
  reader,   \* where FromNet is
  auxBuf,   \* the header read last
  buf,      \* the fragments read of the message under way
  forminq,  \* what FromNet has queued
  short,    \* some read returned less than was asked for
  writer,   \* where ToNet is
  header,   \* the two bytes that go before the message under way
  left,     \* what it has still to write of that message
  outline,  \* bytes written
  taken,    \* bytes taken from DRIVERQ, each message behind its header
  cut       \* some header was written in part

(* What the network sent, kept to state the properties with. *)
VARIABLES
  sent,     \* every byte
  came,     \* every message whose last fragment was sent
  marks     \* where the fragments meet: the bytes sent before, those of the
            \* message under way, and the messages before

sending == <<sent, came, marks>>
reading == <<reader, auxBuf, buf, forminq, short>>
writing == <<writer, header, left, outline, taken, cut>>
vars == <<peer, stream, sending, reading, writing>>

MoreFollow == 32
LastOne    == 0
Control    == 64

Init ==
  /\ peer = "open" /\ stream \in Greetings
  /\ sent = stream /\ came = <<>> /\ marks = << [at |-> Len(stream), before |-> <<>>, whole |-> 0] >>
  /\ reader = "authenticate" /\ auxBuf = <<0, 0>> /\ buf = <<>>
  /\ forminq = <<>> /\ short = FALSE
  /\ writer = "idle" /\ header = <<0, 0>> /\ left = <<>>
  /\ outline = <<>> /\ taken = <<>> /\ cut = FALSE

Runs == reader # "ended"

\* termina ends the process, with both threads.
termina == reader' = "ended"

-----------------------------------------------------------------------------
(* The network. *)

Fragment(type, body) == <<type, Len(body)>> \o body

Here == marks[Len(marks)]

\* One more fragment goes out, before and whole counting from its end.
Puts(type, body, before, whole) ==
  /\ peer = "open" /\ Len(marks) <= MaxIn
  /\ stream' = stream \o Fragment(type, body)
  /\ sent' = sent \o Fragment(type, body)
  /\ marks' = Append(marks, [at |-> Len(sent) + 2 + Len(body), before |-> before, whole |-> whole])
  /\ UNCHANGED <<peer, reading, writing>>

SendsMore(body) ==
  /\ Puts(MoreFollow, body, Here.before \o body, Here.whole)
  /\ UNCHANGED came

SendsLast(body) ==
  /\ Puts(LastOne, body, <<>>, Here.whole + 1)
  /\ came' = Append(came, Here.before \o body)

SendsControl ==
  /\ Puts(Control, <<1>>, Here.before, Here.whole)
  /\ UNCHANGED came

\* The network may close its end, and what it sent can still be read, or break
\* the connection.
Leaves(how) ==
  /\ peer = "open"
  /\ peer' = how
  /\ stream' = IF how = "reset" THEN <<>> ELSE stream
  /\ UNCHANGED <<sending, reading, writing>>

-----------------------------------------------------------------------------
(* Reading. *)

\* read returns got when asked for n bytes: some of what there is, nothing at
\* the end, an error when the connection broke or n is negative.
Gets(n, got) ==
  \/ n > 0 /\ \E k \in 1 .. Len(stream) : k <= n /\ got = SubSeq(stream, 1, k)
  \/ n > 0 /\ stream = <<>> /\ peer = "closed" /\ got = <<>>
  \/ n = 0 /\ got = <<>>

GetsError(n) == n < 0 \/ peer = "reset"

\* How a read ends for whoever asked for n bytes: got, and whether it failed.
Read(n, got, failed) ==
  /\ \/ GetsError(n) /\ got = <<>> /\ failed
     \/ ~GetsError(n) /\ Gets(n, got) /\ ~failed
  /\ stream' = SubSeq(stream, Len(got) + 1, Len(stream))
  /\ short' = (short \/ failed \/ Len(got) # n)
  /\ UNCHANGED <<peer, sending, writing>>

Chunks == {SubSeq(stream, 1, k) : k \in 0 .. Len(stream)}

\* A length byte is a char, and chars are signed.
Signed(byte) == IF byte > SignedMax THEN byte - 256 ELSE byte

\* Mutant of Over: only the length is read.
Over_length(old, got) == [i \in 1 .. 2 |-> IF i <= Len(got) /\ i = 2 THEN got[i] ELSE old[i]]

\* A header read over what was there before.
Over(old, got) == [i \in 1 .. 2 |-> IF i <= Len(got) THEN got[i] ELSE old[i]]

\* make_connection does not look at what authenticate returns, and
\* authenticate not at how much it read.
authenticate ==
  /\ reader = "authenticate"
  /\ \E got \in Chunks, failed \in BOOLEAN : Read(3, got, failed)
  /\ reader' = "first"
  /\ UNCHANGED <<auxBuf, buf, forminq>>

\* Mutant of AtFirst: an empty header is passed over.
AtFirst_again(fragment) ==
  CASE fragment[2] = 0                           -> "first"
    [] fragment[2] # 0 /\ fragment[1] = Control    -> "control"
    [] fragment[2] # 0 /\ fragment[1] = MoreFollow -> "more"
    [] fragment[2] # 0 /\ fragment[1] = LastOne    -> "last"
    [] OTHER                                   -> "ended"

\* What comes after the first header.
AtFirst(fragment) ==
  CASE fragment[2] = 0                           -> "ended"
    [] fragment[2] # 0 /\ fragment[1] = Control    -> "control"
    [] fragment[2] # 0 /\ fragment[1] = MoreFollow -> "more"
    [] fragment[2] # 0 /\ fragment[1] = LastOne    -> "last"
    [] OTHER                                   -> "ended"

\* A failed read leaves the first header zero.
FirstHeader ==
  /\ reader = "first"
  /\ \E got \in Chunks, failed \in BOOLEAN :
       /\ Read(2, got, failed)
       /\ auxBuf' = Over(<<0, 0>>, got)
  /\ reader' = AtFirst(auxBuf')
  /\ buf' = <<>>
  /\ UNCHANGED forminq

\* A control message ends the driver once it is read.
ControlBody ==
  /\ reader = "control"
  /\ \E got \in Chunks, failed \in BOOLEAN : Read(Signed(auxBuf[2]), got, failed)
  /\ termina
  /\ UNCHANGED <<auxBuf, buf, forminq>>

\* Mutant of Joined: a fragment is read to the start of the buffer.
Joined_over(bytes, got) == got \o SubSeq(bytes, Len(got) + 1, Len(bytes))

Joined(bytes, got) == bytes \o got

FragmentBody ==
  /\ reader = "more"
  /\ \E got \in Chunks, failed \in BOOLEAN :
       /\ Read(Signed(auxBuf[2]), got, failed)
       /\ buf' = Joined(buf, got)
       /\ reader' = IF failed THEN "ended" ELSE "next"
  /\ UNCHANGED <<auxBuf, forminq>>

\* The header after a fragment: whatever could not be read stays as it was, so
\* that at the end of the stream it says once more that more follows.
NextHeader ==
  /\ reader = "next"
  /\ \E got \in Chunks, failed \in BOOLEAN :
       /\ Read(2, got, failed)
       /\ auxBuf' = Over(auxBuf, got)
  /\ reader' = CASE auxBuf'[1] = MoreFollow -> "more"
                 [] auxBuf'[1] = LastOne    -> "last"
                 [] OTHER                   -> "ended"
  /\ UNCHANGED <<buf, forminq>>

Ended(failed, bytes) == failed \/ bytes = <<>>

\* The last fragment: the message is queued with whatever was read.
LastBody ==
  /\ reader = "last"
  /\ \E got \in Chunks, failed \in BOOLEAN :
       /\ Read(Signed(auxBuf[2]), got, failed)
       /\ LET message == Joined(buf, got) IN
          IF Ended(failed, message)
            THEN termina /\ UNCHANGED forminq
            ELSE reader' = "first" /\ forminq' = Append(forminq, message)
       /\ buf' = Joined(buf, got)
  /\ UNCHANGED auxBuf

FromNet == authenticate \/ FirstHeader \/ ControlBody \/ FragmentBody \/ NextHeader \/ LastBody

-----------------------------------------------------------------------------
(* Writing. *)

\* Bit by bit, what c has on b has on.
Covers(b, c) == \A i \in 0 .. 7 : (c \div 2^i) % 2 = 1 => (b \div 2^i) % 2 = 1

\* Mutant of LengthBytes: the byte is written as the char it is built in.
LengthBytes_char(count) ==
  {Signed(b) : b \in {c \in GarbageBytes \cup {count % 256} : Covers(c, count % 256)}}

\* The low byte of the count, or'ed into a byte that was never set.
LengthBytes(count) == {b \in GarbageBytes \cup {count % 256} : Covers(b, count % 256)}

TakesMessage(m) ==
  /\ Runs /\ reader # "authenticate" /\ writer = "idle" /\ Len(taken) < MaxOut
  /\ \E length \in LengthBytes(Len(m)) : header' = <<0, length>>
  /\ taken' = taken \o (header' \o m)
  /\ left' = m /\ writer' = "header"
  /\ UNCHANGED <<peer, stream, sending, reading, outline, cut>>

\* sendToNet looks at nothing but an error here, and goes on after one.
WritesHeader ==
  /\ Runs /\ writer = "header"
  /\ \E k \in 0 .. 2 :
       /\ (k = 0) = (peer = "reset")
       /\ outline' = outline \o SubSeq(header, 1, k)
       /\ cut' = (cut \/ k # 2)
  /\ writer' = "body"
  /\ UNCHANGED <<peer, stream, sending, reading, header, left, taken>>

\* Mutant of Rest: the buffer is not moved on after a write.
Rest_same(bytes, k) == SubSeq(bytes, 1, Len(bytes) - k)

Rest(bytes, k) == SubSeq(bytes, k + 1, Len(bytes))

WritesBody ==
  /\ Runs /\ writer = "body" /\ peer # "reset"
  /\ \E k \in 1 .. Len(left) :
       /\ outline' = outline \o SubSeq(left, 1, k)
       /\ left' = Rest(left, k)
  /\ writer' = IF left' = <<>> THEN "idle" ELSE "body"
  /\ UNCHANGED <<peer, stream, sending, reading, header, taken, cut>>

\* The write fails: ToNet ends the process.
WriteFails ==
  /\ Runs /\ writer = "body" /\ peer = "reset"
  /\ termina
  /\ UNCHANGED <<peer, stream, sending, auxBuf, buf, forminq, short, writing>>

ToNet == (\E m \in OutMessages : TakesMessage(m)) \/ WritesHeader \/ WritesBody \/ WriteFails

Next ==
  \/ \E body \in Bodies : SendsMore(body) \/ SendsLast(body)
  \/ SendsControl
  \/ \E how \in {"closed", "reset"} : Leaves(how)
  \/ FromNet
  \/ ToNet

\* Both threads run while the process does; a read returns when there is
\* something to return, and a write is taken.
Fairness == WF_vars(FromNet) /\ WF_vars(WritesHeader) /\ WF_vars(WritesBody) /\ WF_vars(WriteFails)

Spec == Init /\ [][Next]_vars /\ Fairness

-----------------------------------------------------------------------------
\* Every variable has its type.
TypeOK ==
  /\ peer \in {"open", "closed", "reset"}
  /\ stream \in Seq(Byte) /\ buf \in Seq(Byte) /\ left \in Seq(Byte)
  /\ outline \in Seq(Byte) /\ taken \in Seq(Byte) /\ sent \in Seq(Byte)
  /\ forminq \in Seq(Seq(Byte)) /\ came \in Seq(Seq(Byte))
  /\ marks \in Seq([at : Nat, before : Seq(Byte), whole : Nat]) /\ Len(marks) \in 1 .. MaxIn + 1
  /\ reader \in {"authenticate", "first", "control", "more", "next", "last", "ended"}
  /\ auxBuf \in [1 .. 2 -> Byte] /\ header \in [1 .. 2 -> Byte]
  /\ short \in BOOLEAN /\ cut \in BOOLEAN
  /\ writer \in {"idle", "header", "body"}

\* FromNet has queued the first n of the messages sent.
Queued(n) == forminq = SubSeq(came, 1, n)

\* As long as every read returned what was asked for, what FromNet has queued
\* is what the network sent: every message whole, once and in order, though
\* their fragments came in pieces and a control message or a length with its
\* high bit on may end the driver at any of them (sockhelp.c:166-221).
DeliveredWhole == ~short => \E n \in 0 .. Len(came) : Queued(n)

\* As long as every header was taken whole, the line has the messages of
\* DRIVERQ, each behind its header, in order and without a byte lost or
\* repeated, however the writes were taken (sockhelp.c:240-247).
WrittenWhole ==
  ~cut => outline \o (IF writer = "header" THEN header \o left ELSE left) = taken

\* Once the network is gone the driver ends instead of waiting for a line that
\* is no more, unless the last header it read says that more follows: then it
\* reads the end of the stream for ever (sockhelp.c:190, tcpclient.c:92).
EndsAtClose ==
  peer # "open" ~> [](reader = "ended" \/ (auxBuf[1] = MoreFollow /\ stream = <<>> /\ peer = "closed"))
-----------------------------------------------------------------------------
(* The inductive invariant behind DeliveredWhole: where the fragments of the *)
(* network meet, and that the reader is where one begins or behind a header. *)

\* The bytes read so far, as long as the connection is not broken.
Off == Len(sent) - Len(stream)

StreamInv ==
  peer # "reset" => /\ Len(stream) <= Len(sent)
                    /\ \A i \in 1 .. Len(stream) : stream[i] = sent[Off + i]

\* Between marks m and n of bytes s, with messages c, is one fragment.
Between(s, c, m, n) ==
  /\ m.at + 3 <= n.at /\ s[m.at + 2] = n.at - (m.at + 2)
  /\ LET body == SubSeq(s, m.at + 3, n.at) IN
     \/ s[m.at + 1] = MoreFollow /\ n.before = m.before \o body /\ n.whole = m.whole
     \/ s[m.at + 1] = LastOne /\ n.before = <<>> /\ n.whole = m.whole + 1 /\ c[n.whole] = m.before \o body
     \/ s[m.at + 1] = Control

MarksInv ==
  /\ \A k \in DOMAIN marks : marks[k].at <= Len(sent) /\ marks[k].whole <= Len(came)
  /\ \A k \in 1 .. Len(marks) - 1 : Between(sent, came, marks[k], marks[k + 1])
  /\ Here.at = Len(sent) /\ Here.whole = Len(came)

\* The reader is at mark m, or behind the header of the fragment there.
InStep(m) ==
  /\ Queued(m.whole)
  /\ CASE reader = "first"                -> Off = m.at /\ m.before = <<>>
       [] reader = "next"                 -> Off = m.at /\ buf = m.before
       [] reader \in {"more", "last"}     ->
            /\ Off = m.at + 2 /\ buf = m.before
            /\ \A i \in 1 .. 2 : auxBuf[i] = sent[m.at + i]
            /\ auxBuf[1] = (IF reader = "more" THEN MoreFollow ELSE LastOne)
       [] reader = "authenticate"         -> Off = 0 /\ m.at = 3 /\ m.before = <<>> /\ m.whole = 0
       [] reader \in {"control", "ended"} -> TRUE

ReaderInv ==
  /\ DeliveredWhole
  /\ ~short /\ peer # "reset" /\ reader \notin {"control", "ended"} => \E k \in DOMAIN marks : InStep(marks[k])

\* Every unread byte is one that was sent, the fragments meet at the marks, and
\* FromNet is at one of them or behind the header there with the bytes of the
\* message so far in its buffer, until a read is short (sockhelp.c:175-219).
DeliveredInv == StreamInv /\ MarksInv /\ ReaderInv

\* And behind WrittenWhole: between two messages nothing is left.
WrittenInv == WrittenWhole /\ (writer = "idle" => left = <<>>)
===============================================================================
