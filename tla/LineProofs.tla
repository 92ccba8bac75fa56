------------------------------ MODULE LineProofs ------------------------------
(***************************************************************************)
(* The line, for messages of any bytes and any number, cut anywhere by     *)
(* reads and writes: types, that what is queued is what was sent, and that *)
(* what is written is what was taken.                                      *)
(***************************************************************************)
EXTENDS Line, SequenceTheorems, TLAPS

-----------------------------------------------------------------------------
(* Bytes. *)

\* Two bytes are a header.
LEMMA Pair ==
  ASSUME NEW a \in Byte, NEW b \in Byte
  PROVE  <<a, b>> \in [1 .. 2 -> Byte]
  OBVIOUS

\* A header is a sequence of two bytes.
LEMMA PairSeq ==
  ASSUME NEW h \in [1 .. 2 -> Byte]
  PROVE  h \in Seq(Byte) /\ Len(h) = 2
<1>1. h[1] \in Byte /\ h[2] \in Byte  OBVIOUS
<1>2. h = <<h[1], h[2]>>  OBVIOUS
<1>3. <<h[1], h[2]>> \in Seq(Byte) /\ Len(<<h[1], h[2]>>) = 2  BY <1>1
<1> QED  BY <1>2, <1>3

\* What is left of a sequence of bytes behind its first k.
LEMMA Cut ==
  ASSUME NEW s \in Seq(Byte), NEW k \in 0 .. Len(s)
  PROVE  /\ SubSeq(s, 1, k) \in Seq(Byte) /\ Len(SubSeq(s, 1, k)) = k
         /\ \A i \in 1 .. k : SubSeq(s, 1, k)[i] = s[i]
         /\ SubSeq(s, k + 1, Len(s)) \in Seq(Byte) /\ Len(SubSeq(s, k + 1, Len(s))) = Len(s) - k
         /\ \A i \in 1 .. Len(s) - k : SubSeq(s, k + 1, Len(s))[i] = s[k + i]
         /\ SubSeq(s, 1, k) \o SubSeq(s, k + 1, Len(s)) = s
<1>1. Len(s) \in Nat /\ \A i \in 1 .. Len(s) : s[i] \in Byte  BY LenProperties
<1>2. /\ SubSeq(s, 1, k) \in Seq(Byte) /\ Len(SubSeq(s, 1, k)) = k
      /\ \A i \in 1 .. k : SubSeq(s, 1, k)[i] = s[i]
  <2>1. \A i \in 1 .. k : s[i] \in Byte  BY <1>1
  <2>2. 1 \in Int /\ k \in Int  BY <1>1
  <2> QED  BY <1>1, <2>1, <2>2, SubSeqProperties
<1>3. /\ SubSeq(s, k + 1, Len(s)) \in Seq(Byte) /\ Len(SubSeq(s, k + 1, Len(s))) = Len(s) - k
      /\ \A i \in 1 .. Len(s) - k : SubSeq(s, k + 1, Len(s))[i] = s[k + i]
  <2>1. \A i \in k + 1 .. Len(s) : s[i] \in Byte  BY <1>1
  <2>2. k + 1 \in Int /\ Len(s) \in Int  BY <1>1
  <2> QED  BY <1>1, <2>1, <2>2, SubSeqProperties
<1>4. SubSeq(s, 1, k) \o SubSeq(s, k + 1, Len(s)) = s
  <2>1. 1 \in 1 .. Len(s) + 1 /\ k \in 1 - 1 .. Len(s) /\ Len(s) \in k .. Len(s)  BY <1>1
  <2>2. SubSeq(s, 1, k) \o SubSeq(s, k + 1, Len(s)) = SubSeq(s, 1, Len(s))
    BY <2>1, ConcatAdjacentSubSeq
  <2> QED  BY <2>2, SubSeqFull
<1> QED  BY <1>2, <1>3, <1>4

\* The size of a body is a byte that is not zero, a number from one up.
LEMMA SizeOfBody ==
  ASSUME NEW n
  PROVE  /\ n \in 1 .. 255 => n \in Byte \ {0}
         /\ n \in Byte \ {0} => n \in Nat /\ n >= 1
  BY DEF Byte

\* A fragment: header and body.
LEMMA FragmentForm ==
  ASSUME NEW type \in Byte, NEW body \in Seq(Byte), Len(body) \in Byte \ {0}
  PROVE  /\ Fragment(type, body) \in Seq(Byte)
         /\ Len(Fragment(type, body)) = Len(body) + 2
         /\ Fragment(type, body)[1] = type /\ Fragment(type, body)[2] = Len(body)
         /\ \A i \in 1 .. Len(body) : Fragment(type, body)[2 + i] = body[i]
<1> DEFINE h == <<type, Len(body)>>
<1>1. Len(body) \in Byte /\ Len(body) \in Nat  BY SizeOfBody
<1>2. h \in Seq(Byte) /\ Len(h) = 2  BY <1>1
<1>3. h[1] = type /\ h[2] = Len(body)  OBVIOUS
<1> HIDE DEF h
<1>4. /\ h \o body \in Seq(Byte) /\ Len(h \o body) = Len(h) + Len(body)
      /\ \A i \in 1 .. Len(h) + Len(body) : (h \o body)[i] = IF i <= Len(h) THEN h[i] ELSE body[i - Len(h)]
  BY <1>2, ConcatProperties
<1>5. Fragment(type, body) = h \o body  BY DEF Fragment, h
<1>6. \A i \in 1 .. Len(body) : 2 + i \in 1 .. Len(h) + Len(body) /\ ~(2 + i <= Len(h)) /\ (2 + i) - Len(h) = i
  BY <1>2
<1>7. \A i \in 1 .. Len(body) : (h \o body)[2 + i] = body[i]  BY <1>4, <1>6
<1>8. (h \o body)[1] = h[1] /\ (h \o body)[2] = h[2]  BY <1>2, <1>4
<1>9. Len(h \o body) = Len(body) + 2  BY <1>2, <1>4
<1> QED  BY <1>3, <1>4, <1>5, <1>7, <1>8, <1>9

\* A read leaves bytes, returns bytes, and short is a Boolean.
LEMMA ReadTyped ==
  ASSUME TypeOK, NEW n, NEW got \in Chunks, NEW failed \in BOOLEAN, Read(n, got, failed)
  PROVE  got \in Seq(Byte) /\ stream' \in Seq(Byte) /\ short' \in BOOLEAN
<1>1. PICK k \in 0 .. Len(stream) : got = SubSeq(stream, 1, k)  BY DEF Chunks
<1>2. stream \in Seq(Byte)  BY DEF TypeOK
<1>3. got \in Seq(Byte) /\ Len(got) = k  BY <1>1, <1>2, Cut
<1>4. SubSeq(stream, k + 1, Len(stream)) \in Seq(Byte)  BY <1>2, Cut
<1> QED  BY <1>3, <1>4 DEF Read, TypeOK

\* A header read over another is a header.
LEMMA OverTyped ==
  ASSUME NEW old \in [1 .. 2 -> Byte], NEW got \in Seq(Byte)
  PROVE  Over(old, got) \in [1 .. 2 -> Byte]
<1>1. \A i \in 1 .. 2 : i <= Len(got) => got[i] \in Byte  BY LenProperties
<1> QED  BY <1>1 DEF Over
-----------------------------------------------------------------------------
(* Types. *)

\* A fragment that goes out keeps the types of what the network keeps.
LEMMA PutsTyped ==
  ASSUME TypeOK, NEW type \in Byte, NEW body \in Seq(Byte), Len(body) \in Byte \ {0},
         NEW before \in Seq(Byte), NEW whole \in Nat, Puts(type, body, before, whole),
         came' \in Seq(Seq(Byte))
  PROVE  TypeOK'
<1> DEFINE mark == [at |-> Len(sent) + 2 + Len(body), before |-> before, whole |-> whole]
           Mark == [at : Nat, before : Seq(Byte), whole : Nat]
<1>1. Fragment(type, body) \in Seq(Byte)  BY FragmentForm
<1>2. stream' \in Seq(Byte) /\ sent' \in Seq(Byte)  BY <1>1, ConcatProperties DEF TypeOK, Puts
<1>3. mark \in Mark
  <2>1. Len(sent) \in Nat  BY LenProperties DEF TypeOK
  <2> QED  BY <2>1
<1>4. marks \in Seq(Mark)  BY DEF TypeOK
<1>5. marks' = Append(marks, mark)  BY DEF Puts
<1> HIDE DEF mark, Mark
<1>6. marks' \in Seq(Mark) /\ Len(marks') = Len(marks) + 1  BY <1>3, <1>4, <1>5, AppendProperties
<1>7. Len(marks') \in 1 .. MaxIn + 1  BY <1>6, BoundAssumption DEF TypeOK, Puts
<1>8. UNCHANGED <<peer, reader, auxBuf, buf, forminq, short, writer, header, left, outline, taken, cut>>
  BY DEF Puts, reading, writing
<1> QED  BY <1>2, <1>6, <1>7, <1>8 DEF TypeOK, Mark

\* Where the network is.
LEMMA HereTyped ==
  ASSUME TypeOK
  PROVE  Here \in [at : Nat, before : Seq(Byte), whole : Nat]
<1>1. marks \in Seq([at : Nat, before : Seq(Byte), whole : Nat]) /\ Len(marks) \in 1 .. Len(marks)
  BY BoundAssumption DEF TypeOK
<1> QED  BY <1>1, ElementOfSeq DEF Here

\* What a read of FromNet keeps of the types.
LEMMA ReadKeeps ==
  ASSUME TypeOK, NEW n, NEW got \in Chunks, NEW failed \in BOOLEAN, Read(n, got, failed),
         buf' \in Seq(Byte), forminq' \in Seq(Seq(Byte)), auxBuf' \in [1 .. 2 -> Byte],
         reader' \in {"first", "control", "more", "next", "last", "ended"}
  PROVE  TypeOK'
<1>1. stream' \in Seq(Byte) /\ short' \in BOOLEAN  BY ReadTyped
<1>2. UNCHANGED <<peer, sent, came, marks, writer, header, left, outline, taken, cut>>
  BY DEF Read, sending, writing
<1> QED  BY <1>1, <1>2 DEF TypeOK

LEMMA NetworkTyped ==
  ASSUME TypeOK
  PROVE  /\ \A body \in Bodies : SendsMore(body) => TypeOK'
         /\ \A body \in Bodies : SendsLast(body) => TypeOK'
         /\ SendsControl => TypeOK'
         /\ \A how \in {"closed", "reset"} : Leaves(how) => TypeOK'
<1>1. \A body \in Bodies : body \in Seq(Byte) /\ Len(body) \in Byte \ {0}  BY MessageAssumption, SizeOfBody
<1>2. MoreFollow \in Byte /\ LastOne \in Byte /\ Control \in Byte
  BY DEF MoreFollow, LastOne, Control, Byte
<1>3. Here.before \in Seq(Byte) /\ Here.whole \in Nat  BY HereTyped
<1>4. ASSUME NEW body \in Bodies, SendsMore(body)  PROVE TypeOK'
  <2>1. Here.before \o body \in Seq(Byte)  BY <1>1, <1>3, ConcatProperties
  <2>2. came' \in Seq(Seq(Byte))  BY <1>4 DEF SendsMore, TypeOK
  <2>3. Puts(MoreFollow, body, Here.before \o body, Here.whole)  BY <1>4 DEF SendsMore
  <2> QED  BY <1>1, <1>2, <1>3, <2>1, <2>2, <2>3, PutsTyped
<1>5. ASSUME NEW body \in Bodies, SendsLast(body)  PROVE TypeOK'
  <2>1. Here.before \o body \in Seq(Byte)  BY <1>1, <1>3, ConcatProperties
  <2>2. came' \in Seq(Seq(Byte))  BY <1>5, <2>1, AppendProperties DEF SendsLast, TypeOK
  <2>3. Puts(LastOne, body, <<>>, Here.whole + 1)  BY <1>5 DEF SendsLast
  <2>4. <<>> \in Seq(Byte) /\ Here.whole + 1 \in Nat  BY <1>3
  <2> QED  BY <1>1, <1>2, <2>2, <2>3, <2>4, PutsTyped
<1>6. ASSUME SendsControl  PROVE TypeOK'
  <2>1. <<1>> \in Seq(Byte) /\ Len(<<1>>) \in Byte \ {0}  BY DEF Byte
  <2>2. came' \in Seq(Seq(Byte))  BY <1>6 DEF SendsControl, TypeOK
  <2>3. Puts(Control, <<1>>, Here.before, Here.whole)  BY <1>6 DEF SendsControl
  <2> QED  BY <1>2, <1>3, <2>1, <2>2, <2>3, PutsTyped
<1>7. ASSUME NEW how \in {"closed", "reset"}, Leaves(how)  PROVE TypeOK'
  <2>1. <<>> \in Seq(Byte)  OBVIOUS
  <2> QED  BY <1>7, <2>1 DEF Leaves, TypeOK, sending, reading, writing
<1> QED  BY <1>4, <1>5, <1>6, <1>7

LEMMA FromNetTyped ==
  ASSUME TypeOK, FromNet
  PROVE  TypeOK'
<1>1. CASE authenticate
  <2>1. PICK got \in Chunks, failed \in BOOLEAN : Read(3, got, failed)  BY <1>1 DEF authenticate
  <2> QED  BY <1>1, <2>1, ReadKeeps DEF authenticate, TypeOK
<1>2. CASE FirstHeader
  <2>1. PICK got \in Chunks, failed \in BOOLEAN : Read(2, got, failed) /\ auxBuf' = Over(<<0, 0>>, got)
    BY <1>2 DEF FirstHeader
  <2>2. auxBuf' \in [1 .. 2 -> Byte]
    <3>1. 0 \in Byte  BY DEF Byte
    <3> QED  BY <2>1, <3>1, Pair, ReadTyped, OverTyped
  <2>3. reader' \in {"first", "control", "more", "next", "last", "ended"}
    BY <1>2 DEF FirstHeader, AtFirst
  <2>4. buf' \in Seq(Byte) /\ forminq' \in Seq(Seq(Byte))  BY <1>2 DEF FirstHeader, TypeOK
  <2> QED  BY <2>1, <2>2, <2>3, <2>4, ReadKeeps
<1>3. CASE ControlBody
  <2>1. PICK got \in Chunks, failed \in BOOLEAN : Read(Signed(auxBuf[2]), got, failed)
    BY <1>3 DEF ControlBody
  <2> QED  BY <1>3, <2>1, ReadKeeps DEF ControlBody, termina, TypeOK
<1>4. CASE FragmentBody
  <2>1. PICK got \in Chunks, failed \in BOOLEAN :
          /\ Read(Signed(auxBuf[2]), got, failed)
          /\ buf' = Joined(buf, got)
          /\ reader' = IF failed THEN "ended" ELSE "next"
    BY <1>4 DEF FragmentBody
  <2>2. buf' \in Seq(Byte)  BY <2>1, ReadTyped, ConcatProperties DEF Joined, TypeOK
  <2> QED  BY <1>4, <2>1, <2>2, ReadKeeps DEF FragmentBody, TypeOK
<1>5. CASE NextHeader
  <2>1. PICK got \in Chunks, failed \in BOOLEAN : Read(2, got, failed) /\ auxBuf' = Over(auxBuf, got)
    BY <1>5 DEF NextHeader
  <2>2. auxBuf' \in [1 .. 2 -> Byte]  BY <2>1, ReadTyped, OverTyped DEF TypeOK
  <2> QED  BY <1>5, <2>1, <2>2, ReadKeeps DEF NextHeader, TypeOK
<1>6. CASE LastBody
  <2>1. PICK got \in Chunks, failed \in BOOLEAN :
          /\ Read(Signed(auxBuf[2]), got, failed)
          /\ IF Ended(failed, Joined(buf, got))
               THEN termina /\ UNCHANGED forminq
               ELSE reader' = "first" /\ forminq' = Append(forminq, Joined(buf, got))
          /\ buf' = Joined(buf, got)
    BY <1>6 DEF LastBody
  <2>2. Joined(buf, got) \in Seq(Byte)  BY <2>1, ReadTyped, ConcatProperties DEF Joined, TypeOK
  <2>3. forminq' \in Seq(Seq(Byte)) /\ reader' \in {"first", "ended"}
    <3>1. forminq \in Seq(Seq(Byte))  BY DEF TypeOK
    <3>2. Append(forminq, Joined(buf, got)) \in Seq(Seq(Byte))  BY <2>2, <3>1, AppendProperties
    <3> QED  BY <2>1, <3>1, <3>2 DEF termina
  <2>4. auxBuf' \in [1 .. 2 -> Byte]  BY <1>6 DEF LastBody, TypeOK
  <2> QED  BY <2>1, <2>2, <2>3, <2>4, ReadKeeps
<1> QED  BY <1>1, <1>2, <1>3, <1>4, <1>5, <1>6 DEF FromNet

\* The two bytes before a message are bytes.
LEMMA LengthTyped ==
  ASSUME NEW m \in OutMessages, NEW length \in LengthBytes(Len(m))
  PROVE  <<0, length>> \in [1 .. 2 -> Byte]
<1>1. Len(m) \in Nat  BY MessageAssumption, LenProperties
<1>2. Len(m) % 256 \in 0 .. 255
  <2>1. \A c \in Nat : c % 256 \in 0 .. 255  OBVIOUS
  <2> QED  BY <1>1, <2>1
<1>3. length \in Byte  BY <1>2, ByteAssumption DEF LengthBytes, Byte
<1>4. 0 \in Byte  BY DEF Byte
<1> QED  BY <1>3, <1>4, Pair

LEMMA ToNetTyped ==
  ASSUME TypeOK, ToNet
  PROVE  TypeOK'
<1>1. ASSUME NEW m \in OutMessages, TakesMessage(m)  PROVE TypeOK'
  <2>1. PICK length \in LengthBytes(Len(m)) : header' = <<0, length>>  BY <1>1 DEF TakesMessage
  <2>2. header' \in [1 .. 2 -> Byte]  BY <2>1, LengthTyped
  <2>3. m \in Seq(Byte)  BY MessageAssumption
  <2>4. taken' \in Seq(Byte)
    <3>1. header' \o m \in Seq(Byte)  BY <2>2, <2>3, PairSeq, ConcatProperties
    <3> QED  BY <1>1, <3>1, ConcatProperties DEF TakesMessage, TypeOK
  <2> QED  BY <1>1, <2>2, <2>3, <2>4 DEF TakesMessage, TypeOK, sending, reading
<1>2. CASE WritesHeader
  <2>1. PICK k \in 0 .. 2 : outline' = outline \o SubSeq(header, 1, k) /\ cut' = (cut \/ k # 2)
    BY <1>2 DEF WritesHeader
  <2>2. SubSeq(header, 1, k) \in Seq(Byte)  BY PairSeq, Cut DEF TypeOK
  <2>3. outline' \in Seq(Byte)  BY <2>1, <2>2, ConcatProperties DEF TypeOK
  <2>4. cut' \in BOOLEAN  BY <2>1 DEF TypeOK
  <2> QED  BY <1>2, <2>3, <2>4 DEF WritesHeader, TypeOK, sending, reading
<1>3. CASE WritesBody
  <2>1. PICK k \in 1 .. Len(left) : outline' = outline \o SubSeq(left, 1, k) /\ left' = Rest(left, k)
    BY <1>3 DEF WritesBody
  <2>2. left \in Seq(Byte) /\ k \in 0 .. Len(left)  BY DEF TypeOK
  <2>3. SubSeq(left, 1, k) \in Seq(Byte) /\ left' \in Seq(Byte)  BY <2>1, <2>2, Cut DEF Rest
  <2>4. outline' \in Seq(Byte)  BY <2>1, <2>3, ConcatProperties DEF TypeOK
  <2> QED  BY <1>3, <2>3, <2>4 DEF WritesBody, TypeOK, sending, reading
<1>4. CASE WriteFails
  BY <1>4 DEF WriteFails, termina, TypeOK, sending, writing
<1> QED  BY <1>1, <1>2, <1>3, <1>4 DEF ToNet

\* Whatever the network sends and fmt queues, and however reads and writes cut
\* it, every variable keeps its type: the length byte that sendToNet or's into
\* one that was never set is a byte (sockhelp.c:229-232).
THEOREM TypeCorrect == Spec => []TypeOK
<1>1. Init => TypeOK
  <2>1. SUFFICES ASSUME Init PROVE TypeOK  OBVIOUS
  <2>2. stream \in Seq(Byte) /\ Len(stream) = 3  BY <2>1, GreetingAssumption DEF Init
  <2>3. <<0, 0>> \in [1 .. 2 -> Byte]
    <3>1. 0 \in Byte  BY DEF Byte
    <3> QED  BY <3>1, Pair
  <2>4. /\ marks \in Seq([at : Nat, before : Seq(Byte), whole : Nat])
        /\ Len(marks) = 1
    <3>1. [at |-> Len(stream), before |-> <<>>, whole |-> 0] \in [at : Nat, before : Seq(Byte), whole : Nat]
      BY <2>2
    <3> QED  BY <2>1, <3>1 DEF Init
  <2>5. Len(marks) \in 1 .. MaxIn + 1  BY <2>4, BoundAssumption
  <2>6. <<>> \in Seq(Byte) /\ <<>> \in Seq(Seq(Byte))  OBVIOUS
  <2> QED  BY <2>1, <2>2, <2>3, <2>4, <2>5, <2>6 DEF Init, TypeOK
<1>2. TypeOK /\ [Next]_vars => TypeOK'
  <2>1. SUFFICES ASSUME TypeOK, [Next]_vars PROVE TypeOK'  OBVIOUS
  <2>2. CASE UNCHANGED vars  BY <2>1, <2>2 DEF vars, sending, reading, writing, TypeOK
  <2>3. CASE Next  BY <2>1, <2>3, NetworkTyped, FromNetTyped, ToNetTyped DEF Next
  <2> QED  BY <2>1, <2>2, <2>3
<1> QED  BY <1>1, <1>2, PTL DEF Spec
-----------------------------------------------------------------------------
(* What is written. *)

LEMMA TakesWhole ==
  ASSUME TypeOK, WrittenInv, NEW m \in OutMessages, TakesMessage(m)
  PROVE  WrittenInv'
<1>1. TypeOK'  BY ToNetTyped DEF ToNet
<1>2. /\ left = <<>> /\ left' = m /\ writer = "idle" /\ writer' = "header"
      /\ outline' = outline /\ cut' = cut /\ taken' = taken \o (header' \o m)
  BY DEF TakesMessage, WrittenInv
<1>3. outline \o <<>> = outline  BY ConcatEmptySeq DEF TypeOK
<1>4. ~cut => outline = taken  BY <1>2, <1>3 DEF WrittenInv, WrittenWhole
<1> QED  BY <1>2, <1>4 DEF WrittenInv, WrittenWhole

LEMMA HeaderWhole ==
  ASSUME TypeOK, WrittenInv, WritesHeader
  PROVE  WrittenInv'
<1>1. PICK k \in 0 .. 2 : outline' = outline \o SubSeq(header, 1, k) /\ cut' = (cut \/ k # 2)
  BY DEF WritesHeader
<1>2. writer = "header" /\ writer' = "body" /\ left' = left /\ taken' = taken  BY DEF WritesHeader
<1>3. header \in Seq(Byte) /\ Len(header) = 2 /\ outline \in Seq(Byte) /\ left \in Seq(Byte)
  BY PairSeq DEF TypeOK
<1>4. ASSUME ~cut'  PROVE outline' \o left' = taken'
  <2>1. k = 2 /\ ~cut  BY <1>1, <1>4 DEF TypeOK
  <2>2. SubSeq(header, 1, 2) = header  BY <1>3, SubSeqFull
  <2>3. outline' = outline \o header  BY <1>1, <2>1, <2>2
  <2>4. (outline \o header) \o left = outline \o (header \o left)  BY <1>3, ConcatAssociative
  <2>5. outline \o (header \o left) = taken  BY <1>2, <2>1 DEF WrittenInv, WrittenWhole
  <2> QED  BY <1>2, <2>3, <2>4, <2>5
<1> QED  BY <1>2, <1>4 DEF WrittenInv, WrittenWhole

LEMMA BodyWhole ==
  ASSUME TypeOK, WrittenInv, WritesBody
  PROVE  WrittenInv'
<1>1. PICK k \in 1 .. Len(left) : outline' = outline \o SubSeq(left, 1, k) /\ left' = Rest(left, k)
  BY DEF WritesBody
<1>2. /\ writer = "body" /\ writer' = (IF left' = <<>> THEN "idle" ELSE "body")
      /\ taken' = taken /\ cut' = cut
  BY DEF WritesBody
<1>3. outline \in Seq(Byte) /\ left \in Seq(Byte) /\ k \in 0 .. Len(left)  BY DEF TypeOK
<1>4. /\ SubSeq(left, 1, k) \in Seq(Byte) /\ Rest(left, k) \in Seq(Byte)
      /\ SubSeq(left, 1, k) \o Rest(left, k) = left
  BY <1>3, Cut DEF Rest
<1>5. outline' \o left' = outline \o left
  <2> DEFINE w == SubSeq(left, 1, k)
             r == Rest(left, k)
  <2>1. w \in Seq(Byte) /\ r \in Seq(Byte) /\ w \o r = left  BY <1>4
  <2>2. outline' = outline \o w /\ left' = r  BY <1>1
  <2> HIDE DEF w, r
  <2>3. outline \in Seq(Byte)  BY <1>3
  <2>4. w \in Seq(Byte) /\ r \in Seq(Byte)  BY <2>1
  <2>5. (outline \o w) \o r = outline \o (w \o r)  BY ONLY <2>3, <2>4, ConcatAssociative
  <2> QED  BY <2>1, <2>2, <2>5
<1>6. ~cut => outline \o left = taken  BY <1>2 DEF WrittenInv, WrittenWhole
<1> QED  BY <1>2, <1>5, <1>6 DEF WrittenInv, WrittenWhole

\* What is on the line is what was taken from DRIVERQ, every message behind its
\* header and not a byte lost or twice, for messages of any length and writes cut
\* anywhere, as long as every header was taken whole (sockhelp.c:240-247).
THEOREM WrittenHolds == Spec => []WrittenWhole
<1>1. Init => WrittenInv
  <2>1. SUFFICES ASSUME Init PROVE WrittenInv  OBVIOUS
  <2>2. <<>> \o <<>> = <<>>  OBVIOUS
  <2> QED  BY <2>1, <2>2 DEF Init, WrittenInv, WrittenWhole
<1>2. TypeOK /\ WrittenInv /\ [Next]_vars => WrittenInv'
  <2>1. SUFFICES ASSUME TypeOK, WrittenInv, [Next]_vars PROVE WrittenInv'  OBVIOUS
  <2>2. ASSUME UNCHANGED writing  PROVE WrittenInv'
    BY <2>1, <2>2 DEF writing, WrittenInv, WrittenWhole
  <2>3. CASE UNCHANGED vars  BY <2>2, <2>3 DEF vars
  <2>4. ASSUME NEW body \in Bodies, SendsMore(body) \/ SendsLast(body)  PROVE WrittenInv'
    BY <2>2, <2>4 DEF SendsMore, SendsLast, Puts
  <2>5. CASE SendsControl  BY <2>2, <2>5 DEF SendsControl, Puts
  <2>6. ASSUME NEW how \in {"closed", "reset"}, Leaves(how)  PROVE WrittenInv'
    BY <2>2, <2>6 DEF Leaves
  <2>7. CASE FromNet
    BY <2>2, <2>7 DEF FromNet, authenticate, FirstHeader, ControlBody, FragmentBody, NextHeader, LastBody, Read
  <2>8. ASSUME NEW m \in OutMessages, TakesMessage(m)  PROVE WrittenInv'
    BY <2>1, <2>8, TakesWhole
  <2>9. CASE WritesHeader  BY <2>1, <2>9, HeaderWhole
  <2>10. CASE WritesBody  BY <2>1, <2>10, BodyWhole
  <2>11. CASE WriteFails  BY <2>2, <2>11 DEF WriteFails
  <2> QED  BY <2>1, <2>3, <2>4, <2>5, <2>6, <2>7, <2>8, <2>9, <2>10, <2>11 DEF Next, ToNet
<1>3. WrittenInv => WrittenWhole  BY DEF WrittenInv
<1> QED  BY <1>1, <1>2, <1>3, TypeCorrect, PTL DEF Spec
-----------------------------------------------------------------------------
(* What is read: the bytes. *)

LEMMA OffTyped ==
  ASSUME TypeOK
  PROVE  /\ Len(sent) \in Nat /\ Len(stream) \in Nat /\ Off \in Int
         /\ (StreamInv /\ peer # "reset" => Off \in 0 .. Len(sent))
<1>1. Len(sent) \in Nat /\ Len(stream) \in Nat  BY LenProperties DEF TypeOK
<1> QED  BY <1>1 DEF Off, StreamInv

\* A read of n bytes that is not short is one of the next n bytes sent.
LEMMA ReadInStep ==
  ASSUME TypeOK, StreamInv, NEW n \in Int, NEW got \in Chunks, NEW failed \in BOOLEAN,
         Read(n, got, failed), ~short'
  PROVE  /\ ~short /\ ~failed /\ peer # "reset" /\ n \in Nat
         /\ Len(got) = n /\ Off + n <= Len(sent) /\ Off' = Off + n
         /\ \A i \in 1 .. n : got[i] = sent[Off + i]
<1>1. PICK k \in 0 .. Len(stream) : got = SubSeq(stream, 1, k)  BY DEF Chunks
<1>2. stream \in Seq(Byte)  BY DEF TypeOK
<1>3. Len(got) = k /\ \A i \in 1 .. k : got[i] = stream[i]  BY <1>1, <1>2, Cut
<1>4. ~short /\ ~failed /\ Len(got) = n  BY DEF Read, TypeOK
<1>5. peer # "reset" /\ n \in Nat  BY <1>4 DEF Read, GetsError
<1>6. k = n  BY <1>3, <1>4
<1>7. stream' = SubSeq(stream, k + 1, Len(stream)) /\ sent' = sent  BY <1>3 DEF Read, sending
<1>8. Len(stream') = Len(stream) - k  BY <1>2, <1>7, Cut
<1>9. Off + n <= Len(sent) /\ Off' = Off + n
  <2>1. Len(sent') = Len(sent) /\ Len(stream') = Len(stream) - n  BY <1>6, <1>7, <1>8
  <2>2. Off = Len(sent) - Len(stream) /\ Off' = Len(sent') - Len(stream')  BY DEF Off
  <2>3. Len(sent) \in Nat /\ Len(stream) \in Nat /\ n \in 0 .. Len(stream)  BY <1>6, OffTyped
  <2> QED  BY <2>1, <2>2, <2>3
<1>10. \A i \in 1 .. n : got[i] = sent[Off + i]
  <2>1. \A i \in 1 .. Len(stream) : stream[i] = sent[Off + i]  BY <1>5 DEF StreamInv
  <2>2. \A i \in 1 .. k : i \in 1 .. Len(stream)  BY OffTyped
  <2> QED  BY <1>3, <1>6, <2>1, <2>2
<1> QED  BY <1>4, <1>5, <1>9, <1>10

\* What is not read is still the end of what was sent.
LEMMA ReadStream ==
  ASSUME TypeOK, StreamInv, NEW n, NEW got \in Chunks, NEW failed \in BOOLEAN, Read(n, got, failed)
  PROVE  StreamInv'
<1>1. PICK k \in 0 .. Len(stream) : got = SubSeq(stream, 1, k)  BY DEF Chunks
<1>2. stream \in Seq(Byte)  BY DEF TypeOK
<1>3. Len(got) = k  BY <1>1, <1>2, Cut
<1>4. stream' = SubSeq(stream, k + 1, Len(stream)) /\ sent' = sent /\ peer' = peer
  BY <1>3 DEF Read, sending
<1>5. Len(stream') = Len(stream) - k /\ \A i \in 1 .. Len(stream) - k : stream'[i] = stream[k + i]
  BY <1>2, <1>4, Cut
<1>6. SUFFICES ASSUME peer # "reset"
               PROVE  /\ Len(stream') <= Len(sent')
                      /\ \A i \in 1 .. Len(stream') : stream'[i] = sent'[Off' + i]
  BY <1>4 DEF StreamInv
<1>7. Len(stream) <= Len(sent) /\ \A i \in 1 .. Len(stream) : stream[i] = sent[Off + i]
  BY <1>6 DEF StreamInv
<1>8. Len(stream') <= Len(sent')  BY <1>4, <1>5, <1>7, OffTyped
<1>9. Off' = Off + k
  <2>1. Len(sent') = Len(sent) /\ Len(stream') = Len(stream) - k  BY <1>4, <1>5
  <2>2. Off = Len(sent) - Len(stream) /\ Off' = Len(sent') - Len(stream')  BY DEF Off
  <2>3. Len(sent) \in Nat /\ Len(stream) \in Nat /\ k \in Nat  BY OffTyped
  <2> QED  BY <2>1, <2>2, <2>3
<1>10. ASSUME NEW i \in 1 .. Len(stream')  PROVE stream'[i] = sent'[Off' + i]
  <2>1. i \in 1 .. Len(stream) - k /\ k + i \in 1 .. Len(stream)  BY <1>5, OffTyped
  <2>2. Off' + i = Off + (k + i)  BY <1>9, <2>1, OffTyped
  <2> QED  BY <1>4, <1>5, <1>7, <2>1, <2>2
<1> QED  BY <1>8, <1>10
-----------------------------------------------------------------------------
(* What is read: the fragments. *)

Mark == [at : Nat, before : Seq(Byte), whole : Nat]

LEMMA MarkTyped ==
  ASSUME TypeOK, NEW k \in DOMAIN marks
  PROVE  /\ marks[k] \in Mark /\ k \in 1 .. Len(marks)
         /\ marks[k].at \in Nat /\ marks[k].before \in Seq(Byte) /\ marks[k].whole \in Nat
<1>1. marks \in Seq(Mark)  BY DEF TypeOK, Mark
<1>2. k \in 1 .. Len(marks)  BY <1>1, LenProperties
<1>3. marks[k] \in Mark  BY <1>1, <1>2, ElementOfSeq
<1> QED  BY <1>2, <1>3 DEF Mark

\* Behind a mark before the end of what was sent there is a fragment.
LEMMA FragmentHere ==
  ASSUME TypeOK, MarksInv, NEW k \in DOMAIN marks, marks[k].at < Len(sent)
  PROVE  k + 1 \in DOMAIN marks /\ Between(sent, came, marks[k], marks[k + 1])
<1>1. k \in 1 .. Len(marks)  BY MarkTyped
<1>2. Here.at = Len(sent)  BY DEF MarksInv
<1>3. k # Len(marks)  BY <1>2, OffTyped DEF Here
<1>4. k \in 1 .. Len(marks) - 1  BY <1>1, <1>3
<1>5. k + 1 \in DOMAIN marks  BY <1>1, <1>3 DEF TypeOK
<1> QED  BY <1>4, <1>5 DEF MarksInv

\* The numbers that tell fragments apart.
LEMMA Types == MoreFollow # LastOne /\ MoreFollow # Control /\ LastOne # Control
  BY DEF MoreFollow, LastOne, Control

\* A header that is read whole, where a fragment begins, is that fragment's.
LEMMA HeaderRead ==
  ASSUME TypeOK, StreamInv, MarksInv, NEW k \in DOMAIN marks, Off = marks[k].at,
         NEW old, NEW got \in Chunks, NEW failed \in BOOLEAN, Read(2, got, failed), ~short'
  PROVE  /\ peer # "reset" /\ Off' = marks[k].at + 2
         /\ k + 1 \in DOMAIN marks /\ Between(sent, came, marks[k], marks[k + 1])
         /\ \A i \in 1 .. 2 : Over(old, got)[i] = sent[marks[k].at + i]
<1>1. /\ peer # "reset" /\ Len(got) = 2 /\ Off + 2 <= Len(sent) /\ Off' = Off + 2
      /\ \A i \in 1 .. 2 : got[i] = sent[Off + i]
  <2>1. 2 \in Int  OBVIOUS
  <2> QED  BY <2>1, ReadInStep
<1>2. marks[k].at < Len(sent)  BY <1>1, MarkTyped, OffTyped
<1>3. \A i \in 1 .. 2 : Over(old, got)[i] = got[i]  BY <1>1 DEF Over
<1> QED  BY <1>1, <1>2, <1>3, FragmentHere

\* A length that is no error is the byte that was read.
LEMMA SignedByte ==
  ASSUME NEW b \in Byte
  PROVE  Signed(b) \in Int /\ (Signed(b) \in Nat => Signed(b) = b)
  BY DEF Signed, Byte

\* A body that is read whole, behind its header, is what that fragment carries.
LEMMA BodyRead ==
  ASSUME TypeOK, StreamInv, MarksInv, NEW k \in DOMAIN marks, Off = marks[k].at + 2,
         auxBuf[2] = sent[marks[k].at + 2],
         NEW got \in Chunks, NEW failed \in BOOLEAN, Read(Signed(auxBuf[2]), got, failed), ~short'
  PROVE  /\ ~failed /\ peer # "reset"
         /\ k + 1 \in DOMAIN marks /\ Between(sent, came, marks[k], marks[k + 1])
         /\ Off' = marks[k + 1].at /\ got = SubSeq(sent, marks[k].at + 3, marks[k + 1].at)
<1> DEFINE n == Signed(auxBuf[2])
           m == marks[k].at
           e == marks[k + 1].at
<1>1. auxBuf[2] \in Byte
  <2>1. auxBuf \in [1 .. 2 -> Byte] /\ 2 \in 1 .. 2  BY DEF TypeOK
  <2> QED  BY <2>1
<1>2. n \in Int /\ (n \in Nat => n = auxBuf[2])  BY <1>1, SignedByte
<1>3. Read(n, got, failed) /\ Off = m + 2  OBVIOUS
<1> HIDE DEF n
<1>4. /\ ~failed /\ peer # "reset" /\ n \in Nat /\ Len(got) = n /\ Off + n <= Len(sent) /\ Off' = Off + n
      /\ \A i \in 1 .. n : got[i] = sent[Off + i]
  BY <1>2, <1>3, ReadInStep
<1>5. m \in Nat /\ m < Len(sent)  BY <1>4, MarkTyped, OffTyped
<1>6. k + 1 \in DOMAIN marks /\ Between(sent, came, marks[k], marks[k + 1])  BY <1>5, FragmentHere
<1>7. e \in Nat  BY <1>6, MarkTyped
<1>8. m + 3 <= e /\ sent[m + 2] = e - (m + 2)  BY <1>6 DEF Between
<1>9. n = e - (m + 2)  BY <1>2, <1>4, <1>8
<1>10. Off' = e  BY <1>4, <1>5, <1>7, <1>9
<1>11. got = SubSeq(sent, m + 3, e)
  <2> DEFINE s == SubSeq(sent, m + 3, e)
  <2>1. e <= Len(sent)  BY <1>4, <1>5, <1>7, <1>9, OffTyped
  <2>2. \A i \in m + 3 .. e : sent[i] \in Byte
    <3>1. sent \in Seq(Byte) /\ Len(sent) \in Nat  BY OffTyped DEF TypeOK
    <3>2. \A i \in m + 3 .. e : i \in 1 .. Len(sent)  BY <1>5, <1>7, <2>1, <3>1
    <3> QED  BY <3>1, <3>2, ElementOfSeq
  <2>3. m + 3 \in Int /\ e \in Int  BY <1>5, <1>7
  <2>4. /\ s \in Seq(Byte) /\ Len(s) = (IF m + 3 <= e THEN e - (m + 3) + 1 ELSE 0)
        /\ \A i \in 1 .. e - (m + 3) + 1 : s[i] = sent[(m + 3) + i - 1]
    BY <2>2, <2>3, SubSeqProperties
  <2> HIDE DEF s
  <2>5. Len(s) = n  BY <1>5, <1>7, <1>8, <1>9, <2>4
  <2>6. ASSUME NEW i \in 1 .. n  PROVE got[i] = s[i]
    <3>1. e - (m + 3) + 1 = n  BY <1>5, <1>7, <1>9
    <3>2. (m + 3) + i - 1 = Off + i  BY <1>3, <1>4, <1>5
    <3> QED  BY <1>4, <2>4, <3>1, <3>2
  <2>7. got \in Seq(Byte)  BY ReadTyped
  <2>8. got = s  BY <1>4, <2>4, <2>5, <2>6, <2>7, SeqEqual
  <2> QED  BY <2>8 DEF s
<1> QED  BY <1>4, <1>6, <1>10, <1>11
-----------------------------------------------------------------------------
(* What is read: the steps. *)

\* A read that queues nothing, or is short, leaves what is queued as right as it was.
LEMMA StillDelivered ==
  ASSUME TypeOK, DeliveredWhole, NEW n, NEW got, NEW failed \in BOOLEAN, Read(n, got, failed),
         UNCHANGED forminq
  PROVE  DeliveredWhole' /\ (~short' => ~short)
<1>1. ~short' => ~short  BY DEF Read
<1>2. came' = came  BY DEF Read, sending
<1> QED  BY <1>1, <1>2 DEF DeliveredWhole, Queued

\* Where the reader is, unless it is done or out of step.
LEMMA ReaderAt ==
  ASSUME ReaderInv, ~short, peer # "reset", reader \notin {"control", "ended"}
  PROVE  \E k \in DOMAIN marks : InStep(marks[k])
  BY DEF ReaderInv

LEMMA AuthenticateStep ==
  ASSUME TypeOK, StreamInv, ReaderInv, authenticate
  PROVE  ReaderInv'
<1>1. PICK got \in Chunks, failed \in BOOLEAN : Read(3, got, failed)  BY DEF authenticate
<1>2. /\ reader = "authenticate" /\ reader' = "first" /\ UNCHANGED <<marks, came, forminq>>
      /\ DeliveredWhole' /\ (~short' => ~short)
  BY <1>1, StillDelivered DEF authenticate, Read, sending, ReaderInv
<1>3. SUFFICES ASSUME ~short'  PROVE \E k \in DOMAIN marks' : InStep(marks[k])'
  BY <1>2 DEF ReaderInv
<1>4. peer # "reset" /\ Off' = Off + 3
  <2>1. 3 \in Int  OBVIOUS
  <2> QED  BY <1>1, <1>3, <2>1, ReadInStep
<1>5. PICK k \in DOMAIN marks : InStep(marks[k])  BY <1>2, <1>3, <1>4, ReaderAt
<1>6. Off' = marks[k].at /\ marks[k].before = <<>> /\ Queued(marks[k].whole)  BY <1>2, <1>4, <1>5 DEF InStep
<1>7. InStep(marks[k])'  BY <1>2, <1>6 DEF InStep, Queued
<1> QED  BY <1>2, <1>5, <1>7

LEMMA FirstHeaderStep ==
  ASSUME TypeOK, StreamInv, MarksInv, ReaderInv, FirstHeader
  PROVE  ReaderInv'
<1>1. PICK got \in Chunks, failed \in BOOLEAN : Read(2, got, failed) /\ auxBuf' = Over(<<0, 0>>, got)
  BY DEF FirstHeader
<1>2. /\ reader = "first" /\ reader' = AtFirst(auxBuf') /\ buf' = <<>>
      /\ UNCHANGED <<marks, came, sent, forminq>>
      /\ DeliveredWhole' /\ (~short' => ~short)
  BY <1>1, StillDelivered DEF FirstHeader, Read, sending, ReaderInv
<1>3. SUFFICES ASSUME ~short', reader' \notin {"control", "ended"}
               PROVE \E k \in DOMAIN marks' : InStep(marks[k])'
  BY <1>2 DEF ReaderInv
<1>4. peer # "reset"
  <2>1. 2 \in Int  OBVIOUS
  <2> QED  BY <1>1, <1>3, <2>1, ReadInStep
<1>5. PICK k \in DOMAIN marks : InStep(marks[k])  BY <1>2, <1>3, <1>4, ReaderAt
<1>6. Off = marks[k].at /\ marks[k].before = <<>> /\ Queued(marks[k].whole)  BY <1>2, <1>5 DEF InStep
<1>7. Off' = marks[k].at + 2 /\ \A i \in 1 .. 2 : auxBuf'[i] = sent[marks[k].at + i]
  BY <1>1, <1>3, <1>6, HeaderRead
<1>8. \/ reader' = "more" /\ auxBuf'[1] = MoreFollow
      \/ reader' = "last" /\ auxBuf'[1] = LastOne
  BY <1>2, <1>3 DEF AtFirst
<1>9. InStep(marks[k])'
  <2>1. Queued(marks[k].whole)'  BY <1>2, <1>6 DEF Queued
  <2>2. Off' = marks'[k].at + 2 /\ buf' = marks'[k].before  BY <1>2, <1>6, <1>7
  <2>3. \A i \in 1 .. 2 : auxBuf'[i] = sent'[marks'[k].at + i]  BY <1>2, <1>7
  <2> QED  BY <1>8, <2>1, <2>2, <2>3 DEF InStep
<1> QED  BY <1>2, <1>5, <1>9

LEMMA NextHeaderStep ==
  ASSUME TypeOK, StreamInv, MarksInv, ReaderInv, NextHeader
  PROVE  ReaderInv'
<1>1. PICK got \in Chunks, failed \in BOOLEAN : Read(2, got, failed) /\ auxBuf' = Over(auxBuf, got)
  BY DEF NextHeader
<1>2. /\ reader = "next" /\ UNCHANGED <<marks, came, sent, forminq, buf>>
      /\ reader' = CASE auxBuf'[1] = MoreFollow -> "more"
                     [] auxBuf'[1] = LastOne    -> "last"
                     [] OTHER                   -> "ended"
      /\ DeliveredWhole' /\ (~short' => ~short)
  BY <1>1, StillDelivered DEF NextHeader, Read, sending, ReaderInv
<1>3. SUFFICES ASSUME ~short', reader' \notin {"control", "ended"}
               PROVE \E k \in DOMAIN marks' : InStep(marks[k])'
  BY <1>2 DEF ReaderInv
<1>4. peer # "reset"
  <2>1. 2 \in Int  OBVIOUS
  <2> QED  BY <1>1, <1>3, <2>1, ReadInStep
<1>5. PICK k \in DOMAIN marks : InStep(marks[k])  BY <1>2, <1>3, <1>4, ReaderAt
<1>6. Off = marks[k].at /\ buf = marks[k].before /\ Queued(marks[k].whole)  BY <1>2, <1>5 DEF InStep
<1>7. Off' = marks[k].at + 2 /\ \A i \in 1 .. 2 : auxBuf'[i] = sent[marks[k].at + i]
  BY <1>1, <1>3, <1>6, HeaderRead
<1>8. \/ reader' = "more" /\ auxBuf'[1] = MoreFollow
      \/ reader' = "last" /\ auxBuf'[1] = LastOne
  BY <1>2, <1>3
<1>9. InStep(marks[k])'
  <2>1. Queued(marks[k].whole)'  BY <1>2, <1>6 DEF Queued
  <2>2. Off' = marks'[k].at + 2 /\ buf' = marks'[k].before  BY <1>2, <1>6, <1>7
  <2>3. \A i \in 1 .. 2 : auxBuf'[i] = sent'[marks'[k].at + i]  BY <1>2, <1>7
  <2> QED  BY <1>8, <2>1, <2>2, <2>3 DEF InStep
<1> QED  BY <1>2, <1>5, <1>9

LEMMA FragmentBodyStep ==
  ASSUME TypeOK, StreamInv, MarksInv, ReaderInv, FragmentBody
  PROVE  ReaderInv'
<1>1. PICK got \in Chunks, failed \in BOOLEAN :
        /\ Read(Signed(auxBuf[2]), got, failed)
        /\ buf' = Joined(buf, got)
        /\ reader' = IF failed THEN "ended" ELSE "next"
  BY DEF FragmentBody
<1>2. /\ reader = "more" /\ UNCHANGED <<marks, came, sent, forminq>>
      /\ DeliveredWhole' /\ (~short' => ~short)
  BY <1>1, StillDelivered DEF FragmentBody, Read, sending, ReaderInv
<1>3. SUFFICES ASSUME ~short'  PROVE \E k \in DOMAIN marks' : InStep(marks[k])'
  BY <1>2 DEF ReaderInv
<1>4. peer # "reset"
  <2>1. Signed(auxBuf[2]) \in Int
    <3>1. auxBuf \in [1 .. 2 -> Byte] /\ 2 \in 1 .. 2  BY DEF TypeOK
    <3>2. auxBuf[2] \in Byte  BY <3>1
    <3> QED  BY <3>2, SignedByte
  <2> QED  BY <1>1, <1>3, <2>1, ReadInStep
<1>5. PICK k \in DOMAIN marks : InStep(marks[k])  BY <1>2, <1>3, <1>4, ReaderAt
<1>6. /\ Off = marks[k].at + 2 /\ buf = marks[k].before /\ Queued(marks[k].whole)
      /\ auxBuf[2] = sent[marks[k].at + 2] /\ sent[marks[k].at + 1] = MoreFollow
  BY <1>2, <1>5 DEF InStep
<1>7. /\ ~failed /\ k + 1 \in DOMAIN marks /\ Between(sent, came, marks[k], marks[k + 1])
      /\ Off' = marks[k + 1].at /\ got = SubSeq(sent, marks[k].at + 3, marks[k + 1].at)
  BY <1>1, <1>3, <1>6, BodyRead
<1>8. marks[k + 1].before = marks[k].before \o got /\ marks[k + 1].whole = marks[k].whole
  BY <1>6, <1>7, Types DEF Between
<1>9. InStep(marks[k + 1])'
  <2>1. reader' = "next" /\ buf' = marks'[k + 1].before  BY <1>1, <1>2, <1>6, <1>7, <1>8 DEF Joined
  <2>2. Queued(marks[k + 1].whole)'  BY <1>2, <1>6, <1>8 DEF Queued
  <2>3. Off' = marks'[k + 1].at  BY <1>2, <1>7
  <2> QED  BY <2>1, <2>2, <2>3 DEF InStep
<1> QED  BY <1>2, <1>7, <1>9

\* One more message of those that came is queued.
LEMMA OneMore ==
  ASSUME TypeOK, NEW n \in Nat, n + 1 <= Len(came), Queued(n)
  PROVE  Append(forminq, came[n + 1]) = SubSeq(came, 1, n + 1)
<1>1. came \in Seq(Seq(Byte)) /\ Len(came) \in Nat  BY LenProperties DEF TypeOK
<1>2. 1 \in 1 .. Len(came) /\ n + 1 \in 1 .. Len(came)  BY <1>1
<1>3. SubSeq(came, 1, n + 1) = SubSeq(came, 1, n + 1 - 1) \o <<came[n + 1]>>
  BY <1>1, <1>2, SubSeqRecursiveSecond
<1>4. n + 1 - 1 = n  OBVIOUS
<1>5. forminq \in Seq(Seq(Byte)) /\ came[n + 1] \in Seq(Byte)  BY <1>1, <1>2, ElementOfSeq DEF TypeOK
<1>6. Append(forminq, came[n + 1]) = forminq \o <<came[n + 1]>>  BY <1>5, AppendIsConcat
<1> QED  BY <1>3, <1>4, <1>6 DEF Queued

LEMMA LastBodyStep ==
  ASSUME TypeOK, StreamInv, MarksInv, ReaderInv, LastBody
  PROVE  ReaderInv'
<1>1. PICK got \in Chunks, failed \in BOOLEAN :
        /\ Read(Signed(auxBuf[2]), got, failed)
        /\ IF Ended(failed, Joined(buf, got))
             THEN termina /\ UNCHANGED forminq
             ELSE reader' = "first" /\ forminq' = Append(forminq, Joined(buf, got))
  BY DEF LastBody
<1>2. reader = "last" /\ UNCHANGED <<marks, came, sent>> /\ (~short' => ~short)
  BY <1>1 DEF LastBody, Read, sending
<1>3. CASE Ended(failed, Joined(buf, got))
  <2>1. reader' = "ended" /\ UNCHANGED forminq  BY <1>1, <1>3 DEF termina
  <2> QED  BY <1>1, <2>1, StillDelivered DEF ReaderInv
<1>4. CASE ~Ended(failed, Joined(buf, got))
  <2>1. reader' = "first" /\ forminq' = Append(forminq, Joined(buf, got))  BY <1>1, <1>4
  <2>2. SUFFICES ASSUME ~short'  PROVE DeliveredWhole' /\ \E k \in DOMAIN marks' : InStep(marks[k])'
    BY DEF ReaderInv, DeliveredWhole
  <2>3. peer # "reset"
    <3>1. Signed(auxBuf[2]) \in Int
      <4>1. auxBuf \in [1 .. 2 -> Byte] /\ 2 \in 1 .. 2  BY DEF TypeOK
      <4>2. auxBuf[2] \in Byte  BY <4>1
      <4> QED  BY <4>2, SignedByte
    <3> QED  BY <1>1, <2>2, <3>1, ReadInStep
  <2>4. PICK k \in DOMAIN marks : InStep(marks[k])  BY <1>2, <2>2, <2>3, ReaderAt
  <2>5. /\ Off = marks[k].at + 2 /\ buf = marks[k].before /\ Queued(marks[k].whole)
        /\ auxBuf[2] = sent[marks[k].at + 2] /\ sent[marks[k].at + 1] = LastOne
    BY <1>2, <2>4 DEF InStep
  <2>6. /\ k + 1 \in DOMAIN marks /\ Between(sent, came, marks[k], marks[k + 1])
        /\ Off' = marks[k + 1].at /\ got = SubSeq(sent, marks[k].at + 3, marks[k + 1].at)
    BY <1>1, <2>2, <2>5, BodyRead
  <2>7. /\ marks[k + 1].before = <<>> /\ marks[k + 1].whole = marks[k].whole + 1
        /\ came[marks[k + 1].whole] = marks[k].before \o got
    BY <2>5, <2>6, Types DEF Between
  <2>8. marks[k].whole \in Nat /\ marks[k + 1].whole <= Len(came)
    BY <2>6, MarkTyped DEF MarksInv
  <2>9. forminq' = SubSeq(came, 1, marks[k + 1].whole)
    <3>1. Joined(buf, got) = came[marks[k].whole + 1]  BY <2>5, <2>7 DEF Joined
    <3>2. marks[k].whole + 1 <= Len(came)  BY <2>7, <2>8
    <3> QED  BY <2>1, <2>5, <2>7, <2>8, <3>1, <3>2, OneMore
  <2>10. Queued(marks[k + 1].whole)'  BY <1>2, <2>9 DEF Queued
  <2>11. DeliveredWhole'
    <3>1. marks[k + 1].whole \in 0 .. Len(came)
      <4>1. came \in Seq(Seq(Byte)) /\ Len(came) \in Nat  BY LenProperties DEF TypeOK
      <4> QED  BY <2>7, <2>8, <4>1
    <3>2. forminq' = SubSeq(came', 1, marks[k + 1].whole)  BY <1>2, <2>9
    <3> QED  BY <1>2, <3>1, <3>2 DEF DeliveredWhole, Queued
  <2>12. InStep(marks[k + 1])'
    <3>1. Off' = marks'[k + 1].at /\ marks'[k + 1].before = <<>>  BY <1>2, <2>6, <2>7
    <3> QED  BY <2>1, <2>10, <3>1 DEF InStep
  <2> QED  BY <1>2, <2>6, <2>11, <2>12
<1> QED  BY <1>3, <1>4
-----------------------------------------------------------------------------
(* What is read: the network. *)

\* More bytes and messages change nothing in a fragment already sent.
LEMMA BetweenGrows ==
  ASSUME NEW s \in Seq(Byte), NEW f \in Seq(Byte), NEW c, NEW d,
         NEW m \in Mark, NEW n \in Mark, n.at <= Len(s), Between(s, c, m, n), c[n.whole] = d[n.whole]
  PROVE  Between(s \o f, d, m, n)
<1>1. m.at \in Nat /\ n.at \in Nat /\ m.at + 3 <= n.at  BY DEF Mark, Between
<1>2. Len(s) \in Nat /\ Len(f) \in Nat  BY LenProperties
<1>3. \A i \in 1 .. Len(s) + Len(f) : (s \o f)[i] = IF i <= Len(s) THEN s[i] ELSE f[i - Len(s)]
  BY ConcatProperties
<1>4. (s \o f)[m.at + 1] = s[m.at + 1] /\ (s \o f)[m.at + 2] = s[m.at + 2]
  <2>1. \A i \in 1 .. Len(s) : (s \o f)[i] = s[i]
    <3>1. \A i \in 1 .. Len(s) : i \in 1 .. Len(s) + Len(f) /\ i <= Len(s)  BY <1>2
    <3> QED  BY <1>3, <3>1
  <2>2. m.at + 1 \in 1 .. Len(s) /\ m.at + 2 \in 1 .. Len(s)  BY <1>1, <1>2
  <2> QED  BY <2>1, <2>2
<1>5. SubSeq(s \o f, m.at + 3, n.at) = SubSeq(s, m.at + 3, n.at)
  <2>1. m.at + 3 \in 1 .. Len(s) /\ n.at \in 1 .. Len(s)  BY <1>1, <1>2
  <2> QED  BY <2>1, SubSeqOfConcat1
<1> QED  BY <1>1, <1>4, <1>5 DEF Between

\* A fragment at the end of what was sent lies between the mark before it and
\* the mark that counts it.
LEMMA NewBetween ==
  ASSUME NEW s \in Seq(Byte), NEW f \in Seq(Byte), NEW type \in Byte, NEW body \in Seq(Byte),
         NEW c, NEW m \in Mark, NEW n \in Mark,
         Len(f) = Len(body) + 2, f[1] = type, f[2] = Len(body),
         \A i \in 1 .. Len(body) : f[2 + i] = body[i],
         Len(body) \in Nat, Len(body) >= 1,
         m.at = Len(s), n.at = Len(s) + 2 + Len(body),
         \/ type = MoreFollow /\ n.before = m.before \o body /\ n.whole = m.whole
         \/ type = LastOne /\ n.before = <<>> /\ n.whole = m.whole + 1 /\ c[n.whole] = m.before \o body
         \/ type = Control /\ n.whole = m.whole
  PROVE  Between(s \o f, c, m, n)
<1> DEFINE a == Len(s) + 3
           e == Len(s) + 2 + Len(body)
           t == s \o f
           b == SubSeq(t, a, e)
<1>1. Len(s) \in Nat  BY LenProperties
<1>2. /\ t \in Seq(Byte) /\ Len(t) = Len(s) + Len(f)
      /\ \A i \in 1 .. Len(s) + Len(f) : t[i] = IF i <= Len(s) THEN s[i] ELSE f[i - Len(s)]
  <2>1. s \in Seq(Byte) /\ f \in Seq(Byte)  OBVIOUS
  <2> QED  BY ONLY <2>1, ConcatProperties
<1>3. \A i \in 1 .. Len(f) : t[Len(s) + i] = f[i]
  <2>1. \A i \in 1 .. Len(f) :
          Len(s) + i \in 1 .. Len(s) + Len(f) /\ ~(Len(s) + i <= Len(s)) /\ (Len(s) + i) - Len(s) = i
    BY <1>1
  <2> QED  BY <1>2, <2>1
<1>4. t[m.at + 1] = type /\ t[m.at + 2] = Len(body)  BY <1>3
<1>5. b = body
  <2>1. a \in Int /\ e \in Int /\ a <= e /\ e - a + 1 = Len(body) /\ e = Len(t)  BY <1>1, <1>2
  <2>2. ASSUME NEW i \in 1 .. Len(body)  PROVE t[a + i - 1] = body[i]
    <3>1. 2 + i \in 1 .. Len(f) /\ a + i - 1 = Len(s) + (2 + i)  BY <1>1
    <3>2. t[a + i - 1] = f[2 + i]  BY <1>3, <3>1
    <3> QED  BY <3>2
  <2>3. \A j \in a .. e : t[j] \in Byte
    <3>1. \A j \in a .. e : j \in 1 .. Len(t)  BY <1>1, <2>1
    <3> QED  BY <1>2, <3>1, ElementOfSeq
  <2> HIDE DEF a, e, t
  <2>4. /\ b \in Seq(Byte) /\ Len(b) = (IF a <= e THEN e - a + 1 ELSE 0)
        /\ \A i \in 1 .. e - a + 1 : b[i] = t[a + i - 1]
    BY <2>1, <2>3, SubSeqProperties
  <2> HIDE DEF b
  <2>5. Len(b) = Len(body) /\ \A i \in 1 .. Len(b) : b[i] = body[i]  BY <2>1, <2>2, <2>4
  <2> QED  BY <2>4, <2>5, SeqEqual
<1>6. a = m.at + 3 /\ e = n.at  BY <1>1
<1>7. m.at + 3 <= n.at /\ Len(body) = n.at - (m.at + 2)  BY <1>1
<1>8. SubSeq(t, m.at + 3, n.at) = body  BY <1>5, <1>6
<1> HIDE DEF a, e, t, b
<1>9. Between(t, c, m, n)  BY <1>4, <1>7, <1>8 DEF Between
<1> QED  BY <1>9 DEF t

\* Appending the same bytes to what was sent and to what is not yet read keeps
\* the one a suffix of the other, and leaves unread what was unread.
LEMMA SuffixGrows ==
  ASSUME NEW r \in Seq(Byte), NEW s \in Seq(Byte), NEW f \in Seq(Byte),
         Len(r) <= Len(s), \A i \in 1 .. Len(r) : r[i] = s[Len(s) - Len(r) + i]
  PROVE  /\ Len(r \o f) <= Len(s \o f)
         /\ Len(s \o f) - Len(r \o f) = Len(s) - Len(r)
         /\ \A i \in 1 .. Len(r \o f) : (r \o f)[i] = (s \o f)[Len(s) - Len(r) + i]
<1> DEFINE t == s \o f
           q == r \o f
           off == Len(s) - Len(r)
<1>1. Len(r) \in Nat /\ Len(s) \in Nat /\ Len(f) \in Nat  BY LenProperties
<1>2. /\ Len(t) = Len(s) + Len(f)
      /\ \A i \in 1 .. Len(s) + Len(f) : t[i] = IF i <= Len(s) THEN s[i] ELSE f[i - Len(s)]
  BY ConcatProperties
<1>3. /\ Len(q) = Len(r) + Len(f)
      /\ \A i \in 1 .. Len(r) + Len(f) : q[i] = IF i <= Len(r) THEN r[i] ELSE f[i - Len(r)]
  BY ConcatProperties
<1> HIDE DEF t, q
<1>4. ASSUME NEW i \in 1 .. Len(q)  PROVE q[i] = t[off + i]
  <2>1. i \in 1 .. Len(r) + Len(f) /\ off + i \in 1 .. Len(s) + Len(f)  BY <1>1, <1>3
  <2>2. CASE i <= Len(r)
    <3>1. i \in 1 .. Len(r) /\ off + i <= Len(s)  BY <1>1, <2>1, <2>2
    <3> QED  BY <1>2, <1>3, <2>1, <2>2, <3>1
  <2>3. CASE ~(i <= Len(r))
    <3>1. ~(off + i <= Len(s)) /\ (off + i) - Len(s) = i - Len(r)  BY <1>1, <2>1, <2>3
    <3> QED  BY <1>2, <1>3, <2>1, <2>3, <3>1
  <2> QED  BY <2>2, <2>3
<1>5. Len(q) <= Len(t) /\ Len(t) - Len(q) = off  BY <1>1, <1>2, <1>3
<1> QED  BY <1>4, <1>5 DEF t, q

\* Marks that part what was sent into fragments still do when a fragment and
\* its mark are added.
LEMMA MarksGrow ==
  ASSUME NEW s \in Seq(Byte), NEW f \in Seq(Byte), NEW c, NEW d, NEW l \in Nat,
         NEW ms \in Seq(Mark), NEW mark \in Mark, Len(ms) \in Nat \ {0},
         \A i \in 1 .. l : d[i] = c[i],
         \A k \in 1 .. Len(ms) : ms[k].at <= Len(s) /\ ms[k].whole <= l,
         \A k \in 1 .. Len(ms) - 1 : Between(s, c, ms[k], ms[k + 1]),
         Between(s \o f, d, ms[Len(ms)], mark)
  PROVE  \A k \in 1 .. Len(ms) : Between(s \o f, d, Append(ms, mark)[k], Append(ms, mark)[k + 1])
<1> DEFINE grown == Append(ms, mark)
<1>1. /\ \A k \in 1 .. Len(ms) : grown[k] = ms[k]
      /\ grown[Len(ms) + 1] = mark
  <2>1. ms \in Seq(Mark) /\ mark \in Mark  OBVIOUS
  <2> QED  BY ONLY <2>1, AppendProperties
<1> HIDE DEF grown
<1>2. ASSUME NEW k \in 1 .. Len(ms) - 1  PROVE Between(s \o f, d, ms[k], ms[k + 1])
  <2> DEFINE m == ms[k]
             n == ms[k + 1]
  <2>1. k \in 1 .. Len(ms) /\ k + 1 \in 1 .. Len(ms)  OBVIOUS
  <2>2. m \in Mark /\ n \in Mark
    <3>1. ms \in Seq(Mark)  OBVIOUS
    <3> QED  BY ONLY <2>1, <3>1, ElementOfSeq
  <2>3. n.at <= Len(s) /\ n.whole <= l /\ Between(s, c, m, n)  BY <2>1
  <2> HIDE DEF m, n
  <2>4. m.whole \in Nat /\ n.whole \in Nat  BY <2>2 DEF Mark
  <2>5. Between(s, d, m, n)
    <3>1. CASE n.whole \in 1 .. l
      <4>1. c[n.whole] = d[n.whole]  BY <3>1
      <4> QED  BY <2>3, <4>1 DEF Between
    <3>2. CASE n.whole = 0
      <4>1. m.whole + 1 # 0  BY <2>4
      <4> QED  BY <2>3, <3>2, <4>1 DEF Between
    <3> QED  BY <2>3, <2>4, <3>1, <3>2
  <2>6. Between(s \o f, d, m, n)  BY <2>2, <2>3, <2>5, BetweenGrows
  <2> QED  BY <2>6 DEF m, n
<1>3. ASSUME NEW k \in 1 .. Len(ms)
      PROVE  Between(s \o f, d, grown[k], grown[k + 1])
  <2>1. CASE k \in 1 .. Len(ms) - 1
    <3>1. k + 1 \in 1 .. Len(ms)  BY <2>1
    <3>2. grown[k] = ms[k] /\ grown[k + 1] = ms[k + 1]  BY <1>1, <3>1
    <3>3. Between(s \o f, d, ms[k], ms[k + 1])  BY <1>2, <2>1
    <3> QED  BY ONLY <3>2, <3>3
  <2>2. CASE k = Len(ms)
    <3>1. grown[k] = ms[Len(ms)] /\ grown[k + 1] = mark  BY <1>1, <2>2
    <3>2. Between(s \o f, d, ms[Len(ms)], mark)  OBVIOUS
    <3> QED  BY ONLY <3>1, <3>2
  <2> QED  BY <2>1, <2>2
<1> QED  BY <1>3 DEF grown

\* What a fragment that goes out does to the history, in the three ways the
\* network sends one.
Grows(type, body, before, whole) ==
  \/ type = MoreFollow /\ before = Here.before \o body /\ whole = Here.whole /\ came' = came
  \/ type = LastOne /\ before = <<>> /\ whole = Here.whole + 1 /\ came' = Append(came, Here.before \o body)
  \/ type = Control /\ whole = Here.whole /\ came' = came

LEMMA CameGrows ==
  ASSUME TypeOK, MarksInv, NEW type, NEW body \in Seq(Byte), NEW before, NEW whole,
         Grows(type, body, before, whole)
  PROVE  /\ Len(came) \in Nat /\ Len(came') \in Nat /\ Len(came) <= Len(came') /\ whole = Len(came')
         /\ \A i \in 1 .. Len(came) : came'[i] = came[i]
         /\ \A n \in 0 .. Len(came) : SubSeq(came', 1, n) = SubSeq(came, 1, n)
<1>1. came \in Seq(Seq(Byte)) /\ Len(came) \in Nat  BY LenProperties DEF TypeOK
<1>2. Here.whole = Len(came)  BY DEF MarksInv
<1>3. CASE came' = came /\ whole = Here.whole  BY <1>1, <1>2, <1>3
<1>4. CASE came' = Append(came, Here.before \o body) /\ whole = Here.whole + 1
  <2> DEFINE e == Here.before \o body
  <2>1. e \in Seq(Byte)
    <3>1. Here.before \in Seq(Byte)  BY HereTyped
    <3> QED  BY <3>1, ConcatProperties
  <2>2. came' = Append(came, e)  BY <1>4
  <2> HIDE DEF e
  <2>3. came' \in Seq(Seq(Byte)) /\ Len(came') = Len(came) + 1 /\ \A i \in 1 .. Len(came) : came'[i] = came[i]
    BY <1>1, <2>1, <2>2, AppendProperties
  <2>4. ASSUME NEW n \in 0 .. Len(came)  PROVE SubSeq(came', 1, n) = SubSeq(came, 1, n)
    <3>1. CASE n = 0
      <4>1. 1 \in Int /\ n \in Int /\ n < 1  BY <3>1
      <4> QED  BY <4>1, SubSeqEmpty
    <3>2. CASE n # 0
      <4>1. 1 \in 1 .. Len(came) /\ n \in 1 .. Len(came)  BY <1>1, <3>2
      <4>2. came' = came \o <<e>> /\ <<e>> \in Seq(Seq(Byte))  BY <1>1, <2>1, <2>2, AppendIsConcat
      <4> QED  BY <1>1, <4>1, <4>2, SubSeqOfConcat1
    <3> QED  BY <3>1, <3>2
  <2>5. whole = Len(came') /\ Len(came) <= Len(came') /\ Len(came') \in Nat  BY <1>1, <1>2, <1>4, <2>3
  <2> QED  BY <1>1, <2>3, <2>4, <2>5
<1> QED  BY <1>3, <1>4 DEF Grows

\* The reader holds its place in front of bytes, marks and messages that are
\* added behind it.
LEMMA ReaderGrows ==
  ASSUME TypeOK, DeliveredInv, NEW f \in Seq(Byte), sent' = sent \o f, Off' = Off, peer = "open",
         UNCHANGED <<reader, auxBuf, buf, forminq, short>>,
         \A k \in DOMAIN marks : k \in DOMAIN marks' /\ marks'[k] = marks[k] /\ marks[k] \in Mark,
         Len(came) \in Nat, Len(came') \in Nat, Len(came) <= Len(came'),
         \A n \in 0 .. Len(came) : SubSeq(came', 1, n) = SubSeq(came, 1, n)
  PROVE  ReaderInv'
<1>1. DeliveredWhole'
  <2>1. SUFFICES ASSUME ~short'  PROVE \E n \in 0 .. Len(came') : forminq' = SubSeq(came', 1, n)
    BY DEF DeliveredWhole, Queued
  <2>2. PICK n \in 0 .. Len(came) : forminq = SubSeq(came, 1, n)
    BY <2>1 DEF DeliveredInv, ReaderInv, DeliveredWhole, Queued
  <2>3. n \in 0 .. Len(came') /\ forminq' = SubSeq(came', 1, n)  BY <2>2
  <2> QED  BY <2>3
<1>2. SUFFICES ASSUME ~short', reader' \notin {"control", "ended"}
               PROVE \E k \in DOMAIN marks' : InStep(marks[k])'
  BY <1>1 DEF ReaderInv
<1>3. PICK k \in DOMAIN marks : InStep(marks[k])
  BY <1>2, ReaderAt DEF DeliveredInv
<1>4. k \in DOMAIN marks' /\ marks'[k] = marks[k] /\ marks[k] \in Mark  OBVIOUS
<1>5. Queued(marks[k].whole)'
  <2>1. marks[k].whole \in 0 .. Len(came)
    BY <1>4 DEF Mark, DeliveredInv, MarksInv
  <2>2. SubSeq(came', 1, marks[k].whole) = SubSeq(came, 1, marks[k].whole)  BY <2>1
  <2> QED  BY <1>3, <1>4, <2>2 DEF InStep, Queued
<1>6. Len(sent) \in Nat /\ Len(f) \in Nat /\ \A i \in 1 .. Len(sent) + Len(f) : i <= Len(sent) => sent'[i] = sent[i]
  <2>1. sent \in Seq(Byte) /\ f \in Seq(Byte) /\ sent' = sent \o f  BY DEF TypeOK
  <2> QED  BY ONLY <2>1, ConcatProperties, LenProperties
<1>7. ASSUME reader \in {"more", "last"}, NEW i \in 1 .. 2
      PROVE  sent'[marks[k].at + i] = sent[marks[k].at + i]
  <2>1. Off = marks[k].at + 2 /\ Off \in 0 .. Len(sent) /\ marks[k].at \in Nat
    BY <1>3, <1>4, <1>7, OffTyped DEF InStep, DeliveredInv, Mark
  <2>2. marks[k].at + i \in 1 .. Len(sent) + Len(f) /\ marks[k].at + i <= Len(sent)
    <3>1. i \in {1, 2}  BY <1>7
    <3> QED  BY ONLY <1>6, <2>1, <3>1
  <2> QED  BY <1>6, <2>2
<1>8. InStep(marks[k])'
  <2>1. /\ UNCHANGED <<reader, auxBuf, buf>> /\ Off' = Off /\ marks'[k] = marks[k]
        /\ Queued(marks[k].whole)'
    BY <1>4, <1>5
  <2>2. CASE reader \in {"more", "last"}
    <3>1. \A i \in 1 .. 2 : sent'[marks[k].at + i] = sent[marks[k].at + i]  BY <1>7, <2>2
    <3> QED  BY <1>3, <2>1, <2>2, <3>1 DEF InStep
  <2>3. CASE reader = "authenticate"  BY <1>3, <2>1, <2>3 DEF InStep
  <2>4. CASE reader = "first"  BY <1>3, <2>1, <2>4 DEF InStep
  <2>5. CASE reader = "next"  BY <1>3, <2>1, <2>5 DEF InStep
  <2> QED  BY <1>2, <2>1, <2>2, <2>3, <2>4, <2>5 DEF TypeOK
<1> QED  BY <1>4, <1>8

LEMMA PutsStep ==
  ASSUME TypeOK, DeliveredInv, NEW type \in Byte, NEW body \in Seq(Byte), Len(body) \in Byte \ {0},
         NEW before \in Seq(Byte), NEW whole \in Nat,
         Puts(type, body, before, whole), Grows(type, body, before, whole)
  PROVE  DeliveredInv'
<1> DEFINE f == Fragment(type, body)
           mark == [at |-> Len(sent) + 2 + Len(body), before |-> before, whole |-> whole]
<1>1. /\ f \in Seq(Byte) /\ Len(f) = Len(body) + 2 /\ f[1] = type /\ f[2] = Len(body)
      /\ \A i \in 1 .. Len(body) : f[2 + i] = body[i]
  BY FragmentForm
<1>2. /\ stream' = stream \o f /\ sent' = sent \o f /\ marks' = Append(marks, mark)
      /\ peer = "open" /\ UNCHANGED <<reader, auxBuf, buf, forminq, short>>
  BY DEF Puts, reading
<1>3. mark \in Mark /\ mark.at = Len(sent) + 2 + Len(body) /\ mark.before = before /\ mark.whole = whole
  BY OffTyped DEF Mark
<1> HIDE DEF f, mark
<1>4. Len(body) \in Nat /\ Len(body) >= 1
  BY SizeOfBody
<1>5. stream \in Seq(Byte) /\ sent \in Seq(Byte) /\ Len(sent) \in Nat
  BY OffTyped DEF TypeOK
<1>6. /\ Len(came) \in Nat /\ Len(came') \in Nat /\ Len(came) <= Len(came') /\ whole = Len(came')
      /\ \A i \in 1 .. Len(came) : came'[i] = came[i]
      /\ \A n \in 0 .. Len(came) : SubSeq(came', 1, n) = SubSeq(came, 1, n)
  BY CameGrows DEF DeliveredInv
<1>7. /\ marks \in Seq(Mark) /\ Len(marks) \in Nat \ {0} /\ DOMAIN marks = 1 .. Len(marks)
      /\ DOMAIN marks' = 1 .. Len(marks) + 1 /\ Len(marks') = Len(marks) + 1
      /\ \A k \in 1 .. Len(marks) : marks'[k] = marks[k] /\ marks[k] \in Mark
      /\ marks'[Len(marks) + 1] = mark
  <2>1. marks \in Seq(Mark) /\ Len(marks) \in 1 .. MaxIn + 1  BY DEF TypeOK, Mark
  <2>2. Len(marks) \in Nat \ {0} /\ DOMAIN marks = 1 .. Len(marks)
    BY <2>1, LenProperties, BoundAssumption
  <2>3. /\ marks' \in Seq(Mark) /\ Len(marks') = Len(marks) + 1
        /\ \A k \in 1 .. Len(marks) : marks'[k] = marks[k]
        /\ marks'[Len(marks) + 1] = mark
    BY <1>2, <1>3, <2>1, AppendProperties
  <2>4. DOMAIN marks' = 1 .. Len(marks) + 1  BY <2>3, LenProperties
  <2>5. \A k \in 1 .. Len(marks) : marks[k] \in Mark  BY <2>1, ElementOfSeq
  <2> QED  BY <2>1, <2>2, <2>3, <2>4, <2>5
<1>8. Off' = Off /\ StreamInv'
  <2>1. Len(stream) <= Len(sent) /\ \A i \in 1 .. Len(stream) : stream[i] = sent[Len(sent) - Len(stream) + i]
    BY <1>2 DEF DeliveredInv, StreamInv, Off
  <2>2. /\ Len(stream \o f) <= Len(sent \o f)
        /\ Len(sent \o f) - Len(stream \o f) = Len(sent) - Len(stream)
        /\ \A i \in 1 .. Len(stream \o f) : (stream \o f)[i] = (sent \o f)[Len(sent) - Len(stream) + i]
    BY ONLY <1>1, <1>5, <2>1, SuffixGrows
  <2> QED  BY <1>2, <2>2 DEF Off, StreamInv
<1>9. MarksInv'
  <2> DEFINE m == marks[Len(marks)]
  <2>1. /\ \A k \in 1 .. Len(marks) : marks[k].at <= Len(sent) /\ marks[k].whole <= Len(came)
        /\ \A k \in 1 .. Len(marks) - 1 : Between(sent, came, marks[k], marks[k + 1])
        /\ m.at = Len(sent) /\ m.whole = Len(came)
    BY <1>7 DEF DeliveredInv, MarksInv, Here
  <2>2. m \in Mark /\ m = Here  BY <1>7 DEF Here
  <2>3. \/ type = MoreFollow /\ mark.before = m.before \o body /\ mark.whole = m.whole
        \/ type = LastOne /\ mark.before = <<>> /\ mark.whole = m.whole + 1 /\ came'[mark.whole] = m.before \o body
        \/ type = Control /\ mark.whole = m.whole
    <3> HIDE DEF m
    <3>1. CASE type = LastOne /\ before = <<>> /\ whole = Here.whole + 1 /\ came' = Append(came, Here.before \o body)
      <4>1. came \in Seq(Seq(Byte)) /\ m.before \in Seq(Byte)  BY <2>2 DEF TypeOK, Mark
      <4>2. m.before \o body \in Seq(Byte)  BY <4>1, ConcatProperties
      <4>3. Append(came, m.before \o body)[Len(came) + 1] = m.before \o body  BY ONLY <4>1, <4>2, AppendProperties
      <4>4. whole = Len(came) + 1  BY <2>1, <2>2, <3>1
      <4> QED  BY <1>3, <2>2, <3>1, <4>3, <4>4
    <3> QED  BY <1>3, <2>2, <3>1 DEF Grows
  <2>4. Between(sent \o f, came', m, mark)
    <3> HIDE DEF m
    <3>1. type \in Byte /\ body \in Seq(Byte)  OBVIOUS
    <3> QED  BY ONLY <1>1, <1>3, <1>4, <1>5, <2>1, <2>2, <2>3, <3>1, NewBetween
  <2>5. \A k \in 1 .. Len(marks) : Between(sent', came', marks'[k], marks'[k + 1])
    <3>1. \A k \in 1 .. Len(marks) :
            Between(sent \o f, came', Append(marks, mark)[k], Append(marks, mark)[k + 1])
      <4>1. sent \in Seq(Byte) /\ f \in Seq(Byte) /\ Len(came) \in Nat /\ \A i \in 1 .. Len(came) : came'[i] = came[i]
        BY <1>1, <1>5, <1>6
      <4>2. marks \in Seq(Mark) /\ mark \in Mark /\ Len(marks) \in Nat \ {0}  BY <1>3, <1>7
      <4> QED  BY ONLY <2>1, <2>4, <4>1, <4>2, MarksGrow
    <3> QED  BY ONLY <1>2, <3>1
  <2>6. Len(sent') = mark.at /\ Len(sent) <= Len(sent') /\ Len(sent') \in Nat
    <3>1. Len(sent \o f) = Len(sent) + Len(f)  BY ONLY <1>1, <1>5, ConcatProperties
    <3> QED  BY ONLY <1>1, <1>2, <1>3, <1>4, <1>5, <3>1
  <2>7. ASSUME NEW k \in DOMAIN marks'  PROVE marks'[k].at <= Len(sent') /\ marks'[k].whole <= Len(came')
    <3>1. CASE k \in 1 .. Len(marks)
      <4>1. marks'[k] = marks[k] /\ marks[k].at \in Nat /\ marks[k].whole \in Nat  BY <1>7, <3>1 DEF Mark
      <4>2. marks[k].at <= Len(sent) /\ marks[k].whole <= Len(came)  BY <2>1, <3>1
      <4> QED  BY ONLY <1>5, <1>6, <2>6, <4>1, <4>2
    <3>2. CASE k = Len(marks) + 1
      <4>1. marks'[k] = mark  BY <1>7, <3>2
      <4> QED  BY ONLY <1>3, <1>6, <2>6, <4>1
    <3> QED  BY ONLY <1>7, <2>7, <3>1, <3>2
  <2>8. Here'.at = Len(sent') /\ Here'.whole = Len(came')
    <3>1. Here' = mark  BY <1>7 DEF Here
    <3> QED  BY ONLY <1>3, <1>6, <2>6, <3>1
  <2>9. Len(marks') - 1 = Len(marks)  BY <1>7
  <2> QED  BY <2>5, <2>7, <2>8, <2>9 DEF MarksInv
<1>10. ReaderInv'
  <2>1. \A k \in DOMAIN marks : k \in DOMAIN marks' /\ marks'[k] = marks[k] /\ marks[k] \in Mark  BY <1>7
  <2> QED  BY <1>1, <1>2, <1>6, <1>8, <2>1, ReaderGrows
<1> QED  BY <1>8, <1>9, <1>10 DEF DeliveredInv

LEMMA NetworkStep ==
  ASSUME TypeOK, DeliveredInv
  PROVE  /\ \A body \in Bodies : SendsMore(body) => DeliveredInv'
         /\ \A body \in Bodies : SendsLast(body) => DeliveredInv'
         /\ SendsControl => DeliveredInv'
         /\ \A how \in {"closed", "reset"} : Leaves(how) => DeliveredInv'
<1>1. \A body \in Bodies : body \in Seq(Byte) /\ Len(body) \in Byte \ {0}  BY MessageAssumption, SizeOfBody
<1>2. MoreFollow \in Byte /\ LastOne \in Byte /\ Control \in Byte
  BY DEF MoreFollow, LastOne, Control, Byte
<1>3. Here.before \in Seq(Byte) /\ Here.whole \in Nat  BY HereTyped
<1>4. ASSUME NEW body \in Bodies, SendsMore(body)  PROVE DeliveredInv'
  <2>1. Here.before \o body \in Seq(Byte)  BY <1>1, <1>3, ConcatProperties
  <2>2. Grows(MoreFollow, body, Here.before \o body, Here.whole)  BY <1>4 DEF SendsMore, Grows
  <2>3. Puts(MoreFollow, body, Here.before \o body, Here.whole)  BY <1>4 DEF SendsMore
  <2> QED  BY <1>1, <1>2, <1>3, <2>1, <2>2, <2>3, PutsStep
<1>5. ASSUME NEW body \in Bodies, SendsLast(body)  PROVE DeliveredInv'
  <2>1. <<>> \in Seq(Byte) /\ Here.whole + 1 \in Nat  BY <1>3
  <2>2. Grows(LastOne, body, <<>>, Here.whole + 1)  BY <1>5 DEF SendsLast, Grows
  <2>3. Puts(LastOne, body, <<>>, Here.whole + 1)  BY <1>5 DEF SendsLast
  <2> QED  BY <1>1, <1>2, <2>1, <2>2, <2>3, PutsStep
<1>6. ASSUME SendsControl  PROVE DeliveredInv'
  <2>1. <<1>> \in Seq(Byte) /\ Len(<<1>>) \in Byte \ {0}  BY DEF Byte
  <2>2. Grows(Control, <<1>>, Here.before, Here.whole)  BY <1>6 DEF SendsControl, Grows
  <2>3. Puts(Control, <<1>>, Here.before, Here.whole)  BY <1>6 DEF SendsControl
  <2> QED  BY <1>2, <1>3, <2>1, <2>2, <2>3, PutsStep
<1>7. ASSUME NEW how \in {"closed", "reset"}, Leaves(how)  PROVE DeliveredInv'
  <2>1. /\ peer = "open" /\ peer' = how /\ UNCHANGED <<sent, came, marks, reader, auxBuf, buf, forminq, short>>
        /\ (how # "reset" => UNCHANGED stream)
    BY <1>7 DEF Leaves, sending, reading
  <2>2. UNCHANGED <<MarksInv, DeliveredWhole>>
    BY <2>1 DEF MarksInv, Here, DeliveredWhole, Queued
  <2>3. CASE how = "reset"
    BY <2>1, <2>2, <2>3 DEF DeliveredInv, StreamInv, ReaderInv
  <2>4. CASE how # "reset"
    <3>1. Off' = Off  BY <2>1, <2>4 DEF Off
    <3>2. StreamInv'  BY <2>1, <2>4, <3>1 DEF DeliveredInv, StreamInv
    <3>3. \A k \in DOMAIN marks : InStep(marks[k]) => InStep(marks[k])'
      <4>1. SUFFICES ASSUME NEW k \in DOMAIN marks, InStep(marks[k])  PROVE InStep(marks[k])'  OBVIOUS
      <4>2. Queued(marks[k].whole)'  BY <2>1, <4>1 DEF InStep, Queued
      <4> QED  BY <2>1, <3>1, <4>1, <4>2 DEF InStep
    <3>4. ReaderInv'  BY <2>1, <2>2, <3>3 DEF DeliveredInv, ReaderInv
    <3> QED  BY <2>2, <3>2, <3>4 DEF DeliveredInv
  <2> QED  BY <2>3, <2>4
<1> QED  BY <1>4, <1>5, <1>6, <1>7

LEMMA FromNetStep ==
  ASSUME TypeOK, DeliveredInv, FromNet
  PROVE  DeliveredInv'
<1>1. StreamInv /\ MarksInv /\ ReaderInv  BY DEF DeliveredInv
<1>2. \E n : \E got \in Chunks, failed \in BOOLEAN : Read(n, got, failed)
  <2>1. CASE authenticate  BY <2>1 DEF authenticate
  <2>2. CASE FirstHeader  BY <2>2 DEF FirstHeader
  <2>3. CASE ControlBody  BY <2>3 DEF ControlBody
  <2>4. CASE FragmentBody  BY <2>4 DEF FragmentBody
  <2>5. CASE NextHeader  BY <2>5 DEF NextHeader
  <2>6. CASE LastBody  BY <2>6 DEF LastBody
  <2> QED  BY <2>1, <2>2, <2>3, <2>4, <2>5, <2>6 DEF FromNet
<1>3. StreamInv'
  <2>1. PICK n : \E got \in Chunks, failed \in BOOLEAN : Read(n, got, failed)  BY <1>2
  <2>2. PICK got \in Chunks, failed \in BOOLEAN : Read(n, got, failed)  BY <2>1
  <2> QED  BY <1>1, <2>2, ReadStream
<1>4. MarksInv'
  <2>1. UNCHANGED <<sent, came, marks>>  BY <1>2 DEF Read, sending
  <2> QED  BY <1>1, <2>1 DEF MarksInv, Here
<1>5. ASSUME ControlBody  PROVE ReaderInv'
  <2>1. PICK got2 \in Chunks, failed2 \in BOOLEAN : Read(Signed(auxBuf[2]), got2, failed2)
    BY <1>5 DEF ControlBody
  <2>2. UNCHANGED forminq /\ reader' = "ended"  BY <1>5 DEF ControlBody, termina
  <2>3. DeliveredWhole'  BY <1>1, <2>1, <2>2, StillDelivered DEF ReaderInv
  <2> QED  BY <2>2, <2>3 DEF ReaderInv
<1>6. ReaderInv'
  BY <1>1, <1>5, AuthenticateStep, FirstHeaderStep, FragmentBodyStep, NextHeaderStep, LastBodyStep DEF FromNet
<1> QED  BY <1>3, <1>4, <1>6 DEF DeliveredInv

LEMMA ToNetStep ==
  ASSUME TypeOK, DeliveredInv, ToNet
  PROVE  DeliveredInv'
<1>1. /\ UNCHANGED <<peer, stream, sent, came, marks, auxBuf, buf, forminq, short>>
      /\ (UNCHANGED reader \/ reader' = "ended")
  BY DEF ToNet, TakesMessage, WritesHeader, WritesBody, WriteFails, termina, sending, reading
<1>2. Off' = Off  BY <1>1 DEF Off
<1>3. StreamInv' /\ MarksInv' /\ DeliveredWhole'
  BY <1>1, <1>2 DEF DeliveredInv, StreamInv, MarksInv, Here, ReaderInv, DeliveredWhole, Queued
<1>4. CASE reader' = "ended"  BY <1>3, <1>4 DEF DeliveredInv, ReaderInv
<1>5. CASE UNCHANGED reader
  <2>1. ASSUME NEW k \in DOMAIN marks, InStep(marks[k])  PROVE InStep(marks[k])'
    <3>1. Queued(marks[k].whole)'  BY <1>1, <2>1 DEF InStep, Queued
    <3> QED  BY <1>1, <1>2, <1>5, <2>1, <3>1 DEF InStep
  <2>2. ReaderInv'  BY <1>1, <1>3, <1>5, <2>1 DEF DeliveredInv, ReaderInv
  <2> QED  BY <1>3, <2>2 DEF DeliveredInv
<1> QED  BY <1>1, <1>4, <1>5

LEMMA DeliveredInit ==
  ASSUME Init
  PROVE  DeliveredInv
<1>1. /\ stream \in Seq(Byte) /\ Len(stream) = 3 /\ sent = stream /\ came = <<>>
      /\ marks = << [at |-> 3, before |-> <<>>, whole |-> 0] >>
      /\ reader = "authenticate" /\ forminq = <<>>
  BY GreetingAssumption DEF Init
<1>2. Off = 0  BY <1>1 DEF Off
<1>3. StreamInv  BY <1>1, <1>2 DEF StreamInv
<1>4. /\ DOMAIN marks = 1 .. 1 /\ Len(marks) = 1
      /\ marks[1].at = 3 /\ marks[1].before = <<>> /\ marks[1].whole = 0
  BY <1>1
<1>5. MarksInv
  <2>1. marks[1].at <= Len(sent) /\ marks[1].whole <= Len(came)
    <3>1. Len(sent) = 3 /\ Len(came) = 0  BY <1>1
    <3>2. marks[1].at = 3 /\ marks[1].whole = 0  BY <1>4
    <3> QED  BY ONLY <3>1, <3>2
  <2>2. Here.at = Len(sent) /\ Here.whole = Len(came)  BY <1>1, <1>4 DEF Here
  <2>3. \A k \in DOMAIN marks : k = 1  BY <1>4
  <2>4. \A k \in 1 .. Len(marks) - 1 : FALSE  BY <1>4
  <2> QED  BY <2>1, <2>2, <2>3, <2>4 DEF MarksInv
<1>6. Queued(0)
  <2>1. 1 \in Int /\ 0 \in Int /\ 0 < 1  OBVIOUS
  <2>2. SubSeq(came, 1, 0) = <<>>  BY <2>1, SubSeqEmpty
  <2> QED  BY <1>1, <2>2 DEF Queued
<1>7. InStep(marks[1])  BY <1>1, <1>2, <1>4, <1>6 DEF InStep
<1>8. DeliveredWhole
  <2>1. 0 \in 0 .. Len(came)  BY <1>1
  <2> QED  BY <1>6, <2>1 DEF DeliveredWhole
<1>9. 1 \in DOMAIN marks  BY <1>4
<1>10. ReaderInv  BY <1>7, <1>8, <1>9 DEF ReaderInv
<1> QED  BY <1>3, <1>5, <1>10 DEF DeliveredInv

\* As long as no read fell short, FromNet is in step with the sender: what it
\* has taken ends inside or at the end of a fragment that was sent, where its
\* program counter says, and what it put together so far is that fragment's
\* message up to there (sockhelp.c:166-221).
THEOREM DeliveredInvariance == Spec => []DeliveredInv
<1>1. Init => DeliveredInv  BY DeliveredInit
<1>2. TypeOK /\ DeliveredInv /\ [Next]_vars => DeliveredInv'
  <2>1. SUFFICES ASSUME TypeOK, DeliveredInv, [Next]_vars PROVE DeliveredInv'  OBVIOUS
  <2>2. CASE UNCHANGED vars
    <3>1. UNCHANGED <<peer, stream, sent, came, marks, reader, auxBuf, buf, forminq, short>>
      BY <2>2 DEF vars, sending, reading
    <3>2. Off' = Off  BY <3>1 DEF Off
    <3>3. StreamInv' /\ MarksInv' /\ DeliveredWhole'
      BY <2>1, <3>1, <3>2 DEF DeliveredInv, StreamInv, MarksInv, Here, ReaderInv, DeliveredWhole, Queued
    <3>4. ASSUME NEW k \in DOMAIN marks, InStep(marks[k])  PROVE InStep(marks[k])'
      <4>1. Queued(marks[k].whole)'  BY <3>1, <3>4 DEF InStep, Queued
      <4> QED  BY <3>1, <3>2, <3>4, <4>1 DEF InStep
    <3>5. ReaderInv'  BY <2>1, <3>1, <3>3, <3>4 DEF DeliveredInv, ReaderInv
    <3> QED  BY <3>3, <3>5 DEF DeliveredInv
  <2>3. CASE Next  BY <2>1, <2>3, NetworkStep, FromNetStep, ToNetStep DEF Next
  <2> QED  BY <2>1, <2>2, <2>3
<1> QED  BY <1>1, <1>2, TypeCorrect, PTL DEF Spec

\* As long as every read returned what was asked for, what FromNet has queued is
\* what the network sent, message by message, for fragments of any bytes that
\* come in any number, with control messages among them (sockhelp.c:166-221).
THEOREM DeliveredHolds == Spec => []DeliveredWhole
<1>1. DeliveredInv => DeliveredWhole  BY DEF DeliveredInv, ReaderInv
<1> QED  BY <1>1, DeliveredInvariance, PTL
===============================================================================
