-------------------------- MODULE ExchangeProperties --------------------------
(***************************************************************************)
(* What the contents of messages keep to on their way through the switch.  *)
(***************************************************************************)
EXTENDS Exchange

Rcs == 0 .. 102 \cup {RejectMessage}

Structs ==
  [mt : Nat, read : Traffic, from : [Members -> Origins], rc : Rcs, partial : BOOLEAN, avail : BOOLEAN,
   filler1 : [mt : Nat, bitmap : SUBSET Field], bitmap : SUBSET Field, destination : STRING]

Letters  == {f.letter : f \in Traffic} \cup {"none"}
Stations == {f.station : f \in Traffic} \cup {"zero"}

Wires ==
  [mt : Nat, bits : SUBSET Field, rc : Rcs, pcode : Pcodes, letter : Letters,
   from : [Members -> Origins], altered : SUBSET Field, destination : Stations]

\* Every variable has its type.
TypeOK ==
  /\ sent \in [Ids -> Traffic \cup {Nothing}]
  /\ place \in [Ids -> Places]
  /\ \A id \in Ids : place[id] = "none" <=> sent[id] = Nothing
  /\ msg \in [Ids -> Structs \cup {Nothing}]
  /\ wire \in [Ids -> Wires \cup {Nothing}]
  /\ asked \in [Ids -> Questions \cup {Nothing}]
  /\ made \in [Ids -> [run : Nat, turn : Nat, number : Nat] \cup {Nothing}]
  /\ externbuf \subseteq Origins
  /\ cardcomsg \in [Members -> Origins]
  /\ v_NetworkIdBitmap \in Origins
  /\ trace \in 0 .. (TraceMod - 1)
  /\ run \in Nat /\ turn \in Nat

Left(id)     == place[id] = "DRIVERQ"
Answered(id) == Left(id) /\ wire[id].mt \in {110, 410}

-----------------------------------------------------------------------------
(* Nothing of one message in another.                                      *)

\* The members a message on the line was written from.
Carried(w) == UNION {Out(g, 0, {}, w.letter).from : g \in w.bits}

\* What leaves for the network, or is put to a database, of a message that came
\* whole has no datum of another message in it, whatever was read before it,
\* short messages and discarded ones included: though both structs, the network
\* id and the buffer are static, and the network id of an earlier message is
\* saved with every message without field 63 (v_in.c:89, v_header.c:154).  Of a
\* message shorter than its bitmaps nothing is claimed: what it lacks is what
\* others left in the buffer (v_in.c:41).
NothingForeign ==
  \A id \in Ids : place[id] # "none" /\ Whole(sent[id]) =>
    /\ Left(id) => {wire[id].from[x] : x \in Carried(wire[id])} \cap Ids \subseteq {id}
    /\ asked[id] # Nothing => asked[id].given \cap Ids \subseteq {id}

-----------------------------------------------------------------------------
(* Answers.                                                                *)

\* Fields an answer repeats from its request, and those among its neighbours in
\* the struct that show in a repeated field.
Repeated == {2, 3, 4, 7, 19, 22, 25, 32, 37, 41, 49}
Kept     == Repeated \cup {23, 26}

\* The members a field is read into (of field 14 that depends on others).
Read(g) == In(g, 0, {}, {}).into

\* The repeated fields of a request that its answer garbles: 19 after a card
\* sequence number, 22 after a condition code, 25 after a PIN capability
\* (v_misc.c:197), and a reference that is not twelve digits (v_tonet.c:331).
Garbles(f) ==
  {g \in {19} : 23 \in Walk(f.fields) \cap f.shows}
    \cup {g \in {22} : 25 \in Walk(f.fields) \cap f.shows}
    \cup {g \in {25} : 26 \in Walk(f.fields) \cap f.shows}
    \cup {g \in {37} : 37 \in Walk(f.fields) /\ ~f.numeric}

\* Who asks for a purchase or a reversal gets it back: the answer goes to the
\* station that asked, with card, amount, time, trace number and reference, and,
\* when the asker's message came whole, every repeated field holds what the
\* asker's did, or nothing if the asker had none: its very digits but for the
\* fields that Garbles names, and for those never (v_out.c:478, "I was sent the
\* 100 and now I am replying"; v_header.c:93, "re-use some of the old values").
Echoed ==
  \A id \in Ids : Answered(id) =>
    /\ wire[id].destination = sent[id].station
    /\ {2, 3, 4, 7, 11, 37, 39} \subseteq wire[id].bits
    /\ Whole(sent[id]) =>
         /\ \A g \in Repeated \cap wire[id].bits : \A x \in Read(g) :
              wire[id].from[x] = IF g \in Walk(sent[id].fields) THEN id ELSE "zero"
         /\ 3 \in Walk(sent[id].fields) => wire[id].pcode = sent[id].pcode
         /\ wire[id].altered = Garbles(sent[id])

\* The length of the string a field is written from.
LengthOf(id, g) ==
  CASE g = 2 /\ wire[id].from["pan"] # "zero"       -> sent[id].digits
    [] g = 32 /\ wire[id].from["acquirer"] # "zero" -> sent[id].acquirer
    [] OTHER                                        -> 0

\* Whoever reads an answer by the rules the switch reads messages by comes out
\* at its end, field after field, just when the request had no field 40, which is
\* answered without its bytes, and the answer has no private data but of the two
\* kinds whose length the writer knows (v_tonet.c:365, v_tonet.c:424).
AnswersReadable ==
  \A id \in Ids : Answered(id) =>
    LET w == wire[id] IN
    (\A g \in w.bits : Readable(g, LengthOf(id, g), {}, w.letter)) <=>
      40 \notin sent[id].fields /\ (48 \in w.bits => w.letter \in {"C", "D"})

\* What an answer tells of the result.  A 0110 is an approval to whoever reads
\* response codes as the switch does just when a database approved: with a
\* number, if auth asked; no refusal, no failed call and no unknown code is taken
\* for one on the way (v_out.c:650, v_in.c:648, auth.c:388).  A 0410 tells next
\* to nothing: 21 just when a database said 9, 10 or 98, and zero for the rest,
\* refusals, failed calls and routes to no connection included (v_out.c:571-579).
ResultTold ==
  \A id \in Ids : Answered(id) =>
    /\ wire[id].mt = 110 =>
         (extern_cardcorespcode(wire[id].rc) = Approved <=>
            /\ asked[id] # Nothing
            /\ asked[id].said.rc = Approved
            /\ asked[id].by = "auth" => asked[id].said.num)
    /\ wire[id].mt = 410 =>
         wire[id].rc = IF asked[id] # Nothing /\ asked[id].said.rc \in {9, 10, 98} THEN 21 ELSE 0

-----------------------------------------------------------------------------
(* Across messages.                                                        *)

\* A purchase and the reversal of one card go to the same database: if auth was
\* asked both and knows the card's BIN, by the same connection, whatever the
\* terminal of the reversal, if both cards came with their messages
\* (auth.c:429-450).
ReversalFollows ==
  \A i, j \in Ids :
    /\ asked[i] # Nothing /\ asked[i].by = "auth" /\ asked[i].mt \in AuthRequests
    /\ asked[j] # Nothing /\ asked[j].by = "auth" /\ asked[j].mt \in Reversals
    /\ {2} \subseteq Came(sent[i]) \cap Came(sent[j])
    /\ sent[i].bin = sent[j].bin
    => asked[i].con = asked[j].con

\* The trace numbers made up in one run of fmt are all different, for a
\* thousand of them in a row (v_in.c:505, v_in.c:506).
TracesDistinct ==
  \A i, j \in Ids :
    /\ i # j
    /\ made[i] # Nothing /\ made[j] # Nothing
    /\ made[i].run = made[j].run
    /\ made[i].turn - made[j].turn \in (1 - TraceMod) .. (TraceMod - 1)
    => made[i].number # made[j].number

-----------------------------------------------------------------------------
(* The inductive invariant.                                                *)

Waiting(id) == place[id] \in {"AUTHQ", "PAYBAL"}
Decided(id) == place[id] \in {"FORMOUTQ", "DRIVERQ", "raw", "lost"}

\* Where the members of a message's struct may come from.
OwnOrigins(id) == {id, "zero", "made", "decided"}

Source(id, g) == IF g \in Walk(sent[id].fields) THEN id ELSE "zero"

\* The struct of a message that came whole holds its own data, but for the
\* network id, and the repeated fields are as they were read; of any message, the
\* card is its own if it came.
StructInv(id) ==
  Waiting(id) \/ Decided(id) =>
    /\ msg[id] \in Structs
    /\ ~Thrown(sent[id])
    /\ Whole(sent[id]) =>
         /\ \A x \in Members \ {"netid"} : msg[id].from[x] \in OwnOrigins(id)
         /\ \A g \in Kept : \A x \in Read(g) : msg[id].from[x] = Source(id, g)
    /\ 2 \in Came(sent[id]) => msg[id].from["pan"] = id
    /\ msg[id].read = sent[id]
    /\ msg[id].destination = sent[id].station
    /\ msg[id].bitmap = sent[id].fields \cap Primary
    /\ msg[id].filler1.mt = sent[id].mt

\* The result in a struct is the database's, or there was none.
ResultInv(id) ==
  /\ Waiting(id) => msg[id].mt = Type(sent[id]) /\ asked[id] = Nothing
  /\ Decided(id) =>
       /\ msg[id].mt = Type(sent[id]) + 10
       /\ msg[id].rc = CASE asked[id] = Nothing   -> SystemError
                         [] asked[id] # Nothing /\ asked[id].by = "auth"   -> authCode(asked[id].said)
                         [] asked[id] # Nothing /\ asked[id].by = "paybal" -> asked[id].said.rc
  /\ place[id] \in {"none", "FORMINQ"} => asked[id] = Nothing

\* A database was asked with the message's own data, if it came whole, and auth's
\* by its card's row.
AskedInv(id) ==
  asked[id] # Nothing =>
    /\ Whole(sent[id]) => asked[id].given \subseteq OwnOrigins(id)
    /\ LET row == getRoute(AuthIni, sent[id].bin) IN
       asked[id].by = "auth" /\ 2 \in Came(sent[id]) =>
         /\ asked[id].mt \in AuthRequests => asked[id].con = row
         /\ asked[id].mt \in Reversals /\ row # -1 => asked[id].con = row

\* The fields an answer may have.
AnswerFields == {2, 3, 4, 7, 11, 19, 22, 25, 32, 37, 38, 39, 40, 41, 48, 49, 61}

\* An answer on the line goes to the asker, repeats what was asked and has the
\* code of the result.
AnswerInv(id) ==
  /\ wire[id].destination = sent[id].station
  /\ {2, 3, 4, 7, 11, 37, 39} \subseteq wire[id].bits
  /\ wire[id].bits \subseteq AnswerFields
  /\ 40 \in wire[id].bits <=> 40 \in sent[id].fields
  /\ Whole(sent[id]) =>
       /\ \A g \in Repeated : \A x \in Read(g) : wire[id].from[x] = Source(id, g)
       /\ 3 \in Walk(sent[id].fields) => wire[id].pcode = sent[id].pcode
       /\ wire[id].altered = Garbles(sent[id])
  /\ wire[id].rc = OutCode(msg[id])

WireInv(id) ==
  place[id] = "DRIVERQ" =>
    /\ wire[id] \in Wires
    /\ wire[id].mt = OutType(msg[id].mt)
    /\ Whole(sent[id]) => \A x \in Members \ {"netid"} : wire[id].from[x] \in OwnOrigins(id)
    /\ wire[id].mt \notin {110, 410} => wire[id].from["netid"] = "zero"
    /\ wire[id].mt \in {110, 410} => AnswerInv(id)

MsgInv(id) == StructInv(id) /\ ResultInv(id) /\ AskedInv(id) /\ WireInv(id)

\* What the counter said when a trace number was made.
CountOf(m) == m.number \div 1000

\* The counter goes around once in a thousand turns.
TraceInv ==
  \A i \in Ids : made[i] # Nothing =>
    /\ CountOf(made[i]) \in 0 .. (TraceMod - 1)
    /\ made[i].run <= run
    /\ made[i].run = run =>
         /\ made[i].turn < turn
         /\ (CountOf(made[i]) + (turn - made[i].turn)) % TraceMod = trace
    /\ \A j \in Ids : made[j] # Nothing /\ made[j].run = made[i].run /\ i # j =>
         /\ made[i].turn # made[j].turn
         /\ made[i].turn < made[j].turn =>
              (CountOf(made[i]) + (made[j].turn - made[i].turn)) % TraceMod = CountOf(made[j])

EInv ==
  /\ TypeOK
  /\ \A id \in Ids : MsgInv(id)
  /\ TraceInv

-----------------------------------------------------------------------------
(* What the comments say.                                                  *)

\* v_in.c:499, "No trace number we should create our own": a trace number that
\* the request brought is the answer's.
TraceEchoed ==
  \A id \in Ids : Answered(id) /\ 11 \in Walk(sent[id].fields) =>
    wire[id].from["trace"] = id
===============================================================================
