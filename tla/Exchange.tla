------------------------------- MODULE Exchange -------------------------------
(***************************************************************************)
(* What becomes of the contents of a message on its way through the switch *)
(* and back: decoded and completed by the inbound half of fmt (v_in.c,     *)
(* v_tocardco.c), put to a database by auth or paybal, encoded again by    *)
(* the outbound half (v_out.c, v_tonet.c).  Module Switch has the          *)
(* processes, their deaths and the order of the queues; here a message is  *)
(* in one place at a time, any message of a queue may be the next, and     *)
(* what counts is where each datum comes from.                             *)
(*                                                                         *)
(* A datum is known by its origin: the message it was read from, "zero"    *)
(* for what memset left, "made" for what fmt makes up, "decided" for what  *)
(* a database returned.                                                    *)
(*                                                                         *)
(* A message of the network:                                               *)
(*   mt, rej, atm       as in MsgTypes                                     *)
(*   fields             the bits that are on in its bitmaps                *)
(*   digits, bin        the card number without its leading zeros, and     *)
(*                      its first six digits                               *)
(*   pcode, month       field 3; field 14 has a month from 1 to 12         *)
(*   terminal           the first three characters of field 41             *)
(*   spf, letter        field 43 begins with "SPF=", and the next letter   *)
(*   avail              field 54 or 95 has an amount above zero            *)
(*   acquirer           digits of field 32                                 *)
(*   shows              those of fields 23, 25 and 26 whose number, 65536  *)
(*                      times, does not end in as many zeros as the field  *)
(*                      has that it gets into, 19, 22 or 25                *)
(*   numeric            field 37 is twelve digits, or twelve blanks where  *)
(*                      the C library pads strings with blanks             *)
(*   station            the station that sent it                           *)
(*   last               the last field whose bytes are all there           *)
(*                                                                         *)
(* A message may be shorter than its bitmaps say: nobody measures it, and  *)
(* the reader goes on into what earlier messages left in the buffer.  What *)
(* it finds there is as open as what a network sends, so the record has    *)
(* it; whose it is, the model keeps.  The header and the first bitmap are  *)
(* always there.                                                           *)
(***************************************************************************)
EXTENDS MsgTypes, Fields, Codes, Sequences

CONSTANTS
  Ids,          \* messages of the network
  Nothing,      \* what is not there, no record
  Traffic,      \* what the network may send
  AuthIni,      \* the BIN of each line of auth.ini
  PayIni,       \* the BIN of each line of paybal.ini
  Verdicts,     \* what the databases may return
  Days,         \* days of the year on which messages arrive (tm_yday)
  Bodies,       \* what the bytes after the first bitmap say when read as a second
  StartTraces   \* where the trace counter may stand when we begin to look

Origins == Ids \cup {"zero", "made", "decided"}

Messages ==
  [mt : Nat, rej : BOOLEAN, atm : BOOLEAN, fields : SUBSET Field, digits : Nat,
   bin : STRING, pcode : Pcodes, month : BOOLEAN, terminal : STRING, spf : BOOLEAN,
   letter : STRING, avail : BOOLEAN, acquirer : Nat, shows : SUBSET {23, 25, 26},
   numeric : BOOLEAN, station : STRING, last : Nat]

\* Purchases, payments, their reversals and whatever was rejected; what the
\* switch does with the other types is in Switch.
AuthRequests == {100, 101, 120, 200, 201, 220}
Reversals    == {400, 401, 420}

ASSUME TrafficAssumption ==
  /\ Traffic \subseteq Messages /\ Nothing \notin Traffic
  /\ \A f \in Traffic : /\ f.rej \/ f.mt \in AuthRequests \cup Reversals
                        /\ Walk(f.fields) # {}
ASSUME OriginAssumption  == Ids \cap {"zero", "made", "decided"} = {}
ASSUME IniAssumption     == AuthIni \in Seq(STRING) /\ PayIni \in Seq(STRING) /\ PayIni # <<>>

\* rc is the two digits of the response, num says whether there is an
\* authorisation number, aval what the response makes of the balance.
ASSUME VerdictAssumption ==
  Verdicts \subseteq [rc : 0 .. 99, num : BOOLEAN, aval : {"kept", "zero", "some"}]

\* What a database was asked: by whom and over which connection, as which type,
\* with data of which origins, and what it said.
Questions ==
  [by : {"auth", "paybal"}, con : Nat, mt : Nat, given : SUBSET Origins, said : Verdicts]

ASSUME NothingAssumption == Nothing \notin Questions

ASSUME BodyAssumption  == Bodies \subseteq SUBSET (Field \ Primary)
ASSUME DayAssumption   == Days \subseteq 0 .. 365
ASSUME TraceAssumption == StartTraces \subseteq 0 .. 999

-----------------------------------------------------------------------------
\* The members of struct internalmsg that fields are read into or written from.
Members ==
  {"pan", "pcode", "amount", "settlement_amount", "amount_equiv", "trandate", "trantime",
   "trace", "local_time", "local_date", "track2", "settlement_date", "iss_conv_date",
   "merchant_type", "acq_country", "pos_entry_code", "card_seqno", "pos_condition_code",
   "pos_pin_cap_code", "acquirer", "large_bin", "originator", "refnum", "authnum",
   "respcode", "termid", "termloc", "acceptorname", "addresponse", "acq_currency_code",
   "settlement_code", "iss_currency_code", "pin", "security", "aval_balance", "cash_back",
   "pos_geo_loc", "pos_cap_code", "length62", "netid", "life_cycle", "revcode", "serial_1",
   "serial_2", "mac", "netcode", "origmsg", "origtrace", "origdate", "origtime", "issuer",
   "acctnum", "msg500", "ledger_balance", "fee", "dth_upd"}

VARIABLES
  sent,               \* what the network sent under each id
  place,              \* where each message is
  msg,                \* the struct a message has become
  wire,               \* what left for the network
  asked,              \* what a database was asked, and what it returned
  externbuf,          \* whose bytes the inbound half's buffer may still hold
  cardcomsg,          \* the struct of the inbound half: static, used again
  v_NetworkIdBitmap,  \* the network id of the inbound half, likewise
  trace,              \* the counter trace numbers are made from
  run,                \* how often fmt was started again
  turn,               \* trace numbers made in this run
  made                \* the trace number made for each message

vars == <<sent, place, msg, wire, asked, externbuf, cardcomsg, v_NetworkIdBitmap, trace, run,
          turn, made>>
statics == <<externbuf, cardcomsg, v_NetworkIdBitmap, trace, run, turn, made>>

Places == {"none", "FORMINQ", "AUTHQ", "PAYBAL", "FORMOUTQ", "DRIVERQ", "raw", "dropped", "lost"}

Zeros == [x \in Members |-> "zero"]

Init ==
  /\ sent = [id \in Ids |-> Nothing]
  /\ place = [id \in Ids |-> "none"]
  /\ msg = [id \in Ids |-> Nothing]
  /\ wire = [id \in Ids |-> Nothing]
  /\ asked = [id \in Ids |-> Nothing]
  /\ externbuf = {"zero"}
  /\ cardcomsg = Zeros
  /\ v_NetworkIdBitmap = "zero"
  /\ trace \in StartTraces
  /\ run = 0 /\ turn = 0
  /\ made = [id \in Ids |-> Nothing]

\* tcpclient puts the message, whole, into the queue of fmt.
Arrives(id, f) ==
  /\ place[id] = "none"
  /\ sent' = [sent EXCEPT ![id] = f]
  /\ place' = [place EXCEPT ![id] = "FORMINQ"]
  /\ UNCHANGED <<msg, wire, asked, statics>>

-----------------------------------------------------------------------------
(* The inbound half. *)

\* Fields at which the reader gives up the message.
Bad(f) ==
  {g \in Walk(f.fields) : \/ g = 3 /\ ~extern_make_cardcopcode(f.pcode)
                          \/ g = 14 /\ ~f.month}

Decoded(f) == {g \in Walk(f.fields) : \A b \in Bad(f) : g <= b}

\* Mutant of Cleared: the struct is not cleared before a message is decoded.
Cleared_not(before) == before

Cleared(before) == Zeros

\* The fields whose bytes came, and whether all did.
Came(f)  == {g \in Walk(f.fields) : g <= f.last}
Whole(f) == Came(f) = Walk(f.fields)

\* The members that fields fill.
Filled(f, fields) == UNION {In(g, 0, f.fields, {}).into : g \in fields}

\* The members read past the end of the message: no length is tested, and
\* leFila does not clear the buffer.  What is there is of messages taken
\* before, or of none.
Overrun(f)   == Filled(f, Decoded(f) \ Came(f))
Leftovers(f) == [Overrun(f) -> externbuf]

externToCardCo(id, f, before, stale) ==
  LET overrun == Overrun(f)
      filled  == Filled(f, Decoded(f))
  IN  [x \in Members |-> CASE x \in overrun           -> stale[x]
                           [] x \in filled \ overrun -> id
                           [] x \notin filled         -> Cleared(before)[x]]

\* Field 63 is copied out of the message at once, and stays.
NetworkId(f, read) == IF 63 \in Decoded(f) THEN read["netid"] ELSE v_NetworkIdBitmap

Type(f) == IF f.rej THEN RejectType(InType(f)) ELSE InType(f)

\* extern_cardcoauthreq: "No trace number we should create our own", of a
\* message without field 10.
MakesTrace(f) == ~f.rej /\ Type(f) \in AuthRequests /\ ~isBitSet(f.fields, 10)
MakesTime(f)  == ~f.rej /\ Type(f) \in AuthRequests /\ ~isBitSet(f.fields, 11)

extern_cardcoauthreq(f, from) ==
  [x \in Members |-> IF \/ x = "trace" /\ MakesTrace(f)
                        \/ x \in {"local_date", "local_time"} /\ MakesTime(f)
                     THEN "made" ELSE from[x]]

TraceMod == 1000
TraceNumber(day) == day + 1 + trace * 1000

\* Mutants of NextTrace: the counter is not moved on; it is not brought back.
NextTrace_same(t) == t
NextTrace_unbounded(t) == t + 1

NextTrace(t) == (t + 1) % TraceMod

\* extern_cardcorevreq and extern_cardcoreject.
Replaces(f) == 95 \in Decoded(f)

InCode(f) ==
  CASE f.rej /\ Type(f) # 410                           -> RejectMessage
    [] ~f.rej /\ Type(f) \in Reversals /\ Replaces(f)   -> PartialDispense
    [] ~f.rej /\ Type(f) \in {400, 401} /\ ~Replaces(f) -> UnableToProcess
    [] OTHER                                            -> Approved

\* Mutant of extern_save_information: the addresses are kept as they came.
extern_save_information_kept(f) == [source |-> f.station, destination |-> "ours"]

\* An answer goes from the station that was addressed to the one that asked.
extern_save_information(f) == [source |-> "ours", destination |-> f.station]

\* The struct that goes on: read is the message as the reader found it, filler1
\* the type and the bitmap as received.
Struct(f, from) ==
  [mt       |-> Type(f),
   read     |-> f,
   from     |-> from,
   rc       |-> InCode(f),
   partial  |-> ~f.rej /\ Type(f) \in Reversals /\ Replaces(f),
   avail    |-> f.avail /\ {54, 95} \cap Decoded(f) # {},
   filler1  |-> [mt |-> f.mt, bitmap |-> f.fields \cap Primary],
   bitmap   |-> f.fields \cap Primary,
   destination |-> extern_save_information(f).destination]

\* What some members of a struct say.
Has(m, x)   == m.from[x] # "zero"
Bin(m)      == IF Has(m, "pan") THEN m.read.bin ELSE "none"
Terminal(m) == IF Has(m, "termid") THEN m.read.terminal ELSE "none"
CodeOf(m)   == IF Has(m, "pcode") THEN m.read.pcode ELSE Pcode(0, 0, 0)
Letter(m)   == IF Has(m, "acceptorname") THEN m.read.letter ELSE "none"
NamedSpf(m) == Has(m, "acceptorname") /\ m.read.spf

isPayBalance(m) == NamedSpf(m) \/ m.avail

Thrown(f) == Bad(f) # {} \/ (f.rej /\ InType(f) \notin RejectTypes)

\* The buffer, the struct and the network id keep what was read.
Reads(id, struct, netid) ==
  /\ externbuf' = externbuf \cup {id}
  /\ cardcomsg' = struct
  /\ v_NetworkIdBitmap' = netid

Discards(id) ==
  LET f == sent[id] IN
  /\ place[id] = "FORMINQ"
  /\ Thrown(f)
  /\ \E stale \in Leftovers(f) :
       LET read == externToCardCo(id, f, cardcomsg, stale) IN
       Reads(id, read, NetworkId(f, read))
  /\ place' = [place EXCEPT ![id] = "dropped"]
  /\ UNCHANGED <<sent, msg, wire, asked, trace, run, turn, made>>

extern_inbound(id, day) ==
  LET f == sent[id] IN
  /\ place[id] = "FORMINQ"
  /\ ~Thrown(f)
  /\ \E stale \in Leftovers(f) :
       LET read   == externToCardCo(id, f, cardcomsg, stale)
           netid  == NetworkId(f, read)
           struct == Struct(f, extern_cardcoauthreq(f, [read EXCEPT !["netid"] = netid]))
       IN  /\ Reads(id, struct.from, netid)
           /\ msg' = [msg EXCEPT ![id] = struct]
           /\ place' = [place EXCEPT ![id] = IF isPayBalance(struct) THEN "PAYBAL" ELSE "AUTHQ"]
  /\ IF MakesTrace(f)
       THEN /\ made' = [made EXCEPT ![id] = [run |-> run, turn |-> turn,
                                             number |-> TraceNumber(day)]]
            /\ trace' = NextTrace(trace)
            /\ turn' = turn + 1
       ELSE UNCHANGED <<made, trace, turn>>
  /\ UNCHANGED <<sent, wire, asked, run>>

-----------------------------------------------------------------------------
(* The authorisers. *)

\* The row of a BIN in an ini file, counted from zero; the first one counts.
getRoute(ini, bin) ==
  LET rows == {i \in DOMAIN ini : ini[i] = bin} IN
  IF rows = {} THEN -1 ELSE (CHOOSE i \in rows : \A j \in rows : i <= j) - 1

\* Every line of auth.ini is a connection; paybal loses its last line, for
\* connecting and for routing.
AuthCons   == Len(AuthIni)
PayBalCons == Len(PayIni) - 1

\* Mutant of authRoute: a reversal goes by its terminal, as in paybal.
authRoute_byterminal(m) ==
  CASE m.mt \in AuthRequests -> getRoute(AuthIni, Bin(m))
    [] Terminal(m) = "003"   -> 0
    [] OTHER                 -> 1

\* authorize: other types than requests and reversals (rejected ones) go to
\* connection 0.
authRoute(m) ==
  LET row == getRoute(AuthIni, Bin(m)) IN
  CASE m.mt \in AuthRequests                                      -> row
    [] m.mt \in Reversals /\ row # -1                             -> row
    [] m.mt \in Reversals /\ row = -1 /\ Terminal(m) = "003"      -> 0
    [] m.mt \in Reversals /\ row = -1 /\ Terminal(m) \in {"013", "023"} -> 1
    [] m.mt \in Reversals /\ row = -1                             -> -1
    [] OTHER                                                      -> 0

\* doIt: a reversal goes by its terminal, to a line or beyond the last.
paybalRoute(m) ==
  CASE m.mt \in AuthRequests -> getRoute(SubSeq(PayIni, 1, PayBalCons), Bin(m))
    [] m.mt \in Reversals /\ Terminal(m) = "003" -> 2
    [] m.mt \in Reversals /\ Terminal(m) = "013" -> 1
    [] m.mt \in Reversals /\ Terminal(m) = "023" -> 3
    [] OTHER                                     -> 0

\* The members a request to the database is filled from.
prepareAuthorization ==
  {"pcode", "refnum", "termloc", "termid", "merchant_type", "pan", "track2", "amount",
   "pin", "acceptorname"}

prepareRequest == prepareAuthorization \ {"pin"}

\* prepareResponse of auth: an approval without a number is none.
authCode(v) == IF v.rc = Approved /\ ~v.num THEN SwitchDown ELSE v.rc

authMembers(v) == {"authnum", "respcode"} \cup (IF v.aval = "kept" THEN {} ELSE {"aval_balance"})

authResponse(m, v) ==
  [m EXCEPT !.mt = m.mt + 10, !.rc = authCode(v),
            !.from = [x \in Members |-> IF x \in authMembers(v) THEN "decided" ELSE m.from[x]],
            !.avail = IF v.aval = "kept" THEN m.avail ELSE v.aval = "some"]

paybalMembers ==
  {"authnum", "respcode", "aval_balance", "ledger_balance", "settlement_amount",
   "settlement_date", "fee", "dth_upd"}

paybalResponse(m, v) ==
  [m EXCEPT !.mt = m.mt + 10, !.rc = v.rc,
            !.from = [x \in Members |-> IF x \in paybalMembers THEN "decided" ELSE m.from[x]],
            !.avail = v.aval = "some"]

\* The database was not asked, or the call failed.
Unanswered(m) ==
  [m EXCEPT !.mt = m.mt + 10, !.rc = SystemError, !.from = [x \in Members |-> IF x = "respcode" THEN "made" ELSE m.from[x]]]

Question(m, by, con, members, v) ==
  [by |-> by, con |-> con, mt |-> m.mt, given |-> {m.from[x] : x \in members}, said |-> v]

Answers(id, answer) ==
  /\ msg' = [msg EXCEPT ![id] = answer]
  /\ place' = [place EXCEPT ![id] = "FORMOUTQ"]
  /\ UNCHANGED <<sent, wire, statics>>

Auth(id, v) ==
  /\ place[id] = "AUTHQ"
  /\ authRoute(msg[id]) \in 0 .. (AuthCons - 1)
  /\ asked' = [asked EXCEPT ![id] =
                 Question(msg[id], "auth", authRoute(msg[id]), prepareAuthorization, v)]
  /\ Answers(id, authResponse(msg[id], v))

PayBal(id, v) ==
  /\ place[id] = "PAYBAL"
  /\ paybalRoute(msg[id]) \in 0 .. (PayBalCons - 1)
  /\ asked' = [asked EXCEPT ![id] =
                 Question(msg[id], "paybal", paybalRoute(msg[id]), prepareRequest, v)]
  /\ Answers(id, paybalResponse(msg[id], v))

\* The call fails: always on a connection nobody made, at any time on another.
Fails(id) ==
  /\ place[id] \in {"AUTHQ", "PAYBAL"}
  /\ Answers(id, Unanswered(msg[id]))
  /\ UNCHANGED asked

-----------------------------------------------------------------------------
(* The outbound half. *)

\* "se a mensagem foi apenas roteada, usa o bitmap recebido": the type is the
\* one that was received.
OnlyRouted(m) == m.filler1.mt = OutType(m.mt)

\* A balance inquiry's reversal goes to the driver as the struct it is; a type
\* without a bitmap is read through a null pointer; what is made of an advice's
\* response is thrown away.
Fate(m) ==
  LET t == OutType(m.mt) IN
  IF m.rc = RejectMessage THEN "dropped"
  ELSE IF IsReversal(t) /\ cardcoGetProcessCode(CodeOf(m)) = 30 THEN "raw"
  ELSE IF ~OnlyRouted(m) /\ t \notin Mapped THEN "lost"
  ELSE IF t = 130 THEN "dropped"
  ELSE "DRIVERQ"

\* What the bitmap's adjustments read of the struct.  The answer's code for
\* partial dispense cannot come from a database.
Traits(m) ==
  [got |-> m.bitmap, pin |-> Has(m, "pin"), termid |-> Has(m, "termid"),
   termloc |-> Has(m, "termloc"), expiry |-> Has(m, "track2"),
   cash |-> cardcoIsPurchWithCash(CodeOf(m)), atm |-> Has(m, "merchant_type") /\ m.read.atm,
   partial |-> m.partial, length62 |-> Has(m, "length62")]

\* The bitmap of the table or the one received, with the private data of an
\* approved payment or balance, cut to the eight bytes build_header copies.
build_header(m) ==
  LET t     == OutType(m.mt)
      found == IF OnlyRouted(m) THEN m.filler1.bitmap ELSE find_bitmap(t)
      private == m.rc = Approved /\ isPayBalance(m)
  IN  (IF private THEN setBitOn(found, 48) ELSE found) \cap Primary

\* The response code as it leaves: reversals are answered zero, or 21; what is
\* not an answer keeps the authoriser's code.
OutCode(m) ==
  LET code == extern_externrespcode(m.rc) IN
  CASE OutType(m.mt) = 110              -> code
    [] OutType(m.mt) = 410 /\ code = 21 -> 21
    [] OutType(m.mt) = 410 /\ code # 21 -> 0
    [] OTHER                            -> m.rc

cardco_to_extern(m) ==
  LET t == OutType(m.mt)
      b == build_header(m)
  IN  CASE t \in {100, 101, 120} -> extern_externauthreq(b, Traits(m))
        [] t = 110               -> extern_externauthresp(b, Traits(m), OutCode(m))
        [] t \in Reversals       -> extern_externrevreq(b, Traits(m))
        [] t = 410               -> extern_externrevresp(b, Traits(m), OutCode(m))
        [] OTHER                 -> b

\* The members as they are written: a message that is no answer has no network
\* id, a request asks for priority routing, a reversal is of a 100.
Leaving(m) ==
  LET t == OutType(m.mt) IN
  [x \in Members |->
     CASE x = "netid" /\ t \notin {110, 410}         -> "zero"
       [] x = "serial_1" /\ t \in {100, 101, 120}    -> "zero"
       [] x = "origmsg" /\ t \in Reversals           -> "made"
       [] OTHER                                      -> m.from[x]]

\* The fields among those an answer repeats that do not leave with the digits of
\* the member they are named for: FMT_BTOS lets the next member into fields 19,
\* 22 and 25, and field 37 is cut where its digits end, and filled up to twelve.
Altered(m) ==
  {g \in {19} : Has(m, "card_seqno") /\ 23 \in m.read.shows}
    \cup {g \in {22} : Has(m, "pos_condition_code") /\ 25 \in m.read.shows}
    \cup {g \in {25} : Has(m, "pos_pin_cap_code") /\ 26 \in m.read.shows}
    \cup {g \in {37} : Has(m, "refnum") /\ ~m.read.numeric}

\* The fields written.  The first bitmap alone is copied, and the body follows
\* it: where bit 1 is on, the body's own bytes are taken for the second one.
Written(b, body) == (b \cap Primary) \cup (IF isBitSet(b, 1) THEN body ELSE {})

\* What leaves: an answer goes back by the header that was saved.
Message(m, body) ==
  [mt |-> OutType(m.mt), bits |-> Written(cardco_to_extern(m), body), rc |-> OutCode(m),
   pcode |-> extern_make_externpcode(CodeOf(m)), letter |-> Letter(m),
   from |-> Leaving(m), altered |-> Altered(m),
   destination |-> IF IsResponse(OutType(m.mt)) THEN m.destination ELSE "zero"]

extern_outbound(id, body) ==
  /\ place[id] = "FORMOUTQ"
  /\ Fate(msg[id]) # "lost"
  /\ place' = [place EXCEPT ![id] = Fate(msg[id])]
  /\ wire' = IF Fate(msg[id]) = "DRIVERQ" THEN [wire EXCEPT ![id] = Message(msg[id], body)] ELSE wire
  /\ UNCHANGED <<sent, msg, asked, statics>>

\* fmt dies of the message, and launch starts it again: the statics are new.
Dies(id) ==
  /\ place[id] = "FORMOUTQ"
  /\ Fate(msg[id]) = "lost"
  /\ place' = [place EXCEPT ![id] = "lost"]
  /\ externbuf' = {"zero"}
  /\ cardcomsg' = Zeros
  /\ v_NetworkIdBitmap' = "zero"
  /\ trace' = 0
  /\ run' = run + 1 /\ turn' = 0
  /\ UNCHANGED <<sent, msg, wire, asked, made>>

Next ==
  \E id \in Ids :
    \/ \E f \in Traffic : Arrives(id, f)
    \/ Discards(id)
    \/ \E day \in Days : extern_inbound(id, day)
    \/ \E v \in Verdicts : Auth(id, v)
    \/ \E v \in Verdicts : PayBal(id, v)
    \/ Fails(id)
    \/ \E body \in Bodies : extern_outbound(id, body)
    \/ Dies(id)

Spec == Init /\ [][Next]_vars
===============================================================================
