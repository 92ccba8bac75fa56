---------------------------- MODULE ExchangeProofs ----------------------------
(***************************************************************************)
(* The contents of messages keep what ExchangeProperties states, for any   *)
(* traffic, any number of messages and any tables of BINs: EInv is         *)
(* inductive, and gives the rest.                                          *)
(***************************************************************************)
EXTENDS ExchangeProperties, FieldProofs

-----------------------------------------------------------------------------
(* Fields and members. *)

\* A field is written from members of the struct, and of the members only the
\* network id is field 63's (v_tonet.c:111).
LEMMA WrittenMembers ==
  ASSUME NEW g \in Field, NEW n, NEW letter
  PROVE  /\ Out(g, n, {}, letter).from \subseteq Members
         /\ g # 63 => "netid" \notin Out(g, n, {}, letter).from
<1>1. /\ CardOut(g, n).from \subseteq Members \ {"netid"}
      /\ TermsOut(g).from \subseteq Members \ {"netid"}
  BY DEF CardOut, TermsOut, From, Members
<1>2. PartiesOut(g, n).from \subseteq Members \ {"netid"}
  BY DEF PartiesOut, From, Members
<1>3. AmountsOut(g, n, letter).from \subseteq Members \ {"netid"}
  BY DEF AmountsOut, From, Members
<1>4. /\ PrivateOut(g, {}).from \subseteq Members
      /\ g # 63 => "netid" \notin PrivateOut(g, {}).from
  BY DEF PrivateOut, From, Members
<1>5. SettlementOut(g).from \subseteq Members \ {"netid"}
  BY DEF SettlementOut, From, Members
<1>6. FileOut(g, n).from \subseteq Members \ {"netid"}
  BY DEF FileOut, From, Members
<1> QED BY <1>1, <1>2, <1>3, <1>4, <1>5, <1>6 DEF Out, From, Members

\* A repeated field, or a neighbour that shows in one, is read into members that
\* no other field is read into (v_tocardco.c:112).
LEMMA KeptSource ==
  ASSUME NEW g \in Kept, NEW x \in Read(g), NEW h \in Field, NEW b
  PROVE  x \in In(h, 0, b, {}).into <=> h = g
<1>1. \/ g = 2 /\ x = "pan"
      \/ g = 3 /\ x = "pcode"
      \/ g = 4 /\ x = "amount"
      \/ g = 7 /\ x \in {"trandate", "trantime"}
      \/ g = 19 /\ x = "acq_country"
      \/ g = 22 /\ x = "pos_entry_code"
      \/ g = 23 /\ x = "card_seqno"
      \/ g = 25 /\ x = "pos_condition_code"
      \/ g = 26 /\ x = "pos_pin_cap_code"
      \/ g = 32 /\ x \in {"acquirer", "large_bin"}
      \/ g = 37 /\ x = "refnum"
      \/ g = 41 /\ x = "termid"
      \/ g = 49 /\ x = "acq_currency_code"
  BY DEF Kept, Repeated, Read, In, CardIn, TermsIn, PartiesIn, AmountsIn, Into
<1>2. x \in CardIn(h, 0).into <=> h \in 1 .. 13 /\ h = g
  BY <1>1 DEF CardIn, Into, Field
<1>3. x \in TermsIn(h, b).into <=> h \in 14 .. 28 /\ h = g
  BY <1>1 DEF TermsIn, Into, Field
<1>4. x \in PartiesIn(h, 0).into <=> h \in 32 .. 45 /\ h = g
  BY <1>1 DEF PartiesIn, Into, Field
<1>5. x \in AmountsIn(h, 0).into <=> h \in 48 .. 61 /\ h = g
  BY <1>1 DEF AmountsIn, Into, Field
<1>6. x \notin PrivateIn(h, {}).into
  BY <1>1 DEF PrivateIn, Into, Field
<1>7. x \notin SettlementIn(h).into
  BY <1>1 DEF SettlementIn, Into, Field
<1>8. x \notin FileIn(h, 0).into
  BY <1>1 DEF FileIn, Into, Field
<1> QED BY <1>1, <1>2, <1>3, <1>4, <1>5, <1>6, <1>7, <1>8 DEF In, Into

\* The members that these fields are read into: no database returns one, fmt
\* makes up none, and they are not the network id.
KeptMembers ==
  {"pan", "pcode", "amount", "trandate", "trantime", "acq_country", "pos_entry_code",
   "card_seqno", "pos_condition_code", "pos_pin_cap_code", "acquirer", "large_bin", "refnum",
   "termid", "acq_currency_code"}

LEMMA KeptRead ==
  ASSUME NEW g \in Kept
  PROVE  Read(g) \subseteq KeptMembers
BY DEF Kept, Repeated, KeptMembers, Read, In, CardIn, TermsIn, PartiesIn, AmountsIn, Into

-----------------------------------------------------------------------------
(* What the inbound half makes of a message. *)

\* A message that is not thrown away was decoded whole.
LEMMA DecodedWhole ==
  ASSUME NEW f, ~Thrown(f)
  PROVE  Bad(f) = {} /\ Decoded(f) = Walk(f.fields)
BY DEF Thrown, Decoded

\* What is read has origins, whatever the buffer held.
LEMMA ReadTyped ==
  ASSUME TypeOK, NEW id \in Ids, NEW f, NEW before, NEW stale \in Leftovers(f)
  PROVE  LET read == externToCardCo(id, f, before, stale) IN
         /\ read \in [Members -> Origins]
         /\ NetworkId(f, read) \in Origins
<1> DEFINE read == externToCardCo(id, f, before, stale)
<1>1. \A x \in Overrun(f) : stale[x] \in Origins
  BY DEF Leftovers, TypeOK
<1>2. /\ DOMAIN read = Members
      /\ read = [x \in DOMAIN read |-> read[x]]
      /\ \A x \in Members : read[x] = CASE x \in Overrun(f)                              -> stale[x]
                                        [] x \in Filled(f, Decoded(f)) \ Overrun(f) -> id
                                        [] x \notin Filled(f, Decoded(f))            -> "zero"
  BY DEF externToCardCo, Cleared, Zeros
<1>3. Overrun(f) \subseteq Filled(f, Decoded(f))
  BY DEF Overrun, Filled
<1>4. \A x \in Members : read[x] \in Origins
  BY <1>1, <1>2, <1>3 DEF Origins
<1>5. read \in [Members -> Origins]
  BY <1>2, <1>4
<1>6. NetworkId(f, read) \in Origins
  <2> HIDE DEF read
  <2>1. "netid" \in Members /\ v_NetworkIdBitmap \in Origins
    BY DEF Members, TypeOK
  <2> QED BY <1>5, <2>1 DEF NetworkId
<1> QED BY <1>5, <1>6

Completed(id, f, before, stale, net) ==
  extern_cardcoauthreq(f, [externToCardCo(id, f, before, stale) EXCEPT !["netid"] = net])

\* The struct of a whole message has that message's data, but for the network
\* id; the struct of any has its card, if that came.
LEMMA CompletedOwn ==
  ASSUME TypeOK, NEW id \in Ids, NEW f \in Traffic, ~Thrown(f), NEW before,
         NEW stale \in Leftovers(f), NEW net \in Origins
  PROVE  LET c == Completed(id, f, before, stale, net) IN
         /\ c \in [Members -> Origins]
         /\ Whole(f) =>
              /\ \A x \in Members \ {"netid"} : c[x] \in OwnOrigins(id)
              /\ \A g \in Kept : \A x \in Read(g) :
                   c[x] = IF g \in Walk(f.fields) THEN id ELSE "zero"
         /\ 2 \in Came(f) => c["pan"] = id
<1> DEFINE c == Completed(id, f, before, stale, net)
           read == externToCardCo(id, f, before, stale)
           filled == Filled(f, Decoded(f))
<1>1. /\ "netid" \in Members
      /\ read \in [Members -> Origins]
      /\ \A x \in Members : /\ x \in filled \ Overrun(f) => read[x] = id
                            /\ x \notin filled => read[x] = "zero"
  <2>1. Overrun(f) \subseteq filled
    BY DEF Overrun, Filled
  <2>2. \A x \in Members : read[x] = CASE x \in Overrun(f)          -> stale[x]
                                        [] x \in filled \ Overrun(f) -> id
                                        [] x \notin filled           -> "zero"
    BY DEF externToCardCo, Cleared, Zeros
  <2> QED BY <2>1, <2>2, ReadTyped DEF Members
<1>2. /\ DOMAIN c = Members
      /\ c = [x \in DOMAIN c |-> c[x]]
      /\ \A x \in Members :
           c[x] = IF \/ x = "trace" /\ MakesTrace(f)
                     \/ x \in {"local_date", "local_time"} /\ MakesTime(f)
                  THEN "made" ELSE IF x = "netid" THEN net ELSE read[x]
  BY <1>1 DEF Completed, extern_cardcoauthreq
<1>3. c \in [Members -> Origins]
  <2> HIDE DEF c, read
  <2> QED BY <1>1, <1>2 DEF Origins
<1>4. Decoded(f) = Walk(f.fields) /\ Walk(f.fields) \subseteq Field
  BY DecodedWhole, TrafficAssumption DEF Walk, Messages
<1>5. ASSUME NEW g \in Kept, NEW x \in Read(g)
      PROVE  /\ x \in Members /\ c[x] = read[x]
             /\ x \in filled <=> g \in Walk(f.fields)
             /\ x \in Overrun(f) <=> g \in Walk(f.fields) \ Came(f)
  <2>1. x \in KeptMembers
    BY KeptRead
  <2>2. x \in Members /\ x \notin {"trace", "local_date", "local_time", "netid"}
    BY <2>1 DEF KeptMembers, Members
  <2>3. \A h \in Walk(f.fields) : x \in In(h, 0, f.fields, {}).into <=> h = g
    BY <1>4, KeptSource
  <2> QED BY <1>2, <1>4, <2>2, <2>3 DEF Filled, Overrun
<1>6. ASSUME Whole(f)
      PROVE  /\ \A x \in Members \ {"netid"} : c[x] \in OwnOrigins(id)
             /\ \A g \in Kept : \A x \in Read(g) :
                  c[x] = IF g \in Walk(f.fields) THEN id ELSE "zero"
  <2>1. Overrun(f) = {}
    BY <1>4, <1>6 DEF Whole, Overrun, Filled
  <2>2. \A x \in Members : read[x] \in {id, "zero"}
    BY <1>1, <2>1
  <2> QED BY <1>1, <1>2, <1>5, <2>1, <2>2 DEF OwnOrigins
<1>7. ASSUME 2 \in Came(f)
      PROVE  c["pan"] = id
  <2>1. 2 \in Kept /\ "pan" \in Read(2)
    BY DEF Kept, Repeated, Read, In, CardIn, Into
  <2>2. 2 \in Walk(f.fields)
    BY <1>7 DEF Came
  <2> QED BY <1>1, <1>5, <1>7, <2>1, <2>2
<1> QED BY <1>3, <1>6, <1>7

-----------------------------------------------------------------------------
(* Steps. *)

\* A message keeps its part of the invariant while nothing of it changes.
LEMMA Others ==
  ASSUME EInv, NEW id \in Ids,
         \A j \in Ids \ {id} :
           /\ sent'[j] = sent[j] /\ place'[j] = place[j] /\ msg'[j] = msg[j]
           /\ wire'[j] = wire[j] /\ asked'[j] = asked[j]
  PROVE  \A j \in Ids \ {id} : MsgInv(j)'
<1> TAKE j \in Ids \ {id}
<1>1. MsgInv(j)
  BY DEF EInv
<1>2. StructInv(j)'
  BY <1>1 DEF MsgInv, StructInv, Waiting, Decided, Source
<1>3. ResultInv(j)'
  BY <1>1 DEF MsgInv, ResultInv, Waiting, Decided
<1>4. AskedInv(j)'
  BY <1>1 DEF MsgInv, AskedInv
<1>5. WireInv(j)'
  BY <1>1 DEF MsgInv, WireInv, AnswerInv, Source
<1> QED BY <1>2, <1>3, <1>4, <1>5 DEF MsgInv

LEMMA ArrivesKeeps ==
  ASSUME EInv, NEW id \in Ids, NEW f \in Traffic, Arrives(id, f)
  PROVE  EInv'
<1>1. TypeOK'
  BY TrafficAssumption DEF EInv, TypeOK, Arrives, statics, Places
<1>2. MsgInv(id)'
  <2>1. place'[id] = "FORMINQ" /\ asked'[id] = asked[id] /\ asked[id] = Nothing
    BY DEF EInv, TypeOK, MsgInv, ResultInv, Arrives
  <2> QED BY <2>1 DEF MsgInv, StructInv, ResultInv, AskedInv, WireInv, Waiting, Decided
<1>3. \A j \in Ids \ {id} : MsgInv(j)'
  BY Others DEF EInv, TypeOK, Arrives
<1>4. TraceInv'
  BY DEF EInv, TraceInv, Arrives, statics
<1> QED BY <1>1, <1>2, <1>3, <1>4 DEF EInv

LEMMA DiscardsKeeps ==
  ASSUME EInv, NEW id \in Ids, Discards(id)
  PROVE  EInv'
<1>1. sent[id] \in Traffic /\ place[id] = "FORMINQ" /\ asked[id] = Nothing
  BY DEF EInv, TypeOK, MsgInv, ResultInv, Discards
<1>2. /\ externbuf' \subseteq Origins
      /\ cardcomsg' \in [Members -> Origins] /\ v_NetworkIdBitmap' \in Origins
  BY ReadTyped DEF EInv, TypeOK, Discards, Reads, Origins
<1>3. TypeOK'
  BY <1>1, <1>2 DEF EInv, TypeOK, Discards, Places
<1>4. MsgInv(id)'
  <2>1. place'[id] = "dropped" /\ asked'[id] = Nothing
    BY <1>1 DEF EInv, TypeOK, Discards
  <2> QED BY <2>1 DEF MsgInv, StructInv, ResultInv, AskedInv, WireInv, Waiting, Decided
<1>5. \A j \in Ids \ {id} : MsgInv(j)'
  BY Others DEF EInv, TypeOK, Discards
<1>6. TraceInv'
  BY DEF EInv, TraceInv, Discards
<1> QED BY <1>3, <1>4, <1>5, <1>6 DEF EInv

\* What goes on is a request, a reversal or the answer a rejected message is
\* turned into.
LEMMA TypesPassed ==
  ASSUME NEW f \in Traffic, ~Thrown(f)
  PROVE  /\ Type(f) \in AuthRequests \cup Reversals \cup {110, 410}
         /\ Type(f) \notin {110, 410} /\ Type(f) # 400 => Type(f) = f.mt
         /\ Type(f) = 400 => f.mt \in {400, 110}
<1>1. f \in Messages /\ (f.rej \/ f.mt \in AuthRequests \cup Reversals)
  BY TrafficAssumption
<1>2. CASE f.rej
  BY <1>1, <1>2 DEF Thrown, Type, InType, RejectType, RejectTypes, Messages, AuthRequests, Reversals
<1>3. CASE ~f.rej
  BY <1>1, <1>3 DEF Type, InType, AuthRequests, Reversals, Messages
<1> QED BY <1>2, <1>3

LEMMA StructTyped ==
  ASSUME NEW f \in Traffic, ~Thrown(f), NEW from \in [Members -> Origins]
  PROVE  /\ Struct(f, from) \in Structs
         /\ Struct(f, from).from = from
         /\ Struct(f, from).read = f
         /\ Struct(f, from).mt = Type(f)
         /\ Struct(f, from).destination = f.station
         /\ Struct(f, from).bitmap = f.fields \cap Primary
         /\ Struct(f, from).filler1.mt = f.mt
<1>1. f \in Messages
  BY TrafficAssumption
<1>2. Type(f) \in Nat
  BY TypesPassed DEF AuthRequests, Reversals
<1>3. InCode(f) \in Rcs
  BY DEF InCode, Rcs, RejectMessage, PartialDispense, UnableToProcess, Approved
<1> QED BY <1>1, <1>2, <1>3 DEF Struct, Structs, Messages, extern_save_information

\* The counter goes around, and no number of this run is made twice.
LEMMA CounterMoves ==
  ASSUME TypeOK, TraceInv, NEW id \in Ids, NEW day \in Days,
         made' = [made EXCEPT ![id] = [run |-> run, turn |-> turn,
                                       number |-> TraceNumber(day)]],
         trace' = NextTrace(trace), turn' = turn + 1, run' = run
  PROVE  TraceInv'
<1> DEFINE new == made'[id]
<1>1. /\ trace \in 0 .. 999 /\ turn \in Nat /\ run \in Nat /\ day \in 0 .. 365
      /\ trace' = (trace + 1) % 1000
      /\ TraceMod = 1000
  BY DayAssumption DEF TypeOK, NextTrace, TraceMod
<1>2. new.run = run /\ new.turn = turn /\ new.number = day + 1 + trace * 1000
  BY DEF TypeOK, TraceNumber
<1>3. CountOf(new) = trace
  BY <1>1, <1>2 DEF CountOf
<1>4. \A j \in Ids \ {id} : made'[j] = made[j]
  BY DEF TypeOK
<1>5. made \in [Ids -> [run : Nat, turn : Nat, number : Nat] \cup {Nothing}]
  BY DEF TypeOK
<1>6. ASSUME NEW i \in Ids \ {id}, made'[i] # Nothing
      PROVE  /\ made[i] # Nothing /\ made'[i] = made[i]
             /\ made[i] \in [run : Nat, turn : Nat, number : Nat]
             /\ CountOf(made[i]) \in 0 .. 999
             /\ made[i].run <= run
             /\ made[i].run = run => /\ made[i].turn < turn
                                     /\ (CountOf(made[i]) + (turn - made[i].turn)) % 1000 = trace
  <2>1. made[i] # Nothing /\ made'[i] = made[i]
    BY <1>4, <1>6
  <2>2. made[i] \in [run : Nat, turn : Nat, number : Nat]
    BY <1>5, <2>1
  <2>3. /\ CountOf(made[i]) \in 0 .. (TraceMod - 1)
        /\ made[i].run <= run
        /\ made[i].run = run => /\ made[i].turn < turn
                                /\ (CountOf(made[i]) + (turn - made[i].turn)) % TraceMod = trace
    BY <2>1, Zenon DEF TraceInv
  <2> QED BY <1>1, <2>1, <2>2, <2>3
<1>7. ASSUME NEW i \in Ids, made'[i] # Nothing
      PROVE  /\ CountOf(made'[i]) \in 0 .. (TraceMod - 1)
             /\ made'[i].run <= run'
             /\ made'[i].run = run' =>
                  /\ made'[i].turn < turn'
                  /\ (CountOf(made'[i]) + (turn' - made'[i].turn)) % TraceMod = trace'
  <2>1. CASE i = id
    BY <1>1, <1>2, <1>3, <2>1
  <2>2. CASE i # id
    <3> DEFINE c == CountOf(made[i])
               d == turn - made[i].turn
    <3>1. made'[i] = made[i] /\ made[i].run <= run /\ c \in 0 .. 999 /\ made[i].turn \in Nat
      BY <1>6, <1>7, <2>2
    <3>2. made[i].run = run => d \in Nat /\ (c + d) % 1000 = trace
      <4>1. made[i].run = run => made[i].turn < turn /\ (c + d) % 1000 = trace
        BY <1>6, <1>7, <2>2
      <4> HIDE DEF c
      <4>2. made[i].turn < turn => d \in Nat
        BY <1>1, <3>1
      <4> QED BY <4>1, <4>2
    <3>3. turn' - made[i].turn = d + 1
      BY <1>1, <3>1
    <3>4. made[i].run = run => (c + (d + 1)) % 1000 = (trace + 1) % 1000
      <4> HIDE DEF c, d
      <4> QED BY <3>1, <3>2
    <3>5. made[i].run = run => made[i].turn < turn'
      <4>1. made[i].run = run => made[i].turn < turn
        BY <1>6, <1>7, <2>2
      <4> HIDE DEF c, d
      <4> QED BY <1>1, <3>1, <4>1
    <3>6. made[i].run = run => (c + (turn' - made[i].turn)) % 1000 = trace'
      <4> HIDE DEF c, d
      <4> QED BY <1>1, <3>3, <3>4
    <3>7. CountOf(made'[i]) = c
      BY <3>1
    <3> HIDE DEF c, d
    <3>8. c \in 0 .. (TraceMod - 1)
      BY <3>1 DEF TraceMod
    <3>9. made'[i].run = run' => (c + (turn' - made'[i].turn)) % TraceMod = trace'
      BY <3>1, <3>6 DEF TraceMod
    <3>10. /\ made'[i].run <= run'
           /\ made'[i].run = run' => made'[i].turn < turn'
      BY <3>1, <3>5
    <3> QED BY <3>7, <3>8, <3>9, <3>10, Zenon
  <2> QED BY <2>1, <2>2
<1>8. ASSUME NEW i \in Ids, NEW j \in Ids, made'[i] # Nothing, made'[j] # Nothing,
             made'[j].run = made'[i].run, i # j
      PROVE  /\ made'[i].turn # made'[j].turn
             /\ made'[i].turn < made'[j].turn =>
                  (CountOf(made'[i]) + (made'[j].turn - made'[i].turn)) % TraceMod
                    = CountOf(made'[j])
  <2>1. CASE i = id
    <3>1. made'[j].run = run /\ made'[j].turn \in Nat /\ made'[j].turn < turn
      BY <1>2, <1>6, <1>8, <2>1
    <3>2. made'[i].turn = turn
      BY <1>2, <2>1
    <3> QED BY <1>1, <3>1, <3>2
  <2>2. CASE j = id
    <3>1. /\ made'[i].run = run /\ made'[i].turn \in Nat /\ made'[i].turn < turn
          /\ (CountOf(made'[i]) + (turn - made'[i].turn)) % 1000 = trace
      BY <1>2, <1>6, <1>8, <2>2
    <3>2. made'[j].turn = turn /\ CountOf(made'[j]) = trace
      BY <1>2, <1>3, <2>2
    <3> QED BY <1>1, <3>1, <3>2
  <2>3. CASE i # id /\ j # id
    <3>1. made'[i] = made[i] /\ made'[j] = made[j] /\ made[i] # Nothing /\ made[j] # Nothing
      BY <1>6, <1>8, <2>3
    <3> QED BY <1>8, <3>1 DEF TraceInv
  <2> QED BY <2>1, <2>2, <2>3
<1> QED BY <1>7, <1>8 DEF TraceInv, CountOf

LEMMA InboundKeeps ==
  ASSUME EInv, NEW id \in Ids, NEW day \in Days, extern_inbound(id, day)
  PROVE  EInv'
<1> DEFINE f == sent[id]
<1>1. f \in Traffic /\ ~Thrown(f) /\ place[id] = "FORMINQ" /\ asked[id] = Nothing
  BY DEF EInv, TypeOK, MsgInv, ResultInv, extern_inbound
<1>a. PICK stale \in Leftovers(f) :
        LET read   == externToCardCo(id, f, cardcomsg, stale)
            netid  == NetworkId(f, read)
            struct == Struct(f, extern_cardcoauthreq(f, [read EXCEPT !["netid"] = netid]))
        IN  /\ Reads(id, struct.from, netid)
            /\ msg' = [msg EXCEPT ![id] = struct]
            /\ place' = [place EXCEPT ![id] = IF isPayBalance(struct) THEN "PAYBAL" ELSE "AUTHQ"]
  BY DEF extern_inbound
<1> DEFINE net  == NetworkId(f, externToCardCo(id, f, cardcomsg, stale))
           from == Completed(id, f, cardcomsg, stale, net)
           s    == Struct(f, from)
<1>b. net \in Origins
  BY ReadTyped DEF EInv
<1>2. /\ from \in [Members -> Origins]
      /\ Whole(f) =>
           /\ \A x \in Members \ {"netid"} : from[x] \in OwnOrigins(id)
           /\ \A g \in Kept : \A x \in Read(g) :
                from[x] = IF g \in Walk(f.fields) THEN id ELSE "zero"
      /\ 2 \in Came(f) => from["pan"] = id
  <2> HIDE DEF net
  <2> QED BY <1>1, <1>b, CompletedOwn DEF EInv
<1>3. /\ s \in Structs /\ s.from = from /\ s.read = f /\ s.mt = Type(f)
      /\ s.destination = f.station
      /\ s.bitmap = f.fields \cap Primary /\ s.filler1.mt = f.mt
  <2> HIDE DEF from
  <2> QED BY <1>1, <1>2, StructTyped
<1>4. /\ msg' = [msg EXCEPT ![id] = s]
      /\ externbuf' = externbuf \cup {id}
      /\ cardcomsg' = from
      /\ v_NetworkIdBitmap' = net
      /\ place' = [place EXCEPT ![id] = IF isPayBalance(s) THEN "PAYBAL" ELSE "AUTHQ"]
      /\ sent' = sent /\ wire' = wire /\ asked' = asked /\ run' = run
  BY <1>a, <1>3 DEF extern_inbound, Completed, Reads
<1> HIDE DEF net, from, s
<1>5. \/ /\ made' = [made EXCEPT ![id] = [run |-> run, turn |-> turn, number |-> TraceNumber(day)]]
         /\ trace' = NextTrace(trace) /\ turn' = turn + 1
      \/ made' = made /\ trace' = trace /\ turn' = turn
  BY DEF extern_inbound
<1>6. TypeOK'
  <2>1. TraceNumber(day) \in Nat /\ NextTrace(trace) \in 0 .. (TraceMod - 1)
    BY DayAssumption DEF EInv, TypeOK, TraceNumber, NextTrace, TraceMod
  <2>2. /\ made' \in [Ids -> [run : Nat, turn : Nat, number : Nat] \cup {Nothing}]
        /\ trace' \in 0 .. (TraceMod - 1) /\ turn' \in Nat /\ run' \in Nat
    BY <1>4, <1>5, <2>1 DEF EInv, TypeOK
  <2>3. /\ place' \in [Ids -> Places]
        /\ \A j \in Ids : place'[j] = "none" <=> sent'[j] = Nothing
    BY <1>1, <1>4 DEF EInv, TypeOK, Places
  <2>4. externbuf' \subseteq Origins
    BY <1>4 DEF EInv, TypeOK, Origins
  <2> QED BY <1>1, <1>b, <1>2, <1>3, <1>4, <2>2, <2>3, <2>4 DEF EInv, TypeOK
<1>7. MsgInv(id)'
  <2>1. /\ msg'[id] = s /\ sent'[id] = f /\ place'[id] \in {"AUTHQ", "PAYBAL"}
        /\ asked'[id] = Nothing
    BY <1>1, <1>4 DEF EInv, TypeOK
  <2>2. StructInv(id)'
    BY <1>1, <1>2, <1>3, <2>1 DEF StructInv, Source
  <2>3. ResultInv(id)'
    BY <1>3, <2>1 DEF ResultInv, Waiting, Decided
  <2> QED BY <2>1, <2>2, <2>3 DEF MsgInv, AskedInv, WireInv
<1>8. \A j \in Ids \ {id} : MsgInv(j)'
  BY <1>4, Others DEF EInv, TypeOK
<1>9. TraceInv'
  <2>1. CASE made' = made /\ trace' = trace /\ turn' = turn
    BY <1>4, <2>1 DEF EInv, TraceInv
  <2> QED BY <1>4, <1>5, <2>1, CounterMoves DEF EInv
<1> QED BY <1>6, <1>7, <1>8, <1>9 DEF EInv

-----------------------------------------------------------------------------
(* What the authorisers make of a message. *)

\* What an authoriser does not change of a struct (auth.c:375-415,
\* paybal.c:404-450).
SameMessage(answer, m) ==
  /\ answer \in Structs
  /\ answer.mt = m.mt + 10
  /\ \A x \in Members : answer.from[x] \in {m.from[x], "made", "decided"}
  /\ \A x \in KeptMembers : answer.from[x] = m.from[x]
  /\ answer.read = m.read /\ answer.destination = m.destination
  /\ answer.bitmap = m.bitmap /\ answer.filler1 = m.filler1

\* The answer keeps the invariant when its code goes with what was asked.
LEMMA AnswersKeeps ==
  ASSUME EInv, NEW id \in Ids, NEW answer, Waiting(id), Answers(id, answer),
         SameMessage(answer, msg[id]),
         asked' \in [Ids -> Questions \cup {Nothing}],
         \A j \in Ids \ {id} : asked'[j] = asked[j],
         answer.rc = CASE asked'[id] = Nothing -> SystemError
                       [] asked'[id] # Nothing /\ asked'[id].by = "auth" -> authCode(asked'[id].said)
                       [] asked'[id] # Nothing /\ asked'[id].by = "paybal" -> asked'[id].said.rc,
         asked'[id] # Nothing =>
           /\ Whole(sent[id]) => asked'[id].given \subseteq OwnOrigins(id)
           /\ LET row == getRoute(AuthIni, sent[id].bin) IN
              asked'[id].by = "auth" /\ 2 \in Came(sent[id]) =>
                /\ asked'[id].mt \in AuthRequests => asked'[id].con = row
                /\ asked'[id].mt \in Reversals /\ row # -1 => asked'[id].con = row
  PROVE  EInv'
<1>1. /\ msg' = [msg EXCEPT ![id] = answer]
      /\ place' = [place EXCEPT ![id] = "FORMOUTQ"]
      /\ UNCHANGED <<sent, wire, statics>>
  BY DEF Answers
<1>2. TypeOK'
  <2>1. msg' \in [Ids -> Structs \cup {Nothing}]
    BY <1>1 DEF EInv, TypeOK, SameMessage
  <2>2. /\ place' \in [Ids -> Places]
        /\ \A j \in Ids : place'[j] = "none" <=> sent'[j] = Nothing
    BY <1>1 DEF EInv, TypeOK, Places, Waiting
  <2> QED BY <1>1, <2>1, <2>2 DEF EInv, TypeOK, statics
<1>3. MsgInv(id)'
  <2>1. msg'[id] = answer /\ sent'[id] = sent[id] /\ place'[id] = "FORMOUTQ"
    BY <1>1 DEF EInv, TypeOK
  <2>2. /\ StructInv(id) /\ msg[id].mt = Type(sent[id])
    BY DEF EInv, MsgInv, ResultInv
  <2>3. StructInv(id)'
    <3>1. Whole(sent[id]) =>
            \A g \in Kept : \A x \in Read(g) : answer.from[x] = Source(id, g)
      BY <2>2, KeptRead DEF StructInv, SameMessage
    <3>2. Whole(sent[id]) => \A x \in Members \ {"netid"} : answer.from[x] \in OwnOrigins(id)
      BY <2>2 DEF StructInv, SameMessage, OwnOrigins
    <3>3. 2 \in Came(sent[id]) => answer.from["pan"] = id
      BY <2>2 DEF StructInv, SameMessage, KeptMembers
    <3> QED BY <2>1, <2>2, <3>1, <3>2, <3>3 DEF StructInv, SameMessage, Source
  <2>4. ResultInv(id)'
    BY <2>1, <2>2 DEF ResultInv, Waiting, Decided, SameMessage
  <2>5. AskedInv(id)'
    BY <2>1 DEF AskedInv
  <2>6. WireInv(id)'
    BY <2>1 DEF WireInv
  <2> QED BY <2>3, <2>4, <2>5, <2>6 DEF MsgInv
<1>4. \A j \in Ids \ {id} : MsgInv(j)'
  BY <1>1, Others DEF EInv, TypeOK
<1>5. TraceInv'
  BY <1>1 DEF EInv, TraceInv, statics
<1> QED BY <1>2, <1>3, <1>4, <1>5 DEF EInv

LEMMA FailsKeeps ==
  ASSUME EInv, NEW id \in Ids, Fails(id)
  PROVE  EInv'
<1> DEFINE answer == Unanswered(msg[id])
<1>1. Waiting(id) /\ Answers(id, answer) /\ asked' = asked /\ asked[id] = Nothing
  BY DEF Fails, Waiting, EInv, MsgInv, ResultInv
<1>2. msg[id] \in Structs
  BY <1>1 DEF EInv, MsgInv, StructInv
<1>3. answer.rc = SystemError /\ SameMessage(answer, msg[id])
  <2> DEFINE m    == msg[id]
             from == [x \in Members |-> IF x = "respcode" THEN "made" ELSE m.from[x]]
  <2>1. m.from \in [Members -> Origins] /\ m.mt \in Nat /\ m.avail \in BOOLEAN
    BY <1>2 DEF Structs
  <2>2. /\ from \in [Members -> Origins]
        /\ \A x \in Members : from[x] \in {m.from[x], "made", "decided"}
        /\ \A x \in KeptMembers : from[x] = m.from[x]
    BY <2>1 DEF Origins, Members, KeptMembers
  <2>3. SystemError \in Rcs /\ m.mt + 10 \in Nat
    BY <2>1 DEF Rcs, SystemError
  <2>4. answer = [m EXCEPT !.mt = m.mt + 10, !.rc = SystemError, !.from = from]
    BY DEF Unanswered
  <2> HIDE DEF m, from, answer
  <2>5. /\ answer \in Structs /\ answer.mt = m.mt + 10 /\ answer.rc = SystemError
        /\ answer.from = from /\ answer.read = m.read /\ answer.destination = m.destination
        /\ answer.bitmap = m.bitmap /\ answer.filler1 = m.filler1
    BY <1>2, <2>1, <2>2, <2>3, <2>4 DEF Structs, m
  <2> QED BY <2>2, <2>5 DEF SameMessage, m
<1> QED BY <1>1, <1>3, AnswersKeeps DEF EInv, TypeOK

\* A BIN's row in auth.ini is the connection it is asked by, whatever the type.
LEMMA AuthRouteRow ==
  ASSUME EInv, NEW id \in Ids, Waiting(id), 2 \in Came(sent[id])
  PROVE  LET row == getRoute(AuthIni, sent[id].bin) IN
         /\ msg[id].mt \in AuthRequests => authRoute(msg[id]) = row
         /\ msg[id].mt \in Reversals /\ row # -1 => authRoute(msg[id]) = row
<1>1. msg[id].from["pan"] = id /\ msg[id].read = sent[id]
  BY DEF EInv, MsgInv, StructInv
<1>2. Bin(msg[id]) = sent[id].bin
  BY <1>1, OriginAssumption DEF Bin, Has
<1> QED BY <1>2 DEF authRoute, AuthRequests, Reversals

LEMMA AuthKeeps ==
  ASSUME EInv, NEW id \in Ids, NEW v \in Verdicts, Auth(id, v)
  PROVE  EInv'
<1> DEFINE answer == authResponse(msg[id], v)
           q == Question(msg[id], "auth", authRoute(msg[id]), prepareAuthorization, v)
<1>1. /\ Waiting(id) /\ Answers(id, answer) /\ asked' = [asked EXCEPT ![id] = q]
      /\ authRoute(msg[id]) \in Nat
  <2>1. authRoute(msg[id]) \in 0 .. (Len(AuthIni) - 1) /\ Len(AuthIni) \in Nat
    BY IniAssumption DEF Auth, AuthCons
  <2> QED BY <2>1 DEF Auth, Waiting
<1>2. msg[id] \in Structs
  BY <1>1 DEF EInv, MsgInv, StructInv
<1>3. v \in [rc : 0 .. 99, num : BOOLEAN, aval : {"kept", "zero", "some"}]
  BY VerdictAssumption
<1>4. answer.rc = authCode(v) /\ SameMessage(answer, msg[id])
  <2> DEFINE m     == msg[id]
             from  == [x \in Members |-> IF x \in authMembers(v) THEN "decided" ELSE m.from[x]]
             avail == IF v.aval = "kept" THEN m.avail ELSE v.aval = "some"
  <2>1. m.from \in [Members -> Origins] /\ m.mt \in Nat /\ m.avail \in BOOLEAN
    BY <1>2 DEF Structs
  <2>2. /\ from \in [Members -> Origins]
        /\ \A x \in Members : from[x] \in {m.from[x], "made", "decided"}
        /\ \A x \in KeptMembers : from[x] = m.from[x]
    BY <2>1 DEF Origins, Members, authMembers, KeptMembers
  <2>3. /\ authCode(v) \in Rcs /\ m.mt + 10 \in Nat
        /\ avail \in BOOLEAN
    <3>1. v.rc \in 0 .. 99
      BY <1>3
    <3>2. authCode(v) = v.rc \/ authCode(v) = 91
      BY DEF authCode, SwitchDown
    <3>3. avail \in BOOLEAN
      <4>1. CASE v.aval = "kept"
        BY <2>1, <4>1
      <4>2. CASE v.aval # "kept"
        BY <4>2
      <4> QED BY <4>1, <4>2
    <3> HIDE DEF avail
    <3> QED BY <2>1, <3>1, <3>2, <3>3 DEF Rcs
  <2>4. answer = [m EXCEPT !.mt = m.mt + 10, !.rc = authCode(v), !.from = from, !.avail = avail]
    BY DEF authResponse
  <2> HIDE DEF m, from, avail, answer
  <2>5. /\ answer \in Structs /\ answer.mt = m.mt + 10 /\ answer.rc = authCode(v)
        /\ answer.from = from /\ answer.read = m.read /\ answer.destination = m.destination
        /\ answer.bitmap = m.bitmap /\ answer.filler1 = m.filler1
    BY <1>2, <2>1, <2>2, <2>3, <2>4 DEF Structs, m
  <2> QED BY <2>2, <2>5 DEF SameMessage, m
<1>5. /\ q \in Questions /\ q # Nothing
      /\ Whole(sent[id]) => q.given \subseteq OwnOrigins(id)
      /\ q.by = "auth" /\ q.said = v
      /\ q.mt = msg[id].mt /\ q.con = authRoute(msg[id])
  <2>1. prepareAuthorization \subseteq Members \ {"netid"}
    BY DEF prepareAuthorization, Members
  <2>2. Whole(sent[id]) => \A x \in Members \ {"netid"} : msg[id].from[x] \in OwnOrigins(id)
    BY <1>1 DEF EInv, MsgInv, StructInv
  <2>3. {msg[id].from[x] : x \in prepareAuthorization} \subseteq Origins
    BY <1>2, <2>1 DEF Structs
  <2>4. msg[id].mt \in Nat
    BY <1>2 DEF Structs
  <2> QED BY <1>1, <2>1, <2>2, <2>3, <2>4, NothingAssumption DEF Question, Questions
<1>6. asked'[id] = q /\ asked' \in [Ids -> Questions \cup {Nothing}]
  BY <1>1, <1>5 DEF EInv, TypeOK
<1>7. \A j \in Ids \ {id} : asked'[j] = asked[j]
  BY <1>1 DEF EInv, TypeOK
<1> HIDE DEF q, answer
<1>8. answer.rc = CASE asked'[id] = Nothing -> SystemError
                    [] asked'[id] # Nothing /\ asked'[id].by = "auth" -> authCode(asked'[id].said)
                    [] asked'[id] # Nothing /\ asked'[id].by = "paybal" -> asked'[id].said.rc
  BY <1>4, <1>5, <1>6
<1>9. /\ Whole(sent[id]) => asked'[id].given \subseteq OwnOrigins(id)
      /\ LET row == getRoute(AuthIni, sent[id].bin) IN
         2 \in Came(sent[id]) =>
           /\ asked'[id].mt \in AuthRequests => asked'[id].con = row
           /\ asked'[id].mt \in Reversals /\ row # -1 => asked'[id].con = row
  BY <1>1, <1>5, <1>6, AuthRouteRow
<1> QED BY <1>1, <1>4, <1>6, <1>7, <1>8, <1>9, AnswersKeeps

LEMMA PayBalKeeps ==
  ASSUME EInv, NEW id \in Ids, NEW v \in Verdicts, PayBal(id, v)
  PROVE  EInv'
<1> DEFINE answer == paybalResponse(msg[id], v)
           q == Question(msg[id], "paybal", paybalRoute(msg[id]), prepareRequest, v)
<1>1. /\ Waiting(id) /\ Answers(id, answer) /\ asked' = [asked EXCEPT ![id] = q]
      /\ paybalRoute(msg[id]) \in Nat
  <2>1. paybalRoute(msg[id]) \in 0 .. (PayBalCons - 1) /\ PayBalCons \in Int
    BY IniAssumption DEF PayBal, PayBalCons
  <2> QED BY <2>1 DEF PayBal, Waiting
<1>2. msg[id] \in Structs
  BY <1>1 DEF EInv, MsgInv, StructInv
<1>3. v \in [rc : 0 .. 99, num : BOOLEAN, aval : {"kept", "zero", "some"}]
  BY VerdictAssumption
<1>4. answer.rc = v.rc /\ SameMessage(answer, msg[id])
  <2> DEFINE m     == msg[id]
             from  == [x \in Members |-> IF x \in paybalMembers THEN "decided" ELSE m.from[x]]
             avail == v.aval = "some"
  <2>1. m.from \in [Members -> Origins] /\ m.mt \in Nat /\ m.avail \in BOOLEAN
    BY <1>2 DEF Structs
  <2>2. /\ from \in [Members -> Origins]
        /\ \A x \in Members : from[x] \in {m.from[x], "made", "decided"}
        /\ \A x \in KeptMembers : from[x] = m.from[x]
    BY <2>1 DEF Origins, KeptMembers, Members, paybalMembers
  <2>3. v.rc \in Rcs /\ m.mt + 10 \in Nat /\ avail \in BOOLEAN
    BY <1>3, <2>1 DEF Rcs, authCode, SwitchDown
  <2>4. answer = [m EXCEPT !.mt = m.mt + 10, !.rc = v.rc, !.from = from, !.avail = avail]
    BY DEF paybalResponse
  <2> HIDE DEF m, from, avail, answer
  <2>5. /\ answer \in Structs /\ answer.mt = m.mt + 10 /\ answer.rc = v.rc
        /\ answer.from = from /\ answer.read = m.read /\ answer.destination = m.destination
        /\ answer.bitmap = m.bitmap /\ answer.filler1 = m.filler1
    BY <1>2, <2>1, <2>2, <2>3, <2>4 DEF Structs, m
  <2> QED BY <2>2, <2>5 DEF SameMessage, m
<1>5. /\ q \in Questions /\ q # Nothing
      /\ Whole(sent[id]) => q.given \subseteq OwnOrigins(id)
      /\ q.by = "paybal" /\ q.said = v
  <2>1. prepareRequest \subseteq Members \ {"netid"}
    BY DEF prepareRequest, prepareAuthorization, Members
  <2>2. Whole(sent[id]) => \A x \in Members \ {"netid"} : msg[id].from[x] \in OwnOrigins(id)
    BY <1>1 DEF EInv, MsgInv, StructInv
  <2>3. {msg[id].from[x] : x \in prepareRequest} \subseteq Origins
    BY <1>2, <2>1 DEF Structs
  <2>4. msg[id].mt \in Nat
    BY <1>2 DEF Structs
  <2> QED BY <1>1, <2>1, <2>2, <2>3, <2>4, NothingAssumption DEF Question, Questions
<1>6. asked'[id] = q /\ asked' \in [Ids -> Questions \cup {Nothing}]
  BY <1>1, <1>5 DEF EInv, TypeOK
<1>7. \A j \in Ids \ {id} : asked'[j] = asked[j]
  BY <1>1 DEF EInv, TypeOK
<1> HIDE DEF q, answer
<1>8. answer.rc = CASE asked'[id] = Nothing -> SystemError
                    [] asked'[id] # Nothing /\ asked'[id].by = "auth" -> authCode(asked'[id].said)
                    [] asked'[id] # Nothing /\ asked'[id].by = "paybal" -> asked'[id].said.rc
  BY <1>4, <1>5, <1>6
<1> QED BY <1>1, <1>4, <1>5, <1>6, <1>7, <1>8, AnswersKeeps

-----------------------------------------------------------------------------
(* What leaves. *)

\* The adjustments of a bitmap stay within 128 fields.
LEMMA BitmapFields ==
  ASSUME NEW b \in SUBSET Field
  PROVE  /\ \A k : setBitOn(b, k) \in SUBSET Field /\ setBitOff(b, k) \in SUBSET Field
         /\ \A ibp, list : adjust_bitmap(b, ibp, list) \in SUBSET Field
<1>1. \A c, k : c \subseteq Field => setBitOn(c, k) \subseteq Field /\ setBitOff(c, k) \subseteq c
  BY DEF setBitOn, setBitOff
<1>2. ASSUME NEW ibp, NEW list
      PROVE  adjust_bitmap(b, ibp, list) \subseteq Field
  BY <1>1 DEF adjust_bitmap
<1> QED BY <1>1, <1>2

LEMMA TrackFields ==
  ASSUME NEW b \in SUBSET Field, NEW pin, NEW expiry
  PROVE  set_pin_and_track(b, pin, expiry) \in SUBSET Field
<1> DEFINE tracked == setBitOn(b, 34)
           dated   == IF ~isBitSet(tracked, 1) THEN tracked
                      ELSE IF expiry THEN setBitOn(tracked, 13) ELSE setBitOff(tracked, 13)
<1>1. tracked \in SUBSET Field
  BY BitmapFields
<1>2. dated \in SUBSET Field
  <2> HIDE DEF tracked
  <2> QED BY <1>1, BitmapFields
<1>3. setBitOn(setBitOn(dated, 51), 52) \in SUBSET Field
  <2> HIDE DEF dated
  <2>1. setBitOn(dated, 51) \in SUBSET Field
    BY <1>2, BitmapFields
  <2> QED BY <2>1, BitmapFields
<1> QED BY <1>2, <1>3 DEF set_pin_and_track

\* What leaves has a bitmap of 128 fields at most, whatever its type.
LEMMA SentFields ==
  ASSUME NEW m, NEW body \in Bodies
  PROVE  Written(cardco_to_extern(m), body) \in SUBSET Field
<1> DEFINE b == build_header(m)
           s == Traits(m)
<1>1. b \in SUBSET Field
  BY DEF build_header, Primary, Field
<1> HIDE DEF b, s
<1>2. extern_externauthreq(b, s) \in SUBSET Field
  <2> DEFINE b1 == set_pin_and_track(b, s.pin, s.expiry)
             b2 == IF s.cash THEN setBitOn(b1, 60) ELSE b1
             b3 == IF s.atm THEN setBitOn(b2, 42) ELSE b2
             b4 == IF s.termid THEN b3 ELSE setBitOff(b3, 40)
  <2>1. b1 \in SUBSET Field
    BY <1>1, TrackFields
  <2>2. b2 \in SUBSET Field
    <3> HIDE DEF b1
    <3> QED BY <2>1, BitmapFields
  <2>3. b3 \in SUBSET Field
    <3> HIDE DEF b2
    <3> QED BY <2>2, BitmapFields
  <2>4. b4 \in SUBSET Field
    <3> HIDE DEF b3
    <3> QED BY <2>3, BitmapFields
  <2>5. extern_externauthreq(b, s) = IF s.termloc THEN b4 ELSE setBitOff(b4, 41)
    BY DEF extern_externauthreq
  <2> HIDE DEF b4
  <2> QED BY <2>4, <2>5, BitmapFields
<1>3. \A rc : extern_externauthresp(b, s, rc) \in SUBSET Field
  <2> TAKE rc
  <2> DEFINE b1 == IF rc # 0 THEN setBitOff(b, 37) ELSE b
             b2 == IF s.length62 THEN setBitOn(b1, 61) ELSE b1
  <2>1. b1 \in SUBSET Field
    BY <1>1, BitmapFields
  <2>2. b2 \in SUBSET Field
    <3> HIDE DEF b1
    <3> QED BY <2>1, BitmapFields
  <2>3. extern_externauthresp(b, s, rc) = adjust_bitmap(b2, s.got, {23, 41, 42})
    BY DEF extern_externauthresp
  <2> HIDE DEF b2
  <2> QED BY <2>2, <2>3, BitmapFields
<1>4. extern_externrevreq(b, s) \in SUBSET Field
  <2> DEFINE b1 == set_pin_and_track(b, s.pin, s.expiry)
             b2 == IF s.partial THEN setBitOn(b1, 94) ELSE b1
             b3 == setBitOff(setBitOff(b2, 34), 44)
             b4 == IF s.termid THEN b3 ELSE setBitOff(b3, 40)
  <2>1. b1 \in SUBSET Field
    BY <1>1, TrackFields
  <2>2. b2 \in SUBSET Field
    <3> HIDE DEF b1
    <3> QED BY <2>1, BitmapFields
  <2>3. b3 \in SUBSET Field
    <3> HIDE DEF b2
    <3>1. setBitOff(b2, 34) \in SUBSET Field
      BY <2>2, BitmapFields
    <3> QED BY <3>1, BitmapFields
  <2>4. b4 \in SUBSET Field
    <3> HIDE DEF b3
    <3> QED BY <2>3, BitmapFields
  <2>5. extern_externrevreq(b, s) = IF s.termloc THEN b4 ELSE setBitOff(b4, 41)
    BY DEF extern_externrevreq
  <2> HIDE DEF b4
  <2> QED BY <2>4, <2>5, BitmapFields
<1>5. \A rc : extern_externrevresp(b, s, rc) \in SUBSET Field
  <2> TAKE rc
  <2> DEFINE b1 == adjust_bitmap(b, s.got, {23, 41, 42})
             b2 == IF s.partial THEN setBitOn(b1, 94) ELSE b1
             b3 == IF rc = 21 THEN setBitOff(b2, 37) ELSE b2
  <2>1. b1 \in SUBSET Field
    BY <1>1, BitmapFields
  <2>2. b2 \in SUBSET Field
    <3> HIDE DEF b1
    <3> QED BY <2>1, BitmapFields
  <2>3. b3 \in SUBSET Field
    <3> HIDE DEF b2
    <3> QED BY <2>2, BitmapFields
  <2>4. extern_externrevresp(b, s, rc) = IF s.length62 THEN setBitOn(b3, 61) ELSE b3
    BY DEF extern_externrevresp
  <2> HIDE DEF b3
  <2> QED BY <2>3, <2>4, BitmapFields
<1>6. cardco_to_extern(m) \in SUBSET Field
  BY <1>1, <1>2, <1>3, <1>4, <1>5 DEF cardco_to_extern, b, s
<1> QED BY <1>6, BodyAssumption DEF Written, Primary

\* The table's bitmaps for the two kinds of answer (bitmap.c:36-60).
LEMMA AnswerTable ==
  /\ find_bitmap(110) = {2, 3, 4, 7, 11, 19, 25, 32, 37, 38, 39, 49}
  /\ find_bitmap(410) = {2, 3, 4, 7, 11, 32, 37, 39, 49}
<1>1. /\ find_bitmap(110) = make_bitmap(idx110p)
      /\ find_bitmap(410) = make_bitmap(idx410p)
  BY DEF find_bitmap, create_bitmaps, msgmap
<1>2. /\ make_bitmap(idx110p) = UNION {{f} \cap Field : f \in idx110p}
      /\ make_bitmap(idx410p) = UNION {{f} \cap Field : f \in idx410p}
  BY DEF make_bitmap, setBitOn, idx110p, idx410p
<1>3. idx110p \subseteq Field /\ idx410p \subseteq Field
  BY DEF idx110p, idx410p, Field
<1>4. UNION {{f} \cap Field : f \in idx110p} = idx110p /\ UNION {{f} \cap Field : f \in idx410p} = idx410p
  BY <1>3
<1> QED BY <1>1, <1>2, <1>4 DEF idx110p, idx410p

\* The fields of an answer: those of the table, the private data, and of the
\* request's fields no others than 22, 40 and 41.
LEMMA AnswerBits ==
  ASSUME NEW m \in Structs, NEW body, NEW t \in {110, 410}, OutType(m.mt) = t, m.filler1.mt # t
  PROVE  LET bits == Written(cardco_to_extern(m), body) IN
         /\ {2, 3, 4, 7, 11, 37, 39} \subseteq bits
         /\ bits \subseteq AnswerFields
         /\ 40 \in bits <=> 40 \in m.bitmap
<1> DEFINE b == build_header(m)
           s == Traits(m)
           e == cardco_to_extern(m)
<1>1. /\ {2, 3, 4, 7, 11, 37, 39} \subseteq b
      /\ b \subseteq {2, 3, 4, 7, 11, 19, 25, 32, 37, 38, 39, 48, 49}
  <2>1. /\ {2, 3, 4, 7, 11, 37, 39} \subseteq find_bitmap(t)
        /\ find_bitmap(t) \subseteq {2, 3, 4, 7, 11, 19, 25, 32, 37, 38, 39, 49}
    BY AnswerTable
  <2>2. b = find_bitmap(t) \cap Primary \/ b = setBitOn(find_bitmap(t), 48) \cap Primary
    BY DEF build_header, OnlyRouted
  <2> QED BY <2>1, <2>2 DEF setBitOn, Primary, Field
<1>2. s.got = m.bitmap
  BY DEF Traits
<1> HIDE DEF b, s
<1>3. \A c : adjust_bitmap(c, s.got, {23, 41, 42})
             = c \cup ({22, 40, 41} \cap s.got)
  <2> TAKE c
  <2>1. \A k \in Field : setBitOn({}, k) = {k}
    BY DEF setBitOn
  <2>2. setBitOn({}, 23 - 1) = {22} /\ setBitOn({}, 41 - 1) = {40} /\ setBitOn({}, 42 - 1) = {41}
    BY <2>1 DEF Field
  <2>3. LET S == {x \in {23, 41, 42} : isBitSet(s.got, x - 1)} IN
        /\ S \subseteq {23, 41, 42}
        /\ 23 \in S <=> 22 \in s.got
        /\ 41 \in S <=> 40 \in s.got
        /\ 42 \in S <=> 41 \in s.got
    BY DEF isBitSet
  <2> QED BY <2>2, <2>3 DEF adjust_bitmap
<1>4. /\ \A c : setBitOff(c, 37) = c \ {35}
      /\ \A c : setBitOn(c, 61) = c \cup {61}
      /\ \A c : setBitOn(c, 94) = c \cup {94}
  BY DEF setBitOff, setBitOn, Field
<1>5. CASE t = 110
  <2>1. e = extern_externauthresp(b, s, OutCode(m))
    BY <1>5 DEF cardco_to_extern, b, s, Reversals
  <2>2. /\ b \ {35} \subseteq e /\ ({40} \cap s.got) \ {35} \subseteq e
        /\ e \subseteq b \cup {61} \cup ({22, 40, 41} \cap s.got)
    BY <1>3, <1>4, <2>1 DEF extern_externauthresp
  <2> HIDE DEF e
  <2>3. 1 \notin e
    BY <1>1, <2>2
  <2>4. Written(e, body) = {f \in e : f \in Primary}
    BY <2>3 DEF Written, isBitSet
  <2>5. \A f \in e : f \in AnswerFields \cup {94}
    BY <1>1, <2>2 DEF AnswerFields
  <2>6. Written(e, body) = e \ {94}
    BY <2>4, <2>5 DEF Primary, AnswerFields
  <2>7. {2, 3, 4, 7, 11, 37, 39} \subseteq e
    BY <1>1, <2>2
  <2>8. 40 \in e <=> 40 \in m.bitmap
    BY <1>1, <1>2, <2>2
  <2> QED BY <2>5, <2>6, <2>7, <2>8 DEF e
<1>6. CASE t = 410
  <2>1. e = extern_externrevresp(b, s, OutCode(m))
    BY <1>6 DEF cardco_to_extern, b, s, Reversals
  <2>2. /\ b \ {35} \subseteq e /\ ({40} \cap s.got) \ {35} \subseteq e
        /\ e \subseteq b \cup {61, 94} \cup ({22, 40, 41} \cap s.got)
    BY <1>3, <1>4, <2>1 DEF extern_externrevresp
  <2> HIDE DEF e
  <2>3. 1 \notin e
    BY <1>1, <2>2
  <2>4. Written(e, body) = {f \in e : f \in Primary}
    BY <2>3 DEF Written, isBitSet
  <2>5. \A f \in e : f \in AnswerFields \cup {94}
    BY <1>1, <2>2 DEF AnswerFields
  <2>6. Written(e, body) = e \ {94}
    BY <2>4, <2>5 DEF Primary, AnswerFields
  <2>7. {2, 3, 4, 7, 11, 37, 39} \subseteq e
    BY <1>1, <2>2
  <2>8. 40 \in e <=> 40 \in m.bitmap
    BY <1>1, <1>2, <2>2
  <2> QED BY <2>5, <2>6, <2>7, <2>8 DEF e
<1> QED BY <1>5, <1>6

\* The members of what leaves are its own: the network id goes only with an
\* answer.
LEMMA LeavingOwn ==
  ASSUME NEW m \in Structs
  PROVE  /\ Leaving(m) \in [Members -> Origins]
         /\ \A x \in Members \ {"netid"} : Leaving(m)[x] \in {m.from[x], "zero", "made"}
         /\ OutType(m.mt) \notin {110, 410} => Leaving(m)["netid"] = "zero"
         /\ OutType(m.mt) \in {110, 410} => \A x \in KeptMembers : Leaving(m)[x] = m.from[x]
<1>1. m.from \in [Members -> Origins]
  BY DEF Structs
<1>2. Leaving(m) \in [Members -> Origins]
  BY <1>1 DEF Leaving, Origins
<1>3. \A x \in Members \ {"netid"} : Leaving(m)[x] \in {m.from[x], "zero", "made"}
  BY <1>1 DEF Leaving
<1>5. OutType(m.mt) \notin {110, 410} => Leaving(m)["netid"] = "zero"
  BY DEF Leaving, Members
<1>6. ASSUME OutType(m.mt) \in {110, 410}, NEW x \in KeptMembers
      PROVE  Leaving(m)[x] = m.from[x]
  <2>1. x \in Members /\ x \notin {"netid", "serial_1", "origmsg"}
    BY DEF KeptMembers, Members
  <2> QED BY <2>1 DEF Leaving
<1> QED BY <1>2, <1>3, <1>5, <1>6

\* The message that leaves has its type.
LEMMA MessageTyped ==
  ASSUME EInv, NEW id \in Ids, Decided(id), NEW body \in Bodies
  PROVE  Message(msg[id], body) \in Wires
<1> DEFINE m == msg[id]
<1>1. /\ m \in Structs /\ m.read \in Traffic /\ m.read \in Messages
      /\ sent[id] \in Traffic /\ m.destination = sent[id].station
  <2>1. sent[id] \in Traffic
    BY DEF EInv, TypeOK, Decided
  <2> QED BY <2>1, TrafficAssumption DEF EInv, MsgInv, StructInv
<1>2. OutType(m.mt) \in Nat
  BY <1>1 DEF OutType, Structs
<1>3. Written(cardco_to_extern(m), body) \in SUBSET Field
  BY SentFields
<1>4. OutCode(m) \in Rcs
  <2>1. m.rc \in Rcs
    BY <1>1 DEF Structs
  <2>2. extern_externrespcode(m.rc) \in 0 .. 99
    BY DEF extern_externrespcode, Approved
  <2> QED BY <2>1, <2>2 DEF OutCode, Rcs
<1>5. Altered(m) \in SUBSET Field
  BY DEF Altered, Field
<1>6. extern_make_externpcode(CodeOf(m)) \in Pcodes
  <2>1. \A k \in Pcodes : extern_make_externpcode(k) \in Pcodes
    BY DEF extern_make_externpcode, make_acct_code_out, Pcodes, Pcode
  <2>2. Pcode(0, 0, 0) \in Pcodes
    BY DEF Pcode, Pcodes
  <2>3. CodeOf(m) \in Pcodes
    BY <1>1, <2>2 DEF CodeOf, Messages
  <2> QED BY <2>1, <2>3
<1>7. Letter(m) \in Letters
  BY <1>1 DEF Letter, Letters
<1>8. Leaving(m) \in [Members -> Origins]
  BY <1>1, LeavingOwn
<1> DEFINE d == IF IsResponse(OutType(m.mt)) THEN m.destination ELSE "zero"
<1>9. d \in Stations
  <2>1. m.destination \in Stations
    BY <1>1 DEF Stations
  <2> QED BY <2>1 DEF Stations
<1> DEFINE s == Written(cardco_to_extern(m), body)
           c == extern_make_externpcode(CodeOf(m))
           a == Altered(m)
<1>10. Message(m, body) = [mt |-> OutType(m.mt), bits |-> s, rc |-> OutCode(m), pcode |-> c,
                     letter |-> Letter(m), from |-> Leaving(m), altered |-> a,
                     destination |-> d]
  BY DEF Message
<1> HIDE DEF m, s, c, d, a
<1>11. s \in SUBSET Field /\ c \in Pcodes /\ a \in SUBSET Field
  BY <1>3, <1>5, <1>6 DEF s, c, a
<1>12. Message(m, body) \in Wires
  BY <1>2, <1>4, <1>7, <1>8, <1>9, <1>10, <1>11 DEF Wires
<1> QED BY <1>12 DEF m

\* An answer on the line keeps to AnswerInv when it is made.
LEMMA MessageAnswers ==
  ASSUME EInv, NEW id \in Ids, Decided(id), NEW body, NEW w, w = Message(msg[id], body),
         w.mt \in {110, 410}
  PROVE  /\ w.destination = sent[id].station
         /\ {2, 3, 4, 7, 11, 37, 39} \subseteq w.bits
         /\ w.bits \subseteq AnswerFields
         /\ 40 \in w.bits <=> 40 \in sent[id].fields
         /\ Whole(sent[id]) =>
              /\ \A g \in Repeated : \A x \in Read(g) : w.from[x] = Source(id, g)
              /\ 3 \in Walk(sent[id].fields) => w.pcode = sent[id].pcode
              /\ w.altered = Garbles(sent[id])
         /\ w.rc = OutCode(msg[id])
<1> DEFINE m == msg[id]
           f == sent[id]
           t == OutType(m.mt)
<1>1. /\ w.mt = t /\ w.bits = Written(cardco_to_extern(m), body) /\ w.rc = OutCode(m)
      /\ w.pcode = extern_make_externpcode(CodeOf(m)) /\ w.from = Leaving(m)
      /\ w.altered = Altered(m)
      /\ w.destination = IF IsResponse(t) THEN m.destination ELSE "zero"
  BY DEF Message
<1>2. /\ m \in Structs /\ f \in Traffic /\ f \in Messages /\ ~Thrown(f)
      /\ Whole(f) => \A g \in Kept : \A x \in Read(g) : m.from[x] = Source(id, g)
      /\ m.read = f
      /\ m.destination = f.station /\ m.bitmap = f.fields \cap Primary /\ m.filler1.mt = f.mt
      /\ m.mt = Type(f) + 10
  <2>1. f \in Traffic
    BY DEF EInv, TypeOK, Decided
  <2> QED BY <2>1, TrafficAssumption DEF EInv, MsgInv, StructInv, ResultInv
<1>3. t \in {110, 410} /\ m.mt = t /\ m.filler1.mt # t
  <2>1. /\ Type(f) \in AuthRequests \cup Reversals \cup {110, 410}
        /\ Type(f) \notin {110, 410} /\ Type(f) # 400 => Type(f) = f.mt
        /\ Type(f) = 400 => f.mt \in {400, 110}
    BY <1>2, TypesPassed
  <2>2. Type(f) \in {100, 400} /\ m.mt = t
    BY <1>1, <1>2, <2>1 DEF OutType, AuthRequests, Reversals
  <2> QED BY <1>1, <1>2, <2>1, <2>2
<1>4. w.destination = f.station
  BY <1>1, <1>2, <1>3 DEF IsResponse
<1>5. /\ {2, 3, 4, 7, 11, 37, 39} \subseteq w.bits
      /\ w.bits \subseteq AnswerFields
      /\ 40 \in w.bits <=> 40 \in m.bitmap
  BY <1>1, <1>2, <1>3, AnswerBits
<1>6. 40 \in w.bits <=> 40 \in f.fields
  BY <1>2, <1>5 DEF Primary
<1>7. ASSUME Whole(f)
      PROVE  \A g \in Repeated : \A x \in Read(g) : w.from[x] = Source(id, g)
  <2>1. \A x \in KeptMembers : Leaving(m)[x] = m.from[x]
    BY <1>2, <1>3, LeavingOwn
  <2> QED BY <1>1, <1>2, <1>7, <2>1, KeptRead DEF Kept
<1>8. ASSUME Whole(f), 3 \in Walk(f.fields)
      PROVE  w.pcode = f.pcode
  <2>1. 3 \in Kept /\ "pcode" \in Read(3)
    BY DEF Kept, Repeated, Read, In, CardIn, Into
  <2>2. m.from["pcode"] = id
    BY <1>2, <1>8, <2>1 DEF Source
  <2>3. CodeOf(m) = f.pcode
    BY <1>2, <2>2, OriginAssumption DEF CodeOf, Has
  <2>4. extern_make_cardcopcode(f.pcode)
    BY <1>2, <1>8 DEF Thrown, Bad
  <2>5. f.pcode \in Pcodes
    BY <1>2 DEF Messages
  <2>6. extern_make_externpcode(f.pcode) = f.pcode
    BY <2>4, <2>5 DEF extern_make_cardcopcode, extern_make_externpcode, make_acct_code_out,
                      Pcode, Pcodes
  <2> QED BY <1>1, <2>3, <2>6
<1>9. ASSUME Whole(f)
      PROVE  w.altered = Garbles(f)
  <2>1. /\ 23 \in Kept /\ "card_seqno" \in Read(23)
        /\ 25 \in Kept /\ "pos_condition_code" \in Read(25)
        /\ 26 \in Kept /\ "pos_pin_cap_code" \in Read(26)
        /\ 37 \in Kept /\ "refnum" \in Read(37)
    BY DEF Kept, Repeated, Read, In, TermsIn, PartiesIn, Into
  <2>2. id # "zero"
    BY OriginAssumption
  <2>3. /\ Has(m, "card_seqno") <=> 23 \in Walk(f.fields)
        /\ Has(m, "pos_condition_code") <=> 25 \in Walk(f.fields)
        /\ Has(m, "pos_pin_cap_code") <=> 26 \in Walk(f.fields)
        /\ Has(m, "refnum") <=> 37 \in Walk(f.fields)
    BY <1>2, <1>9, <2>1, <2>2 DEF Has, Source
  <2> QED BY <1>1, <1>2, <2>3 DEF Altered, Garbles
<1> QED BY <1>1, <1>4, <1>5, <1>6, <1>7, <1>8, <1>9

LEMMA OutboundKeeps ==
  ASSUME EInv, NEW id \in Ids, NEW body \in Bodies, extern_outbound(id, body)
  PROVE  EInv'
<1> DEFINE w == Message(msg[id], body)
<1>1. /\ Decided(id) /\ place[id] = "FORMOUTQ"
      /\ place' = [place EXCEPT ![id] = Fate(msg[id])]
      /\ Fate(msg[id]) \in {"dropped", "raw", "DRIVERQ"}
      /\ wire' = IF Fate(msg[id]) = "DRIVERQ" THEN [wire EXCEPT ![id] = w] ELSE wire
      /\ sent' = sent /\ msg' = msg /\ asked' = asked /\ UNCHANGED statics
  BY DEF extern_outbound, Decided, Fate
<1>2. w \in Wires
  BY <1>1, MessageTyped
<1> HIDE DEF w
<1>3. TypeOK'
  <2>1. /\ place' \in [Ids -> Places]
        /\ \A j \in Ids : place'[j] = "none" <=> sent'[j] = Nothing
    BY <1>1 DEF EInv, TypeOK, Places
  <2>2. wire' \in [Ids -> Wires \cup {Nothing}]
    BY <1>1, <1>2 DEF EInv, TypeOK
  <2> QED BY <1>1, <2>1, <2>2 DEF EInv, TypeOK, statics
<1>4. MsgInv(id)'
  <2>1. place'[id] = Fate(msg[id])
    BY <1>1 DEF EInv, TypeOK
  <2>2. StructInv(id)'
    BY <1>1, <2>1 DEF EInv, MsgInv, StructInv, Decided, Waiting, Source
  <2>3. ResultInv(id)'
    BY <1>1, <2>1 DEF EInv, MsgInv, ResultInv, Decided, Waiting
  <2>4. AskedInv(id)'
    BY <1>1 DEF EInv, MsgInv, AskedInv
  <2>5. WireInv(id)'
    <3> SUFFICES ASSUME Fate(msg[id]) = "DRIVERQ"
                 PROVE  WireInv(id)'
      BY <2>1 DEF WireInv
    <3>1. wire'[id] = w
      BY <1>1 DEF EInv, TypeOK
    <3>2. /\ w.from = Leaving(msg[id]) /\ w.mt = OutType(msg[id].mt)
      BY DEF Message, w
    <3>3. /\ msg[id] \in Structs
          /\ Whole(sent[id]) => \A x \in Members \ {"netid"} : msg[id].from[x] \in OwnOrigins(id)
      BY <1>1 DEF EInv, MsgInv, StructInv
    <3>4. /\ Whole(sent[id]) => \A x \in Members \ {"netid"} : w.from[x] \in OwnOrigins(id)
          /\ w.mt \notin {110, 410} => w.from["netid"] = "zero"
      BY <3>2, <3>3, LeavingOwn DEF OwnOrigins
    <3>5. w.mt \in {110, 410} => AnswerInv(id)'
      BY <1>1, <3>1, MessageAnswers DEF AnswerInv, Source, w
    <3> QED BY <1>1, <1>2, <3>1, <3>2, <3>4, <3>5 DEF WireInv
  <2> QED BY <2>2, <2>3, <2>4, <2>5 DEF MsgInv
<1>5. \A j \in Ids \ {id} : MsgInv(j)'
  BY <1>1, Others DEF EInv, TypeOK
<1>6. TraceInv'
  BY <1>1 DEF EInv, TraceInv, statics
<1> QED BY <1>3, <1>4, <1>5, <1>6 DEF EInv

LEMMA DiesKeeps ==
  ASSUME EInv, NEW id \in Ids, Dies(id)
  PROVE  EInv'
<1>1. /\ Decided(id) /\ place' = [place EXCEPT ![id] = "lost"] /\ place[id] = "FORMOUTQ"
      /\ UNCHANGED <<sent, msg, wire, asked, made>>
      /\ run' = run + 1 /\ turn' = 0 /\ trace' = 0
      /\ externbuf' = {"zero"} /\ cardcomsg' = Zeros /\ v_NetworkIdBitmap' = "zero"
  BY DEF Dies, Decided
<1>2. TypeOK'
  <2>1. Zeros \in [Members -> Origins] /\ "zero" \in Origins /\ 0 \in 0 .. (TraceMod - 1)
    BY DEF Zeros, Origins, TraceMod
  <2>2. /\ place' \in [Ids -> Places]
        /\ \A j \in Ids : place'[j] = "none" <=> sent'[j] = Nothing
    BY <1>1 DEF EInv, TypeOK, Places
  <2> QED BY <1>1, <2>1, <2>2 DEF EInv, TypeOK
<1>3. MsgInv(id)'
  <2>1. place'[id] = "lost"
    BY <1>1 DEF EInv, TypeOK
  <2>2. StructInv(id)'
    BY <1>1, <2>1 DEF EInv, MsgInv, StructInv, Decided, Waiting, Source
  <2>3. ResultInv(id)'
    BY <1>1, <2>1 DEF EInv, MsgInv, ResultInv, Decided, Waiting
  <2>4. AskedInv(id)'
    BY <1>1 DEF EInv, MsgInv, AskedInv
  <2>5. WireInv(id)'
    BY <2>1 DEF WireInv
  <2> QED BY <2>2, <2>3, <2>4, <2>5 DEF MsgInv
<1>4. \A j \in Ids \ {id} : MsgInv(j)'
  BY <1>1, Others DEF EInv, TypeOK
<1>5. TraceInv'
  <2>1. \A i \in Ids : made[i] # Nothing => made[i].run \in Nat /\ made[i].run < run'
    <3> TAKE i \in Ids
    <3>1. made[i] # Nothing => made[i] \in [run : Nat, turn : Nat, number : Nat]
      BY DEF EInv, TypeOK
    <3> QED BY <1>1, <3>1 DEF EInv, TypeOK, TraceInv
  <2> QED BY <1>1, <2>1 DEF EInv, TraceInv, CountOf
<1> QED BY <1>2, <1>3, <1>4, <1>5 DEF EInv

-----------------------------------------------------------------------------
(* What follows. *)

\* The inductive invariant (Exchange): a struct has its own message's data and
\* the result it was given, what leaves repeats it, and the trace counter goes
\* around once in a thousand turns.
THEOREM ExchangeInvariance == Spec => []EInv
<1>1. Init => EInv
  <2> SUFFICES ASSUME Init PROVE EInv
    OBVIOUS
  <2>1. TypeOK
    BY TrafficAssumption, TraceAssumption DEF Init, TypeOK, Places, Zeros, Origins, TraceMod
  <2>2. \A id \in Ids : MsgInv(id)
    BY DEF Init, MsgInv, StructInv, ResultInv, AskedInv, WireInv, Waiting, Decided
  <2>3. TraceInv
    BY DEF Init, TraceInv
  <2> QED BY <2>1, <2>2, <2>3 DEF EInv
<1>2. EInv /\ [Next]_vars => EInv'
  <2> SUFFICES ASSUME EInv, [Next]_vars PROVE EInv'
    OBVIOUS
  <2>1. CASE UNCHANGED vars
    <3>1. TypeOK'
      BY <2>1 DEF EInv, TypeOK, vars
    <3>2. ASSUME NEW id \in Ids
          PROVE  MsgInv(id)'
      <4>1. StructInv(id)'
        BY <2>1 DEF EInv, MsgInv, StructInv, Waiting, Decided, Source, vars
      <4>2. ResultInv(id)'
        BY <2>1 DEF EInv, MsgInv, ResultInv, Waiting, Decided, vars
      <4>3. AskedInv(id)'
        BY <2>1 DEF EInv, MsgInv, AskedInv, vars
      <4>4. WireInv(id)'
        BY <2>1 DEF EInv, MsgInv, WireInv, AnswerInv, Source, vars
      <4> QED BY <4>1, <4>2, <4>3, <4>4 DEF MsgInv
    <3>3. TraceInv'
      BY <2>1 DEF EInv, TraceInv, vars
    <3> QED BY <3>1, <3>2, <3>3 DEF EInv
  <2>2. CASE Next
    <3>1. PICK id \in Ids :
            \/ \E f \in Traffic : Arrives(id, f)
            \/ Discards(id)
            \/ \E day \in Days : extern_inbound(id, day)
            \/ \E v \in Verdicts : Auth(id, v)
            \/ \E v \in Verdicts : PayBal(id, v)
            \/ Fails(id)
            \/ \E body \in Bodies : extern_outbound(id, body)
            \/ Dies(id)
      BY <2>2 DEF Next
    <3> QED BY <3>1, ArrivesKeeps, DiscardsKeeps, InboundKeeps, AuthKeeps, PayBalKeeps, FailsKeeps,
               OutboundKeeps, DiesKeeps
  <2> QED BY <2>1, <2>2
<1> QED BY <1>1, <1>2, PTL DEF Spec

\* Every variable of Exchange keeps its type.
THEOREM ExchangeTyped == Spec => []TypeOK
<1>1. EInv => TypeOK
  BY DEF EInv
<1> QED BY <1>1, ExchangeInvariance, PTL

\* Nothing of another message leaves, or is asked, with one that came whole
\* (v_in.c:89, v_header.c:154); of a short one nothing is claimed (v_in.c:41).
THEOREM KeepsApart == Spec => []NothingForeign
<1>1. EInv => NothingForeign
  <2> SUFFICES ASSUME EInv, NEW id \in Ids, Whole(sent[id])
               PROVE  /\ Left(id) => {wire[id].from[x] : x \in Carried(wire[id])} \cap Ids \subseteq {id}
                      /\ asked[id] # Nothing => asked[id].given \cap Ids \subseteq {id}
    BY DEF NothingForeign
  <2>1. OwnOrigins(id) \cap Ids \subseteq {id}
    BY OriginAssumption DEF OwnOrigins
  <2>2. asked[id] # Nothing => asked[id].given \cap Ids \subseteq {id}
    BY <2>1 DEF EInv, MsgInv, AskedInv
  <2>3. ASSUME Left(id)
        PROVE  \A x \in Carried(wire[id]) : wire[id].from[x] \in OwnOrigins(id)
    <3>1. /\ wire[id] \in Wires
          /\ \A x \in Members \ {"netid"} : wire[id].from[x] \in OwnOrigins(id)
          /\ wire[id].mt \notin {110, 410} => wire[id].from["netid"] = "zero"
          /\ wire[id].mt \in {110, 410} => AnswerInv(id)
      BY <2>3 DEF Left, EInv, MsgInv, WireInv
    <3> TAKE x \in Carried(wire[id])
    <3>2. PICK g \in wire[id].bits : x \in Out(g, 0, {}, wire[id].letter).from
      BY DEF Carried
    <3>3. g \in Field
      BY <3>1, <3>2 DEF Wires
    <3>4. x \in Members /\ (x = "netid" => g = 63)
      BY <3>2, <3>3, WrittenMembers
    <3>5. CASE x = "netid"
      <4>1. wire[id].mt \notin {110, 410}
        BY <3>1, <3>2, <3>4, <3>5 DEF AnswerInv, AnswerFields
      <4> QED BY <3>1, <3>5, <4>1 DEF OwnOrigins
    <3>6. CASE x # "netid"
      BY <3>1, <3>4, <3>6
    <3> QED BY <3>5, <3>6
  <2> QED BY <2>1, <2>2, <2>3
<1> QED BY <1>1, ExchangeInvariance, PTL

\* An answer goes to the asker and repeats what was asked, if that came whole,
\* but for the fields that fmt garbles (v_out.c:478, v_misc.c:197, v_tonet.c:331).
THEOREM AnswersEcho == Spec => []Echoed
<1>1. EInv => Echoed
  BY DEF EInv, MsgInv, WireInv, AnswerInv, Echoed, Answered, Left, Source
<1> QED BY <1>1, ExchangeInvariance, PTL

\* An answer can be read, field after field, just when its request had no field
\* 40 and its private data are of a known kind (v_tonet.c:111, v_tocardco.c:112).
THEOREM AnswersRead == Spec => []AnswersReadable
<1>1. EInv => AnswersReadable
  <2> SUFFICES ASSUME EInv, NEW id \in Ids, Answered(id)
               PROVE  (\A g \in wire[id].bits :
                         Readable(g, LengthOf(id, g), {}, wire[id].letter))
                      <=> /\ 40 \notin sent[id].fields
                          /\ 48 \in wire[id].bits => wire[id].letter \in {"C", "D"}
    BY DEF AnswersReadable
  <2>1. wire[id].bits \subseteq AnswerFields /\ (40 \in wire[id].bits <=> 40 \in sent[id].fields)
    BY DEF EInv, MsgInv, WireInv, AnswerInv, Answered, Left
  <2>2. \A g : LengthOf(id, g) \in Nat
    <3>1. sent[id] \in Messages
      BY TrafficAssumption DEF EInv, TypeOK, Answered, Left
    <3> QED BY <3>1 DEF LengthOf, Messages
  <2>3. \A g \in AnswerFields \ {40, 48} : Readable(g, LengthOf(id, g), {}, wire[id].letter)
    <3> TAKE g \in AnswerFields \ {40, 48}
    <3>1. g \in Field \ Unlike /\ g # 48
      BY DEF AnswerFields, Field, Unlike
    <3> QED BY <2>2, <3>1, FieldsAgree
  <2>4. ~Readable(40, LengthOf(id, 40), {}, wire[id].letter)
    BY <2>2, CardServiceUnread
  <2>5. Readable(48, LengthOf(id, 48), {}, wire[id].letter) <=> wire[id].letter \in {"C", "D"}
    BY <2>2, PrivateDataRead
  <2> QED BY <2>1, <2>3, <2>4, <2>5
<1> QED BY <1>1, ExchangeInvariance, PTL

\* A 0110 says approved just when a database did; a 0410 says zero, or 21 for the
\* three codes of its kind (v_out.c:571-579, v_out.c:650, auth.c:388).
THEOREM TellsResult == Spec => []ResultTold
<1>1. EInv => ResultTold
  <2> SUFFICES ASSUME EInv, NEW id \in Ids, Answered(id)
               PROVE  /\ wire[id].mt = 110 =>
                           (extern_cardcorespcode(wire[id].rc) = Approved <=>
                              /\ asked[id] # Nothing
                              /\ asked[id].said.rc = Approved
                              /\ asked[id].by = "auth" => asked[id].said.num)
                      /\ wire[id].mt = 410 =>
                           wire[id].rc = IF asked[id] # Nothing /\ asked[id].said.rc \in {9, 10, 98}
                                         THEN 21 ELSE 0
    BY DEF ResultTold
  <2>1. wire[id].mt = OutType(msg[id].mt) /\ wire[id].rc = OutCode(msg[id])
    BY DEF EInv, MsgInv, WireInv, AnswerInv, Answered, Left
  <2>2. msg[id].rc = CASE asked[id] = Nothing -> SystemError
                       [] asked[id] # Nothing /\ asked[id].by = "auth" -> authCode(asked[id].said)
                       [] asked[id] # Nothing /\ asked[id].by = "paybal" -> asked[id].said.rc
    BY DEF EInv, MsgInv, ResultInv, Decided, Answered, Left
  <2>3. asked[id] # Nothing => /\ asked[id].by \in {"auth", "paybal"}
                               /\ asked[id].said.rc \in 0 .. 99
    BY VerdictAssumption DEF EInv, TypeOK, Questions
  <2>4. msg[id].rc \in 0 .. 99
    BY <2>2, <2>3 DEF authCode, SystemError, SwitchDown
  <2>5. ASSUME wire[id].mt = 110
        PROVE  extern_cardcorespcode(wire[id].rc) = Approved <=> msg[id].rc = Approved
    <3>1. wire[id].rc = extern_externrespcode(msg[id].rc)
      BY <2>1, <2>5 DEF OutCode
    <3> QED BY <2>4, <3>1, CodesAgree
  <2>6. ASSUME wire[id].mt = 410
        PROVE  wire[id].rc = IF msg[id].rc \in {9, 10, 98} THEN 21 ELSE 0
    <3>1. extern_externrespcode(msg[id].rc) = 21 <=> msg[id].rc \in {9, 10, 98}
      BY <2>4, TimesOut
    <3> QED BY <2>1, <2>6, <3>1 DEF OutCode
  <2> QED BY <2>2, <2>3, <2>5, <2>6 DEF authCode, SystemError, SwitchDown, Approved
<1> QED BY <1>1, ExchangeInvariance, PTL

\* A reversal is asked where its purchase was (auth.c:429-450).
THEOREM ReversalsFollow == Spec => []ReversalFollows
<1>1. EInv => ReversalFollows
  <2> SUFFICES ASSUME EInv, NEW i \in Ids, NEW j \in Ids,
                      asked[i] # Nothing, asked[i].by = "auth", asked[i].mt \in AuthRequests,
                      asked[j] # Nothing, asked[j].by = "auth", asked[j].mt \in Reversals,
                      {2} \subseteq Came(sent[i]) \cap Came(sent[j]),
                      sent[i].bin = sent[j].bin
               PROVE  asked[i].con = asked[j].con
    BY DEF ReversalFollows
  <2>1. asked[i].con = getRoute(AuthIni, sent[i].bin)
    BY DEF EInv, MsgInv, AskedInv
  <2>2. asked[i].con \in Nat
    BY DEF EInv, TypeOK, Questions
  <2>3. getRoute(AuthIni, sent[j].bin) # -1 => asked[j].con = getRoute(AuthIni, sent[j].bin)
    BY DEF EInv, MsgInv, AskedInv
  <2> QED BY <2>1, <2>2, <2>3
<1> QED BY <1>1, ExchangeInvariance, PTL

\* A thousand trace numbers made in a row are all different (v_in.c:505-506).
THEOREM TracesDiffer == Spec => []TracesDistinct
<1>1. EInv => TracesDistinct
  <2> SUFFICES ASSUME EInv, NEW i \in Ids, NEW j \in Ids, i # j,
                      made[i] # Nothing, made[j] # Nothing, made[i].run = made[j].run,
                      made[i].turn - made[j].turn \in (1 - TraceMod) .. (TraceMod - 1)
               PROVE  made[i].number # made[j].number
    BY DEF TracesDistinct
  <2>1. \A k \in Ids : made[k] # Nothing => made[k].turn \in Nat
    BY DEF EInv, TypeOK
  <2>2. TraceInv
    BY DEF EInv
  <2> DEFINE c == CountOf(made[i])
             d == CountOf(made[j])
             p == made[i].turn
             q == made[j].turn
  <2>3. p \in Nat /\ q \in Nat /\ p - q < 1000 /\ q - p < 1000
    <3>1. p \in Nat /\ q \in Nat
      BY <2>1
    <3>2. \A x, y \in Nat : x - y \in (1 - TraceMod) .. (TraceMod - 1) => x - y < 1000 /\ y - x < 1000
      BY ONLY DEF TraceMod
    <3> QED BY <3>1, <3>2
  <2>4. /\ p # q /\ c \in 0 .. 999 /\ d \in 0 .. 999
        /\ p < q => (c + (q - p)) % 1000 = d
        /\ q < p => (d + (p - q)) % 1000 = c
    <3> HIDE DEF EInv
    <3> QED BY ONLY <2>2, i \in Ids, j \in Ids, i # j, made[i] # Nothing, made[j] # Nothing,
               made[i].run = made[j].run
            DEF TraceInv, TraceMod
  <2>5. c # d => made[i].number # made[j].number
    BY DEF CountOf
  <2> HIDE DEF c, d, p, q
  <2>7. CASE p < q
    <3>1. q - p \in 1 .. 999
      BY <2>3, <2>7
    <3>2. c \in 0 .. 999
      BY <2>4
    <3> DEFINE u == q - p
    <3> HIDE DEF u
    <3>3. u \in 1 .. 999
      BY <3>1 DEF u
    <3>4. (c + u) % 1000 # c
      BY ONLY <3>2, <3>3
    <3> QED BY <2>4, <2>5, <2>7, <3>4 DEF u
  <2>8. CASE q < p
    <3>1. p - q \in 1 .. 999
      BY <2>3, <2>8
    <3>2. d \in 0 .. 999
      BY <2>4
    <3> DEFINE u == p - q
    <3> HIDE DEF u
    <3>3. u \in 1 .. 999
      BY <3>1 DEF u
    <3>4. (d + u) % 1000 # d
      BY ONLY <3>2, <3>3
    <3> QED BY <2>4, <2>5, <2>8, <3>4 DEF u
  <2> QED BY <2>3, <2>4, <2>7, <2>8
<1> QED BY <1>1, ExchangeInvariance, PTL
===============================================================================
