----------------------------- MODULE FieldProofs ------------------------------
(***************************************************************************)
(* What holds of the fields and codes of any message: the reader and the   *)
(* writer agree on the bytes of every field but those of Unlike, and no    *)
(* response code becomes an approval on its way to the network and back.   *)
(***************************************************************************)
EXTENDS Fields, Codes, TLAPS

\* The fields of a card and its transaction (v_tocardco.c:113-190,
\* v_tonet.c:112-192).
LEMMA CardAgrees ==
  ASSUME NEW g \in 2 .. 12, g \notin Unlike, NEW n \in Nat, NEW bits, NEW letter
  PROVE  Readable(g, n, bits, letter)
<1>1. \A k : In(g, k, {g}, bits) = CardIn(g, k)
  BY DEF In
<1>2. Out(g, n, bits, letter) = CardOut(g, n)
  BY DEF Out
<1>3. CardOut(g, n).width = CardIn(g, CardOut(g, n).len).width
  BY DEF CardOut, CardIn, formatOut, formatIn, chartobcd, bcdtochar, Into, From, Unlike
<1> QED BY <1>1, <1>2, <1>3 DEF Readable

\* Dates, merchant and terminal (v_tocardco.c:192-274, v_tonet.c:194-280).
LEMMA TermsAgree ==
  ASSUME NEW g \in 14 .. 28, g \notin Unlike, NEW n \in Nat, NEW bits, NEW letter
  PROVE  Readable(g, n, bits, letter)
<1>1. \A k : In(g, k, {g}, bits) = TermsIn(g, {g})
  BY DEF In
<1>2. Out(g, n, bits, letter) = TermsOut(g)
  BY DEF Out
<1>3. TermsOut(g).width = TermsIn(g, {g}).width
  BY DEF TermsOut, TermsIn, formatOut, formatIn, chartobcd, bcdtochar, Into, From, Unlike
<1> QED BY <1>1, <1>2, <1>3 DEF Readable

\* The local date (v_tocardco.c:187, v_tonet.c:189).
LEMMA DateAgrees ==
  ASSUME NEW n \in Nat, NEW bits, NEW letter
  PROVE  Readable(13, n, bits, letter)
<1>1. \A k : In(13, k, {13}, bits) = CardIn(13, k)
  BY DEF In
<1>2. Out(13, n, bits, letter) = TermsOut(13)
  BY DEF Out
<1>3. \A k : TermsOut(13).width = CardIn(13, k).width
  BY DEF TermsOut, CardIn, formatOut, formatIn, Into, From
<1> QED BY <1>1, <1>2, <1>3 DEF Readable

\* Institutions, track data and codes (v_tocardco.c:276-389, v_tonet.c:282-422).
LEMMA PartiesAgree ==
  ASSUME NEW g \in 32 .. 45, g \notin Unlike, NEW n \in Nat, NEW bits, NEW letter
  PROVE  Readable(g, n, bits, letter)
<1>1. \A k : In(g, k, {g}, bits) = PartiesIn(g, k)
  BY DEF In
<1>2. Out(g, n, bits, letter) = PartiesOut(g, n)
  BY DEF Out
<1>3. PartiesOut(g, n).width = PartiesIn(g, PartiesOut(g, n).len).width
  BY DEF PartiesOut, PartiesIn, formatOut, formatIn, chartobcd, bcdtochar, Into, From, Unlike
<1> QED BY <1>1, <1>2, <1>3 DEF Readable

\* Amounts and private data, of the two kinds whose length the writer knows
\* (v_tocardco.c:391-509, v_tonet.c:424-518).
LEMMA AmountsAgree ==
  ASSUME NEW g \in 48 .. 61, g \notin Unlike, NEW n \in Nat, NEW bits, NEW letter,
         g = 48 => letter \in {"C", "D"}
  PROVE  Readable(g, n, bits, letter)
<1>1. \A k : In(g, k, {g}, bits) = AmountsIn(g, k)
  BY DEF In
<1>2. Out(g, n, bits, letter) = AmountsOut(g, n, letter)
  BY DEF Out
<1>3. AmountsOut(g, n, letter).width = AmountsIn(g, AmountsOut(g, n, letter).len).width
  BY DEF AmountsOut, AmountsIn, formatOut, formatIn, chartobcd, bcdtochar, Into, From, Unlike
<1> QED BY <1>1, <1>2, <1>3 DEF Readable

\* The fields with parts (v_tocardco.c:512-587, v_tonet.c:520-592).
LEMMA PrivateAgrees ==
  ASSUME NEW g \in 62 .. 64, NEW n \in Nat, NEW bits, NEW letter
  PROVE  Readable(g, n, bits, letter)
<1>1. \A k : In(g, k, {g}, bits) = PrivateIn(g, bits)
  BY DEF In
<1>2. Out(g, n, bits, letter) = PrivateOut(g, bits)
  BY DEF Out
<1>3. PrivateOut(g, bits).width = PrivateIn(g, bits).width
  BY DEF PrivateOut, PrivateIn, formatOut, formatIn, Into, From
<1> QED BY <1>1, <1>2, <1>3 DEF Readable

\* Settlement (v_tocardco.c:590-712, v_tonet.c:595-739).
LEMMA SettlementAgrees ==
  ASSUME NEW g \in 66 .. 95, g \notin Unlike, NEW n \in Nat, NEW bits, NEW letter
  PROVE  Readable(g, n, bits, letter)
<1>1. \A k : In(g, k, {g}, bits) = SettlementIn(g)
  BY DEF In
<1>2. Out(g, n, bits, letter) = SettlementOut(g)
  BY DEF Out
<1>3. SettlementOut(g).width = SettlementIn(g).width
  BY DEF SettlementOut, SettlementIn, formatOut, formatIn, bcdtochar, Into, From, Unlike
<1> QED BY <1>1, <1>2, <1>3 DEF Readable

\* Files and institutions (v_tocardco.c:714-843, v_tonet.c:741-884).
LEMMA FileAgrees ==
  ASSUME NEW g \in 99 .. 127, g \notin Unlike, NEW n \in Nat, NEW bits, NEW letter
  PROVE  Readable(g, n, bits, letter)
<1>1. \A k : In(g, k, {g}, bits) = FileIn(g, k)
  BY DEF In
<1>2. Out(g, n, bits, letter) = FileOut(g, n)
  BY DEF Out
<1>3. FileOut(g, n).width = FileIn(g, FileOut(g, n).len).width
  BY DEF FileOut, FileIn, formatOut, formatIn, chartobcd, bcdtochar, Into, From, Unlike
<1> QED BY <1>1, <1>2, <1>3 DEF Readable

\* Fields that neither side knows.
LEMMA RestAgrees ==
  ASSUME NEW g \in {29, 30, 31, 46, 47, 65, 96, 98, 128}, NEW n \in Nat, NEW bits, NEW letter
  PROVE  Readable(g, n, bits, letter)
<1>1. \A k : In(g, k, {g}, bits).width = 0
  BY DEF In, SettlementIn, FileIn, Into
<1>2. Out(g, n, bits, letter).width = 0
  BY DEF Out, FileOut, From
<1> QED BY <1>1, <1>2 DEF Readable

\* What the writer writes of a field, the reader steps over exactly, whatever
\* its length and its parts: the two switches of a thousand lines agree on every
\* field but those of Unlike (v_tocardco.c:112, v_tonet.c:111).
THEOREM FieldsAgree ==
  ASSUME NEW g \in Field \ Unlike, NEW n \in Nat, NEW bits, NEW letter,
         g = 48 => letter \in {"C", "D"}
  PROVE  Readable(g, n, bits, letter)
<1>1. \/ g \in 2 .. 12 \/ g = 13 \/ g \in 14 .. 28 \/ g \in 32 .. 45 \/ g \in 48 .. 61
      \/ g \in 62 .. 64 \/ g \in 66 .. 95 \/ g \in 99 .. 127
      \/ g \in {29, 30, 31, 46, 47, 65, 96, 98, 128}
  BY DEF Field, Unlike
<1>2. CASE g \in 2 .. 12
  BY <1>2, CardAgrees
<1>3. CASE g = 13
  BY <1>3, DateAgrees
<1>4. CASE g \in 14 .. 28
  BY <1>4, TermsAgree
<1>5. CASE g \in 32 .. 45
  BY <1>5, PartiesAgree
<1>6. CASE g \in 48 .. 61
  BY <1>6, AmountsAgree
<1>7. CASE g \in 62 .. 64
  BY <1>7, PrivateAgrees
<1>8. CASE g \in 66 .. 95
  BY <1>8, SettlementAgrees
<1>9. CASE g \in 99 .. 127
  BY <1>9, FileAgrees
<1>10. CASE g \in {29, 30, 31, 46, 47, 65, 96, 98, 128}
  BY <1>10, RestAgrees
<1> QED BY <1>1, <1>2, <1>3, <1>4, <1>5, <1>6, <1>7, <1>8, <1>9, <1>10

\* The writer writes field 40 without its bytes (v_tonet.c:365, v_tocardco.c:349).
LEMMA CardServiceUnread ==
  ASSUME NEW n, NEW bits, NEW letter
  PROVE  ~Readable(40, n, bits, letter)
<1>1. Out(40, n, bits, letter) = PartiesOut(40, n) /\ \A k : In(40, k, {40}, bits) = PartiesIn(40, k)
  BY DEF Out, In
<1>2. PartiesOut(40, n).width = 0 /\ \A k : PartiesIn(40, k).width = 3
  BY DEF PartiesOut, PartiesIn, From, Into
<1> QED BY <1>1, <1>2 DEF Readable

\* The length byte of the private data is right for two kinds of payment only
\* (v_tonet.c:424-462, v_tocardco.c:391-419).
LEMMA PrivateDataRead ==
  ASSUME NEW n \in Nat, NEW bits, NEW letter
  PROVE  Readable(48, n, bits, letter) <=> letter \in {"C", "D"}
<1>1. /\ Out(48, n, bits, letter) = AmountsOut(48, n, letter)
      /\ \A k : In(48, k, {48}, bits) = AmountsIn(48, k)
  BY DEF Out, In
<1>2. \A k : AmountsIn(48, k).width = 1 + k
  BY DEF AmountsIn, Into
<1>3. letter \notin {"C", "D"} =>
        AmountsOut(48, n, letter).width = 49 /\ AmountsOut(48, n, letter).len = 36
  BY DEF AmountsOut, From
<1>4. letter \in {"C", "D"} => Readable(48, n, bits, letter)
  BY FieldsAgree DEF Field, Unlike
<1> QED BY <1>1, <1>2, <1>3, <1>4 DEF Readable

\* Only an approval is read as an approval once it was translated for the
\* network (v_out.c:650, v_in.c:648).
THEOREM CodesAgree ==
  ASSUME NEW rc \in 0 .. 99
  PROVE  extern_cardcorespcode(extern_externrespcode(rc)) = Approved <=> rc = Approved
<1>1. rc = 0 => extern_externrespcode(rc) = 0
  BY DEF extern_externrespcode, Approved
<1>2. rc # 0 => extern_externrespcode(rc) \notin {0, 11}
  BY SMTT(30) DEF extern_externrespcode, Approved
<1>3. \A resp : resp \notin {0, 11} => extern_cardcorespcode(resp) # 0
  BY SMTT(30) DEF extern_cardcorespcode, Approved, UnableToProcess
<1>4. extern_cardcorespcode(0) = 0
  BY DEF extern_cardcorespcode, Approved
<1> QED BY <1>1, <1>2, <1>3, <1>4 DEF Approved

\* The code that a 0410 carries on its own is made of three (v_out.c:689-691).
LEMMA TimesOut ==
  ASSUME NEW rc \in 0 .. 99
  PROVE  extern_externrespcode(rc) = 21 <=> rc \in {9, 10, 98}
BY SMTT(30) DEF extern_externrespcode, Approved
===============================================================================
