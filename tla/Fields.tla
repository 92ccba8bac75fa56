-------------------------------- MODULE Fields --------------------------------
(***************************************************************************)
(* The fields of a message: for each one, which members of struct          *)
(* internalmsg it fills or is filled from, and how many bytes the reader   *)
(* externToCardCo and the writer cardcoToExtern step over.  A field ends   *)
(* where the next one begins, so the two must agree on the bytes of every  *)
(* field, or all that follows is misread.                                  *)
(*                                                                         *)
(* Messages other than 3xx and 5xx.  n is the length byte of the field, b  *)
(* the bitmap of the message, bits the bitmap inside field 63.             *)
(***************************************************************************)
EXTENDS Integers, Bitmaps

\* The members of the struct that a field fills, and the field's width.
Into(members, width) == [into |-> members, width |-> width]

\* The members of the struct whose bytes a field is made of, its length byte (0
\* when it has none) and its width.
From(members, len, width) == [from |-> members, len |-> len, width |-> width]

-----------------------------------------------------------------------------
(* v_misc.c: bytes per conversion. *)

bcdtochar(len) == (len + 1) \div 2
chartobcd(len) == (len + 1) \div 2

\* Mutant of formatIn: BTOC drops the odd half byte, as BTOI does.
formatIn_floor(fmt, len) == IF fmt = "BTOC" THEN len \div 2 ELSE
  CASE fmt \in {"BTOC", "BTOS"} -> bcdtochar(len)
    [] fmt \in {"BTOR", "BTOM"} -> (len + 1) \div 2
    [] fmt = "BTOI"             -> len \div 2
    [] OTHER                    -> len

formatIn(fmt, len) ==
  CASE fmt \in {"BTOC", "BTOS"} -> bcdtochar(len)
    [] fmt \in {"BTOR", "BTOM"} -> (len + 1) \div 2
    [] fmt = "BTOI"             -> len \div 2
    [] OTHER                    -> len

\* CTOM returns the length of the string, which no caller uses but field 97.
formatOut(fmt, len) ==
  CASE fmt = "BTOS"                   -> chartobcd(len)
    [] fmt \in {"BTOC", "BTOI", "BTOM"} -> (len + 1) \div 2
    [] OTHER                          -> len

-----------------------------------------------------------------------------
(* The reader (v_tocardco.c). *)

CardIn(g, n) ==
  CASE g = 1        -> Into({}, 8)
    [] g = 2        -> Into({"pan"}, 1 + formatIn("BTOC", n))
    [] g = 3        -> Into({"pcode"}, formatIn("BTOI", 6))
    [] g = 4        -> Into({"amount"}, formatIn("BTOC", 12))
    [] g = 5        -> Into({"settlement_amount"}, formatIn("BTOM", 12))
    [] g = 6        -> Into({"amount_equiv"}, formatIn("BTOM", 12))
    [] g = 7        -> Into({"trandate", "trantime"}, formatIn("BTOI", 4) + formatIn("BTOI", 6))
    [] g \in {9, 10} -> Into({}, formatIn("BTOR", 8))
    [] g = 11       -> Into({"trace"}, formatIn("BTOI", 6))
    [] g = 12       -> Into({"local_time"}, formatIn("BTOI", 6))
    [] g = 13       -> Into({"local_date"}, formatIn("BTOI", 4))
    [] OTHER        -> Into({}, 0)

\* The expiry date is kept as track data when none is to come.
TermsIn(g, b) ==
  CASE g = 14       -> Into(IF isBitSet(b, 34) \/ isBitSet(b, 44) THEN {} ELSE {"track2"},
                            formatIn("BTOI", 4))
    [] g = 15       -> Into({"settlement_date"}, formatIn("BTOI", 4))
    [] g = 16       -> Into({"iss_conv_date"}, formatIn("BTOI", 4))
    [] g = 18       -> Into({"merchant_type"}, formatIn("BTOS", 4))
    [] g = 19       -> Into({"acq_country"}, formatIn("BTOS", 4))
    [] g \in {20, 21} -> Into({}, 2)
    [] g = 22       -> Into({"pos_entry_code"}, formatIn("BTOS", 4))
    [] g = 23       -> Into({"card_seqno"}, formatIn("BTOS", 4))
    [] g = 25       -> Into({"pos_condition_code"}, formatIn("BTOS", 2))
    [] g = 26       -> Into({"pos_pin_cap_code"}, 1)
    [] g = 28       -> Into({}, 9)
    [] OTHER        -> Into({}, 0)

\* The response code is asked for in a format formatIn does not know: nothing
\* of the field is kept.
PartiesIn(g, n) ==
  CASE g = 32       -> Into({"acquirer", "large_bin"}, 1 + formatIn("BTOC", n))
    [] g = 33       -> Into({"originator"}, 1 + formatIn("BTOC", n))
    [] g = 34       -> Into({}, 1 + n)
    [] g = 35       -> Into({"track2"}, 1 + formatIn("BTOC", n))
    [] g = 37       -> Into({"refnum"}, formatIn("CHAR", 12))
    [] g = 38       -> Into({"authnum"}, formatIn("CHAR", 6))
    [] g = 39       -> Into({"respcode"}, formatIn("ATOI", 2))
    [] g = 40       -> Into({}, 3)
    [] g = 41       -> Into({"termid"}, formatIn("CHAR", 8))
    [] g = 42       -> Into({"termloc"}, formatIn("CHAR", 15))
    [] g = 43       -> Into({"acceptorname"}, formatIn("CHAR", 40))
    [] g = 44       -> Into({"addresponse"}, 1 + formatIn("CHAR", n))
    [] g = 45       -> Into({"track2"}, 1 + formatIn("CHAR", n))
    [] OTHER        -> Into({}, 0)

AmountsIn(g, n) ==
  CASE g = 48       -> Into({}, 1 + n)
    [] g = 49       -> Into({"acq_currency_code"}, formatIn("BTOS", 3))
    [] g = 50       -> Into({"settlement_code"}, formatIn("BTOS", 3))
    [] g = 51       -> Into({"iss_currency_code"}, formatIn("BTOS", 3))
    [] g = 52       -> Into({"pin"}, formatIn("BINARY", 8))
    [] g = 53       -> Into({"security"}, 8)
    [] g = 54       -> IF n > 21 THEN Into({"aval_balance", "cash_back"}, 1 + 2 * (9 + 12))
                                 ELSE Into({"aval_balance"}, 1 + 9 + 12)
    [] g = 59       -> Into({"pos_geo_loc"}, 1 + formatIn("CHAR", n))
    [] g = 60       -> Into({"pos_cap_code"}, 1 + formatIn("BTOS", 2))
    [] g = 61       -> Into({"cash_back"},
                            1 + formatIn("BTOM", 12) + (IF n > 12 THEN (n - 12) \div 2 ELSE 0))
    [] OTHER        -> Into({}, 0)

\* A part of field 63 is there when its bit is on; bit 0 never is.
Part(bits, bit, width) == IF isBitSet(bits, bit) THEN width ELSE 0

Parts63(bits) ==
  Part(bits, 1, 2) + Part(bits, 2, 2) + Part(bits, 3, 2) + Part(bits, 4, 3)
    + Part(bits, 5, 7) + Part(bits, 6, 8) + Part(bits, 7, 4) + Part(bits, 8, 12)

\* FMT_MOVE moves nothing in formatIn, so the bitmap of field 62 is empty and
\* its parts are not looked for.
PrivateIn(g, bits) ==
  CASE g = 62       -> Into({"length62"}, 1 + formatIn("MOVE", 8))
    [] g = 63       -> Into({"netid", "life_cycle", "revcode", "serial_1", "serial_2"},
                            1 + 3 + Parts63(bits))
    [] g = 64       -> Into({"mac"}, formatIn("BINARY", 8))
    [] OTHER        -> Into({}, 0)

\* Case 78 falls into case 79.
SettlementIn(g) ==
  CASE g = 66         -> Into({"msg500"}, formatIn("BTOI", 1))
    [] g \in {68, 69}   -> Into({}, 2)
    [] g = 70         -> Into({"netcode"}, formatIn("BTOI", 3))
    [] g = 73         -> Into({}, 3)
    [] g = 78         -> Into({"msg500"}, 2 * formatIn("BTOI", 10))
    [] g \in (74 .. 81) \ {78} -> Into({"msg500"}, formatIn("BTOI", 10))
    [] g \in 82 .. 85 -> Into({"msg500"}, formatIn("BTOM", 12))
    [] g \in 86 .. 89 -> Into({"msg500"}, formatIn("BTOM", 16))
    [] g = 90         -> Into({"origmsg", "origtrace", "origdate", "origtime"},
                              formatIn("BTOI", 4) + formatIn("BTOI", 6) + formatIn("BTOI", 4)
                                + formatIn("BTOI", 6) + 11)
    [] g = 91         -> Into({}, 1)
    [] g = 92         -> Into({}, 2)
    [] g = 93         -> Into({}, 5)
    [] g = 95         -> Into({"aval_balance"}, 42)
    [] g = 97         -> Into({"msg500"}, 1 + formatIn("CTOM", 16))
    [] OTHER          -> Into({}, 0)

FileIn(g, n) ==
  CASE g = 99                      -> Into({}, 1 + formatIn("BTOC", n))
    [] g = 100                     -> Into({"issuer"}, 1 + formatIn("BTOC", n))
    [] g = 102                     -> Into({"acctnum"}, 1 + formatIn("CHAR", n))
    [] g \in {101, 103, 121, 122, 127} -> Into({}, 1 + n)
    [] g = 120                     -> Into({}, 1 + 2)
    [] g = 123                     -> Into({"addresponse"}, 1 + n)
    [] OTHER                       -> Into({}, 0)

\* The switch of externToCardCo.
In(g, n, b, bits) ==
  CASE g \in 1 .. 13   -> CardIn(g, n)
    [] g \in 14 .. 28  -> TermsIn(g, b)
    [] g \in 32 .. 45  -> PartiesIn(g, n)
    [] g \in 48 .. 61  -> AmountsIn(g, n)
    [] g \in 62 .. 64  -> PrivateIn(g, bits)
    [] g \in 66 .. 97  -> SettlementIn(g)
    [] g \in 99 .. 128 -> FileIn(g, n)
    [] OTHER           -> Into({}, 0)

-----------------------------------------------------------------------------
(* The writer (v_tonet.c).  n is the length of the string the field is     *)
(* made of, without the zeros that pan and the institutions lose; letter   *)
(* is the one at acceptorname[4], which tells a payment's kind.            *)
(*                                                                         *)
(* FMT_BTOS takes an int from where a short is: what comes next in the     *)
(* struct, if only padding does not, is in the digits, 65536 times.        *)

CardOut(g, n) ==
  CASE g = 2        -> From({"pan"}, n, 1 + formatOut("BTOC", n))
    [] g = 3        -> From({"pcode"}, 0, formatOut("BTOI", 6))
    [] g = 4        -> From({"amount"}, 0, formatOut("BTOM", 12))
    [] g = 5        -> From({"settlement_amount"}, 0, formatOut("BTOM", 12))
    [] g = 6        -> From({"amount_equiv"}, 0, formatOut("BTOM", 12))
    [] g = 7        -> From({"trandate", "trantime"}, 0, formatOut("BTOI", 4) + formatOut("BTOI", 6))
    [] g \in {9, 10} -> From({}, 0, formatOut("BTOR", 8))
    [] g = 11       -> From({"trace"}, 0, formatOut("BTOI", 6))
    [] g = 12       -> From({"local_time"}, 0, formatOut("BTOI", 6))
    [] OTHER        -> From({}, 0, 0)

TermsOut(g) ==
  CASE g = 13       -> From({"local_date"}, 0, formatOut("BTOI", 4))
    [] g = 14       -> From({"track2"}, 0, formatOut("BTOI", 4))
    [] g = 15       -> From({"settlement_date"}, 0, formatOut("BTOI", 4))
    [] g = 16       -> From({"iss_conv_date"}, 0, formatOut("BTOI", 4))
    [] g = 18       -> From({"merchant_type", "acq_country"}, 0, formatOut("BTOS", 4))
    [] g = 19       -> From({"acq_country", "card_seqno"}, 0, formatOut("BTOS", 4))
    [] g \in {20, 21} -> From({}, 0, 2)
    [] g = 22       -> From({"pos_entry_code", "pos_condition_code"}, 0, formatOut("BTOS", 4))
    [] g = 23       -> From({"card_seqno"}, 0, formatOut("BTOS", 4))
    [] g = 25       -> From({"pos_condition_code", "pos_pin_cap_code"}, 0, formatOut("BTOS", 2))
    [] g = 26       -> From({"pos_pin_cap_code"}, 0, 1)
    [] g = 28       -> From({}, 0, 9)
    [] OTHER        -> From({}, 0, 0)

\* Field 44 is always "01", and its width is the length of whichever field was
\* measured last: outside what is checked here.
PartiesOut(g, n) ==
  CASE g = 32       -> From({"acquirer", "large_bin"}, n, 1 + formatOut("BTOC", n))
    [] g = 33       -> From({"originator"}, n, 1 + formatOut("BTOC", n))
    [] g = 35       -> From({"track2"}, n, 1 + formatOut("BTOC", n))
    [] g = 37       -> From({"refnum"}, 0, 12)
    [] g = 38       -> From({"authnum"}, 0, 6)
    [] g = 39       -> From({"respcode"}, 0, 2)
    [] g = 41       -> From({"termid"}, 0, 8)
    [] g = 42       -> From({"termloc"}, 0, 15)
    [] g = 43       -> From({"acceptorname"}, 0, 40)
    [] g = 44       -> From({}, 2, 1 + n)
    [] g = 45       -> From({"track2"}, n, 1 + n)
    [] OTHER        -> From({}, 0, 0)

\* The private data of an answered payment or balance: its length byte knows
\* two lengths.
AmountsOut(g, n, letter) ==
  CASE g = 48       -> From({"aval_balance", "ledger_balance", "settlement_amount",
                             "settlement_date", "fee", "dth_upd"},
                            IF letter = "C" THEN 60 ELSE 36,
                            1 + (IF letter = "D" THEN 0 ELSE 12) + 12
                              + (IF letter = "C" THEN 12 ELSE 0) + 6 + 6 + 12)
    [] g = 49       -> From({"acq_currency_code"}, 0, formatOut("BTOS", 3))
    [] g = 50       -> From({"settlement_code", "settlement_amount"}, 0, formatOut("BTOS", 3))
    [] g = 51       -> From({"iss_currency_code", "iss_conv_date"}, 0, formatOut("BTOS", 3))
    [] g = 52       -> From({"pin"}, 0, formatOut("BINARY", 8))
    [] g = 53       -> From({}, 0, 8)
    [] g = 59       -> From({"pos_geo_loc"}, n, 1 + n)
    [] g = 60       -> From({"pos_cap_code", "pos_geo_loc"}, 2, 1 + formatOut("BTOS", 2))
    [] g = 61       -> From({"cash_back"}, 12, 1 + formatOut("BTOM", 12))
    [] OTHER        -> From({}, 0, 0)

PrivateOut(g, bits) ==
  CASE g = 62       -> From({"length62"}, 0, 1 + formatOut("MOVE", 8))
    [] g = 63       -> From({"netid", "life_cycle", "revcode", "serial_1", "serial_2"},
                            1 + 3 + Parts63(bits), 1 + 3 + Parts63(bits))
    [] g = 64       -> From({"mac"}, 0, formatOut("BINARY", 8))
    [] OTHER        -> From({}, 0, 0)

SettlementOut(g) ==
  CASE g = 66         -> From({"msg500"}, 0, formatOut("BTOI", 1))
    [] g \in {68, 69}   -> From({}, 0, 2)
    [] g = 70         -> From({"netcode"}, 0, formatOut("BTOI", 3))
    [] g = 73         -> From({}, 0, 3)
    [] g = 78         -> From({"msg500"}, 0, 2 * formatOut("BTOI", 10))
    [] g \in (74 .. 81) \ {78} -> From({"msg500"}, 0, formatOut("BTOI", 10))
    [] g \in 82 .. 85 -> From({"msg500"}, 0, formatOut("BTOM", 12))
    [] g \in 86 .. 89 -> From({"msg500"}, 0, formatOut("BTOM", 16))
    [] g = 90         -> From({"origmsg"}, 0, formatOut("BTOI", 4) + 3 + 2 + 3 + 11)
    [] g = 91         -> From({}, 0, 1)
    [] g = 92         -> From({}, 0, 2)
    [] g = 93         -> From({}, 0, 5)
    [] g = 95         -> From({"aval_balance"}, 0, 12 + (42 - 12))
    [] OTHER          -> From({}, 0, 0)

\* Field 99 is written for 5xx only, field 127 for 3xx only.
FileOut(g, n) ==
  CASE g = 97       -> From({"msg500"}, 0, 1 + formatOut("CTOM", n))
    [] g = 100      -> From({"issuer"}, n, 1 + formatOut("BTOC", n))
    [] g = 102      -> From({"acctnum"}, n, 1 + n)
    [] g = 120      -> From({"origmsg"}, 1, 1 + formatOut("BTOI", 4))
    [] g = 123      -> From({"addresponse"}, n, 1 + n)
    [] g = 127      -> From({}, 0, 1)
    [] OTHER        -> From({}, 0, 0)

\* The switch of cardcoToExtern.
Out(g, n, bits, letter) ==
  CASE g \in 1 .. 12   -> CardOut(g, n)
    [] g \in 13 .. 28  -> TermsOut(g)
    [] g \in 32 .. 45  -> PartiesOut(g, n)
    [] g \in 48 .. 61  -> AmountsOut(g, n, letter)
    [] g \in 62 .. 64  -> PrivateOut(g, bits)
    [] g \in 66 .. 95  -> SettlementOut(g)
    [] g \in 97 .. 127 -> FileOut(g, n)
    [] OTHER           -> From({}, 0, 0)

-----------------------------------------------------------------------------
\* Fields the two sides lay out differently: rates (formatIn halves BTOR,
\* formatOut does not), fields that one side skips and the other leaves out, 44
\* and 97 with widths of their own, and the codes of fields 66 and 70.
Unlike == {1, 9, 10, 34, 40, 44, 54, 66, 70, 97, 99, 101, 103, 121, 122}

\* What the writer writes, the reader steps over exactly: for any length, and
\* whatever parts field 63 has (v_tonet.c:111, v_tocardco.c:112).  Of the
\* private data that is so for two of its kinds.
Readable(g, n, bits, letter) ==
  LET written == Out(g, n, bits, letter) IN
  In(g, written.len, {g}, bits).width = written.width
===============================================================================
