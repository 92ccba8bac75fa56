------------------------------- MODULE Bitmaps --------------------------------
(***************************************************************************)
(* The bitmaps of ISO 8583 as the formatter keeps them: sixteen bytes, one *)
(* bit for each field 1 .. 128, here the set of fields that are on.        *)
(*                                                                         *)
(* isBitSet and setBitOn count bits from 1, setBitOff counts them from 0   *)
(* and from the other end of the byte.  Callers mix the two, so that often *)
(* another field is meant than the one that changes.                       *)
(***************************************************************************)
EXTENDS Integers

Field == 1 .. 128

\* The part of a message that has one bitmap only.
Primary == 1 .. 64

-----------------------------------------------------------------------------
(* v_misc.c.  Bit 0 is mask 256 of an unsigned char: never set, set in     *)
(* vain.                                                                   *)

isBitSet(b, bit) == bit \in b

setBitOn(b, bit) == b \cup ({bit} \cap Field)

\* Bit bitno % 8 from the right of byte bitno / 8.
setBitOff(b, bitno) == b \ {8 * (bitno \div 8) + (8 - (bitno % 8))}

-----------------------------------------------------------------------------
(* bitmap.c. *)

idx100p == {2, 3, 4, 7, 11, 18, 19, 22, 25, 32, 37, 41, 42, 49}
idx120p == {2, 3, 4, 7, 11, 18, 19, 22, 25, 32, 37, 38, 39, 41, 42, 43, 44, 49, 120}
idx110p == {2, 3, 4, 7, 11, 19, 25, 32, 37, 38, 39, 49}
idx130p == {2, 3, 4, 7, 11, 19, 25, 32, 37, 39, 41, 42, 49}
idx302p == {7, 11, 37, 101, 127}
idx400p == {2, 3, 4, 7, 11, 18, 19, 22, 25, 32, 37, 38, 41, 42, 49, 90}
idx420p == idx400p \cup {39}
idx410p == {2, 3, 4, 7, 11, 32, 37, 39, 49}
idx620  == {7, 11, 33, 60, 63, 100}
idx630  == {7, 11, 33, 39, 63, 100}
idx800  == {7, 37, 70}

\* The bit that says a second bitmap follows is asked for as bit 0.
make_bitmap(index) ==
  LET bitmap == UNION {setBitOn({}, f) : f \in index}
  IN  IF \E f \in index : f > 64 THEN setBitOn(bitmap, 0) ELSE bitmap

\* The table msgmap: the first entry of a type counts.
msgmap ==
  [t \in {100, 101, 120, 110, 130, 400, 401, 420, 410, 600, 610, 800, 810, 820, 302} |->
     CASE t \in {100, 101} -> idx100p
       [] t = 120          -> idx120p
       [] t = 110          -> idx110p
       [] t = 130          -> idx130p
       [] t \in {400, 401} -> idx400p
       [] t = 420          -> idx420p
       [] t = 410          -> idx410p
       [] t = 600          -> idx620
       [] t = 610          -> idx630
       [] t = 302          -> idx302p
       [] OTHER            -> idx800]

create_bitmaps == [t \in DOMAIN msgmap |-> make_bitmap(msgmap[t])]

\* A copy in a static buffer, made anew on every call.  extern_getbitmap
\* chooses among ATM, POS and both; every entry is for both.
find_bitmap(msgno) == create_bitmaps[msgno]

-----------------------------------------------------------------------------
(* v_util.c. *)

\* The list is taken for positions counted from one, and isBitSet and setBitOn
\* count from one already.
adjust_bitmap(obp, ibp, list) ==
  obp \cup UNION {setBitOn({}, b - 1) : b \in {c \in list : isBitSet(ibp, c - 1)}}

\* device_cap is never set, so the message has Track II; and with a second
\* bitmap the expiry date's bit depends on the track data.
set_pin_and_track(b, pin, expiry) ==
  LET tracked == setBitOn(b, 34)
      dated   == IF ~isBitSet(tracked, 1) THEN tracked
                 ELSE IF expiry THEN setBitOn(tracked, 13) ELSE setBitOff(tracked, 13)
  IN  IF pin THEN setBitOn(setBitOn(dated, 51), 52) ELSE dated

-----------------------------------------------------------------------------
(* What each kind of message does to its bitmap on the way out (v_out.c).  *)
(* s says what the code tests of the struct:                               *)
(*   got      the bitmap it was received with                              *)
(*   pin, termid, termloc   these members are not empty                    *)
(*   expiry   something follows the separator in the track data            *)
(*   cash     purchase with cash back                                      *)
(*   atm      merchant type 6011                                           *)
(*   partial  revcode or respcode says partial dispense                    *)
(*   length62 field 62 was received with a length                          *)

extern_externauthreq(b, s) ==
  LET b1 == set_pin_and_track(b, s.pin, s.expiry)
      b2 == IF s.cash THEN setBitOn(b1, 60) ELSE b1
      b3 == IF s.atm THEN setBitOn(b2, 42) ELSE b2
      b4 == IF s.termid THEN b3 ELSE setBitOff(b3, 40)
  IN  IF s.termloc THEN b4 ELSE setBitOff(b4, 41)

\* rc is the code extern_externrespcode left.
extern_externauthresp(b, s, rc) ==
  LET b1 == IF rc # 0 THEN setBitOff(b, 37) ELSE b
      b2 == IF s.length62 THEN setBitOn(b1, 61) ELSE b1
  IN  adjust_bitmap(b2, s.got, {23, 41, 42})

extern_externrevreq(b, s) ==
  LET b1 == set_pin_and_track(b, s.pin, s.expiry)
      b2 == IF s.partial THEN setBitOn(b1, 94) ELSE b1
      b3 == setBitOff(setBitOff(b2, 34), 44)
      b4 == IF s.termid THEN b3 ELSE setBitOff(b3, 40)
  IN  IF s.termloc THEN b4 ELSE setBitOff(b4, 41)

extern_externrevresp(b, s, rc) ==
  LET b1 == adjust_bitmap(b, s.got, {23, 41, 42})
      b2 == IF s.partial THEN setBitOn(b1, 94) ELSE b1
      b3 == IF rc = 21 THEN setBitOff(b2, 37) ELSE b2
  IN  IF s.length62 THEN setBitOn(b3, 61) ELSE b3

\* The loops of externToCardCo and cardcoToExtern: fields past the first
\* bitmap count only when bit 1 says there is a second one.
Walk(b) == {f \in b : f \in Primary \/ isBitSet(b, 1)}
===============================================================================
