------------------------------- MODULE MsgTypes -------------------------------
(***************************************************************************)
(* The message types of the switch and what each half of the formatter     *)
(* makes of them: the predicates of cardco.h, the adjustments of           *)
(* extern_inbound and extern_cardcoreject (v_in.c), and the adjustments of *)
(* extern_outbound and cardco_to_extern (v_out.c, bitmap.c).               *)
(*                                                                         *)
(* A message off the line is known here only by its form: what the code    *)
(* tests of its contents.                                                  *)
(*   mt      message type (field 0)                                        *)
(*   ok      externToCardCo could decode it                                *)
(*   rej     the header carries the network's reject bit                   *)
(*   echo    field 70 is 301 or absent (extern_cardconetwork)              *)
(*   atm     merchant type 6011                                            *)
(*   pay     isPayBalance: payment or balance, answered by paybal          *)
(*   bal     processing code 30xxxx, a balance inquiry                     *)
(*   routed  the authoriser can find a connection for it                   *)
(***************************************************************************)
EXTENDS Integers

Forms == [mt : Nat, ok : BOOLEAN, rej : BOOLEAN, echo : BOOLEAN,
          atm : BOOLEAN, pay : BOOLEAN, bal : BOOLEAN, routed : BOOLEAN]

-----------------------------------------------------------------------------
\* cardco.h: "A response has an odd digit in the 10's position"
IsResponse(mt) == ((mt \div 10) % 10) % 2 = 1
IsReversal(mt) == mt \div 100 = 4
IsNetwork(mt)  == mt \div 100 = 8
Is03xx(mt)     == (mt \div 100) % 10 = 3

\* Mutant of FileUpdates: a request for a file update is like any other.
FileUpdateAnswers == {312}

FileUpdates == {302, 312}

-----------------------------------------------------------------------------
(* Inbound, in the order of extern_inbound. *)

\* ATM authorisation responses become financial ones.
InType(f) ==
  CASE f.mt = 110 /\ f.atm -> 210
    [] f.mt = 130 /\ f.atm -> 230
    [] OTHER               -> f.mt

\* extern_cardcoreject: a rejected message is turned into the answer, or the
\* reversal, that undoes it; every other type is thrown away.
RejectTypes == {100, 101, 120, 110, 400}

\* Mutant of RejectType: a rejected answer is taken for a reversal's answer.
RejectTypeAnswered(mt) == IF mt = 400 THEN 410 ELSE 110

RejectType(mt) ==
  CASE mt \in {100, 101, 120} -> 110
    [] mt = 110               -> 400
    [] mt = 400               -> 410

RejectCode(mt) == IF mt = 400 THEN "none" ELSE "reject"

\* The responses for which the inbound half looks up the original request in
\* the event table (extern_cardcoauthresp, extern_cardcorevresp).
LooksUpOriginal == {110, 130, 210, 230, 410}

\* A network request that the inbound half answers by itself.
IsEcho(f) == IsNetwork(f.mt) /\ ~IsResponse(f.mt) /\ f.echo

-----------------------------------------------------------------------------
(* The authorisers. *)

\* Both authorisers turn a request into its response this way.
ResponseType(mt) == mt + 10

-----------------------------------------------------------------------------
(* Outbound, in the order of extern_outbound. *)

\* Mutant of OutType: the answers are turned too.
OutTypeAll(mt) == IF mt \div 100 = 2 THEN mt - 100 ELSE mt

\* Financial requests leave as authorisation requests.
OutType(mt) ==
  CASE mt = 200 -> 100
    [] mt = 220 -> 120
    [] OTHER    -> mt

\* The types for which find_bitmap has a bitmap (table msgmap).
Mapped == {100, 101, 120, 110, 130, 400, 401, 420, 410,
           600, 610, 800, 810, 820, 302}

\* The types whose case in cardco_to_extern sets no result: the caller tests
\* an uninitialised ret.
RetUndefined == {130, 600, 610, 820}

\* The response code that leaves: extern_externrevresp sets it to zero in every
\* reversal response but the ones mapped to 21 by extern_externrespcode.
WireCode(mt, rc) ==
  IF mt = 410 /\ rc # "noreversal" THEN "approved" ELSE rc
===============================================================================
