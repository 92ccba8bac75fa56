--------------------------------- MODULE Codes ---------------------------------
(***************************************************************************)
(* Processing codes and response codes as the formatter translates them    *)
(* between the network and the switch (v_in.c, v_out.c), and the codes of  *)
(* cardco.h they are translated to.                                        *)
(*                                                                         *)
(* A processing code is its three pairs of digits.                         *)
(***************************************************************************)
EXTENDS Integers

Pcode(txn, from_acct, to_acct) ==
  [txn |-> txn, from_acct |-> from_acct, to_acct |-> to_acct]

Pcodes == [txn : 0 .. 99, from_acct : 0 .. 99, to_acct : 0 .. 99]

\* CARDCO_RC_* that the halves of fmt test or set; two digits and 903.
Approved         == 0
UnableToProcess  == 6
SwitchDown       == 91
SystemError      == 96
PartialDispense  == 102
RejectMessage    == 903

-----------------------------------------------------------------------------
\* Whether the reader takes the code; the transaction and account kinds it sets
\* from it are read by nobody.
extern_make_cardcopcode(pcode) ==
  /\ pcode.txn \in {0, 1, 3, 20, 28, 30, 40, 82, 84} \/ pcode.txn >= 90
  /\ pcode.from_acct \in {0, 10, 20, 30}
  /\ pcode.to_acct = 0

\* The kinds of account have the numbers of the network.
make_acct_code_out(acct) == acct

extern_make_externpcode(pcode) ==
  Pcode(CASE pcode.txn = 4  -> 3
          [] pcode.txn = 9  -> 0
          [] pcode.txn = 17 -> 1
          [] OTHER          -> pcode.txn,
        make_acct_code_out(pcode.from_acct), make_acct_code_out(pcode.to_acct))

cardcoGetProcessCode(pcode) == pcode.txn

cardcoIsPurchWithCash(pcode) == pcode.txn = 9

-----------------------------------------------------------------------------
\* Mutant of extern_externrespcode: codes that are not in the table are left to
\* the variable's first value.
extern_externrespcode_zero(rc) ==
  CASE rc = Approved -> 0
    [] rc = 2 -> 1
    [] rc \in {6, 13, 60, 80} -> 5
    [] OTHER -> 0

\* The codes an authoriser leaves, as the network has them.
extern_externrespcode(rc) ==
  CASE rc = Approved                                            -> 0
    [] rc = 2                                                   -> 1
    [] rc = 4                                                   -> 43
    [] rc = 42                                                  -> 7
    [] rc = 61                                                  -> 62
    [] rc = 67                                                  -> 4
    [] rc \in {8, 19, 30, 63, 77, 78, 87, 88, 91, 92, 93, 94}   -> 19
    [] rc \in {9, 10, 98}                                       -> 21
    [] rc \in {3, 12, 14, 41, 51, 52, 54, 55, 57, 75, 82, 96}   -> rc
    [] OTHER                                                    -> 5

\* The network's codes, as the switch has them.
extern_cardcorespcode(resp) ==
  CASE resp \in {0, 11}              -> Approved
    [] resp \in {1, 2}               -> 2
    [] resp \in {4, 7, 43}           -> 4
    [] resp \in {12, 57}             -> 12
    [] resp = 15                     -> 92
    [] resp \in {52, 53}             -> 52
    [] resp \in {55, 86}             -> 55
    [] resp = 61                     -> 60
    [] resp = 62                     -> 61
    [] resp \in {3, 5, 13, 14, 19, 41, 51, 54, 63, 75, 80, 82, 91, 96} -> resp
    [] OTHER                         -> UnableToProcess
===============================================================================
