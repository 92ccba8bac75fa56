------------------------------- MODULE MCSwitch -------------------------------
(* Message forms and sizes for model checking the switch. *)
EXTENDS SwitchInvariants, TLC

Plain(t) == [mt |-> t, ok |-> TRUE, rej |-> FALSE, echo |-> FALSE,
             atm |-> FALSE, pay |-> FALSE, bal |-> FALSE, routed |-> TRUE]

Purchase  == Plain(100)
Unrouted  == [Plain(100) EXCEPT !.routed = FALSE]
Garbled   == [Plain(100) EXCEPT !.ok = FALSE]
Payment   == [Plain(100) EXCEPT !.pay = TRUE]
Advice    == Plain(120)
Financial == Plain(200)
FileInfo  == Plain(300)
Update    == Plain(302)
Reversal  == Plain(400)
SignOn    == Plain(800)
Echo      == [Plain(800) EXCEPT !.echo = TRUE]
BalanceReversal == [Plain(400) EXCEPT !.bal = TRUE]
AuthResponse    == Plain(110)
AtmResponse     == [Plain(110) EXCEPT !.atm = TRUE]
NetResponse     == Plain(810)
RejectedForm(t) == [Plain(t) EXCEPT !.rej = TRUE]

SafetyTraffic == {Purchase, Payment}
LiveTraffic   == {Purchase, Payment, Reversal, RejectedForm(110)}
EveryForm ==
  {Purchase, Unrouted, Garbled, Payment, Advice, Financial, FileInfo, Update,
   Reversal, SignOn, Echo, BalanceReversal, AuthResponse, AtmResponse, NetResponse}
    \cup {RejectedForm(t) : t \in {100, 110, 400, 410}}

UnroutedOnly  == {Unrouted}
EchoOnly      == {Echo}
FinancialOnly == {Financial}
RejectedOnly  == {RejectedForm(110)}

Symmetry == Permutations(Ids) \cup Permutations(Inbounds)
===============================================================================
