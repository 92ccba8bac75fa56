------------------------------ MODULE MCExchange ------------------------------
(* Messages and sizes for model checking the contents. *)
EXTENDS ExchangeProperties, TLC

\* A purchase with a trace number but no dates, as a terminal sends it.
Purchase ==
  [mt |-> 100, rej |-> FALSE, atm |-> FALSE,
   fields |-> {2, 3, 4, 7, 11, 14, 19, 22, 25, 32, 37, 41, 42, 43, 49}, digits |-> 15,
   bin |-> "627577", pcode |-> Pcode(0, 30, 0), month |-> TRUE, terminal |-> "003",
   spf |-> FALSE, letter |-> "other", avail |-> FALSE, acquirer |-> 6, shows |-> {},
   numeric |-> TRUE, station |-> "s1", last |-> 128]

\* With field 10, whose rate the reader skips and which keeps the trace number.
Converted == [Purchase EXCEPT !.fields = @ \cup {10, 12, 13, 62}, !.bin = "606232"]

\* With track data, PIN, a second bitmap, the network id, and a card sequence
\* and a PIN capability that show in the fields before them.
Full ==
  [Purchase EXCEPT !.fields = (@ \ {14}) \cup {1, 23, 26, 35, 52, 53, 54, 60, 63, 70, 100},
                   !.digits = 19, !.acquirer = 11, !.shows = {23, 26}, !.station = "s2"]

\* A payment, and an inquiry of a kind the writer has no length for.
Payment  == [Purchase EXCEPT !.spf = TRUE, !.letter = "D", !.mt = 200]
Bill     == [Purchase EXCEPT !.spf = TRUE, !.letter = "C", !.bin = "636182", !.shows = {25},
                             !.numeric = FALSE]
Short    == [Purchase EXCEPT !.fields = {2, 3, 4, 40, 41}, !.avail = TRUE, !.digits = 0]

\* Messages that end before their fields do: after the amount, and after the
\* bitmap.
Cut      == [Purchase EXCEPT !.fields = {2, 3, 4, 37, 41}, !.last = 4]
CutCard  == [Purchase EXCEPT !.fields = {2, 3, 4}, !.last = 0, !.mt = 400]

Garbled  == [Purchase EXCEPT !.pcode = Pcode(2, 0, 0)]
Misdated == [Full EXCEPT !.fields = @ \cup {14}, !.month = FALSE]

Reversal == [Purchase EXCEPT !.mt = 400, !.fields = (@ \ {14}) \cup {1, 90}, !.terminal = "013"]
Partial  == [Reversal EXCEPT !.fields = @ \cup {95}, !.avail = TRUE]
Advised  == [Reversal EXCEPT !.mt = 420, !.bin = "999999", !.terminal = "023"]
Undone   == [Reversal EXCEPT !.pcode = Pcode(30, 0, 0)]
Advice   == [Purchase EXCEPT !.mt = 120, !.fields = @ \cup {38, 39, 44}]
Repeat   == [Purchase EXCEPT !.mt = 101]

AdviceOfTwo == [Advice EXCEPT !.fields = @ \cup {1, 100}]

Rejected(f) == [f EXCEPT !.rej = TRUE]
RejectedAnswer == Rejected([Purchase EXCEPT !.mt = 110, !.fields = (@ \ {14, 18, 42, 43}) \cup {38, 39}])

ExchangeTraffic ==
  {Purchase, Converted, Full, Payment, Bill, Short, Cut, CutCard, Garbled, Misdated, Reversal, Partial,
   Advised, Undone, Advice, Repeat, RejectedAnswer, Rejected(Purchase), Rejected(Advice),
   Rejected(AdviceOfTwo), Rejected(Reversal),
   Rejected(Repeat), Rejected(Payment)}

PurchaseOnly == {Purchase}

MCAuthIni == <<"627577", "636182", "606232">>
MCPayIni  == <<"627577", "636182", "606232">>

MCVerdicts ==
  {[rc |-> 0, num |-> TRUE, aval |-> "some"], [rc |-> 0, num |-> FALSE, aval |-> "zero"],
   [rc |-> 98, num |-> FALSE, aval |-> "kept"],
   [rc |-> 11, num |-> TRUE, aval |-> "kept"]}

MCDays == {0, 365}
MCBodies == {{}, {70, 90, 102}}
MCStart == {0, 999}
Symmetry == Permutations(Ids)
===============================================================================
