--------------------------- MODULE SwitchInvariants ---------------------------
(***************************************************************************)
(* Why the switch keeps its promises: where a request can be, and what is  *)
(* true of it there.  A request is in one place at a time; it is undecided *)
(* on its way in; on its way out its approval, if it carries one, is the   *)
(* database's.                                                             *)
(***************************************************************************)
EXTENDS SwitchProperties

-----------------------------------------------------------------------------
(* One place at a time. *)

Holds(p) == hand[p] # Nothing

\* Messages of one queue, of two queues, of a queue and a hand, of two hands.
QueueOnce ==
  \A q \in Queues : \A i, j \in DOMAIN fila[q] :
    fila[q][i].id = fila[q][j].id => i = j

QueuesApart ==
  \A q, r \in Queues : \A i \in DOMAIN fila[q], j \in DOMAIN fila[r] :
    fila[q][i].id = fila[r][j].id => q = r

QueueHandApart ==
  \A q \in Queues, p \in Workers : \A i \in DOMAIN fila[q] :
    Holds(p) => fila[q][i].id # hand[p].id

HandsApart ==
  \A p, w \in Workers :
    Holds(p) /\ Holds(w) /\ hand[p].id = hand[w].id => p = w

\* A request that was answered is nowhere else.
NetApart ==
  /\ \A k \in DOMAIN net, q \in Queues : \A i \in DOMAIN fila[q] : fila[q][i].id # net[k].id
  /\ \A k \in DOMAIN net, p \in Workers : Holds(p) => hand[p].id # net[k].id

\* What is in the switch, was decided or left it, came off the line.
AllCame ==
  /\ \A q \in Queues : \A i \in DOMAIN fila[q] : Came(fila[q][i].id)
  /\ \A p \in Workers : Holds(p) => Came(hand[p].id)
  /\ \A k \in DOMAIN net : Came(net[k].id)

OnePlace ==
  /\ QueueOnce /\ QueuesApart /\ QueueHandApart /\ HandsApart
  /\ NetApart /\ AnsweredOnce /\ AllCame

-----------------------------------------------------------------------------
(* On the way in, and on the way out. *)

InQueues == {"FORMINQ", "FUPDQ", "AUTHQ", "PAYBAL"}
OutQueues == {"FORMOUTQ", "DRIVERQ"}

\* Workers with a message on its way in, or on its way out.
TakesIn(p)  == p \in Inbounds \cup {"from"} \/ (p \in Backends /\ p \notin decided)
BringsOut(p) == p \in {"out", "to"} \/ p \in decided

\* Until the inbound half is done with it, a message is as the network sent it.
AsSent ==
  /\ \A i \in DOMAIN fila["FORMINQ"] : fila["FORMINQ"][i].mt = fila["FORMINQ"][i].form.mt
  /\ \A p \in Inbounds \cup {"from"} : Holds(p) => hand[p].mt = hand[p].form.mt

\* A request on its way in is undecided.
Undecided ==
  /\ \A q \in InQueues : \A i \in DOMAIN fila[q] : db[fila[q][i].id] = "none"
  /\ \A p \in Workers : Holds(p) /\ TakesIn(p) => db[hand[p].id] = "none"
  /\ \A id \in Ids : db[id] # "none" => Came(id)

\* An authoriser whose call returned holds the response, and paybal is given
\* nothing but payments.
DecidedHeld == \A b \in decided : Holds(b)

PaymentsOnly ==
  /\ \A i \in DOMAIN fila["PAYBAL"] : fila["PAYBAL"][i].form.pay
  /\ Holds("paybal") => hand["paybal"].form.pay

\* An approval on its way out is the database's.
Backed(m) == Approval(m) => Backs(db[m.id], m)

ApprovalsBacked ==
  /\ \A q \in OutQueues : \A i \in DOMAIN fila[q] : Backed(fila[q][i])
  /\ \A p \in Workers : Holds(p) /\ BringsOut(p) => Backed(hand[p])
  /\ \A k \in DOMAIN net : Backed(net[k])

-----------------------------------------------------------------------------
(* The type of a request along its way: as it was sent until an authoriser  *)
(* answers it, and the answer's from then on.                               *)

\* Neither rejected nor an answer itself.
Ordinary(f) == ~f.rej /\ ~IsResponse(f.mt)

Asks(m)  == Ordinary(m.form) => m.mt = m.form.mt
Tells(m) == Ordinary(m.form) /\ ~m.raw => m.mt = m.form.mt + 10

TypesKept ==
  /\ \A q \in InQueues : \A i \in DOMAIN fila[q] : Asks(fila[q][i])
  /\ \A p \in Workers : Holds(p) /\ TakesIn(p) => Asks(hand[p])
  /\ \A q \in OutQueues : \A i \in DOMAIN fila[q] : Tells(fila[q][i])
  /\ \A p \in Workers : Holds(p) /\ BringsOut(p) => Tells(hand[p])
  /\ Holds("to") => ~hand["to"].raw
  /\ \A k \in DOMAIN net : Tells(net[k]) /\ ~net[k].raw

-----------------------------------------------------------------------------
(* No file update among the requests for the authorisers, nor among their   *)
(* answers.                                                                  *)

AskQueues == {"AUTHQ", "PAYBAL"}

NoUpdate(mt) == mt \notin FileUpdates

\* The type whose answer would have the type of a file update.
UpdateLess10 == 292

UpdatesApart ==
  /\ \A q \in AskQueues : \A i \in DOMAIN fila[q] :
       NoUpdate(fila[q][i].mt) /\ fila[q][i].mt # UpdateLess10
  /\ \A b \in Backends \ decided :
       Holds(b) => NoUpdate(hand[b].mt) /\ hand[b].mt # UpdateLess10
  /\ \A b \in decided : NoUpdate(hand[b].mt)
  /\ NoFileUpdateOut

-----------------------------------------------------------------------------
(* The order of requests along their way.                                   *)

\* No two inbound halves have a request each.
OneReader == \A m, n \in Inbounds : Holds(m) /\ Holds(n) => m = n

\* Each authoriser is asked, and has, what is its own to answer.
RightAuthoriser ==
  \A b \in Backends :
    /\ \A i \in DOMAIN fila[Input(b)] : Backend(fila[Input(b)][i].form) = Input(b)
    /\ Holds(b) => Backend(hand[b].form) = Input(b)

\* The way of a request of form f: its answer was sent (0), and behind it are
\* hands (odd) and queues (even), from ToNet's to FromNet's.
QueueStages == {2, 4, 6, 8}
HandStages  == {1, 3, 5, 7, 9}

QueueAt(s, f) ==
  CASE s = 2 -> "DRIVERQ" [] s = 4 -> "FORMOUTQ" [] s = 6 -> Backend(f) [] s = 8 -> "FORMINQ"

HandsAt(s, f) ==
  CASE s = 1 -> {"to"}
    [] s = 3 -> {"out"}
    [] s = 5 -> {b \in Backends : Input(b) = Backend(f)}
    [] s = 7 -> Inbounds
    [] s = 9 -> {"from"}

\* Request m is the k-th at stage s.  The structs queued for the line and the
\* file updates are on no way.
At(s, k, m) ==
  \/ s = 0 /\ k \in DOMAIN net /\ m = net[k]
  \/ /\ s \in QueueStages /\ k \in DOMAIN fila[QueueAt(s, m.form)]
     /\ m = fila[QueueAt(s, m.form)][k] /\ (s = 2 => ~m.raw)
  \/ s \in HandStages /\ k = 0 /\ \E p \in HandsAt(s, m.form) : Holds(p) /\ m = hand[p]

Ahead(s, k, t, l) == s < t \/ (s = t /\ k < l)

\* One request came off the line before another.
Before(a, b) == \E i, j \in DOMAIN arrived : i < j /\ arrived[i] = a /\ arrived[j] = b

ArrivedOnce == \A i, j \in DOMAIN arrived : arrived[i] = arrived[j] => i = j

\* Of two requests for one authoriser the one ahead came first.
InOrder ==
  \A s, t \in 0 .. 9, k, l \in Nat, m, n \in Msg :
    At(s, k, m) /\ At(t, l, n) /\ m.form.pay = n.form.pay /\ Ahead(s, k, t, l)
      => Before(m.id, n.id)

OrderInv == ArrivedOnce /\ RightAuthoriser /\ InOrder

-----------------------------------------------------------------------------
(* Why no more is lost than headers that end the connection, while nothing   *)
(* is killed and there is room.                                              *)

\* Every process behind launch runs and none is told to end.
AllUp ==
  /\ alive = {child, "out", "auth", "paybal", "log"}
  /\ sig = {}

\* No struct is on its way to the line.
NoneRaw ==
  /\ \A q \in Queues : \A i \in DOMAIN fila[q] : ~fila[q][i].raw
  /\ \A p \in Workers : Holds(p) => ~hand[p].raw

\* The authorisers are asked what fmt makes of the type that came, and what they
\* tell fmt is the response to that, which it will not ignore.
AsAsked(m) == m.mt = AskedMt(m.form)
AsTold(m)  == m.mt = ResponseType(AskedMt(m.form)) /\ m.rc # "reject"

AskedTold ==
  /\ \A q \in AskQueues : \A i \in DOMAIN fila[q] : AsAsked(fila[q][i])
  /\ \A b \in Backends \ decided : Holds(b) => AsAsked(hand[b])
  /\ \A b \in decided : AsTold(hand[b])
  /\ \A i \in DOMAIN fila["FORMOUTQ"] : AsTold(fila["FORMOUTQ"][i])
  /\ Holds("out") => AsTold(hand["out"])

\* A connection that ended did so under FromNet, who has nothing then; of what
\* ToNet has, and will lose, the header that ended it is still to be charged.
HandsEmpty ==
  /\ tcp # "up" => hand["from"] = Nothing
  /\ tcp \in {"toEnds", "dead"} => hand["to"] = Nothing

ToCharge == IF tcp = "fromEnds" THEN 1 ELSE 0

LostToCuts == IsFiniteSet(Lost) /\ Cardinality(Lost) + ToCharge <= cuts

LosslessInv == AllUp /\ NoneRaw /\ AskedTold /\ HandsEmpty /\ LostToCuts

-----------------------------------------------------------------------------
\* The inductive invariant of the switch: a request is in one place at a time,
\* undecided before the authorisers and backed after them.
IInv ==
  /\ TypeOK /\ DecidedHeld /\ AsSent
  /\ OnePlace /\ Undecided /\ PaymentsOnly /\ ApprovalsBacked
===============================================================================
