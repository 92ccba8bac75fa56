------------------------------ MODULE SwitchMoves ------------------------------
(***************************************************************************)
(* What the steps of the switch do to the requests in it.  Whatever a step *)
(* is called, a request comes off the line, is taken from a queue, changes *)
(* in an authoriser's hands, is passed to a queue, is sent, or is lost.    *)
(***************************************************************************)
EXTENDS SwitchInvariants

Arrives ==
  \E id \in Ids, f \in Traffic :
    /\ ~Came(id) /\ hand["from"] = Nothing
    /\ arrived' = Append(arrived, id)
    /\ hand' = [hand EXCEPT !["from"] =
         [id |-> id, form |-> f, mt |-> f.mt, rc |-> "none", raw |-> FALSE]]
    /\ UNCHANGED <<fila, decided, db, net>>

\* Each worker takes from one queue; tcpclient has no room for a struct.
Takes ==
  \E p \in Workers, q \in Queues :
    /\ LeFila(p, q)
    /\ \/ p \in Inbounds /\ q = "FORMINQ"
       \/ p \in Backends /\ q = Input(p)
       \/ p = "out" /\ q = "FORMOUTQ"
       \/ p = "to" /\ q = "DRIVERQ" /\ ~Head(fila[q]).raw
    /\ UNCHANGED <<decided, db, arrived, net>>

\* What worker p may queue on q as m.  On the way in it comes from FromNet as it
\* is, or from an inbound half for the authoriser of its form, and then is no
\* file update; on the way out it comes from an authoriser as it is, or for the
\* line from the outbound half in its answer's type, and is an approval only if
\* it was one.
Passage(p, q, m) ==
  \/ /\ q \in InQueues /\ TakesIn(p)
     /\ Ordinary(m.form) => m.mt = hand[p].mt
     /\ q = "FORMINQ" => p = "from" /\ m = hand[p]
     /\ q \in AskQueues => /\ p \in Inbounds /\ q = Backend(m.form)
                           /\ NoUpdate(m.mt) /\ (m.mt = UpdateLess10 => m.form.mt = UpdateLess10)
  \/ /\ q \in OutQueues
     /\ Approval(m) => BringsOut(p) /\ Approval(hand[p])
     /\ q = "FORMOUTQ" => p \in decided /\ m = hand[p]
     /\ ~m.raw => BringsOut(p) /\ ~hand[p].raw /\ m.mt \in {hand[p].mt, OutType(hand[p].mt)}
     /\ q = "DRIVERQ" /\ ~m.raw => p = "out"

\* A message is passed on under its own id: further in, or out.
Passes ==
  \E p \in Workers, q \in Queues, m \in Msg :
    /\ Holds(p) /\ m.id = hand[p].id /\ m.form = hand[p].form
    /\ Passage(p, q, m)
    /\ GravaFila(q, m) /\ Drop(p)
    /\ decided' = decided \ {p}
    /\ UNCHANGED <<db, arrived, net>>

\* The database decides, or the call fails before it could.
Responds ==
  \E b \in Backends \ decided, m \in Msg, r \in DbResults :
    /\ Holds(b) /\ m.id = hand[b].id /\ m.form = hand[b].form /\ m.mt = ResponseType(hand[b].mt)
    /\ hand' = [hand EXCEPT ![b] = m]
    /\ db' \in {db, [db EXCEPT ![m.id] = r]}
    /\ Approval(m) => Backs(db'[m.id], m)
    /\ decided' = decided \cup {b}
    /\ UNCHANGED <<fila, arrived, net>>

Sends ==
  /\ Holds("to")
  /\ net' = Append(net, hand["to"])
  /\ Drop("to")
  /\ UNCHANGED <<fila, decided, db, arrived>>

\* What is in some hands, or in none, is lost.
Loses ==
  /\ \A p \in Workers : hand'[p] \in {hand[p], Nothing}
  /\ decided' = {b \in decided : hand'[b] # Nothing}
  /\ UNCHANGED <<fila, db, arrived, net>>

Move == Arrives \/ Takes \/ Passes \/ Responds \/ Sends \/ Loses

-----------------------------------------------------------------------------
(* What is left of them when nothing is killed, there is room, and the     *)
(* switch has an answer for everything that comes: no request is lost,     *)
(* and none is put where nobody reads.                                     *)

CalmPasses ==
  \E p \in Workers, q \in Queues \ {"FUPDQ"}, m \in Msg :
    /\ Holds(p) /\ m.id = hand[p].id /\ m.form = hand[p].form /\ ~m.raw
    /\ q \in AskQueues => AsAsked(m)
    /\ q = "FORMOUTQ" => p \in decided /\ m = hand[p]
    /\ GravaFila(q, m) /\ Drop(p)
    /\ decided' = decided \ {p}
    /\ UNCHANGED <<arrived, net>>

CalmResponds ==
  \E b \in Backends \ decided, m \in Msg :
    /\ Holds(b) /\ m.id = hand[b].id /\ m.form = hand[b].form /\ ~m.raw
    /\ m.mt = ResponseType(hand[b].mt) /\ m.rc # "reject"
    /\ hand' = [hand EXCEPT ![b] = m]
    /\ decided' = decided \cup {b}
    /\ UNCHANGED <<fila, arrived, net>>

Rests == UNCHANGED <<fila, hand, decided, arrived, net>>

\* tcpclient goes down after a header that ended the connection, with what ToNet
\* has.
CutLoses ==
  /\ hand' = [hand EXCEPT !["to"] = Nothing]
  /\ UNCHANGED <<fila, decided, arrived, net>>

CalmKept == Arrives \/ Takes \/ CalmPasses \/ CalmResponds \/ Sends \/ Rests
CalmMove == CalmKept \/ CutLoses

\* A loss is charged to the header that was to be charged for it, and no move
\* charges a header that did not come.
Charged ==
  \/ CalmKept /\ ToCharge' - ToCharge <= cuts' - cuts
  \/ CutLoses /\ ToCharge = 1 /\ ToCharge' = 0 /\ cuts' = cuts
===============================================================================
