---------------------------- MODULE SwitchService ----------------------------
(***************************************************************************)
(* What the switch is for, without its processes and queues: requests      *)
(* come in, the database decides each of them at most once and while it is *)
(* open, and each is answered at most once, an approval only on the        *)
(* database's word.  A request may stay undecided or unanswered.           *)
(***************************************************************************)
EXTENDS Sequences

CONSTANTS
  Ids,       \* the requests
  Answers,   \* the messages that may leave, each with an id
  Results,   \* what the database may decide
  Approval(_),  \* this answer approves its request
  Backs(_, _)   \* this result of the database allows that answer to approve

VARIABLES db, arrived, net

Came(id)     == \E i \in DOMAIN arrived : arrived[i] = id
Answered(id) == \E i \in DOMAIN net : net[i].id = id

Init ==
  /\ db = [id \in Ids |-> "none"]
  /\ arrived = <<>>
  /\ net = <<>>

Arrive(id) ==
  /\ ~Came(id)
  /\ arrived' = Append(arrived, id)
  /\ UNCHANGED <<db, net>>

Decide(id, r) ==
  /\ Came(id) /\ ~Answered(id)
  /\ db[id] = "none"
  /\ db' = [db EXCEPT ![id] = r]
  /\ UNCHANGED <<arrived, net>>

Answer(m) ==
  /\ m \in Answers
  /\ Came(m.id) /\ ~Answered(m.id)
  /\ Approval(m) => Backs(db[m.id], m)
  /\ net' = Append(net, m)
  /\ UNCHANGED <<db, arrived>>

\* The answer of a step is the one it adds to net; naming it there spares TLC
\* the enumeration of Answers.
Next ==
  \/ \E id \in Ids : Arrive(id) \/ \E r \in Results : Decide(id, r)
  \/ \E i \in DOMAIN net' : Answer(net'[i])

Spec == Init /\ [][Next]_<<db, arrived, net>>
===============================================================================
