----------------------------- MODULE ServiceProofs -----------------------------
(***************************************************************************)
(* The moves keep the inductive invariant, and the invariant gives what    *)
(* the switch promises: every answer once, every decision once, every      *)
(* approval backed, and the abstract service implemented.                  *)
(***************************************************************************)
EXTENDS SwitchProofs

-----------------------------------------------------------------------------
(* The shape of the queues after a move. *)

\* What is queued after a message was taken was queued before it, and what was
\* taken was first.
LEMMA TakeShape ==
  ASSUME TypeOK, NEW p \in Workers, NEW q \in Queues, LeFila(p, q)
  PROVE  /\ \A r \in Queues : \A i \in DOMAIN fila'[r] :
              LET j == IF r = q THEN i + 1 ELSE i
              IN  i \in Nat \ {0} /\ j \in DOMAIN fila[r] /\ fila'[r][i] = fila[r][j]
         /\ 1 \in DOMAIN fila[q] /\ hand[p] = Nothing
         /\ fila[q][1] \in Msg
         /\ \A w \in Workers : hand'[w] = IF w = p THEN fila[q][1] ELSE hand[w]
<1>1. fila[q] \in Seq(Msg) /\ fila[q] # <<>>
  BY DEF TypeOK, LeFila
<1>2. /\ 1 \in DOMAIN fila[q] /\ Head(fila[q]) = fila[q][1]
      /\ fila[q][1] \in Msg
  BY <1>1
<1>3. \A i \in DOMAIN Tail(fila[q]) :
        i \in Nat \ {0} /\ i + 1 \in DOMAIN fila[q] /\ Tail(fila[q])[i] = fila[q][i + 1]
  BY <1>1
<1>4. \A r \in Queues : fila'[r] = IF r = q THEN Tail(fila[q]) ELSE fila[r]
  BY DEF TypeOK, LeFila
<1>7. \A r \in Queues : \A i \in DOMAIN fila[r] : i \in Nat \ {0}
  BY DEF TypeOK
<1>5. \A w \in Workers : hand'[w] = IF w = p THEN fila[q][1] ELSE hand[w]
  BY <1>2 DEF TypeOK, LeFila
<1>6. hand[p] = Nothing
  BY DEF LeFila
<1> QED BY <1>2, <1>3, <1>4, <1>5, <1>6, <1>7

\* What is queued after a message was passed on was queued there before, or is
\* that message; and the worker that passed it on has nothing.
LEMMA PassShape ==
  ASSUME TypeOK, NEW p \in Workers, NEW q \in Queues, NEW m \in Msg,
         GravaFila(q, m), Drop(p)
  PROVE  /\ \A r \in Queues : \A i \in DOMAIN fila'[r] :
              \/ i \in DOMAIN fila[r] /\ fila'[r][i] = fila[r][i]
              \/ r = q /\ i = Len(fila[q]) + 1 /\ fila'[r][i] = m
         /\ \A w \in Workers : hand'[w] = IF w = p THEN Nothing ELSE hand[w]
<1>1. fila[q] \in Seq(Msg)
  BY DEF TypeOK
<1>2. \A i \in DOMAIN Append(fila[q], m) :
        \/ i \in DOMAIN fila[q] /\ Append(fila[q], m)[i] = fila[q][i]
        \/ i = Len(fila[q]) + 1 /\ Append(fila[q], m)[i] = m
  BY <1>1
<1>3. \A r \in Queues : fila'[r] = IF r = q THEN Append(fila[q], m) ELSE fila[r]
  BY DEF TypeOK, GravaFila
<1>4. \A w \in Workers : hand'[w] = IF w = p THEN Nothing ELSE hand[w]
  BY DEF TypeOK, Drop
<1> QED BY <1>2, <1>3, <1>4

\* The same of the answers sent.
LEMMA SendShape ==
  ASSUME TypeOK, Sends
  PROVE  /\ \A k \in DOMAIN net' :
              \/ k \in DOMAIN net /\ net'[k] = net[k]
              \/ k = Len(net) + 1 /\ net'[k] = hand["to"]
         /\ \A w \in Workers : hand'[w] = IF w = "to" THEN Nothing ELSE hand[w]
         /\ hand["to"] \in Msg /\ "to" \in Workers
<1>1. "to" \in Workers /\ hand["to"] \in Msg
  BY Names, HandTyped DEF Sends, Holds
<1>2. net \in Seq(Msg) /\ net' = Append(net, hand["to"])
  BY DEF TypeOK, Sends
<1>3. \A w \in Workers : hand'[w] = IF w = "to" THEN Nothing ELSE hand[w]
  BY <1>1 DEF TypeOK, Sends, Drop
<1> QED BY <1>1, <1>2, <1>3

\* A message off the line is new, no approval, and only FromNet holds it.
LEMMA ArriveShape ==
  ASSUME TypeOK, Arrives
  PROVE  \E id \in Ids, m \in Msg :
           /\ ~Came(id) /\ m.id = id /\ m.mt = m.form.mt /\ ~Approval(m) /\ hand["from"] = Nothing
           /\ \A w \in Workers : hand'[w] = IF w = "from" THEN m ELSE hand[w]
           /\ Came(id)'
           /\ \A i \in Ids : Came(i) => Came(i)'
           /\ \A i \in Ids : Came(i)' => Came(i) \/ i = id
<1>1. PICK id \in Ids, f \in Traffic :
        /\ ~Came(id) /\ hand["from"] = Nothing
        /\ arrived' = Append(arrived, id)
        /\ hand' = [hand EXCEPT !["from"] =
             [id |-> id, form |-> f, mt |-> f.mt, rc |-> "none", raw |-> FALSE]]
  BY DEF Arrives
<1> DEFINE m == [id |-> id, form |-> f, mt |-> f.mt, rc |-> "none", raw |-> FALSE]
<1>2. f.mt \in Nat
  BY SwitchAssumption DEF Forms
<1>3. m \in Msg /\ m.id = id /\ m.mt = m.form.mt /\ ~Approval(m)
  BY <1>2 DEF Msg, RespCodes, Approval
<1>4. \A w \in Workers : hand'[w] = IF w = "from" THEN m ELSE hand[w]
  BY <1>1, Names DEF TypeOK
<1> HIDE DEF m
<1>5. arrived \in Seq(Ids)
  BY DEF TypeOK
<1>6. /\ \A i \in DOMAIN arrived : i \in DOMAIN arrived' /\ arrived'[i] = arrived[i]
      /\ Len(arrived) + 1 \in DOMAIN arrived' /\ arrived'[Len(arrived) + 1] = id
      /\ \A i \in DOMAIN arrived' : (i \in DOMAIN arrived /\ arrived'[i] = arrived[i]) \/ arrived'[i] = id
  BY <1>1, <1>5
<1>7. /\ Came(id)'
      /\ \A i \in Ids : Came(i) => Came(i)'
      /\ \A i \in Ids : Came(i)' => Came(i) \/ i = id
  BY <1>6 DEF Came
<1> QED BY <1>1, <1>3, <1>4, <1>7

-----------------------------------------------------------------------------
(* One place at a time. *)

\* A message of a queue is a message, of an id.
LEMMA QueuedTyped ==
  ASSUME TypeOK, NEW q \in Queues, NEW i \in DOMAIN fila[q]
  PROVE  fila[q][i] \in Msg /\ fila[q][i].id \in Ids
<1>1. fila[q] \in Seq(Msg)
  BY DEF TypeOK
<1>2. fila[q][i] \in Msg
  BY <1>1
<1> QED BY <1>2, MsgForm

\* No request is queued twice.
LEMMA QueuesStep ==
  ASSUME TypeOK, OnePlace, Move
  PROVE  QueueOnce' /\ QueuesApart'
<1> SUFFICES ASSUME NEW q \in Queues, NEW r \in Queues,
                    NEW i \in DOMAIN fila'[q], NEW j \in DOMAIN fila'[r],
                    fila'[q][i].id = fila'[r][j].id
             PROVE  q = r /\ i = j
  BY DEF QueueOnce, QueuesApart
<1>1. CASE fila' = fila
  BY <1>1 DEF OnePlace, QueueOnce, QueuesApart
<1>2. CASE Takes
  <2>1. PICK p \in Workers, s \in Queues : LeFila(p, s)
    BY <1>2 DEF Takes
  <2> DEFINE a == IF q = s THEN i + 1 ELSE i
             b == IF r = s THEN j + 1 ELSE j
  <2>2. a \in DOMAIN fila[q] /\ b \in DOMAIN fila[r]
        /\ fila[q][a].id = fila[r][b].id
    BY <2>1, TakeShape
  <2>3. q = r /\ a = b
    BY <2>2 DEF OnePlace, QueueOnce, QueuesApart
  <2>4. i \in Nat /\ j \in Nat
    BY <2>1, TakeShape
  <2> QED BY <2>3, <2>4
<1>3. CASE Passes
  <2>1. PICK p \in Workers, s \in Queues, m \in Msg :
          Holds(p) /\ m.id = hand[p].id /\ GravaFila(s, m) /\ Drop(p)
    BY <1>3 DEF Passes
  <2> QED BY <2>1, PassShape DEF OnePlace, QueueOnce, QueuesApart, QueueHandApart
<1> QED BY <1>1, <1>2, <1>3 DEF Move, Arrives, Responds, Sends, Loses

\* No request is held twice, or held and queued.
LEMMA HandsStep ==
  ASSUME TypeOK, OnePlace, Move
  PROVE  QueueHandApart' /\ HandsApart'
<1> DEFINE Apart == QueueHandApart' /\ HandsApart'
<1>1. CASE Arrives
  <2>1. PICK id \in Ids, m \in Msg :
          /\ ~Came(id) /\ m.id = id
          /\ \A w \in Workers : hand'[w] = IF w = "from" THEN m ELSE hand[w]
    BY <1>1, ArriveShape
  <2>2. fila' = fila
    BY <1>1 DEF Arrives
  <2>3. QueueHandApart'
    BY <2>1, <2>2 DEF OnePlace, QueueHandApart, AllCame, Holds
  <2>4. HandsApart'
    BY <2>1 DEF OnePlace, HandsApart, AllCame, Holds
  <2> QED BY <2>3, <2>4
<1>2. CASE Takes
  <2>1. PICK p \in Workers, q \in Queues : LeFila(p, q)
    BY <1>2 DEF Takes
  <2>2. \A w \in Workers : hand'[w] = IF w = p THEN fila[q][1] ELSE hand[w]
    BY <2>1, TakeShape
  <2>3. ASSUME NEW r \in Queues, NEW w \in Workers, NEW i \in DOMAIN fila'[r],
               Holds(w)', fila'[r][i].id = hand'[w].id
        PROVE  FALSE
    <3> DEFINE j == IF r = q THEN i + 1 ELSE i
    <3>1. i \in DOMAIN fila'[r] /\ j \in DOMAIN fila[r] /\ fila'[r][i] = fila[r][j]
          /\ i \in Nat \ {0}
      BY <2>1, TakeShape
    <3>2. w = p
      BY <2>2, <2>3, <3>1 DEF OnePlace, QueueHandApart, Holds
    <3>3. 1 \in DOMAIN fila[q] /\ fila[q][1].id = fila[r][j].id
      BY <2>1, <2>2, <2>3, <3>1, <3>2, TakeShape
    <3>4. r = q /\ j = 1
      BY <3>1, <3>3 DEF OnePlace, QueueOnce, QueuesApart
    <3> QED BY <3>1, <3>4
  <2>4. QueueHandApart'
    BY <2>3 DEF QueueHandApart
  <2>5. HandsApart'
    BY <2>1, <2>2, TakeShape DEF OnePlace, QueueHandApart, HandsApart, Holds
  <2> QED BY <2>4, <2>5
<1>3. CASE Passes
  <2>1. PICK p \in Workers, q \in Queues, m \in Msg :
          Holds(p) /\ m.id = hand[p].id /\ GravaFila(q, m) /\ Drop(p)
    BY <1>3 DEF Passes
  <2>2. QueueHandApart'
    BY <2>1, PassShape DEF OnePlace, QueueHandApart, HandsApart, Holds
  <2>3. HandsApart'
    BY <2>1, PassShape DEF OnePlace, HandsApart, Holds
  <2> QED BY <2>2, <2>3
<1>4. CASE Responds
  <2>1. PICK b \in Backends, m \in Msg :
          Holds(b) /\ m.id = hand[b].id /\ hand' = [hand EXCEPT ![b] = m] /\ fila' = fila
    BY <1>4 DEF Responds
  <2>2. \A w \in Workers : hand'[w] = IF w = b THEN m ELSE hand[w]
    BY <2>1 DEF TypeOK
  <2>3. b \in Workers
    BY Roles
  <2>4. \A w \in Workers : Holds(w)' => Holds(w) /\ hand'[w].id = hand[w].id
    BY <2>1, <2>2, <2>3 DEF Holds
  <2> QED BY <2>1, <2>4 DEF OnePlace, QueueHandApart, HandsApart
<1>5. CASE Sends
  <2>1. \A w \in Workers : hand'[w] = IF w = "to" THEN Nothing ELSE hand[w]
    BY <1>5, SendShape
  <2> QED BY <1>5, <2>1 DEF Sends, OnePlace, QueueHandApart, HandsApart, Holds
<1>6. CASE Loses
  BY <1>6 DEF Loses, OnePlace, QueueHandApart, HandsApart, Holds
<1> QED BY <1>1, <1>2, <1>3, <1>4, <1>5, <1>6 DEF Move

\* No request is answered twice, or answered and still in the switch.
LEMMA NetStep ==
  ASSUME TypeOK, OnePlace, Move
  PROVE  NetApart' /\ AnsweredOnce'
<1>1. CASE Arrives
  <2>1. PICK id \in Ids, m \in Msg :
          /\ ~Came(id) /\ m.id = id
          /\ \A w \in Workers : hand'[w] = IF w = "from" THEN m ELSE hand[w]
    BY <1>1, ArriveShape
  <2>2. fila' = fila /\ net' = net
    BY <1>1 DEF Arrives
  <2>3. NetApart'
    BY <2>1, <2>2 DEF OnePlace, NetApart, AllCame, Holds
  <2> QED BY <2>2, <2>3 DEF OnePlace, AnsweredOnce
<1>2. CASE Takes
  <2>1. PICK p \in Workers, q \in Queues : LeFila(p, q) /\ net' = net
    BY <1>2 DEF Takes
  <2>2. \A r \in Queues : \A i \in DOMAIN fila'[r] :
          \E j \in DOMAIN fila[r] : fila'[r][i] = fila[r][j]
    BY <2>1, TakeShape
  <2>3. \A w \in Workers : hand'[w] = IF w = p THEN fila[q][1] ELSE hand[w]
    BY <2>1, TakeShape
  <2>4. 1 \in DOMAIN fila[q]
    BY <2>1, TakeShape
  <2>5. NetApart'
    BY <2>1, <2>2, <2>3, <2>4 DEF OnePlace, NetApart, Holds
  <2> QED BY <2>1, <2>5 DEF OnePlace, AnsweredOnce
<1>3. CASE Passes
  <2>1. PICK p \in Workers, q \in Queues, m \in Msg :
          Holds(p) /\ m.id = hand[p].id /\ GravaFila(q, m) /\ Drop(p) /\ net' = net
    BY <1>3 DEF Passes
  <2>2. NetApart'
    BY <2>1, PassShape DEF OnePlace, NetApart, Holds
  <2> QED BY <2>1, <2>2 DEF OnePlace, AnsweredOnce
<1>4. CASE Responds
  <2>1. PICK b \in Backends, m \in Msg :
          /\ Holds(b) /\ m.id = hand[b].id /\ hand' = [hand EXCEPT ![b] = m]
          /\ fila' = fila /\ net' = net
    BY <1>4 DEF Responds
  <2>2. \A w \in Workers : Holds(w)' => Holds(w) /\ hand'[w].id = hand[w].id
    BY <2>1, Roles DEF TypeOK, Holds
  <2> QED BY <2>1, <2>2 DEF OnePlace, NetApart, AnsweredOnce
<1>5. CASE Sends
  <2>1. \A w \in Workers : hand'[w] = IF w = "to" THEN Nothing ELSE hand[w]
    BY <1>5, SendShape
  <2>2. \A k \in DOMAIN net' :
          \/ k \in DOMAIN net /\ net'[k] = net[k]
          \/ k = Len(net) + 1 /\ net'[k] = hand["to"]
    BY <1>5, SendShape
  <2>3. Holds("to") /\ "to" \in Workers /\ fila' = fila
    BY <1>5, SendShape DEF Sends
  <2>4. NetApart'
    BY <2>1, <2>2, <2>3 DEF OnePlace, NetApart, QueueHandApart, HandsApart, Holds
  <2>5. AnsweredOnce'
    BY <2>2, <2>3 DEF OnePlace, NetApart, AnsweredOnce
  <2> QED BY <2>4, <2>5
<1>6. CASE Loses
  BY <1>6 DEF Loses, OnePlace, NetApart, AnsweredOnce, Holds
<1> QED BY <1>1, <1>2, <1>3, <1>4, <1>5, <1>6 DEF Move

\* The requests that came off the line stay on record.
LEMMA CameKept ==
  ASSUME TypeOK, Move
  PROVE  \A id \in Ids : Came(id) => Came(id)'
<1>1. CASE Arrives
  BY <1>1, ArriveShape
<1>2. CASE arrived' = arrived
  BY <1>2 DEF Came
<1> QED BY <1>1, <1>2 DEF Move, Takes, Passes, Responds, Sends, Loses

\* Nothing is in the switch, or leaves it, that did not come off the line.
LEMMA CameStep ==
  ASSUME TypeOK, OnePlace, Move
  PROVE  AllCame'
<1> DEFINE Now == {arrived'[i] : i \in DOMAIN arrived'}
<1>0. \A id \in Ids : Came(id)' <=> id \in Now
  BY DEF Came
<1> HIDE DEF Now
<1>1. /\ \A q \in Queues : \A i \in DOMAIN fila[q] : fila[q][i].id \in Ids
      /\ \A w \in Workers : Holds(w) => hand[w].id \in Ids
      /\ \A k \in DOMAIN net : net[k].id \in Ids
  BY QueuedTyped, HandTyped, MsgForm DEF TypeOK, Holds
<1>2. /\ \A q \in Queues : \A i \in DOMAIN fila[q] : fila[q][i].id \in Now
      /\ \A w \in Workers : Holds(w) => hand[w].id \in Now
      /\ \A k \in DOMAIN net : net[k].id \in Now
  BY <1>0, <1>1, CameKept DEF OnePlace, AllCame
<1> SUFFICES /\ \A q \in Queues : \A i \in DOMAIN fila'[q] : fila'[q][i].id \in Now
             /\ \A w \in Workers : hand'[w] # Nothing => hand'[w].id \in Now
             /\ \A k \in DOMAIN net' : net'[k].id \in Now
  BY DEF AllCame, Came, Holds, Now
<1>3. CASE Arrives
  <2>1. PICK id \in Ids, m \in Msg :
          /\ m.id = id /\ id \in Now
          /\ \A w \in Workers : hand'[w] = IF w = "from" THEN m ELSE hand[w]
    BY <1>0, <1>3, ArriveShape
  <2> QED BY <1>2, <1>3, <2>1 DEF Arrives, Holds
<1>4. CASE Takes
  <2>1. PICK p \in Workers, q \in Queues : LeFila(p, q) /\ net' = net
    BY <1>4 DEF Takes
  <2> QED BY <1>2, <2>1, TakeShape DEF Holds
<1>5. CASE Passes
  <2>1. PICK p \in Workers, q \in Queues, m \in Msg :
          Holds(p) /\ m.id = hand[p].id /\ GravaFila(q, m) /\ Drop(p) /\ net' = net
    BY <1>5 DEF Passes
  <2> QED BY <1>2, <2>1, PassShape DEF Holds
<1>6. CASE Responds
  <2>1. PICK b \in Backends, m \in Msg :
          /\ Holds(b) /\ m.id = hand[b].id /\ hand' = [hand EXCEPT ![b] = m]
          /\ fila' = fila /\ net' = net
    BY <1>6 DEF Responds
  <2>2. \A w \in Workers : Holds(w)' => Holds(w) /\ hand'[w].id = hand[w].id
    BY <2>1, Roles DEF TypeOK, Holds
  <2> QED BY <1>2, <2>1, <2>2 DEF Holds
<1>7. CASE Sends
  <2>1. fila' = fila /\ Holds("to")
    BY <1>7 DEF Sends
  <2> QED BY <1>2, <1>7, <2>1, SendShape DEF Holds
<1>8. CASE Loses
  BY <1>2, <1>8 DEF Loses, Holds
<1> QED BY <1>3, <1>4, <1>5, <1>6, <1>7, <1>8 DEF Move

\* A request stays in one place.
LEMMA OnePlaceStep ==
  ASSUME TypeOK, OnePlace, Move
  PROVE  OnePlace'
BY QueuesStep, HandsStep, NetStep, CameStep DEF OnePlace

-----------------------------------------------------------------------------
(* Held, as sent, and for paybal only payments. *)

\* A decided authoriser holds the response.
LEMMA HeldStep ==
  ASSUME TypeOK, DecidedHeld, Move
  PROVE  DecidedHeld'
<1>0. decided \subseteq Backends /\ Backends \subseteq Workers /\ "to" \notin Backends
      /\ "from" \notin Backends
  BY Roles DEF TypeOK
<1>1. CASE Arrives
  <2>1. \A w \in Workers \ {"from"} : hand'[w] = hand[w]
    BY <1>1, ArriveShape
  <2> QED BY <1>0, <1>1, <2>1 DEF Arrives, DecidedHeld, Holds
<1>2. CASE Takes
  <2>1. PICK p \in Workers, q \in Queues : LeFila(p, q) /\ decided' = decided
    BY <1>2 DEF Takes
  <2> QED BY <1>0, <2>1, TakeShape DEF DecidedHeld, Holds
<1>3. CASE Passes
  <2>1. PICK p \in Workers, q \in Queues, m \in Msg :
          GravaFila(q, m) /\ Drop(p) /\ decided' = decided \ {p}
    BY <1>3 DEF Passes
  <2> QED BY <1>0, <2>1, PassShape DEF DecidedHeld, Holds
<1>4. CASE Responds
  <2>1. PICK b \in Backends, m \in Msg :
          hand' = [hand EXCEPT ![b] = m] /\ decided' = decided \cup {b}
    BY <1>4 DEF Responds
  <2> QED BY <1>0, <2>1, NothingIsNoMessage DEF TypeOK, DecidedHeld, Holds
<1>5. CASE Sends
  BY <1>0, <1>5, SendShape DEF Sends, DecidedHeld, Holds
<1>6. CASE Loses
  BY <1>6 DEF Loses, DecidedHeld, Holds
<1> QED BY <1>1, <1>2, <1>3, <1>4, <1>5, <1>6 DEF Move

\* No queue leads both in and out.
LEMMA Roads ==
  /\ InQueues \cup OutQueues = Queues
  /\ \A q \in OutQueues : q \notin InQueues /\ q # "FORMINQ" /\ q # "PAYBAL"
  /\ \A q \in InQueues : q \notin OutQueues
BY DEF InQueues, OutQueues, Queues

\* Messages reach the inbound half as they were sent.
LEMMA AsSentStep ==
  ASSUME TypeOK, AsSent, Move
  PROVE  AsSent'
<1> DEFINE First == Inbounds \cup {"from"}
<1>0. /\ "FORMINQ" \in Queues /\ First \subseteq Workers
      /\ First \cap (Backends \cup {"out", "to"}) = {}
  BY Names, SwitchAssumption DEF Backends
<1>1. CASE Arrives
  BY <1>0, <1>1, ArriveShape DEF Arrives, AsSent, Holds
<1>2. CASE Takes
  <2>1. PICK p \in Workers, q \in Queues :
          LeFila(p, q) /\ (p \in First => q = "FORMINQ")
    BY <1>0, <1>2 DEF Takes
  <2> HIDE DEF First
  <2>2. \A i \in DOMAIN fila'["FORMINQ"] :
          \E j \in DOMAIN fila["FORMINQ"] : fila'["FORMINQ"][i] = fila["FORMINQ"][j]
    BY <1>0, <2>1, TakeShape
  <2>3. 1 \in DOMAIN fila[q] /\ \A w \in Workers :
          hand'[w] = IF w = p THEN fila[q][1] ELSE hand[w]
    BY <2>1, TakeShape
  <2>4. ASSUME NEW w \in First, Holds(w)' PROVE hand'[w].mt = hand'[w].form.mt
    BY <1>0, <2>1, <2>3, <2>4 DEF AsSent, Holds, First
  <2> QED BY <2>2, <2>4 DEF AsSent, First
<1>3. CASE Passes
  <2>1. PICK p \in Workers, q \in Queues, m \in Msg :
          /\ Holds(p) /\ GravaFila(q, m) /\ Drop(p)
          /\ q = "FORMINQ" => p = "from" /\ m = hand[p]
    BY <1>3, Roads DEF Passes, Passage
  <2> QED BY <1>0, <2>1, PassShape DEF AsSent, Holds
<1>4. CASE Responds
  <2>1. fila' = fila /\ \A w \in First : hand'[w] = hand[w]
    BY <1>0, <1>4 DEF Responds, TypeOK
  <2> QED BY <2>1 DEF AsSent, Holds
<1>5. CASE Sends
  <2>1. fila' = fila /\ \A w \in First : hand'[w] = hand[w]
    BY <1>0, <1>5, SendShape DEF Sends
  <2> QED BY <2>1 DEF AsSent, Holds
<1>6. CASE Loses
  BY <1>0, <1>6 DEF Loses, AsSent, Holds
<1> QED BY <1>1, <1>2, <1>3, <1>4, <1>5, <1>6 DEF Move

\* paybal is given payments and no more.
LEMMA PaymentsStep ==
  ASSUME TypeOK, PaymentsOnly, Move
  PROVE  PaymentsOnly'
<1>0. "PAYBAL" \in Queues /\ "paybal" \in Workers
  BY Names
<1>1. CASE Arrives
  BY <1>0, <1>1, ArriveShape DEF Arrives, PaymentsOnly, Holds
<1>2. CASE Takes
  <2>1. PICK p \in Workers, q \in Queues :
          LeFila(p, q) /\ (p = "paybal" => q = "PAYBAL")
    BY <1>2, SwitchAssumption, Roles DEF Takes, Input
  <2>2. \A i \in DOMAIN fila'["PAYBAL"] :
          \E j \in DOMAIN fila["PAYBAL"] : fila'["PAYBAL"][i] = fila["PAYBAL"][j]
    BY <1>0, <2>1, TakeShape
  <2> QED BY <1>0, <2>1, <2>2, TakeShape DEF PaymentsOnly, Holds
<1>3. CASE Passes
  <2>1. PICK p \in Workers, q \in Queues, m \in Msg :
          GravaFila(q, m) /\ Drop(p) /\ (q = "PAYBAL" => m.form.pay)
    BY <1>3, Roads DEF Passes, Passage, AskQueues, Backend
  <2> QED BY <1>0, <2>1, PassShape DEF PaymentsOnly, Holds
<1>4. CASE Responds
  <2>1. PICK b \in Backends, m \in Msg :
          Holds(b) /\ m.form = hand[b].form /\ hand' = [hand EXCEPT ![b] = m] /\ fila' = fila
    BY <1>4 DEF Responds
  <2> QED BY <1>0, <2>1 DEF TypeOK, PaymentsOnly, Holds
<1>5. CASE Sends
  BY <1>0, <1>5, SendShape DEF Sends, PaymentsOnly, Holds
<1>6. CASE Loses
  BY <1>0, <1>6 DEF Loses, PaymentsOnly, Holds
<1> QED BY <1>1, <1>2, <1>3, <1>4, <1>5, <1>6 DEF Move

-----------------------------------------------------------------------------
(* Undecided on the way in. *)

\* No request is decided before an authoriser has it, and none comes back
\* to one after.
LEMMA UndecidedStep ==
  ASSUME TypeOK, DecidedHeld, OnePlace, Undecided, Move
  PROVE  Undecided'
<1>0. /\ InQueues \subseteq Queues
      /\ \A p \in Workers : TakesIn(p) => p \notin {"out", "to"}
      /\ \A p \in Workers : TakesIn(p)' => p \notin {"out", "to"}
      /\ decided' \subseteq decided => \A b \in Backends \ decided : TakesIn(b)
  BY Roads, SwitchAssumption DEF TakesIn, Backends
<1>1. ASSUME NEW id \in Ids, db'[id] = db[id], db'[id] # "none" PROVE Came(id)'
  BY <1>1, CameKept DEF Undecided
<1> DEFINE QueuesIn == \A q \in InQueues : \A i \in DOMAIN fila'[q] : db'[fila'[q][i].id] = "none"
           HandsIn  == \A p \in Workers : hand'[p] # Nothing /\ TakesIn(p)' => db'[hand'[p].id] = "none"
<1>2. ASSUME db' = db, QueuesIn, HandsIn PROVE Undecided'
  BY <1>1, <1>2 DEF Undecided, Holds
<1>3. CASE Arrives
  <2>1. PICK id \in Ids, m \in Msg :
          /\ ~Came(id) /\ m.id = id
          /\ \A w \in Workers : hand'[w] = IF w = "from" THEN m ELSE hand[w]
    BY <1>3, ArriveShape
  <2>2. db[id] = "none"
    BY <2>1 DEF Undecided
  <2>3. fila' = fila /\ db' = db /\ decided' = decided
    BY <1>3 DEF Arrives
  <2> QED BY <1>2, <2>1, <2>2, <2>3 DEF Undecided, Holds, TakesIn
<1>4. CASE Takes
  <2>1. PICK p \in Workers, q \in Queues :
          /\ LeFila(p, q) /\ UNCHANGED <<decided, db>>
          /\ q \in InQueues \/ p \in {"out", "to"}
    BY <1>4 DEF Takes, InQueues, Input
  <2>2. QueuesIn
    BY <1>0, <2>1, TakeShape DEF Undecided
  <2>3. 1 \in DOMAIN fila[q] /\ \A w \in Workers :
          hand'[w] = IF w = p THEN fila[q][1] ELSE hand[w]
    BY <2>1, TakeShape
  <2>4. \A w \in Workers : TakesIn(w)' = TakesIn(w)
    BY <2>1 DEF TakesIn
  <2>5. HandsIn
    BY <1>0, <2>1, <2>3, <2>4 DEF Undecided, Holds
  <2> QED BY <1>2, <2>1, <2>2, <2>5
<1>5. CASE Passes
  <2>1. PICK p \in Workers, q \in Queues, m \in Msg :
          /\ Holds(p) /\ m.id = hand[p].id /\ GravaFila(q, m) /\ Drop(p)
          /\ q \in InQueues => TakesIn(p)
          /\ decided' = decided \ {p} /\ db' = db
    BY <1>5, Roads DEF Passes, Passage
  <2>2. QueuesIn
    BY <1>0, <2>1, PassShape DEF Undecided, Holds
  <2>3. \A w \in Workers : hand'[w] = IF w = p THEN Nothing ELSE hand[w]
    BY <2>1, PassShape
  <2>4. \A w \in Workers \ {p} : TakesIn(w)' = TakesIn(w)
    BY <2>1 DEF TakesIn
  <2>5. HandsIn
    BY <2>1, <2>3, <2>4 DEF Undecided, Holds
  <2> QED BY <1>2, <2>1, <2>2, <2>5
<1>6. CASE Responds
  <2>1. PICK b \in Backends \ decided, m \in Msg, r \in DbResults :
          /\ Holds(b) /\ m.id = hand[b].id /\ hand' = [hand EXCEPT ![b] = m]
          /\ db' \in {db, [db EXCEPT ![m.id] = r]}
          /\ decided' = decided \cup {b} /\ fila' = fila
    BY <1>6 DEF Responds
  <2>2. b \in Workers /\ m.id \in Ids
    BY <2>1, Roles, MsgForm
  <2>3. \A id \in Ids \ {m.id} : db'[id] = db[id]
    BY <2>1 DEF TypeOK
  <2>4. QueuesIn
    BY <1>0, <2>1, <2>2, <2>3, QueuedTyped DEF OnePlace, QueueHandApart, Undecided
  <2>5. \A w \in Workers \ {b} : hand'[w] = hand[w] /\ (TakesIn(w)' => TakesIn(w))
    BY <2>1 DEF TypeOK, TakesIn
  <2>6. ~TakesIn(b)'
    BY <2>1, Roles, SwitchAssumption DEF TakesIn, Backends
  <2>7. ASSUME NEW w \in Workers, hand'[w] # Nothing, TakesIn(w)'
        PROVE  db'[hand'[w].id] = "none"
    <3>1. w # b /\ Holds(w) /\ TakesIn(w) /\ hand'[w] = hand[w]
      BY <2>5, <2>6, <2>7 DEF Holds
    <3>2. hand[w].id # m.id /\ hand[w].id \in Ids
      BY <2>1, <2>2, <3>1, HandTyped, MsgForm DEF OnePlace, HandsApart, Holds
    <3> QED BY <2>3, <3>1, <3>2 DEF Undecided
  <2>8. ASSUME NEW id \in Ids, db'[id] # "none" PROVE Came(id)'
    <3>1. CASE id = m.id
      BY <2>1, <2>2, <3>1, CameKept DEF OnePlace, AllCame
    <3> QED BY <1>1, <2>3, <2>8, <3>1
  <2> QED BY <2>4, <2>7, <2>8 DEF Undecided, Holds
<1>7. CASE Sends
  <2>1. fila' = fila /\ db' = db /\ decided' = decided
    BY <1>7 DEF Sends
  <2>2. \A w \in Workers : hand'[w] = IF w = "to" THEN Nothing ELSE hand[w]
    BY <1>7, SendShape
  <2> QED BY <1>2, <2>1, <2>2 DEF Undecided, Holds, TakesIn
<1>8. CASE Loses
  <2>1. fila' = fila /\ db' = db
    BY <1>8 DEF Loses
  <2>2. \A w \in Workers : hand'[w] # Nothing =>
          hand'[w] = hand[w] /\ (TakesIn(w)' => TakesIn(w))
    BY <1>8 DEF Loses, TakesIn
  <2> QED BY <1>2, <2>1, <2>2 DEF Undecided, Holds
<1> QED BY <1>3, <1>4, <1>5, <1>6, <1>7, <1>8 DEF Move

-----------------------------------------------------------------------------
(* Backed on the way out. *)

\* Approvals on their way out stay the database's.
LEMMA BackedStep ==
  ASSUME TypeOK, DecidedHeld, OnePlace, ApprovalsBacked, Move
  PROVE  ApprovalsBacked'
<1> DEFINE Fine(m) == Approval(m) => Backs(db'[m.id], m)
           QueuesOut == \A q \in OutQueues : \A i \in DOMAIN fila'[q] : Fine(fila'[q][i])
           HandsOut  == \A p \in Workers : hand'[p] # Nothing /\ BringsOut(p)' => Fine(hand'[p])
           NetOut    == \A k \in DOMAIN net' : Fine(net'[k])
<1>0. OutQueues \subseteq Queues
  BY Roads
<1>1. ASSUME QueuesOut, HandsOut, NetOut PROVE ApprovalsBacked'
  BY <1>1 DEF ApprovalsBacked, Backed, Approval, Backs, Holds
<1>2. CASE Arrives
  <2>1. PICK m \in Msg : ~Approval(m)
          /\ \A w \in Workers : hand'[w] = IF w = "from" THEN m ELSE hand[w]
    BY <1>2, ArriveShape
  <2>2. fila' = fila /\ db' = db /\ decided' = decided /\ net' = net
    BY <1>2 DEF Arrives
  <2> QED BY <1>1, <2>1, <2>2 DEF ApprovalsBacked, Backed, Holds, BringsOut
<1>3. CASE Takes
  <2>1. PICK p \in Workers, q \in Queues :
          /\ LeFila(p, q) /\ UNCHANGED <<decided, db, net>>
          /\ q \in OutQueues \/ p \notin {"out", "to"}
    BY <1>3, SwitchAssumption DEF Takes, OutQueues, Backends, Input
  <2>2. QueuesOut
    BY <1>0, <2>1, TakeShape DEF ApprovalsBacked, Backed
  <2>3. /\ 1 \in DOMAIN fila[q] /\ hand[p] = Nothing
        /\ \A w \in Workers : hand'[w] = IF w = p THEN fila[q][1] ELSE hand[w]
    BY <2>1, TakeShape
  <2>4. BringsOut(p)' => p \in {"out", "to"}
    BY <2>1, <2>3 DEF BringsOut, DecidedHeld, Holds
  <2>5. \A w \in Workers : BringsOut(w)' => BringsOut(w)
    BY <2>1 DEF BringsOut
  <2>6. HandsOut
    BY <2>1, <2>3, <2>4, <2>5 DEF ApprovalsBacked, Backed, Holds
  <2>7. NetOut
    BY <2>1 DEF ApprovalsBacked, Backed
  <2> QED BY <1>1, <2>2, <2>6, <2>7
<1>4. CASE Passes
  <2>1. PICK p \in Workers, q \in Queues, m \in Msg :
          /\ Holds(p) /\ m.id = hand[p].id /\ GravaFila(q, m) /\ Drop(p)
          /\ q \in OutQueues =>
               (Approval(m) => BringsOut(p) /\ Approval(hand[p]) /\ m.form = hand[p].form)
          /\ decided' = decided \ {p} /\ UNCHANGED <<db, net>>
    BY <1>4, Roads DEF Passes, Passage
  <2>2. q \in OutQueues => Fine(m)
    BY <2>1 DEF ApprovalsBacked, Backed, Backs
  <2>3. QueuesOut
    BY <1>0, <2>1, <2>2, PassShape DEF ApprovalsBacked, Backed
  <2>4. HandsOut
    BY <2>1, PassShape DEF ApprovalsBacked, Backed, BringsOut, Holds
  <2>5. NetOut
    BY <2>1 DEF ApprovalsBacked, Backed
  <2> QED BY <1>1, <2>3, <2>4, <2>5
<1>5. CASE Responds
  <2>1. PICK b \in Backends \ decided, m \in Msg, r \in DbResults :
          /\ Holds(b) /\ m.id = hand[b].id /\ hand' = [hand EXCEPT ![b] = m]
          /\ db' \in {db, [db EXCEPT ![m.id] = r]}
          /\ Fine(m)
          /\ decided' = decided \cup {b} /\ UNCHANGED <<fila, net>>
    BY <1>5 DEF Responds
  <2>2. b \in Workers /\ m.id \in Ids
    BY <2>1, Roles, MsgForm
  <2>3. \A id \in Ids \ {m.id} : db'[id] = db[id]
    BY <2>1 DEF TypeOK
  <2>4. QueuesOut
    BY <1>0, <2>1, <2>2, <2>3, QueuedTyped
    DEF OnePlace, QueueHandApart, ApprovalsBacked, Backed
  <2>5. \A w \in Workers :
          /\ hand'[w] = IF w = b THEN m ELSE hand[w]
          /\ w # b /\ BringsOut(w)' => BringsOut(w)
    BY <2>1 DEF TypeOK, BringsOut
  <2>6. ASSUME NEW w \in Workers, hand'[w] # Nothing, BringsOut(w)' PROVE Fine(hand'[w])
    <3>1. CASE w = b
      BY <2>1, <2>5, <3>1
    <3>2. CASE w # b
      <4>1. Holds(w) /\ BringsOut(w) /\ hand'[w] = hand[w]
        BY <2>5, <2>6, <3>2 DEF Holds
      <4>2. hand[w].id # m.id /\ hand[w].id \in Ids
        BY <2>1, <2>2, <3>2, <4>1, HandTyped, MsgForm DEF OnePlace, HandsApart, Holds
      <4> QED BY <2>3, <4>1, <4>2 DEF ApprovalsBacked, Backed
    <3> QED BY <3>1, <3>2
  <2>7. \A k \in DOMAIN net : net[k].id # m.id /\ net[k].id \in Ids
    BY <2>1, <2>2, MsgForm DEF OnePlace, NetApart, TypeOK
  <2>8. NetOut
    BY <2>1, <2>3, <2>7 DEF ApprovalsBacked, Backed
  <2> QED BY <1>1, <2>4, <2>6, <2>8
<1>6. CASE Sends
  <2>1. /\ UNCHANGED <<fila, db, decided>> /\ Holds("to")
        /\ "to" \in Workers /\ BringsOut("to")
    BY <1>6, SendShape DEF Sends, BringsOut
  <2>2. QueuesOut
    BY <2>1 DEF ApprovalsBacked, Backed
  <2>3. HandsOut
    BY <1>6, <2>1, SendShape DEF ApprovalsBacked, Backed, BringsOut, Holds
  <2>4. NetOut
    BY <1>6, <2>1, SendShape DEF ApprovalsBacked, Backed
  <2> QED BY <1>1, <2>2, <2>3, <2>4
<1>7. CASE Loses
  <2>1. UNCHANGED <<fila, db, net>>
    BY <1>7 DEF Loses
  <2>2. \A w \in Workers : hand'[w] # Nothing =>
          hand'[w] = hand[w] /\ (BringsOut(w)' => BringsOut(w))
    BY <1>7 DEF Loses, BringsOut
  <2> QED BY <1>1, <2>1, <2>2 DEF ApprovalsBacked, Backed, Holds
<1> QED BY <1>2, <1>3, <1>4, <1>5, <1>6, <1>7 DEF Move

-----------------------------------------------------------------------------
(* The invariant. *)

\* The switch starts in the invariant.
LEMMA InitInv == Init => IInv
<1> SUFFICES ASSUME Init PROVE IInv
  OBVIOUS
<1>1. TypeOK
  BY InitTyped
<1>2. /\ \A q \in Queues : fila[q] = <<>>
      /\ \A p \in Workers : hand[p] = Nothing
      /\ decided = {} /\ net = <<>> /\ \A id \in Ids : db[id] = "none"
  BY DEF Init
<1>3. \A q \in Queues : DOMAIN fila[q] = {}
  BY <1>2
<1>4. DOMAIN net = {}
  BY <1>2
<1>5. DecidedHeld /\ AsSent /\ PaymentsOnly
  BY <1>2, <1>3, Names DEF DecidedHeld, AsSent, PaymentsOnly, Holds
<1>6. OnePlace
  BY <1>2, <1>3, <1>4
  DEF OnePlace, QueueOnce, QueuesApart, QueueHandApart, HandsApart, NetApart,
      AnsweredOnce, AllCame, Holds
<1>7. Undecided /\ ApprovalsBacked
  BY <1>2, <1>3, <1>4, Roads DEF Undecided, ApprovalsBacked, Holds
<1> QED BY <1>1, <1>5, <1>6, <1>7 DEF IInv

\* Every step keeps it.
LEMMA StepInv == IInv /\ [Next]_vars => IInv'
<1> SUFFICES ASSUME IInv, [Next]_vars PROVE IInv'
  OBVIOUS
<1>1. TypeOK'
  BY StepTyped DEF IInv
<1>2. Move
  BY StepMoves DEF IInv
<1> QED
  BY <1>1, <1>2, HeldStep, AsSentStep, OnePlaceStep, UndecidedStep, PaymentsStep, BackedStep
  DEF IInv

\* The inductive invariant: a request is in one place at a time, undecided on
\* its way in, and backed on its way out.
THEOREM Invariance == Spec => []IInv
BY InitInv, StepInv, PTL DEF Spec

\* Every variable keeps its type.
THEOREM TypeCorrect == Spec => []TypeOK
BY Invariance, PTL DEF IInv

\* No request is answered twice, whatever is killed and restarted, with any
\* number of inbound halves left running beside one another.
THEOREM AnswersOnce == Spec => []AnsweredOnce
BY Invariance, PTL DEF IInv, OnePlace

\* No approval leaves but the database's.
THEOREM ApprovesBacked == Spec => []ApprovalBacked
<1>1. IInv => ApprovalBacked
  BY DEF IInv, ApprovalsBacked, Backed, ApprovalBacked
<1> QED BY <1>1, Invariance, PTL

-----------------------------------------------------------------------------
(* The abstract service. *)

\* The database decides no request twice, whichever authoriser dies after the
\* call and is started again.
THEOREM DecidesOnce == Spec => DecidedOnce
<1>1. ASSUME IInv, [Next]_vars, NEW id \in Ids, db[id] # "none"
      PROVE  db'[id] = db[id]
  <2>1. CASE db' = db
    BY <2>1
  <2>2. CASE Responds
    <3>1. PICK b \in Backends \ decided, m \in Msg, r \in DbResults :
            Holds(b) /\ m.id = hand[b].id /\ db' \in {db, [db EXCEPT ![m.id] = r]}
      BY <2>2 DEF Responds
    <3>2. db[m.id] = "none"
      BY <1>1, <3>1, Roles DEF IInv, Undecided, TakesIn
    <3> QED BY <1>1, <3>1, <3>2 DEF IInv, TypeOK
  <2>3. Move
    BY <1>1, StepMoves DEF IInv
  <2> QED BY <2>1, <2>2, <2>3 DEF Move, Arrives, Takes, Passes, Sends, Loses
<1>2. IInv /\ [Next]_vars =>
        [\A id \in Ids : db[id] # "none" => db'[id] = db[id]]_vars
  BY <1>1
<1> QED BY <1>2, Invariance, PTL DEF Spec, DecidedOnce

\* The switch starts where the service does.
LEMMA InitService == Init => Service!Init
BY DEF Init, Service!Init

\* Every step of the switch is a step of the service, or none.
LEMMA StepService ==
  ASSUME IInv, [Next]_vars
  PROVE  [Service!Next]_<<db, arrived, net>>
<1>0. Move /\ TypeOK
  BY StepMoves DEF IInv
<1>1. \A id : Service!Came(id) <=> Came(id)
  BY DEF Service!Came, Came
<1>2. CASE UNCHANGED <<db, arrived, net>>
  BY <1>2
<1>3. CASE Arrives
  <2>1. PICK id \in Ids : ~Came(id) /\ arrived' = Append(arrived, id)
    BY <1>3 DEF Arrives
  <2>2. Service!Arrive(id)
    BY <1>1, <1>3, <2>1 DEF Arrives, Service!Arrive
  <2> QED BY <2>2 DEF Service!Next
<1>4. CASE Responds
  <2>1. PICK b \in Backends \ decided, m \in Msg, r \in DbResults :
          /\ Holds(b) /\ m.id = hand[b].id /\ db' \in {db, [db EXCEPT ![m.id] = r]}
          /\ UNCHANGED <<arrived, net>>
    BY <1>4 DEF Responds
  <2>2. b \in Workers /\ TakesIn(b) /\ m.id \in Ids
    BY <2>1, Roles, MsgForm DEF TakesIn
  <2>3. db[m.id] = "none" /\ Came(m.id) /\ ~Service!Answered(m.id)
    BY <2>1, <2>2 DEF IInv, Undecided, OnePlace, AllCame, NetApart, Service!Answered
  <2>4. CASE db' = [db EXCEPT ![m.id] = r]
    BY <1>1, <2>1, <2>2, <2>3, <2>4 DEF Service!Decide, Service!Next
  <2> QED BY <1>2, <2>1, <2>4
<1>5. CASE Sends
  <2> DEFINE m == hand["to"]
             k == Len(net) + 1
  <2>1. m \in Msg /\ "to" \in Workers /\ Holds("to")
    BY <1>0, <1>5, SendShape DEF Sends
  <2>2. net' = Append(net, m) /\ net \in Seq(Msg) /\ UNCHANGED <<db, arrived>>
    BY <1>0, <1>5 DEF Sends, TypeOK
  <2>3. Came(m.id) /\ ~Service!Answered(m.id)
    BY <2>1 DEF IInv, OnePlace, AllCame, NetApart, Service!Answered
  <2>4. Approval(m) => Backs(db[m.id], m)
    BY <2>1 DEF IInv, ApprovalsBacked, Backed, BringsOut
  <2> HIDE DEF m
  <2>5. Service!Answer(m)
    BY <1>1, <2>1, <2>2, <2>3, <2>4 DEF Service!Answer
  <2>6. k \in DOMAIN net' /\ net'[k] = m
    BY <2>2
  <2> QED BY <2>5, <2>6 DEF Service!Next
<1> QED BY <1>0, <1>2, <1>3, <1>4, <1>5 DEF Move, Takes, Passes, Loses

\* The processes of the switch implement the abstract service.
THEOREM Implements == Spec => ImplementsService
BY InitService, StepService, Invariance, PTL DEF Spec, ImplementsService, Service!Spec
================================================================================
