----------------------------- MODULE AnswerProofs -----------------------------
(***************************************************************************)
(* The moves keep the type of a request until an authoriser answers it,    *)
(* and the answer's from then on; so that what leaves is the response to   *)
(* what came, and no file update leaves.  And they keep the order of the   *)
(* requests of one authoriser, while one inbound half of fmt reads.        *)
(***************************************************************************)
EXTENDS FmtProofs

-----------------------------------------------------------------------------
\* The type after a request's has an odd digit in the tens, and is none of
\* those that turn into another on the way out.
LEMMA AnswerType ==
  ASSUME NEW mt \in Nat, ~IsResponse(mt)
  PROVE  IsResponse(mt + 10) /\ OutType(mt + 10) = mt + 10
<1>1. (mt + 10) \div 10 = mt \div 10 + 1
  OBVIOUS
<1>2. mt \div 10 \in Nat
  OBVIOUS
<1>3. \A t \in Nat : (t % 10) % 2 # 1 => ((t + 1) % 10) % 2 = 1
  OBVIOUS
<1>4. mt \notin {190, 210}
  BY DEF IsResponse
<1> QED BY <1>1, <1>2, <1>3, <1>4 DEF IsResponse, OutType

\* The parts of TypesKept, of what is queued, held and sent.
QueuesKeep ==
  /\ \A q \in InQueues : \A i \in DOMAIN fila[q] : Asks(fila[q][i])
  /\ \A q \in OutQueues : \A i \in DOMAIN fila[q] : Tells(fila[q][i])

HandsKeep ==
  /\ \A p \in Workers : Holds(p) /\ TakesIn(p) => Asks(hand[p])
  /\ \A p \in Workers : Holds(p) /\ BringsOut(p) => Tells(hand[p])
  /\ Holds("to") => ~hand["to"].raw

NetKeeps == \A k \in DOMAIN net : Tells(net[k]) /\ ~net[k].raw

\* Who has a message on its way in has none on its way out.
LEMMA Ways ==
  ASSUME TypeOK
  PROVE  /\ \A p \in Workers : TakesIn(p) => p \notin {"out", "to"} /\ p \notin decided
         /\ \A p \in Workers : BringsOut(p) => p # "from" /\ p \notin Inbounds
         /\ TakesIn("from") /\ ~BringsOut("from") /\ BringsOut("to") /\ BringsOut("out")
         /\ \A b \in Backends : b \in decided <=> BringsOut(b)
BY SwitchAssumption DEF TypeOK, TakesIn, BringsOut, Backends

\* A request off the line has the type it was sent with.
LEMMA TypesArrive ==
  ASSUME TypeOK, TypesKept, Arrives
  PROVE  TypesKept'
<1>1. PICK m \in Msg : /\ m.mt = m.form.mt
                       /\ \A w \in Workers : hand'[w] = IF w = "from" THEN m ELSE hand[w]
  BY ArriveShape
<1>2. UNCHANGED <<fila, decided, net>>
  BY DEF Arrives
<1>3. Asks(m)
  BY <1>1 DEF Asks
<1>4. "to" \in Workers /\ ~BringsOut("from")'
  BY <1>2, Names, Ways DEF BringsOut
<1>5. HandsKeep'
  BY <1>1, <1>2, <1>3, <1>4 DEF TypesKept, HandsKeep, Holds, TakesIn, BringsOut
<1> QED BY <1>2, <1>5 DEF TypesKept, HandsKeep

\* Each worker takes from a queue that goes its own way, and tcpclient nothing
\* too long for it.
LEMMA TypesTake ==
  ASSUME TypeOK, DecidedHeld, TypesKept, Takes
  PROVE  TypesKept'
<1>1. PICK p \in Workers, q \in Queues :
        /\ LeFila(p, q) /\ UNCHANGED <<decided, net>>
        /\ \/ p \in Inbounds /\ q = "FORMINQ"
           \/ p \in Backends /\ q = Input(p)
           \/ p = "out" /\ q = "FORMOUTQ"
           \/ p = "to" /\ q = "DRIVERQ" /\ ~Head(fila[q]).raw
  BY DEF Takes
<1>2. /\ \A r \in Queues : \A i \in DOMAIN fila'[r] :
           \E j \in DOMAIN fila[r] : fila'[r][i] = fila[r][j]
      /\ \A w \in Workers : hand'[w] = IF w = p THEN fila[q][1] ELSE hand[w]
      /\ 1 \in DOMAIN fila[q]
  BY <1>1, TakeShape
<1>3. QueuesKeep'
  BY <1>2, Roads DEF TypesKept, QueuesKeep
<1>4. q \in InQueues => Asks(fila[q][1])
  BY <1>2 DEF TypesKept
<1>5. q \in OutQueues => Tells(fila[q][1])
  BY <1>2 DEF TypesKept
<1>6. /\ \A w \in Workers : TakesIn(w)' = TakesIn(w) /\ BringsOut(w)' = BringsOut(w)
  BY <1>1 DEF TakesIn, BringsOut
<1>7. TakesIn(p) => q \in InQueues
  BY <1>1, Ways DEF InQueues, Input
<1>8. BringsOut(p) => q \in OutQueues
  <2>1. p \notin decided
    BY <1>1, TakeShape DEF DecidedHeld, Holds
  <2> QED BY <1>1, <2>1, Ways DEF OutQueues
<1>9. p = "to" => ~fila[q][1].raw
  BY <1>1, SwitchAssumption DEF Backends, TypeOK
<1>10. HandsKeep'
  BY <1>2, <1>4, <1>5, <1>6, <1>7, <1>8, <1>9, Names DEF TypesKept, HandsKeep, Holds
<1> QED BY <1>1, <1>3, <1>10 DEF TypesKept, QueuesKeep, HandsKeep

\* What is passed on keeps its type on the way in, and on the way out its
\* answer's: none of these is adjusted there.
LEMMA TypesPass ==
  ASSUME TypeOK, TypesKept, Passes
  PROVE  TypesKept'
<1>1. PICK p \in Workers, q \in Queues, m \in Msg :
        /\ Holds(p) /\ m.form = hand[p].form
        /\ GravaFila(q, m) /\ Drop(p)
        /\ \/ q \in InQueues /\ TakesIn(p) /\ (Ordinary(m.form) => m.mt = hand[p].mt)
           \/ /\ q \in OutQueues
              /\ ~m.raw => /\ BringsOut(p) /\ ~hand[p].raw
                           /\ m.mt \in {hand[p].mt, OutType(hand[p].mt)}
        /\ decided' = decided \ {p} /\ net' = net
  BY DEF Passes, Passage
<1>2. /\ \A r \in Queues : \A i \in DOMAIN fila'[r] :
           \/ i \in DOMAIN fila[r] /\ fila'[r][i] = fila[r][i]
           \/ r = q /\ fila'[r][i] = m
      /\ \A w \in Workers : hand'[w] = IF w = p THEN Nothing ELSE hand[w]
  BY <1>1, PassShape
<1>3. q \in InQueues => Asks(m)
  BY <1>1, Roads DEF TypesKept, Asks
<1>4. ASSUME q \in OutQueues, Ordinary(m.form), ~m.raw PROVE m.mt = m.form.mt + 10
  <2>1. /\ BringsOut(p) /\ ~hand[p].raw
        /\ m.mt \in {hand[p].mt, OutType(hand[p].mt)}
    BY <1>1, <1>4, Roads
  <2>2. hand[p].mt = m.form.mt + 10
    BY <1>1, <1>4, <2>1 DEF TypesKept, Tells
  <2>3. OutType(m.form.mt + 10) = m.form.mt + 10
    BY <1>4, AnswerType, MsgForm DEF Ordinary
  <2> QED BY <2>1, <2>2, <2>3
<1>5. q \in OutQueues => Tells(m)
  BY <1>4 DEF Tells
<1>6. QueuesKeep'
  BY <1>2, <1>3, <1>5, Roads DEF TypesKept, QueuesKeep
<1>7. \A w \in Workers \ {p} : TakesIn(w)' = TakesIn(w) /\ BringsOut(w)' = BringsOut(w)
  BY <1>1 DEF TakesIn, BringsOut
<1>8. HandsKeep'
  BY <1>2, <1>7, Names DEF TypesKept, HandsKeep, Holds
<1> QED BY <1>1, <1>6, <1>8 DEF TypesKept, QueuesKeep, HandsKeep

\* An authoriser turns a request into its response.
LEMMA TypesRespond ==
  ASSUME TypeOK, TypesKept, Responds
  PROVE  TypesKept'
<1>1. PICK b \in Backends \ decided, m \in Msg :
        /\ Holds(b) /\ m.form = hand[b].form /\ m.mt = ResponseType(hand[b].mt)
        /\ hand' = [hand EXCEPT ![b] = m]
        /\ decided' = decided \cup {b}
        /\ UNCHANGED <<fila, net>>
  BY DEF Responds
<1>2. b \in Workers /\ TakesIn(b) /\ b # "to"
  BY Roles DEF TakesIn
<1>3. \A w \in Workers : hand'[w] = IF w = b THEN m ELSE hand[w]
  BY <1>1 DEF TypeOK
<1>4. Asks(hand[b])
  BY <1>1, <1>2 DEF TypesKept
<1>5. Tells(m)
  BY <1>1, <1>4 DEF Asks, Tells, ResponseType
<1>6. ~TakesIn(b)' /\ \A w \in Workers \ {b} :
        TakesIn(w)' = TakesIn(w) /\ BringsOut(w)' = BringsOut(w)
  BY <1>1, Roles, SwitchAssumption DEF TakesIn, BringsOut, Backends
<1>7. \A w \in Workers : Holds(w)' /\ TakesIn(w)' => Asks(hand'[w])
  BY <1>3, <1>6 DEF TypesKept, Holds
<1>8. \A w \in Workers : Holds(w)' /\ BringsOut(w)' => Tells(hand'[w])
  BY <1>3, <1>5, <1>6 DEF TypesKept, Holds
<1>9. Holds("to")' => ~hand'["to"].raw
  BY <1>2, <1>3, Names DEF TypesKept, Holds
<1> QED BY <1>1, <1>7, <1>8, <1>9 DEF TypesKept

\* What leaves is what tcpclient held.
LEMMA TypesSend ==
  ASSUME TypeOK, TypesKept, Sends
  PROVE  TypesKept'
<1>1. /\ \A k \in DOMAIN net' :
           \/ k \in DOMAIN net /\ net'[k] = net[k]
           \/ k = Len(net) + 1 /\ net'[k] = hand["to"]
      /\ \A w \in Workers : hand'[w] = IF w = "to" THEN Nothing ELSE hand[w]
      /\ hand["to"] \in Msg /\ "to" \in Workers
  BY SendShape
<1>2. Holds("to") /\ UNCHANGED <<fila, decided>>
  BY DEF Sends
<1>3. Tells(hand["to"]) /\ ~hand["to"].raw
  BY <1>1, <1>2, Ways DEF TypesKept
<1>4. NetKeeps'
  BY <1>1, <1>3 DEF TypesKept, NetKeeps, Tells
<1>5. HandsKeep'
  BY <1>1, <1>2 DEF TypesKept, HandsKeep, Holds, TakesIn, BringsOut
<1> QED BY <1>2, <1>4, <1>5 DEF TypesKept, HandsKeep, NetKeeps

\* What is lost is nowhere.
LEMMA TypesLose ==
  ASSUME TypeOK, DecidedHeld, TypesKept, Loses
  PROVE  TypesKept'
<1>1. /\ \A w \in Workers : hand'[w] \in {hand[w], Nothing}
      /\ decided' = {b \in decided : hand'[b] # Nothing}
      /\ UNCHANGED <<fila, net>>
  BY DEF Loses
<1>2. \A w \in Workers : Holds(w)' => /\ Holds(w) /\ hand'[w] = hand[w]
                                     /\ TakesIn(w)' = TakesIn(w) /\ BringsOut(w)' = BringsOut(w)
  BY <1>1 DEF Holds, TakesIn, BringsOut
<1>3. HandsKeep'
  BY <1>2, Names DEF TypesKept, HandsKeep
<1> QED BY <1>1, <1>3 DEF TypesKept, HandsKeep

\* Every step keeps the types of requests.
LEMMA TypesStep ==
  ASSUME IInv, TypesKept, [Next]_vars
  PROVE  TypesKept'
<1>1. TypeOK /\ DecidedHeld /\ AsSent /\ PaymentsOnly
  BY DEF IInv
<1>2. Move
  BY <1>1, StepMoves
<1> QED
  BY <1>1, <1>2, TypesArrive, TypesTake, TypesPass, TypesRespond, TypesSend, TypesLose DEF Move

-----------------------------------------------------------------------------
\* What is sent in answer to a request the network did not reject is the
\* response of that request's type, for any traffic, whatever the halves of fmt
\* and the authorisers make of types on the way (cardco.h:62, v_out.c:71).
THEOREM AnswersMatch == Spec => []AnswerMatches
<1>1. Init => TypesKept
  <2> SUFFICES ASSUME Init PROVE TypesKept
    OBVIOUS
  <2>1. /\ \A q \in Queues : fila[q] = <<>>
        /\ \A p \in Workers : ~Holds(p)
        /\ net = <<>>
    BY DEF Init, Holds
  <2> QED BY <2>1, Roads, Names DEF TypesKept
<1>2. IInv /\ TypesKept /\ [Next]_vars => TypesKept'
  BY TypesStep
<1>3. IInv /\ TypesKept => AnswerMatches
  <2> SUFFICES ASSUME IInv, TypesKept, NEW i \in DOMAIN net,
                      ~net[i].form.rej, ~IsResponse(net[i].form.mt)
               PROVE  net[i].mt = net[i].form.mt + 10 /\ IsResponse(net[i].mt)
    BY DEF AnswerMatches
  <2>1. net[i] \in Msg
    BY DEF IInv, TypeOK
  <2>2. net[i].mt = net[i].form.mt + 10
    BY DEF TypesKept, Tells, Ordinary
  <2> QED BY <2>1, <2>2, AnswerType, MsgForm
<1> QED BY <1>1, <1>2, <1>3, Invariance, PTL DEF Spec

-----------------------------------------------------------------------------
(* File updates. *)

\* No step brings a file update to an authoriser or to the outbound half, from
\* traffic without the type whose answer would look like one.
LEMMA UpdatesStep ==
  ASSUME TypeOK, DecidedHeld, UpdatesApart, Move, \A f \in Traffic : f.mt # UpdateLess10
  PROVE  UpdatesApart'
<1> DEFINE Asked(m) == NoUpdate(m.mt) /\ m.mt # UpdateLess10
           QueuesFree == \A q \in AskQueues : \A i \in DOMAIN fila'[q] : Asked(fila'[q][i])
           AskedFree  == \A b \in Backends \ decided' : hand'[b] # Nothing => Asked(hand'[b])
           ToldFree   == \A b \in decided' : NoUpdate(hand'[b].mt)
           OutFree    == \A i \in DOMAIN fila'["FORMOUTQ"] : NoUpdate(fila'["FORMOUTQ"][i].mt)
<1>0. /\ \A q \in AskQueues : \A i \in DOMAIN fila[q] : Asked(fila[q][i])
      /\ \A b \in Backends \ decided : Holds(b) => Asked(hand[b])
      /\ \A b \in decided : NoUpdate(hand[b].mt)
      /\ \A i \in DOMAIN fila["FORMOUTQ"] : NoUpdate(fila["FORMOUTQ"][i].mt)
      /\ decided \subseteq Backends
  BY DEF UpdatesApart, NoFileUpdateOut, NoUpdate, TypeOK
<1> SUFFICES QueuesFree /\ AskedFree /\ ToldFree /\ OutFree
  BY DEF UpdatesApart, NoFileUpdateOut, NoUpdate, Holds
<1>1. CASE Arrives
  <2>1. UNCHANGED <<fila, decided>> /\ \A b \in Backends : hand'[b] = hand[b]
    BY <1>1, ArriveShape, Desks DEF Arrives
  <2> QED BY <1>0, <2>1 DEF Holds
<1>2. CASE Takes
  <2>1. PICK p \in Workers, q \in Queues :
          /\ LeFila(p, q) /\ decided' = decided
          /\ p \in Backends => q \in AskQueues
    BY <1>2, Desks DEF Takes
  <2>2. /\ \A r \in Queues : \A i \in DOMAIN fila'[r] :
             \E j \in DOMAIN fila[r] : fila'[r][i] = fila[r][j]
        /\ \A w \in Workers : hand'[w] = IF w = p THEN fila[q][1] ELSE hand[w]
        /\ 1 \in DOMAIN fila[q] /\ hand[p] = Nothing
    BY <2>1, TakeShape
  <2>3. QueuesFree /\ OutFree
    BY <1>0, <2>2, Desks
  <2>4. AskedFree
    BY <1>0, <2>1, <2>2, Desks DEF Holds
  <2>5. ToldFree
    BY <1>0, <2>1, <2>2, Desks DEF DecidedHeld, Holds
  <2> QED BY <2>3, <2>4, <2>5
<1>3. CASE Passes
  <2>1. PICK p \in Workers, q \in Queues, m \in Msg :
          /\ GravaFila(q, m) /\ Drop(p) /\ decided' = decided \ {p}
          /\ q \in AskQueues => NoUpdate(m.mt) /\ (m.mt = UpdateLess10 => m.form.mt = UpdateLess10)
          /\ q = "FORMOUTQ" => p \in decided /\ m = hand[p]
    BY <1>3, Desks DEF Passes, Passage
  <2>2. m.form.mt # UpdateLess10
    BY MsgForm
  <2>3. /\ \A r \in Queues : \A i \in DOMAIN fila'[r] :
             \/ i \in DOMAIN fila[r] /\ fila'[r][i] = fila[r][i]
             \/ r = q /\ fila'[r][i] = m
        /\ \A w \in Workers : hand'[w] = IF w = p THEN Nothing ELSE hand[w]
    BY <2>1, PassShape
  <2>4. QueuesFree /\ OutFree
    BY <1>0, <2>1, <2>2, <2>3, Desks
  <2>5. AskedFree /\ ToldFree
    BY <1>0, <2>1, <2>3, Desks DEF Holds
  <2> QED BY <2>4, <2>5
<1>4. CASE Responds
  <2>1. PICK b \in Backends \ decided, m \in Msg :
          /\ Holds(b) /\ m.mt = ResponseType(hand[b].mt)
          /\ hand' = [hand EXCEPT ![b] = m]
          /\ decided' = decided \cup {b} /\ UNCHANGED fila
    BY <1>4 DEF Responds
  <2>2. \A w \in Workers : hand'[w] = IF w = b THEN m ELSE hand[w]
    BY <2>1 DEF TypeOK
  <2>3. hand[b].mt \in Nat /\ Asked(hand[b])
    BY <1>0, <2>1, Desks, HandTyped, MsgForm DEF Holds
  <2>4. NoUpdate(m.mt)
    BY <2>1, <2>3 DEF NoUpdate, FileUpdates, UpdateLess10, ResponseType
  <2> QED BY <1>0, <2>1, <2>2, <2>4, Desks DEF Holds
<1>5. CASE Sends
  <2>1. UNCHANGED <<fila, decided>> /\ \A b \in Backends : hand'[b] = hand[b]
    BY <1>5, SendShape, Desks DEF Sends
  <2> QED BY <1>0, <2>1 DEF Holds
<1>6. CASE Loses
  <2>1. /\ \A w \in Workers : hand'[w] \in {hand[w], Nothing}
        /\ decided' = {b \in decided : hand'[b] # Nothing} /\ UNCHANGED fila
    BY <1>6 DEF Loses
  <2>2. \A b \in Backends \ decided' : hand'[b] # Nothing => b \notin decided /\ hand'[b] = hand[b]
    BY <2>1, Desks
  <2> QED BY <1>0, <2>1, <2>2, Desks DEF Holds
<1> QED BY <1>1, <1>2, <1>3, <1>4, <1>5, <1>6 DEF Move

\* v_out.c:66, "This should never get here (302/312)": file updates never come
\* to the outbound half, for every traffic without the one type, 292, that the
\* authorisers would answer in the type of a file update.
THEOREM NoUpdateOut ==
  (\A f \in Traffic : f.mt # UpdateLess10) => (Spec => []NoFileUpdateOut)
<1> SUFFICES ASSUME \A f \in Traffic : f.mt # UpdateLess10 PROVE Spec => []NoFileUpdateOut
  OBVIOUS
<1>1. Init => UpdatesApart
  <2> SUFFICES ASSUME Init PROVE UpdatesApart
    OBVIOUS
  <2>1. /\ \A q \in Queues : fila[q] = <<>>
        /\ \A p \in Workers : ~Holds(p)
        /\ decided = {}
    BY DEF Init, Holds
  <2> QED BY <2>1, Desks DEF UpdatesApart, NoFileUpdateOut
<1>2. IInv /\ UpdatesApart /\ [Next]_vars => UpdatesApart'
  BY UpdatesStep, StepMoves DEF IInv
<1>3. UpdatesApart => NoFileUpdateOut
  BY DEF UpdatesApart
<1> QED BY <1>1, <1>2, <1>3, Invariance, PTL DEF Spec

-----------------------------------------------------------------------------
(* The order of answers. *)

\* The desks along the way of a form, one by one.
LEMMA Way ==
  ASSUME NEW f
  PROVE  /\ QueueAt(2, f) = "DRIVERQ" /\ QueueAt(4, f) = "FORMOUTQ"
         /\ QueueAt(6, f) = Backend(f) /\ QueueAt(8, f) = "FORMINQ"
         /\ HandsAt(1, f) = {"to"} /\ HandsAt(3, f) = {"out"} /\ HandsAt(9, f) = {"from"}
         /\ HandsAt(5, f) = {b \in Backends : Input(b) = Backend(f)} /\ HandsAt(7, f) = Inbounds
BY DEF QueueAt, HandsAt

\* They are queues and workers of the switch.
LEMMA Stages ==
  ASSUME NEW f, NEW s \in 0 .. 9
  PROVE  /\ s \in QueueStages => /\ QueueAt(s, f) \in Queues \ {"FUPDQ"}
                                 /\ s \notin HandStages /\ s # 0
         /\ s \in HandStages => HandsAt(s, f) \subseteq Workers /\ s \notin QueueStages /\ s # 0
         /\ s \in QueueStages \cup HandStages \cup {0}
<1>1. QueueStages \cap HandStages = {} /\ 0 \notin QueueStages \cup HandStages
      /\ 0 .. 9 = QueueStages \cup HandStages \cup {0}
  BY DEF QueueStages, HandStages
<1>2. s \in QueueStages => QueueAt(s, f) \in Queues \ {"FUPDQ"}
  BY Way DEF QueueStages, Backend, Queues
<1>3. s \in HandStages => HandsAt(s, f) \subseteq Workers
  BY Way, Names, Desks DEF HandStages
<1> QED BY <1>1, <1>2, <1>3

\* Two forms of one kind go the same way.
LEMMA SameWay ==
  ASSUME NEW f, NEW g, f.pay = g.pay
  PROVE  Backend(f) = Backend(g) /\ \A s : QueueAt(s, f) = QueueAt(s, g) /\ HandsAt(s, f) = HandsAt(s, g)
<1>1. Backend(f) = Backend(g)
  BY DEF Backend
<1> QED BY <1>1 DEF QueueAt, HandsAt

\* Each queue, and each worker, is at one stage of a way.
LEMMA OneStage ==
  ASSUME NEW f
  PROVE  /\ \A s, t \in QueueStages : QueueAt(s, f) = QueueAt(t, f) => s = t
         /\ \A s, t \in HandStages : \A p \in HandsAt(s, f) : p \in HandsAt(t, f) => s = t
         /\ \A b, c \in Backends : Input(b) = Input(c) => b = c
<1>1. ASSUME NEW s \in QueueStages, NEW t \in QueueStages, QueueAt(s, f) = QueueAt(t, f)
      PROVE  s = t
  <2>1. Backend(f) \notin {"DRIVERQ", "FORMOUTQ", "FORMINQ"}
    BY DEF Backend
  <2> QED BY <1>1, <2>1, Way DEF QueueStages
<1>2. ASSUME NEW s \in HandStages, NEW t \in HandStages,
             NEW p \in HandsAt(s, f), p \in HandsAt(t, f)
      PROVE  s = t
  <2>1. Backends \cap (Inbounds \cup {"to", "out", "from"}) = {}
        /\ Inbounds \cap {"to", "out", "from"} = {}
    BY SwitchAssumption DEF Backends
  <2> QED BY <1>2, <2>1, Way DEF HandStages
<1>3. \A b, c \in Backends : Input(b) = Input(c) => b = c
  BY DEF Backends, Input
<1> QED BY <1>1, <1>2, <1>3

\* A request off the line is behind all others.
LEMMA OrderArrives ==
  ASSUME IInv, OrderInv, Arrives
  PROVE  InOrder' /\ ArrivedOnce'
<1>0. TypeOK /\ OnePlace /\ arrived \in Seq(Ids)
  BY DEF IInv, TypeOK
<1>1. PICK id \in Ids, m0 \in Msg :
        /\ ~Came(id) /\ m0.id = id
        /\ \A w \in Workers : hand'[w] = IF w = "from" THEN m0 ELSE hand[w]
        /\ hand["from"] = Nothing
        /\ Came(id)' /\ \A i \in Ids : Came(i)' => Came(i) \/ i = id
  BY <1>0, ArriveShape
<1>2. PICK e \in Ids : arrived' = Append(arrived, e) /\ ~Came(e)
  BY DEF Arrives
<1>3. /\ \A i \in DOMAIN arrived : i \in DOMAIN arrived' /\ arrived'[i] = arrived[i]
      /\ Len(arrived) + 1 \in DOMAIN arrived' /\ arrived'[Len(arrived) + 1] = e
      /\ \A i \in DOMAIN arrived' : i \in DOMAIN arrived \/ i = Len(arrived) + 1
      /\ \A i \in DOMAIN arrived : i < Len(arrived) + 1
  BY <1>0, <1>2
<1>4. e = id
  BY <1>1, <1>2, <1>3 DEF Came
<1>5. ArrivedOnce'
  BY <1>2, <1>3 DEF ArrivedOnce, OrderInv, Came
<1>6. ASSUME NEW s \in 0 .. 9, NEW k \in Nat, NEW m \in Msg, At(s, k, m)'
      PROVE  At(s, k, m) \/ (s = 9 /\ k = 0 /\ m = m0)
  <2>1. UNCHANGED <<fila, net>>
    BY DEF Arrives
  <2>2. CASE s \in HandStages
    <3>1. PICK p \in HandsAt(s, m.form) : k = 0 /\ hand'[p] # Nothing /\ m = hand'[p]
      BY <1>6, <2>2, Stages DEF At, Holds
    <3>2. CASE p = "from"
      <4>1. "from" \in HandsAt(9, m.form) /\ 9 \in HandStages
        BY Way DEF HandStages
      <4> QED BY <1>1, <2>2, <3>1, <3>2, <4>1, OneStage, Names
    <3>3. CASE p # "from"
      <4>1. Holds(p) /\ m = hand[p]
        BY <1>1, <2>2, <3>1, <3>3, Stages DEF Holds
      <4> QED BY <2>2, <3>1, <4>1 DEF At
    <3> QED BY <3>2, <3>3
  <2> QED BY <1>6, <2>1, <2>2, Stages DEF At
<1>7. \A a, b \in Ids : Before(a, b) => Before(a, b)'
  BY <1>2, <1>3 DEF Before
<1>8. ASSUME NEW s \in 0 .. 9, NEW k \in Nat, NEW m \in Msg, At(s, k, m)
      PROVE  Before(m.id, id)'
  <2>1. Came(m.id)
    BY <1>0, <1>8, Stages DEF At, OnePlace, AllCame
  <2> QED BY <1>2, <1>3, <1>4, <2>1 DEF Before, Came
<1>9. InOrder'
  <2> SUFFICES ASSUME NEW s \in 0 .. 9, NEW t \in 0 .. 9, NEW k \in Nat, NEW l \in Nat,
                      NEW m \in Msg, NEW n \in Msg,
                      At(s, k, m)', At(t, l, n)', m.form.pay = n.form.pay, Ahead(s, k, t, l)
               PROVE  Before(m.id, n.id)'
    BY DEF InOrder, Ahead
  <2>1. CASE At(s, k, m) /\ At(t, l, n)
    BY <1>7, <2>1, MsgForm DEF OrderInv, InOrder
  <2>2. CASE At(s, k, m) /\ t = 9 /\ n = m0
    BY <1>1, <1>8, <2>2
  <2>3. CASE s = 9 /\ k = 0
    <3>1. t = 9 /\ l > 0
      BY <2>3 DEF Ahead
    <3> QED BY <3>1 DEF At, QueueStages
  <2> QED BY <1>6, <2>1, <2>2, <2>3
<1> QED BY <1>5, <1>9

\* A worker takes what is first in its queue, one stage nearer to the line.
LEMMA OrderTakes ==
  ASSUME TypeOK, InOrder, Takes
  PROVE  InOrder'
<1>1. PICK p \in Workers, q \in Queues :
        /\ LeFila(p, q) /\ UNCHANGED <<arrived, net>>
        /\ \/ p \in Inbounds /\ q = "FORMINQ"
           \/ p \in Backends /\ q = Input(p)
           \/ p = "out" /\ q = "FORMOUTQ"
           \/ p = "to" /\ q = "DRIVERQ" /\ ~Head(fila[q]).raw
  BY DEF Takes
<1>2. /\ \A r \in Queues : \A i \in DOMAIN fila'[r] :
           LET j == IF r = q THEN i + 1 ELSE i
           IN  i \in Nat \ {0} /\ j \in DOMAIN fila[r] /\ fila'[r][i] = fila[r][j]
      /\ 1 \in DOMAIN fila[q] /\ fila[q][1] \in Msg
      /\ \A w \in Workers : hand'[w] = IF w = p THEN fila[q][1] ELSE hand[w]
  BY <1>1, TakeShape
<1>3. p = "to" => ~fila[q][1].raw
  BY <1>1, SwitchAssumption DEF Backends, TypeOK
<1> DEFINE Stays(s, k, m) == At(s, k, m) /\ (s \in QueueStages => QueueAt(s, m.form) # q)
           Moves(s, k, m) == s \in QueueStages /\ QueueAt(s, m.form) = q /\ k > 0 /\ At(s, k + 1, m)
           Taken(s, k, m) == /\ s \in HandStages /\ k = 0 /\ s + 1 \in QueueStages
                             /\ QueueAt(s + 1, m.form) = q /\ At(s + 1, 1, m)
<1>4. ASSUME NEW s \in 0 .. 9, NEW k \in Nat, NEW m \in Msg, At(s, k, m)'
      PROVE  Stays(s, k, m) \/ Moves(s, k, m) \/ Taken(s, k, m)
  <2>1. CASE s = 0
    BY <1>1, <1>4, <2>1 DEF At, QueueStages, HandStages
  <2>2. CASE s \in QueueStages
    <3> DEFINE r == QueueAt(s, m.form)
    <3>1. r \in Queues /\ s \notin HandStages /\ s # 0
      BY <2>2, Stages
    <3>2. k \in DOMAIN fila'[r] /\ m = fila'[r][k] /\ (s = 2 => ~m.raw)
      BY <1>4, <2>2, <3>1 DEF At
    <3> QED BY <1>2, <2>2, <3>1, <3>2 DEF At
  <2>3. CASE s \in HandStages
    <3>1. PICK w \in HandsAt(s, m.form) : k = 0 /\ hand'[w] # Nothing /\ m = hand'[w]
      BY <1>4, <2>3, Stages DEF At, Holds
    <3>2. w \in Workers
      BY <2>3, <3>1, Stages
    <3>3. CASE w # p
      <4>1. Holds(w) /\ m = hand[w]
        BY <1>2, <3>1, <3>2, <3>3 DEF Holds
      <4> QED BY <2>3, <3>1, <4>1, Stages DEF At
    <3>4. CASE w = p
      <4>1. m = fila[q][1] /\ 1 \in DOMAIN fila[q]
        BY <1>2, <3>1, <3>2, <3>4
      <4>2. s + 1 \in QueueStages /\ QueueAt(s + 1, m.form) = q
        <5>1. CASE s = 1
          BY <1>1, <3>1, <3>4, <5>1, Way, SwitchAssumption DEF Backends, QueueStages
        <5>2. CASE s = 3
          BY <1>1, <3>1, <3>4, <5>2, Way, SwitchAssumption DEF Backends, QueueStages
        <5>3. CASE s = 5
          BY <1>1, <3>1, <3>4, <5>3, Way, SwitchAssumption DEF Backends, QueueStages
        <5>4. CASE s = 7
          BY <1>1, <3>1, <3>4, <5>4, Way, SwitchAssumption DEF Backends, QueueStages
        <5>5. s # 9
          BY <1>1, <3>1, <3>4, Way, SwitchAssumption DEF Backends
        <5> QED BY <2>3, <5>1, <5>2, <5>3, <5>4, <5>5 DEF HandStages
      <4>3. s + 1 = 2 => ~m.raw
        <5>1. s = 1 => p = "to"
          BY <3>1, <3>4, Way
        <5> QED BY <1>3, <4>1, <5>1
      <4> QED BY <2>3, <3>1, <4>1, <4>2, <4>3 DEF At
    <3> QED BY <3>3, <3>4
  <2> QED BY <2>1, <2>2, <2>3, Stages
<1> SUFFICES ASSUME NEW s \in 0 .. 9, NEW t \in 0 .. 9, NEW k \in Nat, NEW l \in Nat,
                    NEW m \in Msg, NEW n \in Msg,
                    At(s, k, m)', At(t, l, n)', m.form.pay = n.form.pay, Ahead(s, k, t, l)
             PROVE  Before(m.id, n.id)'
  BY DEF InOrder, Ahead
<1>5. PICK s0 \in 0 .. 9, k0 \in Nat :
        /\ At(s0, k0, m)
        /\ \/ s0 = s /\ k0 = k /\ (s \in QueueStages => QueueAt(s, m.form) # q)
           \/ s0 = s /\ k0 = k + 1 /\ s \in QueueStages /\ QueueAt(s, m.form) = q
           \/ s0 = s + 1 /\ k0 = 1 /\ k = 0 /\ s \in HandStages /\ QueueAt(s + 1, m.form) = q
  <2>1. s + 1 \in QueueStages => s + 1 \in 0 .. 9
    BY DEF QueueStages
  <2> QED BY <1>4, <2>1
<1>6. PICK t0 \in 0 .. 9, l0 \in Nat :
        /\ At(t0, l0, n)
        /\ \/ t0 = t /\ l0 = l /\ (t \in QueueStages => QueueAt(t, n.form) # q)
           \/ t0 = t /\ l0 = l + 1 /\ l > 0 /\ t \in QueueStages /\ QueueAt(t, n.form) = q
           \/ t0 = t + 1 /\ l0 = 1 /\ l = 0 /\ t \in HandStages /\ QueueAt(t + 1, n.form) = q
  <2>1. t + 1 \in QueueStages => t + 1 \in 0 .. 9
    BY DEF QueueStages
  <2> QED BY <1>4, <2>1
<1>7. /\ \A u : QueueAt(u, m.form) = QueueAt(u, n.form)
      /\ t \in HandStages => l = 0
      /\ t \in QueueStages \cup HandStages \cup {0} /\ QueueStages \cap HandStages = {}
      /\ 0 \notin QueueStages
  <2>1. t \in HandStages => l = 0
    BY Stages DEF At
  <2> QED BY <2>1, SameWay, Stages DEF QueueStages, HandStages
<1>8. s + 1 = t => (s \in HandStages => t \in QueueStages)
  BY DEF QueueStages, HandStages
<1>9. Ahead(s0, k0, t0, l0)
  BY <1>5, <1>6, <1>7, <1>8 DEF Ahead
<1>10. Before(m.id, n.id)
  BY <1>5, <1>6, <1>9 DEF InOrder
<1> QED BY <1>1, <1>10 DEF Before

\* What each worker passes on is for the next queue of its request's way, or
\* for none.
LEMMA NextStage ==
  ASSUME TypeOK, RightAuthoriser, NEW p \in Workers, NEW q \in Queues, NEW m \in Msg,
         Holds(p), m.form = hand[p].form, Passage(p, q, m), NEW s \in QueueStages,
         QueueAt(s, m.form) = q, s = 2 => ~m.raw
  PROVE  s + 1 \in HandStages /\ p \in HandsAt(s + 1, m.form)
<1> DEFINE f == m.form
<1>1. s + 1 \in HandStages
  BY DEF QueueStages, HandStages
<1>2. CASE s = 2
  <2>1. q = "DRIVERQ" /\ ~m.raw
    BY <1>2, Way
  <2>2. p = "out"
    BY <2>1 DEF Passage, InQueues
  <2> QED BY <1>1, <1>2, <2>2, Way
<1>3. CASE s = 4
  <2>1. q = "FORMOUTQ"
    BY <1>3, Way
  <2>2. p \in decided
    BY <2>1 DEF Passage, InQueues
  <2>3. p \in Backends /\ Input(p) = Backend(f)
    BY <2>2 DEF TypeOK, RightAuthoriser
  <2> QED BY <1>1, <1>3, <2>3, Way
<1>4. CASE s = 6
  <2>1. q \in AskQueues
    BY <1>4, Way, Desks
  <2>2. p \in Inbounds
    BY <2>1, Desks DEF Passage
  <2> QED BY <1>1, <1>4, <2>2, Way
<1>5. CASE s = 8
  <2>1. q = "FORMINQ"
    BY <1>5, Way
  <2>2. p = "from"
    BY <2>1 DEF Passage, OutQueues
  <2> QED BY <1>1, <1>5, <2>2, Way
<1> QED BY <1>2, <1>3, <1>4, <1>5 DEF QueueStages

\* No two workers at one stage of a way have a request each, but two inbound
\* halves.
LEMMA OneHolder ==
  ASSUME OneReader, NEW f, NEW s \in HandStages, NEW p \in HandsAt(s, f), NEW w \in HandsAt(s, f),
         Holds(p), Holds(w)
  PROVE  p = w
<1>1. CASE s = 5
  BY <1>1, Way, OneStage
<1>2. CASE s = 7
  BY <1>2, Way DEF OneReader
<1>3. CASE s \in {1, 3, 9}
  BY <1>3, Way
<1> QED BY <1>1, <1>2, <1>3 DEF HandStages

\* A worker passes on what it has behind all that is ahead of it.
LEMMA OrderPasses ==
  ASSUME TypeOK, RightAuthoriser, OneReader, InOrder, Passes
  PROVE  InOrder'
<1>1. PICK p \in Workers, q \in Queues, m0 \in Msg :
        /\ Holds(p) /\ m0.id = hand[p].id /\ m0.form = hand[p].form
        /\ Passage(p, q, m0)
        /\ GravaFila(q, m0) /\ Drop(p)
        /\ UNCHANGED <<arrived, net>>
  BY DEF Passes
<1> DEFINE h == hand[p]
           e == Len(fila[q]) + 1
<1>2. /\ \A r \in Queues : \A i \in DOMAIN fila'[r] :
           \/ i \in DOMAIN fila[r] /\ fila'[r][i] = fila[r][i]
           \/ r = q /\ i = e /\ fila'[r][i] = m0
      /\ \A w \in Workers : hand'[w] = IF w = p THEN Nothing ELSE hand[w]
  BY <1>1, PassShape
<1>3. h \in Msg /\ fila[q] \in Seq(Msg)
  BY <1>1, HandTyped DEF Holds, TypeOK
<1> DEFINE Stays(s, k, m) == At(s, k, m) /\ ~(s \in HandStages /\ p \in HandsAt(s, m.form))
           Passed1(s, k, m) == /\ s \in QueueStages /\ QueueAt(s, m.form) = q /\ k = e
                               /\ m.id = h.id /\ m.form = h.form
                               /\ s + 1 \in HandStages /\ p \in HandsAt(s + 1, m.form)
<1>4. ASSUME NEW s \in 0 .. 9, NEW k \in Nat, NEW m \in Msg, At(s, k, m)'
      PROVE  Stays(s, k, m) \/ Passed1(s, k, m)
  <2>1. CASE s = 0
    BY <1>1, <1>4, <2>1 DEF At, QueueStages, HandStages
  <2>2. CASE s \in QueueStages
    <3> DEFINE r == QueueAt(s, m.form)
    <3>1. r \in Queues /\ s \notin HandStages /\ s # 0
      BY <2>2, Stages
    <3>2. k \in DOMAIN fila'[r] /\ m = fila'[r][k] /\ (s = 2 => ~m.raw)
      BY <1>4, <2>2, <3>1 DEF At
    <3>3. CASE k \in DOMAIN fila[r] /\ fila'[r][k] = fila[r][k]
      BY <2>2, <3>1, <3>2, <3>3 DEF At
    <3>4. CASE r = q /\ k = e /\ fila'[r][k] = m0
      <4>1. m = m0
        BY <3>2, <3>4
      <4> QED BY <1>1, <2>2, <3>2, <3>4, <4>1, NextStage
    <3> QED BY <1>2, <3>1, <3>2, <3>3, <3>4
  <2>3. CASE s \in HandStages
    <3>1. PICK w \in HandsAt(s, m.form) : k = 0 /\ hand'[w] # Nothing /\ m = hand'[w]
      BY <1>4, <2>3, Stages DEF At, Holds
    <3>2. w \in Workers /\ w # p /\ Holds(w) /\ m = hand[w]
      BY <1>2, <2>3, <3>1, Stages DEF Holds
    <3>3. At(s, k, m)
      BY <2>3, <3>1, <3>2 DEF At
    <3>4. p \notin HandsAt(s, m.form)
      BY <1>1, <2>3, <3>1, <3>2, OneHolder
    <3> QED BY <3>3, <3>4
  <2> QED BY <2>1, <2>2, <2>3, Stages
<1>5. ASSUME NEW s \in HandStages, NEW f, p \in HandsAt(s, f), h.form = f
      PROVE  At(s, 0, h)
  BY <1>1, <1>5 DEF At
<1> SUFFICES ASSUME NEW s \in 0 .. 9, NEW t \in 0 .. 9, NEW k \in Nat, NEW l \in Nat,
                    NEW m \in Msg, NEW n \in Msg,
                    At(s, k, m)', At(t, l, n)', m.form.pay = n.form.pay, Ahead(s, k, t, l)
             PROVE  Before(m.id, n.id)'
  BY DEF InOrder, Ahead
<1>6. /\ \A u : QueueAt(u, m.form) = QueueAt(u, n.form) /\ HandsAt(u, m.form) = HandsAt(u, n.form)
      /\ \A u \in HandStages : u \in 0 .. 9 /\ u # 0 /\ u - 1 \notin HandStages
  BY SameWay DEF HandStages
<1> SUFFICES Before(m.id, n.id)
  BY <1>1 DEF Before
<1>7. CASE Stays(s, k, m) /\ Stays(t, l, n)
  BY <1>7 DEF InOrder
<1>8. CASE Stays(s, k, m) /\ Passed1(t, l, n)
  <2>1. At(t + 1, 0, h) /\ t + 1 \in 0 .. 9 /\ n.id = h.id /\ n.form = h.form
    BY <1>5, <1>6, <1>8
  <2>2. Ahead(s, k, t + 1, 0)
    BY DEF Ahead
  <2> QED BY <1>3, <1>8, <2>1, <2>2 DEF InOrder
<1>9. CASE Passed1(s, k, m) /\ Stays(t, l, n)
  <2>1. At(s + 1, 0, h) /\ s + 1 \in 0 .. 9 /\ m.id = h.id /\ m.form = h.form
    BY <1>5, <1>6, <1>9
  <2>2. t # s
    <3> SUFFICES ASSUME t = s PROVE FALSE
      OBVIOUS
    <3>1. l \in DOMAIN fila[q]
      BY <1>6, <1>9, Stages DEF At
    <3>2. l > e
      BY <1>9 DEF Ahead
    <3> QED BY <1>3, <3>1, <3>2
  <2>3. t # s + 1
    BY <1>6, <1>9
  <2>4. Ahead(s + 1, 0, t, l)
    BY <2>2, <2>3 DEF Ahead
  <2> QED BY <1>3, <1>9, <2>1, <2>4 DEF InOrder
<1>10. CASE Passed1(s, k, m) /\ Passed1(t, l, n)
  <2>1. s \in QueueStages /\ t \in QueueStages /\ QueueAt(s, m.form) = QueueAt(t, m.form)
    BY <1>6, <1>10
  <2>2. s = t
    BY ONLY <2>1, OneStage
  <2> QED BY <1>10, <2>2 DEF Ahead
<1> QED BY <1>4, <1>7, <1>8, <1>9, <1>10

\* An authoriser answers a request where it has it.
LEMMA OrderResponds ==
  ASSUME TypeOK, InOrder, Responds
  PROVE  InOrder'
<1>1. PICK b \in Backends, m0 \in Msg :
        /\ Holds(b) /\ m0.id = hand[b].id /\ m0.form = hand[b].form
        /\ hand' = [hand EXCEPT ![b] = m0]
        /\ UNCHANGED <<fila, arrived, net>>
  BY DEF Responds
<1>2. \A w \in Workers : hand'[w] = IF w = b THEN m0 ELSE hand[w]
  BY <1>1 DEF TypeOK
<1>3. b \in Workers /\ hand[b] \in Msg
  BY <1>1, Desks, HandTyped DEF Holds
<1>4. ASSUME NEW s \in 0 .. 9, NEW k \in Nat, NEW m \in Msg, At(s, k, m)'
      PROVE  \E o \in Msg : At(s, k, o) /\ o.id = m.id /\ o.form = m.form
  <2>1. CASE s \notin HandStages
    BY <1>1, <1>4, <2>1 DEF At
  <2>2. CASE s \in HandStages
    <3>1. PICK w \in HandsAt(s, m.form) : k = 0 /\ hand'[w] # Nothing /\ m = hand'[w]
      BY <1>4, <2>2, Stages DEF At, Holds
    <3>2. w \in Workers
      BY <2>2, <3>1, Stages
    <3>3. Holds(w) /\ hand[w] \in Msg /\ hand[w].id = m.id /\ hand[w].form = m.form
      BY <1>1, <1>2, <1>3, <3>1, <3>2, HandTyped DEF Holds
    <3> QED BY <2>2, <3>1, <3>3 DEF At
  <2> QED BY <2>1, <2>2
<1> SUFFICES ASSUME NEW s \in 0 .. 9, NEW t \in 0 .. 9, NEW k \in Nat, NEW l \in Nat,
                    NEW m \in Msg, NEW n \in Msg,
                    At(s, k, m)', At(t, l, n)', m.form.pay = n.form.pay, Ahead(s, k, t, l)
             PROVE  Before(m.id, n.id)'
  BY DEF InOrder, Ahead
<1> SUFFICES Before(m.id, n.id)
  BY <1>1 DEF Before
<1>5. PICK o \in Msg : At(s, k, o) /\ o.id = m.id /\ o.form = m.form
  BY <1>4
<1>6. PICK u \in Msg : At(t, l, u) /\ u.id = n.id /\ u.form = n.form
  BY <1>4
<1> QED BY <1>5, <1>6 DEF InOrder

\* What tcpclient sends is behind all that was sent.
LEMMA OrderSends ==
  ASSUME TypeOK, InOrder, Sends
  PROVE  InOrder'
<1> DEFINE h == hand["to"]
           e == Len(net) + 1
<1>1. /\ \A k \in DOMAIN net' :
           \/ k \in DOMAIN net /\ net'[k] = net[k]
           \/ k = e /\ net'[k] = h
      /\ \A w \in Workers : hand'[w] = IF w = "to" THEN Nothing ELSE hand[w]
      /\ h \in Msg
  BY SendShape
<1>2. Holds("to") /\ UNCHANGED <<fila, arrived>>
  BY DEF Sends
<1>3. At(1, 0, h) /\ h \in Msg /\ 1 \in 0 .. 9 /\ 0 \in 0 .. 9 /\ 0 \in Nat
  BY <1>1, <1>2, Way DEF At, HandStages
<1>4. ASSUME NEW s \in 0 .. 9, NEW k \in Nat, NEW m \in Msg, At(s, k, m)'
      PROVE  (At(s, k, m) /\ s # 1) \/ (s = 0 /\ k = e /\ m = h)
  <2>1. CASE s = 0
    BY <1>1, <1>4, <2>1 DEF At, QueueStages, HandStages
  <2>2. CASE s \in QueueStages
    BY <1>2, <1>4, <2>2, Stages DEF At, HandStages
  <2>3. CASE s \in HandStages
    <3>1. PICK w \in HandsAt(s, m.form) : k = 0 /\ hand'[w] # Nothing /\ m = hand'[w]
      BY <1>4, <2>3, Stages DEF At, Holds
    <3>2. w \in Workers /\ w # "to" /\ Holds(w) /\ m = hand[w]
      BY <1>1, <2>3, <3>1, Stages DEF Holds
    <3>3. s # 1
      BY <3>1, <3>2, Way
    <3> QED BY <2>3, <3>1, <3>2, <3>3 DEF At
  <2> QED BY <2>1, <2>2, <2>3, Stages
<1>5. \A k : At(0, k, h) => k \in DOMAIN net
  BY DEF At, QueueStages, HandStages
<1> SUFFICES ASSUME NEW s \in 0 .. 9, NEW t \in 0 .. 9, NEW k \in Nat, NEW l \in Nat,
                    NEW m \in Msg, NEW n \in Msg,
                    At(s, k, m)', At(t, l, n)', m.form.pay = n.form.pay, Ahead(s, k, t, l)
             PROVE  Before(m.id, n.id)'
  BY DEF InOrder, Ahead
<1> SUFFICES Before(m.id, n.id)
  BY <1>2 DEF Before
<1>6. CASE At(s, k, m) /\ At(t, l, n)
  BY <1>6 DEF InOrder
<1>7. CASE At(s, k, m) /\ s # 1 /\ t = 0 /\ l = e /\ n = h
  <2>1. Ahead(s, k, 1, 0)
    BY <1>7 DEF Ahead
  <2> HIDE DEF h
  <2> QED BY <1>3, <1>7, <2>1 DEF InOrder
<1>8. CASE s = 0 /\ k = e /\ m = h /\ At(t, l, n) /\ t # 1
  <2>1. t # 0
    <3> SUFFICES ASSUME t = 0 PROVE FALSE
      OBVIOUS
    <3>1. l \in DOMAIN net
      BY <1>8 DEF At, QueueStages, HandStages
    <3>2. l > e
      BY <1>8 DEF Ahead
    <3> QED BY <3>1, <3>2 DEF TypeOK
  <2>2. Ahead(1, 0, t, l)
    BY <1>8, <2>1 DEF Ahead
  <2> HIDE DEF h
  <2> QED BY <1>3, <1>8, <2>2 DEF InOrder
<1>9. ~(s = 0 /\ k = e /\ t = 0 /\ l = e)
  BY DEF Ahead
<1> QED BY <1>4, <1>6, <1>7, <1>8, <1>9

\* What is lost is ahead of nothing.
LEMMA OrderLoses ==
  ASSUME TypeOK, InOrder, Loses
  PROVE  InOrder'
<1>1. /\ \A w \in Workers : hand'[w] \in {hand[w], Nothing}
      /\ UNCHANGED <<fila, arrived, net>>
  BY DEF Loses
<1>2. ASSUME NEW s \in 0 .. 9, NEW k \in Nat, NEW m \in Msg, At(s, k, m)'
      PROVE  At(s, k, m)
  <2>1. CASE s \notin HandStages
    BY <1>1, <1>2, <2>1 DEF At
  <2>2. CASE s \in HandStages
    <3>1. PICK w \in HandsAt(s, m.form) : k = 0 /\ hand'[w] # Nothing /\ m = hand'[w]
      BY <1>2, <2>2, Stages DEF At, Holds
    <3>2. Holds(w) /\ m = hand[w]
      BY <1>1, <2>2, <3>1, Stages DEF Holds
    <3> QED BY <2>2, <3>1, <3>2 DEF At
  <2> QED BY <2>1, <2>2
<1> SUFFICES ASSUME NEW s \in 0 .. 9, NEW t \in 0 .. 9, NEW k \in Nat, NEW l \in Nat,
                    NEW m \in Msg, NEW n \in Msg,
                    At(s, k, m)', At(t, l, n)', m.form.pay = n.form.pay, Ahead(s, k, t, l)
             PROVE  Before(m.id, n.id)'
  BY DEF InOrder, Ahead
<1> SUFFICES Before(m.id, n.id)
  BY <1>1 DEF Before
<1> QED BY <1>2 DEF InOrder

\* Requests keep to the authoriser of their form.
LEMMA AuthoriserStep ==
  ASSUME TypeOK, RightAuthoriser, Move
  PROVE  RightAuthoriser'
<1>1. CASE Arrives
  BY <1>1, ArriveShape, Desks DEF Arrives, RightAuthoriser, Holds
<1>2. CASE Takes
  <2>1. PICK p \in Workers, q \in Queues : LeFila(p, q) /\ (p \in Backends => q = Input(p))
    BY <1>2, SwitchAssumption DEF Takes, Backends
  <2>2. /\ \A r \in Queues : \A i \in DOMAIN fila'[r] :
             \E j \in DOMAIN fila[r] : fila'[r][i] = fila[r][j]
        /\ \A w \in Workers : hand'[w] = IF w = p THEN fila[q][1] ELSE hand[w]
        /\ 1 \in DOMAIN fila[q]
    BY <2>1, TakeShape
  <2> QED BY <2>1, <2>2, Desks DEF RightAuthoriser, Holds
<1>3. CASE Passes
  <2>1. PICK p \in Workers, q \in Queues, m \in Msg :
          GravaFila(q, m) /\ Drop(p) /\ (q \in AskQueues => q = Backend(m.form))
    BY <1>3, Desks DEF Passes, Passage
  <2>2. /\ \A r \in Queues : \A i \in DOMAIN fila'[r] :
             \/ i \in DOMAIN fila[r] /\ fila'[r][i] = fila[r][i]
             \/ r = q /\ fila'[r][i] = m
        /\ \A w \in Workers : hand'[w] = IF w = p THEN Nothing ELSE hand[w]
    BY <2>1, PassShape
  <2> QED BY <2>1, <2>2, Desks DEF RightAuthoriser, Holds
<1>4. CASE Responds
  <2>1. PICK b \in Backends, m \in Msg :
          /\ Holds(b) /\ m.form = hand[b].form
          /\ hand' = [hand EXCEPT ![b] = m] /\ UNCHANGED fila
    BY <1>4 DEF Responds
  <2>2. \A w \in Workers : hand'[w] = IF w = b THEN m ELSE hand[w]
    BY <2>1 DEF TypeOK
  <2> QED BY <2>1, <2>2, Desks DEF RightAuthoriser, Holds
<1>5. CASE Sends
  BY <1>5, SendShape, Desks DEF Sends, RightAuthoriser, Holds
<1>6. CASE Loses
  BY <1>6, Desks DEF Loses, RightAuthoriser, Holds
<1> QED BY <1>1, <1>2, <1>3, <1>4, <1>5, <1>6 DEF Move

\* Every step keeps the order, while one inbound half at a time has a request.
LEMMA OrderStep ==
  ASSUME IInv, OrderInv, OneReader, [Next]_vars
  PROVE  OrderInv'
<1>1. TypeOK /\ Move
  BY StepMoves DEF IInv
<1>2. RightAuthoriser'
  BY <1>1, AuthoriserStep DEF OrderInv
<1>3. ArrivedOnce'
  <2>1. CASE Arrives
    BY <2>1, OrderArrives
  <2>2. CASE arrived' = arrived
    BY <2>2 DEF OrderInv, ArrivedOnce
  <2> QED BY <1>1, <2>1, <2>2 DEF Move, Takes, Passes, Responds, Sends, Loses
<1>4. InOrder'
  BY <1>1, OrderArrives, OrderTakes, OrderPasses, OrderResponds, OrderSends, OrderLoses
  DEF Move, OrderInv
<1> QED BY <1>2, <1>3, <1>4 DEF OrderInv

\* In order on the way is in order on the line.
LEMMA OrderOut ==
  ASSUME TypeOK, OrderInv
  PROVE  OrderKept
<1> SUFFICES ASSUME NEW i \in DOMAIN net, NEW j \in DOMAIN net, i < j,
                    net[i].form.pay = net[j].form.pay
             PROVE  Place(net[i].id) < Place(net[j].id)
  BY DEF OrderKept
<1>1. net \in Seq(Msg) /\ arrived \in Seq(Ids)
  BY DEF TypeOK
<1>2. /\ At(0, i, net[i]) /\ At(0, j, net[j]) /\ Ahead(0, i, 0, j)
      /\ i \in Nat /\ j \in Nat /\ net[i] \in Msg /\ net[j] \in Msg
  BY <1>1 DEF At, Ahead
<1>3. Before(net[i].id, net[j].id)
  BY <1>2 DEF OrderInv, InOrder
<1>4. PICK a \in DOMAIN arrived, b \in DOMAIN arrived :
        a < b /\ arrived[a] = net[i].id /\ arrived[b] = net[j].id
  BY <1>3 DEF Before
<1>5. \A c \in DOMAIN arrived : Place(arrived[c]) = c
  BY DEF Place, OrderInv, ArrivedOnce
<1> QED BY <1>4, <1>5

\* The answers of one authoriser leave in the order their requests came, as long
\* as no two inbound halves of fmt have a request each: whatever else dies and
\* is restarted, and however many requests are lost on the way.  An orphan
\* beside its successor breaks the order.
THEOREM OrderHolds == Spec /\ []OneReader => []OrderKept
<1>1. Init => OrderInv
  <2> SUFFICES ASSUME Init PROVE OrderInv
    OBVIOUS
  <2>1. /\ \A q \in Queues : fila[q] = <<>>
        /\ \A p \in Workers : ~Holds(p)
        /\ net = <<>> /\ arrived = <<>>
    BY DEF Init, Holds
  <2>2. \A s \in 0 .. 9, k \in Nat, m \in Msg : ~At(s, k, m)
    BY <2>1, Stages DEF At
  <2>3. RightAuthoriser
    BY <2>1, Desks DEF RightAuthoriser
  <2>4. InOrder
    BY <2>2 DEF InOrder
  <2> QED BY <2>1, <2>3, <2>4 DEF OrderInv, ArrivedOnce
<1>2. IInv /\ OrderInv /\ OneReader /\ [Next]_vars => OrderInv'
  BY OrderStep
<1>3. IInv /\ OrderInv => OrderKept
  BY OrderOut DEF IInv
<1> QED BY <1>1, <1>2, <1>3, Invariance, PTL DEF Spec

-----------------------------------------------------------------------------
(* One inbound half at a time. *)

\* A half that has a request runs.
HeldAlive == \A n \in Inbounds : Holds(n) => n \in alive

LEMMA HeldAliveStep ==
  ASSUME TypeOK, HeldAlive, [Next]_vars
  PROVE  HeldAlive'
<1>0. /\ \A n \in Inbounds : n \in Workers /\ n \notin {"from", "to", "out", "auth", "paybal", "log"}
      /\ \A b \in Backends : b \notin Inbounds
  BY Names, SwitchAssumption DEF Backends
<1> SUFFICES ASSUME NEW n \in Inbounds, hand'[n] # Nothing PROVE n \in alive'
  BY DEF HeldAlive, Holds
<1>1. hand[n] # Nothing => n \in alive
  BY DEF HeldAlive, Holds
<1>2. CASE UNCHANGED vars
  BY <1>1, <1>2 DEF vars
<1>3. CASE \/ \E id \in Ids, f \in Traffic : RcvFromNet(id, f)
           \/ FromNet \/ ToNet \/ RcvGivesUp \/ LineFails \/ TcpKilled \/ TcpExits
           \/ OperatorRestartsTcp \/ LogReads
  <2>1. alive' = alive
    BY <1>3 DEF RcvFromNet, FromNet, ToNet, ToNetReads, ToNetRefuses, SendToNet, SendFails,
                RcvGivesUp, LineFails, TcpKilled, TcpExits, OperatorRestartsTcp, LogReads, procs
  <2>2. hand'[n] = hand[n]
    BY <1>0, <1>3 DEF TypeOK, RcvFromNet, FromNet, ToNet, ToNetReads, ToNetRefuses, SendToNet,
                SendFails, RcvGivesUp, LineFails, TcpKilled, TcpExits, OperatorRestartsTcp, LogReads, LeFila, Drop
  <2> QED BY <1>1, <2>1, <2>2
<1>4. ASSUME NEW p \in Inbounds \cup {"out"}, FmtExit(p) PROVE n \in alive'
  BY <1>0, <1>1, <1>4 DEF FmtExit, Drop, TypeOK
<1>5. ASSUME NEW i \in Inbounds, Inbound(i) PROVE n \in alive'
  <2>1. CASE InFull(i) \/ InFaults(i)
    BY <1>4, <2>1 DEF InFull, InFaults
  <2>2. CASE InReads(i)
    BY <1>0, <1>1, <2>2 DEF InReads, LeFila, TypeOK, procs
  <2>3. CASE InDrops(i) \/ InFileUpdate(i) \/ InEcho(i) \/ InForwards(i)
    <3>1. alive' = alive /\ Drop(i)
      BY <2>3 DEF InDrops, InFileUpdate, InEcho, InForwards, procs
    <3> QED BY <1>0, <1>1, <3>1 DEF Drop, TypeOK
  <2> QED BY <1>5, <2>1, <2>2, <2>3 DEF Inbound
<1>6. CASE Out
  <2>1. CASE OutFaults \/ OutFull
    BY <1>4, <2>1 DEF OutFaults, OutFull
  <2>2. CASE OutReads \/ OutIgnores \/ OutRaw \/ OutDiscards \/ OutSends
    <3>1. alive' = alive
      BY <2>2 DEF OutReads, OutIgnores, OutRaw, OutDiscards, OutSends, procs
    <3>2. hand'[n] = hand[n]
      BY <1>0, <2>2 DEF OutReads, OutIgnores, OutRaw, OutDiscards, OutSends, LeFila, Drop, TypeOK
    <3> QED BY <1>1, <3>1, <3>2
  <2> QED BY <1>6, <2>1, <2>2 DEF Out
<1>7. ASSUME NEW p \in Inbounds \cup {"out"}, FmtSignalled(p) PROVE n \in alive'
  BY <1>4, <1>7 DEF FmtSignalled
<1>8. ASSUME NEW b \in Backends, BackendStep(b) PROVE n \in alive'
  <2>1. n # b
    BY <1>0
  <2>2. alive' \in {alive, alive \ {b}}
    BY <1>8 DEF BackendStep, BackendReads, Authorizes, CallFails, Respond, BackendSends,
                BackendFull, procs
  <2>3. hand'[n] = hand[n]
    BY <1>0, <1>8, <2>1 DEF BackendStep, BackendReads, Authorizes, CallFails, Respond,
                BackendSends, BackendFull, LeFila, Drop, TypeOK
  <2> QED BY <1>1, <2>1, <2>2, <2>3
<1>9. ASSUME NEW p \in Servers, Killed(p) \/ Restarts(p) PROVE n \in alive'
  BY <1>0, <1>1, <1>9 DEF Killed, Restarts
<1>10. CASE RestartsFmt
  BY <1>1, <1>10 DEF RestartsFmt
<1> QED BY <1>2, <1>3, <1>5, <1>6, <1>7, <1>8, <1>9, <1>10 DEF Next

\* As long as the outbound half lives fmt is not started again, and the inbound
\* half is the one it forked.
LEMMA OneReaderStep ==
  ASSUME TypeOK, "out" \in alive, [Next]_vars, \A n \in Inbounds \cap alive : n = child
  PROVE  \A n \in Inbounds \cap alive' : n = child'
<1>1. CASE RestartsFmt
  BY <1>1 DEF RestartsFmt
<1>2. ASSUME NEW p \in Inbounds \cup {"out"}, FmtExit(p), child' = child
      PROVE  \A n \in Inbounds \cap alive' : n = child'
  BY <1>2 DEF FmtExit
<1>3. ASSUME NEW p \in Servers, Killed(p)
      PROVE  \A n \in Inbounds \cap alive' : n = child'
  BY <1>3 DEF Killed
<1> QED BY <1>1, <1>2, <1>3, ProcessStep

\* Until the outbound half of fmt dies, answers leave in order, whatever
\* becomes of tcpclient and of the authorisers.
COROLLARY OrderUntilRestart == Spec /\ []("out" \in alive) => []OrderKept
<1> DEFINE Only == \A n \in Inbounds \cap alive : n = child
<1>1. Init => HeldAlive /\ Only
  <2> SUFFICES ASSUME Init PROVE HeldAlive /\ Only
    OBVIOUS
  <2>1. HeldAlive
    BY Names DEF Init, HeldAlive, Holds
  <2>2. Only
    BY SwitchAssumption DEF Init
  <2> QED BY <2>1, <2>2
<1>2. TypeOK /\ HeldAlive /\ [Next]_vars => HeldAlive'
  BY HeldAliveStep
<1>3. TypeOK /\ "out" \in alive /\ Only /\ [Next]_vars => Only'
  BY OneReaderStep
<1>4. HeldAlive /\ Only => OneReader
  BY DEF HeldAlive, OneReader
<1> QED BY <1>1, <1>2, <1>3, <1>4, TypeCorrect, OrderHolds, PTL DEF Spec
===============================================================================
