--------------------------- MODULE SwitchProperties ---------------------------
(***************************************************************************)
(* What the switch promises the network, and what its own comments say of  *)
(* it, over the processes of module Switch.                                *)
(***************************************************************************)
EXTENDS Switch

-----------------------------------------------------------------------------
(* Safety, with every process free to die at any step.                     *)

\* A request is answered at most once, whatever dies, restarts or is left
\* running beside its successor: leFila hands each message to one process, and
\* no handler of tcpclient, fmt, auth or paybal queues one twice.
AnsweredOnce ==
  \A i, j \in DOMAIN net : net[i].id = net[j].id => i = j

\* An approval (0110 with response code 0) leaves only for a request the
\* database approved: with an authorisation number, unless paybal answered it
\* (auth.c:388 declines an approval without a number).
Approval(m) == m.mt = 110 /\ m.rc = "approved"
Backs(r, m) == r = "approved" \/ (m.form.pay /\ r = "nonumber")

ApprovalBacked ==
  \A i \in DOMAIN net : Approval(net[i]) => Backs(db[net[i].id], net[i])

\* The database decides a request once: a request whose authoriser died after
\* the call is not presented again when launch restarts it.
DecidedOnce ==
  [][\A id \in Ids : db[id] # "none" => db'[id] = db[id]]_vars

\* The processes, their queue and launch together implement the service: what
\* they do to the requests, the database and the line is one step of
\* SwitchService at a time, or nothing at all.  The state of the service is the
\* part of the switch's state the network and the database see.
Service == INSTANCE SwitchService WITH Answers <- Msg, Results <- DbResults

ImplementsService == Service!Spec

\* An outbound half that sends with no inbound half beside it, and has no signal
\* it would exit on.
Deaf == "out" \in alive /\ child \notin alive /\ "out" \notin sig

\* fmt is left sending but deaf only if launch had started it again, and a kill
\* took its inbound half: a half that goes through fmtexit always tells the other
\* (fmt.c:75), and a killed one is heard of by SIGCHLD, which the first fmt does
\* not block and those forked in launch's handler do (launch.c:190).
NeverDeaf == Deaf => masked /\ crashes > 0

\* As long as nothing is killed from outside, every inbound half has its
\* outbound half, or a SIGTERM it will exit on: no half outlives fmt and reads
\* requests beside its successor's (fmt.c:79-84).
NoOrphan ==
  crashes = 0 =>
    \A n \in Inbounds \cap alive : n \in sig \/ (n = child /\ "out" \in alive)

\* v_out.c:66, "This should never get here (302/312)": no file update reaches
\* the queue of the outbound half.
NoFileUpdateOut ==
  \A i \in DOMAIN fila["FORMOUTQ"] : fila["FORMOUTQ"][i].mt \notin FileUpdates

\* What is sent in answer to a request the network did not reject is the
\* response of that request's type, whatever the halves of fmt and the
\* authorisers made of the type on the way (cardco.h:62, "A response has an odd
\* digit in the 10's position"; v_out.c:71 turns financial requests into
\* authorisation requests).
AnswerMatches ==
  \A i \in DOMAIN net :
    LET f == net[i].form IN
      ~f.rej /\ ~IsResponse(f.mt) => net[i].mt = f.mt + 10 /\ IsResponse(net[i].mt)

\* As long as the line holds, nothing is killed and no header ends the
\* connection (sockhelp.c:181), tcpclient runs, but for a struct internalmsg at the
\* head of DRIVERQ: of what the switch itself does only fmt's queueing in the
\* wrong format ends it (v_in.c:156, v_out.c:82, tcpclient.c:107).
OnlyPoison ==
  tcp # "up" /\ crashes = 0 /\ cuts = 0 =>
    fila["DRIVERQ"] # <<>> /\ Head(fila["DRIVERQ"]).raw

\* The answers of one authoriser leave in the order their requests came in,
\* through four queues, three processes and the merge with the other
\* authoriser's answers.
Place(id) == CHOOSE i \in DOMAIN arrived : arrived[i] = id

OrderKept ==
  \A i, j \in DOMAIN net :
    i < j /\ net[i].form.pay = net[j].form.pay => Place(net[i].id) < Place(net[j].id)

\* Where a message still may be answered from: a queue that is read, or a hand.
Waits(q, id) == id \in {fila[q][i].id : i \in DOMAIN fila[q]}
Within(id) ==
  \/ \E q \in Queues \ {"FUPDQ"} : Waits(q, id)
  \/ \E p \in Workers : hand[p] # Nothing /\ hand[p].id = id

Came(id)     == id \in {arrived[i] : i \in DOMAIN arrived}
Answered(id) == id \in {net[i].id : i \in DOMAIN net}

\* Requests that came and are nowhere they could be answered from.
Lost == {id \in Ids : Came(id) /\ ~Within(id) /\ ~Answered(id)}

\* No request is lost on its way through six handlers and five queues, but for
\* one answer, the one ToNet holds, each time a header ends the connection; what
\* waits in DRIVERQ waits for the next tcpclient (tcpclient.c:89, 112, 117).  This
\* is so when the traffic is such that the switch has an answer for it
\* (Answerable), nothing is killed and there is room (Unhurt).
Accounted == Cardinality(Lost) <= cuts

\* The type an authoriser is asked with.
AskedMt(f) == IF Rejected(f) THEN RejectType(InType(f)) ELSE InType(f)

\* A message of this form goes to an authoriser without a look-up, and its
\* answer has a type that fmt formats, and sends whatever ret happens to be.
Answerable(f) ==
  /\ f.ok /\ f.mt \notin FileUpdates
  /\ Rejected(f) \/ (Passed(f) /\ ~IsEcho(f) /\ ~Looks(f))
  /\ LET t == ResponseType(AskedMt(f))
     IN  ~Is03xx(t) /\ ~(IsReversal(t) /\ f.bal) /\ OutType(t) \in Mapped \ RetUndefined

\* Nothing was killed, and there is room for a struct behind a step's log lines.
Unhurt == crashes = 0 /\ Room(CoreSize)

-----------------------------------------------------------------------------
(* Liveness.  Every process runs while it lives, a signal sent is          *)
(* delivered, the database answers, and launch restarts what died; the     *)
(* network, the operator and the killers of processes owe nothing.         *)

Fairness ==
  /\ WF_vars(FromNet) /\ WF_vars(ToNet) /\ WF_vars(TcpExits)
  /\ \A n \in Inbounds : WF_vars(Inbound(n))
  /\ WF_vars(Out)
  /\ \A p \in Inbounds \cup {"out"} : WF_vars(FmtSignalled(p))
  /\ \A b \in Backends : WF_vars(BackendStep(b))
  /\ WF_vars(LogReads)
  /\ \A p \in Servers : WF_vars(Restarts(p))
  /\ WF_vars(RestartsFmt)

FairSpec == Spec /\ Fairness

\* A request that came in is answered, when nothing dies and the queue has
\* room.  A header that ends the connection stops its answer no earlier than at
\* the line: in the queue of the next tcpclient, or in ToNet's hand.
EveryoneAnswered ==
  \A id \in Ids :
    Came(id) ~> Answered(id) \/ (cuts > 0 /\ (Waits("DRIVERQ", id) \/ id \in Lost))

\* What a process left behind when it died is taken up by the one launch
\* started in its place: no message stays in a queue of fmt or of an
\* authoriser, unless fmt is left deaf.
BacklogTaken ==
  \A q \in {"FORMINQ", "FORMOUTQ", "AUTHQ", "PAYBAL"} :
    fila[q] # <<>> ~> fila[q] = <<>> \/ (q = "FORMINQ" /\ Deaf)

\* v_in.c:792, an answer of ours that the network rejects "was reversed on the
\* other side and so we must do the same here": it reaches the authoriser as a
\* reversal.
RejectReversed ==
  \A id \in Ids :
    (hand["from"] # Nothing /\ hand["from"].id = id
       /\ hand["from"].form.rej /\ hand["from"].mt = 110 /\ hand["from"].form.ok)
    ~> \E b \in Backends : b \in alive /\ hand[b] # Nothing /\ hand[b].id = id /\ hand[b].mt = 400

\* A fmt that lost a half is whole again, unless it is one that launch started
\* again and does not hear of the kill.
FmtComesBack ==
  ("out" \notin alive \/ child \notin alive) ~>
    (("out" \in alive /\ child \in alive) \/ (Deaf /\ masked))

-----------------------------------------------------------------------------
(* What the comments say.                                                  *)

\* v_in.c:153, "Mensagem de eco. Devolve para a rede": an echo goes back.
EchoReturned ==
  \A id \in Ids : Waits("FORMINQ", id) ~> Answered(id)

\* v_out.c:126-127, "Unable to get bitmap for %d" and on to the next message:
\* the outbound half that gives up a type without a bitmap goes on running.
NoBitmapSkipped ==
  [][ /\ hand["out"] # Nothing /\ hand'["out"] = Nothing
      /\ OutType(hand["out"].mt) \notin Mapped
      => "out" \in alive' ]_vars

\* v_out.c:51, "If this was a reject message then ignore it": nothing is sent
\* in answer to a message the network rejected.
RejectsIgnored ==
  \A i \in DOMAIN net : ~net[i].form.rej
===============================================================================
