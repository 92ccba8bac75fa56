-------------------------------- MODULE Switch --------------------------------
(***************************************************************************)
(* The processes of the switch around their one System V message queue:    *)
(* tcpclient (two threads), the two halves of fmt, auth, paybal and log,   *)
(* and what launch restarts.  Every handler takes one message off the      *)
(* queue with leFila, works on it, and hands it on with gravaFila; a       *)
(* process may die between any two of these steps, and what it held is     *)
(* lost with it.                                                           *)
(*                                                                         *)
(* The log lines a step writes stand as one entry of LOGQ: they take room  *)
(* from everybody else, and are dropped when there is none.                *)
(***************************************************************************)
EXTENDS MsgTypes, Sequences, FiniteSets

CONSTANTS
  Ids,        \* the messages the network may send, one each
  Traffic,    \* the forms they may have
  Inbounds,   \* slots for inbound halves of fmt (bound on the live ones)
  Nothing,    \* an empty hand
  Capacity,   \* room in the message queue (msg_qbytes)
  WireSize,   \* room taken by a message in network format,
  CoreSize,   \*   by a struct internalmsg,
  LogSize,    \*   and by the log lines of one step
  DriverBuf,  \* the buffer ToNet reads into (1024 bytes)
  HasArea,    \* criaStorage found its key file and attached the event table
  MaxCrashes, \* bound: kills and line failures from outside the code
  MaxCuts     \* bound: headers from the network that end the connection

ASSUME SwitchAssumption ==
  /\ Traffic \subseteq Forms
  /\ Inbounds # {} /\ Inbounds \cap {"from", "to", "out", "auth", "paybal", "log"} = {}
  /\ Capacity \in Nat /\ WireSize \in Nat /\ CoreSize \in Nat /\ LogSize \in Nat
  /\ DriverBuf \in Nat /\ WireSize <= DriverBuf /\ DriverBuf < CoreSize
  /\ HasArea \in BOOLEAN /\ MaxCrashes \in Nat /\ MaxCuts \in Nat

Queues    == {"FORMINQ", "FORMOUTQ", "AUTHQ", "DRIVERQ", "FUPDQ", "PAYBAL"}
Backends  == {"auth", "paybal"}
Servers   == Inbounds \cup {"out", "auth", "paybal", "log"}   \* processes launch is behind
Workers   == Inbounds \cup {"from", "to", "out", "auth", "paybal"}  \* holders of messages

RespCodes == {"none", "reject", "approved", "declined", "noreversal", "syserr"}
DbResults == {"approved", "nonumber", "declined", "noreversal"}

Msg == [id : Ids, form : Traffic, mt : Nat, rc : RespCodes, raw : BOOLEAN]

ASSUME NothingIsNoMessage == Nothing \notin Msg

VARIABLES
  fila,     \* the message queue: what is queued of each type but LOGQ
  logq,     \* how many entries of LOGQ are queued
  hand,     \* the message each worker took and has not passed on
  decided,  \* authorisers whose call to the database returned
  alive,    \* processes that run, tcpclient aside
  sig,      \* processes with a SIGTERM or SIGCHLD they will exit on
  child,    \* the inbound half that the outbound half forked last
  masked,   \* the outbound half runs with SIGCHLD blocked
  tcp,      \* tcpclient: "up", a thread of it in termina, or "dead"
  db,       \* what the database decided for each request
  arrived,  \* the requests in the order they came off the line
  net,      \* the messages sent, in order
  crashes,  \* kills and line failures so far
  cuts      \* headers so far that ended the connection

vars == <<fila, logq, hand, decided, alive, sig, child, masked, tcp, db, arrived, net,
          crashes, cuts>>

procs   == <<alive, sig, child, masked>>
history == <<db, arrived, net>>

TypeOK ==
  /\ fila \in [Queues -> Seq(Msg)]
  /\ logq \in Nat
  /\ hand \in [Workers -> Msg \cup {Nothing}]
  /\ decided \in SUBSET Backends
  /\ alive \in SUBSET Servers
  /\ sig \in SUBSET Servers
  /\ child \in Inbounds /\ masked \in BOOLEAN
  /\ tcp \in {"up", "fromEnds", "toEnds", "dead"}
  /\ db \in [Ids -> DbResults \cup {"none"}]
  /\ arrived \in Seq(Ids)
  /\ net \in Seq(Msg)
  /\ crashes \in 0 .. MaxCrashes /\ cuts \in 0 .. MaxCuts

Init ==
  /\ fila = [q \in Queues |-> <<>>]
  /\ logq = 0
  /\ hand = [p \in Workers |-> Nothing]
  /\ decided = {}
  /\ \E n \in Inbounds : alive = {n, "out", "auth", "paybal", "log"} /\ child = n
  /\ sig = {}
  /\ tcp = "up"
  /\ db = [id \in Ids |-> "none"]
  /\ arrived = <<>>
  /\ net = <<>>
  /\ masked = FALSE
  /\ crashes = 0 /\ cuts = 0

-----------------------------------------------------------------------------
(* The message queue.  All types share its room, gravaFila never waits for *)
(* room, and msgrcv refuses a message longer than the reader's buffer and  *)
(* leaves it at the head of its type.                                      *)

RawIn(q) == Cardinality({i \in DOMAIN fila[q] : fila[q][i].raw})

Used ==
  LogSize * logq
  + WireSize * (Len(fila["FORMINQ"]) + Len(fila["FUPDQ"])
                + Len(fila["DRIVERQ"]) - RawIn("DRIVERQ"))
  + CoreSize * (Len(fila["AUTHQ"]) + Len(fila["PAYBAL"])
                + Len(fila["FORMOUTQ"]) + RawIn("DRIVERQ"))

LogLines == IF Used + LogSize <= Capacity THEN 1 ELSE 0

\* logMsg, the lines a step writes before its own message.
LogMsg == logq' = logq + LogLines

\* msgsnd would accept a message of this size after the step's log lines, and
\* in a step that logs nothing before it.
Room(size)    == Used + LogSize * LogLines + size <= Capacity
RoomNow(size) == Used + size <= Capacity

\* Mutant of GravaFila: the newest message goes first.
GravaFilaFirst(q, m) == fila' = [fila EXCEPT ![q] = <<m>> \o @]

GravaFila(q, m) == fila' = [fila EXCEPT ![q] = Append(@, m)]

\* gravaFila with its result ignored: without room the message is gone.
GravaOuPerde(q, m, size) ==
  \/ Room(size) /\ GravaFila(q, m)
  \/ ~Room(size) /\ UNCHANGED fila

\* Worker p takes the first message of type q.
LeFila(p, q) ==
  /\ hand[p] = Nothing
  /\ fila[q] # <<>>
  /\ hand' = [hand EXCEPT ![p] = Head(fila[q])]
  /\ fila' = [fila EXCEPT ![q] = Tail(@)]

Drop(p) == hand' = [hand EXCEPT ![p] = Nothing]

-----------------------------------------------------------------------------
(* tcpclient.  A thread that fails goes through termina: the socket is     *)
(* closed, the thread sleeps, and then the whole process exits; until then *)
(* the other thread still runs.                                            *)

RcvFromNet(id, f) ==
  /\ tcp = "up"
  /\ hand["from"] = Nothing
  /\ id \notin {arrived[i] : i \in DOMAIN arrived}
  /\ arrived' = Append(arrived, id)
  /\ hand' = [hand EXCEPT !["from"] =
       [id |-> id, form |-> f, mt |-> f.mt, rc |-> "none", raw |-> FALSE]]
  /\ UNCHANGED <<fila, logq, decided, alive, sig, child, masked, tcp, db, net, crashes, cuts>>

\* FromNet ignores the result of gravaFila.
FromNet ==
  /\ tcp # "dead"
  /\ hand["from"] # Nothing
  /\ GravaOuPerde("FORMINQ", hand["from"], WireSize)
  /\ LogMsg
  /\ Drop("from")
  /\ UNCHANGED <<decided, procs, tcp, history, crashes, cuts>>

\* Mutant of ToNetReads: the thread whose write failed goes on reading.
ToNetReadsOn ==
  /\ tcp # "dead"
  /\ fila["DRIVERQ"] # <<>>
  /\ ~Head(fila["DRIVERQ"]).raw
  /\ LeFila("to", "DRIVERQ")
  /\ UNCHANGED <<logq, decided, procs, tcp, history, crashes, cuts>>

ToNetReads ==
  /\ tcp \in {"up", "fromEnds"}
  /\ fila["DRIVERQ"] # <<>>
  /\ ~Head(fila["DRIVERQ"]).raw
  /\ LeFila("to", "DRIVERQ")
  /\ UNCHANGED <<logq, decided, procs, tcp, history, crashes, cuts>>

\* Mutant of ToNetRefuses: ToNet gives up on any message.
ToNetGivesUp ==
  /\ tcp \in {"up", "fromEnds"}
  /\ hand["to"] = Nothing
  /\ fila["DRIVERQ"] # <<>>
  /\ tcp' = "toEnds"
  /\ UNCHANGED <<fila, logq, hand, decided, procs, history, crashes, cuts>>

\* E2BIG: the message stays where it is and ToNet gives the process up.
ToNetRefuses ==
  /\ tcp \in {"up", "fromEnds"}
  /\ hand["to"] = Nothing
  /\ fila["DRIVERQ"] # <<>>
  /\ Head(fila["DRIVERQ"]).raw
  /\ tcp' = "toEnds"
  /\ UNCHANGED <<fila, logq, hand, decided, procs, history, crashes, cuts>>

SendToNet ==
  /\ tcp = "up"
  /\ hand["to"] # Nothing
  /\ net' = Append(net, hand["to"])
  /\ Drop("to")
  /\ UNCHANGED <<fila, logq, decided, procs, tcp, db, arrived, crashes, cuts>>

\* The other thread closed the socket: the write fails.
SendFails ==
  /\ tcp = "fromEnds"
  /\ hand["to"] # Nothing
  /\ tcp' = "toEnds"
  /\ Drop("to")
  /\ UNCHANGED <<fila, logq, decided, procs, history, crashes, cuts>>

\* A header that carries no message - a control header, a length of zero or
\* past 127, a type the reader does not know - counts as the end of the line.
RcvGivesUp ==
  /\ tcp = "up" /\ hand["from"] = Nothing
  /\ cuts < MaxCuts
  /\ tcp' = "fromEnds"
  /\ cuts' = cuts + 1
  /\ UNCHANGED <<fila, logq, hand, decided, procs, history, crashes>>

\* The line fails under a read, or under a write.
LineFails ==
  /\ tcp = "up"
  /\ crashes < MaxCrashes
  /\ \/ hand["from"] = Nothing /\ tcp' = "fromEnds" /\ UNCHANGED hand
     \/ hand["to"] # Nothing /\ tcp' = "toEnds" /\ Drop("to")
  /\ crashes' = crashes + 1
  /\ UNCHANGED <<fila, logq, decided, procs, history, cuts>>

TcpKilled ==
  /\ tcp # "dead"
  /\ crashes < MaxCrashes
  /\ tcp' = "dead"
  /\ hand' = [hand EXCEPT !["from"] = Nothing, !["to"] = Nothing]
  /\ crashes' = crashes + 1
  /\ UNCHANGED <<fila, logq, decided, procs, history, cuts>>

TcpExits ==
  /\ tcp \in {"fromEnds", "toEnds"}
  /\ tcp' = "dead"
  /\ hand' = [hand EXCEPT !["from"] = Nothing, !["to"] = Nothing]
  /\ UNCHANGED <<fila, logq, decided, procs, history, crashes, cuts>>

\* Nothing in the code starts tcpclient again; an operator may.
OperatorRestartsTcp ==
  /\ tcp = "dead"
  /\ tcp' = "up"
  /\ LogMsg
  /\ UNCHANGED <<fila, hand, decided, procs, history, crashes, cuts>>

-----------------------------------------------------------------------------
(* fmt.  A half that leaves its loop, or is hit by a signal, goes through  *)
(* fmtexit, which signals the other half: the parent signals the child it  *)
(* forked, and the child signals its parent, who also gets its SIGCHLD.    *)
(* A child whose parent is gone signals no one.                            *)

\* Mutants of Peer: only the parent signals its child, or only the child its
\* parent.
PeerOfParent(p) == IF p = "out" THEN {child} \cap alive ELSE {}
PeerOfChild(p)  == IF p = child THEN {"out"} \cap alive ELSE {}

Peer(p) == IF p = "out" THEN {child} \cap alive
           ELSE IF p = child THEN {"out"} \cap alive ELSE {}

FmtExit(p) ==
  /\ alive' = alive \ {p}
  /\ sig' = (sig \cup Peer(p)) \ {p}
  /\ Drop(p)

InReads(n) ==
  /\ n \in alive
  /\ LeFila(n, "FORMINQ")
  /\ UNCHANGED <<logq, decided, procs, tcp, history, crashes, cuts>>

\* Undecodable messages and rejects that call for nothing are thrown away.
InDrops(n) ==
  /\ n \in alive /\ hand[n] # Nothing
  /\ LET f == hand[n].form
     IN  f.ok => /\ f.mt \notin FileUpdates /\ ~Is03xx(f.mt)
                 /\ f.rej /\ InType(f) \notin RejectTypes
  /\ LogMsg /\ Drop(n)
  /\ UNCHANGED <<fila, decided, procs, tcp, history, crashes, cuts>>

\* do_file_update: support for 302/312 is off, they go to FUPDQ.
InFileUpdate(n) ==
  /\ n \in alive /\ hand[n] # Nothing
  /\ hand[n].form.ok /\ hand[n].mt \in FileUpdates
  /\ GravaOuPerde("FUPDQ", hand[n], WireSize)
  /\ LogMsg /\ Drop(n)
  /\ UNCHANGED <<decided, procs, tcp, history, crashes, cuts>>

Rejected(f)  == f.rej /\ ~Is03xx(f.mt) /\ InType(f) \in RejectTypes
Passed(f)    == f.ok /\ f.mt \notin FileUpdates /\ (Is03xx(f.mt) \/ ~f.rej)
Looks(f)     == Passed(f) /\ InType(f) \in LooksUpOriginal

\* The message as extern_inbound queues it.  get_original_message tests a
\* value no one returned and may turn a response into a 210.
InMessages(m) ==
  LET f == m.form IN
    IF Rejected(f)
    THEN {[m EXCEPT !.mt = RejectType(InType(f)), !.rc = RejectCode(InType(f))]}
    ELSE {[m EXCEPT !.mt = t] : t \in {InType(f)} \cup (IF Looks(f) THEN {210} ELSE {})}

\* A network echo request goes back: the struct itself is queued for the
\* line, and cardco_set_return_msgno changed a copy of it.
InEcho(n) ==
  /\ n \in alive /\ hand[n] # Nothing
  /\ Passed(hand[n].form) /\ IsEcho(hand[n].form)
  /\ GravaOuPerde("DRIVERQ", [hand[n] EXCEPT !.rc = "approved", !.raw = TRUE], CoreSize)
  /\ LogMsg /\ Drop(n)
  /\ UNCHANGED <<decided, procs, tcp, history, crashes, cuts>>

Backend(f) == IF f.pay THEN "PAYBAL" ELSE "AUTHQ"

\* The rest goes to an authoriser.
Forwards(n) ==
  /\ n \in alive /\ hand[n] # Nothing
  /\ LET f == hand[n].form
     IN  /\ f.ok /\ (Passed(f) \/ Rejected(f)) /\ f.mt \notin FileUpdates
         /\ ~(Passed(f) /\ IsEcho(f))
         /\ Looks(f) => HasArea
  /\ LogMsg
  /\ UNCHANGED <<decided, child, masked, tcp, history, crashes, cuts>>

InForwards(n) ==
  /\ Forwards(n)
  /\ Room(CoreSize)
  /\ \E m \in InMessages(hand[n]) : GravaFila(Backend(m.form), m)
  /\ Drop(n)
  /\ UNCHANGED <<alive, sig>>

\* Without room the inbound half leaves its loop, and takes fmt down.
InFull(n) ==
  /\ Forwards(n)
  /\ ~Room(CoreSize)
  /\ FmtExit(n)
  /\ UNCHANGED fila

\* Without the event table the look-up of a response's original faults.  With
\* it nothing is ever found, and the strings copied from the original nobody
\* filled in may run past it.
InFaults(n) ==
  /\ n \in alive /\ hand[n] # Nothing
  /\ Looks(hand[n].form)
  /\ FmtExit(n)
  /\ LogMsg
  /\ UNCHANGED <<fila, decided, child, masked, tcp, history, crashes, cuts>>

OutReads ==
  /\ "out" \in alive
  /\ LeFila("out", "FORMOUTQ")
  /\ UNCHANGED <<logq, decided, procs, tcp, history, crashes, cuts>>

\* The outbound half works on the message it took, whose type it adjusts
\* first.
OutMsg  == hand["out"]
OutMt   == OutType(OutMsg.mt)
Outbound ==
  /\ "out" \in alive
  /\ OutMsg # Nothing
  /\ LogMsg
  /\ UNCHANGED <<decided, child, masked, tcp, history, crashes, cuts>>

\* Answers to reject messages, and file updates, never leave.
Ignored(m) == m.rc = "reject" \/ Is03xx(m.mt)

\* Mutant of Raw: the answer to any reversal does.
RawReversal(m) == ~Ignored(m) /\ IsReversal(m.mt)

\* The answer to the reversal of a balance inquiry leaves as the struct itself.
Raw(m) == ~Ignored(m) /\ IsReversal(m.mt) /\ m.form.bal

Formats(m) == ~Ignored(m) /\ ~Raw(m)

OutIgnores ==
  /\ Outbound
  /\ Ignored(OutMsg)
  /\ Drop("out")
  /\ UNCHANGED <<fila, alive, sig>>

OutRaw ==
  /\ Outbound
  /\ Raw(OutMsg)
  /\ GravaOuPerde("DRIVERQ", [OutMsg EXCEPT !.raw = TRUE], CoreSize)
  /\ Drop("out")
  /\ UNCHANGED <<alive, sig>>

\* No bitmap for the type: its bits are printed before the pointer is tested.
OutFaults ==
  /\ Outbound
  /\ Formats(OutMsg) /\ OutMt \notin Mapped
  /\ FmtExit("out")
  /\ UNCHANGED fila

\* Formatted and thrown away: an advice response, or a type whose result was
\* never set and happens to be negative.
OutDiscards ==
  /\ Outbound
  /\ Formats(OutMsg) /\ OutMt \in Mapped \cap RetUndefined
  /\ Drop("out")
  /\ UNCHANGED <<fila, alive, sig>>

OutSends ==
  /\ Outbound
  /\ Formats(OutMsg) /\ OutMt \in Mapped \ {130}
  /\ Room(WireSize)
  /\ GravaFila("DRIVERQ", [OutMsg EXCEPT !.mt = OutMt, !.rc = WireCode(OutMt, @)])
  /\ Drop("out")
  /\ UNCHANGED <<alive, sig>>

OutFull ==
  /\ Outbound
  /\ Formats(OutMsg) /\ OutMt \in Mapped \ {130}
  /\ ~Room(WireSize)
  /\ FmtExit("out")
  /\ UNCHANGED fila

\* The pending signal is delivered.
FmtSignalled(p) ==
  /\ p \in sig \cap alive
  /\ FmtExit(p)
  /\ LogMsg
  /\ UNCHANGED <<fila, decided, child, masked, tcp, history, crashes, cuts>>

-----------------------------------------------------------------------------
(* auth and paybal: take a request, call the database, queue the response. *)

Input(b) == IF b = "auth" THEN "AUTHQ" ELSE "PAYBAL"

BackendReads(b) ==
  /\ b \in alive
  /\ LeFila(b, Input(b))
  /\ UNCHANGED <<logq, decided, procs, tcp, history, crashes, cuts>>

Pending(b) == b \in alive /\ b \notin decided /\ hand[b] # Nothing

\* Mutant of RespCode: no rule 91.
RespCodeAsIs(b, r) == IF r = "nonumber" THEN "approved" ELSE r

\* The response code of the answer.  Only auth turns an approval without an
\* authorisation number into a decline (91).
RespCode(b, r) ==
  IF r = "nonumber" THEN (IF b = "auth" THEN "declined" ELSE "approved") ELSE r

Respond(b, rc) ==
  /\ hand' = [hand EXCEPT ![b].mt = ResponseType(@), ![b].rc = rc]
  /\ decided' = decided \cup {b}
  /\ LogMsg
  /\ UNCHANGED <<fila, procs, tcp, arrived, net, crashes, cuts>>

\* The stored procedure decides.
Authorizes(b) ==
  /\ Pending(b) /\ hand[b].form.routed
  /\ \E r \in DbResults :
       /\ db' = [db EXCEPT ![hand[b].id] = r]
       /\ Respond(b, RespCode(b, r))

\* Mutant of CallFails: the request is dropped without a response.
CallFailsSilently(b) ==
  /\ Pending(b)
  /\ LogMsg /\ Drop(b)
  /\ UNCHANGED <<fila, decided, procs, tcp, history, crashes, cuts>>

\* The call fails, before the database decided or after; or there is no
\* connection to call through.
CallFails(b) ==
  /\ Pending(b)
  /\ \/ UNCHANGED db
     \/ hand[b].form.routed
        /\ \E r \in DbResults : db' = [db EXCEPT ![hand[b].id] = r]
  /\ Respond(b, "syserr")

\* Mutant of BackendSends: the response is queued, and kept to be queued again.
BackendSendsAgain(b) ==
  /\ b \in alive /\ b \in decided
  /\ RoomNow(CoreSize)
  /\ GravaFila("FORMOUTQ", hand[b])
  /\ UNCHANGED <<logq, hand, decided, procs, tcp, history, crashes, cuts>>

BackendSends(b) ==
  /\ b \in alive /\ b \in decided
  /\ RoomNow(CoreSize)
  /\ GravaFila("FORMOUTQ", hand[b])
  /\ Drop(b)
  /\ decided' = decided \ {b}
  /\ UNCHANGED <<logq, procs, tcp, history, crashes, cuts>>

\* Mutant of BackendFull: the request goes back to be authorised once more.
BackendFullRequeues(b) ==
  /\ b \in alive /\ b \in decided
  /\ ~RoomNow(CoreSize)
  /\ GravaFila(Input(b), hand[b]) /\ Drop(b)
  /\ decided' = decided \ {b}
  /\ UNCHANGED <<logq, procs, tcp, history, crashes, cuts>>

\* Without room the authoriser exits: the database decided, no one is told.
BackendFull(b) ==
  /\ b \in alive /\ b \in decided
  /\ ~RoomNow(CoreSize)
  /\ LogMsg /\ Drop(b)
  /\ decided' = decided \ {b}
  /\ alive' = alive \ {b}
  /\ UNCHANGED <<fila, sig, child, masked, tcp, history, crashes, cuts>>

\* Mutant of LogReads: it reads an empty queue.
LogReadsBlind ==
  /\ "log" \in alive
  /\ logq' = logq - 1
  /\ UNCHANGED <<fila, hand, decided, procs, tcp, history, crashes, cuts>>

LogReads ==
  /\ "log" \in alive /\ logq > 0
  /\ logq' = logq - 1
  /\ UNCHANGED <<fila, hand, decided, procs, tcp, history, crashes, cuts>>

-----------------------------------------------------------------------------
(* Processes die from outside the code, and launch starts them again.      *)

\* SIGKILL.  A killed inbound half still sends its parent a SIGCHLD, who hears
\* it unless it blocks that signal; a killed outbound half leaves its child
\* running.
Killed(p) ==
  /\ p \in alive /\ crashes < MaxCrashes
  /\ alive' = alive \ {p}
  /\ sig' = (sig \cup (IF p = child /\ ~masked THEN {"out"} \cap alive ELSE {})) \ {p}
  /\ hand' = [w \in Workers |-> IF w = p THEN Nothing ELSE hand[w]]
  /\ decided' = decided \ {p}
  /\ crashes' = crashes + 1
  /\ UNCHANGED <<fila, logq, child, masked, tcp, history, cuts>>

\* Mutant of Restarts: the authorisers are not started again.
RestartsLog(p) ==
  /\ p \in {"log"} \ alive
  /\ alive' = alive \cup {p}
  /\ UNCHANGED <<fila, logq, hand, decided, sig, child, masked, tcp, history, crashes, cuts>>

Restarts(p) ==
  /\ p \in {"auth", "paybal", "log"} \ alive
  /\ alive' = alive \cup {p}
  /\ IF p = "log" THEN UNCHANGED logq ELSE LogMsg
  /\ UNCHANGED <<fila, hand, decided, sig, child, masked, tcp, history, crashes, cuts>>

\* Mutant of RestartsFmt: launch waits for the old inbound half to be gone.
RestartsFmtAlone ==
  /\ "out" \notin alive /\ child \notin alive
  /\ \E n \in Inbounds \ alive : alive' = alive \cup {n, "out"} /\ child' = n
  /\ masked' = TRUE
  /\ LogMsg
  /\ UNCHANGED <<fila, hand, decided, sig, tcp, history, crashes, cuts>>

\* A new fmt forks a new inbound half, whatever became of the old one.  launch
\* forks and execs it inside its handler of SIGCHLD, which is blocked there; it
\* stays blocked over exec and in the fork of the inbound half.
RestartsFmt ==
  /\ "out" \notin alive
  /\ \E n \in Inbounds \ alive : alive' = alive \cup {n, "out"} /\ child' = n
  /\ masked' = TRUE
  /\ LogMsg
  /\ UNCHANGED <<fila, hand, decided, sig, tcp, history, crashes, cuts>>

-----------------------------------------------------------------------------
ToNet == ToNetReads \/ ToNetRefuses \/ SendToNet \/ SendFails

Inbound(n) ==
  \/ InReads(n) \/ InDrops(n) \/ InFileUpdate(n) \/ InEcho(n)
  \/ InForwards(n) \/ InFull(n) \/ InFaults(n)

Out == \/ OutReads \/ OutIgnores \/ OutRaw \/ OutFaults
       \/ OutDiscards \/ OutSends \/ OutFull

BackendStep(b) ==
  \/ BackendReads(b) \/ Authorizes(b) \/ CallFails(b)
  \/ BackendSends(b) \/ BackendFull(b)

Next ==
  \/ \E id \in Ids, f \in Traffic : RcvFromNet(id, f)
  \/ FromNet
  \/ ToNet
  \/ RcvGivesUp
  \/ LineFails
  \/ TcpKilled
  \/ TcpExits
  \/ OperatorRestartsTcp
  \/ \E n \in Inbounds : Inbound(n)
  \/ Out
  \/ \E p \in Inbounds \cup {"out"} : FmtSignalled(p)
  \/ \E b \in Backends : BackendStep(b)
  \/ LogReads
  \/ \E p \in Servers : Killed(p) \/ Restarts(p)
  \/ RestartsFmt

Spec == Init /\ [][Next]_vars
===============================================================================
