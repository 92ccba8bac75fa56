----------------------------- MODULE SwitchProofs -----------------------------
(***************************************************************************)
(* What holds of the switch for every set of messages, every traffic, any  *)
(* number of inbound halves, every size of the queue and of the messages,  *)
(* and any number of crashes.                                              *)
(***************************************************************************)
EXTENDS SwitchMoves, TLAPS

-----------------------------------------------------------------------------
(* The messages. *)

\* The form of a message is known, and its types are numbers.
LEMMA MsgForm ==
  ASSUME NEW m \in Msg
  PROVE  /\ m.id \in Ids
         /\ m.form \in Forms
         /\ m.form.mt \in Nat
         /\ m.mt \in Nat
         /\ m.rc \in RespCodes
         /\ m.raw \in BOOLEAN
         /\ m.form \in Traffic
BY SwitchAssumption DEF Msg, Forms

\* What the inbound half makes of a message is a message of the same id.
LEMMA InMessagesTyped ==
  ASSUME NEW m \in Msg, NEW n \in InMessages(m)
  PROVE  n \in Msg /\ n.id = m.id /\ n.form = m.form
<1> DEFINE f == m.form
           T == RejectType(InType(f))
           C == RejectCode(InType(f))
<1>1. f.mt \in Nat /\ InType(f) \in Nat
  BY MsgForm DEF InType
<1>2. CASE Rejected(f)
  <2>1. T \in Nat
    BY <1>1, <1>2 DEF Rejected, RejectType, RejectTypes
  <2>2. C \in RespCodes
    BY DEF RejectCode, RespCodes
  <2>3. n = [m EXCEPT !.mt = T, !.rc = C]
    BY <1>2 DEF InMessages
  <2> HIDE DEF T, C
  <2>4. n \in Msg
    BY <2>1, <2>2, <2>3 DEF Msg
  <2>5. n.id = m.id /\ n.form = m.form
    BY <2>3 DEF Msg
  <2> QED BY <2>4, <2>5
<1>3. CASE ~Rejected(f)
  <2>1. PICK t \in {InType(f), 210} : n = [m EXCEPT !.mt = t]
    BY <1>3 DEF InMessages
  <2>2. t \in Nat
    BY <1>1, <2>1
  <2>3. n \in Msg
    BY <2>1, <2>2 DEF Msg
  <2>4. n.id = m.id /\ n.form = m.form
    BY <2>1 DEF Msg
  <2> QED BY <2>3, <2>4
<1> QED BY <1>2, <1>3

-----------------------------------------------------------------------------
(* The types of what the steps are built from. *)

\* gravaFila queues messages.
LEMMA GravaTyped ==
  ASSUME TypeOK, NEW q \in Queues, NEW m \in Msg, GravaFila(q, m)
  PROVE  fila' \in [Queues -> Seq(Msg)]
BY DEF TypeOK, GravaFila

\* So it does when its result is ignored.
LEMMA GravaOuPerdeTyped ==
  ASSUME TypeOK, NEW q \in Queues, NEW m \in Msg, NEW size, GravaOuPerde(q, m, size)
  PROVE  fila' \in [Queues -> Seq(Msg)]
<1>1. CASE GravaFila(q, m)
  BY <1>1, GravaTyped
<1>2. CASE UNCHANGED fila
  BY <1>2 DEF TypeOK
<1> QED BY <1>1, <1>2 DEF GravaOuPerde

\* leFila hands out messages.
LEMMA LeFilaTyped ==
  ASSUME TypeOK, NEW p \in Workers, NEW q \in Queues, LeFila(p, q)
  PROVE  /\ fila' \in [Queues -> Seq(Msg)]
         /\ hand' \in [Workers -> Msg \cup {Nothing}]
<1>1. fila[q] \in Seq(Msg) /\ fila[q] # <<>>
  BY DEF TypeOK, LeFila
<1>2. Head(fila[q]) \in Msg /\ Tail(fila[q]) \in Seq(Msg)
  BY <1>1
<1> QED BY <1>2 DEF TypeOK, LeFila

\* A worker with nothing in hand is typed.
LEMMA DropTyped ==
  ASSUME TypeOK, NEW p \in Workers, Drop(p)
  PROVE  hand' \in [Workers -> Msg \cup {Nothing}]
BY DEF TypeOK, Drop

\* Log lines are counted.
LEMMA LogTyped ==
  ASSUME TypeOK, LogMsg
  PROVE  logq' \in Nat
BY DEF TypeOK, LogMsg, LogLines

\* What a worker holds is a message.
LEMMA HandTyped ==
  ASSUME TypeOK, NEW p \in Workers, hand[p] # Nothing
  PROVE  hand[p] \in Msg
BY DEF TypeOK

\* The queues and the processes by name.
LEMMA Names ==
  /\ \A q \in {"FORMINQ", "FORMOUTQ", "AUTHQ", "DRIVERQ", "FUPDQ", "PAYBAL"} : q \in Queues
  /\ \A p \in Inbounds \cup {"from", "to", "out", "auth", "paybal"} : p \in Workers
  /\ \A b \in Backends : b \in Workers /\ b \in Servers /\ Input(b) \in Queues
  /\ \A f : Backend(f) \in Queues
  /\ \A n \in Inbounds \cup {"out", "log"} : n \in Servers
BY DEF Queues, Workers, Backends, Servers, Input, Backend

\* fmtexit signals processes that are there.
LEMMA FmtExitTyped ==
  ASSUME TypeOK, NEW p \in Inbounds \cup {"out"}, FmtExit(p)
  PROVE  /\ alive' \in SUBSET Servers
         /\ sig' \in SUBSET Servers
         /\ hand' \in [Workers -> Msg \cup {Nothing}]
<1>1. Peer(p) \subseteq Servers
  BY DEF Peer, TypeOK
<1>2. p \in Workers
  BY Names
<1>3. hand' \in [Workers -> Msg \cup {Nothing}]
  BY <1>2, DropTyped DEF FmtExit
<1> QED BY <1>1, <1>3 DEF FmtExit, TypeOK

-----------------------------------------------------------------------------
(* TypeOK *)

\* The switch starts typed.
LEMMA InitTyped == Init => TypeOK
<1> SUFFICES ASSUME Init PROVE TypeOK
  OBVIOUS
<1>1. 0 \in 0 .. MaxCrashes /\ 0 \in 0 .. MaxCuts
  BY SwitchAssumption
<1>2. alive \in SUBSET Servers /\ child \in Inbounds
  BY DEF Init, Servers
<1>3. crashes \in 0 .. MaxCrashes /\ cuts \in 0 .. MaxCuts
  BY <1>1 DEF Init
<1>4. /\ fila \in [Queues -> Seq(Msg)] /\ logq \in Nat
      /\ hand \in [Workers -> Msg \cup {Nothing}]
      /\ arrived \in Seq(Ids) /\ net \in Seq(Msg)
      /\ db \in [Ids -> DbResults \cup {"none"}]
  BY DEF Init
<1> QED BY <1>2, <1>3, <1>4 DEF Init, TypeOK

\* tcpclient and the line keep the types.
LEMMA LineTyped ==
  ASSUME TypeOK,
         \/ \E id \in Ids, f \in Traffic : RcvFromNet(id, f)
         \/ FromNet \/ ToNet \/ RcvGivesUp \/ LineFails \/ TcpKilled \/ TcpExits
         \/ OperatorRestartsTcp
  PROVE  TypeOK'
<1> USE Names
<1>1. ASSUME NEW id \in Ids, NEW f \in Traffic, RcvFromNet(id, f)
      PROVE  TypeOK'
  <2>1. f.mt \in Nat
    BY SwitchAssumption DEF Forms
  <2>2. [id |-> id, form |-> f, mt |-> f.mt, rc |-> "none", raw |-> FALSE] \in Msg
    BY <2>1 DEF Msg, RespCodes
  <2>3. arrived' \in Seq(Ids)
    BY <1>1 DEF RcvFromNet, TypeOK
  <2>4. hand' \in [Workers -> Msg \cup {Nothing}]
    BY <1>1, <2>2 DEF RcvFromNet, TypeOK
  <2> QED BY <1>1, <2>3, <2>4 DEF RcvFromNet, TypeOK
<1>2. CASE FromNet
  <2>1. fila' \in [Queues -> Seq(Msg)]
    BY <1>2, HandTyped, GravaOuPerdeTyped DEF FromNet
  <2>2. hand' \in [Workers -> Msg \cup {Nothing}] /\ logq' \in Nat
    BY <1>2, DropTyped, LogTyped DEF FromNet
  <2> QED BY <1>2, <2>1, <2>2 DEF FromNet, TypeOK, procs, history
<1>3. CASE ToNetReads
  BY <1>3, LeFilaTyped DEF ToNetReads, TypeOK, procs, history
<1>4. CASE ToNetRefuses
  BY <1>4 DEF ToNetRefuses, TypeOK, procs, history
<1>5. CASE SendToNet
  <2>1. net' \in Seq(Msg)
    BY <1>5, HandTyped DEF SendToNet, TypeOK
  <2>2. hand' \in [Workers -> Msg \cup {Nothing}]
    BY <1>5, DropTyped DEF SendToNet
  <2> QED BY <1>5, <2>1, <2>2 DEF SendToNet, TypeOK, procs
<1>6. CASE SendFails
  BY <1>6, DropTyped DEF SendFails, TypeOK, procs, history
<1>7. CASE LineFails
  <2>1. crashes' \in 0 .. MaxCrashes
    BY <1>7, SwitchAssumption DEF LineFails, TypeOK
  <2>2. hand' \in [Workers -> Msg \cup {Nothing}]
    BY <1>7, DropTyped DEF LineFails, TypeOK
  <2> QED BY <1>7, <2>1, <2>2 DEF LineFails, TypeOK, procs, history
<1>8. CASE TcpKilled
  <2>1. crashes' \in 0 .. MaxCrashes
    BY <1>8, SwitchAssumption DEF TcpKilled, TypeOK
  <2> QED BY <1>8, <2>1 DEF TcpKilled, TypeOK, procs, history
<1>9. CASE TcpExits
  BY <1>9 DEF TcpExits, TypeOK, procs, history
<1>10. CASE OperatorRestartsTcp
  BY <1>10, LogTyped DEF OperatorRestartsTcp, TypeOK, procs, history
<1>11. CASE RcvGivesUp
  <2>1. cuts' \in 0 .. MaxCuts
    BY <1>11, SwitchAssumption DEF RcvGivesUp, TypeOK
  <2> QED BY <1>11, <2>1 DEF RcvGivesUp, TypeOK, procs, history
<1> QED
  BY <1>1, <1>2, <1>3, <1>4, <1>5, <1>6, <1>7, <1>8, <1>9, <1>10, <1>11 DEF ToNet

\* So does an inbound half of fmt,
LEMMA InboundTyped ==
  ASSUME TypeOK, NEW n \in Inbounds, Inbound(n)
  PROVE  TypeOK'
<1> USE Names
<1>1. CASE InReads(n)
  BY <1>1, LeFilaTyped DEF InReads, TypeOK, procs, history
<1>2. CASE InDrops(n)
  <2>1. hand' \in [Workers -> Msg \cup {Nothing}] /\ logq' \in Nat
    BY <1>2, DropTyped, LogTyped DEF InDrops
  <2> QED BY <1>2, <2>1 DEF InDrops, TypeOK, procs, history
<1>3. CASE InFileUpdate(n)
  <2>1. fila' \in [Queues -> Seq(Msg)]
    BY <1>3, HandTyped, GravaOuPerdeTyped DEF InFileUpdate
  <2>2. hand' \in [Workers -> Msg \cup {Nothing}] /\ logq' \in Nat
    BY <1>3, DropTyped, LogTyped DEF InFileUpdate
  <2> QED BY <1>3, <2>1, <2>2 DEF InFileUpdate, TypeOK, procs, history
<1>4. CASE InEcho(n)
  <2>1. hand[n] \in Msg
    BY <1>4, HandTyped DEF InEcho
  <2>2. [hand[n] EXCEPT !.rc = "approved", !.raw = TRUE] \in Msg
    BY <2>1 DEF Msg, RespCodes
  <2>3. fila' \in [Queues -> Seq(Msg)]
    BY <1>4, <2>2, GravaOuPerdeTyped DEF InEcho
  <2>4. hand' \in [Workers -> Msg \cup {Nothing}] /\ logq' \in Nat
    BY <1>4, DropTyped, LogTyped DEF InEcho
  <2> QED BY <1>4, <2>3, <2>4 DEF InEcho, TypeOK, procs, history
<1>5. CASE InForwards(n)
  <2>1. PICK m \in InMessages(hand[n]) : GravaFila(Backend(m.form), m)
    BY <1>5 DEF InForwards
  <2>2. m \in Msg
    BY <1>5, HandTyped, InMessagesTyped DEF InForwards, Forwards
  <2>3. fila' \in [Queues -> Seq(Msg)]
    BY <2>1, <2>2, GravaTyped
  <2>4. hand' \in [Workers -> Msg \cup {Nothing}] /\ logq' \in Nat
    BY <1>5, DropTyped, LogTyped DEF InForwards, Forwards
  <2> QED BY <1>5, <2>3, <2>4 DEF InForwards, Forwards, TypeOK, history
<1>6. CASE InFull(n)
  BY <1>6, FmtExitTyped, LogTyped DEF InFull, Forwards, TypeOK, history
<1>7. CASE InFaults(n)
  BY <1>7, FmtExitTyped, LogTyped DEF InFaults, TypeOK, history
<1> QED BY <1>1, <1>2, <1>3, <1>4, <1>5, <1>6, <1>7 DEF Inbound

\* What the outbound half queues is a message of the same id and form.
LEMMA OutMsgTyped ==
  ASSUME TypeOK, Outbound
  PROVE  /\ OutMsg \in Msg
         /\ [OutMsg EXCEPT !.raw = TRUE] \in Msg
         /\ [OutMsg EXCEPT !.mt = OutMt, !.rc = WireCode(OutMt, @)] \in Msg
         /\ logq' \in Nat
<1>1. OutMsg \in Msg
  BY Names, HandTyped DEF Outbound, OutMsg
<1>2. OutMt \in Nat /\ WireCode(OutMt, OutMsg.rc) \in RespCodes
  BY <1>1, MsgForm DEF OutMt, OutType, WireCode, RespCodes
<1>3. [OutMsg EXCEPT !.raw = TRUE] \in Msg
  BY <1>1 DEF Msg
<1>4. [OutMsg EXCEPT !.mt = OutMt, !.rc = WireCode(OutMt, @)] \in Msg
  BY <1>1, <1>2 DEF Msg
<1> QED BY <1>1, <1>3, <1>4, LogTyped DEF Outbound

\* the outbound half,
LEMMA OutTyped ==
  ASSUME TypeOK, Out
  PROVE  TypeOK'
<1> USE Names
<1>1. CASE OutReads
  BY <1>1, LeFilaTyped DEF OutReads, TypeOK, procs, history
<1>2. CASE OutIgnores
  BY <1>2, OutMsgTyped, DropTyped DEF OutIgnores, Outbound, TypeOK, history
<1>3. CASE OutRaw
  <2>1. fila' \in [Queues -> Seq(Msg)]
    BY <1>3, OutMsgTyped, GravaOuPerdeTyped DEF OutRaw
  <2> QED BY <1>3, <2>1, OutMsgTyped, DropTyped DEF OutRaw, Outbound, TypeOK, history
<1>4. CASE OutFaults
  BY <1>4, OutMsgTyped, FmtExitTyped DEF OutFaults, Outbound, TypeOK, history
<1>5. CASE OutDiscards
  BY <1>5, OutMsgTyped, DropTyped DEF OutDiscards, Outbound, TypeOK, history
<1>6. CASE OutSends
  <2>1. fila' \in [Queues -> Seq(Msg)]
    BY <1>6, OutMsgTyped, GravaTyped DEF OutSends
  <2> QED BY <1>6, <2>1, OutMsgTyped, DropTyped DEF OutSends, Outbound, TypeOK, history
<1>7. CASE OutFull
  BY <1>7, OutMsgTyped, FmtExitTyped DEF OutFull, Outbound, TypeOK, history
<1> QED BY <1>1, <1>2, <1>3, <1>4, <1>5, <1>6, <1>7 DEF Out

\* The response an authoriser has in hand is a message of the same id and form.
LEMMA ResponseTyped ==
  ASSUME TypeOK, NEW b \in Backends, Pending(b), NEW rc \in RespCodes, Respond(b, rc)
  PROVE  /\ hand' \in [Workers -> Msg \cup {Nothing}]
         /\ decided' \in SUBSET Backends
         /\ logq' \in Nat
<1>1. hand[b] \in Msg /\ b \in Workers
  BY Names, HandTyped DEF Pending
<1>2. ResponseType(hand[b].mt) \in Nat
  BY <1>1, MsgForm DEF ResponseType
<1>3. [hand[b] EXCEPT !.mt = ResponseType(@), !.rc = rc] \in Msg
  BY <1>1, <1>2 DEF Msg
<1>4. hand' \in [Workers -> Msg \cup {Nothing}]
  BY <1>1, <1>3 DEF Respond, TypeOK
<1> QED BY <1>4, LogTyped DEF Respond, TypeOK

\* an authoriser,
LEMMA BackendTyped ==
  ASSUME TypeOK, DecidedHeld, NEW b \in Backends, BackendStep(b)
  PROVE  TypeOK'
<1> USE Names
<1>1. CASE BackendReads(b)
  BY <1>1, LeFilaTyped DEF BackendReads, TypeOK, procs, history
<1>2. CASE Authorizes(b)
  <2>1. PICK r \in DbResults : /\ db' = [db EXCEPT ![hand[b].id] = r]
                              /\ Respond(b, RespCode(b, r))
    BY <1>2 DEF Authorizes
  <2>2. RespCode(b, r) \in RespCodes
    BY DEF RespCode, RespCodes, DbResults
  <2>3. db' \in [Ids -> DbResults \cup {"none"}]
    BY <2>1 DEF TypeOK
  <2> QED BY <1>2, <2>1, <2>2, <2>3, ResponseTyped DEF Authorizes, Respond, TypeOK, procs
<1>3. CASE CallFails(b)
  <2>1. db' \in [Ids -> DbResults \cup {"none"}]
    BY <1>3 DEF CallFails, TypeOK
  <2> QED BY <1>3, <2>1, ResponseTyped DEF CallFails, Respond, TypeOK, procs, RespCodes
<1>4. CASE BackendSends(b)
  <2>1. hand[b] # Nothing
    BY <1>4 DEF BackendSends, DecidedHeld, Holds
  <2>2. fila' \in [Queues -> Seq(Msg)]
    BY <1>4, <2>1, HandTyped, GravaTyped DEF BackendSends
  <2> QED BY <1>4, <2>2, DropTyped DEF BackendSends, TypeOK, procs, history
<1>5. CASE BackendFull(b)
  BY <1>5, DropTyped, LogTyped DEF BackendFull, TypeOK, history
<1> QED BY <1>1, <1>2, <1>3, <1>4, <1>5 DEF BackendStep

\* and signals, kills and restarts.
LEMMA DeathTyped ==
  ASSUME TypeOK,
         \/ \E p \in Inbounds \cup {"out"} : FmtSignalled(p)
         \/ LogReads
         \/ \E p \in Servers : Killed(p) \/ Restarts(p)
         \/ RestartsFmt
  PROVE  TypeOK'
<1> USE Names
<1>1. ASSUME NEW p \in Inbounds \cup {"out"}, FmtSignalled(p)
      PROVE  TypeOK'
  BY <1>1, FmtExitTyped, LogTyped DEF FmtSignalled, TypeOK, history
<1>2. CASE LogReads
  BY <1>2 DEF LogReads, TypeOK, procs, history
<1>3. ASSUME NEW p \in Servers, Killed(p)
      PROVE  TypeOK'
  <2>1. crashes' \in 0 .. MaxCrashes
    BY <1>3, SwitchAssumption DEF Killed, TypeOK
  <2>2. hand' \in [Workers -> Msg \cup {Nothing}]
    BY <1>3 DEF Killed, TypeOK
  <2>3. "out" \in Servers
    BY DEF Servers
  <2>4. alive' \in SUBSET Servers /\ sig' \in SUBSET Servers /\ decided' \in SUBSET Backends
    BY <1>3, <2>3 DEF Killed, TypeOK
  <2> QED BY <1>3, <2>1, <2>2, <2>4 DEF Killed, TypeOK, history
<1>4. ASSUME NEW p \in Servers, Restarts(p)
      PROVE  TypeOK'
  <2>1. logq' \in Nat
    BY <1>4, LogTyped DEF Restarts, TypeOK
  <2> QED BY <1>4, <2>1 DEF Restarts, TypeOK, history
<1>5. CASE RestartsFmt
  <2>1. PICK n \in Inbounds \ alive : alive' = alive \cup {n, "out"} /\ child' = n
    BY <1>5 DEF RestartsFmt
  <2>2. logq' \in Nat
    BY <1>5, LogTyped DEF RestartsFmt
  <2> QED BY <1>5, <2>1, <2>2 DEF RestartsFmt, TypeOK, history
<1> QED BY <1>1, <1>2, <1>3, <1>4, <1>5

\* Every step keeps the types.
LEMMA StepTyped ==
  ASSUME TypeOK, DecidedHeld, [Next]_vars
  PROVE  TypeOK'
<1>1. CASE UNCHANGED vars
  BY <1>1 DEF TypeOK, vars
<1>2. CASE Next
  BY <1>2, LineTyped, InboundTyped, OutTyped, BackendTyped, DeathTyped DEF Next
<1> QED BY <1>1, <1>2

-----------------------------------------------------------------------------
(* Every step is one of the six moves of SwitchMoves.                       *)

\* The authorisers are apart from the other holders of messages.
LEMMA Roles ==
  /\ \A n \in Inbounds : n \notin Backends /\ TakesIn(n) /\ n # "paybal"
  /\ \A p \in {"from", "to", "out", "log"} : p \notin Backends
  /\ TakesIn("from")
  /\ Backends \subseteq Workers
  /\ {"auth", "paybal"} \subseteq Backends
BY SwitchAssumption DEF Backends, TakesIn, Workers

\* A worker that drops what it has, decided or not, loses it.
LEMMA DropLoses ==
  ASSUME TypeOK, DecidedHeld, NEW p \in Workers, Drop(p), decided' = decided \ {p},
         UNCHANGED <<fila, db, arrived, net>>
  PROVE  Loses
<1>1. \A w \in Workers : hand'[w] = IF w = p THEN Nothing ELSE hand[w]
  BY DEF TypeOK, Drop
<1>2. decided \subseteq Workers
  BY Roles DEF TypeOK
<1>3. decided' = {b \in decided : hand'[b] # Nothing}
  BY <1>1, <1>2 DEF DecidedHeld, Holds
<1> QED BY <1>1, <1>3 DEF Loses

\* A step that touches no message loses none.
LEMMA KeepLoses ==
  ASSUME TypeOK, DecidedHeld, UNCHANGED <<fila, hand, decided, db, arrived, net>>
  PROVE  Loses
BY DEF Loses, DecidedHeld, Holds

\* What is put in a queue with the result ignored is passed or lost.
LEMMA GravaOuPerdeMoves ==
  ASSUME TypeOK, DecidedHeld, NEW p \in Workers, NEW q \in Queues, NEW m \in Msg, NEW size,
         GravaOuPerde(q, m, size), Drop(p), Holds(p), m.id = hand[p].id, m.form = hand[p].form,
         Passage(p, q, m),
         decided' = decided \ {p}, UNCHANGED <<db, arrived, net>>
  PROVE  Passes \/ Loses
<1>1. CASE GravaFila(q, m)
  BY <1>1 DEF Passes
<1>2. CASE UNCHANGED fila
  BY <1>2, DropLoses
<1> QED BY <1>1, <1>2 DEF GravaOuPerde

\* fmtexit loses what the half had in hand.
LEMMA FmtExitLoses ==
  ASSUME TypeOK, DecidedHeld, NEW p \in Inbounds \cup {"out"}, FmtExit(p),
         UNCHANGED <<fila, decided, db, arrived, net>>
  PROVE  Loses
<1>1. p \in Workers /\ p \notin Backends
  BY Roles DEF Workers
<1> QED BY <1>1, DropLoses DEF FmtExit, TypeOK

-----------------------------------------------------------------------------
\* What tcpclient and the line do.
LEMMA LineMoves ==
  ASSUME TypeOK, DecidedHeld,
         \/ \E id \in Ids, f \in Traffic : RcvFromNet(id, f)
         \/ FromNet \/ ToNet \/ RcvGivesUp \/ LineFails \/ TcpKilled \/ TcpExits
         \/ OperatorRestartsTcp
  PROVE  Move
<1> USE Names
<1>1. ASSUME NEW id \in Ids, NEW f \in Traffic, RcvFromNet(id, f)
      PROVE  Arrives
  BY <1>1 DEF RcvFromNet, Arrives, Came
<1> DEFINE Kept(p) == decided = decided \ {p}
<1>0. Kept("from") /\ Kept("to")
  BY Roles DEF TypeOK
<1>2. CASE FromNet
  <2>1. Holds("from") /\ hand["from"] \in Msg
    BY <1>2, HandTyped DEF FromNet, Holds
  <2>2. Passage("from", "FORMINQ", hand["from"])
    BY Roles DEF Passage, InQueues, AskQueues
  <2>3. decided' = decided \ {"from"} /\ UNCHANGED <<db, arrived, net>>
    BY <1>0, <1>2 DEF FromNet, history
  <2> QED BY <1>2, <2>1, <2>2, <2>3, GravaOuPerdeMoves DEF FromNet, Move
<1>3. CASE ToNetReads
  BY <1>3 DEF ToNetReads, Takes, OutQueues, history, Move
<1>4. CASE ToNetRefuses
  BY <1>4, KeepLoses DEF ToNetRefuses, history, Move
<1>5. CASE SendToNet
  BY <1>5 DEF SendToNet, Sends, Holds, Move
<1>6. CASE SendFails
  BY <1>0, <1>6, DropLoses DEF SendFails, history, Move
<1>7. CASE LineFails
  <2>1. CASE UNCHANGED hand
    BY <1>7, <2>1, KeepLoses DEF LineFails, history, Move
  <2>2. CASE Drop("to")
    BY <1>0, <1>7, <2>2, DropLoses DEF LineFails, history, Move
  <2> QED BY <1>7, <2>1, <2>2 DEF LineFails
<1>8. ASSUME hand' = [hand EXCEPT !["from"] = Nothing, !["to"] = Nothing],
             UNCHANGED <<fila, decided, db, arrived, net>>
      PROVE  Loses
  <2>1. \A w \in Workers : hand'[w] = IF w \in {"from", "to"} THEN Nothing ELSE hand[w]
    BY <1>8 DEF TypeOK
  <2>2. decided \subseteq Workers /\ decided \cap {"from", "to"} = {}
    BY Roles DEF TypeOK
  <2>3. decided' = {b \in decided : hand'[b] # Nothing}
    BY <1>8, <2>1, <2>2 DEF DecidedHeld, Holds
  <2> QED BY <1>8, <2>1, <2>3 DEF Loses
<1>9. CASE TcpKilled
  BY <1>8, <1>9 DEF TcpKilled, history, Move
<1>10. CASE TcpExits
  BY <1>8, <1>10 DEF TcpExits, history, Move
<1>11. CASE OperatorRestartsTcp
  BY <1>11, KeepLoses DEF OperatorRestartsTcp, history, Move
<1>12. CASE RcvGivesUp
  BY <1>12, KeepLoses DEF RcvGivesUp, history, Move
<1> QED
  BY <1>1, <1>2, <1>3, <1>4, <1>5, <1>6, <1>7, <1>9, <1>10, <1>11, <1>12 DEF ToNet, Move

\* A request that is neither rejected nor an answer goes on in the type it came
\* in: no adjustment, and no look-up of an original, is for it.
LEMMA OrdinaryForwarded ==
  ASSUME NEW m \in Msg, NEW n \in InMessages(m), m.mt = m.form.mt
  PROVE  n.form = m.form /\ (Ordinary(n.form) => n.mt = m.mt)
<1>1. CASE Rejected(m.form)
  BY <1>1 DEF InMessages, Rejected, Ordinary, Msg
<1>2. CASE ~Rejected(m.form)
  <2>1. PICK t : n = [m EXCEPT !.mt = t]
                 /\ (t = InType(m.form) \/ (Looks(m.form) /\ t = 210))
    BY <1>2 DEF InMessages
  <2>2. n.form = m.form /\ n.mt = t
    BY <2>1 DEF Msg
  <2>3. ASSUME Ordinary(m.form) PROVE InType(m.form) = m.form.mt /\ ~Looks(m.form)
    <3>1. m.form.mt \notin {110, 130, 210, 230, 410}
      BY <2>3 DEF Ordinary, IsResponse
    <3> QED BY <3>1 DEF InType, Looks, LooksUpOriginal
  <2> QED BY <2>1, <2>2, <2>3
<1> QED BY <1>1, <1>2

\* No adjustment makes a file update of anything else, nor the request whose
\* answer would look like one.
LEMMA UpdatesStay ==
  ASSUME NEW m \in Msg, NEW n \in InMessages(m), Passed(m.form) \/ Rejected(m.form),
         m.form.mt \notin FileUpdates
  PROVE  NoUpdate(n.mt) /\ (n.mt = UpdateLess10 => m.form.mt = UpdateLess10)
<1>1. CASE Rejected(m.form)
  <2>1. n.mt = RejectType(InType(m.form)) /\ InType(m.form) \in RejectTypes
    BY <1>1 DEF InMessages, Rejected, Msg
  <2> QED BY <2>1 DEF RejectType, RejectTypes, NoUpdate, FileUpdates, UpdateLess10
<1>2. CASE ~Rejected(m.form)
  <2>1. PICK t : n = [m EXCEPT !.mt = t] /\ t \in {InType(m.form), 210}
    BY <1>2 DEF InMessages
  <2>2. n.mt = t /\ t \in {m.form.mt, 210, 230}
    BY <2>1 DEF InType, Msg
  <2> QED BY <2>2 DEF NoUpdate, FileUpdates, UpdateLess10
<1> QED BY <1>1, <1>2

\* What an inbound half of fmt does.
LEMMA InboundMoves ==
  ASSUME TypeOK, DecidedHeld, AsSent, NEW n \in Inbounds, Inbound(n)
  PROVE  Move
<1> USE Names
<1>0. decided = decided \ {n} /\ TakesIn(n) /\ n # "paybal"
  BY Roles DEF TypeOK
<1>1. CASE InReads(n)
  BY <1>0, <1>1 DEF InReads, Takes, InQueues, history, Move
<1>2. CASE InDrops(n)
  BY <1>0, <1>2, DropLoses DEF InDrops, history, Move
<1>3. CASE InFileUpdate(n)
  <2>1. Holds(n) /\ hand[n] \in Msg
    BY <1>3, HandTyped DEF InFileUpdate, Holds
  <2>2. Passage(n, "FUPDQ", hand[n])
    BY <1>0 DEF Passage, InQueues, AskQueues
  <2> QED
    BY <1>0, <1>3, <2>1, <2>2, GravaOuPerdeMoves DEF InFileUpdate, history, Move
<1>4. CASE InEcho(n)
  <2> DEFINE m == [hand[n] EXCEPT !.rc = "approved", !.raw = TRUE]
  <2>1. Holds(n) /\ hand[n] \in Msg
    BY <1>4, HandTyped DEF InEcho, Holds
  <2>2. m \in Msg /\ m.id = hand[n].id /\ m.mt = hand[n].mt /\ m.form = hand[n].form /\ m.raw
    BY <2>1 DEF Msg, RespCodes
  <2>3. m.mt # 110
    BY <1>4, <2>1, <2>2 DEF InEcho, IsEcho, IsNetwork, AsSent
  <2> HIDE DEF m
  <2>4. ~Approval(m)
    BY <2>3 DEF Approval
  <2>5. GravaOuPerde("DRIVERQ", m, CoreSize)
    BY <1>4 DEF InEcho, m
  <2>6. Passage(n, "DRIVERQ", m)
    BY <2>2, <2>4 DEF Passage, OutQueues
  <2> QED
    BY <1>0, <1>4, <2>1, <2>2, <2>5, <2>6, GravaOuPerdeMoves DEF InEcho, history, Move
<1>5. CASE InForwards(n)
  <2>1. PICK m \in InMessages(hand[n]) : GravaFila(Backend(m.form), m)
    BY <1>5 DEF InForwards
  <2>2. Holds(n) /\ hand[n] \in Msg /\ m \in Msg /\ m.id = hand[n].id
    BY <1>5, HandTyped, InMessagesTyped DEF InForwards, Forwards, Holds
  <2>4. m.form = hand[n].form /\ (Ordinary(m.form) => m.mt = hand[n].mt)
    BY <2>1, <2>2, OrdinaryForwarded DEF AsSent
  <2>3. Backend(m.form) \in InQueues \ {"FORMINQ"} /\ Backend(m.form) \in Queues
    BY DEF Backend, InQueues, Queues
  <2>5. NoUpdate(m.mt) /\ (m.mt = UpdateLess10 => m.form.mt = UpdateLess10)
    BY <1>5, <2>1, <2>2, <2>4, UpdatesStay DEF InForwards, Forwards
  <2>6. Passage(n, Backend(m.form), m)
    BY <1>0, <2>3, <2>4, <2>5 DEF Passage
  <2>7. decided' = decided \ {n} /\ UNCHANGED <<db, arrived, net>>
    BY <1>0, <1>5 DEF InForwards, Forwards, history
  <2> QED BY <1>0, <1>5, <2>1, <2>2, <2>3, <2>4, <2>6, <2>7 DEF InForwards, Passes, Move
<1>6. CASE InFull(n)
  BY <1>6, FmtExitLoses DEF InFull, Forwards, history, Move
<1>7. CASE InFaults(n)
  BY <1>7, FmtExitLoses DEF InFaults, history, Move
<1> QED BY <1>1, <1>2, <1>3, <1>4, <1>5, <1>6, <1>7 DEF Inbound

\* What the outbound half does.
LEMMA OutMoves ==
  ASSUME TypeOK, DecidedHeld, Out
  PROVE  Move
<1> USE Names
<1>0. decided = decided \ {"out"} /\ BringsOut("out")
  BY Roles DEF TypeOK, BringsOut
<1>1. CASE OutReads
  BY <1>1 DEF OutReads, Takes, history, Move
<1>2. CASE OutIgnores
  BY <1>0, <1>2, DropLoses DEF OutIgnores, Outbound, history, Move
<1>3. CASE OutRaw
  <2> DEFINE m == [OutMsg EXCEPT !.raw = TRUE]
  <2>1. Holds("out") /\ OutMsg \in Msg /\ m \in Msg
    BY <1>3, OutMsgTyped DEF OutRaw, Outbound, OutMsg, Holds
  <2>2. m.id = OutMsg.id /\ m.mt = OutMsg.mt /\ m.form = OutMsg.form /\ m.raw
    BY <2>1 DEF Msg
  <2>3. GravaOuPerde("DRIVERQ", m, CoreSize)
    BY <1>3 DEF OutRaw
  <2> HIDE DEF m
  <2>4. ~Approval(m)
    BY <1>3, <2>2 DEF OutRaw, Raw, IsReversal, Approval
  <2>5. m.id = hand["out"].id /\ m.form = hand["out"].form
    BY <2>2 DEF OutMsg
  <2>6. Passage("out", "DRIVERQ", m)
    BY <2>2, <2>4 DEF Passage, OutQueues
  <2> QED
    BY <1>0, <1>3, <2>1, <2>3, <2>5, <2>6, GravaOuPerdeMoves
    DEF OutRaw, Outbound, history, Move
<1>4. CASE OutFaults
  BY <1>4, FmtExitLoses DEF OutFaults, Outbound, history, Move
<1>5. CASE OutDiscards
  BY <1>0, <1>5, DropLoses DEF OutDiscards, Outbound, history, Move
<1>6. CASE OutSends
  <2> DEFINE m == [OutMsg EXCEPT !.mt = OutMt, !.rc = WireCode(OutMt, @)]
  <2>1. Holds("out") /\ OutMsg \in Msg /\ m \in Msg
    BY <1>6, OutMsgTyped DEF OutSends, Outbound, OutMsg, Holds
  <2>2. m.id = OutMsg.id /\ m.form = OutMsg.form
        /\ m.mt = OutMt /\ m.rc = WireCode(OutMt, OutMsg.rc) /\ m.raw = OutMsg.raw
    BY <2>1 DEF Msg
  <2>3. GravaFila("DRIVERQ", m)
    BY <1>6 DEF OutSends
  <2> HIDE DEF m
  <2>4. Approval(m) => Approval(OutMsg)
    BY <2>2 DEF Approval, OutMt, OutType, WireCode
  <2>5. Passage("out", "DRIVERQ", m)
    BY <1>0, <1>6, <2>2, <2>4 DEF Passage, OutQueues, OutSends, OutMsg, OutMt, Formats, Raw
  <2> QED
    BY <1>0, <1>6, <2>1, <2>2, <2>3, <2>5
    DEF OutSends, Outbound, OutMsg, Passes, history, Move
<1>7. CASE OutFull
  BY <1>7, FmtExitLoses DEF OutFull, Outbound, history, Move
<1> QED BY <1>1, <1>2, <1>3, <1>4, <1>5, <1>6, <1>7 DEF Out

\* What an authoriser does.
LEMMA BackendMoves ==
  ASSUME TypeOK, DecidedHeld, PaymentsOnly, NEW b \in Backends, BackendStep(b)
  PROVE  Move
<1> USE Names
<1>1. CASE BackendReads(b)
  BY <1>1 DEF BackendReads, Takes, history, Move
<1>2. ASSUME Pending(b), NEW r \in DbResults, NEW rc \in RespCodes, Respond(b, rc),
             db' \in {db, [db EXCEPT ![hand[b].id] = r]},
             rc = "approved" => rc = RespCode(b, r) /\ db' = [db EXCEPT ![hand[b].id] = r]
      PROVE  Responds
  <2> DEFINE m == [hand[b] EXCEPT !.mt = ResponseType(@), !.rc = rc]
  <2>1. Holds(b) /\ hand[b] \in Msg /\ b \notin decided
    BY <1>2, HandTyped DEF Pending, Holds
  <2>2. ResponseType(hand[b].mt) \in Nat
    BY <2>1, MsgForm DEF ResponseType
  <2>3. m \in Msg /\ m.id = hand[b].id /\ m.form = hand[b].form /\ m.rc = rc
        /\ m.mt = ResponseType(hand[b].mt)
    BY <2>1, <2>2 DEF Msg
  <2>4. hand' = [hand EXCEPT ![b] = m]
    BY <1>2 DEF Respond
  <2> HIDE DEF m
  <2>5. ASSUME Approval(m) PROVE Backs(db'[m.id], m)
    <3>1. rc = "approved" /\ RespCode(b, r) = "approved"
          /\ db' = [db EXCEPT ![hand[b].id] = r]
      BY <1>2, <2>3, <2>5 DEF Approval
    <3>2. r = "approved" \/ (r = "nonumber" /\ b # "auth")
      BY <3>1 DEF RespCode
    <3>3. db'[m.id] = r
      BY <2>1, <2>3, <3>1, MsgForm DEF TypeOK
    <3>4. b # "auth" => m.form.pay
      BY <2>1, <2>3 DEF Backends, PaymentsOnly
    <3> QED BY <3>2, <3>3, <3>4 DEF Backs
  <2> QED BY <1>2, <2>1, <2>3, <2>4, <2>5 DEF Respond, Responds
<1>3. CASE Authorizes(b)
  <2>1. PICK r \in DbResults : /\ db' = [db EXCEPT ![hand[b].id] = r]
                               /\ Respond(b, RespCode(b, r))
    BY <1>3 DEF Authorizes
  <2>2. RespCode(b, r) \in RespCodes
    BY DEF RespCode, RespCodes, DbResults
  <2> QED BY <1>2, <1>3, <2>1, <2>2 DEF Authorizes, Move
<1>4. CASE CallFails(b)
  <2>1. PICK r \in DbResults : db' \in {db, [db EXCEPT ![hand[b].id] = r]}
    BY <1>4 DEF CallFails, DbResults
  <2> QED BY <1>2, <1>4, <2>1 DEF CallFails, RespCodes, Move
<1>5. CASE BackendSends(b)
  <2>1. Holds(b) /\ hand[b] \in Msg /\ BringsOut(b)
    BY <1>5, HandTyped DEF BackendSends, DecidedHeld, Holds, BringsOut
  <2>2. Passage(b, "FORMOUTQ", hand[b])
    BY <1>5, <2>1 DEF Passage, BackendSends, OutQueues
  <2> QED BY <1>5, <2>1, <2>2 DEF BackendSends, Passes, history, Move
<1>6. CASE BackendFull(b)
  BY <1>6, DropLoses DEF BackendFull, history, Move
<1> QED BY <1>1, <1>3, <1>4, <1>5, <1>6 DEF BackendStep

\* What signals, kills and restarts do, and the log.
LEMMA DeathMoves ==
  ASSUME TypeOK, DecidedHeld,
         \/ \E p \in Inbounds \cup {"out"} : FmtSignalled(p)
         \/ LogReads
         \/ \E p \in Servers : Killed(p) \/ Restarts(p)
         \/ RestartsFmt
  PROVE  Loses
<1>1. ASSUME NEW p \in Inbounds \cup {"out"}, FmtSignalled(p)
      PROVE  Loses
  BY <1>1, FmtExitLoses DEF FmtSignalled, history
<1>2. ASSUME NEW p \in Servers, Killed(p)
      PROVE  Loses
  <2>1. \A w \in Workers : hand'[w] = IF w = p THEN Nothing ELSE hand[w]
    BY <1>2 DEF Killed
  <2>2. decided \subseteq Workers
    BY Roles DEF TypeOK
  <2>3. decided' = {b \in decided : hand'[b] # Nothing}
    BY <1>2, <2>1, <2>2 DEF Killed, DecidedHeld, Holds
  <2> QED BY <1>2, <2>1, <2>3 DEF Killed, history, Loses
<1>3. CASE LogReads \/ RestartsFmt \/ \E p \in Servers : Restarts(p)
  BY <1>3, KeepLoses DEF LogReads, RestartsFmt, Restarts, history
<1> QED BY <1>1, <1>2, <1>3

\* The steps of the switch, and the moves they are.
LEMMA StepMoves ==
  ASSUME TypeOK, DecidedHeld, AsSent, PaymentsOnly, [Next]_vars
  PROVE  Move
<1>1. CASE UNCHANGED vars
  BY <1>1, KeepLoses DEF vars, Move
<1>2. CASE Next
  BY <1>2, LineMoves, InboundMoves, OutMoves, BackendMoves, DeathMoves DEF Next, Move
<1> QED BY <1>1, <1>2
===============================================================================
