------------------------------- MODULE FmtProofs -------------------------------
(***************************************************************************)
(* The two halves of fmt go down together, and tcpclient only ends for a   *)
(* reason: over any number of inbound halves and of crashes.  And while    *)
(* nothing is killed and there is room, nothing ends and nothing is lost.  *)
(***************************************************************************)
EXTENDS ServiceProofs, FiniteSetTheorems

\* What a step does to the processes behind launch: a half of fmt goes through
\* fmtexit, fmt starts, something is killed, or only the authorisers and the
\* log come and go.
LEMMA ProcessStep ==
  ASSUME TypeOK, [Next]_vars
  PROVE  \/ /\ UNCHANGED <<sig, child, masked>> /\ crashes' \in {crashes, crashes + 1}
            /\ \A p \in Inbounds \cup {"out"} : p \in alive' <=> p \in alive
         \/ \E p \in Inbounds \cup {"out"} : FmtExit(p) /\ UNCHANGED <<child, masked, crashes>>
         \/ \E p \in Servers : Killed(p)
         \/ RestartsFmt
<1> DEFINE Same == /\ UNCHANGED <<sig, child, masked>> /\ crashes' \in {crashes, crashes + 1}
                   /\ \A p \in Inbounds \cup {"out"} : p \in alive' <=> p \in alive
           Exit == \E p \in Inbounds \cup {"out"} :
                     FmtExit(p) /\ UNCHANGED <<child, masked, crashes>>
<1>1. CASE UNCHANGED vars
  BY <1>1 DEF vars
<1>2. CASE \/ \E id \in Ids, f \in Traffic : RcvFromNet(id, f)
           \/ FromNet \/ ToNet \/ RcvGivesUp \/ LineFails \/ TcpKilled \/ TcpExits
           \/ OperatorRestartsTcp \/ LogReads
  BY <1>2 DEF RcvFromNet, FromNet, ToNet, ToNetReads, ToNetRefuses, SendToNet, SendFails,
              RcvGivesUp, LineFails, TcpKilled, TcpExits, OperatorRestartsTcp, LogReads, procs
<1>3. ASSUME NEW n \in Inbounds, Inbound(n) PROVE Same \/ Exit
  <2>1. CASE InReads(n) \/ InDrops(n) \/ InFileUpdate(n) \/ InEcho(n)
    BY <2>1 DEF InReads, InDrops, InFileUpdate, InEcho, procs
  <2>2. CASE InForwards(n)
    BY <2>2 DEF InForwards, Forwards
  <2>3. CASE InFull(n) \/ InFaults(n)
    BY <2>3 DEF InFull, InFaults, Forwards
  <2> QED BY <1>3, <2>1, <2>2, <2>3 DEF Inbound
<1>4. ASSUME Out PROVE Same \/ Exit
  <2>1. CASE OutReads \/ OutIgnores \/ OutRaw \/ OutDiscards \/ OutSends
    BY <2>1 DEF OutReads, OutIgnores, OutRaw, OutDiscards, OutSends, Outbound, procs
  <2>2. CASE OutFaults \/ OutFull
    BY <2>2 DEF OutFaults, OutFull, Outbound
  <2> QED BY <1>4, <2>1, <2>2 DEF Out
<1>5. ASSUME NEW p \in Inbounds \cup {"out"}, FmtSignalled(p) PROVE Exit
  BY <1>5 DEF FmtSignalled
<1>6. ASSUME NEW b \in Backends, BackendStep(b) PROVE Same
  <2>1. b \notin Inbounds \cup {"out"}
    BY SwitchAssumption DEF Backends
  <2> QED BY <1>6, <2>1 DEF BackendStep, BackendReads, Authorizes, CallFails, Respond,
                            BackendSends, BackendFull, procs
<1>7. ASSUME NEW p \in Servers, Restarts(p) PROVE Same
  BY <1>7, SwitchAssumption DEF Restarts
<1> QED BY <1>1, <1>2, <1>3, <1>4, <1>5, <1>6, <1>7 DEF Next

\* Crashes are counted and not forgotten.
LEMMA CrashesGrow ==
  ASSUME TypeOK, [Next]_vars
  PROVE  crashes' = 0 => crashes = 0
<1>1. crashes \in Nat
  BY SwitchAssumption DEF TypeOK
<1>2. ASSUME NEW p \in Servers, Killed(p) PROVE crashes' # 0
  BY <1>1, <1>2 DEF Killed
<1>3. RestartsFmt => crashes' = crashes
  BY DEF RestartsFmt
<1>4. crashes' \in {crashes, crashes + 1} => (crashes' = 0 => crashes = 0)
  BY <1>1
<1> QED BY <1>2, <1>3, <1>4, ProcessStep

\* A step leaves an outbound half deaf only by a kill of its inbound half, and
\* then only where SIGCHLD is blocked.
LEMMA NeverDeafStep ==
  ASSUME TypeOK, NeverDeaf, [Next]_vars
  PROVE  NeverDeaf'
<1>0. child \in Inbounds /\ "out" \notin Inbounds /\ crashes \in Nat
  BY SwitchAssumption DEF TypeOK
<1>1. ASSUME NEW p \in Inbounds \cup {"out"}, FmtExit(p), UNCHANGED <<child, masked, crashes>>
      PROVE  NeverDeaf'
  BY <1>0, <1>1 DEF FmtExit, Peer, NeverDeaf, Deaf
<1>2. ASSUME NEW p \in Servers, Killed(p)
      PROVE  NeverDeaf'
  <2>1. crashes' > 0 /\ masked' = masked
    BY <1>0, <1>2 DEF Killed
  <2>2. Deaf' => masked
    BY <1>0, <1>2 DEF Killed, NeverDeaf, Deaf
  <2> QED BY <2>1, <2>2 DEF NeverDeaf
<1>3. CASE RestartsFmt
  BY <1>3 DEF RestartsFmt, NeverDeaf, Deaf
<1>4. CASE /\ UNCHANGED <<sig, child, masked>> /\ crashes' \in {crashes, crashes + 1}
           /\ \A p \in Inbounds \cup {"out"} : p \in alive' <=> p \in alive
  <2>1. Deaf' => Deaf
    BY <1>0, <1>4 DEF Deaf
  <2> QED BY <1>0, <1>4, <2>1 DEF NeverDeaf
<1> QED BY <1>1, <1>2, <1>3, <1>4, ProcessStep

\* The outbound half of fmt runs without its inbound half, and without a signal
\* that will end it, only after a kill, and only when launch had started it in
\* its handler of SIGCHLD.
THEOREM FmtNeverDeaf == Spec => []NeverDeaf
<1>1. Init => NeverDeaf
  BY DEF Init, NeverDeaf, Deaf
<1> QED BY <1>1, NeverDeafStep, TypeCorrect, PTL DEF Spec

\* A step never leaves an inbound half alone, but a kill.
LEMMA NoOrphanStep ==
  ASSUME TypeOK, NoOrphan, [Next]_vars
  PROVE  NoOrphan'
<1>0. /\ crashes \in Nat /\ (crashes' \in {crashes, crashes + 1} /\ crashes' = 0 => crashes = 0)
      /\ "out" \notin Inbounds
  BY SwitchAssumption DEF TypeOK
<1>1. ASSUME NEW p \in Inbounds \cup {"out"}, FmtExit(p), UNCHANGED <<child, masked, crashes>>
      PROVE  NoOrphan'
  BY <1>0, <1>1 DEF FmtExit, Peer, NoOrphan
<1>2. ASSUME NEW p \in Servers, Killed(p)
      PROVE  NoOrphan'
  BY <1>0, <1>2 DEF Killed, NoOrphan
<1>3. CASE RestartsFmt
  BY <1>0, <1>3 DEF RestartsFmt, NoOrphan
<1>4. CASE /\ UNCHANGED <<sig, child, masked>> /\ crashes' \in {crashes, crashes + 1}
           /\ \A p \in Inbounds \cup {"out"} : p \in alive' <=> p \in alive
  BY <1>0, <1>4 DEF NoOrphan
<1> QED BY <1>1, <1>2, <1>3, <1>4, ProcessStep

\* While nothing is killed from outside, no inbound half outlives its fmt, but
\* for the signal that will end it.
THEOREM FmtNoOrphan == Spec => []NoOrphan
<1>1. Init => NoOrphan
  BY SwitchAssumption DEF Init, NoOrphan
<1> QED BY <1>1, NoOrphanStep, TypeCorrect, PTL DEF Spec

-----------------------------------------------------------------------------
(* tcpclient *)

Poisoned == fila["DRIVERQ"] # <<>> /\ Head(fila["DRIVERQ"]).raw

\* A struct at the head of DRIVERQ stays there.
LEMMA PoisonStays ==
  ASSUME IInv, [Next]_vars, Poisoned
  PROVE  Poisoned'
<1>0. TypeOK /\ "DRIVERQ" \in Queues /\ Move
  BY Names, StepMoves DEF IInv
<1>1. CASE fila' = fila
  BY <1>1 DEF Poisoned
<1>2. CASE Takes
  <2>1. PICK p \in Workers, q \in Queues : LeFila(p, q) /\ q # "DRIVERQ"
    BY <1>2 DEF Takes, Input, Poisoned
  <2>2. fila'["DRIVERQ"] = fila["DRIVERQ"]
    BY <1>0, <2>1 DEF LeFila, TypeOK
  <2> QED BY <2>2 DEF Poisoned
<1>3. CASE Passes
  <2>1. PICK p \in Workers, q \in Queues, m \in Msg : GravaFila(q, m)
    BY <1>3 DEF Passes
  <2>2. fila["DRIVERQ"] \in Seq(Msg)
    BY <1>0 DEF TypeOK
  <2>3. fila'["DRIVERQ"] \in {fila["DRIVERQ"], Append(fila["DRIVERQ"], m)}
    BY <1>0, <2>1 DEF GravaFila, TypeOK
  <2> QED BY <2>2, <2>3 DEF Poisoned
<1> QED BY <1>0, <1>1, <1>2, <1>3 DEF Move, Arrives, Responds, Sends, Loses

\* Of all steps only tcpclient's touch its state or count a header that ends the
\* connection.
LEMMA TcpOnlyMoves ==
  ASSUME [Next]_vars
  PROVE  \/ ToNet \/ RcvGivesUp \/ LineFails \/ TcpKilled \/ TcpExits \/ OperatorRestartsTcp
         \/ UNCHANGED <<tcp, cuts>>
<1>1. CASE \/ \E id \in Ids, f \in Traffic : RcvFromNet(id, f)
           \/ FromNet \/ UNCHANGED vars
  BY <1>1 DEF RcvFromNet, FromNet, vars
<1>2. ASSUME NEW n \in Inbounds, Inbound(n) PROVE UNCHANGED <<tcp, cuts>>
  BY <1>2 DEF Inbound, InReads, InDrops, InFileUpdate, InEcho, InForwards, InFull,
              InFaults, Forwards
<1>3. CASE Out
  BY <1>3 DEF Out, OutReads, OutIgnores, OutRaw, OutFaults, OutDiscards, OutSends,
              OutFull, Outbound
<1>4. ASSUME NEW b \in Backends, BackendStep(b) PROVE UNCHANGED <<tcp, cuts>>
  BY <1>4 DEF BackendStep, BackendReads, Authorizes, CallFails, Respond, BackendSends,
              BackendFull
<1>5. CASE \/ \E p \in Inbounds \cup {"out"} : FmtSignalled(p)
           \/ LogReads \/ RestartsFmt
           \/ \E p \in Servers : Killed(p) \/ Restarts(p)
  BY <1>5 DEF FmtSignalled, LogReads, RestartsFmt, Killed, Restarts
<1> QED BY <1>1, <1>2, <1>3, <1>4, <1>5 DEF Next

\* Such headers are counted and not forgotten.
LEMMA CutsGrow ==
  ASSUME TypeOK, [Next]_vars
  PROVE  cuts' = 0 => cuts = 0
<1>1. cuts \in Nat
  BY SwitchAssumption DEF TypeOK
<1> QED
  BY <1>1, TcpOnlyMoves DEF ToNet, ToNetReads, ToNetRefuses, SendToNet, SendFails, RcvGivesUp,
     LineFails, TcpKilled, TcpExits, OperatorRestartsTcp

\* tcpclient stops running because of a crash, of such a header, or of a struct.
LEMMA TcpStep ==
  ASSUME IInv, [Next]_vars, tcp = "up", tcp' # "up"
  PROVE  crashes' # 0 \/ cuts' # 0 \/ Poisoned'
<1>1. CASE LineFails \/ TcpKilled
  BY <1>1, SwitchAssumption DEF LineFails, TcpKilled, IInv, TypeOK
<1>2. CASE RcvGivesUp
  BY <1>2, SwitchAssumption DEF RcvGivesUp, IInv, TypeOK
<1>3. CASE ToNetRefuses
  BY <1>3 DEF ToNetRefuses, Poisoned
<1>4. CASE ToNetReads \/ SendToNet \/ SendFails \/ TcpExits \/ OperatorRestartsTcp
  BY <1>4 DEF ToNetReads, SendToNet, SendFails, TcpExits, OperatorRestartsTcp
<1> QED BY <1>1, <1>2, <1>3, <1>4, TcpOnlyMoves DEF ToNet

\* Without crashes and such headers only a struct at the head of DRIVERQ stops
\* tcpclient.
THEOREM TcpOnlyPoison == Spec => []OnlyPoison
<1>1. Init => OnlyPoison
  BY DEF Init, OnlyPoison
<1>2. ASSUME IInv, OnlyPoison, [Next]_vars PROVE OnlyPoison'
  <2> SUFFICES ASSUME tcp' # "up", crashes' = 0, cuts' = 0 PROVE Poisoned'
    BY DEF OnlyPoison, Poisoned
  <2>1. CASE tcp = "up"
    BY <1>2, <2>1, TcpStep
  <2>2. CASE tcp # "up"
    <3>1. crashes = 0 /\ cuts = 0
      BY <1>2, CrashesGrow, CutsGrow DEF IInv
    <3> QED BY <1>2, <2>2, <3>1, PoisonStays DEF OnlyPoison, Poisoned
  <2> QED BY <2>1, <2>2
<1> QED BY <1>1, <1>2, Invariance, PTL DEF Spec

-----------------------------------------------------------------------------
(* Nothing is lost.                                                         *)

\* Where a struct has room behind the log lines, it has room before them, and a
\* message for the line has room.
LEMMA RoomEnough ==
  ASSUME TypeOK, Room(CoreSize)
  PROVE  RoomNow(CoreSize) /\ Room(WireSize)
<1>1. \A q \in Queues : Len(fila[q]) \in Nat
  BY DEF TypeOK
<1>2. RawIn("DRIVERQ") \in Nat
  <2> DEFINE S == {i \in DOMAIN fila["DRIVERQ"] : fila["DRIVERQ"][i].raw}
  <2>1. "DRIVERQ" \in Queues /\ fila["DRIVERQ"] \in Seq(Msg)
    BY Names DEF TypeOK
  <2>2. IsFiniteSet(DOMAIN fila["DRIVERQ"])
    BY <1>1, <2>1, FS_Interval
  <2>3. IsFiniteSet(S)
    BY <2>2, FS_Subset
  <2> QED BY <2>3, FS_CardinalityType DEF RawIn
<1>3. Used \in Int
  <2>1. logq \in Nat /\ LogSize \in Nat /\ WireSize \in Nat /\ CoreSize \in Nat
    BY SwitchAssumption DEF TypeOK
  <2>2. \A q \in {"FORMINQ", "FUPDQ", "DRIVERQ", "AUTHQ", "PAYBAL", "FORMOUTQ"} :
          Len(fila[q]) \in Int
    BY <1>1, Names
  <2>3. RawIn("DRIVERQ") \in Int
    BY <1>2
  <2>4. \A a, b, c, d, e, f, g, h \in Int :
          LogSize * logq + WireSize * (a + b + c - g) + CoreSize * (d + e + f + h) \in Int
    BY <2>1
  <2> QED BY <2>2, <2>3, <2>4 DEF Used
<1>4. LogSize * LogLines \in Nat
  BY SwitchAssumption DEF LogLines
<1>5. WireSize \in Nat /\ CoreSize \in Nat /\ Capacity \in Nat /\ WireSize <= CoreSize
  BY SwitchAssumption
<1> QED BY <1>3, <1>4, <1>5 DEF Room, RoomNow

\* The queues of the authorisers and the outbound half are such.
LEMMA Desks ==
  /\ AskQueues \subseteq Queues /\ "FORMOUTQ" \in Queues /\ "FORMOUTQ" \notin AskQueues
  /\ AskQueues \cap OutQueues = {} /\ "FORMOUTQ" \notin InQueues
  /\ \A b \in Backends : Input(b) \in AskQueues
  /\ \A f : Backend(f) \in AskQueues
  /\ Backends \subseteq Workers /\ "to" \notin Backends /\ "from" \notin Backends
  /\ "out" \notin Backends /\ Inbounds \cap Backends = {}
BY SwitchAssumption
DEF AskQueues, Queues, InQueues, OutQueues, Backends, Workers, Input, Backend

\* The processes behind launch leave tcpclient and what it holds alone.
LEMMA OthersApart ==
  ASSUME TypeOK,
         \/ \E n \in Inbounds : Inbound(n)
         \/ Out \/ \E b \in Backends : BackendStep(b)
         \/ LogReads \/ UNCHANGED vars
  PROVE  /\ UNCHANGED <<tcp, cuts>>
         /\ hand'["from"] = hand["from"] /\ hand'["to"] = hand["to"]
<1>0. /\ {"from", "to", "out"} \cup Backends \cup Inbounds \subseteq Workers
      /\ {"from", "to"} \cap (Inbounds \cup Backends \cup {"out"}) = {}
  BY SwitchAssumption DEF Backends, Workers
<1>1. ASSUME NEW p \in Inbounds \cup Backends \cup {"out"},
             \/ \E q \in Queues : LeFila(p, q)
             \/ Drop(p)
             \/ \E m \in Msg : hand' = [hand EXCEPT ![p] = m]
      PROVE  hand'["from"] = hand["from"] /\ hand'["to"] = hand["to"]
  BY <1>0, <1>1 DEF LeFila, Drop, TypeOK
<1>2. ASSUME NEW n \in Inbounds, Inbound(n)
      PROVE  UNCHANGED <<tcp, cuts>> /\ (LeFila(n, "FORMINQ") \/ Drop(n))
  BY <1>2 DEF Inbound, InReads, InDrops, InFileUpdate, InEcho, InForwards, InFull,
              InFaults, Forwards, FmtExit
<1>3. ASSUME Out
      PROVE  UNCHANGED <<tcp, cuts>> /\ (LeFila("out", "FORMOUTQ") \/ Drop("out"))
  BY <1>3 DEF Out, OutReads, OutIgnores, OutRaw, OutFaults, OutDiscards, OutSends,
              OutFull, Outbound, FmtExit
<1>4. ASSUME NEW b \in Backends, BackendStep(b)
      PROVE  UNCHANGED <<tcp, cuts>> /\ hand'["from"] = hand["from"] /\ hand'["to"] = hand["to"]
  <2>1. UNCHANGED <<tcp, cuts>>
    BY <1>4 DEF BackendStep, BackendReads, Authorizes, CallFails, Respond, BackendSends,
                BackendFull
  <2>2. \A w \in Workers \ {b} : hand'[w] = hand[w]
    BY <1>4 DEF BackendStep, BackendReads, Authorizes, CallFails, Respond, BackendSends,
                BackendFull, LeFila, Drop, TypeOK
  <2> QED BY <1>0, <2>1, <2>2
<1>5. CASE LogReads \/ UNCHANGED vars
  BY <1>5 DEF LogReads, vars
<1> QED BY <1>1, <1>2, <1>3, <1>4, <1>5, Names

\* What tcpclient and the line do while nothing is killed.
LEMMA LineCalm ==
  ASSUME TypeOK, AllUp, NoneRaw, HandsEmpty, Unhurt, crashes' = 0,
         \/ \E id \in Ids, f \in Traffic : RcvFromNet(id, f)
         \/ FromNet \/ ToNet \/ RcvGivesUp \/ LineFails \/ TcpKilled \/ TcpExits
         \/ OperatorRestartsTcp
  PROVE  AllUp' /\ HandsEmpty' /\ Charged
<1> USE Names
<1> DEFINE Goal == AllUp' /\ HandsEmpty' /\ Charged
<1>0. cuts \in Int /\ ToCharge \in {0, 1} /\ "from" \in Workers /\ "to" \in Workers
  BY SwitchAssumption DEF TypeOK, ToCharge
<1>a. ASSUME CalmKept, UNCHANGED <<procs, tcp, cuts>>,
             tcp = "up" \/ hand'["from"] = hand["from"],
             tcp \in {"up", "fromEnds"} \/ hand'["to"] = hand["to"]
      PROVE  Goal
  <2>1. ToCharge' = ToCharge
    BY <1>a DEF ToCharge
  <2>2. Charged
    BY <1>0, <1>a, <2>1 DEF Charged
  <2> QED BY <1>a, <2>2 DEF AllUp, HandsEmpty, procs
<1>1. ASSUME NEW id \in Ids, NEW f \in Traffic, RcvFromNet(id, f)
      PROVE  Goal
  <2>1. CalmKept
    BY <1>1 DEF RcvFromNet, Arrives, Came, CalmKept
  <2>2. UNCHANGED <<procs, tcp, cuts>> /\ tcp = "up"
    BY <1>1 DEF RcvFromNet, procs
  <2> QED BY <1>a, <2>1, <2>2
<1>2. CASE FromNet
  <2>1. Holds("from") /\ hand["from"] \in Msg /\ ~hand["from"].raw
    BY <1>2, HandTyped DEF FromNet, Holds, NoneRaw
  <2>2. GravaFila("FORMINQ", hand["from"])
    BY <1>2, RoomEnough DEF FromNet, GravaOuPerde, Unhurt
  <2>3. decided' = decided \ {"from"} /\ UNCHANGED <<arrived, net>>
    BY <1>2, Roles DEF FromNet, history, TypeOK
  <2>4. "FORMINQ" \in Queues \ {"FUPDQ"} /\ "FORMINQ" \notin AskQueues
    BY DEF AskQueues
  <2>5. CalmPasses
    BY <1>2, <2>1, <2>2, <2>3, <2>4 DEF FromNet, CalmPasses
  <2>6. tcp = "up" /\ UNCHANGED <<procs, tcp, cuts>>
    BY <1>2, <2>1 DEF FromNet, HandsEmpty, Holds
  <2> QED BY <1>a, <2>5, <2>6 DEF CalmKept
<1>3. CASE ToNetReads
  <2>1. CalmKept
    BY <1>3 DEF ToNetReads, Takes, history, CalmKept
  <2>2. UNCHANGED <<procs, tcp, cuts>> /\ tcp \in {"up", "fromEnds"}
        /\ hand'["from"] = hand["from"]
    BY <1>0, <1>3 DEF ToNetReads, LeFila, TypeOK
  <2> QED BY <1>a, <2>1, <2>2
<1>4. ASSUME ToNetRefuses PROVE FALSE
  <2>1. fila["DRIVERQ"] \in Seq(Msg) /\ fila["DRIVERQ"] # <<>>
    BY <1>4 DEF ToNetRefuses, TypeOK
  <2>2. 1 \in DOMAIN fila["DRIVERQ"] /\ Head(fila["DRIVERQ"]) = fila["DRIVERQ"][1]
    BY <2>1
  <2> QED BY <1>4, <2>2 DEF ToNetRefuses, NoneRaw
<1>5. CASE SendToNet
  <2>1. CalmKept
    BY <1>5 DEF SendToNet, Sends, Holds, CalmKept
  <2>2. UNCHANGED <<procs, tcp, cuts>> /\ tcp = "up"
    BY <1>5 DEF SendToNet
  <2> QED BY <1>a, <2>1, <2>2
<1>6. CASE SendFails
  <2>1. CutLoses /\ ToCharge = 1 /\ ToCharge' = 0 /\ cuts' = cuts
    BY <1>6 DEF SendFails, Drop, CutLoses, ToCharge, history
  <2>2. AllUp' /\ HandsEmpty'
    BY <1>0, <1>6 DEF SendFails, Drop, AllUp, HandsEmpty, procs, TypeOK
  <2> QED BY <2>1, <2>2 DEF Charged
<1>7. CASE TcpExits
  <2>1. hand' = [hand EXCEPT !["to"] = Nothing]
    BY <1>0, <1>7 DEF TcpExits, HandsEmpty, TypeOK
  <2>2. AllUp' /\ HandsEmpty'
    BY <1>0, <1>7 DEF TcpExits, AllUp, HandsEmpty, procs, TypeOK
  <2>3. CutLoses /\ cuts' = cuts /\ ToCharge' = 0
    BY <1>7, <2>1 DEF TcpExits, CutLoses, ToCharge, history
  <2>4. CASE tcp = "fromEnds"
    BY <2>2, <2>3, <2>4 DEF Charged, ToCharge
  <2>5. CASE tcp # "fromEnds"
    <3>1. hand["to"] = Nothing
      BY <1>7, <2>5 DEF TcpExits, HandsEmpty
    <3>2. Rests
      BY <2>1, <2>3, <3>1 DEF TypeOK, CutLoses, Rests
    <3> QED BY <1>0, <2>2, <2>3, <2>5, <3>2 DEF Charged, CalmKept, ToCharge
  <2> QED BY <2>4, <2>5
<1>8. CASE RcvGivesUp
  <2>1. Rests /\ cuts' = cuts + 1 /\ ToCharge = 0 /\ ToCharge' = 1
    BY <1>8 DEF RcvGivesUp, Rests, ToCharge, history
  <2>2. AllUp' /\ HandsEmpty'
    BY <1>8 DEF RcvGivesUp, AllUp, HandsEmpty, procs
  <2> QED BY <1>0, <2>1, <2>2 DEF Charged, CalmKept
<1>9. CASE OperatorRestartsTcp
  <2>1. Rests /\ cuts' = cuts /\ ToCharge = 0 /\ ToCharge' = 0
    BY <1>9 DEF OperatorRestartsTcp, Rests, ToCharge, history
  <2>2. AllUp' /\ HandsEmpty'
    BY <1>9 DEF OperatorRestartsTcp, AllUp, HandsEmpty, procs
  <2> QED BY <1>0, <2>1, <2>2 DEF Charged, CalmKept
<1>10. ASSUME LineFails \/ TcpKilled PROVE FALSE
  BY <1>10 DEF LineFails, TcpKilled, Unhurt
<1> QED
  BY <1>1, <1>2, <1>3, <1>4, <1>5, <1>6, <1>7, <1>8, <1>9, <1>10 DEF ToNet

\* What the inbound half makes of a message it has an answer for goes to the
\* authoriser as it should.
LEMMA AskedRight ==
  ASSUME NEW m \in Msg, NEW n \in InMessages(m), Answerable(m.form)
  PROVE  AsAsked(n) /\ n.raw = m.raw
<1>1. CASE Rejected(m.form)
  BY <1>1 DEF InMessages, AsAsked, AskedMt, Msg
<1>2. CASE ~Rejected(m.form)
  <2>1. n = [m EXCEPT !.mt = InType(m.form)]
    BY <1>2 DEF InMessages, Answerable
  <2> QED BY <1>2, <2>1 DEF AsAsked, AskedMt, Msg
<1> QED BY <1>1, <1>2

\* An inbound half does nothing but hand them on.
LEMMA InboundCalm ==
  ASSUME TypeOK, AsSent, AllUp, NoneRaw, Unhurt, NEW n \in Inbounds, Inbound(n),
         \A f \in Traffic : Answerable(f)
  PROVE  AllUp' /\ CalmKept
<1> USE Names
<1>0. hand[n] # Nothing =>
        /\ hand[n] \in Msg /\ Answerable(hand[n].form) /\ hand[n].mt = hand[n].form.mt
        /\ ~hand[n].raw
  BY HandTyped, MsgForm DEF AsSent, NoneRaw, Holds
<1>1. CASE InReads(n)
  BY <1>1 DEF InReads, Takes, procs, history, AllUp, CalmKept
<1>2. ASSUME InDrops(n) PROVE FALSE
  BY <1>0, <1>2 DEF InDrops, Answerable, Passed, Rejected
<1>3. ASSUME InFileUpdate(n) PROVE FALSE
  BY <1>0, <1>3 DEF InFileUpdate, Answerable
<1>4. ASSUME InEcho(n) PROVE FALSE
  BY <1>0, <1>4 DEF InEcho, Answerable, Passed, Rejected
<1>5. CASE InForwards(n)
  <2>1. PICK m \in InMessages(hand[n]) : GravaFila(Backend(m.form), m)
    BY <1>5 DEF InForwards
  <2>2. Holds(n) /\ hand[n] \in Msg /\ m \in Msg /\ m.id = hand[n].id /\ m.form = hand[n].form
    BY <1>5, HandTyped, InMessagesTyped DEF InForwards, Forwards, Holds
  <2>3. AsAsked(m) /\ ~m.raw
    BY <1>0, <2>1, <2>2, AskedRight DEF Holds
  <2>4. Backend(m.form) \in Queues \ {"FUPDQ"} /\ Backend(m.form) # "FORMOUTQ"
    BY DEF Backend
  <2>5. decided' = decided \ {n} /\ UNCHANGED <<arrived, net>> /\ Drop(n)
    BY <1>5, Roles DEF InForwards, Forwards, history, TypeOK
  <2>6. CalmPasses
    BY <2>1, <2>2, <2>3, <2>4, <2>5 DEF CalmPasses
  <2> QED BY <1>5, <2>6 DEF InForwards, Forwards, AllUp, CalmKept
<1>6. ASSUME InFull(n) PROVE FALSE
  BY <1>6 DEF InFull, Unhurt
<1>7. ASSUME InFaults(n) PROVE FALSE
  BY <1>0, <1>7 DEF InFaults, Answerable, Looks, Passed, Rejected
<1> QED BY <1>1, <1>2, <1>3, <1>4, <1>5, <1>6, <1>7 DEF Inbound

\* The outbound half ignores none of their answers, has a bitmap for each, and
\* sends it.
LEMMA OutCalm ==
  ASSUME TypeOK, AllUp, NoneRaw, AskedTold, Unhurt, Out,
         \A f \in Traffic : Answerable(f)
  PROVE  AllUp' /\ CalmKept
<1> USE Names
<1>0. ASSUME OutMsg # Nothing
      PROVE  /\ ~Ignored(OutMsg) /\ ~Raw(OutMsg) /\ OutMt \in Mapped \ RetUndefined
             /\ ~OutMsg.raw
  <2>1. OutMsg \in Msg /\ Holds("out") /\ AsTold(OutMsg) /\ Answerable(OutMsg.form) /\ ~OutMsg.raw
    BY <1>0, HandTyped, MsgForm DEF OutMsg, Holds, AskedTold, NoneRaw
  <2> QED BY <2>1 DEF AsTold, Answerable, Ignored, Raw, OutMt
<1>1. CASE OutReads
  BY <1>1 DEF OutReads, Takes, procs, history, AllUp, CalmKept
<1>2. ASSUME OutIgnores \/ OutRaw \/ OutFaults \/ OutDiscards PROVE FALSE
  BY <1>0, <1>2 DEF OutIgnores, OutRaw, OutFaults, OutDiscards, Outbound
<1>3. CASE OutSends
  <2> DEFINE m == [OutMsg EXCEPT !.mt = OutMt, !.rc = WireCode(OutMt, @)]
  <2>1. Holds("out") /\ OutMsg \in Msg /\ m \in Msg /\ ~OutMsg.raw
    BY <1>0, <1>3, OutMsgTyped DEF OutSends, Outbound, OutMsg, Holds
  <2>2. m.id = hand["out"].id /\ m.form = hand["out"].form /\ ~m.raw
    BY <2>1 DEF Msg, OutMsg
  <2>3. GravaFila("DRIVERQ", m)
    BY <1>3 DEF OutSends
  <2> HIDE DEF m
  <2>4. "DRIVERQ" \in Queues \ {"FUPDQ"} /\ "DRIVERQ" \notin AskQueues
    BY DEF AskQueues
  <2>5. decided' = decided \ {"out"} /\ UNCHANGED <<arrived, net>> /\ Drop("out")
    BY <1>3, Roles DEF OutSends, Outbound, history, TypeOK
  <2>6. CalmPasses
    BY <2>1, <2>2, <2>3, <2>4, <2>5 DEF CalmPasses
  <2> QED BY <1>3, <2>6 DEF OutSends, Outbound, AllUp, CalmKept
<1>4. ASSUME OutFull PROVE FALSE
  BY <1>4, RoomEnough DEF OutFull, Unhurt
<1> QED BY <1>1, <1>2, <1>3, <1>4 DEF Out

\* An authoriser answers, be it that its call failed.
LEMMA BackendCalm ==
  ASSUME TypeOK, DecidedHeld, AllUp, NoneRaw, Unhurt, NEW b \in Backends, BackendStep(b)
  PROVE  AllUp' /\ CalmKept
<1> USE Names
<1>1. CASE BackendReads(b)
  BY <1>1 DEF BackendReads, Takes, procs, history, AllUp, CalmKept
<1>2. ASSUME Pending(b), NEW rc \in RespCodes \ {"reject"}, Respond(b, rc)
      PROVE  AllUp' /\ CalmKept
  <2> DEFINE m == [hand[b] EXCEPT !.mt = ResponseType(@), !.rc = rc]
  <2>1. Holds(b) /\ hand[b] \in Msg /\ b \notin decided /\ ~hand[b].raw
    BY <1>2, HandTyped DEF Pending, Holds, NoneRaw
  <2>2. ResponseType(hand[b].mt) \in Nat
    BY <2>1, MsgForm DEF ResponseType
  <2>3. m \in Msg /\ m.id = hand[b].id /\ m.form = hand[b].form /\ m.rc = rc
        /\ m.mt = ResponseType(hand[b].mt) /\ ~m.raw
    BY <2>1, <2>2 DEF Msg
  <2>4. hand' = [hand EXCEPT ![b] = m]
    BY <1>2 DEF Respond
  <2> HIDE DEF m
  <2>5. CalmResponds
    BY <1>2, <2>1, <2>3, <2>4 DEF Respond, CalmResponds
  <2> QED BY <1>2, <2>5 DEF Respond, procs, AllUp, CalmKept
<1>3. CASE Authorizes(b)
  <2>1. PICK r \in DbResults : Respond(b, RespCode(b, r))
    BY <1>3 DEF Authorizes
  <2>2. RespCode(b, r) \in RespCodes \ {"reject"}
    BY DEF RespCode, RespCodes, DbResults
  <2> QED BY <1>2, <1>3, <2>1, <2>2 DEF Authorizes
<1>4. CASE CallFails(b)
  BY <1>2, <1>4 DEF CallFails, RespCodes
<1>5. CASE BackendSends(b)
  <2>1. Holds(b) /\ hand[b] \in Msg /\ ~hand[b].raw
    BY <1>5, HandTyped DEF BackendSends, DecidedHeld, Holds, NoneRaw
  <2>2. "FORMOUTQ" \in Queues \ {"FUPDQ"} /\ "FORMOUTQ" \notin AskQueues
    BY DEF AskQueues
  <2>3. CalmPasses
    BY <1>5, <2>1, <2>2 DEF BackendSends, history, CalmPasses
  <2> QED BY <1>5, <2>3 DEF BackendSends, procs, AllUp, CalmKept
<1>6. ASSUME BackendFull(b) PROVE FALSE
  BY <1>6, RoomEnough DEF BackendFull, Unhurt
<1> QED BY <1>1, <1>3, <1>4, <1>5, <1>6 DEF BackendStep

\* A step while nothing is killed and there is room ends no process behind launch,
\* and loses no request but what a header that ended the connection is charged
\* with.
LEMMA CalmStep ==
  ASSUME IInv, AllUp, NoneRaw, AskedTold, HandsEmpty, Unhurt, Unhurt', [Next]_vars,
         \A f \in Traffic : Answerable(f)
  PROVE  AllUp' /\ HandsEmpty' /\ Charged
<1>0. /\ TypeOK /\ DecidedHeld /\ AsSent /\ crashes = 0 /\ crashes' = 0
      /\ cuts \in Int /\ ToCharge \in Int
  BY SwitchAssumption DEF IInv, Unhurt, TypeOK, ToCharge
<1>1. ASSUME UNCHANGED vars \/ LogReads PROVE AllUp' /\ CalmKept
  BY <1>1 DEF vars, LogReads, procs, history, AllUp, CalmKept, Rests
<1>2. ASSUME \/ \E p \in Inbounds \cup {"out"} : FmtSignalled(p)
             \/ \E p \in Servers : Killed(p) \/ Restarts(p)
             \/ RestartsFmt
      PROVE  FALSE
  BY <1>0, <1>2 DEF FmtSignalled, Killed, Restarts, RestartsFmt, AllUp
<1>3. ASSUME \/ \E n \in Inbounds : Inbound(n)
             \/ Out \/ \E b \in Backends : BackendStep(b)
             \/ LogReads \/ UNCHANGED vars
      PROVE  AllUp' /\ HandsEmpty' /\ Charged
  <2>1. AllUp' /\ CalmKept
    BY <1>0, <1>1, <1>3, InboundCalm, OutCalm, BackendCalm
  <2>2. UNCHANGED <<tcp, cuts>> /\ hand'["from"] = hand["from"] /\ hand'["to"] = hand["to"]
    BY <1>0, <1>3, OthersApart
  <2>3. HandsEmpty' /\ ToCharge' = ToCharge
    BY <2>2 DEF HandsEmpty, ToCharge
  <2> QED BY <1>0, <2>1, <2>2, <2>3 DEF Charged
<1> QED BY <1>0, <1>2, <1>3, LineCalm DEF Next

\* Such a step makes no struct,
LEMMA CalmNoneRaw ==
  ASSUME TypeOK, NoneRaw, CalmMove
  PROVE  NoneRaw'
<1> SUFFICES /\ \A q \in Queues : \A i \in DOMAIN fila'[q] : ~fila'[q][i].raw
             /\ \A p \in Workers : hand'[p] # Nothing => ~hand'[p].raw
  BY DEF NoneRaw, Holds
<1>0. /\ \A q \in Queues : \A i \in DOMAIN fila[q] : ~fila[q][i].raw
      /\ \A p \in Workers : hand[p] # Nothing => ~hand[p].raw
  BY DEF NoneRaw, Holds
<1>1. CASE Arrives
  <2>1. PICK id \in Ids, f \in Traffic :
          hand' = [hand EXCEPT !["from"] =
            [id |-> id, form |-> f, mt |-> f.mt, rc |-> "none", raw |-> FALSE]]
    BY <1>1 DEF Arrives
  <2>2. fila' = fila
    BY <1>1 DEF Arrives
  <2> QED BY <1>0, <2>1, <2>2 DEF TypeOK
<1>2. CASE Takes
  <2>1. PICK p \in Workers, q \in Queues : LeFila(p, q)
    BY <1>2 DEF Takes
  <2>2. /\ \A r \in Queues : \A i \in DOMAIN fila'[r] :
             \E j \in DOMAIN fila[r] : fila'[r][i] = fila[r][j]
        /\ \A w \in Workers : hand'[w] = IF w = p THEN fila[q][1] ELSE hand[w]
        /\ 1 \in DOMAIN fila[q]
    BY <2>1, TakeShape
  <2> QED BY <1>0, <2>2
<1>3. CASE CalmPasses
  <2>1. PICK p \in Workers, q \in Queues, m \in Msg : GravaFila(q, m) /\ Drop(p) /\ ~m.raw
    BY <1>3 DEF CalmPasses
  <2>2. /\ \A r \in Queues : \A i \in DOMAIN fila'[r] :
             \/ i \in DOMAIN fila[r] /\ fila'[r][i] = fila[r][i]
             \/ fila'[r][i] = m
        /\ \A w \in Workers : hand'[w] = IF w = p THEN Nothing ELSE hand[w]
    BY <2>1, PassShape
  <2> QED BY <1>0, <2>1, <2>2
<1>4. CASE CalmResponds
  <2>1. PICK b \in Backends, m \in Msg : ~m.raw /\ hand' = [hand EXCEPT ![b] = m] /\ fila' = fila
    BY <1>4 DEF CalmResponds
  <2> QED BY <1>0, <2>1 DEF TypeOK
<1>5. CASE Sends
  BY <1>0, <1>5, SendShape DEF Sends
<1>6. CASE Rests
  BY <1>0, <1>6 DEF Rests
<1>7. CASE CutLoses
  <2>1. UNCHANGED <<fila, decided>> /\ \A w \in Workers : hand'[w] \in {hand[w], Nothing}
        /\ (w # "to" => hand'[w] = hand[w])
    BY <1>7 DEF CutLoses, TypeOK
  <2> QED BY <1>0, <2>1
<1> QED BY <1>1, <1>2, <1>3, <1>4, <1>5, <1>6, <1>7 DEF CalmMove, CalmKept

\* asks and tells as it should,
LEMMA CalmAskedTold ==
  ASSUME TypeOK, DecidedHeld, AskedTold, CalmMove
  PROVE  AskedTold'
<1> DEFINE QueuesAsk == \A q \in AskQueues : \A i \in DOMAIN fila'[q] : AsAsked(fila'[q][i])
           HandsAsk  == \A b \in Backends \ decided' : hand'[b] # Nothing => AsAsked(hand'[b])
           HandsTell == \A b \in decided' : AsTold(hand'[b])
           OutTells  == \A i \in DOMAIN fila'["FORMOUTQ"] : AsTold(fila'["FORMOUTQ"][i])
           LastTells == hand'["out"] # Nothing => AsTold(hand'["out"])
<1>0. /\ \A q \in AskQueues : \A i \in DOMAIN fila[q] : AsAsked(fila[q][i])
      /\ \A b \in Backends \ decided : hand[b] # Nothing => AsAsked(hand[b])
      /\ \A b \in decided : AsTold(hand[b])
      /\ \A i \in DOMAIN fila["FORMOUTQ"] : AsTold(fila["FORMOUTQ"][i])
      /\ hand["out"] # Nothing => AsTold(hand["out"])
      /\ decided \subseteq Backends /\ "out" \in Workers /\ "out" \notin {"from", "to"}
  BY Names DEF AskedTold, Holds, TypeOK
<1> SUFFICES QueuesAsk /\ HandsAsk /\ HandsTell /\ OutTells /\ LastTells
  BY DEF AskedTold, Holds, AsAsked, AsTold
<1>1. CASE Arrives
  <2>1. UNCHANGED <<fila, decided>> /\ \A w \in Workers \ {"from"} : hand'[w] = hand[w]
    BY <1>1, ArriveShape DEF Arrives
  <2>2. \A b \in Backends : hand'[b] = hand[b]
    BY <2>1, Desks
  <2> QED BY <1>0, <2>1, <2>2
<1>2. CASE Takes
  <2>1. PICK p \in Workers, q \in Queues :
          /\ LeFila(p, q) /\ decided' = decided
          /\ p \in Backends => q \in AskQueues
          /\ p = "out" => q = "FORMOUTQ"
    BY <1>2, Desks, SwitchAssumption DEF Takes
  <2>2. /\ \A r \in Queues : \A i \in DOMAIN fila'[r] :
             \E j \in DOMAIN fila[r] : fila'[r][i] = fila[r][j]
        /\ \A w \in Workers : hand'[w] = IF w = p THEN fila[q][1] ELSE hand[w]
        /\ 1 \in DOMAIN fila[q] /\ hand[p] = Nothing
    BY <2>1, TakeShape
  <2>3. QueuesAsk /\ OutTells
    BY <1>0, <2>2, Desks
  <2>4. p \notin decided
    BY <2>2 DEF DecidedHeld, Holds
  <2>5. HandsAsk
    BY <1>0, <2>1, <2>2, Desks
  <2>6. HandsTell
    BY <1>0, <2>1, <2>2, <2>4, Desks
  <2>7. LastTells
    BY <1>0, <2>1, <2>2
  <2> QED BY <2>3, <2>5, <2>6, <2>7
<1>3. CASE CalmPasses
  <2>1. PICK p \in Workers, q \in Queues, m \in Msg :
          /\ q \in AskQueues => AsAsked(m)
          /\ q = "FORMOUTQ" => p \in decided /\ m = hand[p]
          /\ GravaFila(q, m) /\ Drop(p) /\ decided' = decided \ {p}
    BY <1>3 DEF CalmPasses
  <2>2. /\ \A r \in Queues : \A i \in DOMAIN fila'[r] :
             \/ i \in DOMAIN fila[r] /\ fila'[r][i] = fila[r][i]
             \/ r = q /\ fila'[r][i] = m
        /\ \A w \in Workers : hand'[w] = IF w = p THEN Nothing ELSE hand[w]
    BY <2>1, PassShape
  <2>3. QueuesAsk /\ OutTells
    BY <1>0, <2>1, <2>2, Desks
  <2>4. HandsAsk /\ HandsTell /\ LastTells
    BY <1>0, <2>1, <2>2, Desks
  <2> QED BY <2>3, <2>4
<1>4. CASE CalmResponds
  <2>1. PICK b \in Backends \ decided, m \in Msg :
          /\ Holds(b) /\ m.form = hand[b].form /\ m.mt = ResponseType(hand[b].mt) /\ m.rc # "reject"
          /\ hand' = [hand EXCEPT ![b] = m] /\ decided' = decided \cup {b} /\ UNCHANGED fila
    BY <1>4 DEF CalmResponds
  <2>2. \A w \in Workers : hand'[w] = IF w = b THEN m ELSE hand[w]
    BY <2>1 DEF TypeOK
  <2>3. AsTold(m)
    BY <1>0, <2>1 DEF Holds, AsAsked, AsTold
  <2> QED BY <1>0, <2>1, <2>2, <2>3, Desks
<1>5. CASE Sends
  <2>1. UNCHANGED <<fila, decided>> /\ \A w \in Workers \ {"to"} : hand'[w] = hand[w]
    BY <1>5, SendShape DEF Sends
  <2>2. \A b \in Backends : hand'[b] = hand[b]
    BY <2>1, Desks
  <2> QED BY <1>0, <2>1, <2>2
<1>6. CASE Rests
  BY <1>0, <1>6 DEF Rests
<1>7. CASE CutLoses
  <2>1. UNCHANGED <<fila, decided>> /\ \A w \in Workers : hand'[w] \in {hand[w], Nothing}
        /\ (w # "to" => hand'[w] = hand[w])
    BY <1>7 DEF CutLoses, TypeOK
  <2>2. \A b \in Backends : hand'[b] = hand[b]
    BY <2>1, Desks
  <2> QED BY <1>0, <2>1, <2>2
<1> QED BY <1>1, <1>2, <1>3, <1>4, <1>5, <1>6, <1>7 DEF CalmMove, CalmKept

\* and keeps a request in a queue that is read, in a hand, or on the line.
LEMMA CalmKeeps ==
  ASSUME TypeOK, CalmKept, NEW id \in Ids, Within(id) \/ Answered(id)
  PROVE  Within(id)' \/ Answered(id)'
<1> DEFINE Queued   == \E q \in Queues \ {"FUPDQ"} : \E i \in DOMAIN fila[q] : fila[q][i].id = id
           Held     == \E w \in Workers : hand[w] # Nothing /\ hand[w].id = id
           Sent     == \E k \in DOMAIN net : net[k].id = id
           QueuedThen == \E q \in Queues \ {"FUPDQ"} : \E i \in DOMAIN fila'[q] : fila'[q][i].id = id
           HeldThen   == \E w \in Workers : hand'[w] # Nothing /\ hand'[w].id = id
           SentThen   == \E k \in DOMAIN net' : net'[k].id = id
<1>1. Queued \/ Held \/ Sent
  BY DEF Within, Waits, Answered
<1> SUFFICES QueuedThen \/ HeldThen \/ SentThen
  BY DEF Within, Waits, Answered
<1>2. CASE Arrives
  <2>1. /\ UNCHANGED <<fila, net>> /\ hand["from"] = Nothing
        /\ \A w \in Workers \ {"from"} : hand'[w] = hand[w]
    BY <1>2, ArriveShape DEF Arrives
  <2> QED BY <1>1, <2>1
<1>3. CASE Takes
  <2>1. PICK p \in Workers, q \in Queues : LeFila(p, q) /\ UNCHANGED net
    BY <1>3 DEF Takes
  <2>2. /\ fila[q] \in Seq(Msg) /\ fila[q] # <<>> /\ hand[p] = Nothing
        /\ hand' = [hand EXCEPT ![p] = Head(fila[q])]
        /\ fila' = [fila EXCEPT ![q] = Tail(@)]
    BY <2>1 DEF LeFila, TypeOK
  <2>3. Head(fila[q]) = fila[q][1] /\ fila[q][1] \in Msg
    BY <2>2
  <2>4. \A i \in DOMAIN fila[q] :
          i = 1 \/ (i - 1 \in DOMAIN Tail(fila[q]) /\ Tail(fila[q])[i - 1] = fila[q][i])
    BY <2>2
  <2>5. /\ \A r \in Queues : fila'[r] = IF r = q THEN Tail(fila[q]) ELSE fila[r]
        /\ \A w \in Workers : hand'[w] = IF w = p THEN fila[q][1] ELSE hand[w]
    BY <2>2, <2>3 DEF TypeOK
  <2>6. CASE Queued
    <3>1. PICK r \in Queues \ {"FUPDQ"} : \E i \in DOMAIN fila[r] : fila[r][i].id = id
      BY <2>6
    <3>0. PICK i \in DOMAIN fila[r] : fila[r][i].id = id
      BY <3>1
    <3>2. CASE r = q /\ i = 1
      BY <2>3, <2>5, <3>0, <3>1, <3>2, NothingIsNoMessage
    <3>3. CASE r = q /\ i # 1
      <4>1. i - 1 \in DOMAIN fila'[r] /\ fila'[r][i - 1].id = id
        BY <2>4, <2>5, <3>0, <3>1, <3>3
      <4> QED BY <4>1
    <3>4. CASE r # q
      BY <2>5, <3>0, <3>1, <3>4
    <3> QED BY <3>2, <3>3, <3>4
  <2>7. CASE Held
    BY <2>2, <2>5, <2>7
  <2>8. CASE Sent
    BY <2>1, <2>8
  <2> QED BY <1>1, <2>6, <2>7, <2>8
<1>4. CASE CalmPasses
  <2>1. PICK p \in Workers, q \in Queues \ {"FUPDQ"}, m \in Msg :
          m.id = hand[p].id /\ GravaFila(q, m) /\ Drop(p) /\ UNCHANGED net
    BY <1>4 DEF CalmPasses
  <2>2. fila[q] \in Seq(Msg)
    BY DEF TypeOK
  <2>3. /\ \A i \in DOMAIN fila[q] :
             i \in DOMAIN Append(fila[q], m) /\ Append(fila[q], m)[i] = fila[q][i]
        /\ Len(fila[q]) + 1 \in DOMAIN Append(fila[q], m)
        /\ Append(fila[q], m)[Len(fila[q]) + 1] = m
    BY <2>2
  <2>4. /\ \A r \in Queues : fila'[r] = IF r = q THEN Append(fila[q], m) ELSE fila[r]
        /\ \A w \in Workers : hand'[w] = IF w = p THEN Nothing ELSE hand[w]
    BY <2>1 DEF GravaFila, Drop, TypeOK
  <2>5. CASE Queued
    <3>1. PICK r \in Queues \ {"FUPDQ"} : \E i \in DOMAIN fila[r] : fila[r][i].id = id
      BY <2>5
    <3>2. PICK i \in DOMAIN fila[r] : fila[r][i].id = id
      BY <3>1
    <3>3. i \in DOMAIN fila'[r] /\ fila'[r][i] = fila[r][i]
      BY <2>3, <2>4, <3>2
    <3> QED BY <3>1, <3>2, <3>3
  <2>6. CASE Held
    <3>1. PICK w \in Workers : hand[w] # Nothing /\ hand[w].id = id
      BY <2>6
    <3>2. CASE w = p
      <4>1. Len(fila[q]) + 1 \in DOMAIN fila'[q] /\ fila'[q][Len(fila[q]) + 1].id = id
        BY <2>1, <2>3, <2>4, <3>1, <3>2
      <4> QED BY <4>1
    <3>3. CASE w # p
      BY <2>4, <3>1, <3>3
    <3> QED BY <3>2, <3>3
  <2>7. CASE Sent
    BY <2>1, <2>7
  <2> QED BY <1>1, <2>5, <2>6, <2>7
<1>5. CASE CalmResponds
  <2>1. PICK b \in Backends, m \in Msg :
          m.id = hand[b].id /\ hand' = [hand EXCEPT ![b] = m] /\ UNCHANGED <<fila, net>>
    BY <1>5 DEF CalmResponds
  <2>2. \A w \in Workers : hand'[w] = IF w = b THEN m ELSE hand[w]
    BY <2>1 DEF TypeOK
  <2> QED BY <1>1, <2>1, <2>2, NothingIsNoMessage
<1>6. CASE Sends
  <2>1. /\ net \in Seq(Msg) /\ net' = Append(net, hand["to"]) /\ fila' = fila
        /\ \A w \in Workers : hand'[w] = IF w = "to" THEN Nothing ELSE hand[w]
    BY <1>6, SendShape DEF Sends, TypeOK
  <2>2. /\ \A k \in DOMAIN net : k \in DOMAIN net' /\ net'[k] = net[k]
        /\ Len(net) + 1 \in DOMAIN net' /\ net'[Len(net) + 1] = hand["to"]
    BY <2>1, <1>6, SendShape
  <2>3. CASE Held
    <3>1. PICK w \in Workers : hand[w] # Nothing /\ hand[w].id = id
      BY <2>3
    <3> QED BY <2>1, <2>2, <3>1
  <2> QED BY <1>1, <2>1, <2>2, <2>3
<1>7. CASE Rests
  BY <1>1, <1>7 DEF Rests
<1> QED BY <1>2, <1>3, <1>4, <1>5, <1>6, <1>7 DEF CalmKept

\* So only what ToNet has can be lost, one request at a time, and a request that
\* comes is not lost.
LEMMA CalmLost ==
  ASSUME TypeOK
  PROVE  /\ CalmKept => Lost' \subseteq Lost
         /\ CutLoses => \E x : Lost' \subseteq Lost \cup {x}
<1>1. ASSUME CalmKept, NEW id \in Ids, Came(id)', ~Came(id) PROVE Within(id)'
  <2>1. Arrives
    BY <1>1 DEF CalmKept, Takes, CalmPasses, CalmResponds, Sends, Rests, Came
  <2>2. PICK new \in Ids, m \in Msg :
          /\ m.id = new
          /\ \A w \in Workers : hand'[w] = IF w = "from" THEN m ELSE hand[w]
          /\ \A i \in Ids : Came(i)' => Came(i) \/ i = new
    BY <2>1, ArriveShape
  <2>3. "from" \in Workers /\ hand'["from"] # Nothing /\ hand'["from"].id = id
    BY <1>1, <2>2, Names, NothingIsNoMessage
  <2> QED BY <2>3 DEF Within
<1>2. ASSUME CalmKept PROVE Lost' \subseteq Lost
  <2> SUFFICES ASSUME NEW id \in Ids, Came(id)', ~Within(id)', ~Answered(id)'
               PROVE  Came(id) /\ ~Within(id) /\ ~Answered(id)
    BY DEF Lost
  <2> QED BY <1>1, <1>2, CalmKeeps
<1>3. ASSUME CutLoses PROVE Lost' \subseteq Lost \cup {hand["to"].id}
  <2>1. /\ UNCHANGED <<fila, arrived, net>>
        /\ \A w \in Workers \ {"to"} : hand'[w] = hand[w]
    BY <1>3 DEF CutLoses, TypeOK
  <2> SUFFICES ASSUME NEW id \in Ids, Came(id)', ~Within(id)', ~Answered(id)', id # hand["to"].id
               PROVE  Came(id) /\ ~Within(id) /\ ~Answered(id)
    BY DEF Lost
  <2>2. Came(id) /\ ~Answered(id)
    BY <2>1 DEF Came, Answered
  <2>3. ~Within(id)
    BY <2>1 DEF Within, Waits
  <2> QED BY <2>2, <2>3
<1> QED BY <1>2, <1>3

\* No more is lost than headers ended the connection.
LEMMA CalmToCuts ==
  ASSUME TypeOK, LostToCuts, Charged, cuts' \in Int, ToCharge' \in Int
  PROVE  LostToCuts'
<1>0. /\ cuts \in Int /\ ToCharge \in Int
      /\ IsFiniteSet(Lost) /\ Cardinality(Lost) \in Int
  BY SwitchAssumption, FS_CardinalityType DEF TypeOK, ToCharge, LostToCuts
<1>1. CASE CalmKept /\ ToCharge' - ToCharge <= cuts' - cuts
  <2>1. Lost' \in SUBSET Lost
    BY <1>1, CalmLost
  <2>2. IsFiniteSet(Lost') /\ Cardinality(Lost') <= Cardinality(Lost)
    BY <1>0, <2>1, FS_Subset
  <2>3. Cardinality(Lost') \in Int
    BY <2>2, FS_CardinalityType
  <2>4. Cardinality(Lost) + ToCharge <= cuts /\ ToCharge' - ToCharge <= cuts' - cuts
    BY <1>1 DEF LostToCuts
  <2>5. \A l, m, t, u, c, d \in Int :
          l <= m /\ m + t <= c /\ u - t <= d - c => l + u <= d
    OBVIOUS
  <2>6. Cardinality(Lost') + ToCharge' <= cuts'
    BY <1>0, <2>2, <2>3, <2>4, <2>5
  <2> QED BY <2>2, <2>6 DEF LostToCuts
<1>2. CASE CutLoses /\ ToCharge = 1 /\ ToCharge' = 0 /\ cuts' = cuts
  <2>1. PICK x : Lost' \subseteq Lost \cup {x}
    BY <1>2, CalmLost
  <2>2. IsFiniteSet(Lost \cup {x}) /\ Cardinality(Lost \cup {x}) <= Cardinality(Lost) + 1
    BY <1>0, FS_AddElement
  <2>3. /\ IsFiniteSet(Lost') /\ Cardinality(Lost') <= Cardinality(Lost \cup {x})
        /\ Cardinality(Lost') \in Int /\ Cardinality(Lost \cup {x}) \in Int
    <3>1. Lost' \in SUBSET (Lost \cup {x})
      BY <2>1
    <3> HIDE DEF Lost
    <3> QED BY <2>2, <3>1, FS_Subset, FS_CardinalityType
  <2> QED BY <1>0, <1>2, <2>2, <2>3 DEF LostToCuts
<1> QED BY <1>1, <1>2 DEF Charged

\* Of traffic the switch has answers for, while nothing is killed and there is
\* room: every process behind launch runs, the authorisers are asked and tell the
\* types they should, no struct is on its way to the line, and no more requests
\* are lost than headers ended the connection.
THEOREM LosslessInvariance ==
  (\A f \in Traffic : Answerable(f)) => (Spec /\ []Unhurt => []LosslessInv)
<1> SUFFICES ASSUME \A f \in Traffic : Answerable(f)
             PROVE  Spec /\ []Unhurt => []LosslessInv
  OBVIOUS
<1>1. Init => LosslessInv
  <2> SUFFICES ASSUME Init PROVE LosslessInv
    OBVIOUS
  <2>1. /\ \A q \in Queues : fila[q] = <<>>
        /\ \A p \in Workers : ~Holds(p)
        /\ arrived = <<>> /\ decided = {}
    BY DEF Init, Holds
  <2>2. NoneRaw
    BY <2>1 DEF NoneRaw
  <2>3. AskedTold
    BY <2>1, Names, Desks DEF AskedTold
  <2>4. AllUp /\ HandsEmpty
    BY DEF Init, AllUp, HandsEmpty
  <2>5. Lost = {}
    BY <2>1 DEF Lost, Came
  <2>6. LostToCuts
    BY <2>5, FS_EmptySet DEF LostToCuts, ToCharge, Init
  <2> QED BY <2>2, <2>3, <2>4, <2>6 DEF LosslessInv
<1>2. IInv /\ TypeOK' /\ Unhurt /\ Unhurt' /\ LosslessInv /\ [Next]_vars => LosslessInv'
  <2> SUFFICES ASSUME IInv, TypeOK', Unhurt, Unhurt', LosslessInv, [Next]_vars
               PROVE  LosslessInv'
    OBVIOUS
  <2>1. /\ TypeOK /\ DecidedHeld /\ AllUp /\ NoneRaw /\ AskedTold /\ HandsEmpty
        /\ LostToCuts
    BY DEF IInv, LosslessInv
  <2>2. AllUp' /\ HandsEmpty' /\ Charged
    BY <2>1, CalmStep
  <2>3. CalmMove
    BY <2>2 DEF Charged, CalmMove
  <2>4. cuts' \in Int /\ ToCharge' \in Int
    BY SwitchAssumption DEF TypeOK, ToCharge
  <2>5. LostToCuts'
    BY <2>1, <2>2, <2>4, CalmToCuts
  <2> QED
    BY <2>1, <2>2, <2>3, <2>5, CalmNoneRaw, CalmAskedTold DEF LosslessInv
<1> QED BY <1>1, <1>2, Invariance, TypeCorrect, PTL DEF Spec

\* Of traffic the switch has answers for no more requests are lost than headers
\* from the network ended the connection, for any number of requests, while
\* nothing is killed and there is room: each other one is in a queue that is read,
\* in a hand, or was answered, and no process behind launch ends (tcpclient.c:89,
\* v_in.c:161-169, v_out.c:208, auth.c:219, paybal.c:219).
THEOREM NoneLost ==
  (\A f \in Traffic : Answerable(f)) => (Spec /\ []Unhurt => [](AllUp /\ Accounted))
<1>1. TypeOK /\ LosslessInv => AllUp /\ Accounted
  <2> SUFFICES ASSUME TypeOK, LosslessInv PROVE AllUp /\ Accounted
    OBVIOUS
  <2>1. /\ Cardinality(Lost) + ToCharge <= cuts /\ ToCharge \in {0, 1} /\ cuts \in Int
        /\ Cardinality(Lost) \in Nat
    BY SwitchAssumption, FS_CardinalityType DEF LosslessInv, LostToCuts, ToCharge, TypeOK
  <2> QED BY <2>1 DEF Accounted, LosslessInv
<1> QED BY <1>1, LosslessInvariance, TypeCorrect, PTL
================================================================================
