------------------------------ MODULE LaunchProofs ------------------------------
(***************************************************************************)
(* launch never runs two of a program and restarts what it noted, however  *)
(* many of its children die and whenever their signal comes.               *)
(***************************************************************************)
EXTENDS Launch, TLAPS

\* A pid is with launch in one way at a time.
Buried ==
  /\ live \cap zombies = {} /\ reaped \cap Unburied = {}

\* Programs from index on were not started, but for the child Inicia forked
\* and has yet to note.
NotYet ==
  /\ forked # NoPid => index < 5 /\ forked \in Pids /\ prog[forked] = index
  /\ \A p \in Unburied : prog[p] < index \/ p = forked
  /\ \A i \in Programs : i >= index => proc[i] = NoPid

\* Every child not waited for, and the one the handler was given, is noted, but
\* for the one just forked; and the table names no child of another program.
IsCaught(p) == handler = "found" /\ p = caught

Noted ==
  /\ \A i \in Programs : proc[i] # NoPid => proc[i] \in Pids /\ prog[proc[i]] = i
  /\ \A p \in Pids : p \in Unburied \/ IsCaught(p) => p = forked \/ proc[prog[p]] = p

\* The child the handler was given was the only one of its program.
Caught ==
  handler = "found" =>
    caught \in reaped /\ \A p \in Unburied : prog[p] # prog[caught]

LaunchInv == TypeOK /\ Buried /\ NotYet /\ Noted /\ Caught /\ OneOfEach

-----------------------------------------------------------------------------
\* The pids after a fork.
LEMMA ForkShape ==
  ASSUME TypeOK, NEW i \in Programs, Fork(i)
  PROVE  /\ prog' \in Seq(Programs)
         /\ Pids' = Pids \cup {NewPid}
         /\ NewPid \notin Pids /\ NewPid # NoPid /\ NewPid \in Nat
         /\ \A p \in Pids : prog'[p] = prog[p]
         /\ prog'[NewPid] = i
         /\ live' = live \cup {NewPid}
<1>1. prog \in Seq(Programs) /\ prog' = Append(prog, i)
  BY DEF TypeOK, Fork
<1>2. Len(prog') = Len(prog) + 1 /\ Len(prog) \in Nat
  BY <1>1
<1> QED BY <1>1, <1>2 DEF Pids, NewPid, NoPid, Fork

\* launch begins with an empty table and no children.
LEMMA InitLaunch == Init => LaunchInv
<1> SUFFICES ASSUME Init PROVE LaunchInv
  OBVIOUS
<1>1. Pids = {} /\ Unburied = {}
  BY DEF Init, Pids, Unburied
<1>2. TypeOK
  <2>1. prog = <<>> /\ prog \in Seq(Programs)
    BY DEF Init
  <2>2. proc \in [Programs -> Pids \cup {NoPid}]
    BY DEF Init
  <2>3. live \subseteq Pids /\ zombies \subseteq Pids /\ reaped \subseteq Pids
    BY DEF Init
  <2>4. pending \in BOOLEAN
    BY Zenon DEF Init
  <2>6. index \in 0 .. 5 /\ handler \in {"idle", "waits", "found"}
    BY DEF Init
  <2>5. forked \in Pids \cup {NoPid} /\ caught \in Pids \cup {NoPid}
    BY DEF Init
  <2> QED BY <2>1, <2>2, <2>3, <2>4, <2>5, <2>6 DEF TypeOK
<1> QED
  BY <1>1, <1>2
  DEF Init, LaunchInv, Buried, NotYet, Noted, Caught, OneOfEach, Programs, NoPid, IsCaught

\* Forks, notes, deaths and restarts, in any order, keep the invariant.
LEMMA StepLaunch ==
  ASSUME LaunchInv, [Next]_vars
  PROVE  LaunchInv'
<1> USE DEF LaunchInv
<1>0. NoPid \notin Pids /\ \A p \in Pids : prog[p] \in Programs
  BY DEF Pids, NoPid, TypeOK
<1>1. CASE IniciaForks
  <2>1. index \in Programs
    BY <1>1 DEF IniciaForks, TypeOK, Programs
  <2>2. TypeOK'
    BY <1>1, <2>1, ForkShape DEF IniciaForks, TypeOK
  <2>3. Unburied' = Unburied \cup {NewPid} /\ Unburied \subseteq Pids /\ reaped \subseteq Pids
    BY <1>1, <2>1, ForkShape DEF IniciaForks, Unburied, TypeOK
  <2>4. Buried'
    BY <1>1, <2>1, <2>3, ForkShape DEF IniciaForks, Buried, TypeOK, Unburied
  <2>5. NotYet'
    BY <1>0, <1>1, <2>1, <2>3, ForkShape DEF IniciaForks, NotYet, TypeOK
  <2>6. Noted'
    <3>1. \A i \in Programs : proc'[i] # NoPid => proc'[i] \in Pids' /\ prog'[proc'[i]] = i
      BY <1>1, <2>1, ForkShape DEF IniciaForks, Noted, TypeOK
    <3>2. ASSUME NEW p \in Pids', p \in Unburied' \/ IsCaught(p)'
          PROVE  p = forked' \/ proc'[prog'[p]] = p
      BY <1>0, <1>1, <2>1, <2>3, <3>2, ForkShape DEF IniciaForks, Noted, IsCaught
    <3> QED BY <3>1, <3>2 DEF Noted
  <2>7. Caught'
    BY <1>1 DEF IniciaForks, Caught
  <2>8. OneOfEach'
    BY <1>1, <2>1, <2>3, ForkShape, <1>0 DEF IniciaForks, NotYet, OneOfEach, TypeOK, Programs
  <2> QED BY <2>2, <2>4, <2>5, <2>6, <2>7, <2>8
<1>2. CASE IniciaNotes
  <2>1. index \in Programs /\ forked \in Pids /\ UNCHANGED <<Pids, Unburied>>
    BY <1>2 DEF IniciaNotes, NotYet, TypeOK, Programs, Pids, Unburied
  <2>2. TypeOK'
    BY <1>2, <2>1 DEF IniciaNotes, TypeOK, Programs
  <2>3. NotYet'
    BY <1>2, <2>1, <1>0 DEF IniciaNotes, NotYet, TypeOK, Programs
  <2>4. Noted'
    BY <1>2, <2>1, <1>0 DEF IniciaNotes, NotYet, Noted, TypeOK, Programs, IsCaught
  <2> QED BY <1>2, <2>1, <2>2, <2>3, <2>4 DEF IniciaNotes, Buried, Caught, OneOfEach
<1>3. ASSUME NEW p \in live, Dies(p) PROVE LaunchInv'
  <2>1. UNCHANGED <<Pids, Unburied>>
    BY <1>3 DEF Dies, Pids, Unburied
  <2>2. TypeOK'
    BY <1>3, <2>1 DEF Dies, TypeOK
  <2> QED
    BY <1>3, <2>1, <2>2 DEF Dies, Buried, NotYet, Noted, Caught, OneOfEach, IsCaught
<1>4. CASE Sigcatch
  <2>1. UNCHANGED <<Pids, Unburied>>
    BY <1>4 DEF Sigcatch, Pids, Unburied
  <2>2. TypeOK'
    BY <1>4, <2>1 DEF Sigcatch, TypeOK
  <2> QED
    BY <1>4, <2>1, <2>2 DEF Sigcatch, Buried, NotYet, Noted, Caught, OneOfEach, IsCaught
<1>5. CASE Wait
  <2>1. PICK z \in zombies : caught' = z /\ zombies' = zombies \ {z} /\ reaped' = reaped \cup {z}
    BY <1>5 DEF Wait
  <2>2. Pids' = Pids /\ z \in Pids
    BY <1>5 DEF Wait, Pids, TypeOK
  <2>3. Unburied' = Unburied \ {z} /\ z \in Unburied
    BY <1>5, <2>1 DEF Wait, Unburied, Buried
  <2>4. TypeOK'
    BY <1>5, <2>1, <2>2 DEF Wait, TypeOK
  <2>5. Buried'
    BY <1>5, <2>1, <2>3 DEF Wait, Buried, Unburied
  <2>6. NotYet' /\ OneOfEach'
    BY <1>5, <2>2, <2>3 DEF Wait, NotYet, OneOfEach
  <2>7. Noted'
    BY <1>5, <2>1, <2>2, <2>3 DEF Wait, Noted, IsCaught
  <2>8. Caught'
    BY <1>5, <2>1, <2>3 DEF Wait, Caught, OneOfEach
  <2> QED BY <2>4, <2>5, <2>6, <2>7, <2>8
<1>6. CASE Reinicia
  <2>1. caught \in Pids /\ \A p \in Unburied : prog[p] # prog[caught]
    BY <1>6 DEF Reinicia, Caught, TypeOK
  <2>2. CASE \E i \in Programs : Found(i)
    <3> DEFINE i == CHOOSE j \in Programs : Found(j)
    <3>1. i \in Programs /\ proc[i] = caught
      BY <2>2 DEF Found
    <3>2. Fork(i) /\ proc' = [proc EXCEPT ![i] = NewPid]
      BY <1>6, <2>2 DEF Reinicia
    <3> HIDE DEF i
    <3>3. prog[caught] = i /\ i < index
      BY <1>0, <2>1, <3>1 DEF Noted, NotYet, TypeOK, Programs
    <3>4. Unburied' = Unburied \cup {NewPid} /\ Unburied \subseteq Pids /\ reaped \subseteq Pids
      BY <1>6, <3>1, <3>2, ForkShape DEF Reinicia, Unburied, TypeOK
    <3>5. TypeOK'
      BY <1>6, <3>1, <3>2, ForkShape DEF Reinicia, TypeOK
    <3>6. Buried'
      BY <1>6, <3>1, <3>2, <3>4, ForkShape DEF Reinicia, Buried, Unburied, TypeOK
    <3>7. NotYet'
      <4>1. UNCHANGED <<forked, index>>
        BY <1>6 DEF Reinicia
      <4>2. forked # NoPid => index < 5 /\ forked \in Pids' /\ prog'[forked] = index
        BY <3>1, <3>2, ForkShape DEF NotYet
      <4>3. \A p \in Unburied' : prog'[p] < index \/ p = forked
        BY <3>1, <3>2, <3>3, <3>4, ForkShape DEF NotYet
      <4>4. ASSUME NEW j \in Programs, j >= index PROVE proc'[j] = NoPid
        BY <3>2, <3>3, <4>4 DEF NotYet, TypeOK, Programs
      <4> QED BY <4>1, <4>2, <4>3, <4>4 DEF NotYet
    <3>8. Noted'
      <4>1. UNCHANGED forked /\ ~IsCaught(NewPid)' /\ handler' = "idle"
        BY <1>6 DEF Reinicia, IsCaught
      <4>2. ASSUME NEW j \in Programs, proc'[j] # NoPid
            PROVE  proc'[j] \in Pids' /\ prog'[proc'[j]] = j
        <5>1. CASE j = i
          BY <3>1, <3>2, <5>1, ForkShape DEF TypeOK
        <5>2. CASE j # i
          BY <3>1, <3>2, <4>2, <5>2, ForkShape DEF TypeOK, Noted
        <5> QED BY <5>1, <5>2
      <4>3. ASSUME NEW p \in Pids', p \in Unburied' \/ IsCaught(p)'
            PROVE  p = forked \/ proc'[prog'[p]] = p
        <5>1. CASE p = NewPid
          BY <3>1, <3>2, <5>1, ForkShape DEF TypeOK
        <5>2. CASE p # NewPid
          <6>1. p \in Unburied /\ p \in Pids /\ prog'[p] = prog[p] /\ prog[p] # i
            BY <2>1, <3>1, <3>2, <3>3, <3>4, <4>1, <4>3, <5>2, ForkShape DEF IsCaught
          <6>2. p = forked \/ proc[prog[p]] = p
            BY <6>1 DEF Noted
          <6>3. proc'[prog[p]] = proc[prog[p]]
            BY <1>0, <3>2, <6>1 DEF TypeOK
          <6> QED BY <6>1, <6>2, <6>3
        <5> QED BY <5>1, <5>2
      <4> QED BY <4>1, <4>2, <4>3 DEF Noted
    <3>9. Caught'
      BY <1>6 DEF Reinicia, Caught
    <3>10. OneOfEach'
      BY <2>1, <3>1, <3>2, <3>3, <3>4, ForkShape DEF OneOfEach
    <3> QED BY <3>5, <3>6, <3>7, <3>8, <3>9, <3>10
  <2>3. CASE ~ \E i \in Programs : Found(i)
    <3>1. UNCHANGED <<proc, prog, live, zombies, pending, index, forked, reaped>>
      BY <1>6, <2>3 DEF Reinicia
    <3>2. UNCHANGED <<Pids, Unburied>>
      BY <3>1 DEF Pids, Unburied
    <3>3. TypeOK'
      BY <1>6, <3>1, <3>2 DEF Reinicia, TypeOK
    <3> QED
      BY <1>6, <3>1, <3>2, <3>3
      DEF Reinicia, Buried, NotYet, Noted, Caught, OneOfEach, IsCaught
  <2> QED BY <2>2, <2>3
<1>7. CASE UNCHANGED vars
  <2>1. UNCHANGED <<Pids, Unburied>>
    BY <1>7 DEF vars, Pids, Unburied
  <2>2. TypeOK'
    BY <1>7, <2>1 DEF vars, TypeOK
  <2> QED
    BY <1>7, <2>1, <2>2 DEF vars, Buried, NotYet, Noted, Caught, OneOfEach, IsCaught
<1> QED BY <1>1, <1>2, <1>3, <1>4, <1>5, <1>6, <1>7 DEF Next

-----------------------------------------------------------------------------
\* Whatever dies and whenever, the table of launch names the children there
\* are, one of each program.
THEOREM LaunchInvariance == Spec => []LaunchInv
BY InitLaunch, StepLaunch, PTL DEF Spec

\* launch never has two children of one program, whenever they die.
THEOREM LaunchOneOfEach == Spec => []OneOfEach
<1>1. LaunchInv => OneOfEach
  BY DEF LaunchInv
<1> QED BY <1>1, LaunchInvariance, PTL

\* What launch noted and waited for it starts again, unless it is tcpclient.
THEOREM LaunchRestarts == Spec => RestartsWhatItNoted
<1>1. ASSUME LaunchInv, [Next]_vars, handler = "found", handler' = "idle",
             caught # forked, prog[caught] # Tcpclient
      PROVE  \E p \in live' \ live : prog'[p] = prog[caught]
  <2> DEFINE k == prog[caught]
  <2>1. Reinicia
    BY <1>1 DEF Next, vars, IniciaForks, IniciaNotes, Dies, Sigcatch, Wait
  <2>2. caught \in Pids /\ k \in Programs /\ proc[k] = caught /\ caught # NoPid
    BY <1>1 DEF LaunchInv, Caught, Noted, TypeOK, IsCaught, Pids, NoPid
  <2>3. Found(k)
    BY <1>1, <2>2 DEF Found
  <2> DEFINE i == CHOOSE j \in Programs : Found(j)
  <2>4. i \in Programs /\ proc[i] = caught
    BY <2>2, <2>3 DEF Found
  <2>5. i = k
    BY <1>1, <2>2, <2>4 DEF LaunchInv, Noted
  <2>6. Fork(i)
    BY <2>1, <2>2, <2>3 DEF Reinicia
  <2> HIDE DEF i, k
  <2>7. NewPid \in live' \ live /\ prog'[NewPid] = i
    BY <1>1, <2>4, <2>6, ForkShape DEF LaunchInv, TypeOK
  <2> QED BY <2>5, <2>7 DEF k
<1>2. LaunchInv /\ [Next]_vars =>
        [handler = "found" /\ handler' = "idle"
           /\ caught # forked /\ prog[caught] # Tcpclient
         => \E p \in live' \ live : prog'[p] = prog[caught]]_vars
  BY <1>1
<1> QED BY <1>2, LaunchInvariance, PTL DEF Spec, RestartsWhatItNoted
-----------------------------------------------------------------------------
\* Every variable of launch keeps its type: the pids noted, waited for and
\* found are pids launch gave (launch.c:98-124, launch.c:173-195).
THEOREM LaunchTyped == Spec => []TypeOK
BY LaunchInvariance, PTL DEF LaunchInv
================================================================================
