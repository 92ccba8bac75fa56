-------------------------------- MODULE Launch --------------------------------
(***************************************************************************)
(* launch, the parent of log, paybal, fmt, tcpclient and auth.  Inicia     *)
(* forks them one after the other and notes each pid; from then on launch  *)
(* pauses, and the handler of SIGCHLD, which may interrupt it anywhere,    *)
(* waits for one dead child and starts the program anew whose pid it was.  *)
(*                                                                         *)
(* SIGCHLD is not queued: however many children die while one is pending,  *)
(* one is delivered.  While the handler runs it is held back.              *)
(***************************************************************************)
EXTENDS Integers, Sequences, FiniteSets

CONSTANT MaxDeaths   \* bound: children that die

ASSUME DeathsAssumption == MaxDeaths \in Nat

Programs == 0 .. 4   \* the table proc[]: log, paybal, fmt, tcpclient, auth
Tcpclient == 3
NoPid == -1

VARIABLES
  proc,     \* the pid noted for each program
  prog,     \* the program of each pid, pids counted from 1
  live,     \* pids that run
  zombies,  \* pids that died and were not waited for
  pending,  \* a SIGCHLD is pending
  index,    \* the program Inicia is at, 5 when launch pauses
  forked,   \* the child Inicia forked and has not noted
  handler,  \* sigcatch: "idle", "waits", "found" once wait returned
  caught,   \* the pid wait returned to it
  reaped    \* the pids wait ever returned

vars == <<proc, prog, live, zombies, pending, index, forked, handler, caught, reaped>>

Pids == 1 .. Len(prog)

TypeOK ==
  /\ prog \in Seq(Programs)
  /\ proc \in [Programs -> Pids \cup {NoPid}]
  /\ live \in SUBSET Pids
  /\ zombies \in SUBSET Pids
  /\ pending \in BOOLEAN
  /\ index \in 0 .. 5
  /\ forked \in Pids \cup {NoPid}
  /\ handler \in {"idle", "waits", "found"}
  /\ caught \in Pids \cup {NoPid}
  /\ reaped \in SUBSET Pids

Init ==
  /\ proc = [i \in Programs |-> NoPid]
  /\ prog = <<>>
  /\ live = {} /\ zombies = {} /\ reaped = {}
  /\ pending = FALSE
  /\ index = 0 /\ forked = NoPid
  /\ handler = "idle" /\ caught = NoPid

-----------------------------------------------------------------------------
NewPid == Len(prog) + 1

Fork(i) ==
  /\ prog' = Append(prog, i)
  /\ live' = live \cup {NewPid}

\* Mutant of IniciaForks: one program too many.
IniciaForksOn ==
  /\ handler = "idle"
  /\ index <= 5 /\ forked = NoPid
  /\ Fork(index)
  /\ forked' = NewPid
  /\ UNCHANGED <<proc, zombies, pending, index, handler, caught, reaped>>

\* Inicia runs when the handler does not.
IniciaForks ==
  /\ handler = "idle"
  /\ index < 5 /\ forked = NoPid
  /\ Fork(index)
  /\ forked' = NewPid
  /\ UNCHANGED <<proc, zombies, pending, index, handler, caught, reaped>>

IniciaNotes ==
  /\ handler = "idle"
  /\ forked # NoPid
  /\ proc' = [proc EXCEPT ![index] = forked]
  /\ index' = index + 1
  /\ forked' = NoPid
  /\ UNCHANGED <<prog, live, zombies, pending, handler, caught, reaped>>

Dies(p) ==
  /\ p \in live
  /\ Cardinality(zombies \cup reaped) < MaxDeaths
  /\ live' = live \ {p}
  /\ zombies' = zombies \cup {p}
  /\ pending' = TRUE
  /\ UNCHANGED <<proc, prog, index, forked, handler, caught, reaped>>

Sigcatch ==
  /\ handler = "idle" /\ pending
  /\ handler' = "waits"
  /\ pending' = FALSE
  /\ UNCHANGED <<proc, prog, live, zombies, index, forked, caught, reaped>>

Wait ==
  /\ handler = "waits"
  /\ \E z \in zombies :
       /\ caught' = z
       /\ zombies' = zombies \ {z}
       /\ reaped' = reaped \cup {z}
  /\ handler' = "found"
  /\ UNCHANGED <<proc, prog, live, pending, index, forked>>

\* Mutants of Found: the pid is not compared; auth is skipped and not tcpclient.
FoundAny(i)     == i # Tcpclient
FoundNotAuth(i) == i # 4 /\ proc[i] = caught

Found(i) == i # Tcpclient /\ proc[i] = caught

\* Mutant of Reinicia: the pid of the new child is not noted.
ReiniciaUnnoted ==
  /\ handler = "found"
  /\ IF \E i \in Programs : Found(i)
     THEN Fork(CHOOSE i \in Programs : Found(i))
     ELSE UNCHANGED <<prog, live>>
  /\ handler' = "idle"
  /\ caught' = NoPid
  /\ UNCHANGED <<proc, zombies, pending, index, forked, reaped>>

\* reinicia: "processo %d morreu. Reiniciando processo ..."
Reinicia ==
  /\ handler = "found"
  /\ IF \E i \in Programs : Found(i)
     THEN LET i == CHOOSE j \in Programs : Found(j)
          IN  Fork(i) /\ proc' = [proc EXCEPT ![i] = NewPid]
     ELSE UNCHANGED <<proc, prog, live>>
  /\ handler' = "idle"
  /\ caught' = NoPid
  /\ UNCHANGED <<zombies, pending, index, forked, reaped>>

Next ==
  \/ IniciaForks \/ IniciaNotes
  \/ \E p \in live : Dies(p)
  \/ Sigcatch \/ Wait \/ Reinicia

Spec == Init /\ [][Next]_vars

-----------------------------------------------------------------------------
\* launch never starts a program while another process of it runs, or is dead
\* and yet to be waited for: whichever child wait returns, and wherever the
\* handler interrupted Inicia, the table proc[] names it or no one
\* (launch.c:181).
Unburied == live \cup zombies

OneOfEach ==
  \A p, q \in Unburied : prog[p] = prog[q] => p = q

\* A child that was noted in proc[] and has been waited for is started again,
\* unless it is tcpclient, however often the program died before.
RestartsWhatItNoted ==
  [][ handler = "found" /\ handler' = "idle"
        /\ caught # forked /\ prog[caught] # Tcpclient
      => \E p \in live' \ live : prog'[p] = prog[caught] ]_vars

-----------------------------------------------------------------------------
(* launch runs, and a pending signal is delivered. *)

Fairness ==
  /\ WF_vars(IniciaForks) /\ WF_vars(IniciaNotes)
  /\ WF_vars(Sigcatch) /\ WF_vars(Wait) /\ WF_vars(Reinicia)

FairSpec == Spec /\ Fairness

Runs(i) == \E p \in live : prog[p] = i

\* A program whose death alone the handler was called for runs again, even if
\* another one dies before wait returns.  (Of two that die before SIGCHLD is
\* delivered, one may not be waited for until a third dies; tcpclient, skipped
\* in launch.c:181, never runs again.)
LoneDeathRestarted ==
  \A i \in Programs \ {Tcpclient} :
    (index = 5 /\ handler = "waits" /\ zombies = {proc[i]}) ~> Runs(i)

\* launch.c:176, "processo %d morreu. Reiniciando processo ...": said of every
\* child waited for, so that it runs again; here of a child other than
\* tcpclient, also while Inicia still starts the others.
EarlyDeathRestarted ==
  \A i \in Programs \ {Tcpclient} :
    (handler = "found" /\ prog[caught] = i) ~> Runs(i)
===============================================================================
