-------------------------- MODULE EvalSweepProofs --------------------------
(***************************************************************************)
(* The eval lock keeps sweeps apart for every set of processes, process    *)
(* ids, command lines and servers.                                         *)
(***************************************************************************)
EXTENDS EvalSweep, TLAPS

\* Processes that may at any moment empty or rewrite the file.
Writing(p) == pc[p] \in {"truncate", "stamp"}

\* Why OneAtATime survives a step, as long as nothing is excused: takeLock has one
\* process at a time, no eval is past it while that one writes, and the file it
\* writes to is the one it emptied.
LockInv ==
  excuse = {} =>
    /\ \A p, q \in Procs : pc[p] \in TakingLock /\ pc[q] \in TakingLock => p = q
    /\ \A p \in Procs : Sweeping(p) => lock.pid = pid[p]
    /\ \A p, q \in Procs : Sweeping(p) /\ Sweeping(q) => p = q
    /\ \A p, q \in Procs : Writing(p) => ~Sweeping(q)
    /\ \A p \in Procs : pc[p] = "stamp" => p \in linked

\* A process that runs has an id.
HasPid == \A p \in Procs : pc[p] # "idle" => pid[p] \in Pids

Inv == TypeOK /\ HasPid /\ LockInv

-----------------------------------------------------------------------------
LEMMA InitType == Init => TypeOK
  BY PidAssumption, FlagAssumption, ServerAssumption, BoundAssumption
  DEF Init, TypeOK, Stages, TakingLock, Startup, Weights, Unknown

LEMMA StartType == ASSUME TypeOK, NEW p \in Procs, Start(p) PROVE TypeOK'
  BY BoundAssumption DEF TypeOK, Start, Goes, Stages, TakingLock, Startup, locking, backend, asking

LEMMA GoneType ==
  ASSUME TypeOK, NEW p \in Procs, Gone(p), linked' \subseteq Procs,
         lock' \in [pid : Pids \cup {NoFile, NoStamp}, old : BOOLEAN]
  PROVE  TypeOK'
  BY DEF TypeOK, Gone, Goes, Stages, TakingLock, Startup, backend, Weights, Unknown

LEMMA DiesType == ASSUME TypeOK, NEW p \in Procs, Dies(p) PROVE TypeOK'
  BY GoneType DEF TypeOK, Dies

LEMMA LockType == ASSUME TypeOK, HasPid, NEW p \in Procs, TakeLock(p) PROVE TypeOK'
<1>1. CASE Stat(p)
  BY <1>1 DEF TypeOK, Stat, Goes, Stages, TakingLock, Startup, process, backend, asking
<1>2. CASE Overtakes(p)
  BY <1>2 DEF TypeOK, Overtakes, Overtaking, Goes, Stages, TakingLock, Startup,
     process, backend, asking
<1>3. CASE Refused(p)
  BY <1>3, DiesType DEF Refused
<1>4. CASE Truncate(p)
  BY <1>4 DEF TypeOK, Truncate, Goes, Stages, TakingLock, Startup, process, backend, asking
<1>5. CASE Stamp(p)
  <2>1. CASE Dies(p)
    BY <2>1, DiesType
  <2>2. CASE ~Dies(p)
    <3>1. pid[p] \in Pids
      BY <1>5 DEF HasPid, Stamp
    <3>2. lock' \in [pid : Pids \cup {NoFile, NoStamp}, old : BOOLEAN]
      <4>1. lock' = (IF p \in linked THEN [pid |-> pid[p], old |-> FALSE] ELSE lock)
        BY <1>5, <2>2 DEF Stamp
      <4>2. [pid |-> pid[p], old |-> FALSE] \in [pid : Pids \cup {NoFile, NoStamp}, old : BOOLEAN]
        BY <3>1
      <4> QED BY <4>1, <4>2 DEF TypeOK
    <3>3. pc' \in [Procs -> Stages] /\ linked' \subseteq Procs
      BY <1>5, <2>2 DEF TypeOK, Stamp, Goes, Stages
    <3> QED
      BY <1>5, <2>2, <3>2, <3>3 DEF TypeOK, Stamp, process, backend, asking
  <2> QED BY <2>1, <2>2
<1> QED BY <1>1, <1>2, <1>3, <1>4, <1>5 DEF TakeLock

LEMMA BackendType ==
  ASSUME TypeOK, NEW p \in Procs, StartUp(p) \/ Chat(p) PROVE TypeOK'
<1>1. CASE Prepares(p)
  BY <1>1 DEF TypeOK, Prepares, Goes, Stages, TakingLock, Startup, locking, process,
     backend, asking
<1>2. CASE AskWindow(p)
  <2>1. PICK n \in Asked(flag[p].kind, server.window, -1) :
          /\ window' = [window EXCEPT ![p] = n]
          /\ Goes(p, IF flag[p].role = "eval" THEN "model"
                     ELSE IF n = -1 THEN "detect" ELSE "measure")
    BY <1>2 DEF AskWindow
  <2>2. n \in {-1} \cup {srv.window : srv \in Servers}
    BY <2>1 DEF TypeOK, Asked
  <2> QED
    BY <1>2, <2>1, <2>2 DEF TypeOK, AskWindow, Goes, Stages, Startup, locking, process, backend
<1>3. CASE AskModel(p)
  <2>1. PICK name \in Asked(flag[p].kind, server.weights, Unknown) :
          /\ known' = [known EXCEPT ![p] = name]
          /\ Goes(p, IF window[p] = -1 /\ name = Unknown THEN "detect" ELSE "require")
    BY <1>3 DEF AskModel
  <2>2. name \in Weights \cup {Unknown}
    BY <2>1 DEF TypeOK, Asked, Weights
  <2> QED
    BY <1>3, <2>1, <2>2 DEF TypeOK, AskModel, Goes, Stages, Startup, locking, process, backend
<1>4. CASE Detect(p)
  <2>1. CASE Dies(p)
    BY <2>1, DiesType
  <2>2. CASE ~Dies(p)
    BY <1>4, <2>2 DEF TypeOK, Detect, Goes, Stages, TakingLock, Startup, locking, process,
       backend, asking
  <2> QED BY <2>1, <2>2
<1>5. CASE Require(p)
  <2>1. CASE Dies(p)
    BY <2>1, DiesType
  <2>2. CASE ~Dies(p)
    BY <1>5, <2>2 DEF TypeOK, Require, Goes, Stages, TakingLock, Startup, locking, process,
       backend, asking
  <2> QED BY <2>1, <2>2
<1>6. CASE Chat(p)
  <2>1. \A structured \in BOOLEAN : Amiss(p, structured) \subseteq {"kind", "weights", "free", "leaky"}
    BY DEF Amiss
  <2> QED
    BY <1>6, <2>1 DEF TypeOK, Chat, locking, process, backend
<1> QED BY <1>1, <1>2, <1>3, <1>4, <1>5, <1>6 DEF StartUp

LEMMA ReturnsType == ASSUME TypeOK, NEW p \in Procs, Returns(p) PROVE TypeOK'
<1>1. CASE flag[p].role = "eval"
  <2>1. lock' = [pid |-> NoFile, old |-> FALSE] /\ linked' = {}
    BY <1>1 DEF Returns
  <2>2. lock' \in [pid : Pids \cup {NoFile, NoStamp}, old : BOOLEAN]
    BY <2>1
  <2> QED BY <2>1, <2>2, GoneType DEF Returns
<1>2. CASE flag[p].role # "eval"
  <2>1. lock' = lock /\ linked' = linked
    BY <1>2 DEF Returns
  <2> QED BY <2>1, GoneType DEF Returns, TypeOK
<1> QED BY <1>1, <1>2

LEMMA EnvironmentType ==
  ASSUME TypeOK, (\E n \in Pids : Foreign(n)) \/ Ages \/ ServerChanges PROVE TypeOK'
<1>1. CASE \E n \in Pids : Foreign(n)
  BY <1>1 DEF TypeOK, Foreign, locking, backend, asking
<1>2. CASE Ages
  BY <1>2 DEF TypeOK, Ages, process, backend, asking
<1>3. CASE ServerChanges
  BY <1>3, BoundAssumption DEF TypeOK, ServerChanges, process, locking
<1> QED BY <1>1, <1>2, <1>3

LEMMA PidStep == ASSUME TypeOK, HasPid, [Next]_vars PROVE HasPid'
<1>1. ASSUME NEW p \in Procs, Start(p) PROVE HasPid'
  BY <1>1 DEF TypeOK, HasPid, Start, Goes
<1>2. ASSUME NEW p \in Procs, Gone(p) PROVE HasPid'
  BY <1>2 DEF TypeOK, HasPid, Gone, Goes
<1>3. ASSUME NEW p \in Procs, pc[p] # "idle", UNCHANGED pid, NEW stage, Goes(p, stage)
      PROVE  HasPid'
  BY <1>3 DEF TypeOK, HasPid, Goes
<1>4. ASSUME NEW p \in Procs, TakeLock(p) PROVE HasPid'
  BY <1>4, <1>2, <1>3 DEF TakeLock, Stat, Overtakes, Refused, Truncate, Stamp, Dies, process
<1>5. ASSUME NEW p \in Procs, StartUp(p) PROVE HasPid'
  BY <1>5, <1>2, <1>3 DEF StartUp, Prepares, AskWindow, AskModel, Detect, Require, Dies, process
<1>6. ASSUME UNCHANGED <<pc, pid>> PROVE HasPid'
  BY <1>6 DEF HasPid
<1>7. ASSUME NEW p \in Procs, Killed(p) \/ Returns(p) PROVE HasPid'
  BY <1>7, <1>2 DEF Killed, Returns, Dies
<1> QED
  BY <1>1, <1>4, <1>5, <1>6, <1>7
  DEF Next, Chat, Foreign, Ages, ServerChanges, vars, process

-----------------------------------------------------------------------------
LEMMA LockInit == Init => LockInv
  BY DEF Init, LockInv, TakingLock, Sweeping, Startup, Writing

\* A step that leaves the lock protocol's state alone, and nobody's stage but p's,
\* which stays on its side of takeLock.
LEMMA LockIdleStep ==
  ASSUME TypeOK, LockInv, NEW p \in Procs, UNCHANGED <<linked, lock, excuse>>,
         UNCHANGED <<pid, flag>>, NEW stage, Goes(p, stage),
         pc[p] \in {"prepare"} \cup Startup, stage \in {"measure"} \cup Startup
  PROVE  LockInv'
  BY DEF TypeOK, LockInv, Goes, Startup, TakingLock, Sweeping, Writing

LEMMA LockDies ==
  ASSUME TypeOK, HasPid, LockInv, NEW p \in Procs, Dies(p), pc[p] # "idle" PROVE LockInv'
<1> SUFFICES ASSUME excuse = {} PROVE LockInv'
  BY DEF LockInv, Dies, Gone
<1>1. \A q \in Procs : q # p => pc'[q] = pc[q] /\ pid'[q] = pid[q] /\ flag'[q] = flag[q]
  BY DEF TypeOK, Dies, Gone, Goes
<1>2. pc'[p] = "idle" /\ lock' = lock /\ linked' = linked \ {p}
  BY DEF TypeOK, Dies, Gone, Goes
<1> QED
  BY <1>1, <1>2 DEF LockInv, Startup, TakingLock, Sweeping, Writing

LEMMA LockStart ==
  ASSUME TypeOK, LockInv, NEW p \in Procs, Start(p) PROVE LockInv'
<1>1. PICK f \in Flags : /\ flag' = [flag EXCEPT ![p] = f]
                         /\ Goes(p, IF f.role = "eval" THEN "stat" ELSE "window")
  BY DEF Start
<1>2. \A q \in Procs : q # p => pc'[q] = pc[q] /\ pid'[q] = pid[q] /\ flag'[q] = flag[q]
  BY <1>1 DEF TypeOK, Start, Goes
<1>3. /\ pc'[p] \in {"stat", "window"} /\ ~Sweeping(p)'
      /\ UNCHANGED <<lock, linked, excuse>>
  BY <1>1 DEF TypeOK, Start, Goes, Sweeping, Startup, locking
<1> QED
  BY <1>2, <1>3 DEF LockInv, Startup, TakingLock, Sweeping, Writing

LEMMA LockTake ==
  ASSUME TypeOK, HasPid, LockInv, NEW p \in Procs, TakeLock(p), excuse' = {} PROVE LockInv'
<1>0. excuse = {}
  BY DEF TakeLock, Stat, Overtakes, Refused, Truncate, Stamp, Dies, Gone
<1>1. CASE Stat(p)
  <2>1. ~Races(p) /\ UNCHANGED <<lock, linked, pid, flag>>
    BY <1>1 DEF Stat, process
  <2>2. \A q \in Procs : q # p => pc'[q] = pc[q] /\ pc[q] \notin TakingLock
    BY <1>1, <2>1 DEF TypeOK, Stat, Goes, Races
  <2>3. pc[p] = "stat" /\ pc'[p] = IF lock.pid = NoFile THEN "truncate" ELSE "judge"
    BY <1>1 DEF TypeOK, Stat, Goes
  <2>4. lock.pid = NoFile => \A q \in Procs : ~Sweeping(q)
    BY <1>0, PidAssumption DEF LockInv, HasPid, Sweeping, Startup
  <2> QED
    BY <1>0, <2>1, <2>2, <2>3, <2>4 DEF LockInv, Startup, TakingLock, Sweeping, Writing
<1>2. CASE Overtakes(p)
  <2>1. ASSUME NEW q \in Procs, Sweeping(q) PROVE FALSE
    <3>1. q # p
      BY <1>2, <2>1 DEF Overtakes, Sweeping, Startup
    <3>2. Running(lock.pid)
      BY <1>0, <2>1 DEF LockInv, Running
    <3>3. ~sawOld[p] /\ ~flag[p].force
      BY <1>2, <2>1, <3>1 DEF Overtakes, Overtaking
    <3> QED
      BY <1>2, <3>2, <3>3 DEF Overtakes, Refuses, HolderAlive
  <2>2. pc[p] = "judge" /\ UNCHANGED <<lock, linked, pid, flag>>
    BY <1>2 DEF Overtakes, process
  <2>3. pc' = [pc EXCEPT ![p] = "truncate"]
    BY <1>2 DEF Overtakes, Goes
  <2> QED
    BY <1>0, <2>1, <2>2, <2>3 DEF TypeOK, LockInv, Startup, TakingLock, Sweeping, Writing
<1>3. CASE Dies(p)
  BY <1>3, LockDies DEF TakeLock, Stat, Overtakes, Refused, Truncate, Stamp
<1>4. CASE Truncate(p)
  <2>1. /\ pc[p] = "truncate" /\ pc' = [pc EXCEPT ![p] = "stamp"]
        /\ linked' = linked \cup {p} /\ UNCHANGED <<pid, flag>>
    BY <1>4 DEF Truncate, Goes, process
  <2> QED
    BY <1>0, <2>1 DEF TypeOK, LockInv, Startup, TakingLock, Sweeping, Writing
<1>5. CASE Stamp(p) /\ ~Dies(p)
  <2>1. /\ pc[p] = "stamp" /\ pc' = [pc EXCEPT ![p] = "prepare"]
        /\ linked' = linked \ {p} /\ UNCHANGED <<pid, flag>>
    BY <1>5 DEF Stamp, Goes, process
  <2>2. p \in linked /\ lock' = [pid |-> pid[p], old |-> FALSE]
    BY <1>0, <1>5, <2>1 DEF LockInv, Stamp
  <2>3. \A q \in Procs : ~Sweeping(q) /\ (q # p => pc[q] \notin TakingLock)
    BY <1>0, <2>1 DEF LockInv, TakingLock, Writing
  <2> QED
    BY <2>1, <2>2, <2>3 DEF TypeOK, LockInv, Startup, TakingLock, Sweeping, Writing
<1> QED
  BY <1>1, <1>2, <1>3, <1>4, <1>5 DEF TakeLock, Refused

LEMMA LockReturns ==
  ASSUME TypeOK, HasPid, LockInv, NEW p \in Procs, Returns(p), excuse' = {} PROVE LockInv'
<1>1. excuse = {} /\ pc[p] = "measure"
  BY DEF Returns, Gone
<1>2. \A q \in Procs : q # p => pc'[q] = pc[q] /\ pid'[q] = pid[q] /\ flag'[q] = flag[q]
  BY DEF TypeOK, Returns, Gone, Goes
<1>3. pc'[p] = "idle"
  BY DEF TypeOK, Returns, Gone, Goes
<1>4. CASE flag[p].role = "eval"
  <2>1. Sweeping(p)
    BY <1>1, <1>4 DEF Sweeping
  <2>2. \A q \in Procs : q # p => ~Sweeping(q) /\ ~Writing(q)
    BY <1>1, <2>1 DEF LockInv
  <2> QED
    BY <1>1, <1>2, <1>3, <2>2 DEF LockInv, Startup, TakingLock, Sweeping, Writing
<1>5. CASE flag[p].role # "eval"
  BY <1>1, <1>2, <1>3, <1>5 DEF LockInv, Returns, Startup, TakingLock, Sweeping, Writing
<1> QED BY <1>4, <1>5

LEMMA LockStep == ASSUME TypeOK, HasPid, LockInv, [Next]_vars PROVE LockInv'
<1> SUFFICES ASSUME excuse' = {} PROVE LockInv'
  BY DEF LockInv
<1>1. ASSUME NEW p \in Procs, StartUp(p) PROVE LockInv'
  <2>1. CASE Dies(p)
    BY <1>1, <2>1, LockDies
    DEF StartUp, Prepares, AskWindow, AskModel, Detect, Require
  <2>2. CASE ~Dies(p)
    <3>1. PICK stage \in {"measure"} \cup Startup : Goes(p, stage)
      BY <1>1, <2>2 DEF StartUp, Prepares, AskWindow, AskModel, Detect, Require, Startup
    <3>2. pc[p] \in {"prepare"} \cup Startup
      BY <1>1 DEF StartUp, Prepares, AskWindow, AskModel, Detect, Require, Startup
    <3>3. UNCHANGED <<linked, lock, excuse, pid, flag>>
      BY <1>1, <2>2 DEF StartUp, Prepares, AskWindow, AskModel, Detect, Require, locking, process
    <3> QED BY <3>1, <3>2, <3>3, LockIdleStep
  <2> QED BY <2>1, <2>2
<1>2. ASSUME UNCHANGED <<pc, pid, flag, linked, excuse>>, lock'.pid = lock.pid PROVE LockInv'
  BY <1>2 DEF LockInv, Startup, TakingLock, Sweeping, Writing
<1>3. CASE Ages
  BY <1>2, <1>3 DEF TypeOK, Ages, process
<1>4. CASE ServerChanges \/ (\E n \in Pids : Foreign(n)) \/ UNCHANGED vars
  BY <1>2, <1>4 DEF ServerChanges, Foreign, vars, process, locking
<1>5. ASSUME NEW p \in Procs, Chat(p) PROVE LockInv'
  BY <1>2, <1>5 DEF Chat, process, locking
<1> QED
  BY <1>1, <1>3, <1>4, <1>5, LockStart, LockTake, LockReturns, LockDies DEF Next, Killed

-----------------------------------------------------------------------------
LEMMA TypeStep == ASSUME TypeOK, HasPid, [Next]_vars PROVE TypeOK'
<1>1. ASSUME UNCHANGED vars PROVE TypeOK'
  BY <1>1 DEF TypeOK, vars
<1> QED
  BY <1>1, StartType, DiesType, LockType, BackendType, ReturnsType, EnvironmentType DEF Next, Killed

LEMMA InvHolds == Spec => []Inv
<1>1. Init => Inv
  BY InitType, LockInit DEF Inv, HasPid, Init
<1>2. Inv /\ [Next]_vars => Inv'
  BY TypeStep, PidStep, LockStep DEF Inv
<1> QED BY <1>1, <1>2, PTL DEF Spec

\* Every variable keeps its type, whatever is started, killed, aged or restarted.
THEOREM SweepTypeCorrect == Spec => []TypeOK
BY InvHolds, PTL DEF Inv

\* Two evals are past takeLock only by a race inside takeLock, by -force or by one
\* outliving staleLockAfter; otherwise the lock file names the one that is.
THEOREM OneEvalAtATime == Spec => []OneAtATime
<1>1. Inv => OneAtATime
  BY DEF Inv, LockInv, OneAtATime
<1> QED BY <1>1, InvHolds, PTL

-----------------------------------------------------------------------------
\* What an undisturbed process knows of a server that stood still: a server of the
\* other kind tells it nothing, the model it was told, if any, is the server's, and
\* past the mismatch check the server is of its kind or down.
AskedOf(p) ==
    /\ pc[p] # "measure" => measured[p] = {}
    /\ pc[p] # "idle" => flag[p] \in Flags
    /\ pc[p] \in {"model", "require"} => flag[p].role = "eval"
    /\ pc[p] = "measure" /\ flag[p].role = "eval" => flag[p].require \in {"any", known[p]}
    /\ p \notin disturbed =>
         /\ pc[p] = "model" /\ server.kind # flag[p].kind => window[p] = -1
         /\ pc[p] \in {"detect", "require", "measure"} /\ flag[p].role = "eval" =>
              known[p] \in {Unknown, server.weights}
         /\ server.window > 0 =>
              /\ pc[p] \in {"require", "measure"} => server.kind \in {flag[p].kind, "down"}
              /\ measured[p] = {}

AskedInv == \A p \in Procs : AskedOf(p)

\* Nobody but p moves, and the backend stands still.
OnlyMoves(p) ==
  /\ server' = server
  /\ \A q \in Procs \ {p} :
       /\ pc'[q] = pc[q] /\ flag'[q] = flag[q] /\ known'[q] = known[q]
       /\ window'[q] = window[q] /\ measured'[q] = measured[q]
       /\ q \in disturbed' <=> q \in disturbed

LEMMA AskedElsewhere ==
  ASSUME AskedInv, NEW p \in Procs, OnlyMoves(p), AskedOf(p)' PROVE AskedInv'
BY DEF AskedInv, AskedOf, OnlyMoves

LEMMA AskedGone == ASSUME TypeOK, AskedInv, NEW p \in Procs, Gone(p) PROVE AskedInv'
<1>1. OnlyMoves(p)
  BY DEF TypeOK, OnlyMoves, Gone, Goes, backend
<1>2. pc'[p] = "idle" /\ measured'[p] = {}
  BY DEF TypeOK, Gone, Goes
<1> QED BY <1>1, <1>2, AskedElsewhere DEF AskedOf, Startup

LEMMA AskedStart == ASSUME TypeOK, AskedInv, NEW p \in Procs, Start(p) PROVE AskedInv'
<1>1. PICK f \in Flags : /\ flag' = [flag EXCEPT ![p] = f]
                         /\ Goes(p, IF f.role = "eval" THEN "stat" ELSE "window")
  BY DEF Start
<1>2. OnlyMoves(p)
  BY <1>1 DEF TypeOK, OnlyMoves, Start, Goes, backend, asking
<1>3. /\ pc'[p] \in {"stat", "window"} /\ flag'[p] \in Flags
      /\ measured' = measured /\ pc[p] = "idle"
  BY <1>1 DEF TypeOK, Start, Goes, asking
<1> QED BY <1>2, <1>3, AskedElsewhere DEF AskedInv, AskedOf, Startup

\* takeLock and Prepares ask nothing.
LEMMA AskedNothing ==
  ASSUME TypeOK, AskedInv, NEW p \in Procs, NEW stage, Goes(p, stage),
         pc[p] \in {"stat", "prepare"} \cup TakingLock,
         stage \in TakingLock \cup {"prepare", "window"},
         UNCHANGED <<flag, backend, asking>>
  PROVE  AskedInv'
<1>1. OnlyMoves(p)
  BY DEF TypeOK, OnlyMoves, Goes, backend, asking
<1>2. AskedOf(p)'
  BY DEF TypeOK, AskedInv, AskedOf, Goes, TakingLock, Startup, backend, asking
<1> QED BY <1>1, <1>2, AskedElsewhere

LEMMA AskedTake == ASSUME TypeOK, AskedInv, NEW p \in Procs, TakeLock(p) PROVE AskedInv'
<1>1. CASE Gone(p)
  BY <1>1, AskedGone
<1>2. CASE ~Gone(p)
  <2>1. PICK stage \in TakingLock \cup {"prepare"} : Goes(p, stage)
    BY <1>2 DEF TakeLock, Stat, Overtakes, Refused, Truncate, Stamp, Dies, TakingLock
  <2>2. pc[p] \in {"stat", "prepare"} \cup TakingLock /\ UNCHANGED <<flag, backend, asking>>
    BY <1>2 DEF TakeLock, Stat, Overtakes, Refused, Truncate, Stamp, Dies, TakingLock, process
  <2> QED BY <2>1, <2>2, AskedNothing
<1> QED BY <1>1, <1>2

LEMMA AskedStartUp == ASSUME TypeOK, AskedInv, NEW p \in Procs, StartUp(p) PROVE AskedInv'
<1>1. CASE Gone(p)
  BY <1>1, AskedGone
<1>2. CASE Prepares(p)
  BY <1>2, AskedNothing DEF Prepares, process
<1>3. CASE AskWindow(p)
  <2>1. OnlyMoves(p)
    BY <1>3 DEF TypeOK, OnlyMoves, AskWindow, Goes, process, backend
  <2>2. PICK n \in Asked(flag[p].kind, server.window, -1) :
          /\ window' = [window EXCEPT ![p] = n]
          /\ Goes(p, IF flag[p].role = "eval" THEN "model"
                     ELSE IF n = -1 THEN "detect" ELSE "measure")
    BY <1>3 DEF AskWindow
  <2>3. /\ pc[p] = "window" /\ measured[p] = {} /\ flag[p] \in Flags
        /\ window'[p] = n
        /\ pc'[p] = IF flag[p].role = "eval" THEN "model"
                    ELSE IF n = -1 THEN "detect" ELSE "measure"
        /\ UNCHANGED <<flag, server, known, disturbed, measured>>
    BY <1>3, <2>2 DEF TypeOK, AskedInv, AskedOf, AskWindow, Goes, process, backend
  <2>4. server.kind # flag[p].kind => n = -1
    BY <2>2 DEF Asked, Answers
  <2>5. AskedOf(p)'
    BY <2>3, <2>4 DEF AskedOf, Startup
  <2> QED BY <2>1, <2>5, AskedElsewhere
<1>4. CASE AskModel(p)
  <2>1. OnlyMoves(p)
    BY <1>4 DEF TypeOK, OnlyMoves, AskModel, Goes, process, backend
  <2>2. PICK name \in Asked(flag[p].kind, server.weights, Unknown) :
          /\ known' = [known EXCEPT ![p] = name]
          /\ Goes(p, IF window[p] = -1 /\ name = Unknown THEN "detect" ELSE "require")
    BY <1>4 DEF AskModel
  <2>3. /\ pc[p] = "model" /\ AskedOf(p)
        /\ known'[p] = name
        /\ pc'[p] = IF window[p] = -1 /\ name = Unknown THEN "detect" ELSE "require"
        /\ UNCHANGED <<flag, server, window, disturbed, measured>>
    BY <1>4, <2>2 DEF TypeOK, AskedInv, AskModel, Goes, process, backend
  <2>4. /\ name \in {Unknown, server.weights}
        /\ server.kind # flag[p].kind => name = Unknown
    BY <2>2 DEF Asked, Answers
  <2>5. AskedOf(p)'
    BY <2>3, <2>4 DEF AskedOf, Startup
  <2> QED BY <2>1, <2>5, AskedElsewhere
<1>5. CASE Detect(p) /\ ~Gone(p)
  <2>1. OnlyMoves(p)
    BY <1>5 DEF TypeOK, OnlyMoves, Detect, Dies, Goes, process, backend, asking
  <2>2. /\ pc[p] = "detect" /\ AskedOf(p)
        /\ pc'[p] = IF flag[p].role = "eval" THEN "require" ELSE "measure"
        /\ UNCHANGED <<flag, server, window, known, measured>>
        /\ p \notin disturbed' => p \notin disturbed /\ DetectKind(flag[p]) \in {"", flag[p].kind}
    BY <1>5 DEF TypeOK, AskedInv, Detect, Dies, Goes, process, backend, asking
  <2>3. server.kind \in Kinds \cup {"down"} /\ flag[p].kind \in Kinds
    BY <2>2, ServerAssumption, FlagAssumption DEF TypeOK, AskedOf
  <2>4. ASSUME p \notin disturbed', server.window > 0 PROVE server.kind \in {flag[p].kind, "down"}
    BY <2>2, <2>3, <2>4 DEF DetectKind, AskedOf, Kinds
  <2>5. AskedOf(p)'
    BY <2>2, <2>4 DEF AskedOf, Startup
  <2> QED BY <2>1, <2>5, AskedElsewhere
<1>6. CASE Require(p) /\ ~Gone(p)
  <2>1. OnlyMoves(p)
    BY <1>6 DEF TypeOK, OnlyMoves, Require, Dies, Goes, process, backend, asking
  <2>2. /\ pc[p] = "require" /\ AskedOf(p) /\ pc'[p] = "measure" /\ ~Unwanted(p)
        /\ UNCHANGED <<flag, server, window, known, disturbed, measured>>
    BY <1>6 DEF TypeOK, AskedInv, Require, Dies, Goes, process, backend, asking
  <2>3. AskedOf(p)'
    BY <2>2 DEF AskedOf, Startup, Unwanted
  <2> QED BY <2>1, <2>3, AskedElsewhere
<1> QED
  BY <1>1, <1>2, <1>3, <1>4, <1>5, <1>6 DEF StartUp

LEMMA AskedChat == ASSUME TypeOK, AskedInv, NEW p \in Procs, Chat(p) PROVE AskedInv'
<1>1. PICK structured \in BOOLEAN :
        measured' = [measured EXCEPT ![p] = measured[p] \cup Amiss(p, structured)]
  BY DEF Chat
<1>2. OnlyMoves(p) /\ pc'[p] = "measure" /\ AskedOf(p) /\ pc[p] = "measure" /\ server.kind # "down"
  BY <1>1 DEF TypeOK, OnlyMoves, Chat, AskedInv, process, backend
<1>3. UNCHANGED <<server, flag, window, known, disturbed>> /\ flag[p].kind \in Kinds
  BY <1>2, FlagAssumption DEF Chat, process, backend, AskedOf
<1>4. ASSUME p \notin disturbed, server.window > 0 PROVE Amiss(p, structured) = {}
  <2>1. server.kind = flag[p].kind
    BY <1>2, <1>4 DEF AskedOf
  <2>2. flag[p].role = "eval" => known[p] \in {Unknown, server.weights}
    BY <1>2, <1>4 DEF AskedOf
  <2>3. structured => Honoured(Request(flag[p], structured)) = "plan"
    BY <1>3, <2>1 DEF Honoured, Request, Wire, Kinds
  <2>4. ~structured /\ flag[p].grammar /\ server.kind = "kobold" =>
          Honoured(Request(flag[p], structured)) = "leak"
    BY <2>1 DEF Honoured, Request, Wire, ContentGrammar
  <2> QED BY <2>1, <2>2, <2>3, <2>4 DEF Amiss
<1>5. AskedOf(p)'
  <2>1. measured'[p] = measured[p] \cup Amiss(p, structured)
    BY <1>1 DEF TypeOK
  <2>2. p \notin disturbed /\ server.window > 0 => measured'[p] = {}
    BY <1>2, <1>4, <2>1 DEF AskedOf
  <2> QED BY <1>2, <1>3, <2>2 DEF AskedOf, Startup
<1> QED BY <1>2, <1>5, AskedElsewhere

LEMMA AskedStep == ASSUME TypeOK, AskedInv, [Next]_vars PROVE AskedInv'
<1>1. ASSUME NEW p \in Procs, Killed(p) \/ Returns(p) PROVE AskedInv'
  BY <1>1, AskedGone DEF Killed, Dies, Returns
<1>2. CASE ServerChanges
  <2>1. \A p \in Procs : /\ UNCHANGED <<pc, flag, measured, known, window>>
                         /\ Talking(p) => p \in disturbed'
                         /\ ~Talking(p) => measured[p] = {}
    BY <1>2 DEF ServerChanges, process, Talking, AskedInv, AskedOf
  <2> QED
    BY <2>1 DEF AskedInv, AskedOf, Talking, Startup
<1>3. CASE Ages \/ (\E n \in Pids : Foreign(n)) \/ UNCHANGED vars
  BY <1>3 DEF AskedInv, AskedOf, Ages, Foreign, vars, process, backend, asking
<1> QED
  BY <1>1, <1>2, <1>3, AskedStart, AskedTake, AskedStartUp, AskedChat DEF Next

LEMMA AskedHolds == Spec => [](TypeOK /\ AskedInv)
<1>1. Init => TypeOK /\ AskedInv
  BY InitType DEF Init, AskedInv, AskedOf, Startup
<1>2. (TypeOK /\ HasPid /\ AskedInv) /\ [Next]_vars => (TypeOK /\ HasPid /\ AskedInv)'
  BY TypeStep, PidStep, AskedStep
<1>3. Init => HasPid
  BY DEF Init, HasPid
<1> QED BY <1>1, <1>2, <1>3, PTL DEF Spec

\* An undisturbed process is answered by a server of the kind its flag names, which
\* honours the constraint the request carries.
THEOREM MeasuresWhatItMeans == Spec => []MeasuredAsMeant
<1>1. TypeOK /\ AskedInv => MeasuredAsMeant
  BY DEF AskedInv, AskedOf, MeasuredAsMeant
<1> QED BY <1>1, AskedHolds, PTL

\* The record of an undisturbed sweep names no other model than the one that
\* answers, and the model that was asked for is the one that answers.
THEOREM RecordsNoOther == Spec => []RecordNamesNoOther
<1>1. ASSUME TypeOK, AskedInv PROVE RecordNamesNoOther
  <2> SUFFICES ASSUME NEW p \in Procs, Sweeping(p), pc[p] = "measure", p \notin disturbed
               PROVE  /\ server.window > 0 => "weights" \notin measured[p]
                      /\ flag[p].require # "any" =>
                           known[p] = flag[p].require /\ flag[p].require = server.weights
    BY DEF RecordNamesNoOther
  <2>1. AskedOf(p) /\ flag[p].role = "eval"
    BY <1>1 DEF AskedInv, Sweeping
  <2>2. flag[p] \in Flags /\ flag[p].require \in {"any", known[p]}
    BY <2>1 DEF AskedOf
  <2>3. flag[p].require \in {"any"} \cup Weights /\ Unknown \notin Weights \cup {"any"}
    BY <2>2, FlagAssumption, ServerAssumption DEF Weights, Unknown
  <2>4. known[p] \in {Unknown, server.weights}
    BY <2>1 DEF AskedOf
  <2> QED BY <2>1, <2>2, <2>3, <2>4 DEF AskedOf
<1> QED BY <1>1, AskedHolds, PTL
=============================================================================
