----------------------------- MODULE ToolsProofs -----------------------------
(***************************************************************************)
(* Theorems about the tools of internal/tools.                             *)
(*                                                                         *)
(* First the background processes: stopping them leaves nothing that could *)
(* be reached, for every number of processes, of stop_background calls and *)
(* of their ways of overlapping with StopAll.                              *)
(*                                                                         *)
(* Then the tools that read and change files: what they do to texts of any *)
(* length, in trees of any shape, with any number of faults.  The texts    *)
(* are folded over by strings.Split and strings.Join, so what those return *)
(* is proved first, by induction: on the least set, or the shortest        *)
(* prefix, for which a claim fails.                                        *)
(***************************************************************************)
EXTENDS BackgroundProcs, FileTools, FiniteSetTheorems, SequenceTheorems,
        WellFoundedInduction, TLAPS

-----------------------------------------------------------------------------
(***************************************************************************)
(* Background processes.                                                   *)
(***************************************************************************)
Gone(c) == leader[c] = "dead" /\ child[c] # "grouped"

\* A process, dead or alive, is there only behind its entry, and a child only of a
\* process.
Started ==
  \A c \in Calls :
    /\ leader[c] # "none" \/ exited[c] => stage[c] \in {"started", "returned"}
    /\ leader[c] = "none" => child[c] = "none"

\* What a caller of stop has come to know of its target.
Stopping ==
  \A s \in Stoppers :
    /\ job[s].at = "kill" => job[s].target \in Calls /\ leader[job[s].target] # "none"
    /\ job[s].at \in {"wait", "stopped"} => job[s].target \in Calls /\ Gone(job[s].target)

\* Once the deferred StopAll has begun nothing new starts, and what is alive is
\* still ahead of it.
Ahead(c) == c \in queue["deferred"] \/ job["deferred"] = [at |-> "kill", target |-> c]

Deferred ==
  /\ job["deferred"].at # "idle" =>
       \A c \in Calls : /\ stage[c] \in {"idle", "returned"}
                        /\ Survives(c) => Ahead(c)
  /\ ended = "returned" => AllStopped("deferred")

Inv == TypeOK /\ Started /\ Stopping /\ Deferred

-----------------------------------------------------------------------------
\* Those that stop processes: the two teardowns and the calls of stop_background.
LEMMA Callers == /\ "deferred" \in Stoppers /\ "deferred" \notin Stops
                 /\ "deferred" \in Teardowns /\ "signal" \in Teardowns
                 /\ Stops \subseteq Stoppers /\ Teardowns \subseteq Stoppers
BY CallerAssumption DEF Stoppers

Jobs == [at : {"idle", "kill", "wait", "next", "stopped", "error"},
         target : Calls \union {NoCall}]

\* At first there is nothing to stop.
LEMMA InitInv == Init => Inv
<1> SUFFICES ASSUME Init PROVE Inv
  OBVIOUS
<1>1. TypeOK
  BY DEF Init, TypeOK, Idle
<1>2. Started
  BY DEF Init, Started
<1>3. Stopping
  BY DEF Init, Stopping, Idle
<1>4. Deferred
  BY Callers DEF Init, Deferred, Idle
<1> QED
  BY <1>1, <1>2, <1>3, <1>4 DEF Inv

-----------------------------------------------------------------------------
\* Every step keeps the types.
LEMMA NextType ==
  ASSUME TypeOK, Started, Stopping, [Next]_vars
  PROVE  TypeOK'
<1> USE Callers DEF TypeOK
<1>1. CASE UNCHANGED vars
  BY <1>1 DEF vars
<1>2. ASSUME NEW c \in Calls, Register(c) \/ Start(c) \/ StartFails(c) \/ Settled(c)
      PROVE  TypeOK'
  <2>1. stage' \in [Calls -> {"idle", "registered", "started", "returned"}]
    <3>1. \E v \in {"registered", "started", "returned"} : stage' = [stage EXCEPT ![c] = v]
      BY <1>2, Zenon DEF Register, Start, StartFails, Settled
    <3>2. stage \in [Calls -> {"idle", "registered", "started", "returned"}]
      OBVIOUS
    <3>3. PICK v \in {"registered", "started", "returned"} : stage' = [stage EXCEPT ![c] = v]
      BY <3>1
    <3> HIDE DEF TypeOK
    <3> QED
      BY <3>2, <3>3
  <2>2. leader' \in [Calls -> {"none", "alive", "dead"}] /\ exited' \in [Calls -> BOOLEAN]
    <3>1. CASE Register(c) \/ Settled(c)
      BY <3>1 DEF Register, Settled
    <3>2. CASE Start(c)
      BY <3>2 DEF Start
    <3>3. CASE StartFails(c)
      BY <3>3 DEF StartFails
    <3> QED
      BY <1>2, <3>1, <3>2, <3>3
  <2>3. UNCHANGED <<child, job, queue, signal, ended>>
    BY <1>2 DEF Register, Start, StartFails, Settled
  <2>4. \A d \in Calls : exited'[d] => leader'[d] # "alive"
    <3>1. CASE Register(c) \/ Settled(c)
      BY <3>1 DEF Register, Settled
    <3>2. CASE Start(c)
      BY <3>2 DEF Start, Started
    <3>3. CASE StartFails(c)
      BY <3>3 DEF StartFails, Started
    <3> QED
      BY <1>2, <3>1, <3>2, <3>3
  <2> QED
    BY <2>1, <2>2, <2>3, <2>4
<1>9. ASSUME NEW c \in Calls, Reap(c) \/ Exits(c) \/ ChildExits(c)
      PROVE  TypeOK'
  <2>1. CASE Reap(c)
    BY <2>1 DEF Reap, WaitReturns
  <2>2. CASE Exits(c)
    BY <2>2 DEF Exits
  <2>3. CASE ChildExits(c)
    BY <2>3 DEF ChildExits
  <2> QED
    BY <1>9, <2>1, <2>2, <2>3
<1>10. ASSUME NEW c \in Calls, NEW kind \in {"grouped", "escaped"}, Forks(c, kind)
       PROVE  TypeOK'
  BY <1>10 DEF Forks
<1>3. ASSUME NEW s \in Stops, NEW c \in Calls, StopBackground(s, c) PROVE TypeOK'
  BY <1>3 DEF StopBackground
<1>4. ASSUME NEW s \in Stoppers, Kill(s) PROVE TypeOK'
  BY <1>4 DEF Kill, GroupKilled, Stopping
<1>5. ASSUME NEW s \in Stoppers, SeesExit(s) \/ GraceOver(s) PROVE TypeOK'
  BY <1>5 DEF SeesExit, GraceOver, After
<1>6. ASSUME NEW t \in Teardowns, StopNext(t) PROVE TypeOK'
  BY <1>6 DEF StopNext, Left
<1>7. CASE MainReturns \/ SignalStopsAll
  <2>1. PICK t \in Teardowns : Snapshot(t) /\ UNCHANGED <<stage, leader, child, exited, signal, ended>>
    BY <1>7 DEF MainReturns, SignalStopsAll
  <2>2. job' \in [Stoppers -> Jobs]
    BY <2>1 DEF Snapshot, Jobs
  <2>3. queue' \in [Teardowns -> SUBSET Calls]
    BY <2>1 DEF Snapshot, Known
  <2> QED
    BY <2>1, <2>2, <2>3 DEF Jobs
<1>8. CASE MainExits \/ Fatal \/ Signal \/ SignalExits
  BY <1>8 DEF MainExits, Fatal, Signal, SignalExits
<1> QED
  BY <1>1, <1>2, <1>3, <1>4, <1>5, <1>6, <1>7, <1>8, <1>9, <1>10 DEF Next

\* A step that leaves the dead dead and the processes behind their entries.
Lasting ==
  /\ Started'
  /\ \A c \in Calls : /\ Gone(c) => Gone(c)'
                      /\ leader[c] # "none" => leader'[c] # "none"

\* Every step is one: a process is started once.
LEMMA NextStarted ==
  ASSUME TypeOK, Started, Stopping, [Next]_vars
  PROVE  Lasting
<1> USE Callers DEF TypeOK, Started, Gone, Lasting
<1>1. ASSUME UNCHANGED <<stage, leader, child, exited>> PROVE Lasting
  BY <1>1
<1>2. ASSUME NEW c \in Calls, Register(c) \/ Settled(c) PROVE Lasting
  <2>1. \A d \in Calls : stage[d] \in {"started", "returned"}
                           => stage'[d] \in {"started", "returned"}
    BY <1>2 DEF Register, Settled
  <2> QED
    BY <1>2, <2>1 DEF Register, Settled
<1>3. ASSUME NEW c \in Calls, Start(c) PROVE Lasting
  BY <1>3 DEF Start
<1>4. ASSUME NEW c \in Calls, StartFails(c) PROVE Lasting
  BY <1>4 DEF StartFails
<1>5. ASSUME NEW c \in Calls, Reap(c) PROVE Lasting
  BY <1>5 DEF Reap, WaitReturns
<1>6. ASSUME NEW c \in Calls, Exits(c) PROVE Lasting
  BY <1>6 DEF Exits
<1>7. ASSUME NEW c \in Calls, ChildExits(c) PROVE Lasting
  BY <1>7 DEF ChildExits
<1>8. ASSUME NEW c \in Calls, NEW kind \in {"grouped", "escaped"}, Forks(c, kind) PROVE Lasting
  BY <1>8 DEF Forks
<1>9. ASSUME NEW s \in Stoppers, Kill(s) PROVE Lasting
  BY <1>9 DEF Kill, GroupKilled, Stopping
<1>10. ASSUME NEW s \in Stoppers, SeesExit(s) \/ GraceOver(s) PROVE Lasting
  BY <1>1, <1>10 DEF SeesExit, GraceOver
<1>11. ASSUME NEW t \in Teardowns, StopNext(t) PROVE Lasting
  BY <1>1, <1>11 DEF StopNext
<1>12. ASSUME NEW s \in Stops, NEW c \in Calls, StopBackground(s, c) PROVE Lasting
  BY <1>1, <1>12 DEF StopBackground
<1>13. CASE MainReturns \/ SignalStopsAll \/ MainExits \/ Fatal \/ Signal \/ SignalExits
  BY <1>1, <1>13 DEF MainReturns, SignalStopsAll, MainExits, Fatal, Signal, SignalExits
<1>14. CASE UNCHANGED vars
  BY <1>1, <1>14 DEF vars
<1> HIDE DEF TypeOK, Started, Gone, Lasting
<1> QED
  BY <1>2, <1>3, <1>4, <1>5, <1>6, <1>7, <1>8, <1>9, <1>10, <1>11, <1>12, <1>13, <1>14
     DEF Next

\* What the jobs know stays true, and a job moves only when it may.
LEMMA NextStopping ==
  ASSUME TypeOK, Started, Stopping, [Next]_vars
  PROVE  Stopping'
<1> USE Callers DEF TypeOK
<1>1. ASSUME UNCHANGED job PROVE Stopping'
  BY <1>1, NextStarted DEF Stopping, Gone, Lasting
<1>2. ASSUME NEW s \in Stoppers, NEW j,
             job' = [job EXCEPT ![s] = j],
             j.at = "kill" => j.target \in Calls /\ leader'[j.target] # "none",
             j.at \in {"wait", "stopped"} => j.target \in Calls /\ Gone(j.target)'
      PROVE  Stopping'
  <2>1. \A r \in Stoppers : job'[r] = IF r = s THEN j ELSE job[r]
    BY <1>2
  <2> QED
    BY <1>2, <2>1, NextStarted DEF Stopping, Gone, Lasting
<1>3. ASSUME NEW s \in Stops, NEW c \in Calls, StopBackground(s, c) PROVE Stopping'
  <2>1. CASE c \in Known /\ KillNeeded(c)
    BY <1>2, <1>3, <2>1 DEF StopBackground, KillNeeded
  <2>2. CASE ~(c \in Known /\ KillNeeded(c))
    <3>1. job' = [job EXCEPT ![s] = [at |-> "error", target |-> c]]
      BY <1>3, <2>2 DEF StopBackground
    <3> QED
      BY <1>2, <3>1
  <2> QED
    BY <2>1, <2>2
<1>4. ASSUME NEW s \in Stoppers, Kill(s) PROVE Stopping'
  <2> DEFINE j == [job[s] EXCEPT !.at = "wait"]
  <2>1. job[s].target \in Calls
    BY <1>4 DEF Kill, Stopping
  <2>2. Gone(job[s].target)'
    BY <1>4, <2>1 DEF Kill, GroupKilled, Gone
  <2>3. job' = [job EXCEPT ![s] = j]
    BY <1>4 DEF Kill
  <2>4. j.at = "wait" /\ j.target = job[s].target
    OBVIOUS
  <2> HIDE DEF j
  <2> QED
    BY <1>2, <2>1, <2>2, <2>3, <2>4 DEF Gone
<1>5. ASSUME NEW s \in Stoppers, SeesExit(s) \/ GraceOver(s) PROVE Stopping'
  <2>1. PICK v \in {"stopped", "error", "next"} : job' = [job EXCEPT ![s].at = v]
    BY <1>5 DEF SeesExit, GraceOver, After
  <2> DEFINE j == [job[s] EXCEPT !.at = v]
  <2>2. job[s].target \in Calls /\ Gone(job[s].target)
    BY <1>5 DEF SeesExit, GraceOver, Stopping
  <2>3. Gone(job[s].target)'
    BY <1>5, <2>2 DEF SeesExit, GraceOver, Gone
  <2>4. job' = [job EXCEPT ![s] = j]
    BY <2>1
  <2>5. j.at = v /\ j.target = job[s].target
    OBVIOUS
  <2> HIDE DEF j
  <2> QED
    BY <1>2, <2>2, <2>3, <2>4, <2>5 DEF Gone
<1>6. ASSUME NEW t \in Teardowns, StopNext(t) PROVE Stopping'
  <2>1. PICK c \in queue[t] :
          job' = IF KillNeeded(c) THEN [job EXCEPT ![t] = [at |-> "kill", target |-> c]]
                 ELSE job
    BY <1>6 DEF StopNext
  <2>2. UNCHANGED leader
    BY <1>6 DEF StopNext
  <2>3. CASE KillNeeded(c)
    BY <1>2, <2>1, <2>2, <2>3 DEF KillNeeded
  <2>4. CASE ~KillNeeded(c)
    BY <1>1, <2>1, <2>4
  <2> QED
    BY <2>3, <2>4
<1>7. CASE MainReturns \/ SignalStopsAll
  <2>1. PICK t \in Teardowns : job' = [job EXCEPT ![t] = [at |-> "next", target |-> NoCall]]
    BY <1>7 DEF MainReturns, SignalStopsAll, Snapshot
  <2> QED
    BY <1>2, <2>1
<1>8. CASE MainExits \/ Fatal \/ Signal \/ SignalExits \/ UNCHANGED vars
  BY <1>1, <1>8 DEF MainExits, Fatal, Signal, SignalExits, vars
<1>9. ASSUME NEW c \in Calls,
             \/ Register(c) \/ Start(c) \/ StartFails(c) \/ Settled(c) \/ Reap(c)
             \/ Exits(c) \/ ChildExits(c)
             \/ \E kind \in {"grouped", "escaped"} : Forks(c, kind)
      PROVE  Stopping'
  BY <1>1, <1>9 DEF Register, Start, StartFails, Settled, Reap, Exits, ChildExits, Forks
<1> QED
  BY <1>3, <1>4, <1>5, <1>6, <1>7, <1>8, <1>9 DEF Next

\* Where the processes, the deferred StopAll and the agent's end stand as they
\* were, so does what StopAll has still to do.
LEMMA StillDeferred ==
  ASSUME TypeOK, Started, Stopping, Deferred, [Next]_vars,
         UNCHANGED <<stage, queue, ended>>, job'["deferred"] = job["deferred"],
         \A c \in Calls : Survives(c)' => Survives(c)
  PROVE  Deferred'
BY DEF Deferred, Ahead, AllStopped

\* The deferred StopAll works off what it found when nothing could start any more.
LEMMA NextDeferred ==
  ASSUME TypeOK, Started, Stopping, Deferred, [Next]_vars
  PROVE  Deferred'
<1> USE Callers DEF TypeOK
<1>1. CASE UNCHANGED vars
  BY <1>1, StillDeferred DEF vars, Survives
<1>2. ASSUME NEW c \in Calls, Register(c) PROVE Deferred'
  BY <1>2 DEF Register, MainRuns, Up, Deferred
<1>3. ASSUME NEW c \in Calls, Start(c) \/ StartFails(c) \/ Settled(c) PROVE Deferred'
  <2>1. job["deferred"].at = "idle" /\ job' = job /\ ended' = ended /\ Up
    BY <1>3 DEF Start, StartFails, Settled, Deferred
  <2> QED
    BY <2>1 DEF Deferred, Up
<1>4. ASSUME NEW c \in Calls, Reap(c) \/ Exits(c) \/ ChildExits(c) PROVE Deferred'
  <2>1. CASE Reap(c)
    BY <2>1, StillDeferred DEF Reap, Survives
  <2>2. CASE Exits(c)
    BY <2>2, StillDeferred DEF Exits, Survives
  <2>3. CASE ChildExits(c)
    BY <2>3, StillDeferred DEF ChildExits, Survives
  <2> QED
    BY <1>4, <2>1, <2>2, <2>3
<1>5. ASSUME NEW c \in Calls, NEW kind \in {"grouped", "escaped"}, Forks(c, kind)
      PROVE  Deferred'
  BY <1>5, StillDeferred DEF Forks, Survives
<1>6. ASSUME NEW s \in Stops, NEW c \in Calls, StopBackground(s, c) PROVE Deferred'
  <2>1. job'["deferred"] = job["deferred"]
    BY <1>6 DEF StopBackground
  <2> QED
    BY <1>6, <2>1, StillDeferred DEF StopBackground, Survives
<1>7. ASSUME NEW s \in Stoppers, Kill(s) PROVE Deferred'
  <2>1. \A c \in Calls : Survives(c)' => Survives(c) /\ c # job[s].target
    BY <1>7 DEF Kill, GroupKilled, Survives, Stopping
  <2>2. CASE s # "deferred"
    <3>1. job'["deferred"] = job["deferred"]
      BY <1>7, <2>2 DEF Kill
    <3> QED
      BY <1>7, <2>1, <3>1, StillDeferred DEF Kill
  <2>3. CASE s = "deferred"
    <3>1. job["deferred"].at = "kill" /\ UNCHANGED <<stage, queue, ended>> /\ Up
      BY <1>7, <2>3 DEF Kill
    <3>2. \A c \in Calls : Survives(c)' => c \in queue'["deferred"]
      BY <2>1, <2>3, <3>1 DEF Deferred, Ahead
    <3> QED
      BY <3>1, <3>2 DEF Deferred, Ahead, Up
  <2> QED
    BY <2>2, <2>3
<1>8. ASSUME NEW s \in Stoppers, SeesExit(s) \/ GraceOver(s) PROVE Deferred'
  <2>1. /\ job[s].at = "wait" /\ UNCHANGED <<stage, leader, child, queue, ended>> /\ Up
        /\ \E v : job' = [job EXCEPT ![s].at = v]
    BY <1>8 DEF SeesExit, GraceOver
  <2>2. CASE s # "deferred"
    <3>1. job'["deferred"] = job["deferred"]
      BY <2>1, <2>2
    <3> QED
      BY <2>1, <3>1, StillDeferred DEF Survives
  <2>3. CASE s = "deferred"
    BY <2>1, <2>3 DEF Deferred, Ahead, Survives, Up
  <2> QED
    BY <2>2, <2>3
<1>9. ASSUME NEW t \in Teardowns, StopNext(t) PROVE Deferred'
  <2>1. PICK c \in queue[t] :
          /\ queue' = [queue EXCEPT ![t] = @ \ {c}]
          /\ job' = IF KillNeeded(c)
                    THEN [job EXCEPT ![t] = [at |-> "kill", target |-> c]] ELSE job
    BY <1>9 DEF StopNext, Left
  <2>2. UNCHANGED <<stage, leader, child, ended>> /\ job[t].at = "next" /\ Up
    BY <1>9 DEF StopNext
  <2>3. CASE t # "deferred"
    <3>1. job'["deferred"] = job["deferred"] /\ queue'["deferred"] = queue["deferred"]
      BY <2>1, <2>3
    <3> QED
      BY <2>2, <3>1 DEF Deferred, Ahead, AllStopped, Survives, Up
  <2>4. CASE t = "deferred"
    <3>1. ASSUME NEW d \in Calls, Survives(d) PROVE Ahead(d)'
      <4>1. d \in queue["deferred"]
        BY <2>2, <2>4, <3>1 DEF Deferred, Ahead
      <4>2. CASE d # c
        BY <2>1, <2>4, <4>1, <4>2 DEF Ahead
      <4>3. CASE d = c
        <5>1. KillNeeded(c)
          BY <3>1, <4>3 DEF KillNeeded, Survives, Started
        <5> QED
          BY <2>1, <2>4, <4>3, <5>1 DEF Ahead
      <4> QED
        BY <4>2, <4>3
    <3> QED
      BY <2>2, <2>4, <3>1 DEF Deferred, Survives, Up
  <2> QED
    BY <2>3, <2>4
<1>10. CASE MainReturns
  <2>1. /\ \A c \in Calls : stage[c] \in {"idle", "returned"}
        /\ UNCHANGED <<stage, leader, child, ended>> /\ Up
        /\ queue'["deferred"] = Known
    BY <1>10 DEF MainReturns, MainRuns, NoToolRuns, Snapshot
  <2>2. \A c \in Calls : Survives(c) => c \in Known
    BY DEF Survives, Started, Known
  <2> QED
    BY <2>1, <2>2 DEF Deferred, Ahead, Survives, Up
<1>11. CASE SignalStopsAll
  <2>1. /\ UNCHANGED <<stage, leader, child, ended>> /\ Up
        /\ job'["deferred"] = job["deferred"] /\ queue'["deferred"] = queue["deferred"]
    BY <1>11 DEF SignalStopsAll, Snapshot
  <2> QED
    BY <2>1 DEF Deferred, Ahead, AllStopped, Survives, Up
<1>12. CASE MainExits \/ Fatal \/ Signal \/ SignalExits
  BY <1>12 DEF MainExits, Fatal, Signal, SignalExits, Deferred, Ahead, Survives, AllStopped
<1> HIDE DEF TypeOK
<1> QED
  BY <1>1, <1>2, <1>3, <1>4, <1>5, <1>6, <1>7, <1>8, <1>9, <1>10, <1>11, <1>12 DEF Next

\* Every step keeps the invariant.
LEMMA NextInv == Inv /\ [Next]_vars => Inv'
<1> SUFFICES ASSUME Inv, [Next]_vars PROVE Inv'
  OBVIOUS
<1>1. TypeOK /\ Started /\ Stopping /\ Deferred
  BY DEF Inv
<1>2. TypeOK' /\ Stopping' /\ Deferred'
  BY <1>1, NextType, NextStopping, NextDeferred
<1>3. Started'
  BY <1>1, NextStarted DEF Lasting
<1> QED
  BY <1>2, <1>3 DEF Inv

-----------------------------------------------------------------------------
\* The registry, the processes and their stoppers keep their types; a process
\* recorded as exited is not alive.
THEOREM TypeIsOK == Spec => []TypeOK
<1>1. Inv => TypeOK
  BY DEF Inv
<1> QED
  BY <1>1, InitInv, NextInv, PTL DEF Spec

\* A stop_background that answers "stopped" tells the truth: kill(-pid) reaches
\* nothing of that group any more, however many others stop, wait and tear down.
THEOREM StoppedIsGone == Spec => []StoppedMeansGone
<1>1. Inv => StoppedMeansGone
  BY Callers DEF Inv, Stopping, StoppedMeansGone, Survives, Gone
<1> QED
  BY <1>1, InitInv, NextInv, PTL DEF Spec

\* A main function that returns leaves nothing behind that kill(-pid) could reach,
\* however many processes there were and whatever the signal goroutine did.
THEOREM ReturningLeavesNothing == Spec => []ReturnLeavesNothing
<1>1. Inv => ReturnLeavesNothing
  <2>1. SUFFICES ASSUME Inv, ended = "returned", NEW c \in Calls PROVE ~Survives(c)
    BY DEF ReturnLeavesNothing
  <2>2. AllStopped("deferred") /\ Deferred
    BY <2>1 DEF Inv, Deferred
  <2>3. job["deferred"].at = "next" /\ queue["deferred"] = {}
    BY <2>2 DEF AllStopped
  <2>4. ~Ahead(c)
    BY <2>3 DEF Ahead
  <2> QED
    BY <2>2, <2>3, <2>4 DEF Deferred
<1> QED
  BY <1>1, InitInv, NextInv, PTL DEF Spec

-----------------------------------------------------------------------------
(***************************************************************************)
(* Least sets, and the ends of sets of numbers.                            *)
(***************************************************************************)
\* No set of T is smaller than U.
Minimal(U, T) == \A V \in T : V \subseteq U => V = U

\* Of some subsets of a finite set one is minimal.
LEMMA MinimalSubset ==
  ASSUME NEW S, IsFiniteSet(S), NEW T, T \subseteq SUBSET S, T # {}
  PROVE  \E U \in T : Minimal(U, T)
<1>1. IsWellFoundedOn(StrictSubsetOrdering(S), SUBSET S)
  BY FS_StrictSubsetOrderingWellFounded, FS_FiniteSubsetsOfFinite
<1>2. PICK U \in T : \A V \in T : ~(<<V, U>> \in StrictSubsetOrdering(S))
  BY <1>1, WFMin
<1>3. ASSUME NEW V \in T, V \subseteq U PROVE V = U
  BY <1>2, <1>3 DEF StrictSubsetOrdering
<1> QED
  BY <1>3 DEF Minimal

\* A finite set of numbers that is not empty has a greatest and a least element.
LEMMA Extremes ==
  ASSUME NEW S \in SUBSET Nat, IsFiniteSet(S), S # {}
  PROVE  /\ Max(S) \in S /\ \A j \in S : Max(S) >= j
         /\ Min(S) \in S /\ \A j \in S : Min(S) <= j
<1>1. \E m \in S : \A j \in S : m >= j
  <2> DEFINE Greater(i) == {j \in S : j > i}
             T == {Greater(i) : i \in S}
  <2>1. T \subseteq SUBSET S /\ T # {}
    OBVIOUS
  <2>2. PICK U \in T : Minimal(U, T)
    <3> HIDE DEF T
    <3> QED
      BY <2>1, MinimalSubset
  <2>3. PICK m \in S : U = Greater(m)
    BY <2>2
  <2>4. ASSUME NEW j \in S, j > m PROVE FALSE
    <3>1. Greater(j) \in T
      OBVIOUS
    <3>2. Greater(j) \subseteq Greater(m) /\ j \in Greater(m) /\ j \notin Greater(j)
      <4>1. \A i \in S : i \in Nat
        OBVIOUS
      <4>2. \A i \in S : i > j => i > m
        BY <2>4, <4>1
      <4>3. ~(j > j)
        BY <4>1
      <4> QED
        BY <2>4, <4>2, <4>3
    <3> HIDE DEF T
    <3>3. Greater(j) = Greater(m)
      BY <2>2, <2>3, <3>1, <3>2, Zenon DEF Minimal
    <3> QED
      BY <3>2, <3>3
  <2> QED
    BY <2>4
<1>2. \E m \in S : \A j \in S : m <= j
  <2> DEFINE Below1(i) == {j \in S : j < i}
             T == {Below1(i) : i \in S}
  <2>1. T \subseteq SUBSET S /\ T # {}
    OBVIOUS
  <2>2. PICK U \in T : Minimal(U, T)
    <3> HIDE DEF T
    <3> QED
      BY <2>1, MinimalSubset
  <2>3. PICK m \in S : U = Below1(m)
    BY <2>2
  <2>4. ASSUME NEW j \in S, j < m PROVE FALSE
    <3>1. Below1(j) \in T
      OBVIOUS
    <3>2. Below1(j) \subseteq Below1(m) /\ j \in Below1(m) /\ j \notin Below1(j)
      <4>1. \A i \in S : i \in Nat
        OBVIOUS
      <4>2. \A i \in S : i < j => i < m
        BY <2>4, <4>1
      <4>3. ~(j < j)
        BY <4>1
      <4> QED
        BY <2>4, <4>2, <4>3
    <3> HIDE DEF T
    <3>3. Below1(j) = Below1(m)
      BY <2>2, <2>3, <3>1, <3>2, Zenon DEF Minimal
    <3> QED
      BY <3>2, <3>3
  <2> QED
    BY <2>4
<1>3. Max(S) \in S /\ \A j \in S : Max(S) >= j
  BY <1>1 DEF Max
<1>4. Min(S) \in S /\ \A j \in S : Min(S) <= j
  BY <1>2 DEF Min
<1> QED
  BY <1>3, <1>4

\* ... which are the only ones.
LEMMA TheMax ==
  ASSUME NEW S \in SUBSET Nat, IsFiniteSet(S), NEW m \in S, \A j \in S : m >= j
  PROVE  Max(S) = m
<1>1. Max(S) \in S /\ Max(S) >= m
  BY Extremes
<1>2. m >= Max(S) /\ m \in Nat /\ Max(S) \in Nat
  BY <1>1
<1> QED
  BY <1>1, <1>2

-----------------------------------------------------------------------------
(***************************************************************************)
(* Folds.  FoldLeft of the community modules is a recursive function of    *)
(* the set of positions that are left.                                     *)
(***************************************************************************)
Fold(g, base, s) == FoldLeft(LAMBDA a, e : g[<<a, e>>], base, s)

\* What f says of the subsets of D.
Walk(f, g, base, s, D) ==
  \A S \in SUBSET D :
    f[S] = IF S = {} THEN base ELSE g[<<f[S \ {Max(S)}], s[Max(S)]>>]

\* A fold is determined by its steps.
LEMMA WalkUnique ==
  ASSUME NEW D \in SUBSET Nat, IsFiniteSet(D), NEW g, NEW base, NEW s1, NEW s2,
         \A i \in D : s1[i] = s2[i],
         NEW f1, Walk(f1, g, base, s1, D), NEW f2, Walk(f2, g, base, s2, D)
  PROVE  f1[D] = f2[D]
<1> DEFINE Bad == {S \in SUBSET D : f1[S] # f2[S]}
<1>1. SUFFICES ASSUME Bad # {} PROVE FALSE
  OBVIOUS
<1>2. PICK U \in Bad : Minimal(U, Bad)
  <2>1. Bad \subseteq SUBSET D
    OBVIOUS
  <2> HIDE DEF Bad
  <2> QED
    BY <1>1, <2>1, MinimalSubset
<1>3. U \in SUBSET D /\ U \in SUBSET Nat /\ IsFiniteSet(U) /\ f1[U] # f2[U]
  BY <1>2, FS_Subset
<1>4. CASE U = {}
  BY <1>3, <1>4 DEF Walk
<1>5. CASE U # {}
  <2>1. Max(U) \in U
    BY <1>3, <1>5, Extremes
  <2>2. U \ {Max(U)} \notin Bad
    <3>1. U \ {Max(U)} \subseteq U /\ U \ {Max(U)} # U
      BY <2>1
    <3> QED
      BY <3>1, <1>2, Zenon DEF Minimal
  <2>3. f1[U \ {Max(U)}] = f2[U \ {Max(U)}]
    BY <2>2, <1>3
  <2>4. s1[Max(U)] = s2[Max(U)]
    BY <2>1, <1>3
  <2>5. f1[U] = g[<<f1[U \ {Max(U)}], s1[Max(U)]>>] /\ f2[U] = g[<<f2[U \ {Max(U)}], s2[Max(U)]>>]
    BY <1>3, <1>5 DEF Walk
  <2> QED
    BY <2>3, <2>4, <2>5, <1>3
<1> QED
  BY <1>4, <1>5

\* A fold exists, whatever its steps.
LEMMA WalkExists ==
  ASSUME NEW D \in SUBSET Nat, IsFiniteSet(D), NEW B, NEW E, NEW base \in B,
         NEW g \in [B \X E -> B], NEW s, \A i \in D : s[i] \in E
  PROVE  \E f \in [SUBSET D -> B] : Walk(f, g, base, s, D)
<1> DEFINE Bad == {U \in SUBSET D : ~\E f \in [SUBSET U -> B] : Walk(f, g, base, s, U)}
<1>1. SUFFICES ASSUME Bad # {} PROVE FALSE
  OBVIOUS
<1>2. PICK U \in Bad : Minimal(U, Bad)
  <2>1. Bad \subseteq SUBSET D
    OBVIOUS
  <2> HIDE DEF Bad
  <2> QED
    BY <1>1, <2>1, MinimalSubset
<1>3. /\ U \in SUBSET D /\ U \in SUBSET Nat /\ IsFiniteSet(U)
      /\ ~\E f \in [SUBSET U -> B] : Walk(f, g, base, s, U)
  BY <1>2, FS_Subset
<1>4. CASE U = {}
  <2> DEFINE f == [S \in SUBSET U |-> base]
  <2>1. f \in [SUBSET U -> B] /\ Walk(f, g, base, s, U)
    BY <1>4 DEF Walk
  <2> QED
    BY <2>1, <1>3
<1>5. CASE U # {}
  <2> DEFINE x == Max(U)
  <2>1. x \in U /\ \A j \in U : x >= j
    BY <1>3, <1>5, Extremes
  <2> HIDE DEF x
  <2>2. U \ {x} \notin Bad
    <3>1. U \ {x} \subseteq U /\ U \ {x} # U
      BY <2>1
    <3> QED
      BY <3>1, <1>2, Zenon DEF Minimal
  <2>3. PICK h \in [SUBSET (U \ {x}) -> B] : Walk(h, g, base, s, U \ {x})
    BY <2>2, <1>3
  <2> DEFINE f == [S \in SUBSET U |-> IF x \in S THEN g[<<h[S \ {x}], s[x]>>] ELSE h[S]]
  <2>4. ASSUME NEW S \in SUBSET U, x \in S
        PROVE  S \ {x} \in SUBSET (U \ {x}) /\ h[S \ {x}] \in B /\ s[x] \in E
    BY <2>3, <2>4, <2>1, <1>3
  <2>5. ASSUME NEW S \in SUBSET U, x \notin S
        PROVE  S \in SUBSET (U \ {x}) /\ h[S] \in B
    BY <2>3, <2>5
  <2>6. f \in [SUBSET U -> B]
    BY <2>4, <2>5
  <2>7. ASSUME NEW S \in SUBSET U
        PROVE  f[S] = IF S = {} THEN base ELSE g[<<f[S \ {Max(S)}], s[Max(S)]>>]
    <3>1. CASE x \in S
      <4>1. Max(S) = x
        <5>1. S \in SUBSET Nat /\ IsFiniteSet(S) /\ \A j \in S : x >= j
          BY <1>3, <2>1, FS_Subset
        <5> QED
          BY <5>1, <3>1, TheMax
      <4>2. f[S \ {x}] = h[S \ {x}]
        OBVIOUS
      <4>3. f[S] = g[<<h[S \ {x}], s[x]>>]
        BY <3>1
      <4> HIDE DEF f
      <4> QED
        BY <3>1, <4>1, <4>2, <4>3
    <3>2. CASE x \notin S
      <4>1. f[S] = h[S] /\ \A y : f[S \ {y}] = h[S \ {y}]
        BY <3>2
      <4>2. h[S] = IF S = {} THEN base ELSE g[<<h[S \ {Max(S)}], s[Max(S)]>>]
        BY <2>3, <2>5, <3>2 DEF Walk
      <4> HIDE DEF f
      <4> QED
        BY <4>1, <4>2
    <3> QED
      BY <3>1, <3>2
  <2>8. Walk(f, g, base, s, U)
    <3> HIDE DEF f
    <3> QED
      BY <2>7 DEF Walk
  <2> QED
    BY <2>6, <2>8, <1>3
<1> QED
  BY <1>4, <1>5

\* A function that takes such steps from values in B is such a walk.
LEMMA WalkOfSteps ==
  ASSUME NEW D \in SUBSET Nat, IsFiniteSet(D), NEW B, NEW E, NEW base \in B,
         NEW g \in [B \X E -> B], NEW s, \A i \in D : s[i] \in E, NEW h, h[{}] = base,
         \A S \in SUBSET D : S # {} /\ h[S \ {Max(S)}] \in B
                            => h[S] = g[<<h[S \ {Max(S)}], s[Max(S)]>>]
  PROVE  Walk(h, g, base, s, D)
<1> DEFINE Bad == {S \in SUBSET D : h[S] \notin B}
<1>1. ASSUME NEW S \in SUBSET D, S # {}
      PROVE  Max(S) \in S /\ s[Max(S)] \in E /\ S \ {Max(S)} \in SUBSET D
  <2>1. S \in SUBSET Nat /\ IsFiniteSet(S)
    BY FS_Subset
  <2>2. Max(S) \in S
    BY <1>1, <2>1, Extremes
  <2> QED
    BY <2>2
<1>2. ASSUME Bad # {} PROVE FALSE
  <2>1. PICK U \in Bad : Minimal(U, Bad)
    <3>1. Bad \subseteq SUBSET D
      OBVIOUS
    <3> HIDE DEF Bad
    <3> QED
      BY <1>2, <3>1, MinimalSubset
  <2>2. U \in SUBSET D /\ h[U] \notin B /\ U # {}
    BY <2>1
  <2>3. U \ {Max(U)} \notin Bad
    <3>1. U \ {Max(U)} \subseteq U /\ U \ {Max(U)} # U
      BY <1>1, <2>2
    <3> QED
      BY <3>1, <2>1, Zenon DEF Minimal
  <2>4. h[U \ {Max(U)}] \in B /\ s[Max(U)] \in E
    BY <2>3, <2>2, <1>1
  <2>5. g[<<h[U \ {Max(U)}], s[Max(U)]>>] \in B
    BY <2>4
  <2> QED
    BY <2>2, <2>4, <2>5
<1>3. ASSUME NEW S \in SUBSET D
      PROVE  h[S] = IF S = {} THEN base ELSE g[<<h[S \ {Max(S)}], s[Max(S)]>>]
  <2>1. CASE S = {}
    BY <2>1
  <2>2. CASE S # {}
    <3>1. h[S \ {Max(S)}] \in B
      BY <1>1, <1>2, <2>2
    <3> QED
      BY <3>1, <2>2
  <2> QED
    BY <2>1, <2>2
<1> QED
  BY <1>3 DEF Walk

Steps(B, E) == [B \X E -> B]

Walked(g, base, s, B) ==
  \E f \in [SUBSET DOMAIN s -> B] :
     Walk(f, g, base, s, DOMAIN s) /\ Fold(g, base, s) = f[DOMAIN s]

\* A fold is where such a walk ends.
LEMMA FoldIsWalk ==
  ASSUME NEW B, NEW E, NEW base \in B, NEW g \in Steps(B, E), NEW s \in Seq(E)
  PROVE  Walked(g, base, s, B)
<1> DEFINE D == DOMAIN s
           Eq(f) == f = [S \in SUBSET D |->
                           IF S = {} THEN base ELSE g[<<f[S \ {Max(S)}], s[Max(S)]>>]]
<1>1. D \in SUBSET Nat /\ IsFiniteSet(D) /\ \A i \in D : s[i] \in E
  <2>1. D = 1..Len(s) /\ Len(s) \in Nat
    BY LenProperties
  <2>2. IsFiniteSet(1..Len(s))
    BY <2>1, FS_Interval
  <2>3. D \in SUBSET Nat
    BY <2>1
  <2>4. \A i \in 1..Len(s) : s[i] \in E
    BY ElementOfSeq
  <2> QED
    BY <2>1, <2>2, <2>3, <2>4, Zenon
<1> HIDE DEF D
<1>2. PICK f \in [SUBSET D -> B] : Walk(f, g, base, s, D)
  BY <1>1, WalkExists DEF Steps
<1>3. Eq(f)
  BY <1>2 DEF Walk
<1>4. Fold(g, base, s) = (CHOOSE h : Eq(h))[D]
  BY DEF Fold, FoldLeft, MapThenFoldSet, D
<1>5. Eq(CHOOSE h : Eq(h))
  <2> HIDE DEF Eq
  <2> QED
    BY <1>3
<1>6. ASSUME NEW h, Eq(h) PROVE Walk(h, g, base, s, D)
  BY <1>6, Zenon DEF Walk
<1>7. Walk(CHOOSE h : Eq(h), g, base, s, D)
  <2> HIDE DEF Eq
  <2> QED
    BY <1>5, <1>6
<1>8. (CHOOSE h : Eq(h))[D] = f[D]
  <2> HIDE DEF Eq
  <2> QED
    BY <1>1, <1>2, <1>7, WalkUnique
<1> QED
  BY <1>2, <1>4, <1>8 DEF D, Walked

\* What a fold computes, one element after the other.
Folds(g, base, B, E) ==
  /\ Fold(g, base, <<>>) = base
  /\ \A s \in Seq(E) : Fold(g, base, s) \in B
  /\ \A s \in Seq(E), e \in E : Fold(g, base, Append(s, e)) = g[<<Fold(g, base, s), e>>]

\* What a fold makes of nothing, of one element more, and where it stays.
LEMMA FoldStep ==
  ASSUME NEW B, NEW E, NEW base \in B, NEW g \in Steps(B, E)
  PROVE  Folds(g, base, B, E)
<1>0. ASSUME NEW s \in Seq(E)
      PROVE  \E f \in [SUBSET DOMAIN s -> B] :
               Walk(f, g, base, s, DOMAIN s) /\ Fold(g, base, s) = f[DOMAIN s]
  <2>1. Walked(g, base, s, B)
    BY FoldIsWalk
  <2> QED
    BY <2>1 DEF Walked
<1>1. Fold(g, base, <<>>) = base
  <2>1. <<>> \in Seq(E) /\ DOMAIN <<>> = {}
    OBVIOUS
  <2>2. PICK f : Walk(f, g, base, <<>>, {}) /\ Fold(g, base, <<>>) = f[{}]
    BY <2>1, <1>0
  <2> QED
    BY <2>2 DEF Walk
<1>2. ASSUME NEW s \in Seq(E) PROVE Fold(g, base, s) \in B
  <2>1. PICK f \in [SUBSET DOMAIN s -> B] : Fold(g, base, s) = f[DOMAIN s]
    BY <1>0
  <2> QED
    BY <2>1
<1>3. ASSUME NEW s \in Seq(E), NEW e \in E
      PROVE  Fold(g, base, Append(s, e)) = g[<<Fold(g, base, s), e>>]
  <2>1. PICK x : x = Len(s) + 1 /\ x \in Nat
    BY LenProperties
  <2>2. PICK D : D = DOMAIN s /\ D = 1..(x - 1) /\ x \notin D /\ D \cup {x} = 1..x
    BY <2>1, LenProperties
  <2>3. PICK r \in Seq(E) : r = Append(s, e)
    BY AppendProperties
  <2>4. DOMAIN r = D \cup {x} /\ r[x] = e /\ \A i \in D : r[i] = s[i]
    BY <2>1, <2>2, <2>3, AppendProperties, LenProperties
  <2>5. IsFiniteSet(D) /\ IsFiniteSet(D \cup {x})
    <3>1. IsFiniteSet(1..(x - 1)) /\ IsFiniteSet(1..x)
      BY <2>1, FS_Interval
    <3> QED
      BY <3>1, <2>1, <2>2, Zenon
  <2>6. PICK f : Walk(f, g, base, s, D) /\ Fold(g, base, s) = f[D]
    BY <2>2, <1>0
  <2>7. PICK h : Walk(h, g, base, r, D \cup {x}) /\ Fold(g, base, r) = h[D \cup {x}]
    <3>1. PICK h : Walk(h, g, base, r, DOMAIN r) /\ Fold(g, base, r) = h[DOMAIN r]
      BY <1>0, Zenon
    <3>2. DOMAIN r = D \cup {x}
      BY <2>4
    <3> QED
      BY <3>1, <3>2, Zenon
  <2>8. Max(D \cup {x}) = x
    <3>1. D \cup {x} \in SUBSET Nat /\ x \in D \cup {x} /\ \A j \in D \cup {x} : x >= j
      BY <2>1, <2>2
    <3> QED
      BY <3>1, <2>5, TheMax
  <2>9. h[D \cup {x}] = g[<<h[D], e>>]
    <3>1. (D \cup {x}) \ {x} = D /\ D \cup {x} # {}
      BY <2>2
    <3> QED
      BY <2>7, <2>8, <2>4, <3>1 DEF Walk
  <2>10. Walk(h, g, base, r, D)
    BY <2>7 DEF Walk
  <2>11. h[D] = f[D]
    <3>1. D \in SUBSET Nat
      BY <2>1, <2>2
    <3> QED
      BY <3>1, <2>4, <2>5, <2>6, <2>10, WalkUnique
  <2> QED
    BY <2>3, <2>6, <2>7, <2>9, <2>11
<1> QED
  BY <1>1, <1>2, <1>3 DEF Folds

(***************************************************************************)
(* Induction over sequences and numbers, for a set in place of a property. *)
(***************************************************************************)
LEMMA SeqInduction ==
  ASSUME NEW E, NEW P, <<>> \in P,
         \A s \in Seq(E), e \in E : s \in P => Append(s, e) \in P
  PROVE  \A s \in Seq(E) : s \in P
<1> SUFFICES ASSUME NEW s \in Seq(E), s \notin P PROVE FALSE
  OBVIOUS
<1> DEFINE K == {k \in 0..Len(s) : SubSeq(s, 1, k) \notin P}
<1>1. Len(s) \in Nat
  BY LenProperties
<1>2. Len(s) \in K /\ 0 \notin K
  <2>1. SubSeq(s, 1, Len(s)) = s /\ SubSeq(s, 1, 0) = <<>>
    BY SubSeqFull, SubSeqEmpty
  <2>2. Len(s) \in 0..Len(s)
    BY <1>1
  <2>3. SubSeq(s, 1, 0) \in P /\ SubSeq(s, 1, Len(s)) \notin P
    BY <2>1
  <2> QED
    BY <2>2, <2>3
<1>3. K \in SUBSET Nat /\ IsFiniteSet(K)
  <2>1. IsFiniteSet(0..Len(s)) /\ K \subseteq 0..Len(s)
    BY <1>1, FS_Interval
  <2> QED
    BY <2>1, FS_Subset
<1>4. PICK m \in K : \A j \in K : m <= j
  BY <1>2, <1>3, Extremes
<1>5. m \in 1..Len(s) /\ SubSeq(s, 1, m) \notin P
  BY <1>2, <1>4
<1>6. m - 1 \notin K
  BY <1>3, <1>4, <1>5
<1>7. SubSeq(s, 1, m - 1) \in P /\ SubSeq(s, 1, m - 1) \in Seq(E) /\ s[m] \in E
  BY <1>5, <1>6, SubSeqProperties, ElementOfSeq
<1>8. SubSeq(s, 1, m) = Append(SubSeq(s, 1, m - 1), s[m])
  BY <1>5, SubSeqRecursiveSecond
<1> QED
  BY <1>5, <1>7, <1>8

-----------------------------------------------------------------------------
(***************************************************************************)
(* Texts and lines.                                                        *)
(***************************************************************************)
\* A character is some string, the newline and the one LineNumbersAgree writes too.
Char == STRING \cup {"n", "x"}
Plain == Char \ {"n"}
Split == Seq(Seq(Plain)) \ {<<>>}

LineStep ==
  [z \in Split \X Char |-> IF z[2] = "n" THEN Append(z[1], <<>>)
                            ELSE Append(Front(z[1]), Append(Last(z[1]), z[2]))]

\* A step of strings.Split stays among texts without newlines.
LEMMA LineSteps == LineStep \in Steps(Split, Char) /\ <<<<>>>> \in Split
<1>1. ASSUME NEW ls \in Split, NEW c \in Char
      PROVE  /\ Append(ls, <<>>) \in Split
             /\ c # "n" => Append(Front(ls), Append(Last(ls), c)) \in Split
  <2>1. Len(ls) \in Nat /\ Len(ls) # 0
    BY DEF Split
  <2>2. Last(ls) \in Seq(Plain) /\ Front(ls) \in Seq(Seq(Plain))
    BY <2>1 DEF Split, Last, Front
  <2>3. <<>> \in Seq(Plain) /\ (c # "n" => Append(Last(ls), c) \in Seq(Plain))
    BY <2>2, EmptySeq, AppendProperties DEF Plain
  <2>4. ASSUME NEW ks \in Seq(Seq(Plain)), NEW l \in Seq(Plain) PROVE Append(ks, l) \in Split
    BY AppendProperties DEF Split
  <2> QED
    BY <2>2, <2>3, <2>4 DEF Split
<1>2. LineStep \in [Split \X Char -> Split]
  BY <1>1 DEF LineStep
<1>3. <<<<>>>> \in Split
  BY DEF Split
<1> QED
  BY <1>2, <1>3 DEF Steps

\* Lines is the fold of that step.
LEMMA LinesIsFold == \A t \in Seq(Char) : Lines(t) = Fold(LineStep, <<<<>>>>, t)
<1> SUFFICES ASSUME NEW t \in Seq(Char) PROVE Lines(t) = Fold(LineStep, <<<<>>>>, t)
  OBVIOUS
<1> DEFINE D == DOMAIN t
           Eq(h) == h = [S \in SUBSET D |->
                           IF S = {} THEN <<<<>>>>
                           ELSE IF t[Max(S)] = "n" THEN Append(h[S \ {Max(S)}], <<>>)
                                ELSE Append(Front(h[S \ {Max(S)}]),
                                            Append(Last(h[S \ {Max(S)}]), t[Max(S)]))]
<1>1. D \in SUBSET Nat /\ IsFiniteSet(D) /\ \A i \in D : t[i] \in Char
  <2>1. D = 1..Len(t) /\ Len(t) \in Nat
    BY LenProperties
  <2>2. IsFiniteSet(1..Len(t))
    BY <2>1, FS_Interval
  <2>3. D \in SUBSET Nat
    BY <2>1
  <2>4. \A i \in 1..Len(t) : t[i] \in Char
    BY ElementOfSeq
  <2> QED
    BY <2>1, <2>2, <2>3, <2>4, Zenon
<1>2. PICK f \in [SUBSET D -> Split] :
        Walk(f, LineStep, <<<<>>>>, t, D) /\ Fold(LineStep, <<<<>>>>, t) = f[D]
  <2>1. Walked(LineStep, <<<<>>>>, t, Split)
    BY LineSteps, FoldIsWalk
  <2> QED
    BY <2>1 DEF Walked
<1>3. Lines(t) = (CHOOSE h : Eq(h))[D]
  BY DEF Lines, FoldLeft, MapThenFoldSet
<1> HIDE DEF D
<1>9. ASSUME NEW S \in SUBSET D, S # {}
      PROVE  Max(S) \in S /\ S \ {Max(S)} \in SUBSET D /\ t[Max(S)] \in Char
  <2>1. S \in SUBSET Nat /\ IsFiniteSet(S)
    BY <1>1, FS_Subset
  <2>2. Max(S) \in S
    BY <1>9, <2>1, Extremes
  <2> QED
    BY <2>2, <1>1
<1>4. Eq(f)
  <2>2. ASSUME NEW S \in SUBSET D, S # {}
        PROVE  f[S] = IF t[Max(S)] = "n" THEN Append(f[S \ {Max(S)}], <<>>)
                      ELSE Append(Front(f[S \ {Max(S)}]), Append(Last(f[S \ {Max(S)}]), t[Max(S)]))
    <3>1. f[S] = LineStep[<<f[S \ {Max(S)}], t[Max(S)]>>]
      BY <1>2, <2>2 DEF Walk
    <3>2. f[S \ {Max(S)}] \in Split /\ t[Max(S)] \in Char
      BY <1>9, <2>2
    <3> QED
      BY <3>1, <3>2 DEF LineStep
  <2>3. f[{}] = <<<<>>>>
    BY <1>2 DEF Walk
  <2> QED
    BY <2>2, <2>3
<1>5. Eq(CHOOSE h : Eq(h))
  <2> HIDE DEF Eq
  <2> QED
    BY <1>4
<1>6. ASSUME NEW h, Eq(h) PROVE Walk(h, LineStep, <<<<>>>>, t, D)
  <2>1. h[{}] = <<<<>>>>
    BY <1>6
  <2>2. ASSUME NEW S \in SUBSET D, S # {}, h[S \ {Max(S)}] \in Split
        PROVE  h[S] = LineStep[<<h[S \ {Max(S)}], t[Max(S)]>>]
    <3>1. h[S] = IF t[Max(S)] = "n" THEN Append(h[S \ {Max(S)}], <<>>)
                 ELSE Append(Front(h[S \ {Max(S)}]), Append(Last(h[S \ {Max(S)}]), t[Max(S)]))
      BY <1>6, <2>2
    <3> QED
      BY <3>1, <2>2, <1>9 DEF LineStep
  <2>3. LineStep \in [Split \X Char -> Split] /\ <<<<>>>> \in Split
    BY LineSteps DEF Steps
  <2> HIDE DEF Eq
  <2> QED
    BY <1>1, <2>1, <2>2, <2>3, WalkOfSteps
<1>7. Walk(CHOOSE h : Eq(h), LineStep, <<<<>>>>, t, D)
  <2> HIDE DEF Eq
  <2> QED
    BY <1>5, <1>6
<1>8. (CHOOSE h : Eq(h))[D] = f[D]
  <2> HIDE DEF Eq
  <2> QED
    BY <1>1, <1>2, <1>7, WalkUnique
<1> QED
  BY <1>2, <1>3, <1>8

\* Lines, a character at a time.
LEMMA LinesStep ==
  /\ Lines(<<>>) = <<<<>>>>
  /\ \A t \in Seq(Char) : Lines(t) \in Split
  /\ \A t \in Seq(Char), c \in Char :
       Lines(Append(t, c)) = IF c = "n" THEN Append(Lines(t), <<>>)
                             ELSE Append(Front(Lines(t)), Append(Last(Lines(t)), c))
<1>1. /\ Fold(LineStep, <<<<>>>>, <<>>) = <<<<>>>>
      /\ \A t \in Seq(Char) : Fold(LineStep, <<<<>>>>, t) \in Split
      /\ \A t \in Seq(Char), c \in Char :
           Fold(LineStep, <<<<>>>>, Append(t, c)) = LineStep[<<Fold(LineStep, <<<<>>>>, t), c>>]
  <2>1. PICK b \in Split : b = <<<<>>>>
    BY LineSteps
  <2>2. /\ Fold(LineStep, b, <<>>) = b
        /\ \A t \in Seq(Char) : Fold(LineStep, b, t) \in Split
        /\ \A t \in Seq(Char), c \in Char :
             Fold(LineStep, b, Append(t, c)) = LineStep[<<Fold(LineStep, b, t), c>>]
    <3>1. Folds(LineStep, b, Split, Char)
      BY LineSteps, FoldStep
    <3> QED
      BY <3>1 DEF Folds
  <2> QED
    BY <2>1, <2>2
<1>2. <<>> \in Seq(Char) /\ \A t \in Seq(Char), c \in Char : Append(t, c) \in Seq(Char)
  BY EmptySeq, AppendProperties
<1>3. ASSUME NEW t \in Seq(Char), NEW c \in Char
      PROVE  Lines(Append(t, c)) = LineStep[<<Lines(t), c>>] /\ Lines(t) \in Split
  BY <1>1, <1>2, LinesIsFold
<1>4. ASSUME NEW t \in Seq(Char), NEW c \in Char
      PROVE  Lines(Append(t, c)) = IF c = "n" THEN Append(Lines(t), <<>>)
                             ELSE Append(Front(Lines(t)), Append(Last(Lines(t)), c))
  <2>1. LineStep[<<Lines(t), c>>] = IF c = "n" THEN Append(Lines(t), <<>>)
                             ELSE Append(Front(Lines(t)), Append(Last(Lines(t)), c))
    BY <1>3 DEF LineStep
  <2> QED
    BY <2>1, <1>3
<1>5. \A t \in Seq(Char) : Lines(t) \in Split
  BY <1>1, LinesIsFold
<1>6. Lines(<<>>) = <<<<>>>>
  BY <1>1, <1>2, LinesIsFold
<1> QED
  BY <1>4, <1>5, <1>6

\* A sequence that is not empty is what comes before its last element, and that.
LEMMA FrontAndLast ==
  ASSUME NEW E, NEW s \in Seq(E)
  PROVE  /\ \A e \in E : Front(Append(s, e)) = s /\ Last(Append(s, e)) = e
         /\ s # <<>> => Front(s) \in Seq(E) /\ Last(s) \in E /\ Append(Front(s), Last(s)) = s
<1>1. ASSUME NEW e \in E PROVE Front(Append(s, e)) = s /\ Last(Append(s, e)) = e
  BY DEF Front, Last
<1>2. ASSUME s # <<>> PROVE Front(s) \in Seq(E) /\ Last(s) \in E /\ Append(Front(s), Last(s)) = s
  <2>1. Len(s) \in Nat /\ Len(s) # 0
    BY <1>2
  <2>2. Front(s) \in Seq(E) /\ Last(s) \in E
    BY <2>1 DEF Front, Last
  <2>3. Append(Front(s), Last(s)) = s
    BY <2>1 DEF Front, Last
  <2> QED
    BY <2>2, <2>3
<1> QED
  BY <1>1, <1>2

\* A piece without newlines makes the last line longer.
LEMMA LinesOfPlain ==
  ASSUME NEW w \in Seq(Char)
  PROVE  \A v \in Seq(Plain) : Lines(w \o v) = Append(Front(Lines(w)), Last(Lines(w)) \o v)
<1> DEFINE P == {v \in Seq(Plain) :
                   Lines(w \o v) = Append(Front(Lines(w)), Last(Lines(w)) \o v)}
           F == Front(Lines(w))
           L == Last(Lines(w))
<1>1. /\ Lines(w) \in Split /\ F \in Seq(Seq(Plain)) /\ L \in Seq(Plain) /\ Append(F, L) = Lines(w)
  BY LinesStep, FrontAndLast DEF Split
<1> HIDE DEF F, L
<1>2. <<>> \in P
  <2>1. w \o <<>> = w /\ L \o <<>> = L
    BY <1>1
  <2> QED
    BY <1>1, <2>1, EmptySeq DEF F, L
<1>3. ASSUME NEW v \in Seq(Plain), NEW c \in Plain, v \in P PROVE Append(v, c) \in P
  <2>1. Append(v, c) \in Seq(Plain) /\ v \in Seq(Char) /\ c \in Char /\ c # "n"
    BY AppendProperties DEF Plain
  <2>2. w \o v \in Seq(Char) /\ w \o Append(v, c) = Append(w \o v, c)
    BY <2>1
  <2>3. L \o v \in Seq(Plain) /\ L \o Append(v, c) = Append(L \o v, c)
    BY <1>1
  <2>4. Lines(w \o v) = Append(F, L \o v)
    BY <1>3 DEF F, L
  <2>5. Front(Lines(w \o v)) = F /\ Last(Lines(w \o v)) = L \o v
    <3>1. PICK x \in Seq(Plain) : x = L \o v
      BY <2>3
    <3>2. Front(Append(F, x)) = F /\ Last(Append(F, x)) = x
      <4>1. F \in Seq(Seq(Plain))
        BY <1>1
      <4>2. \A y \in Seq(Plain) : Front(Append(F, y)) = F /\ Last(Append(F, y)) = y
        BY <4>1, FrontAndLast, Zenon
      <4> QED
        BY <4>2
    <3> QED
      BY <2>4, <3>1, <3>2
  <2>6. Lines(Append(w \o v, c)) = Append(F, Append(L \o v, c))
    BY <2>1, <2>2, <2>5, LinesStep
  <2> QED
    BY <2>1, <2>2, <2>3, <2>6 DEF F, L
<1>4. \A v \in Seq(Plain) : v \in P
  <2> HIDE DEF P
  <2> QED
    BY <1>2, <1>3, SeqInduction
<1> QED
  BY <1>4

\* A text without newlines is its own only line.
LEMMA PlainHasOneLine == \A l \in Seq(Plain) : Lines(l) = <<l>>
<1> SUFFICES ASSUME NEW l \in Seq(Plain) PROVE Lines(l) = <<l>>
  OBVIOUS
<1>1. <<>> \in Seq(Char) /\ Lines(<<>>) = <<<<>>>>
  BY EmptySeq, LinesStep
<1>2. Lines(<<>> \o l) = Append(Front(Lines(<<>>)), Last(Lines(<<>>)) \o l)
  BY <1>1, LinesOfPlain
<1>3. Front(<<<<>>>>) = <<>> /\ Last(<<<<>>>>) = <<>>
  BY DEF Front, Last
<1>4. <<>> \o l = l /\ Append(<<>>, l) = <<l>>
  OBVIOUS
<1> QED
  BY <1>1, <1>2, <1>3, <1>4

\* Such a text is a text.
LEMMA PlainIsText == \A l \in Seq(Plain) : l \in Seq(Char)
<1>1. Plain \subseteq Char
  BY DEF Plain
<1> QED
  BY <1>1, SeqMonotonic

JoinStep == [z \in Seq(Char) \X Seq(Plain) |-> z[1] \o <<"n">> \o z[2]]

\* A step of strings.Join makes a text.
LEMMA JoinSteps == JoinStep \in Steps(Seq(Char), Seq(Plain))
<1>1. ASSUME NEW a \in Seq(Char), NEW l \in Seq(Plain) PROVE a \o <<"n">> \o l \in Seq(Char)
  <2>1. l \in Seq(Char) /\ <<"n">> \in Seq(Char)
    <3>1. "n" \in Char
      BY DEF Char
    <3> QED
      BY <3>1, PlainIsText
  <2>2. a \o <<"n">> \in Seq(Char)
    BY <2>1, ConcatProperties
  <2> QED
    BY <2>1, <2>2, ConcatProperties
<1> QED
  BY <1>1 DEF JoinStep, Steps

\* Join is the fold of that step.
LEMMA JoinIsFold == \A ls \in Split : Join(ls) = Fold(JoinStep, Head(ls), Tail(ls))
<1> SUFFICES ASSUME NEW ls \in Split PROVE Join(ls) = Fold(JoinStep, Head(ls), Tail(ls))
  OBVIOUS
<1>0. PICK b, t : b = Head(ls) /\ t = Tail(ls) /\ b \in Seq(Char) /\ t \in Seq(Seq(Plain))
  <2>1. Head(ls) \in Seq(Plain) /\ Tail(ls) \in Seq(Seq(Plain))
    BY HeadTailProperties DEF Split
  <2> QED
    BY <2>1, PlainIsText
<1> DEFINE D == DOMAIN t
           Eq(h) == h = [S \in SUBSET D |-> IF S = {} THEN b
                                            ELSE h[S \ {Max(S)}] \o <<"n">> \o t[Max(S)]]
<1>1. D \in SUBSET Nat /\ IsFiniteSet(D) /\ \A i \in D : t[i] \in Seq(Plain)
  <2>1. D = 1..Len(t) /\ Len(t) \in Nat
    BY <1>0, LenProperties
  <2> QED
    <3>1. IsFiniteSet(D) /\ D \in SUBSET Nat
      BY <2>1, FS_Interval
    <3>2. \A i \in D : t[i] \in Seq(Plain)
      BY <1>0, <2>1, ElementOfSeq
    <3> QED
      BY <3>1, <3>2
<1>2. PICK f \in [SUBSET D -> Seq(Char)] :
        Walk(f, JoinStep, b, t, D) /\ Fold(JoinStep, b, t) = f[D]
  <2>1. Walked(JoinStep, b, t, Seq(Char))
    BY <1>0, JoinSteps, FoldIsWalk
  <2> QED
    BY <2>1 DEF Walked
<1>3. Join(ls) = (CHOOSE h : Eq(h))[D]
  BY <1>0 DEF Join, FoldLeft, MapThenFoldSet
<1> HIDE DEF D
<1>4. ASSUME NEW S \in SUBSET D, S # {}
      PROVE  Max(S) \in S /\ S \ {Max(S)} \in SUBSET D /\ t[Max(S)] \in Seq(Plain)
  <2>1. S \in SUBSET Nat /\ IsFiniteSet(S)
    BY <1>1, FS_Subset
  <2>2. Max(S) \in S
    BY <1>4, <2>1, Extremes
  <2> QED
    BY <2>2, <1>1
<1>5. Eq(f)
  <2>1. ASSUME NEW S \in SUBSET D, S # {}
        PROVE  f[S] = f[S \ {Max(S)}] \o <<"n">> \o t[Max(S)]
    <3>1. f[S] = JoinStep[<<f[S \ {Max(S)}], t[Max(S)]>>]
      BY <1>2, <2>1 DEF Walk
    <3>2. f[S \ {Max(S)}] \in Seq(Char) /\ t[Max(S)] \in Seq(Plain)
      BY <1>4, <2>1
    <3> QED
      BY <3>1, <3>2 DEF JoinStep
  <2>2. f[{}] = b
    BY <1>2 DEF Walk
  <2> QED
    BY <2>1, <2>2
<1>6. Eq(CHOOSE h : Eq(h))
  <2> HIDE DEF Eq
  <2> QED
    BY <1>5
<1>7. ASSUME NEW h, Eq(h) PROVE Walk(h, JoinStep, b, t, D)
  <2>1. h[{}] = b
    BY <1>7
  <2>2. ASSUME NEW S \in SUBSET D, S # {}, h[S \ {Max(S)}] \in Seq(Char)
        PROVE  h[S] = JoinStep[<<h[S \ {Max(S)}], t[Max(S)]>>]
    <3>1. h[S] = h[S \ {Max(S)}] \o <<"n">> \o t[Max(S)]
      BY <1>7, <2>2
    <3> QED
      BY <3>1, <2>2, <1>4 DEF JoinStep
  <2>3. JoinStep \in [Seq(Char) \X Seq(Plain) -> Seq(Char)] /\ b \in Seq(Char)
    BY <1>0, JoinSteps DEF Steps
  <2> HIDE DEF Eq
  <2> QED
    BY <1>1, <2>1, <2>2, <2>3, WalkOfSteps
<1>8. Walk(CHOOSE h : Eq(h), JoinStep, b, t, D)
  <2> HIDE DEF Eq
  <2> QED
    BY <1>6, <1>7
<1>9. (CHOOSE h : Eq(h))[D] = f[D]
  <2> HIDE DEF Eq
  <2> QED
    BY <1>1, <1>2, <1>8, WalkUnique
<1> QED
  BY <1>0, <1>2, <1>3, <1>9

\* Join, a line at a time.
LEMMA JoinOfAppend ==
  /\ \A l \in Seq(Plain) : Join(<<l>>) = l
  /\ \A ls \in Split : Join(ls) \in Seq(Char)
  /\ \A ls \in Split, l \in Seq(Plain) : Join(Append(ls, l)) = Join(ls) \o <<"n">> \o l
<1>1. ASSUME NEW b \in Seq(Char) PROVE Folds(JoinStep, b, Seq(Char), Seq(Plain))
  BY JoinSteps, FoldStep
<1>2. ASSUME NEW l \in Seq(Plain) PROVE Join(<<l>>) = l
  <2>1. <<l>> \in Split /\ Head(<<l>>) = l /\ Tail(<<l>>) = <<>> /\ l \in Seq(Char)
    BY PlainIsText DEF Split
  <2>2. Fold(JoinStep, l, <<>>) = l
    BY <2>1, <1>1 DEF Folds
  <2> QED
    BY <2>1, <2>2, JoinIsFold
<1>3. ASSUME NEW ls \in Split
      PROVE  Join(ls) \in Seq(Char) /\ Head(ls) \in Seq(Char) /\ Tail(ls) \in Seq(Seq(Plain))
  <2>1. Head(ls) \in Seq(Plain) /\ Tail(ls) \in Seq(Seq(Plain))
    BY HeadTailProperties DEF Split
  <2>2. Head(ls) \in Seq(Char)
    BY <2>1, PlainIsText
  <2>3. Fold(JoinStep, Head(ls), Tail(ls)) \in Seq(Char)
    BY <2>1, <2>2, <1>1 DEF Folds
  <2> QED
    BY <2>1, <2>2, <2>3, JoinIsFold
<1>4. ASSUME NEW ls \in Split, NEW l \in Seq(Plain)
      PROVE  Join(Append(ls, l)) = Join(ls) \o <<"n">> \o l
  <2>1. /\ Append(ls, l) \in Split /\ Head(Append(ls, l)) = Head(ls)
        /\ Tail(Append(ls, l)) = Append(Tail(ls), l)
    BY AppendProperties, HeadTailAppend DEF Split
  <2>2. PICK b \in Seq(Char), t \in Seq(Seq(Plain)) : b = Head(ls) /\ t = Tail(ls)
    BY <1>3
  <2>3. Fold(JoinStep, b, t) \in Seq(Char)
    BY <1>1 DEF Folds
  <2>4. Fold(JoinStep, b, Append(t, l)) = JoinStep[<<Fold(JoinStep, b, t), l>>]
    BY <1>1 DEF Folds
  <2>5. JoinStep[<<Fold(JoinStep, b, t), l>>] = Fold(JoinStep, b, t) \o <<"n">> \o l
    BY <2>3 DEF JoinStep
  <2>6. Join(ls) = Fold(JoinStep, b, t) /\ Join(Append(ls, l)) = Fold(JoinStep, b, Append(t, l))
    BY <2>1, <2>2, JoinIsFold
  <2> QED
    BY <2>4, <2>5, <2>6
<1> QED
  BY <1>2, <1>3, <1>4

\* Splitting undoes joining: what strings.Join puts together of lines, strings.Split
\* takes apart into the same lines, so patch_lines writes the lines it means to.
THEOREM LinesOfJoin == \A ls \in Split : Lines(Join(ls)) = ls
<1> DEFINE P == {ls \in Seq(Seq(Plain)) : ls = <<>> \/ Lines(Join(ls)) = ls}
<1>1. <<>> \in P
  BY EmptySeq
<1>2. ASSUME NEW ls \in Seq(Seq(Plain)), NEW l \in Seq(Plain), ls \in P PROVE Append(ls, l) \in P
  <2>0. Append(ls, l) \in Seq(Seq(Plain))
    BY AppendProperties
  <2>1. CASE ls = <<>>
    <3>1. Append(ls, l) = <<l>>
      BY <2>1
    <3>2. Lines(Join(<<l>>)) = <<l>>
      BY JoinOfAppend, PlainHasOneLine
    <3> QED
      BY <2>0, <3>1, <3>2
  <2>2. CASE ls # <<>>
    <3>1. PICK u \in Seq(Char) : u = Join(ls) /\ Lines(u) = ls /\ ls \in Split
      BY <1>2, <2>2, JoinOfAppend DEF Split
    <3>2. PICK w \in Seq(Char) : w = Append(u, "n")
      <4>1. "n" \in Char
        BY DEF Char
      <4> QED
        BY <4>1, AppendProperties
    <3>3. Lines(w) = Append(ls, <<>>)
      BY <3>1, <3>2, LinesStep
    <3>4. Front(Lines(w)) = ls /\ Last(Lines(w)) = <<>>
      <4>1. PICK e \in Seq(Plain) : e = <<>>
        BY EmptySeq
      <4>2. Front(Append(ls, e)) = ls /\ Last(Append(ls, e)) = e
        BY <3>1, FrontAndLast DEF Split
      <4> QED
        BY <3>3, <4>1, <4>2
    <3>5. Lines(w \o l) = Append(ls, <<>> \o l)
      BY <3>4, LinesOfPlain
    <3>6. <<>> \o l = l /\ u \o <<"n">> \o l = w \o l
      BY <3>2, AppendIsConcat
    <3>7. Join(Append(ls, l)) = w \o l
      BY <3>1, <3>6, JoinOfAppend
    <3> QED
      BY <2>0, <3>5, <3>6, <3>7
  <2> QED
    BY <2>1, <2>2
<1>3. \A ls \in Seq(Seq(Plain)) : ls \in P
  <2> HIDE DEF P
  <2> QED
    BY <1>1, <1>2, SeqInduction
<1> QED
  BY <1>3 DEF Split

-----------------------------------------------------------------------------
(***************************************************************************)
(* Paths.                                                                  *)
(***************************************************************************)
Path == Seq(STRING)

\* The root and the nodes are paths, and no node is the empty one.
LEMMA NodesArePaths == Root \in Path /\ \A n \in Nodes : n \in Path /\ n # <<>>
BY PathAssumption DEF Path

\* A path is within another when it begins with it.
LEMMA WithinMeans ==
  ASSUME NEW p \in Path, NEW d \in Path
  PROVE  Within(p, d) <=> Len(d) <= Len(p) /\ \A i \in 1..Len(d) : p[i] = d[i]
<1>1. Len(p) \in Nat /\ Len(d) \in Nat
  BY DEF Path
<1>2. SubSeq(d, 1, Len(d)) = d
  BY SubSeqFull DEF Path
<1>3. CASE Len(d) <= Len(p)
  <2>1. PICK u \in Path : /\ u = SubSeq(p, 1, Len(d)) /\ Len(u) = Len(d)
                         /\ \A i \in 1..Len(d) : u[i] = p[i]
    <3>1. \A i \in 1..Len(d) : p[i] \in STRING
      BY <1>1, <1>3 DEF Path
    <3>2. /\ SubSeq(p, 1, Len(d)) \in Seq(STRING)
          /\ Len(SubSeq(p, 1, Len(d))) = IF 1 <= Len(d) THEN Len(d) - 1 + 1 ELSE 0
          /\ \A i \in 1..(Len(d) - 1 + 1) : SubSeq(p, 1, Len(d))[i] = p[1 + i - 1]
      BY <1>1, <3>1, SubSeqProperties
    <3>3. Len(SubSeq(p, 1, Len(d))) = Len(d) /\ \A i \in 1..Len(d) : SubSeq(p, 1, Len(d))[i] = p[i]
      BY <1>1, <3>2
    <3> QED
      BY <3>2, <3>3 DEF Path
  <2>2. u = d <=> \A i \in 1..Len(d) : u[i] = d[i]
    BY <2>1, SeqEqual DEF Path
  <2> QED
    BY <1>2, <1>3, <2>1, <2>2 DEF Within, IsPrefix
<1>4. CASE ~(Len(d) <= Len(p))
  BY <1>4 DEF Within, IsPrefix
<1> QED
  BY <1>3, <1>4

\* Within is a partial order.
LEMMA WithinOrder ==
  /\ \A p \in Path : Within(p, p)
  /\ \A p, q, r \in Path : Within(p, q) /\ Within(q, r) => Within(p, r)
  /\ \A p, q \in Path : Within(p, q) /\ Len(p) <= Len(q) => p = q
<1>1. ASSUME NEW p \in Path PROVE Within(p, p)
  <2>1. Len(p) \in Nat
    BY DEF Path
  <2> QED
    BY <2>1, WithinMeans
<1>2. ASSUME NEW p \in Path, NEW q \in Path, NEW r \in Path, Within(p, q), Within(q, r)
      PROVE  Within(p, r)
  <2>1. /\ Len(p) \in Nat /\ Len(q) \in Nat /\ Len(r) \in Nat
        /\ Len(q) <= Len(p) /\ Len(r) <= Len(q)
        /\ \A i \in 1..Len(q) : p[i] = q[i]
        /\ \A i \in 1..Len(r) : q[i] = r[i]
    BY <1>2, WithinMeans DEF Path
  <2>2. Len(r) <= Len(p) /\ \A i \in 1..Len(r) : i \in 1..Len(q)
    BY <2>1
  <2> QED
    BY <2>1, <2>2, WithinMeans
<1>3. ASSUME NEW p \in Path, NEW q \in Path, Within(p, q), Len(p) <= Len(q)
      PROVE  p = q
  <2>1. Len(p) \in Nat /\ Len(q) \in Nat /\ Len(q) <= Len(p) /\ \A i \in 1..Len(q) : p[i] = q[i]
    BY <1>3, WithinMeans DEF Path
  <2>2. Len(p) = Len(q)
    BY <2>1, <1>3
  <2> QED
    BY <2>1, <2>2, SeqEqual DEF Path
<1> QED
  BY <1>1, <1>2, <1>3

\* The directory of a path is the next one above it.
LEMMA Parents ==
  ASSUME NEW p \in Path, p # <<>>
  PROVE  /\ Parent(p) \in Path /\ Len(Parent(p)) = Len(p) - 1 /\ Len(p) \in Nat \ {0}
         /\ Within(p, Parent(p)) /\ Parent(p) # p
         /\ \A d \in Path : Within(p, d) /\ p # d => Within(Parent(p), d)
         /\ \A n \in Path : Within(n, p) => Within(n, Parent(p))
<1>1. Len(p) \in Nat /\ Len(p) # 0
  BY DEF Path
<1>2. PICK m \in Nat : m = Len(p) - 1
  BY <1>1
<1>3. PICK u \in Path : u = Parent(p) /\ Len(u) = m /\ \A i \in 1..m : u[i] = p[i]
  <2>1. \A i \in 1..m : p[i] \in STRING
    BY <1>1, <1>2 DEF Path
  <2>2. /\ SubSeq(p, 1, m) \in Seq(STRING)
        /\ Len(SubSeq(p, 1, m)) = IF 1 <= m THEN m - 1 + 1 ELSE 0
        /\ \A i \in 1..(m - 1 + 1) : SubSeq(p, 1, m)[i] = p[1 + i - 1]
    BY <1>2, <2>1, SubSeqProperties
  <2>3. Len(SubSeq(p, 1, m)) = m /\ \A i \in 1..m : SubSeq(p, 1, m)[i] = p[i]
    BY <1>2, <2>2
  <2> QED
    BY <1>2, <2>2, <2>3 DEF Path, Parent
<1>4. Within(p, u) /\ u # p
  BY <1>1, <1>2, <1>3, WithinMeans
<1>5. ASSUME NEW d \in Path, Within(p, d), p # d PROVE Within(u, d)
  <2>1. Len(d) \in Nat /\ Len(d) <= Len(p) /\ \A i \in 1..Len(d) : p[i] = d[i]
    BY <1>5, WithinMeans DEF Path
  <2>2. ~(Len(p) <= Len(d))
    BY <1>5, WithinOrder
  <2>3. Len(d) <= m /\ \A i \in 1..Len(d) : i \in 1..m
    BY <1>1, <1>2, <2>1, <2>2
  <2> QED
    BY <1>3, <2>1, <2>3, WithinMeans
<1>6. ASSUME NEW n \in Path, Within(n, p) PROVE Within(n, u)
  BY <1>4, <1>6, WithinOrder
<1> QED
  BY <1>1, <1>2, <1>3, <1>4, <1>5, <1>6

\* What lies below q and its place below p.
Moved(n, p, q) == p \o SubSeq(n, Len(q) + 1, Len(n))

\* What is moved keeps its place, and its directory is moved with it.
LEMMA MovedPaths ==
  ASSUME NEW p \in Path, NEW q \in Path, NEW n \in Path, Within(n, q)
  PROVE  /\ n = q => Moved(n, p, q) = p
         /\ n # q => /\ n # <<>> /\ Moved(n, p, q) # <<>>
                     /\ Moved(Parent(n), p, q) = Parent(Moved(n, p, q))
         /\ Moved(n, p, q) \in Path /\ Within(Moved(n, p, q), p)
         /\ n # q => Moved(n, p, q) # p
<1>1. Len(p) \in Nat /\ Len(q) \in Nat /\ Len(n) \in Nat /\ Len(q) <= Len(n)
  BY WithinMeans DEF Path
<1> DEFINE T(x) == SubSeq(x, Len(q) + 1, Len(x))
<1>2. /\ T(n) \in Path /\ Len(T(n)) = Len(n) - Len(q)
      /\ \A i \in 1..(Len(n) - Len(q)) : T(n)[i] = n[Len(q) + i]
  <2>1. \A i \in (Len(q) + 1)..Len(n) : n[i] \in STRING
    BY <1>1 DEF Path
  <2>2. /\ T(n) \in Seq(STRING)
        /\ Len(T(n)) = IF Len(q) + 1 <= Len(n) THEN Len(n) - (Len(q) + 1) + 1 ELSE 0
        /\ \A i \in 1..(Len(n) - (Len(q) + 1) + 1) : T(n)[i] = n[Len(q) + 1 + i - 1]
    BY <1>1, <2>1, SubSeqProperties
  <2> QED
    BY <1>1, <2>2 DEF Path
<1>3. PICK m \in Path : /\ m = Moved(n, p, q) /\ Len(m) = Len(p) + (Len(n) - Len(q))
                        /\ \A i \in 1..Len(p) : m[i] = p[i]
                        /\ \A i \in 1..(Len(n) - Len(q)) : m[Len(p) + i] = n[Len(q) + i]
  <2>1. p \o T(n) \in Path /\ Len(p \o T(n)) = Len(p) + Len(T(n))
    BY <1>2, ConcatProperties DEF Path
  <2>2. \A i \in 1..Len(p) : (p \o T(n))[i] = p[i]
    BY <1>1, <1>2 DEF Path
  <2>3. \A i \in 1..Len(T(n)) : (p \o T(n))[Len(p) + i] = T(n)[i]
    BY <1>1, <1>2 DEF Path
  <2> QED
    BY <1>1, <1>2, <2>1, <2>2, <2>3 DEF Moved
<1>4. Within(m, p)
  BY <1>1, <1>3, WithinMeans
<1>5. CASE n = q
  <2>1. Len(m) <= Len(p)
    BY <1>1, <1>3, <1>5
  <2> QED
    BY <1>3, <1>4, <1>5, <2>1, WithinOrder
<1>6. CASE n # q
  <2>1. Len(n) > Len(q)
    <3>1. ~(Len(n) <= Len(q))
      BY <1>6, WithinOrder
    <3> QED
      BY <1>1, <3>1
  <2>2. n # <<>> /\ m # <<>> /\ m # p
    <3>1. Len(m) > Len(p) /\ Len(n) > 0 /\ Len(m) > 0
      BY <1>1, <1>3, <2>1
    <3> QED
      BY <3>1, <1>1
  <2>3. PICK v \in Path : /\ v = Parent(n) /\ Len(v) = Len(n) - 1
                          /\ \A i \in 1..Len(v) : v[i] = n[i]
    <3>1. Parent(n) \in Path /\ Len(Parent(n)) = Len(n) - 1 /\ Within(n, Parent(n))
      BY <2>2, Parents
    <3> QED
      BY <3>1, WithinMeans
  <2>4. PICK k \in Path : /\ k = Parent(m) /\ Len(k) = Len(m) - 1
                          /\ \A i \in 1..Len(k) : k[i] = m[i]
    <3>1. Parent(m) \in Path /\ Len(Parent(m)) = Len(m) - 1 /\ Within(m, Parent(m))
      BY <2>2, Parents
    <3> QED
      BY <3>1, WithinMeans
  <2>5. Len(v) \in Nat /\ Len(q) <= Len(v)
    BY <1>1, <2>1, <2>3
  <2>6. /\ T(v) \in Path /\ Len(T(v)) = Len(v) - Len(q)
        /\ \A i \in 1..(Len(v) - Len(q)) : T(v)[i] = v[Len(q) + i]
    <3>1. \A i \in (Len(q) + 1)..Len(v) : v[i] \in STRING
      BY <1>1, <2>5 DEF Path
    <3>2. /\ T(v) \in Seq(STRING)
          /\ Len(T(v)) = IF Len(q) + 1 <= Len(v) THEN Len(v) - (Len(q) + 1) + 1 ELSE 0
          /\ \A i \in 1..(Len(v) - (Len(q) + 1) + 1) : T(v)[i] = v[Len(q) + 1 + i - 1]
      BY <1>1, <2>5, <3>1, SubSeqProperties
    <3> QED
      BY <1>1, <2>5, <3>2 DEF Path
  <2>7. /\ Moved(v, p, q) \in Path /\ Len(Moved(v, p, q)) = Len(p) + Len(T(v))
        /\ \A i \in 1..Len(p) : Moved(v, p, q)[i] = p[i]
        /\ \A i \in 1..Len(T(v)) : Moved(v, p, q)[Len(p) + i] = T(v)[i]
    <3>1. p \o T(v) \in Path /\ Len(p \o T(v)) = Len(p) + Len(T(v))
      BY <2>6, ConcatProperties DEF Path
    <3>2. \A i \in 1..Len(p) : (p \o T(v))[i] = p[i]
      BY <1>1, <2>6 DEF Path
    <3>3. \A i \in 1..Len(T(v)) : (p \o T(v))[Len(p) + i] = T(v)[i]
      BY <1>1, <2>6 DEF Path
    <3> QED
      BY <3>1, <3>2, <3>3 DEF Moved
  <2>8. Len(Moved(v, p, q)) = Len(k)
    <3>1. Len(Moved(v, p, q)) = Len(p) + (Len(v) - Len(q))
      BY <2>6, <2>7
    <3>2. Len(k) = Len(p) + (Len(n) - Len(q)) - 1
      BY <1>3, <2>4
    <3>3. Len(v) = Len(n) - 1
      BY <2>3
    <3> QED
      BY <1>1, <3>1, <3>2, <3>3
  <2>9. ASSUME NEW i \in 1..Len(k) PROVE Moved(v, p, q)[i] = k[i]
    <3>1. i \in Nat /\ 1 <= i /\ i <= Len(k) /\ Len(k) = Len(p) + (Len(v) - Len(q))
      BY <1>1, <1>3, <2>3, <2>4, <2>5
    <3>2. k[i] = m[i]
      BY <2>4
    <3>3. CASE i <= Len(p)
      <4>1. i \in 1..Len(p)
        BY <3>1, <3>3, <1>1
      <4> QED
        BY <4>1, <3>2, <2>7, <1>3
    <3>4. CASE i > Len(p)
      <4>1. PICK j \in 1..(Len(v) - Len(q)) : i = Len(p) + j
        <5>1. i - Len(p) \in 1..(Len(v) - Len(q)) /\ i = Len(p) + (i - Len(p))
          BY <1>1, <2>5, <3>1, <3>4
        <5> QED
          BY <5>1
      <4>2. j \in 1..(Len(n) - Len(q)) /\ Len(q) + j \in 1..Len(v)
        BY <1>1, <2>3, <2>5, <4>1
      <4>3. Moved(v, p, q)[i] = v[Len(q) + j]
        BY <2>6, <2>7, <4>1
      <4>4. m[i] = n[Len(q) + j]
        BY <1>3, <4>1, <4>2
      <4> QED
        BY <2>3, <3>2, <4>2, <4>3, <4>4
    <3> QED
      BY <1>1, <3>1, <3>3, <3>4
  <2>10. Moved(v, p, q) = k
    BY <2>7, <2>8, <2>9, SeqEqual DEF Path
  <2> QED
    BY <1>3, <1>4, <1>6, <2>2, <2>3, <2>4, <2>10
<1> QED
  BY <1>5, <1>6, <1>3, <1>4

-----------------------------------------------------------------------------
(***************************************************************************)
(* Pieces of sequences.                                                    *)
(***************************************************************************)
LEMMA Piece ==
  ASSUME NEW E, NEW s \in Seq(E), NEW m \in Nat \ {0}, NEW n \in Nat, n <= Len(s), m <= n + 1
  PROVE  /\ SubSeq(s, m, n) \in Seq(E)
         /\ Len(SubSeq(s, m, n)) = n + 1 - m
         /\ \A i \in 1..(n + 1 - m) : SubSeq(s, m, n)[i] = s[m + i - 1]
<1>1. Len(s) \in Nat /\ \A i \in m..n : s[i] \in E
  OBVIOUS
<1>2. /\ SubSeq(s, m, n) \in Seq(E)
      /\ Len(SubSeq(s, m, n)) = IF m <= n THEN n - m + 1 ELSE 0
      /\ \A i \in 1..(n - m + 1) : SubSeq(s, m, n)[i] = s[m + i - 1]
  BY <1>1, SubSeqProperties
<1>3. n - m + 1 = n + 1 - m /\ (~(m <= n) => n + 1 - m = 0)
  OBVIOUS
<1> QED
  BY <1>2, <1>3

\* Each of three joined sequences is where it was put.
LEMMA ThreePieces ==
  ASSUME NEW E, NEW a \in Seq(E), NEW b \in Seq(E), NEW c \in Seq(E), NEW x, x = a \o b \o c
  PROVE  /\ x \in Seq(E) /\ Len(x) = Len(a) + Len(b) + Len(c)
         /\ SubSeq(x, 1, Len(a)) = a
         /\ SubSeq(x, Len(a) + 1, Len(a) + Len(b)) = b
         /\ SubSeq(x, Len(a) + Len(b) + 1, Len(x)) = c
<1>1. /\ Len(a) \in Nat /\ Len(b) \in Nat /\ Len(c) \in Nat
      /\ a \o b \in Seq(E) /\ Len(a \o b) = Len(a) + Len(b)
  BY ConcatProperties
<1>2. /\ x \in Seq(E) /\ Len(x) = Len(a) + Len(b) + Len(c)
      /\ \A i \in 1..Len(x) : x[i] = IF i <= Len(a) + Len(b) THEN (a \o b)[i]
                                     ELSE c[i - (Len(a) + Len(b))]
  BY <1>1, ConcatProperties
<1>3. \A i \in 1..(Len(a) + Len(b)) : (a \o b)[i] = IF i <= Len(a) THEN a[i] ELSE b[i - Len(a)]
  BY ConcatProperties
<1>4. SubSeq(x, 1, Len(a)) = a
  <2>1. /\ SubSeq(x, 1, Len(a)) \in Seq(E) /\ Len(SubSeq(x, 1, Len(a))) = Len(a)
        /\ \A i \in 1..Len(a) : SubSeq(x, 1, Len(a))[i] = x[1 + i - 1]
    <3>1. Len(a) <= Len(x) /\ 1 <= Len(a) + 1 /\ Len(a) + 1 - 1 = Len(a) /\ 1 \in Nat \ {0}
      BY <1>1, <1>2
    <3> QED
      BY <1>1, <1>2, <3>1, Piece
  <2>2. ASSUME NEW i \in 1..Len(a) PROVE SubSeq(x, 1, Len(a))[i] = a[i]
    <3>1. i \in 1..Len(x) /\ i \in 1..(Len(a) + Len(b)) /\ i <= Len(a) + Len(b) /\ 1 + i - 1 = i
      BY <1>1, <1>2
    <3> QED
      BY <1>2, <1>3, <2>1, <3>1
  <2> QED
    BY <2>1, <2>2, SeqEqual
<1>5. SubSeq(x, Len(a) + 1, Len(a) + Len(b)) = b
  <2>1. /\ SubSeq(x, Len(a) + 1, Len(a) + Len(b)) \in Seq(E)
        /\ Len(SubSeq(x, Len(a) + 1, Len(a) + Len(b))) = Len(b)
        /\ \A i \in 1..Len(b) : SubSeq(x, Len(a) + 1, Len(a) + Len(b))[i] = x[Len(a) + 1 + i - 1]
    <3>1. /\ Len(a) + Len(b) <= Len(x) /\ Len(a) + 1 <= Len(a) + Len(b) + 1
          /\ Len(a) + Len(b) + 1 - (Len(a) + 1) = Len(b)
          /\ Len(a) + 1 \in Nat \ {0} /\ Len(a) + Len(b) \in Nat
      BY <1>1, <1>2
    <3> QED
      BY <1>2, <3>1, Piece
  <2>2. ASSUME NEW i \in 1..Len(b) PROVE SubSeq(x, Len(a) + 1, Len(a) + Len(b))[i] = b[i]
    <3>1. PICK j \in Nat : j = Len(a) + i
      BY <1>1
    <3>2. /\ j \in 1..Len(x) /\ j \in 1..(Len(a) + Len(b)) /\ j <= Len(a) + Len(b)
          /\ Len(a) + 1 + i - 1 = j /\ ~(j <= Len(a)) /\ j - Len(a) = i
      BY <1>1, <1>2, <3>1
    <3> QED
      BY <1>2, <1>3, <2>1, <3>2
  <2> QED
    BY <2>1, <2>2, SeqEqual
<1>6. SubSeq(x, Len(a) + Len(b) + 1, Len(x)) = c
  <2>1. /\ SubSeq(x, Len(a) + Len(b) + 1, Len(x)) \in Seq(E)
        /\ Len(SubSeq(x, Len(a) + Len(b) + 1, Len(x))) = Len(c)
        /\ \A i \in 1..Len(c) :
             SubSeq(x, Len(a) + Len(b) + 1, Len(x))[i] = x[Len(a) + Len(b) + 1 + i - 1]
    <3>1. /\ Len(x) <= Len(x) /\ Len(a) + Len(b) + 1 <= Len(x) + 1
          /\ Len(x) + 1 - (Len(a) + Len(b) + 1) = Len(c)
          /\ Len(a) + Len(b) + 1 \in Nat \ {0} /\ Len(x) \in Nat
      BY <1>1, <1>2
    <3> QED
      BY <1>2, <3>1, Piece
  <2>2. ASSUME NEW i \in 1..Len(c)
        PROVE  SubSeq(x, Len(a) + Len(b) + 1, Len(x))[i] = c[i]
    <3>1. PICK j \in Nat : j = Len(a) + Len(b) + i
      BY <1>1
    <3>2. /\ j \in 1..Len(x) /\ ~(j <= Len(a) + Len(b))
          /\ Len(a) + Len(b) + 1 + i - 1 = j /\ j - (Len(a) + Len(b)) = i
      BY <1>1, <1>2, <3>1
    <3> QED
      BY <1>2, <2>1, <3>2
  <2> QED
    BY <2>1, <2>2, SeqEqual
<1> QED
  BY <1>2, <1>4, <1>5, <1>6

-----------------------------------------------------------------------------
(***************************************************************************)
(* What patch_file and patch_lines write.                                  *)
(***************************************************************************)
\* A snippet that does not occur is not counted.
LEMMA CountOfNone ==
  ASSUME NEW t, Len(t) \in Nat, NEW s, s # <<>>, \A i \in 1..Len(t) : ~OccursAt(t, s, i)
  PROVE  Count(t, s) = 0
<1> DEFINE D == DOMAIN [i \in 1..Len(t) |-> i]
           b == [n |-> 0, next |-> 1]
           q == [i \in 1..Len(t) |-> i]
           Eq(h) == h = [S \in SUBSET D |->
                           IF S = {} THEN b
                           ELSE IF q[Max(S)] >= h[S \ {Max(S)}].next /\ OccursAt(t, s, q[Max(S)])
                                THEN [n |-> h[S \ {Max(S)}].n + 1, next |-> q[Max(S)] + Len(s)]
                                ELSE h[S \ {Max(S)}]]
           f == [S \in SUBSET D |-> b]
           g == [z \in {b} \X Nat |-> z[1]]
<1>1. D = 1..Len(t) /\ D \in SUBSET Nat /\ IsFiniteSet(D)
  BY FS_Interval
<1>2. Count(t, s) = (CHOOSE h : Eq(h))[D].n
  BY DEF Count, FoldLeft, MapThenFoldSet
<1>3. ASSUME NEW S \in SUBSET D, S # {}
      PROVE  S \ {Max(S)} \in SUBSET D /\ q[Max(S)] \in Nat /\ ~OccursAt(t, s, q[Max(S)])
  <2>1. S \in SUBSET Nat /\ IsFiniteSet(S)
    BY <1>1, FS_Subset
  <2>2. Max(S) \in S
    BY <1>3, <2>1, Extremes
  <2>3. Max(S) \in 1..Len(t)
    BY <2>2, <1>1
  <2>4. q[Max(S)] = Max(S)
    BY <2>3
  <2>5. Max(S) \in Nat /\ ~OccursAt(t, s, Max(S))
    BY <2>3
  <2>6. S \ {Max(S)} \in SUBSET D
    OBVIOUS
  <2> HIDE DEF D, q
  <2> QED
    BY <2>4, <2>5, <2>6
<1> HIDE DEF D, q
<1>4. Eq(f)
  <2>1. ASSUME NEW S \in SUBSET D, S # {} PROVE f[S \ {Max(S)}] = b
    BY <1>3, <2>1
  <2> QED
    BY <1>3, <2>1
<1>5. Eq(CHOOSE h : Eq(h))
  <2> HIDE DEF Eq, f
  <2> QED
    BY <1>4
<1> HIDE DEF b
<1>6. ASSUME NEW h, Eq(h) PROVE Walk(h, g, b, q, D)
  <2>1. h[{}] = b
    BY <1>6
  <2>2. ASSUME NEW S \in SUBSET D, S # {}, h[S \ {Max(S)}] \in {b}
        PROVE  h[S] = g[<<h[S \ {Max(S)}], q[Max(S)]>>]
    <3>1. h[S] = h[S \ {Max(S)}]
      BY <1>3, <1>6, <2>2
    <3>2. <<h[S \ {Max(S)}], q[Max(S)]>> \in {b} \X Nat
      BY <1>3, <2>2
    <3> QED
      BY <3>1, <3>2
  <2>3. g \in [{b} \X Nat -> {b}] /\ \A i \in D : q[i] \in Nat
    BY <1>1 DEF q
  <2> HIDE DEF Eq, g
  <2> QED
    BY <1>1, <2>1, <2>2, <2>3, WalkOfSteps
<1>7. Walk(f, g, b, q, D)
  <2> HIDE DEF f, g
  <2> QED
    BY <1>4, <1>6
<1>8. Walk(CHOOSE h : Eq(h), g, b, q, D)
  <2> HIDE DEF Eq, g
  <2> QED
    BY <1>5, <1>6
<1>9. (CHOOSE h : Eq(h))[D] = f[D]
  <2> HIDE DEF Eq, f, g
  <2> QED
    BY <1>1, <1>7, <1>8, WalkUnique
<1>10. f[D] = b
  OBVIOUS
<1> QED
  BY <1>2, <1>9, <1>10 DEF b

\* The old content that was there once is replaced where it was.
LEMMA Replaced ==
  ASSUME NEW t \in Seq(Char), NEW s \in Seq(Char), NEW r \in Seq(Char), Count(t, s) = 1
  PROVE  /\ ReplaceFirstOf(t, s, r) \in Seq(Char)
         /\ \E u \in Prefixes(t) :
              /\ u \o s \in Prefixes(t)
              /\ ReplaceFirstOf(t, s, r) = u \o r \o SubSeq(t, Len(u \o s) + 1, Len(t))
<1> DEFINE q == [j \in 1..(Len(t) + 1) |-> j]
           J == {j \in 1..Len(q) : OccursAt(t, s, q[j])}
<1>1. Len(t) \in Nat /\ Len(s) \in Nat
  OBVIOUS
<1>2. Len(q) = Len(t) + 1 /\ \A j \in 1..(Len(t) + 1) : q[j] = j
  BY <1>1
<1> HIDE DEF q
<1>3. J \in SUBSET Nat /\ IsFiniteSet(J)
  <2>1. Len(q) \in Int /\ 1 \in Int
    BY <1>1, <1>2
  <2>2. IsFiniteSet(1..Len(q))
    BY <2>1, FS_Interval
  <2>3. J \in SUBSET (1..Len(q))
    OBVIOUS
  <2> HIDE DEF J
  <2>4. IsFiniteSet(J)
    BY <2>2, <2>3, FS_Subset
  <2>5. 1..Len(q) \subseteq Nat
    BY <2>1
  <2> QED
    BY <2>3, <2>4, <2>5
<1>4. J # {}
  <2>1. CASE s = <<>>
    <3>1. Len(t) = 0
      <4>1. Count(t, s) = Len(t) + 1
        BY <2>1 DEF Count
      <4> QED
        BY <4>1, <1>1
    <3>2. OccursAt(t, s, 1)
      <4>1. SubSeq(t, 1, 0) = <<>> /\ Len(s) = 0
        BY <2>1, SubSeqEmpty
      <4> QED
        BY <4>1, <2>1, <3>1 DEF OccursAt
    <3>3. 1 \in J
      BY <1>2, <3>1, <3>2
    <3> QED
      BY <3>3
  <2>2. CASE s # <<>>
    <3>1. PICK i \in 1..Len(t) : OccursAt(t, s, i)
      BY <1>1, <2>2, CountOfNone
    <3>2. i \in 1..(Len(t) + 1)
      BY <1>1
    <3>3. i \in J
      BY <1>2, <3>1, <3>2
    <3> QED
      BY <3>3
  <2> QED
    BY <2>1, <2>2
<1>5. PICK i \in 1..(Len(t) + 1) : /\ i = SelectInSeq(q, LAMBDA j : OccursAt(t, s, j))
                                   /\ OccursAt(t, s, i)
  <2>1. SelectInSeq(q, LAMBDA j : OccursAt(t, s, j)) = Min(J)
    BY <1>4 DEF SelectInSeq
  <2>2. Min(J) \in J
    BY <1>3, <1>4, Extremes
  <2> QED
    BY <1>2, <2>1, <2>2
<1>6. i + Len(s) - 1 <= Len(t) /\ SubSeq(t, i, i + Len(s) - 1) = s /\ i \in Nat \ {0}
  <2>1. OccursAt(t, s, i) /\ i \in 1..(Len(t) + 1)
    BY <1>5
  <2> HIDE DEF J
  <2> QED
    BY <2>1, <1>1 DEF OccursAt
<1>7. PICK u : /\ u = SubSeq(t, 1, i - 1) /\ u \in Seq(Char) /\ Len(u) = i - 1 /\ u \in Prefixes(t)
  <2>1. /\ i - 1 \in 0..Len(t) /\ i - 1 \in Nat /\ 1 <= i - 1 + 1 /\ i - 1 + 1 - 1 = i - 1
        /\ i - 1 <= Len(t) /\ 1 \in Nat \ {0}
    BY <1>1
  <2>2. SubSeq(t, 1, i - 1) \in Prefixes(t)
    BY <2>1 DEF Prefixes
  <2>3. SubSeq(t, 1, i - 1) \in Seq(Char) /\ Len(SubSeq(t, 1, i - 1)) = i - 1
    BY <2>1, Piece
  <2> QED
    BY <2>2, <2>3
<1>8. u \o s = SubSeq(t, 1, i + Len(s) - 1) /\ Len(u \o s) = i + Len(s) - 1
  <2>1. /\ 1 \in 1..(Len(t) + 1) /\ i - 1 \in (1 - 1)..Len(t)
        /\ i + Len(s) - 1 \in (i - 1)..Len(t) /\ i - 1 + 1 = i
    BY <1>1, <1>6
  <2>2. SubSeq(t, 1, i - 1) \o SubSeq(t, i - 1 + 1, i + Len(s) - 1) = SubSeq(t, 1, i + Len(s) - 1)
    BY <2>1, ConcatAdjacentSubSeq
  <2>3. Len(u \o s) = i - 1 + Len(s)
    BY <1>7, ConcatProperties
  <2>4. u \o s = SubSeq(t, 1, i - 1) \o SubSeq(t, i, i + Len(s) - 1)
    BY <1>6, <1>7
  <2>5. u \o s = SubSeq(t, 1, i + Len(s) - 1)
    BY <2>1, <2>2, <2>4
  <2>6. i - 1 + Len(s) = i + Len(s) - 1
    BY <1>1, <1>6
  <2> QED
    BY <2>3, <2>5, <2>6
<1>9. u \o s \in Prefixes(t)
  <2>1. i + Len(s) - 1 \in 0..Len(t)
    BY <1>1, <1>6
  <2> QED
    BY <1>8, <2>1 DEF Prefixes
<1>10. ReplaceFirstOf(t, s, r) = u \o r \o SubSeq(t, Len(u \o s) + 1, Len(t))
  <2>1. ReplaceFirstOf(t, s, r) = u \o r \o SubSeq(t, i + Len(s), Len(t))
    BY <1>5, <1>7 DEF ReplaceFirstOf, q
  <2>2. Len(u \o s) + 1 = i + Len(s)
    BY <1>1, <1>8
  <2> QED
    BY <2>1, <2>2
<1>11. u \o r \o SubSeq(t, Len(u \o s) + 1, Len(t)) \in Seq(Char)
  <2>1. /\ Len(u \o s) + 1 \in Nat \ {0} /\ Len(t) <= Len(t) /\ Len(u \o s) + 1 <= Len(t) + 1
    BY <1>1, <1>6, <1>8
  <2>2. SubSeq(t, Len(u \o s) + 1, Len(t)) \in Seq(Char)
    BY <1>1, <2>1, Piece
  <2> QED
    BY <1>7, <2>2, ConcatProperties
<1> QED
  BY <1>7, <1>9, <1>10, <1>11

\* patch_lines writes a text whose lines are the ones before, the new and the ones
\* after.
NewLines(t, first, last, new) ==
  SubSeq(Lines(t), 1, first - 1) \o Lines(new) \o SubSeq(Lines(t), last + 1, Len(Lines(t)))

\* The lines of what patch_lines writes are the lines kept and the new ones.
LEMMA LinesReplaced ==
  ASSUME NEW t \in Seq(Char), NEW new \in Seq(Char), NEW first \in Nat \ {0}, NEW last \in Nat,
         first <= last, first <= Len(Lines(t))
  PROVE  /\ ReplaceLines(t, first, last, new) \in Seq(Char)
         /\ Lines(ReplaceLines(t, first, last, new)) = NewLines(t, first, last, new)
         /\ SubSeq(Lines(t), 1, first - 1) \in Seq(Seq(Plain))
         /\ Len(SubSeq(Lines(t), 1, first - 1)) = first - 1
         /\ SubSeq(Lines(t), last + 1, Len(Lines(t))) \in Seq(Seq(Plain))
         /\ Len(SubSeq(Lines(t), last + 1, Len(Lines(t)))) =
              IF last < Len(Lines(t)) THEN Len(Lines(t)) - last ELSE 0
<1>1. PICK ls \in Split : ls = Lines(t)
  BY LinesStep
<1>2. PICK ns \in Split : ns = Lines(new)
  BY LinesStep
<1>3. ls \in Seq(Seq(Plain)) /\ ns \in Seq(Seq(Plain)) /\ Len(ls) \in Nat /\ Len(ns) \in Nat \ {0}
  BY DEF Split
<1>4. /\ SubSeq(ls, 1, first - 1) \in Seq(Seq(Plain))
      /\ Len(SubSeq(ls, 1, first - 1)) = first - 1
  <2>1. /\ first - 1 \in Nat /\ first - 1 <= Len(ls) /\ 1 <= first - 1 + 1
        /\ first - 1 + 1 - 1 = first - 1 /\ 1 \in Nat \ {0}
    BY <1>1, <1>3
  <2> QED
    BY <1>3, <2>1, Piece
<1>5. /\ SubSeq(ls, last + 1, Len(ls)) \in Seq(Seq(Plain))
      /\ Len(SubSeq(ls, last + 1, Len(ls))) = IF last < Len(ls) THEN Len(ls) - last ELSE 0
  <2>1. CASE last < Len(ls)
    <3>1. /\ last + 1 \in Nat \ {0} /\ Len(ls) <= Len(ls) /\ last + 1 <= Len(ls) + 1
          /\ Len(ls) + 1 - (last + 1) = Len(ls) - last
      BY <1>3, <2>1
    <3> QED
      BY <1>3, <2>1, <3>1, Piece
  <2>2. CASE ~(last < Len(ls))
    <3>1. last + 1 \in Int /\ Len(ls) \in Int /\ Len(ls) < last + 1
      BY <1>3, <2>2
    <3>2. SubSeq(ls, last + 1, Len(ls)) = <<>>
      BY <3>1, SubSeqEmpty
    <3> QED
      BY <2>2, <3>2, EmptySeq
  <2> QED
    BY <2>1, <2>2
<1>6. NewLines(t, first, last, new) \in Split
  <2>1. PICK a, c : /\ a = SubSeq(ls, 1, first - 1) /\ c = SubSeq(ls, last + 1, Len(ls))
                    /\ a \in Seq(Seq(Plain)) /\ c \in Seq(Seq(Plain))
    BY <1>4, <1>5
  <2>2. /\ a \o ns \o c \in Seq(Seq(Plain))
        /\ Len(a \o ns \o c) = Len(a) + Len(ns) + Len(c)
    BY <1>3, <2>1, ThreePieces
  <2>3. Len(a) \in Nat /\ Len(c) \in Nat
    BY <2>1
  <2>4. Len(a \o ns \o c) # 0
    BY <1>3, <2>2, <2>3
  <2>5. a \o ns \o c # <<>>
    BY <2>4
  <2>6. NewLines(t, first, last, new) = a \o ns \o c
    BY <1>1, <1>2, <2>1 DEF NewLines
  <2> QED
    BY <2>2, <2>5, <2>6 DEF Split
<1>7. ReplaceLines(t, first, last, new) = Join(NewLines(t, first, last, new))
  BY DEF ReplaceLines, NewLines
<1> QED
  BY <1>1, <1>4, <1>5, <1>6, <1>7, LinesOfJoin, JoinOfAppend

\* The lines before first and after last are those of t, and between them is new.
LinesAre(t, u, first, last, new) ==
  LET a == Lines(t)
      b == Lines(u)
      end == IF last < Len(a) THEN last ELSE Len(a)
  IN /\ SubSeq(b, 1, first - 1) = SubSeq(a, 1, first - 1)
     /\ SubSeq(b, first, Len(b) - (Len(a) - end)) = Lines(new)
     /\ SubSeq(b, Len(b) - (Len(a) - end) + 1, Len(b)) = SubSeq(a, end + 1, Len(a))

\* patch_lines keeps its promise.
LEMMA LinesWanted ==
  ASSUME NEW t \in Seq(Char), NEW new \in Seq(Char), NEW first \in Nat \ {0}, NEW last \in Nat,
         first <= last, first <= Len(Lines(t))
  PROVE  LinesAre(t, ReplaceLines(t, first, last, new), first, last, new)
<1>0. /\ Lines(ReplaceLines(t, first, last, new)) = NewLines(t, first, last, new)
      /\ SubSeq(Lines(t), 1, first - 1) \in Seq(Seq(Plain))
      /\ Len(SubSeq(Lines(t), 1, first - 1)) = first - 1
      /\ SubSeq(Lines(t), last + 1, Len(Lines(t))) \in Seq(Seq(Plain))
      /\ Len(SubSeq(Lines(t), last + 1, Len(Lines(t)))) =
           IF last < Len(Lines(t)) THEN Len(Lines(t)) - last ELSE 0
  BY LinesReplaced, Zenon
<1>1. PICK a, n \in Split : a = Lines(t) /\ n = Lines(new)
  BY LinesStep
<1>2. PICK p, s : /\ p = SubSeq(a, 1, first - 1) /\ s = SubSeq(a, last + 1, Len(a))
                  /\ p \in Seq(Seq(Plain)) /\ s \in Seq(Seq(Plain)) /\ Len(p) = first - 1
                  /\ Len(s) = IF last < Len(a) THEN Len(a) - last ELSE 0
  BY <1>0, <1>1, Zenon
<1>3. PICK b : b = Lines(ReplaceLines(t, first, last, new)) /\ b = p \o n \o s
  <2>1. NewLines(t, first, last, new) = p \o n \o s
    BY <1>1, <1>2, Zenon DEF NewLines
  <2> QED
    BY <1>0, <2>1, Zenon
<1>4. PICK end \in Nat : end = IF last < Len(a) THEN last ELSE Len(a)
  BY DEF Split
<1>5. n \in Seq(Seq(Plain)) /\ Len(a) \in Nat /\ Len(n) \in Nat /\ Len(p) \in Nat /\ Len(s) \in Nat
  <2>1. n \in Seq(Seq(Plain)) /\ a \in Seq(Seq(Plain))
    BY DEF Split
  <2>2. Len(a) \in Nat /\ Len(n) \in Nat
    BY <2>1
  <2>3. Len(p) \in Nat /\ Len(s) \in Nat
    BY <1>2
  <2> QED
    BY <2>1, <2>2, <2>3
<1>6. /\ Len(b) = Len(p) + Len(n) + Len(s)
      /\ SubSeq(b, 1, Len(p)) = p
      /\ SubSeq(b, Len(p) + 1, Len(p) + Len(n)) = n
      /\ SubSeq(b, Len(p) + Len(n) + 1, Len(b)) = s
  <2>1. /\ p \in Seq(Seq(Plain)) /\ n \in Seq(Seq(Plain)) /\ s \in Seq(Seq(Plain))
        /\ b = p \o n \o s
    BY <1>2, <1>3, <1>5
  <2> QED
    BY <2>1, ThreePieces
<1>7. Len(a) - end = Len(s)
  <2>1. Len(s) = IF last < Len(a) THEN Len(a) - last ELSE 0
    BY <1>2
  <2>2. CASE last < Len(a)
    BY <1>4, <2>1, <2>2
  <2>3. CASE ~(last < Len(a))
    BY <1>4, <1>5, <2>1, <2>3
  <2> QED
    BY <2>2, <2>3
<1>8. Len(p) = first - 1 /\ Len(p) + 1 = first /\ Len(b) - (Len(a) - end) = Len(p) + Len(n)
  <2>1. Len(p) = first - 1
    BY <1>2
  <2>2. Len(b) = Len(p) + Len(n) + Len(s)
    BY <1>6
  <2>3. Len(b) - Len(s) = Len(p) + Len(n)
    BY <1>5, <2>2
  <2>4. Len(p) + 1 = first
    BY <2>1
  <2> QED
    BY <1>7, <2>1, <2>3, <2>4
<1>9. s = SubSeq(a, end + 1, Len(a))
  <2>1. CASE last < Len(a)
    BY <1>2, <1>4, <2>1
  <2>2. CASE ~(last < Len(a))
    <3>1. Len(a) < last + 1 /\ Len(a) < end + 1
      BY <1>4, <1>5, <2>2
    <3>2. last + 1 \in Int /\ end + 1 \in Int /\ Len(a) \in Int
      BY <1>5
    <3>3. SubSeq(a, last + 1, Len(a)) = <<>> /\ SubSeq(a, end + 1, Len(a)) = <<>>
      BY <3>1, <3>2, SubSeqEmpty
    <3> QED
      BY <1>2, <3>3
  <2> QED
    BY <2>1, <2>2
<1>10. /\ SubSeq(b, 1, first - 1) = SubSeq(a, 1, first - 1)
       /\ SubSeq(b, first, Len(b) - (Len(a) - end)) = n
       /\ SubSeq(b, Len(b) - (Len(a) - end) + 1, Len(b)) = SubSeq(a, end + 1, Len(a))
  BY <1>2, <1>6, <1>8, <1>9
<1> QED
  BY <1>1, <1>3, <1>4, <1>10, Zenon DEF LinesAre

-----------------------------------------------------------------------------
(***************************************************************************)
(* What grep_files shows.                                                  *)
(***************************************************************************)
\* One carriage return at the end makes no difference to a line.
LEMMA TrimOfFront ==
  ASSUME NEW l \in Seq(Plain), l # <<>>, Last(l) = "r"
  PROVE  TrimCR(Front(l)) = TrimCR(l)
<1>1. Len(l) \in Nat \ {0} /\ l[Len(l)] = "r"
  BY DEF Last
<1>2. PICK f \in Seq(Plain) : /\ f = Front(l) /\ Len(f) = Len(l) - 1
                              /\ \A i \in 1..(Len(l) - 1) : f[i] = l[i]
  <2>1. /\ Len(l) - 1 \in Nat /\ Len(l) - 1 <= Len(l) /\ 1 <= Len(l) - 1 + 1
        /\ Len(l) - 1 + 1 - 1 = Len(l) - 1 /\ 1 \in Nat \ {0}
    BY <1>1
  <2>2. /\ SubSeq(l, 1, Len(l) - 1) \in Seq(Plain)
        /\ Len(SubSeq(l, 1, Len(l) - 1)) = Len(l) - 1
        /\ \A i \in 1..(Len(l) - 1) : SubSeq(l, 1, Len(l) - 1)[i] = l[1 + i - 1]
    BY <2>1, Piece
  <2>3. \A i \in 1..(Len(l) - 1) : 1 + i - 1 = i
    BY <1>1
  <2> QED
    BY <2>2, <2>3 DEF Front
<1> DEFINE I(x) == {i \in 1..Len(x) : x[i] # "r"}
<1>3. I(f) = I(l)
  <2>1. ASSUME NEW i \in I(l) PROVE i \in I(f)
    <3>1. i \in 1..Len(l) /\ i # Len(l)
      BY <1>1
    <3>2. i \in 1..(Len(l) - 1)
      BY <1>1, <3>1
    <3> QED
      BY <1>2, <3>2
  <2>2. ASSUME NEW i \in I(f) PROVE i \in I(l)
    <3>1. i \in 1..(Len(l) - 1)
      BY <1>2
    <3>2. i \in 1..Len(l)
      BY <1>1, <3>1
    <3> QED
      BY <1>2, <3>1, <3>2
  <2> QED
    BY <2>1, <2>2
<1>4. PICK m \in 0..(Len(l) - 1) : TrimCR(f) = SubSeq(f, 1, m) /\ TrimCR(l) = SubSeq(l, 1, m)
  <2>1. PICK m : m = IF I(f) # {} THEN Max(I(f)) ELSE 0
    OBVIOUS
  <2>2. SelectLastInSeq(f, LAMBDA c : c # "r") = m
    BY <2>1 DEF SelectLastInSeq
  <2>3. SelectLastInSeq(l, LAMBDA c : c # "r") = IF I(l) # {} THEN Max(I(l)) ELSE 0
    BY DEF SelectLastInSeq
  <2>4. TrimCR(f) = SubSeq(f, 1, m) /\ TrimCR(l) = SubSeq(l, 1, m)
    BY <1>3, <2>1, <2>2, <2>3 DEF TrimCR
  <2>5. m \in 0..(Len(l) - 1)
    <3>1. CASE I(f) = {}
      BY <1>1, <2>1, <3>1
    <3>2. CASE I(f) # {}
      <4>1. I(f) \in SUBSET (1..(Len(l) - 1))
        BY <1>2
      <4>2. 1..(Len(l) - 1) \in SUBSET Nat /\ IsFiniteSet(1..(Len(l) - 1))
        <5>1. Len(l) - 1 \in Int /\ 1 \in Int
          BY <1>1
        <5>2. IsFiniteSet(1..(Len(l) - 1))
          BY <5>1, FS_Interval
        <5> QED
          BY <5>1, <5>2
      <4> HIDE DEF I
      <4>3. I(f) \in SUBSET Nat /\ IsFiniteSet(I(f))
        BY <4>1, <4>2, FS_Subset
      <4>4. Max(I(f)) \in 1..(Len(l) - 1)
        BY <3>2, <4>1, <4>3, Extremes
      <4> QED
        BY <1>1, <2>1, <3>2, <4>4
    <3> QED
      BY <3>1, <3>2
  <2> QED
    BY <2>4, <2>5
<1>5. SubSeq(f, 1, m) = SubSeq(l, 1, m)
  <2>1. /\ m \in Nat /\ m <= Len(f) /\ m <= Len(l) /\ 1 <= m + 1 /\ 1 \in Nat \ {0} /\ m + 1 - 1 = m
    BY <1>1, <1>2
  <2>2. /\ SubSeq(f, 1, m) \in Seq(Plain) /\ SubSeq(l, 1, m) \in Seq(Plain)
        /\ Len(SubSeq(f, 1, m)) = m /\ Len(SubSeq(l, 1, m)) = m
        /\ \A i \in 1..m : SubSeq(f, 1, m)[i] = f[1 + i - 1]
        /\ \A i \in 1..m : SubSeq(l, 1, m)[i] = l[1 + i - 1]
    BY <2>1, Piece
  <2>3. \A i \in 1..m : 1 + i - 1 = i /\ i \in 1..(Len(l) - 1)
    BY <1>1, <2>1
  <2> QED
    BY <1>2, <2>2, <2>3, SeqEqual
<1> QED
  BY <1>2, <1>4, <1>5

\* grep_files shows the lines of the text, but for a carriage return.
LEMMA ScannedLines ==
  ASSUME NEW t \in Seq(Char), NEW i \in DOMAIN Scanned(t)
  PROVE  /\ i \in 1..Len(Lines(t)) /\ Lines(t)[i] \in Seq(Plain)
         /\ \E k \in 0..Len(Lines(t)[i]) : Scanned(t)[i] = SubSeq(Lines(t)[i], 1, k)
         /\ TrimCR(Scanned(t)[i]) = TrimCR(Lines(t)[i])
<1>1. PICK all \in Split : all = Lines(t)
  BY LinesStep
<1>2. PICK ls : ls = IF Last(all) = <<>> THEN Front(all) ELSE all
  OBVIOUS
<1>3. all \in Seq(Seq(Plain)) /\ all # <<>> /\ Len(all) \in Nat \ {0}
  BY DEF Split
<1>4. /\ DOMAIN ls \subseteq 1..Len(all) /\ \A j \in DOMAIN ls : ls[j] = all[j]
  <2>1. /\ Len(all) - 1 \in Nat /\ Len(all) - 1 <= Len(all) /\ 1 <= Len(all) - 1 + 1
        /\ Len(all) - 1 + 1 - 1 = Len(all) - 1 /\ 1 \in Nat \ {0}
    BY <1>3
  <2>2. /\ Front(all) \in Seq(Seq(Plain))
        /\ Len(Front(all)) = Len(all) - 1
        /\ \A j \in 1..(Len(all) - 1) : Front(all)[j] = all[1 + j - 1]
    <3>1. /\ SubSeq(all, 1, Len(all) - 1) \in Seq(Seq(Plain))
          /\ Len(SubSeq(all, 1, Len(all) - 1)) = Len(all) - 1
          /\ \A j \in 1..(Len(all) - 1) : SubSeq(all, 1, Len(all) - 1)[j] = all[1 + j - 1]
      BY <1>3, <2>1, Piece
    <3> QED
      BY <3>1 DEF Front
  <2>3. \A j \in 1..(Len(all) - 1) : 1 + j - 1 = j /\ j \in 1..Len(all)
    BY <1>3
  <2>4. DOMAIN Front(all) = 1..(Len(all) - 1) /\ DOMAIN all = 1..Len(all)
    BY <1>3, <2>2, LenProperties
  <2> QED
    BY <1>2, <2>2, <2>3, <2>4
<1>5. /\ DOMAIN Scanned(t) = DOMAIN ls
      /\ Scanned(t)[i] = IF ls[i] # <<>> /\ Last(ls[i]) = "r" THEN Front(ls[i]) ELSE ls[i]
  BY <1>1, <1>2 DEF Scanned
<1>6. i \in 1..Len(all) /\ ls[i] = all[i] /\ all[i] \in Seq(Plain)
  BY <1>3, <1>4, <1>5, ElementOfSeq
<1>7. TrimCR(Scanned(t)[i]) = TrimCR(all[i])
  <2>1. CASE all[i] # <<>> /\ Last(all[i]) = "r"
    BY <1>5, <1>6, <2>1, TrimOfFront
  <2>2. CASE ~(all[i] # <<>> /\ Last(all[i]) = "r")
    BY <1>5, <1>6, <2>2
  <2> QED
    BY <2>1, <2>2
<1>8. \E k \in 0..Len(all[i]) : Scanned(t)[i] = SubSeq(all[i], 1, k)
  <2>1. Len(all[i]) \in Nat /\ Len(all[i]) \in 0..Len(all[i])
    BY <1>6
  <2>2. CASE all[i] # <<>> /\ Last(all[i]) = "r"
    <3>1. Scanned(t)[i] = SubSeq(all[i], 1, Len(all[i]) - 1)
      BY <1>5, <1>6, <2>2 DEF Front
    <3>2. Len(all[i]) # 0
      BY <1>6, <2>2
    <3>3. Len(all[i]) - 1 \in 0..Len(all[i])
      BY <2>1, <3>2
    <3> QED
      BY <3>1, <3>3
  <2>3. CASE ~(all[i] # <<>> /\ Last(all[i]) = "r")
    <3>1. SubSeq(all[i], 1, Len(all[i])) = all[i]
      BY <1>6, SubSeqFull
    <3> QED
      BY <1>5, <1>6, <2>1, <2>3, <3>1
  <2> QED
    BY <2>2, <2>3
<1> QED
  BY <1>1, <1>6, <1>7, <1>8

\* What is shown of a long line is where the line begins.
LEMMA CutBegins ==
  ASSUME NEW l \in Seq(Plain), NEW k \in 0..Len(l), Len(SubSeq(l, 1, k)) > MaxShown
  PROVE  /\ Cut(SubSeq(l, 1, k), MaxShown) \in Prefixes(l)
         /\ Len(Cut(SubSeq(l, 1, k), MaxShown)) = MaxShown
<1> DEFINE x == SubSeq(l, 1, k)
           m == MaxShown
<1>1. Len(l) \in Nat /\ k \in Nat /\ k <= Len(l) /\ m \in Nat
  BY SizeAssumption
<1>2. /\ x \in Seq(Plain) /\ Len(x) = k
      /\ \A i \in 1..k : x[i] = l[1 + i - 1]
  <2>1. 1 \in Nat \ {0} /\ 1 <= k + 1 /\ k + 1 - 1 = k
    BY <1>1
  <2> QED
    BY <1>1, <2>1, Piece
<1>3. m < k /\ m <= Len(l) /\ m \in 0..Len(l) /\ m <= Len(x)
  <2>1. m < k
    BY <1>1, <1>2
  <2> QED
    BY <1>1, <1>2, <2>1
<1>4. Cut(x, m) = SubSeq(x, 1, m)
  BY <1>1, <1>2, <1>3 DEF Cut
<1> HIDE DEF x, m
<1>5. /\ SubSeq(x, 1, m) \in Seq(Plain) /\ Len(SubSeq(x, 1, m)) = m
      /\ \A i \in 1..m : SubSeq(x, 1, m)[i] = x[1 + i - 1]
      /\ SubSeq(l, 1, m) \in Seq(Plain) /\ Len(SubSeq(l, 1, m)) = m
      /\ \A i \in 1..m : SubSeq(l, 1, m)[i] = l[1 + i - 1]
  <2>1. 1 \in Nat \ {0} /\ 1 <= m + 1 /\ m + 1 - 1 = m
    BY <1>1
  <2> QED
    BY <1>1, <1>2, <1>3, <2>1, Piece
<1>6. SubSeq(x, 1, m) = SubSeq(l, 1, m)
  <2>1. \A i \in 1..m : 1 + i - 1 = i /\ i \in 1..k
    BY <1>1, <1>3
  <2> QED
    BY <1>2, <1>5, <2>1, SeqEqual
<1>7. SubSeq(l, 1, m) \in Prefixes(l)
  BY <1>3 DEF Prefixes
<1> QED
  BY <1>4, <1>5, <1>6, <1>7 DEF x, m

\* Replacing line i by <<"x">> leaves every other line.
LEMMA OneLineReplaced ==
  ASSUME NEW t \in Seq(Char), NEW i \in 1..Len(Lines(t))
  PROVE  Lines(ReplaceLines(t, i, i, <<"x">>)) = [Lines(t) EXCEPT ![i] = <<"x">>]
<1>1. PICK ls \in Split : ls = Lines(t)
  BY LinesStep
<1>2. ls \in Seq(Seq(Plain)) /\ Len(ls) \in Nat /\ i \in Nat \ {0} /\ i <= Len(ls)
  BY <1>1 DEF Split
<1>3. PICK x \in Seq(Plain) : x = <<"x">> /\ x \in Seq(Char)
  <2>1. "x" \in Plain
    BY DEF Plain, Char
  <2>2. <<"x">> \in Seq(Plain)
    BY <2>1
  <2> QED
    BY <2>2, PlainIsText
<1>4. Lines(x) = <<x>> /\ <<x>> \in Seq(Seq(Plain)) /\ Len(<<x>>) = 1 /\ <<x>>[1] = x
  BY PlainHasOneLine
<1>5. PICK a, c : /\ a = SubSeq(ls, 1, i - 1) /\ c = SubSeq(ls, i + 1, Len(ls))
                  /\ Lines(ReplaceLines(t, i, i, x)) = a \o <<x>> \o c
  <2>1. Lines(ReplaceLines(t, i, i, x)) = NewLines(t, i, i, x)
    <3>1. i \in Nat /\ i <= i /\ i <= Len(Lines(t))
      BY <1>1, <1>2
    <3> QED
      BY <1>2, <1>3, <3>1, LinesReplaced
  <2> QED
    BY <1>1, <1>4, <2>1 DEF NewLines
<1>6. /\ a \in Seq(Seq(Plain)) /\ Len(a) = i - 1 /\ \A j \in 1..(i - 1) : a[j] = ls[1 + j - 1]
  <2>1. PICK k \in Nat : k = i - 1
    BY <1>2
  <2>2. k <= Len(ls) /\ 1 <= k + 1 /\ k + 1 - 1 = k /\ 1 \in Nat \ {0}
    BY <1>2, <2>1
  <2>3. /\ SubSeq(ls, 1, k) \in Seq(Seq(Plain)) /\ Len(SubSeq(ls, 1, k)) = k + 1 - 1
        /\ \A j \in 1..(k + 1 - 1) : SubSeq(ls, 1, k)[j] = ls[1 + j - 1]
    BY <1>2, <2>2, Piece
  <2>4. a = SubSeq(ls, 1, k)
    BY <1>5, <2>1
  <2> QED
    BY <2>1, <2>2, <2>3, <2>4
<1>7. /\ c \in Seq(Seq(Plain)) /\ Len(c) = Len(ls) - i
      /\ \A j \in 1..(Len(ls) - i) : c[j] = ls[i + 1 + j - 1]
  <2>1. /\ i + 1 \in Nat \ {0} /\ Len(ls) <= Len(ls) /\ i + 1 <= Len(ls) + 1
        /\ Len(ls) + 1 - (i + 1) = Len(ls) - i
    BY <1>2
  <2> QED
    BY <1>2, <1>5, <2>1, Piece
<1>8. PICK y \in Seq(Seq(Plain)) : /\ y = a \o <<x>> \o c /\ Len(y) = Len(ls)
                                   /\ \A j \in 1..Len(ls) : y[j] = IF j = i THEN x ELSE ls[j]
  <2>1. PICK z \in Seq(Seq(Plain)) :
          /\ z = a \o <<x>> /\ Len(z) = i
          /\ \A j \in 1..i : z[j] = IF j <= i - 1 THEN a[j] ELSE <<x>>[j - (i - 1)]
    <3>1. /\ a \o <<x>> \in Seq(Seq(Plain)) /\ Len(a \o <<x>>) = Len(a) + Len(<<x>>)
          /\ \A j \in 1..(Len(a) + Len(<<x>>)) :
               (a \o <<x>>)[j] = IF j <= Len(a) THEN a[j] ELSE <<x>>[j - Len(a)]
      BY <1>4, <1>6, ConcatProperties
    <3>2. Len(a) = i - 1 /\ Len(a) + Len(<<x>>) = i
      BY <1>2, <1>4, <1>6
    <3> QED
      BY <3>1, <3>2
  <2>2. /\ z \o c \in Seq(Seq(Plain)) /\ Len(z \o c) = Len(z) + Len(c)
        /\ \A j \in 1..(Len(z) + Len(c)) : (z \o c)[j] = IF j <= Len(z) THEN z[j] ELSE c[j - Len(z)]
    BY <1>7, ConcatProperties
  <2>3. Len(z) = i /\ Len(z) + Len(c) = Len(ls)
    <3>1. Len(z) = i /\ Len(c) = Len(ls) - i
      BY <1>7, <2>1
    <3> QED
      BY <1>2, <3>1
  <2>4. ASSUME NEW j \in 1..Len(ls) PROVE (z \o c)[j] = IF j = i THEN x ELSE ls[j]
    <3>1. (z \o c)[j] = IF j <= i THEN z[j] ELSE c[j - i]
      BY <2>2, <2>3
    <3>2. CASE j = i
      <4>1. j \in 1..i /\ ~(j <= i - 1) /\ j - (i - 1) = 1 /\ j <= i
        BY <1>2, <3>2
      <4> QED
        BY <1>4, <2>1, <3>1, <3>2, <4>1
    <3>3. CASE j < i
      <4>1. j \in 1..i /\ j <= i - 1 /\ j \in 1..(i - 1) /\ 1 + j - 1 = j /\ j <= i /\ j # i
        BY <1>2, <3>3
      <4> QED
        BY <1>6, <2>1, <3>1, <4>1
    <3>4. CASE j > i
      <4>1. j - i \in 1..(Len(ls) - i) /\ i + 1 + (j - i) - 1 = j /\ ~(j <= i) /\ j # i
        BY <1>2, <3>4
      <4> QED
        BY <1>7, <3>1, <4>1
    <3> QED
      <4>1. j = i \/ j < i \/ j > i
        BY <1>2
      <4> QED
        BY <4>1, <3>2, <3>3, <3>4
  <2> QED
    BY <2>1, <2>2, <2>3, <2>4
<1>9. y = [ls EXCEPT ![i] = x]
  <2>1. DOMAIN ls = 1..Len(ls) /\ DOMAIN y = 1..Len(ls)
    BY <1>2, <1>8, LenProperties
  <2>2. y = [j \in DOMAIN y |-> y[j]]
    BY <1>8, LenProperties
  <2> QED
    BY <1>2, <1>8, <2>1, <2>2
<1> QED
  BY <1>1, <1>3, <1>5, <1>8, <1>9

-----------------------------------------------------------------------------
(***************************************************************************)
(* The invariant of the file tools.                                        *)
(***************************************************************************)
Entries == {e \in [kind : {"none", "dir", "file"}, text : Seq(Char)] :
              e.kind # "file" => e.text = <<>>}

Places == {n \in Nodes : Within(n, Root)}

\* A disk as it may be: a tree below the root, and what is beside it as it began.
IsDisk(d) ==
  /\ d \in [Nodes -> Entries] /\ IsTree(d)
  /\ \A n \in Nodes : ~Within(n, Root) => d[n].kind = "file"

Counted ==
  /\ answer \in {"running", "ok", "refused", "failed", "crashed"}
  /\ todo # <<>> <=> answer = "running"
  /\ calls \in 0..MaxCalls /\ faults \in 0..MaxFaults

\* The text a tool that writes has come up with.
Meant ==
  CASE call.tool = "write_file" -> call.new
    [] call.tool = "patch_file" -> ReplaceFirstOf(before[call.to].text, call.old, call.new)
    [] call.tool = "patch_lines" ->
         ReplaceLines(before[call.to].text, call.first, call.last, call.new)
    [] OTHER -> <<>>

Writers == {"write_file", "patch_file", "patch_lines"}

\* What a call that was not refused has been found to be.
Granted ==
  /\ call.tool \in Writers \cup {"none", "move_file"}
  /\ call.tool = "none" => todo = <<>> /\ disk = before
  /\ answer = "refused" => call.tool = "none"
  /\ call.tool # "none" => call.to \in Places
  /\ call.tool \in Writers => Meant \in Seq(Char) /\ call.new \in Seq(Char)
  /\ call.tool = "patch_file" =>
       /\ before[call.to].kind = "file" /\ call.old \in Seq(Char)
       /\ Count(before[call.to].text, call.old) = 1
  /\ call.tool = "patch_lines" =>
       /\ before[call.to].kind = "file" /\ call.first \in Nat \ {0} /\ call.last \in Nat
       /\ call.first <= call.last /\ call.first <= Len(Lines(before[call.to].text))
  /\ call.tool = "move_file" => call.from \in Places /\ before[call.from].kind # "none"

\* How far a tool that writes is.
Writing ==
  call.tool \in Writers =>
    \/ todo = <<>> /\ (answer = "ok" => disk[call.to] = File(Meant))
    \/ /\ todo = <<Mkdir(Parent(call.to)), Truncate(call.to), Put(call.to, Meant)>>
       /\ disk = before
    \/ todo = <<Truncate(call.to), Put(call.to, Meant)>>
    \/ todo = <<Put(call.to, Meant)>> /\ disk[call.to].kind = "file"

\* How far a move is: the copy is made only of a file, and to another path.
Copying ==
  /\ call.from # call.to /\ before[call.from].kind = "file"
  /\ disk[call.from] = before[call.from]

Moving ==
  call.tool = "move_file" =>
    \/ /\ todo = <<>>
       /\ answer = "ok" =>
            /\ disk[call.to] = before[call.from]
            /\ call.from # call.to => disk[call.from] = Absent
       /\ before[call.from].kind = "file" => before[call.from] \in {disk[call.from], disk[call.to]}
    \/ todo = <<Mkdir(Parent(call.to)), Rename(call.from, call.to)>> /\ disk = before
    \/ todo = <<Rename(call.from, call.to)>> /\ disk[call.from] = before[call.from]
    \/ /\ todo = <<Truncate(call.to), Put(call.to, before[call.from].text), Unlink(call.from)>>
       /\ Copying
    \/ /\ todo = <<Put(call.to, before[call.from].text), Unlink(call.from)>>
       /\ Copying /\ disk[call.to].kind = "file"
    \/ todo = <<Unlink(call.from)>> /\ Copying /\ disk[call.to] = before[call.from]

FilesInv ==
  /\ IsDisk(disk) /\ IsDisk(before) /\ Counted
  /\ Granted /\ Writing /\ Moving /\ OnlyTheTargetChanges

\* An entry is nothing, a directory, or a file with its text.
LEMMA EntryCases ==
  /\ Absent \in Entries /\ Dir \in Entries
  /\ \A t \in Seq(Char) : File(t) \in Entries /\ File(t).kind = "file" /\ File(t).text = t
  /\ \A e \in Entries : /\ e.kind = "none" <=> e = Absent
                        /\ e.kind = "dir" <=> e = Dir
                        /\ e.kind = "file" <=> e \notin {Absent, Dir}
                        /\ e.kind = "file" => e.text \in Seq(Char) /\ e = File(e.text)
<1>1. <<>> \in Seq(Char)
  BY EmptySeq
<1>2. /\ Absent \in Entries /\ Dir \in Entries
      /\ \A t \in Seq(Char) : File(t) \in Entries /\ File(t).kind = "file" /\ File(t).text = t
  BY <1>1 DEF Entries, Absent, Dir, File
<1>3. ASSUME NEW e \in Entries
      PROVE  /\ e.kind \in {"none", "dir", "file"}
             /\ e.kind = "none" => e = Absent
             /\ e.kind = "dir" => e = Dir
             /\ e.kind = "file" => e.text \in Seq(Char) /\ e = File(e.text)
  BY DEF Entries, Absent, Dir, File
<1>4. Absent.kind = "none" /\ Dir.kind = "dir"
  BY DEF Absent, Dir
<1> QED
  BY <1>2, <1>3, <1>4

\* In a tree, what has something below it is a directory.
LEMMA Below ==
  ASSUME NEW d, IsDisk(d), NEW p \in Places, NEW n \in Nodes, Within(n, p), n # p,
         d[n].kind # "none"
  PROVE  d[p] = Dir
<1> DEFINE Bad(m) == m \in Nodes /\ Within(m, p) /\ m # p /\ d[m].kind # "none"
           K == {k \in 0..Len(n) : \E m \in Nodes : Bad(m) /\ Len(m) = k}
<1>1. Len(n) \in Nat /\ Len(n) \in K
  <2>1. Len(n) \in Nat
    BY NodesArePaths DEF Path
  <2> QED
    BY <2>1
<1>2. K \in SUBSET Nat /\ IsFiniteSet(K)
  <2>1. Len(n) \in Int /\ 0 \in Int
    BY <1>1
  <2>2. IsFiniteSet(0..Len(n))
    BY <2>1, FS_Interval
  <2> QED
    BY <2>1, <2>2, FS_Subset
<1>3. PICK k \in K : \A j \in K : k <= j
  <2> HIDE DEF K
  <2> QED
    BY <1>1, <1>2, Extremes
<1>4. PICK m \in Nodes : Bad(m) /\ Len(m) = k
  OBVIOUS
<1>5. p \in Path /\ m \in Path /\ Root \in Path /\ m # <<>> /\ Within(p, Root)
  BY NodesArePaths DEF Places
<1>6. m # Root /\ Within(m, Root)
  <2>1. Within(m, p)
    BY <1>4
  <2>2. Within(m, Root)
    BY <1>5, <2>1, WithinOrder
  <2>3. ASSUME m = Root PROVE FALSE
    <3>1. Len(m) <= Len(p) /\ Len(p) <= Len(m)
      BY <1>5, <2>1, <2>3, WithinMeans
    <3> QED
      BY <1>4, <1>5, <3>1, WithinOrder
  <2> QED
    BY <2>2, <2>3
<1>7. Parent(m) \in Nodes /\ d[Parent(m)] = Dir
  <2>1. Parent(m) \in Nodes
    BY <1>6, PathAssumption
  <2>2. DOMAIN d = Nodes /\ IsTree(d)
    BY DEF IsDisk
  <2> QED
    BY <1>4, <2>1, <2>2 DEF IsTree
<1>8. /\ Within(Parent(m), p) /\ Len(Parent(m)) = k - 1 /\ k \in Nat \ {0}
      /\ Len(Parent(m)) \in Nat
  <2>1. Within(m, p) /\ m # p
    BY <1>4
  <2> QED
    BY <1>4, <1>5, <2>1, Parents
<1>9. Parent(m) = p
  <2>1. SUFFICES ASSUME Parent(m) # p PROVE FALSE
    OBVIOUS
  <2>2. d[Parent(m)].kind # "none"
    BY <1>7 DEF Dir
  <2>3. k - 1 \in K
    <3>1. k \in 0..Len(n)
      OBVIOUS
    <3>2. k - 1 \in 0..Len(n)
      BY <1>1, <1>8, <3>1
    <3>3. Bad(Parent(m))
      BY <1>7, <1>8, <2>1, <2>2
    <3> QED
      BY <1>7, <1>8, <3>2, <3>3
  <2>4. k <= k - 1
    BY <1>3, <2>3
  <2> QED
    BY <1>8, <2>4
<1> QED
  BY <1>7, <1>9

-----------------------------------------------------------------------------
(***************************************************************************)
(* What the system calls make of a tree.                                   *)
(***************************************************************************)
\* What OnlyTheTargetChanges says of a disk d.
Keeps(d) ==
  \A p \in Nodes : d[p] # before[p] =>
    /\ Within(p, Root)
    /\ \/ call.to # <<>> /\ Within(p, call.to)
       \/ call.from # <<>> /\ Within(p, call.from)
       \/ before[p] = Absent /\ d[p] = Dir /\ Within(call.to, p)

\* A place is a node in the workspace.
LEMMA PlacesAre ==
  \A p \in Places : p \in Nodes /\ p \in Path /\ p # <<>> /\ Within(p, Root) /\ Root \in Path
BY NodesArePaths DEF Places

\* What IsDisk says of a node.
LEMMA Kinds ==
  ASSUME NEW d, IsDisk(d), NEW n \in Nodes
  PROVE  /\ d[n] \in Entries /\ d[n].kind \in {"none", "dir", "file"}
         /\ d[n].kind = "none" <=> d[n] = Absent
         /\ d[n].kind = "dir" <=> d[n] = Dir
         /\ d[n].kind = "file" => d[n].text \in Seq(Char) /\ d[n] = File(d[n].text)
         /\ ~Within(n, Root) => d[n].kind = "file"
         /\ n = Root => d[n] = Dir
         /\ d[n].kind # "none" /\ Parent(n) \in Nodes => d[Parent(n)] = Dir
         /\ DOMAIN d = Nodes
<1>1. d \in [Nodes -> Entries] /\ IsTree(d) /\ (~Within(n, Root) => d[n].kind = "file")
  BY DEF IsDisk
<1>2. d[n] \in Entries /\ DOMAIN d = Nodes
  BY <1>1
<1>3. n = Root => d[n] = Dir
  BY <1>1, <1>2 DEF IsTree
<1>4. d[n].kind # "none" /\ Parent(n) \in Nodes => d[Parent(n)] = Dir
  BY <1>1, <1>2 DEF IsTree
<1>5. d[n].kind \in {"none", "dir", "file"}
  BY <1>2 DEF Entries
<1>6. /\ d[n].kind = "none" <=> d[n] = Absent
      /\ d[n].kind = "dir" <=> d[n] = Dir
      /\ d[n].kind = "file" => d[n].text \in Seq(Char) /\ d[n] = File(d[n].text)
  BY <1>2, EntryCases
<1> QED
  BY <1>1, <1>2, <1>3, <1>4, <1>5, <1>6

\* MkdirAll makes directories of what is missing above a path, and nothing else.
LEMMA Made ==
  ASSUME IsDisk(disk), NEW q \in Places, Succeeds(Mkdir(Parent(q)))
  PROVE  LET d == Effect(Mkdir(Parent(q)))
         IN /\ IsDisk(d)
            /\ \A n \in Nodes : d[n] # disk[n] => disk[n] = Absent /\ d[n] = Dir /\ Within(q, n)
            /\ \A n \in Nodes : ~Within(n, Root) => d[n] = disk[n]
<1>1. PICK up : up = Parent(q) /\ up \in Path /\ Within(q, up) /\ q \in Path
  BY PlacesAre, Parents
<1>2. PICK d : /\ d = Effect(Mkdir(up))
               /\ d = [n \in Nodes |-> IF n \in Above(up) THEN Dir ELSE disk[n]]
  BY DEF Effect, Mkdir
<1>3. \A n \in Above(up) : n \in Nodes /\ Within(up, n) /\ disk[n].kind # "file"
  BY <1>1 DEF Succeeds, Mkdir, Above
<1>4. \A n \in Nodes : d[n] = IF n \in Above(up) THEN Dir ELSE disk[n]
  BY <1>2
<1>5. \A n \in Nodes : ~Within(n, Root) => d[n] = disk[n]
  BY <1>3, <1>4, Kinds
<1>6. ASSUME NEW n \in Nodes, d[n] # disk[n]
      PROVE  disk[n] = Absent /\ d[n] = Dir /\ Within(q, n)
  <2>1. n \in Above(up) /\ d[n] = Dir
    BY <1>4, <1>6
  <2>2. disk[n].kind # "file" /\ Within(up, n) /\ n \in Path
    BY <1>3, <2>1, NodesArePaths
  <2>3. disk[n] = Absent
    BY <1>6, <2>1, <2>2, Kinds
  <2>4. Within(q, n)
    BY <1>1, <2>2, WithinOrder
  <2> QED
    BY <2>1, <2>3, <2>4
<1>7. d \in [Nodes -> Entries]
  <2>1. \A n \in Nodes : d[n] \in Entries
    BY <1>4, Kinds, EntryCases
  <2> QED
    BY <1>2, <2>1
<1>8. ASSUME NEW n \in Nodes, d[n].kind # "none", Parent(n) \in Nodes
      PROVE  d[Parent(n)] = Dir
  <2>1. CASE n \in Above(up)
    <3>1. n \in Path /\ n # <<>> /\ Within(up, n)
      BY <1>3, <2>1, NodesArePaths
    <3>2. Parent(n) \in Path /\ Within(n, Parent(n))
      BY <3>1, Parents
    <3>3. Within(up, Parent(n))
      BY <1>1, <3>1, <3>2, WithinOrder
    <3>4. Parent(n) \in Above(up)
      BY <1>8, <3>3 DEF Above
    <3> QED
      BY <1>4, <1>8, <3>4
  <2>2. CASE n \notin Above(up)
    <3>1. d[n] = disk[n]
      BY <1>4, <2>2
    <3>2. disk[Parent(n)] = Dir
      BY <1>8, <3>1, Kinds
    <3> QED
      BY <1>4, <1>8, <3>2
  <2> QED
    BY <2>1, <2>2
<1>9. \A n \in Nodes : n = Root => d[n] = Dir
  BY <1>4, Kinds
<1>10. IsDisk(d)
  <2>1. DOMAIN d = Nodes
    BY <1>2
  <2>2. IsTree(d)
    BY <1>8, <1>9, <2>1 DEF IsTree
  <2>3. \A n \in Nodes : ~Within(n, Root) => d[n].kind = "file"
    BY <1>5, Kinds
  <2> QED
    BY <1>7, <2>2, <2>3 DEF IsDisk
<1> QED
  BY <1>1, <1>2, <1>5, <1>6, <1>10

\* What becomes of one place that is no directory, its own being there.
LEMMA Replacing ==
  ASSUME IsDisk(disk), NEW q \in Places, disk[q].kind # "dir", HasDirectory(q),
         NEW e \in Entries, e.kind # "dir",
         NEW d, d = [disk EXCEPT ![q] = e]
  PROVE  /\ IsDisk(d) /\ d[q] = e
         /\ \A n \in Nodes : n # q => d[n] = disk[n]
<1>1. /\ q \in Nodes /\ q \in Path /\ q # <<>> /\ Within(q, Root) /\ DOMAIN disk = Nodes
      /\ q # Root
  BY PlacesAre, Kinds
<1>2. /\ d[q] = e /\ DOMAIN d = Nodes
      /\ \A n \in Nodes : n # q => d[n] = disk[n]
  BY <1>1
<1>3. d \in [Nodes -> Entries]
  <2>1. disk \in [Nodes -> Entries]
    BY DEF IsDisk
  <2> QED
    BY <2>1
<1>4. ASSUME NEW n \in Nodes, d[n].kind # "none", Parent(n) \in Nodes
      PROVE  d[Parent(n)] = Dir
  <2>1. disk[Parent(n)] = Dir
    <3>1. CASE n = q
      BY <1>4, <3>1, Kinds DEF HasDirectory
    <3>2. CASE n # q
      BY <1>2, <1>4, <3>2, Kinds
    <3> QED
      BY <3>1, <3>2
  <2>2. Parent(n) # q
    BY <1>1, <2>1, Kinds
  <2> QED
    BY <1>2, <1>4, <2>1, <2>2
<1>5. \A n \in Nodes : n = Root => d[n] = Dir
  BY <1>1, <1>2, Kinds
<1>6. \A n \in Nodes : ~Within(n, Root) => d[n].kind = "file"
  BY <1>1, <1>2, Kinds
<1>7. IsTree(d)
  BY <1>2, <1>4, <1>5 DEF IsTree
<1> QED
  BY <1>2, <1>3, <1>6, <1>7 DEF IsDisk

\* A file has a directory.
LEMMA FilesHaveOne ==
  ASSUME IsDisk(disk), NEW q \in Nodes, disk[q].kind = "file"
  PROVE  HasDirectory(q)
BY Kinds DEF HasDirectory

\* A rename moves a tree and leaves one.
LEMMA Renaming ==
  ASSUME IsDisk(disk), NEW p \in Places, NEW q \in Places, p # q, disk[p].kind # "none",
         Renamable(p, q)
  PROVE  /\ IsDisk(Renamed(p, q)) /\ Renamed(p, q)[q] = disk[p] /\ Renamed(p, q)[p] = Absent
         /\ \A n \in Nodes : ~Within(n, p) /\ ~Within(n, q) => Renamed(p, q)[n] = disk[n]
<1>1. PICK d : d = Renamed(p, q)
  OBVIOUS
<1>2. /\ p \in Nodes /\ p \in Path /\ p # <<>> /\ Within(p, Root)
      /\ q \in Nodes /\ q \in Path /\ q # <<>> /\ Within(q, Root) /\ Root \in Path
  BY PlacesAre
<1>3. /\ disk[q].kind # "dir" /\ HasDirectory(q) /\ q # Root
      /\ disk[p].kind = "dir" => ~Within(q, p)
  BY Kinds DEF Renamable
<1>4. Parent(q) \in Nodes /\ disk[Parent(q)] = Dir /\ Parent(q) \in Path
  <2>1. Parent(q) \in Nodes
    BY <1>2, <1>3, PathAssumption
  <2> QED
    BY <1>3, <2>1, Kinds, NodesArePaths DEF HasDirectory
<1>5. ~Within(q, p)
  <2>1. SUFFICES ASSUME Within(q, p), disk[p].kind # "dir" PROVE FALSE
    BY <1>3
  <2>2. Within(Parent(q), p)
    BY <1>2, <2>1, Parents
  <2>3. CASE Parent(q) = p
    BY <1>2, <1>4, <2>1, <2>3, Kinds
  <2>4. CASE Parent(q) # p
    <3>1. disk[Parent(q)].kind # "none"
      BY <1>4 DEF Dir
    <3>2. disk[p] = Dir
      BY <1>4, <2>2, <2>4, <3>1, Below
    <3> QED
      BY <1>2, <2>1, <3>2, Kinds
  <2> QED
    BY <2>3, <2>4
<1>6. p # Root
  BY <1>2, <1>5
<1>7. /\ DOMAIN d = Nodes
      /\ \A n \in Nodes : Within(n, q) =>
           d[n] = IF Moved(n, p, q) \in Nodes THEN disk[Moved(n, p, q)] ELSE Absent
      /\ \A n \in Nodes : ~Within(n, q) /\ Within(n, p) => d[n] = Absent
      /\ \A n \in Nodes : ~Within(n, q) /\ ~Within(n, p) => d[n] = disk[n]
  BY <1>1 DEF Renamed, Moved
<1>8. d[q] = disk[p]
  <2>1. Within(q, q) /\ Moved(q, p, q) = p
    BY <1>2, WithinOrder, MovedPaths
  <2> QED
    BY <1>2, <1>7, <2>1
<1>15. d[p] = Absent
  <2>1. ~Within(p, q)
    <3>1. SUFFICES ASSUME Within(p, q) PROVE FALSE
      OBVIOUS
    <3>2. disk[q] = Dir
      BY <1>2, <3>1, Below
    <3> QED
      BY <1>3, <3>2 DEF Dir
  <2>2. Within(p, p)
    BY <1>2, WithinOrder
  <2> QED
    BY <1>2, <1>7, <2>1, <2>2
<1>9. d \in [Nodes -> Entries]
  <2>1. ASSUME NEW n \in Nodes PROVE d[n] \in Entries
    BY <1>7, Kinds, EntryCases
  <2>2. d = [n \in Nodes |-> d[n]]
    BY <1>1 DEF Renamed
  <2> QED
    BY <2>1, <2>2
<1>10. ASSUME NEW n \in Nodes, Within(n, q) \/ Within(n, p) PROVE Within(n, Root)
  BY <1>2, <1>10, NodesArePaths, WithinOrder
<1>11. \A n \in Nodes : ~Within(n, Root) => d[n].kind = "file"
  BY <1>7, <1>10, Kinds
<1>12. \A n \in Nodes : n = Root => d[n] = Dir
  <2>1. ~Within(Root, q) /\ ~Within(Root, p)
    <3>1. ASSUME NEW x \in Path, Within(x, Root), Within(Root, x) PROVE x = Root
      <4>1. Len(Root) <= Len(x) /\ Len(x) <= Len(Root)
        BY <1>2, <3>1, WithinMeans
      <4> QED
        BY <1>2, <3>1, <4>1, WithinOrder
    <3> QED
      BY <1>2, <1>3, <1>6, <3>1
  <2> QED
    BY <1>7, <2>1, Kinds
<1>13. ASSUME NEW n \in Nodes, d[n].kind # "none", Parent(n) \in Nodes
       PROVE  d[Parent(n)] = Dir
  <2>1. /\ n \in Path /\ n # <<>> /\ Parent(n) \in Path /\ Within(n, Parent(n))
        /\ Absent.kind = "none"
    BY NodesArePaths, Parents DEF Absent
  <2>2. CASE n = q
    <3>1. ~Within(Parent(q), p)
      BY <1>2, <1>4, <1>5, <2>1, <2>2, WithinOrder
    <3>2. ~Within(Parent(q), q)
      <4>1. Len(Parent(q)) = Len(q) - 1 /\ Len(q) \in Nat
        BY <1>2, Parents
      <4>2. ~(Len(q) <= Len(Parent(q)))
        BY <4>1
      <4> QED
        BY <1>2, <1>4, <4>2, WithinMeans
    <3> QED
      BY <1>4, <1>7, <2>2, <3>1, <3>2
  <2>3. CASE n # q /\ Within(n, q)
    <3>1. PICK m : m = Moved(n, p, q)
      OBVIOUS
    <3>2. m \in Nodes /\ disk[m].kind # "none"
      BY <1>7, <1>13, <2>1, <2>3, <3>1
    <3>3. /\ m \in Path /\ m # <<>> /\ Within(m, p) /\ m # p
          /\ Moved(Parent(n), p, q) = Parent(m)
      BY <1>2, <2>1, <2>3, <3>1, MovedPaths
    <3>4. Within(m, Root) /\ m # Root
      <4>1. Within(m, Root)
        BY <1>2, <3>3, WithinOrder
      <4>2. ASSUME m = Root PROVE FALSE
        <5>1. Len(m) <= Len(p)
          BY <1>2, <4>2, WithinMeans
        <5> QED
          BY <1>2, <3>3, <5>1, WithinOrder
      <4> QED
        BY <4>1, <4>2
    <3>5. Parent(m) \in Nodes /\ disk[Parent(m)] = Dir
      BY <3>2, <3>4, PathAssumption, Kinds
    <3>6. Within(Parent(n), q)
      BY <1>2, <2>1, <2>3, Parents
    <3> QED
      BY <1>7, <1>13, <3>3, <3>5, <3>6
  <2>4. CASE ~Within(n, q) /\ Within(n, p)
    BY <1>7, <1>13, <2>1, <2>4
  <2>5. CASE ~Within(n, q) /\ ~Within(n, p)
    <3>1. disk[Parent(n)] = Dir
      BY <1>7, <1>13, <2>5, Kinds
    <3>2. ~Within(Parent(n), q) /\ ~Within(Parent(n), p)
      BY <1>2, <2>1, <2>5, WithinOrder
    <3> QED
      BY <1>7, <1>13, <3>1, <3>2
  <2> QED
    BY <2>2, <2>3, <2>4, <2>5
<1>14. IsTree(d)
  BY <1>7, <1>12, <1>13 DEF IsTree
<1> QED
  BY <1>1, <1>7, <1>8, <1>9, <1>11, <1>14, <1>15 DEF IsDisk

-----------------------------------------------------------------------------
(***************************************************************************)
(* The steps of a call keep the invariant.                                 *)
(***************************************************************************)
\* What each system call needs and does.
LEMMA SystemCalls ==
  /\ \A p : /\ Mkdir(p).op = "mkdir" /\ Recovery(Mkdir(p)) = <<>>
            /\ Truncate(p).op = "truncate" /\ Recovery(Truncate(p)) = <<>>
            /\ Truncate(p).path = p
            /\ Unlink(p).op = "unlink" /\ Recovery(Unlink(p)) = <<>>
            /\ Succeeds(Truncate(p)) => disk[p].kind # "dir" /\ HasDirectory(p)
            /\ Effect(Truncate(p)) = [disk EXCEPT ![p] = File(<<>>)]
            /\ Effect(Unlink(p)) = [disk EXCEPT ![p] = Absent]
  /\ \A p, x : /\ Put(p, x).op = "put" /\ Put(p, x).path = p /\ Put(p, x).text = x
               /\ Recovery(Put(p, x)) = <<>>
               /\ Effect(Put(p, x)) = [disk EXCEPT ![p] = File(x)]
  /\ \A p, q : /\ Rename(p, q).op = "rename" /\ Rename(p, q).path = p /\ Rename(p, q).to = q
               /\ Succeeds(Rename(p, q)) <=> Renamable(p, q)
               /\ Recovery(Rename(p, q)) = IF IsFile(p) THEN Fallback(p, q) ELSE <<>>
               /\ Effect(Rename(p, q)) = IF p = q THEN disk ELSE Renamed(p, q)
<1>1. \A p : /\ Mkdir(p).op = "mkdir" /\ Recovery(Mkdir(p)) = <<>>
             /\ Truncate(p).op = "truncate" /\ Recovery(Truncate(p)) = <<>>
             /\ Truncate(p).path = p
             /\ Unlink(p).op = "unlink" /\ Recovery(Unlink(p)) = <<>>
  BY DEF Mkdir, Truncate, Unlink, Recovery
<1>2. \A p : /\ Succeeds(Truncate(p)) => disk[p].kind # "dir" /\ HasDirectory(p)
             /\ Effect(Truncate(p)) = [disk EXCEPT ![p] = File(<<>>)]
             /\ Effect(Unlink(p)) = [disk EXCEPT ![p] = Absent]
  BY DEF Truncate, Unlink, Succeeds, Effect
<1>3. \A p, x : /\ Put(p, x).op = "put" /\ Put(p, x).path = p /\ Put(p, x).text = x
                /\ Recovery(Put(p, x)) = <<>>
                /\ Effect(Put(p, x)) = [disk EXCEPT ![p] = File(x)]
  BY DEF Put, Recovery, Effect
<1>4. \A p, q : /\ Rename(p, q).op = "rename" /\ Rename(p, q).path = p /\ Rename(p, q).to = q
                /\ Succeeds(Rename(p, q)) <=> Renamable(p, q)
                /\ Recovery(Rename(p, q)) = IF IsFile(p) THEN Fallback(p, q) ELSE <<>>
                /\ Effect(Rename(p, q)) = IF p = q THEN disk ELSE Renamed(p, q)
  BY DEF Rename, Succeeds, Recovery, Effect
<1> QED
  BY <1>1, <1>2, <1>3, <1>4

\* The call a tool is about to make.
Upcoming ==
  \/ Head(todo) = Mkdir(Parent(call.to)) /\ disk = before
  \/ Head(todo) = Truncate(call.to)
  \/ disk[call.to].kind = "file" /\ \E x \in Seq(Char) : Head(todo) = Put(call.to, x)
  \/ /\ call.from \in Places /\ Head(todo) = Unlink(call.from)
     /\ disk[call.from].kind = "file" /\ call.from # call.to
  \/ /\ call.from \in Places /\ Head(todo) = Rename(call.from, call.to)
     /\ disk[call.from] = before[call.from] /\ disk[call.from].kind # "none"

\* A call that is not over: what it does next, and that a move still has its source.
LEMMA Ready ==
  ASSUME FilesInv, todo # <<>>
  PROVE  /\ call.to \in Places /\ call.tool \in Writers \cup {"move_file"} /\ Upcoming
         /\ call.tool = "move_file" => /\ call.from \in Places /\ before[call.from].kind # "none"
                                       /\ disk[call.from] = before[call.from]
<1>1. /\ call.tool \in Writers \cup {"move_file"} /\ call.to \in Places
      /\ call.tool \in Writers => Meant \in Seq(Char)
      /\ call.tool = "move_file" => call.from \in Places /\ before[call.from].kind # "none"
      /\ Writing /\ Moving
  BY DEF FilesInv, Granted
<1>2. CASE call.tool \in Writers
  <2>1. call.tool # "move_file"
    BY <1>2 DEF Writers
  <2>2. \/ /\ todo = <<Mkdir(Parent(call.to)), Truncate(call.to), Put(call.to, Meant)>>
           /\ disk = before
        \/ todo = <<Truncate(call.to), Put(call.to, Meant)>>
        \/ todo = <<Put(call.to, Meant)>> /\ disk[call.to].kind = "file"
    BY <1>1, <1>2 DEF Writing
  <2>3. \/ Head(todo) = Mkdir(Parent(call.to)) /\ disk = before
        \/ Head(todo) = Truncate(call.to)
        \/ Head(todo) = Put(call.to, Meant) /\ disk[call.to].kind = "file"
    BY <2>2
  <2> QED
    BY <1>1, <1>2, <2>1, <2>3 DEF Upcoming
<1>3. CASE call.tool = "move_file"
  <2>1. call.from \in Nodes /\ before[call.from].kind = "file" =>
          before[call.from].text \in Seq(Char)
    BY <1>1, <1>3, Kinds, PlacesAre DEF FilesInv
  <2>2. \/ todo = <<Mkdir(Parent(call.to)), Rename(call.from, call.to)>> /\ disk = before
        \/ todo = <<Rename(call.from, call.to)>> /\ disk[call.from] = before[call.from]
        \/ /\ todo = <<Truncate(call.to), Put(call.to, before[call.from].text), Unlink(call.from)>>
           /\ Copying
        \/ /\ todo = <<Put(call.to, before[call.from].text), Unlink(call.from)>>
           /\ Copying /\ disk[call.to].kind = "file"
        \/ todo = <<Unlink(call.from)>> /\ Copying
    BY <1>1, <1>3 DEF Moving
  <2>3. \/ Head(todo) = Mkdir(Parent(call.to)) /\ disk = before
        \/ Head(todo) = Rename(call.from, call.to) /\ disk[call.from] = before[call.from]
        \/ Head(todo) = Truncate(call.to) /\ Copying
        \/ /\ Head(todo) = Put(call.to, before[call.from].text)
           /\ Copying /\ disk[call.to].kind = "file"
        \/ Head(todo) = Unlink(call.from) /\ Copying
    BY <2>2
  <2>4. disk[call.from] = before[call.from]
    BY <2>3 DEF Copying
  <2>5. Upcoming
    <3>1. CASE Head(todo) = Mkdir(Parent(call.to)) /\ disk = before
      BY <3>1 DEF Upcoming
    <3>2. CASE Head(todo) = Rename(call.from, call.to) /\ disk[call.from] = before[call.from]
      <4>1. disk[call.from].kind # "none"
        BY <1>1, <1>3, <3>2
      <4> QED
        BY <1>1, <1>3, <3>2, <4>1 DEF Upcoming
    <3>3. CASE Head(todo) = Truncate(call.to)
      BY <3>3 DEF Upcoming
    <3>4. CASE /\ Head(todo) = Put(call.to, before[call.from].text)
               /\ Copying /\ disk[call.to].kind = "file"
      <4>1. before[call.from].text \in Seq(Char)
        BY <1>1, <1>3, <2>1, <3>4, PlacesAre DEF Copying
      <4> QED
        BY <3>4, <4>1 DEF Upcoming
    <3>5. CASE Head(todo) = Unlink(call.from) /\ Copying
      <4>1. disk[call.from].kind = "file" /\ call.from # call.to
        BY <3>5 DEF Copying
      <4> QED
        BY <1>1, <1>3, <3>5, <4>1 DEF Upcoming
    <3> QED
      BY <2>3, <3>1, <3>2, <3>3, <3>4, <3>5
  <2> QED
    BY <1>1, <1>3, <2>4, <2>5
<1> QED
  BY <1>1, <1>2, <1>3

\* What is done to one place keeps the rest.
LEMMA KeptBut ==
  ASSUME FilesInv, NEW p \in Places, p = call.to \/ p = call.from, NEW d,
         \A n \in Nodes : n # p => d[n] = disk[n]
  PROVE  Keeps(d)
<1>1. p \in Path /\ p # <<>> /\ Within(p, Root) /\ Within(p, p)
  BY PlacesAre, WithinOrder
<1>2. Keeps(disk)
  BY DEF FilesInv, OnlyTheTargetChanges, Keeps
<1>3. SUFFICES ASSUME NEW n \in Nodes, d[n] # before[n]
               PROVE  /\ Within(n, Root)
                      /\ \/ call.to # <<>> /\ Within(n, call.to)
                         \/ call.from # <<>> /\ Within(n, call.from)
                         \/ before[n] = Absent /\ d[n] = Dir /\ Within(call.to, n)
  BY DEF Keeps
<1>4. CASE n = p
  BY <1>1, <1>4
<1>5. CASE n # p
  <2>1. d[n] = disk[n]
    BY <1>5
  <2>2. /\ Within(n, Root)
        /\ \/ call.to # <<>> /\ Within(n, call.to)
           \/ call.from # <<>> /\ Within(n, call.from)
           \/ before[n] = Absent /\ disk[n] = Dir /\ Within(call.to, n)
    BY <1>2, <1>3, <2>1 DEF Keeps
  <2> QED
    BY <2>1, <2>2
<1> QED
  BY <1>4, <1>5

\* A write to the file a tool names, whole or not.
LEMMA TargetWritten ==
  ASSUME FilesInv, call.to \in Places, disk[call.to].kind = "file", NEW x \in Seq(Char),
         NEW d, d = [disk EXCEPT ![call.to] = File(x)]
  PROVE  /\ IsDisk(d) /\ Keeps(d) /\ d[call.to] = File(x)
         /\ \A n \in Nodes : n # call.to => d[n] = disk[n]
<1>1. File(x) \in Entries /\ File(x).kind = "file" /\ IsDisk(disk) /\ HasDirectory(call.to)
  BY EntryCases, FilesHaveOne, PlacesAre DEF FilesInv
<1>2. PICK e \in Entries : e = File(x) /\ e.kind # "dir"
  BY <1>1
<1>3. IsDisk(d)
  <2>1. d = [disk EXCEPT ![call.to] = e] /\ disk[call.to].kind # "dir"
    BY <1>2
  <2>2. IsDisk(disk) /\ HasDirectory(call.to) /\ e.kind # "dir"
    BY <1>1, <1>2
  <2> QED
    BY <2>1, <2>2, Replacing, Zenon
<1>4. d[call.to] = e /\ \A n \in Nodes : n # call.to => d[n] = disk[n]
  <2>1. DOMAIN disk = Nodes /\ call.to \in Nodes
    BY <1>1, PlacesAre DEF IsDisk
  <2> QED
    BY <1>2, <2>1
<1>5. Keeps(d)
  BY <1>4, KeptBut
<1> QED
  BY <1>2, <1>3, <1>4, <1>5

\* Every system call a tool makes leaves a disk, and changes what it may.
LEMMA DiskKept ==
  ASSUME FilesInv, todo # <<>>, Succeeds(Head(todo)), NEW d, d = Effect(Head(todo))
  PROVE  IsDisk(d) /\ Keeps(d)
<1>1. /\ call.to \in Places /\ Upcoming /\ IsDisk(disk) /\ IsDisk(before) /\ call.to \in Nodes
      /\ call.to \in Path /\ call.to # <<>> /\ Within(call.to, Root) /\ Root \in Path
  BY Ready, PlacesAre DEF FilesInv
<1>2. CASE Head(todo) = Mkdir(Parent(call.to)) /\ disk = before
  <2>1. /\ IsDisk(d)
        /\ \A n \in Nodes : d[n] # disk[n] => disk[n] = Absent /\ d[n] = Dir /\ Within(call.to, n)
        /\ \A n \in Nodes : ~Within(n, Root) => d[n] = disk[n]
    BY <1>1, <1>2, Made
  <2>2. Keeps(d)
    BY <1>2, <2>1 DEF Keeps
  <2> QED
    BY <2>1, <2>2
<1>3. CASE Head(todo) = Truncate(call.to)
  <2>1. /\ disk[call.to].kind # "dir" /\ HasDirectory(call.to)
        /\ d = [disk EXCEPT ![call.to] = File(<<>>)]
    BY <1>3, SystemCalls
  <2>2. PICK e \in Entries : e = File(<<>>) /\ e.kind # "dir"
    BY EntryCases, EmptySeq
  <2>3. IsDisk(d) /\ \A n \in Nodes : n # call.to => d[n] = disk[n]
    BY <1>1, <2>1, <2>2, Replacing
  <2>4. Keeps(d)
    BY <1>1, <2>3, KeptBut
  <2> QED
    BY <2>3, <2>4
<1>4. CASE disk[call.to].kind = "file" /\ \E x \in Seq(Char) : Head(todo) = Put(call.to, x)
  <2>1. PICK x \in Seq(Char) : Head(todo) = Put(call.to, x)
    BY <1>4
  <2>2. d = [disk EXCEPT ![call.to] = File(x)]
    BY <2>1, SystemCalls
  <2> QED
    BY <1>1, <1>4, <2>2, TargetWritten
<1>5. CASE /\ call.from \in Places /\ Head(todo) = Unlink(call.from)
           /\ disk[call.from].kind = "file" /\ call.from # call.to
  <2>1. d = [disk EXCEPT ![call.from] = Absent] /\ HasDirectory(call.from)
    BY <1>1, <1>5, SystemCalls, FilesHaveOne, PlacesAre
  <2>2. PICK e \in Entries : e = Absent /\ e.kind # "dir"
    BY EntryCases
  <2>3. IsDisk(d) /\ \A n \in Nodes : n # call.from => d[n] = disk[n]
    BY <1>1, <1>5, <2>1, <2>2, Replacing
  <2>4. Keeps(d)
    BY <1>5, <2>3, KeptBut
  <2> QED
    BY <2>3, <2>4
<1>6. CASE /\ call.from \in Places /\ Head(todo) = Rename(call.from, call.to)
           /\ disk[call.from] = before[call.from] /\ disk[call.from].kind # "none"
  <2>1. Renamable(call.from, call.to)
    BY <1>6, SystemCalls
  <2>2. CASE call.from = call.to
    <3>1. d = disk
      BY <1>6, <2>2, SystemCalls
    <3> QED
      BY <1>1, <3>1, KeptBut
  <2>3. CASE call.from # call.to
    <3>1. d = Renamed(call.from, call.to)
      BY <1>6, <2>3, SystemCalls
    <3>2. /\ IsDisk(d)
          /\ \A n \in Nodes : ~Within(n, call.from) /\ ~Within(n, call.to) => d[n] = disk[n]
      BY <1>1, <1>6, <2>1, <2>3, <3>1, Renaming
    <3>3. /\ call.from # <<>> /\ call.from \in Path /\ Within(call.from, Root)
      BY <1>6, PlacesAre
    <3>4. ASSUME NEW n \in Nodes, d[n] # before[n]
          PROVE  /\ Within(n, Root)
                 /\ \/ call.to # <<>> /\ Within(n, call.to)
                    \/ call.from # <<>> /\ Within(n, call.from)
                    \/ before[n] = Absent /\ d[n] = Dir /\ Within(call.to, n)
      <4>1. CASE Within(n, call.from) \/ Within(n, call.to)
        <5>1. Within(n, Root)
          BY <1>1, <3>3, <4>1, NodesArePaths, WithinOrder
        <5> QED
          BY <1>1, <3>3, <4>1, <5>1
      <4>2. CASE ~Within(n, call.from) /\ ~Within(n, call.to)
        <5>1. d[n] = disk[n]
          BY <3>2, <4>2
        <5> QED
          BY <3>4, <5>1 DEF FilesInv, OnlyTheTargetChanges
      <4> QED
        BY <4>1, <4>2
    <3> QED
      BY <3>2, <3>4 DEF Keeps
  <2> QED
    BY <2>2, <2>3
<1> QED
  BY <1>1, <1>2, <1>3, <1>4, <1>5, <1>6 DEF Upcoming

-----------------------------------------------------------------------------
(***************************************************************************)
(* The actions.                                                            *)
(***************************************************************************)
\* A prefix of a text is one.
LEMMA PrefixesAre ==
  ASSUME NEW x \in Seq(Char), NEW part \in Prefixes(x)
  PROVE  part \in Seq(Char)
<1>1. PICK n \in 0..Len(x) : part = SubSeq(x, 1, n)
  BY DEF Prefixes
<1>2. n \in Nat /\ n <= Len(x) /\ 1 <= n + 1 /\ 1 \in Nat \ {0} /\ Len(x) \in Nat
  BY <1>1
<1> QED
  BY <1>1, <1>2, Piece

\* What is meant depends on the call alone.
LEMMA Stays ==
  ASSUME UNCHANGED <<call, before>>
  PROVE  Meant' = Meant
BY DEF Meant

\* A system call that is made.
LEMMA SucceededKeeps ==
  ASSUME FilesInv, Succeeded
  PROVE  FilesInv'
<1>1. /\ todo # <<>> /\ Succeeds(Head(todo)) /\ disk' = Effect(Head(todo)) /\ todo' = Tail(todo)
      /\ answer' = IF Tail(todo) = <<>> THEN "ok" ELSE "running"
      /\ call' = call /\ before' = before /\ calls' = calls /\ faults' = faults /\ Meant' = Meant
  BY Stays DEF Succeeded
<1>2. /\ call.to \in Places /\ call.tool \in Writers \cup {"move_file"}
      /\ call.tool = "move_file" => /\ call.from \in Places /\ before[call.from].kind # "none"
                                    /\ disk[call.from] = before[call.from]
      /\ call.to \in Nodes /\ IsDisk(disk) /\ IsDisk(before)
  <2>1. /\ call.to \in Places /\ call.tool \in Writers \cup {"move_file"}
        /\ call.tool = "move_file" => /\ call.from \in Places /\ before[call.from].kind # "none"
                                      /\ disk[call.from] = before[call.from]
    BY <1>1, Ready
  <2>2. IsDisk(disk) /\ IsDisk(before)
    BY DEF FilesInv
  <2> QED
    BY <2>1, <2>2, PlacesAre
<1>3. IsDisk(disk') /\ Keeps(disk')
  BY <1>1, DiskKept
<1>4. OnlyTheTargetChanges'
  BY <1>1, <1>3 DEF Keeps, OnlyTheTargetChanges
<1>5. Counted'
  BY <1>1 DEF FilesInv, Counted
<1>6. Granted'
  <2>1. call.tool # "none"
    BY <1>2 DEF Writers
  <2>2. answer' # "refused"
    BY <1>1
  <2>3. Granted
    BY DEF FilesInv
  <2> QED
    BY <1>1, <2>1, <2>2, <2>3 DEF Granted
<1>7. Writing'
  <2>1. SUFFICES ASSUME call.tool \in Writers
                 PROVE  \/ todo' = <<>> /\ (answer' = "ok" => disk'[call.to] = File(Meant))
                        \/ todo' = <<Truncate(call.to), Put(call.to, Meant)>>
                        \/ todo' = <<Put(call.to, Meant)>> /\ disk'[call.to].kind = "file"
    BY <1>1 DEF Writing
  <2>2. \/ todo = <<Mkdir(Parent(call.to)), Truncate(call.to), Put(call.to, Meant)>>
        \/ todo = <<Truncate(call.to), Put(call.to, Meant)>>
        \/ todo = <<Put(call.to, Meant)>> /\ disk[call.to].kind = "file"
    BY <1>1, <2>1 DEF FilesInv, Writing
  <2>3. CASE todo = <<Mkdir(Parent(call.to)), Truncate(call.to), Put(call.to, Meant)>>
    BY <1>1, <2>3
  <2>4. CASE todo = <<Truncate(call.to), Put(call.to, Meant)>>
    <3>1. Head(todo) = Truncate(call.to) /\ Tail(todo) = <<Put(call.to, Meant)>>
      BY <2>4
    <3>2. disk' = [disk EXCEPT ![call.to] = File(<<>>)] /\ DOMAIN disk = Nodes
      BY <1>1, <1>2, <3>1, SystemCalls DEF IsDisk
    <3>3. disk'[call.to].kind = "file"
      BY <1>2, <3>2 DEF File
    <3> QED
      BY <1>1, <3>1, <3>3
  <2>5. CASE todo = <<Put(call.to, Meant)>>
    <3>1. Head(todo) = Put(call.to, Meant) /\ Tail(todo) = <<>>
      BY <2>5
    <3>2. disk' = [disk EXCEPT ![call.to] = File(Meant)] /\ DOMAIN disk = Nodes
      BY <1>1, <1>2, <3>1, SystemCalls DEF IsDisk
    <3>3. disk'[call.to] = File(Meant)
      BY <1>2, <3>2
    <3> QED
      BY <1>1, <3>1, <3>3
  <2> QED
    BY <2>2, <2>3, <2>4, <2>5
<1>8. Moving'
  <2> DEFINE p == call.from
             q == call.to
             was == before[p]
  <2>1. SUFFICES ASSUME call.tool = "move_file"
                 PROVE  \/ /\ todo' = <<>>
                           /\ answer' = "ok" => disk'[q] = was /\ (p # q => disk'[p] = Absent)
                           /\ was.kind = "file" => was \in {disk'[p], disk'[q]}
                        \/ todo' = <<Rename(p, q)>> /\ disk'[p] = was
                        \/ /\ todo' = <<Put(q, was.text), Unlink(p)>>
                           /\ p # q /\ was.kind = "file" /\ disk'[p] = was /\ disk'[q].kind = "file"
                        \/ /\ todo' = <<Unlink(p)>> /\ p # q /\ was.kind = "file" /\ disk'[p] = was
                           /\ disk'[q] = was
    BY <1>1 DEF Moving, Copying
  <2>2. \/ todo = <<Mkdir(Parent(q)), Rename(p, q)>> /\ disk = before
        \/ todo = <<Rename(p, q)>>
        \/ todo = <<Truncate(q), Put(q, was.text), Unlink(p)>> /\ Copying
        \/ todo = <<Put(q, was.text), Unlink(p)>> /\ Copying
        \/ todo = <<Unlink(p)>> /\ Copying /\ disk[q] = was
    BY <1>1, <2>1 DEF FilesInv, Moving
  <2>3. /\ p \in Places /\ p \in Nodes /\ q \in Nodes /\ was.kind # "none" /\ disk[p] = was
        /\ DOMAIN disk = Nodes /\ disk[p].kind # "none"
    BY <1>2, <2>1, PlacesAre DEF IsDisk
  <2>4. CASE todo = <<Mkdir(Parent(q)), Rename(p, q)>>
    <3>1. Head(todo) = Mkdir(Parent(q)) /\ Tail(todo) = <<Rename(p, q)>>
      BY <2>4
    <3>2. \A n \in Nodes : disk'[n] # disk[n] => disk[n] = Absent
      BY <1>1, <1>2, <3>1, Made
    <3>3. disk'[p] = was
      BY <2>3, <3>2 DEF Absent
    <3> QED
      BY <1>1, <3>1, <3>3
  <2>5. CASE todo = <<Rename(p, q)>>
    <3>1. Head(todo) = Rename(p, q) /\ Tail(todo) = <<>>
      BY <2>5
    <3>2. Renamable(p, q) /\ disk' = IF p = q THEN disk ELSE Renamed(p, q)
      BY <1>1, <3>1, SystemCalls
    <3>3. disk'[q] = was /\ (p # q => disk'[p] = Absent)
      <4>1. CASE p = q
        BY <2>3, <3>2, <4>1
      <4>2. CASE p # q
        BY <1>2, <2>3, <3>2, <4>2, Renaming
      <4> QED
        BY <4>1, <4>2
    <3> QED
      BY <1>1, <3>1, <3>3
  <2>6. CASE todo = <<Truncate(q), Put(q, was.text), Unlink(p)>> /\ Copying
    <3>1. Head(todo) = Truncate(q) /\ Tail(todo) = <<Put(q, was.text), Unlink(p)>>
      BY <2>6
    <3>2. disk' = [disk EXCEPT ![q] = File(<<>>)]
      BY <1>1, <3>1, SystemCalls
    <3>3. disk'[q].kind = "file" /\ disk'[p] = was /\ p # q /\ was.kind = "file"
      BY <2>3, <2>6, <3>2 DEF File, Copying
    <3> QED
      BY <1>1, <3>1, <3>3
  <2>7. CASE todo = <<Put(q, was.text), Unlink(p)>> /\ Copying
    <3>1. Head(todo) = Put(q, was.text) /\ Tail(todo) = <<Unlink(p)>>
      BY <2>7
    <3>2. disk' = [disk EXCEPT ![q] = File(was.text)]
      BY <1>1, <3>1, SystemCalls
    <3>3. was.kind = "file" /\ p # q
      BY <2>7 DEF Copying
    <3>4. was = File(was.text)
      BY <1>2, <2>3, <3>3, Kinds
    <3>5. disk'[q] = was /\ disk'[p] = was
      BY <2>3, <3>2, <3>3, <3>4
    <3> QED
      BY <1>1, <3>1, <3>3, <3>5
  <2>8. CASE todo = <<Unlink(p)>> /\ Copying /\ disk[q] = was
    <3>1. Head(todo) = Unlink(p) /\ Tail(todo) = <<>> /\ p # q
      BY <2>8 DEF Copying
    <3>2. disk' = [disk EXCEPT ![p] = Absent]
      BY <1>1, <3>1, SystemCalls
    <3>3. disk'[q] = was /\ disk'[p] = Absent
      BY <2>3, <2>8, <3>1, <3>2
    <3> QED
      BY <1>1, <3>1, <3>3
  <2> QED
    BY <2>2, <2>4, <2>5, <2>6, <2>7, <2>8
<1> QED
  BY <1>1, <1>2, <1>3, <1>4, <1>5, <1>6, <1>7, <1>8 DEF FilesInv

\* A call that stops short: what it has done so far is left.
LEMMA StoppedKeeps ==
  ASSUME FilesInv, todo # <<>>, UNCHANGED <<call, before, calls>>, todo' = <<>>,
         answer' \in {"failed", "crashed"}, faults' \in 0..MaxFaults, IsDisk(disk'), Keeps(disk'),
         call.tool = "move_file" => disk'[call.from] = disk[call.from]
  PROVE  FilesInv'
<1>1. /\ call.tool \in Writers \cup {"move_file"}
      /\ call.tool = "move_file" => disk[call.from] = before[call.from]
      /\ call' = call /\ before' = before /\ calls' = calls /\ Meant' = Meant
  BY Ready, Stays
<1>2. OnlyTheTargetChanges'
  BY <1>1 DEF Keeps, OnlyTheTargetChanges
<1>3. Counted'
  BY <1>1 DEF FilesInv, Counted
<1>4. Granted'
  <2>1. call.tool # "none" /\ answer' # "refused" /\ Granted
    BY <1>1 DEF Writers, FilesInv
  <2> QED
    BY <1>1, <2>1 DEF Granted
<1>5. Writing'
  BY <1>1 DEF Writing
<1>6. Moving'
  BY <1>1 DEF Moving
<1> QED
  BY <1>1, <1>2, <1>3, <1>4, <1>5, <1>6 DEF FilesInv

\* The invariant is about the disk as it is.
LEMMA DiskAsItIs == FilesInv => IsDisk(disk) /\ Keeps(disk)
BY DEF FilesInv, OnlyTheTargetChanges, Keeps

\* A system call that is refused: move_file copies and deletes, the others stop.
LEMMA FailedKeeps ==
  ASSUME FilesInv, Failed
  PROVE  FilesInv'
<1>1. /\ todo # <<>> /\ disk' = disk /\ todo' = Recovery(Head(todo)) /\ faults' = faults
      /\ answer' = IF Recovery(Head(todo)) = <<>> THEN "failed" ELSE "running"
      /\ call' = call /\ before' = before /\ calls' = calls /\ Meant' = Meant
      /\ \/ ~Succeeds(Head(todo))
         \/ Head(todo).op = "rename" /\ Head(todo).path # Head(todo).to
  <2>1. FailsWith(disk) /\ todo # <<>> /\ faults' = faults
    BY DEF Failed
  <2>2. UNCHANGED <<call, before, calls>>
    BY <2>1 DEF FailsWith
  <2>3. Meant' = Meant
    BY <2>2, Stays
  <2>4. \/ ~Succeeds(Head(todo))
        \/ Head(todo).op = "rename" /\ Head(todo).path # Head(todo).to
    BY DEF Failed
  <2> QED
    BY <2>1, <2>2, <2>3, <2>4 DEF FailsWith
<1>2. faults' \in 0..MaxFaults /\ IsDisk(disk') /\ Keeps(disk')
  BY <1>1, DiskAsItIs DEF FilesInv, Counted
<1>3. CASE Recovery(Head(todo)) = <<>>
  <2>1. UNCHANGED <<call, before, calls>> /\ todo' = <<>> /\ answer' = "failed"
    BY <1>1, <1>3
  <2> QED
    BY <1>1, <1>2, <2>1, StoppedKeeps
<1>4. CASE Recovery(Head(todo)) # <<>>
  <2> DEFINE p == call.from
             q == call.to
             was == before[p]
  <2>1. Head(todo) = Rename(p, q) /\ p \in Places /\ disk[p] = was
    <3>1. Upcoming
      BY <1>1, Ready
    <3>2. CASE Head(todo) = Mkdir(Parent(q)) \/ Head(todo) = Truncate(q) \/ Head(todo) = Unlink(p)
      BY <1>4, <3>2, SystemCalls
    <3>3. CASE \E x \in Seq(Char) : Head(todo) = Put(q, x)
      <4>1. PICK x \in Seq(Char) : Head(todo) = Put(q, x)
        BY <3>3
      <4> QED
        BY <1>4, <4>1, SystemCalls
    <3>4. CASE p \in Places /\ Head(todo) = Rename(p, q) /\ disk[p] = was
      BY <3>4
    <3> QED
      BY <3>1, <3>2, <3>3, <3>4 DEF Upcoming
  <2>2. /\ q \in Places /\ q \in Nodes /\ call.tool \in Writers \cup {"move_file"}
    BY <1>1, Ready, PlacesAre
  <2>3. IsFile(p) /\ p \in Nodes /\ disk[p].kind = "file" /\ Recovery(Head(todo)) = Fallback(p, q)
    BY <1>4, <2>1, SystemCalls DEF IsFile
  <2>4. todo' = <<Truncate(q), Put(q, was.text), Unlink(p)>>
    BY <1>1, <2>1, <2>3 DEF Fallback, Written, Text
  <2>5. p # q
    <3>1. SUFFICES ASSUME p = q PROVE FALSE
      OBVIOUS
    <3>2. Head(todo).path = Head(todo).to
      BY <2>1, <3>1, SystemCalls
    <3>3. ~Renamable(p, q)
      BY <1>1, <2>1, <3>2, SystemCalls
    <3>4. HasDirectory(q)
      BY <2>2, <2>3, <3>1, FilesHaveOne DEF FilesInv
    <3> QED
      BY <2>2, <2>3, <3>1, <3>3, <3>4 DEF Renamable
  <2>6. call.tool = "move_file"
    <3>1. SUFFICES ASSUME call.tool \in Writers PROVE FALSE
      BY <2>2
    <3>2. \/ Head(todo) = Mkdir(Parent(q)) \/ Head(todo) = Truncate(q) \/ Head(todo) = Put(q, Meant)
      BY <1>1, <3>1 DEF FilesInv, Writing
    <3> QED
      BY <2>1, <3>2, SystemCalls
  <2>7. answer' = "running" /\ todo' # <<>> /\ call.tool \notin Writers \cup {"none"}
    BY <1>1, <1>4, <2>6 DEF Writers
  <2>8. OnlyTheTargetChanges'
    BY <1>1, <1>2 DEF Keeps, OnlyTheTargetChanges
  <2>9. Counted'
    BY <1>1, <2>7 DEF FilesInv, Counted
  <2>10. Granted'
    <3>1. Granted
      BY DEF FilesInv
    <3> QED
      BY <1>1, <2>6, <2>7, <3>1 DEF Granted, Writers
  <2>11. Writing' /\ Moving'
    <3>1. Copying'
      BY <1>1, <2>1, <2>3, <2>5 DEF Copying
    <3> QED
      BY <1>1, <2>4, <2>7, <3>1 DEF Writing, Moving
  <2> QED
    BY <1>1, <1>2, <2>8, <2>9, <2>10, <2>11 DEF FilesInv
<1> QED
  BY <1>3, <1>4

\* A write that is half done, or a call that fails for a reason of its own.
LEMMA FaultedKeeps ==
  ASSUME FilesInv, Faulted
  PROVE  FilesInv'
<1>1. todo # <<>> /\ faults < MaxFaults /\ faults' = faults + 1
  BY DEF Faulted
<1>2. faults' \in 0..MaxFaults
  BY <1>1, BoundAssumption DEF FilesInv, Counted
<1>3. /\ call.to \in Places /\ call.to \in Nodes /\ Upcoming /\ IsDisk(disk)
      /\ call.tool = "move_file" => call.from \in Places
  BY <1>1, Ready, PlacesAre DEF FilesInv
<1>4. PICK s : s = Head(todo)
  OBVIOUS
<1>5. CASE /\ s.op = "put"
           /\ \E part \in Prefixes(s.text) : FailsWith([disk EXCEPT ![s.path] = File(part)])
  <2>1. PICK part \in Prefixes(s.text) : FailsWith([disk EXCEPT ![s.path] = File(part)])
    BY <1>5
  <2>2. PICK x \in Seq(Char) : s = Put(call.to, x) /\ disk[call.to].kind = "file"
    <3>1. \/ s = Mkdir(Parent(call.to)) \/ s = Truncate(call.to) \/ s = Unlink(call.from)
          \/ s = Rename(call.from, call.to)
          \/ disk[call.to].kind = "file" /\ \E x \in Seq(Char) : s = Put(call.to, x)
      BY <1>3, <1>4 DEF Upcoming
    <3>2. /\ s # Mkdir(Parent(call.to)) /\ s # Truncate(call.to) /\ s # Unlink(call.from)
          /\ s # Rename(call.from, call.to)
      BY <1>5, SystemCalls
    <3> QED
      BY <3>1, <3>2
  <2>3. s.path = call.to /\ s.text = x /\ Recovery(s) = <<>>
    BY <2>2, SystemCalls
  <2>4. part \in Seq(Char)
    BY <2>1, <2>3, PrefixesAre
  <2>5. /\ disk' = [disk EXCEPT ![call.to] = File(part)] /\ todo' = <<>> /\ answer' = "failed"
        /\ UNCHANGED <<call, before, calls>>
    BY <1>4, <2>1, <2>3 DEF FailsWith
  <2>6. /\ IsDisk(disk') /\ Keeps(disk')
        /\ \A n \in Nodes : n # call.to => disk'[n] = disk[n]
    BY <1>3, <2>2, <2>4, <2>5, TargetWritten
  <2>7. call.tool = "move_file" => disk'[call.from] = disk[call.from]
    <3>1. SUFFICES ASSUME call.tool = "move_file" PROVE call.from # call.to
      BY <1>3, <2>6, PlacesAre
    <3>2. \/ Head(todo) = Mkdir(Parent(call.to))
          \/ Head(todo) = Rename(call.from, call.to)
          \/ Copying
      BY <1>1, <3>1 DEF FilesInv, Moving
    <3>3. Copying
      BY <1>4, <1>5, <3>2, SystemCalls
    <3> QED
      BY <3>3 DEF Copying
  <2> QED
    BY <1>1, <1>2, <2>5, <2>6, <2>7, StoppedKeeps
<1>6. CASE s.op \in {"mkdir", "truncate", "unlink"} /\ FailsWith(disk)
  <2>1. Recovery(s) = <<>>
    BY <1>6 DEF Recovery
  <2>2. /\ disk' = disk /\ todo' = <<>> /\ answer' = "failed"
        /\ UNCHANGED <<call, before, calls>>
    BY <1>4, <1>6, <2>1 DEF FailsWith
  <2>3. IsDisk(disk') /\ Keeps(disk')
    BY <2>2, DiskAsItIs
  <2> QED
    BY <1>1, <1>2, <2>2, <2>3, StoppedKeeps
<1> QED
  BY <1>4, <1>5, <1>6 DEF Faulted

\* The process dies between two system calls.
LEMMA CrashedKeeps ==
  ASSUME FilesInv, Crashed
  PROVE  FilesInv'
<1>1. /\ todo # <<>> /\ faults < MaxFaults /\ todo' = <<>> /\ answer' = "crashed"
      /\ faults' = faults + 1 /\ disk' = disk /\ UNCHANGED <<call, before, calls>>
  BY DEF Crashed
<1>2. faults' \in 0..MaxFaults
  BY <1>1, BoundAssumption DEF FilesInv, Counted
<1>3. IsDisk(disk') /\ Keeps(disk')
  BY <1>1, DiskAsItIs
<1> QED
  BY <1>1, <1>2, <1>3, StoppedKeeps

-----------------------------------------------------------------------------
(***************************************************************************)
(* The calls of the tools.                                                 *)
(***************************************************************************)
\* What a call begins with.
Begins ==
  /\ todo = <<>> /\ calls < MaxCalls /\ calls' = calls + 1
  /\ before' = disk /\ disk' = disk /\ faults' = faults

\* When a call begins nothing has changed.
LEMMA BeginsKeeps ==
  ASSUME FilesInv, Begins, answer' \in {"running", "refused"}, todo' # <<>> <=> answer' = "running"
  PROVE  IsDisk(disk') /\ IsDisk(before') /\ Counted' /\ OnlyTheTargetChanges'
<1>1. IsDisk(disk) /\ before' = disk /\ disk' = disk /\ faults' = faults /\ calls' = calls + 1
  BY DEF FilesInv, Begins
<1>2. Counted'
  <2>1. calls \in 0..MaxCalls /\ faults \in 0..MaxFaults /\ calls < MaxCalls
    BY DEF FilesInv, Counted, Begins
  <2>2. calls' \in 0..MaxCalls
    BY <1>1, <2>1, BoundAssumption
  <2> QED
    BY <1>1, <2>1, <2>2 DEF Counted
<1>3. OnlyTheTargetChanges'
  BY <1>1 DEF OnlyTheTargetChanges
<1> QED
  BY <1>1, <1>2, <1>3

\* A call that is refused changes nothing.
LEMMA RefusedKeeps ==
  ASSUME FilesInv, Begins, call' = NoToolCall, todo' = <<>>, answer' = "refused"
  PROVE  FilesInv'
<1>1. IsDisk(disk') /\ IsDisk(before') /\ Counted' /\ OnlyTheTargetChanges'
  BY BeginsKeeps
<1>2. call'.tool = "none" /\ disk' = before'
  BY DEF NoToolCall, Begins
<1>3. Granted' /\ Writing' /\ Moving'
  <2>1. "none" \notin Writers
    BY DEF Writers
  <2> QED
    BY <1>2, <2>1 DEF Granted, Writing, Moving, Writers
<1> QED
  BY <1>1, <1>3 DEF FilesInv

\* Either what Called is given becomes the call, or nothing does.
LEMMA CallBegins ==
  ASSUME NEW c, NEW ok \in BOOLEAN, NEW steps, Called(c, ok, steps)
  PROVE  /\ Begins
         /\ ok => call' = c /\ todo' = steps /\ answer' = "running"
         /\ ~ok => call' = NoToolCall /\ todo' = <<>> /\ answer' = "refused"
BY DEF Called, Begins

\* A path that is resolved is in the workspace; what a model writes is a text.
LEMMA Named ==
  /\ \A rel \in Rels : Resolve(rel) # Escapes => Resolve(rel) \in Places
  /\ \A t \in Texts \cup Snippets : t \in Seq(Char)
  /\ Escapes \notin Nodes
<1>1. ASSUME NEW rel \in Rels, Resolve(rel) # Escapes PROVE Resolve(rel) \in Places
  BY <1>1, PathAssumption DEF Resolve, Places
<1>2. STRING \subseteq Char
  BY DEF Char
<1>3. \A t \in Texts \cup Snippets : t \in Seq(Char)
  BY <1>2, TextAssumption, SeqMonotonic
<1>4. Escapes \notin Nodes
  BY NodesArePaths DEF Escapes
<1> QED
  BY <1>1, <1>3, <1>4

\* write_file keeps the invariant.
LEMMA WriteFileKeeps ==
  ASSUME FilesInv, NEW rel \in Rels, NEW new \in Snippets, WriteFile(rel, new)
  PROVE  FilesInv'
<1>1. PICK p : p = Resolve(rel)
  OBVIOUS
<1>2. PICK c : c = [NoToolCall EXCEPT !.tool = "write_file", !.to = p, !.new = new]
  OBVIOUS
<1>3. PICK ok \in BOOLEAN : ok = (p # Escapes /\ ~RewriteInsteadOfPatch(p, new))
  OBVIOUS
<1>4. Called(c, ok, <<Mkdir(Parent(p))>> \o Written(p, new))
  BY <1>1, <1>2, <1>3, Zenon DEF WriteFile
<1>5. /\ Begins
      /\ ok => /\ call' = c /\ todo' = <<Mkdir(Parent(p))>> \o Written(p, new)
               /\ answer' = "running"
      /\ ~ok => call' = NoToolCall /\ todo' = <<>> /\ answer' = "refused"
  BY <1>4, CallBegins
<1>6. CASE ~ok
  BY <1>5, <1>6, RefusedKeeps
<1>7. CASE ok
  <2>1. p \in Places /\ new \in Seq(Char)
    BY <1>1, <1>3, <1>7, Named
  <2>2. call'.tool = "write_file" /\ call'.to = p /\ call'.new = new
    BY <1>2, <1>5, <1>7 DEF NoToolCall
  <2>3. todo' = <<Mkdir(Parent(p)), Truncate(p), Put(p, new)>>
    BY <1>5, <1>7 DEF Written
  <2>4. answer' = "running" /\ todo' # <<>> /\ disk' = before'
    BY <1>5, <1>7, <2>3 DEF Begins
  <2>5. IsDisk(disk') /\ IsDisk(before') /\ Counted' /\ OnlyTheTargetChanges'
    BY <1>5, <2>4, BeginsKeeps
  <2>6. Meant' = new
    BY <2>2 DEF Meant
  <2>7. Granted' /\ Writing' /\ Moving'
    BY <2>1, <2>2, <2>3, <2>4, <2>6 DEF Granted, Writing, Moving, Writers
  <2> QED
    BY <2>5, <2>7 DEF FilesInv
<1> QED
  BY <1>6, <1>7

\* patch_file keeps the invariant: what it writes is a text.
LEMMA PatchFileKeeps ==
  ASSUME FilesInv, NEW rel \in Rels, NEW old \in Snippets, NEW new \in Snippets,
         PatchFile(rel, old, new)
  PROVE  FilesInv'
<1>1. PICK p : p = Resolve(rel)
  OBVIOUS
<1>2. PICK c : c = [NoToolCall EXCEPT !.tool = "patch_file", !.to = p, !.old = old, !.new = new]
  OBVIOUS
<1>3. PICK ok \in BOOLEAN : ok = Patches(p, old)
  BY DEF Patches
<1>4. PICK steps : steps = IF ok THEN Written(p, ReplaceFirstOf(Text(p), old, new)) ELSE <<>>
  OBVIOUS
<1>5. Called(c, ok, steps)
  BY <1>1, <1>2, <1>3, <1>4, Zenon DEF PatchFile
<1>6. /\ Begins
      /\ ok => call' = c /\ todo' = steps /\ answer' = "running"
      /\ ~ok => call' = NoToolCall /\ todo' = <<>> /\ answer' = "refused"
  BY <1>5, CallBegins
<1>7. CASE ~ok
  BY <1>6, <1>7, RefusedKeeps
<1>8. CASE ok
  <2>1. /\ p \in Nodes /\ p \in Places /\ new \in Seq(Char) /\ old \in Seq(Char)
        /\ disk[p].kind = "file" /\ Text(p) = disk[p].text /\ Count(disk[p].text, old) = 1
    <3>1. p \in Nodes /\ disk[p].kind = "file" /\ Count(disk[p].text, old) = 1
      BY <1>3, <1>8 DEF Patches, IsFile, Text
    <3> QED
      BY <1>1, <3>1, Named DEF Text
  <2>2. PICK x \in Seq(Char) : x = ReplaceFirstOf(disk[p].text, old, new)
    <3>1. disk[p].text \in Seq(Char)
      BY <2>1, Kinds DEF FilesInv
    <3> QED
      BY <2>1, <3>1, Replaced
  <2>3. call'.tool = "patch_file" /\ call'.to = p /\ call'.new = new /\ call'.old = old
    BY <1>2, <1>6, <1>8 DEF NoToolCall
  <2>4. todo' = <<Truncate(p), Put(p, x)>>
    BY <1>4, <1>6, <1>8, <2>1, <2>2 DEF Written
  <2>5. answer' = "running" /\ todo' # <<>> /\ disk' = before' /\ before' = disk
    BY <1>6, <1>8, <2>4 DEF Begins
  <2>6. IsDisk(disk') /\ IsDisk(before') /\ Counted' /\ OnlyTheTargetChanges'
    BY <1>6, <2>5, BeginsKeeps
  <2>7. Meant' = x
    BY <2>2, <2>3, <2>5 DEF Meant
  <2>8. Granted' /\ Writing' /\ Moving'
    BY <2>1, <2>3, <2>4, <2>5, <2>7 DEF Granted, Writing, Moving, Writers
  <2> QED
    BY <2>6, <2>8 DEF FilesInv
<1> QED
  BY <1>7, <1>8

\* patch_lines keeps the invariant: what it writes is a text.
LEMMA PatchLinesKeeps ==
  ASSUME FilesInv, NEW rel \in Rels, NEW first \in Int, NEW last \in Int, NEW new \in Snippets,
         PatchLines(rel, first, last, new)
  PROVE  FilesInv'
<1>1. PICK p : p = Resolve(rel)
  OBVIOUS
<1>2. PICK c : c = [NoToolCall EXCEPT !.tool = "patch_lines", !.to = p, !.new = new,
                                      !.first = first, !.last = last]
  OBVIOUS
<1>3. PICK ok \in BOOLEAN :
        ok = (1 <= first /\ first <= last /\ IsFile(p) /\ first <= Len(Lines(Text(p))))
  OBVIOUS
<1>4. PICK steps : steps = IF ok THEN Written(p, ReplaceLines(Text(p), first, last, new)) ELSE <<>>
  OBVIOUS
<1>5. Called(c, ok, steps)
  BY <1>1, <1>2, <1>3, <1>4, Zenon DEF PatchLines
<1>6. /\ Begins
      /\ ok => call' = c /\ todo' = steps /\ answer' = "running"
      /\ ~ok => call' = NoToolCall /\ todo' = <<>> /\ answer' = "refused"
  BY <1>5, CallBegins
<1>7. CASE ~ok
  BY <1>6, <1>7, RefusedKeeps
<1>8. CASE ok
  <2>1. /\ p \in Nodes /\ p \in Places /\ new \in Seq(Char)
        /\ disk[p].kind = "file" /\ Text(p) = disk[p].text
        /\ first \in Nat \ {0} /\ last \in Nat /\ first <= last
        /\ first <= Len(Lines(disk[p].text))
    <3>1. /\ p \in Nodes /\ disk[p].kind = "file" /\ first <= Len(Lines(disk[p].text))
          /\ 1 <= first /\ first <= last
      BY <1>3, <1>8 DEF IsFile, Text
    <3>2. p \in Places /\ new \in Seq(Char)
      BY <1>1, <3>1, Named
    <3>3. first \in Nat \ {0} /\ last \in Nat
      BY <3>1
    <3> QED
      BY <3>1, <3>2, <3>3 DEF Text
  <2>2. PICK x \in Seq(Char) : x = ReplaceLines(disk[p].text, first, last, new)
    <3>1. disk[p].text \in Seq(Char)
      BY <2>1, Kinds DEF FilesInv
    <3> QED
      BY <2>1, <3>1, LinesReplaced
  <2>3. /\ call'.tool = "patch_lines" /\ call'.to = p /\ call'.new = new
        /\ call'.first = first /\ call'.last = last
    BY <1>2, <1>6, <1>8 DEF NoToolCall
  <2>4. todo' = <<Truncate(p), Put(p, x)>>
    BY <1>4, <1>6, <1>8, <2>1, <2>2 DEF Written
  <2>5. answer' = "running" /\ todo' # <<>> /\ disk' = before' /\ before' = disk
    BY <1>6, <1>8, <2>4 DEF Begins
  <2>6. IsDisk(disk') /\ IsDisk(before') /\ Counted' /\ OnlyTheTargetChanges'
    BY <1>6, <2>5, BeginsKeeps
  <2>7. Meant' = x
    BY <2>2, <2>3, <2>5 DEF Meant
  <2>8. Granted'
    BY <2>1, <2>3, <2>4, <2>5, <2>7 DEF Granted, Writers
  <2>9. Writing' /\ Moving'
    BY <2>3, <2>4, <2>7 DEF Writing, Moving, Writers
  <2> QED
    BY <2>6, <2>8, <2>9 DEF FilesInv
<1> QED
  BY <1>7, <1>8

\* move_file keeps the invariant.
LEMMA MoveFileKeeps ==
  ASSUME FilesInv, NEW rel \in Rels, NEW torel \in Rels, MoveFile(rel, torel)
  PROVE  FilesInv'
<1>1. PICK p, q : p = Resolve(rel) /\ q = Resolve(torel)
  OBVIOUS
<1>2. PICK c : c = [NoToolCall EXCEPT !.tool = "move_file", !.from = p, !.to = q]
  OBVIOUS
<1>3. PICK ok \in BOOLEAN : ok = (p # Escapes /\ q # Escapes /\ disk[p].kind # "none")
  OBVIOUS
<1>4. PICK steps : steps = IF ok THEN <<Mkdir(Parent(q)), Rename(p, q)>> ELSE <<>>
  OBVIOUS
<1>5. Called(c, ok, steps)
  BY <1>1, <1>2, <1>3, <1>4, Zenon DEF MoveFile
<1>6. /\ Begins
      /\ ok => call' = c /\ todo' = steps /\ answer' = "running"
      /\ ~ok => call' = NoToolCall /\ todo' = <<>> /\ answer' = "refused"
  BY <1>5, CallBegins
<1>7. CASE ~ok
  BY <1>6, <1>7, RefusedKeeps
<1>8. CASE ok
  <2>1. p \in Places /\ q \in Places /\ disk[p].kind # "none"
    BY <1>1, <1>3, <1>8, Named
  <2>2. call'.tool = "move_file" /\ call'.from = p /\ call'.to = q
    BY <1>2, <1>6, <1>8 DEF NoToolCall
  <2>3. todo' = <<Mkdir(Parent(q)), Rename(p, q)>>
    BY <1>4, <1>6, <1>8
  <2>4. answer' = "running" /\ todo' # <<>> /\ disk' = before' /\ before' = disk
    BY <1>6, <1>8, <2>3 DEF Begins
  <2>5. IsDisk(disk') /\ IsDisk(before') /\ Counted' /\ OnlyTheTargetChanges'
    BY <1>6, <2>4, BeginsKeeps
  <2>6. Granted' /\ Writing' /\ Moving'
    BY <2>1, <2>2, <2>3, <2>4 DEF Granted, Writing, Moving, Writers
  <2> QED
    BY <2>5, <2>6 DEF FilesInv
<1> QED
  BY <1>7, <1>8

\* At first there is a tree and no call.
LEMMA FilesInitially == FilesInit => FilesInv
<1> SUFFICES ASSUME FilesInit PROVE FilesInv
  OBVIOUS
<1>1. /\ disk \in [Nodes -> {Absent, Dir} \cup {File(t) : t \in Texts}] /\ IsTree(disk)
      /\ \A p \in Nodes : ~Within(p, Root) => disk[p] = File(CHOOSE text \in Texts : TRUE)
      /\ todo = <<>> /\ call = NoToolCall /\ before = disk /\ answer = "ok"
      /\ calls = 0 /\ faults = 0
  BY DEF FilesInit
<1>2. {Absent, Dir} \cup {File(t) : t \in Texts} \subseteq Entries
  BY Named, EntryCases
<1>3. disk \in [Nodes -> Entries]
  BY <1>1, <1>2
<1>4. \A p \in Nodes : ~Within(p, Root) => disk[p].kind = "file"
  BY <1>1 DEF File
<1>5. IsDisk(disk) /\ IsDisk(before)
  BY <1>1, <1>3, <1>4 DEF IsDisk
<1>6. Counted
  BY <1>1, BoundAssumption DEF Counted
<1>7. call.tool = "none"
  BY <1>1 DEF NoToolCall
<1>8. Granted /\ Writing /\ Moving
  BY <1>1, <1>7 DEF Granted, Writing, Moving, Writers
<1>9. OnlyTheTargetChanges
  BY <1>1 DEF OnlyTheTargetChanges
<1> QED
  BY <1>5, <1>6, <1>8, <1>9 DEF FilesInv

\* Every step keeps the invariant.
LEMMA FilesStep == FilesInv /\ [FilesNext]_fileVars => FilesInv'
<1> SUFFICES ASSUME FilesInv, [FilesNext]_fileVars PROVE FilesInv'
  OBVIOUS
<1>1. CASE \E rel \in Rels, new \in Snippets : WriteFile(rel, new)
  BY <1>1, WriteFileKeeps
<1>2. CASE \E rel \in Rels, old, new \in Snippets : PatchFile(rel, old, new)
  BY <1>2, PatchFileKeeps
<1>3. CASE \E rel \in Rels, range \in Ranges, new \in Snippets :
             PatchLines(rel, range[1], range[2], new)
  <2>1. PICK rel \in Rels, range \in Ranges, new \in Snippets :
          PatchLines(rel, range[1], range[2], new)
    BY <1>3
  <2>2. range[1] \in Int /\ range[2] \in Int
    BY TextAssumption
  <2> QED
    BY <2>1, <2>2, PatchLinesKeeps
<1>4. CASE \E rel, torel \in Rels : MoveFile(rel, torel)
  BY <1>4, MoveFileKeeps
<1>5. CASE Succeeded
  BY <1>5, SucceededKeeps
<1>6. CASE Failed
  BY <1>6, FailedKeeps
<1>7. CASE Faulted
  BY <1>7, FaultedKeeps
<1>8. CASE Crashed
  BY <1>8, CrashedKeeps
<1>9. CASE UNCHANGED fileVars
  <2>1. /\ disk' = disk /\ todo' = todo /\ call' = call /\ before' = before /\ answer' = answer
        /\ calls' = calls /\ faults' = faults
    BY <1>9 DEF fileVars
  <2>2. Meant' = Meant
    BY <2>1, Stays
  <2>3. Granted' /\ Writing' /\ Moving'
    BY <2>1, <2>2 DEF FilesInv, Granted, Writing, Moving, Copying
  <2>4. Counted' /\ OnlyTheTargetChanges'
    BY <2>1 DEF FilesInv, Counted, OnlyTheTargetChanges
  <2> QED
    BY <2>1, <2>3, <2>4 DEF FilesInv
<1> QED
  BY <1>1, <1>2, <1>3, <1>4, <1>5, <1>6, <1>7, <1>8, <1>9 DEF FilesNext

\* The invariant holds, for any paths, texts and numbers of calls and faults.
THEOREM FilesAreKept == FilesSpec => []FilesInv
BY FilesInitially, FilesStep, PTL DEF FilesSpec

-----------------------------------------------------------------------------
(***************************************************************************)
(* What follows.                                                           *)
(***************************************************************************)
\* The disk stays a tree with the root at its top, and a tool is running exactly when
\* it has system calls left.
THEOREM FilesTypes == FilesSpec => []FilesTypeOK
<1>1. FilesInv => FilesTypeOK
  <2> SUFFICES ASSUME FilesInv PROVE FilesTypeOK
    OBVIOUS
  <2>1. IsDisk(disk) /\ IsDisk(before) /\ Counted
    BY DEF FilesInv
  <2>2. DOMAIN disk = Nodes /\ IsTree(disk) /\ DOMAIN before = Nodes
    BY <2>1 DEF IsDisk
  <2>3. \A p \in Nodes : disk[p].kind \in {"none", "dir", "file"}
    BY <2>1, Kinds
  <2> QED
    BY <2>1, <2>2, <2>3 DEF FilesTypeOK, Counted
<1> QED
  BY <1>1, FilesAreKept, PTL

\* move_file loses nothing: at every moment, after any failed, half done or missing
\* system call, the text of the file is whole at its source or its destination.
THEOREM MovesLoseNothing == FilesSpec => []MoveLosesNothing
<1>1. FilesInv => MoveLosesNothing
  <2> SUFFICES ASSUME FilesInv, call.tool = "move_file", before[call.from].kind = "file"
               PROVE  before[call.from] \in {disk[call.from], disk[call.to]}
    BY DEF MoveLosesNothing
  <2>1. CASE todo = <<>>
    BY <2>1 DEF FilesInv, Moving
  <2>2. CASE todo # <<>>
    BY <2>2, Ready
  <2> QED
    BY <2>1, <2>2
<1> QED
  BY <1>1, FilesAreKept, PTL

\* A tool changes what it names, what is moved with that, and the directories above:
\* nothing else, and nothing outside the workspace.
THEOREM OnlyTargetsChange == FilesSpec => []OnlyTheTargetChanges
<1>1. FilesInv => OnlyTheTargetChanges
  BY DEF FilesInv
<1> QED
  BY <1>1, FilesAreKept, PTL

\* After "ok" the file is what was asked for.
LEMMA WantedIsDone ==
  ASSUME FilesInv, answer = "ok"
  PROVE  Wanted
<1> DEFINE was == before[call.to].text
           is == disk[call.to].text
<1>1. todo = <<>> /\ Granted /\ Writing /\ Moving
  BY DEF FilesInv, Counted
<1>2. call.tool \in Writers => disk[call.to] = File(Meant) /\ is = Meant
  <2>1. call.tool \in Writers => disk[call.to] = File(Meant)
    BY <1>1 DEF Writing
  <2> QED
    BY <2>1 DEF File
<1>3. CASE call.tool = "write_file"
  BY <1>2, <1>3 DEF Writers, Meant, Wanted
<1>4. ASSUME call.tool \in Writers, before[call.to].kind = "file" PROVE was \in Seq(Char)
  BY <1>1, <1>4, PlacesAre, Kinds DEF FilesInv, Granted, Writers
<1>5. CASE call.tool = "patch_file"
  <2>1. /\ before[call.to].kind = "file" /\ call.old \in Seq(Char) /\ call.new \in Seq(Char)
        /\ Count(was, call.old) = 1 /\ call.tool \in Writers
    BY <1>1, <1>5 DEF Granted, Writers
  <2>2. \E u \in Prefixes(was) :
          /\ u \o call.old \in Prefixes(was)
          /\ ReplaceFirstOf(was, call.old, call.new) =
               u \o call.new \o SubSeq(was, Len(u \o call.old) + 1, Len(was))
    BY <1>4, <2>1, Replaced
  <2>3. is = ReplaceFirstOf(was, call.old, call.new)
    BY <1>2, <1>5, <2>1 DEF Meant
  <2> QED
    BY <1>5, <2>2, <2>3 DEF Wanted
<1>6. CASE call.tool = "patch_lines"
  <2>1. /\ before[call.to].kind = "file" /\ call.new \in Seq(Char)
        /\ call.first \in Nat \ {0} /\ call.last \in Nat
        /\ call.first <= call.last /\ call.first <= Len(Lines(was)) /\ call.tool \in Writers
    BY <1>1, <1>6 DEF Granted, Writers
  <2>2. is = ReplaceLines(was, call.first, call.last, call.new)
    BY <1>2, <1>6, <2>1 DEF Meant
  <2>3. LinesAre(was, is, call.first, call.last, call.new)
    <3>1. PICK t \in Seq(Char), new \in Seq(Char) : t = was /\ new = call.new
      BY <1>4, <2>1
    <3>2. PICK first \in Nat \ {0}, last \in Nat : first = call.first /\ last = call.last
      BY <2>1
    <3>3. first <= last /\ first <= Len(Lines(t))
      BY <2>1, <3>1, <3>2
    <3>4. LinesAre(t, ReplaceLines(t, first, last, new), first, last, new)
      BY <3>3, LinesWanted
    <3> QED
      BY <2>2, <3>1, <3>2, <3>4
  <2> QED
    BY <1>6, <2>3 DEF Wanted, LinesAre
<1>7. CASE call.tool = "move_file"
  <2>1. disk[call.to] = before[call.from] /\ (call.from # call.to => disk[call.from] = Absent)
    BY <1>1, <1>7 DEF Moving
  <2> QED
    BY <1>7, <2>1 DEF Wanted
<1>8. CASE call.tool = "none"
  BY <1>8 DEF Wanted
<1> QED
  BY <1>1, <1>3, <1>5, <1>6, <1>7, <1>8 DEF Granted, Writers

\* A read that shows less than the file says so.
LEMMA ReadsAreTrue ==
  ASSUME NEW t \in Seq(Char), NEW cap \in 0..(MaxRead + 1)
  PROVE  /\ Shown(t, cap).body \in Prefixes(t)
         /\ Shown(t, cap).body = t \/ Shown(t, cap).note
<1>1. Len(t) \in Nat /\ cap \in Nat /\ MaxRead \in Nat
  BY SizeAssumption
<1>2. PICK limit \in Nat : limit = IF cap = 0 \/ cap > MaxRead THEN MaxRead ELSE cap
  BY <1>1
<1>3. PICK k : k = IF limit < Len(t) THEN limit ELSE Len(t)
  OBVIOUS
<1>4. k \in 0..Len(t)
  BY <1>1, <1>3
<1>5. Shown(t, cap).body = SubSeq(t, 1, k) /\ Shown(t, cap).note = (limit < Len(t))
  BY <1>2, <1>3 DEF Shown
<1>6. SubSeq(t, 1, k) \in Prefixes(t)
  BY <1>4 DEF Prefixes
<1>7. ~(limit < Len(t)) => SubSeq(t, 1, k) = t
  BY <1>3, SubSeqFull
<1> QED
  BY <1>5, <1>6, <1>7

\* What a model is told is true: "ok" means that the file is as asked - for patch_lines
\* line by line, for patch_file with one occurrence replaced, for move_file with
\* nothing left at the source; a read that is cut says so.
THEOREM AnswersHold == FilesSpec => []AnswersAreTrue
<1>1. FilesInv => AnswersAreTrue
  <2> SUFFICES ASSUME FilesInv PROVE AnswersAreTrue
    OBVIOUS
  <2>1. answer = "ok" => Wanted
    BY WantedIsDone
  <2>2. call.tool = "patch_file" => Count(before[call.to].text, call.old) = 1
    BY DEF FilesInv, Granted
  <2>3. ASSUME NEW p \in Nodes, NEW cap \in 0..(MaxRead + 1), IsFile(p)
        PROVE  LET shown == Shown(Text(p), cap)
               IN /\ shown.body \in Prefixes(Text(p))
                  /\ shown.body = Text(p) \/ shown.note
    <3>1. Text(p) \in Seq(Char)
      BY <2>3, Kinds DEF IsFile, Text, FilesInv
    <3> QED
      BY <3>1, ReadsAreTrue
  <2> QED
    BY <2>1, <2>2, <2>3 DEF AnswersAreTrue
<1> QED
  BY <1>1, FilesAreKept, PTL

\* The line numbers of grep_files are those patch_lines goes by, and a line that is
\* not shown whole is marked, for every text.
THEOREM NumbersAgree == FilesSpec => []LineNumbersAgree
<1>1. FilesInv => LineNumbersAgree
  <2> SUFFICES ASSUME FilesInv, NEW t \in {Text(p) : p \in {q \in Nodes : IsFile(q)}},
                      NEW g \in UNION {Grep(t, s) : s \in Snippets}
               PROVE  LET was == Lines(t)
                          is == Lines(ReplaceLines(t, g.line, g.line, <<"x">>))
                      IN /\ g.line \in DOMAIN was /\ is = [was EXCEPT ![g.line] = <<"x">>]
                         /\ IF g.cut THEN g.text \in Prefixes(was[g.line]) /\ Len(g.text) = MaxShown
                                     ELSE TrimCR(g.text) = TrimCR(was[g.line])
    BY Zenon DEF LineNumbersAgree
  <2>1. t \in Seq(Char)
    BY Kinds DEF IsFile, Text, FilesInv
  <2>2. PICK i \in DOMAIN Scanned(t) : g = Match(i, Scanned(t)[i])
    BY DEF Grep
  <2>3. /\ i \in 1..Len(Lines(t)) /\ Lines(t) \in Split /\ Lines(t)[i] \in Seq(Plain)
        /\ TrimCR(Scanned(t)[i]) = TrimCR(Lines(t)[i])
        /\ \E k \in 0..Len(Lines(t)[i]) : Scanned(t)[i] = SubSeq(Lines(t)[i], 1, k)
    BY <2>1, ScannedLines, LinesStep
  <2>4. Lines(ReplaceLines(t, i, i, <<"x">>)) = [Lines(t) EXCEPT ![i] = <<"x">>]
    BY <2>1, <2>3, OneLineReplaced
  <2>5. i \in DOMAIN Lines(t)
    BY <2>3 DEF Split
  <2>6. /\ g.line = i /\ g.text = Cut(Scanned(t)[i], MaxShown)
        /\ g.cut = (Len(Scanned(t)[i]) > MaxShown)
    BY <2>2 DEF Match
  <2>7. ASSUME g.cut
        PROVE  g.text \in Prefixes(Lines(t)[i]) /\ Len(g.text) = MaxShown
    <3>1. PICK k \in 0..Len(Lines(t)[i]) : Scanned(t)[i] = SubSeq(Lines(t)[i], 1, k)
      BY <2>3
    <3>2. Len(SubSeq(Lines(t)[i], 1, k)) > MaxShown
      BY <2>6, <2>7, <3>1
    <3>3. /\ Cut(SubSeq(Lines(t)[i], 1, k), MaxShown) \in Prefixes(Lines(t)[i])
          /\ Len(Cut(SubSeq(Lines(t)[i], 1, k), MaxShown)) = MaxShown
      BY <2>3, <3>1, <3>2, CutBegins, Zenon
    <3> QED
      BY <2>6, <3>1, <3>3, Zenon
  <2>8. ~g.cut => TrimCR(g.text) = TrimCR(Lines(t)[i])
    BY <2>3, <2>6 DEF Cut
  <2>9. /\ g.line \in DOMAIN Lines(t)
        /\ Lines(ReplaceLines(t, g.line, g.line, <<"x">>)) = [Lines(t) EXCEPT ![g.line] = <<"x">>]
        /\ g.cut => g.text \in Prefixes(Lines(t)[g.line]) /\ Len(g.text) = MaxShown
        /\ ~g.cut => TrimCR(g.text) = TrimCR(Lines(t)[g.line])
    BY <2>4, <2>5, <2>6, <2>7, <2>8
  <2> QED
    BY <2>9, Zenon
<1> QED
  BY <1>1, FilesAreKept, PTL

\* A subtask whose checks pass has produced each file its plan promised, unless its
\* own check names that file and does not look at it.
THEOREM PassingIsProducing == FilesSpec => []PassedMeansProduced
<1>1. PassedMeansProduced
  <2> SUFFICES ASSUME NEW sub \in Subtasks, Passes(sub), NEW p \in sub.hints
               PROVE  \/ IsFile(Resolve(p)) /\ Text(Resolve(p)) # <<>>
                      \/ p = sub.check.path /\ sub.check.type \in {"none", "shell", "http"}
    BY DEF PassedMeansProduced
  <2>1. CASE p # sub.check.path
    <3>1. RunCheck(FileExists(p))
      BY <2>1 DEF Passes, DerivedChecks
    <3> QED
      BY <3>1 DEF RunCheck, FileExists
  <2>2. CASE p = sub.check.path
    <3>1. RunCheck(sub.check)
      BY DEF Passes
    <3>2. sub.check.contains # <<>> => Count(<<>>, sub.check.contains) = 0
      BY CountOfNone
    <3>3. Cut(<<>>, MaxChecked) = <<>>
      BY SizeAssumption DEF Cut
    <3> QED
      BY <2>2, <3>1, <3>2, <3>3 DEF RunCheck
  <2> QED
    BY <2>1, <2>2
<1> QED
  BY <1>1, PTL
=============================================================================
