--------------------------- MODULE BackgroundProcs ---------------------------
(***************************************************************************)
(* Background processes: the registry of internal/tools/background.go, the *)
(* tools that use it (background_tools.go), the process group of           *)
(* procgroup_unix.go and the three ways cmd/agent/main.go ends: main       *)
(* returns and its deferred StopAll runs, the signal goroutine calls       *)
(* StopAll and os.Exit, or log.Fatalf exits at once.                       *)
(*                                                                         *)
(* A start_background call c is also the name of its entry: ids are given  *)
(* out under the lock and never reused.  A process leads a group; it may   *)
(* leave a child behind, in its group or escaped from it.                  *)
(***************************************************************************)
EXTENDS Naturals, FiniteSets

CONSTANTS
  Calls,     \* bound: the start_background calls of a run
  Stops,     \* bound: the stop_background calls of a run
  Teardowns  \* the two callers of StopAll: {"deferred", "signal"}

ASSUME CallerAssumption == Teardowns = {"deferred", "signal"} /\ Stops \cap Teardowns = {}

VARIABLES
  stage,   \* stage[c]: how far the start_background call is
  leader,  \* leader[c]: the process
  child,   \* child[c]: what it started and left behind
  exited,  \* exited[c]: bgProc.exited
  job,     \* job[s]: a caller of stop: what it stops and how far it is
  queue,   \* queue[t]: the ids StopAll has still to stop
  signal,  \* the signal goroutine has caught a signal
  ended    \* how the agent's process ended, "no" before that

vars == <<stage, leader, child, exited, job, queue, signal, ended>>

Stoppers == Stops \union Teardowns
Known    == {c \in Calls : stage[c] # "idle"}
NoCall   == "none"
Idle     == [at |-> "idle", target |-> NoCall]

Init ==
  /\ stage  = [c \in Calls |-> "idle"]
  /\ leader = [c \in Calls |-> "none"]
  /\ child  = [c \in Calls |-> "none"]
  /\ exited = [c \in Calls |-> FALSE]
  /\ job    = [s \in Stoppers |-> Idle]
  /\ queue  = [t \in Teardowns |-> {}]
  /\ signal = FALSE
  /\ ended  = "no"

Up == ended = "no"

\* The tools run in goroutines the main one joins: it moves on between batches.
NoToolRuns ==
  /\ \A c \in Calls : stage[c] \in {"idle", "returned"}
  /\ \A s \in Stops : job[s].at \in {"idle", "stopped", "error"}

\* No tool runs any more once main is on its way out.
MainRuns == Up /\ job["deferred"].at = "idle"

-----------------------------------------------------------------------------
(***************************************************************************)
(* start_background.                                                       *)
(***************************************************************************)
\* The entry is there before the process is.
Register(c) ==
  /\ MainRuns /\ stage[c] = "idle"
  /\ stage' = [stage EXCEPT ![c] = "registered"]
  /\ UNCHANGED <<leader, child, exited, job, queue, signal, ended>>

Start(c) ==
  /\ Up /\ stage[c] = "registered"
  /\ stage'  = [stage EXCEPT ![c] = "started"]
  /\ leader' = [leader EXCEPT ![c] = "alive"]
  /\ UNCHANGED <<child, exited, job, queue, signal, ended>>

StartFails(c) ==
  /\ Up /\ stage[c] = "registered"
  /\ stage'  = [stage EXCEPT ![c] = "started"]
  /\ exited' = [exited EXCEPT ![c] = TRUE]
  /\ UNCHANGED <<leader, child, job, queue, signal, ended>>

\* The settle time is over.
Settled(c) ==
  /\ Up /\ stage[c] = "started"
  /\ stage' = [stage EXCEPT ![c] = "returned"]
  /\ UNCHANGED <<leader, child, exited, job, queue, signal, ended>>

\* Mutant: without WaitDelay, Wait lasts while a child holds the output pipe.
WaitReturnsLate(c) == leader[c] = "dead" /\ child[c] = "none"

\* WaitDelay closes the pipes some time after the process itself has exited.
WaitReturns(c) == leader[c] = "dead"

\* The goroutine in cmd.Wait.
Reap(c) ==
  /\ Up /\ WaitReturns(c) /\ ~exited[c]
  /\ exited' = [exited EXCEPT ![c] = TRUE]
  /\ UNCHANGED <<stage, leader, child, job, queue, signal, ended>>

(***************************************************************************)
(* The processes themselves.                                               *)
(***************************************************************************)
Forks(c, kind) ==
  /\ leader[c] = "alive" /\ child[c] = "none"
  /\ child' = [child EXCEPT ![c] = kind]
  /\ UNCHANGED <<stage, leader, exited, job, queue, signal, ended>>

Exits(c) ==
  /\ leader[c] = "alive"
  /\ leader' = [leader EXCEPT ![c] = "dead"]
  /\ UNCHANGED <<stage, child, exited, job, queue, signal, ended>>

ChildExits(c) ==
  /\ child[c] # "none"
  /\ child' = [child EXCEPT ![c] = "none"]
  /\ UNCHANGED <<stage, leader, exited, job, queue, signal, ended>>

-----------------------------------------------------------------------------
(***************************************************************************)
(* stop, called by stop_background and by StopAll.                         *)
(***************************************************************************)
\* Mutant: a process that has exited is not killed.
KillNeededUnlessExited(c) == leader[c] # "none" /\ ~exited[c]

\* cmd.Process is not nil.
KillNeeded(c) == leader[c] # "none"

StopBackground(s, c) ==
  /\ MainRuns /\ job[s] = Idle
  /\ job' = [job EXCEPT ![s] =
       IF c \in Known /\ KillNeeded(c) THEN [at |-> "kill", target |-> c]
                                       ELSE [at |-> "error", target |-> c]]
  /\ UNCHANGED <<stage, leader, child, exited, queue, signal, ended>>

\* Mutant: only the direct child is killed.
GroupKilledAlone(c) == UNCHANGED child

\* kill(-pid): the child goes too, unless it left the group.
GroupKilled(c) ==
  child' = [child EXCEPT ![c] = IF @ = "grouped" THEN "none" ELSE @]

Kill(s) ==
  /\ Up /\ job[s].at = "kill"
  /\ leader' = [leader EXCEPT ![job[s].target] = "dead"]
  /\ GroupKilled(job[s].target)
  /\ job' = [job EXCEPT ![s].at = "wait"]
  /\ UNCHANGED <<stage, exited, queue, signal, ended>>

After(s, verdict) == IF s \in Stops THEN verdict ELSE "next"

\* waitExited sees the flag within stopGrace, ...
SeesExit(s) ==
  /\ Up /\ job[s].at = "wait" /\ exited[job[s].target]
  /\ job' = [job EXCEPT ![s].at = After(s, "stopped")]
  /\ UNCHANGED <<stage, leader, child, exited, queue, signal, ended>>

\* ... or the grace is over.
GraceOver(s) ==
  /\ Up /\ job[s].at = "wait" /\ ~exited[job[s].target]
  /\ job' = [job EXCEPT ![s].at = After(s, "error")]
  /\ UNCHANGED <<stage, leader, child, exited, queue, signal, ended>>

\* StopAll takes the ids under the lock, ...
Snapshot(t) ==
  /\ job' = [job EXCEPT ![t] = [at |-> "next", target |-> NoCall]]
  /\ queue' = [queue EXCEPT ![t] = Known]

\* Mutant: StopAll reads the map again after every stop.
LeftReread(t, c) == Known \ {c}

Left(t, c) == queue[t] \ {c}

\* ... and stops them one by one.
StopNext(t) ==
  /\ Up /\ job[t].at = "next"
  /\ \E c \in queue[t] :
       /\ queue' = [queue EXCEPT ![t] = Left(t, c)]
       /\ job' = IF KillNeeded(c)
                 THEN [job EXCEPT ![t] = [at |-> "kill", target |-> c]] ELSE job
  /\ UNCHANGED <<stage, leader, child, exited, signal, ended>>

AllStopped(t) == job[t].at = "next" /\ queue[t] = {}

-----------------------------------------------------------------------------
(***************************************************************************)
(* The ends of the agent.                                                  *)
(***************************************************************************)
\* main returns: its deferred StopAll, ...
MainReturns ==
  /\ MainRuns /\ NoToolRuns
  /\ Snapshot("deferred")
  /\ UNCHANGED <<stage, leader, child, exited, signal, ended>>

\* ... then the process ends.
MainExits ==
  /\ Up /\ AllStopped("deferred")
  /\ ended' = "returned"
  /\ UNCHANGED <<stage, leader, child, exited, job, queue, signal>>

\* log.Fatalf after an error, a cancelled request among them: no StopAll.
Fatal ==
  /\ MainRuns /\ NoToolRuns
  /\ ended' = "fatal"
  /\ UNCHANGED <<stage, leader, child, exited, job, queue, signal>>

\* The signal goroutine cancels the context (stop) ...
Signal ==
  /\ Up /\ ~signal
  /\ signal' = TRUE
  /\ UNCHANGED <<stage, leader, child, exited, job, queue, ended>>

\* ... calls StopAll, ...
SignalStopsAll ==
  /\ Up /\ signal /\ job["signal"].at = "idle"
  /\ Snapshot("signal")
  /\ UNCHANGED <<stage, leader, child, exited, signal, ended>>

\* ... and exits.
SignalExits ==
  /\ Up /\ AllStopped("signal")
  /\ ended' = "signal"
  /\ UNCHANGED <<stage, leader, child, exited, job, queue, signal>>

Next ==
  \/ \E c \in Calls :
       \/ Register(c)
       \/ Start(c)
       \/ StartFails(c)
       \/ Settled(c)
       \/ Reap(c)
       \/ Exits(c)
       \/ ChildExits(c)
       \/ \E kind \in {"grouped", "escaped"} : Forks(c, kind)
       \/ \E s \in Stops : StopBackground(s, c)
  \/ \E s \in Stoppers : Kill(s) \/ SeesExit(s) \/ GraceOver(s)
  \/ \E t \in Teardowns : StopNext(t)
  \/ MainReturns
  \/ MainExits
  \/ Fatal
  \/ Signal
  \/ SignalStopsAll
  \/ SignalExits

Spec == Init /\ [][Next]_vars

(***************************************************************************)
(* The scheduler runs each Wait goroutine once its Wait can return, and    *)
(* each caller of stop, whose wait is bounded by stopGrace.                *)
(***************************************************************************)
FairSpec ==
  /\ Spec
  /\ \A c \in Calls : WF_vars(Reap(c))
  /\ \A s \in Stoppers : WF_vars(Kill(s)) /\ WF_vars(SeesExit(s) \/ GraceOver(s))
  /\ \A t \in Teardowns : WF_vars(StopNext(t))
  /\ WF_vars(MainExits) /\ WF_vars(SignalExits) /\ WF_vars(SignalStopsAll)

-----------------------------------------------------------------------------
(***************************************************************************)
(* Properties.                                                             *)
(***************************************************************************)
\* The type of every variable; what is recorded as exited is not alive.
TypeOK ==
  /\ stage \in [Calls -> {"idle", "registered", "started", "returned"}]
  /\ leader \in [Calls -> {"none", "alive", "dead"}]
  /\ child \in [Calls -> {"none", "grouped", "escaped"}]
  /\ exited \in [Calls -> BOOLEAN] /\ \A c \in Calls : exited[c] => leader[c] # "alive"
  /\ job \in [Stoppers -> [at : {"idle", "kill", "wait", "next", "stopped", "error"},
                           target : Calls \union {NoCall}]]
  /\ queue \in [Teardowns -> SUBSET Calls]
  /\ signal \in BOOLEAN /\ ended \in {"no", "returned", "fatal", "signal"}

\* What kill(-pid) can reach of c is alive.
Survives(c) == leader[c] = "alive" \/ child[c] = "grouped"

\* "The verdict is whether the process actually exited": a stop_background that
\* answers "stopped" left nothing of the group alive, whoever else stopped, waited
\* for or outlived it meanwhile.
StoppedMeansGone ==
  \A s \in Stops : job[s].at = "stopped" => ~Survives(job[s].target)

\* The deferred StopAll finishes with nothing alive that was ever started: no
\* tool starts anything behind its snapshot.
ReturnLeavesNothing == ended = "returned" => \A c \in Calls : ~Survives(c)

\* "a surviving grandchild that still holds the output pipe" does not keep the
\* harness from learning that the process is gone.
ExitIsLearnt == \A c \in Calls : leader[c] = "dead" ~> exited[c] \/ ~Up

\* A StopAll that began comes to its end and the agent's process with it,
\* whatever keeps starting, stopping or waiting meanwhile.
TeardownEnds == \A t \in Teardowns : job[t].at # "idle" ~> ~Up
=============================================================================
