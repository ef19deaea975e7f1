------------------------------ MODULE EvalSweep ------------------------------
(***************************************************************************)
(* What the processes that measure one backend share: the lock file of     *)
(* cmd/eval/lock.go, the startup of cmd/eval/main.go and cmd/agent/main.go *)
(* that finds out which server is answering, and the requests of           *)
(* internal/llm whose constraints depend on that answer.                   *)
(*                                                                         *)
(* A process is a slot of `Procs': it is started with some flags and a     *)
(* process id, and ends by returning from main (which runs the deferred    *)
(* release), by log.Fatalf (which does not) or by being killed.  takeLock  *)
(* is a sequence of system calls: Stat, ReadFile with the signal-0 probe,  *)
(* and os.WriteFile, which first truncates and then writes.  A descriptor  *)
(* outlives the name it was opened by: `linked' are the processes whose    *)
(* open descriptor still is the file called .eval-lock.                    *)
(***************************************************************************)
EXTENDS Integers, FiniteSets

CONSTANTS
  Procs,       \* slots for eval and agent processes
  Pids,        \* process ids the operating system hands out
  Flags,       \* command lines, records [role, force, kind, require, grammar]
  Servers,     \* what may listen at the backend's address, [kind, weights, window]
  MaxStarts,   \* bound: how many processes are started
  MaxChanges,  \* bound: how often the backend changes under a process
  NoPid, NoFile, NoStamp, NoFlag   \* no process, no lock file, an empty one, no flags

Kinds == {"kobold", "llama"}
Weights == {srv.weights : srv \in Servers}
Unknown == "(unknown)"

ASSUME PidAssumption == /\ NoPid \notin Pids /\ NoFile \notin Pids /\ NoStamp \notin Pids
                        /\ NoFile # NoStamp
ASSUME FlagAssumption == /\ NoFlag \notin Flags
                         /\ \A f \in Flags : /\ f.role \in {"eval", "agent"}
                                             /\ f.force \in BOOLEAN /\ f.kind \in Kinds
                                             /\ f.grammar \in BOOLEAN
                                             /\ f.require \in {"any"} \cup Weights
ASSUME ServerAssumption == \A srv \in Servers : /\ srv.kind \in Kinds \cup {"down"}
                                                /\ srv.window \in Nat
                                                /\ srv.weights # Unknown
ASSUME BoundAssumption == MaxStarts \in Nat /\ MaxChanges \in Nat

VARIABLES
  pc, pid, flag,   \* where each process is, its id, its command line
  sawOld,          \* takeLock: the age Stat gave was staleLockAfter or more
  linked, lock,    \* see above; the file's stamp and whether it is three hours old
  foreign,         \* the process ids other programs of the machine have
  starts, server, changes,
  window, known,   \* what main was told: the context limit (-1: an error) and the model
  \* Observed:
  disturbed,       \* the processes whose questions the backend did not stand still for
  measured,        \* what was wrong with the answers a process has used
  excuse           \* why two evals may be running: "raced", "forced", "outlived"

vars == <<pc, pid, flag, sawOld, linked, lock, foreign, starts, server, changes,
          window, known, disturbed, measured, excuse>>

locking == <<sawOld, linked, lock, excuse>>
backend == <<server, changes>>
asking  == <<window, known, disturbed, measured>>
process == <<pid, flag, foreign, starts>>

TakingLock == {"judge", "truncate", "stamp"}
Startup    == {"window", "model", "detect", "require"}
Stages     == {"idle", "stat", "prepare", "measure"} \cup TakingLock \cup Startup

\* The process is past takeLock, and no other eval is meant to be.
Sweeping(p) == /\ pc[p] \in {"prepare", "measure"} \cup Startup
               /\ flag[p].role = "eval"

\* A process that talks to the backend.
Talking(p) == pc[p] \in {"measure"} \cup Startup

Init ==
  /\ pc = [p \in Procs |-> "idle"] /\ pid = [p \in Procs |-> NoPid]
  /\ flag = [p \in Procs |-> NoFlag]
  /\ sawOld = [p \in Procs |-> FALSE] /\ linked = {}
  /\ lock = [pid |-> NoFile, old |-> FALSE]
  /\ foreign = {} /\ starts = 0 /\ server \in Servers /\ changes = 0
  /\ window = [p \in Procs |-> -1] /\ known = [p \in Procs |-> Unknown]
  /\ disturbed = {} /\ measured = [p \in Procs |-> {}] /\ excuse = {}

-----------------------------------------------------------------------------
(***************************************************************************)
(* Processes begin and end.                                                *)
(***************************************************************************)
Running(n) == n \in foreign \/ \E p \in Procs : pid[p] = n

Goes(p, stage) == pc' = [pc EXCEPT ![p] = stage]

\* main parses its flags; an eval goes on to takeLock, an agent has no lock.
Start(p) ==
  /\ pc[p] = "idle" /\ starts < MaxStarts
  /\ \E n \in Pids, f \in Flags :
       /\ ~Running(n)
       /\ pid' = [pid EXCEPT ![p] = n] /\ flag' = [flag EXCEPT ![p] = f]
       /\ Goes(p, IF f.role = "eval" THEN "stat" ELSE "window")
  /\ starts' = starts + 1
  /\ UNCHANGED <<locking, backend, asking, foreign>>

\* The process is gone, its memory and descriptors with it.
Gone(p) ==
  /\ Goes(p, "idle")
  /\ pid' = [pid EXCEPT ![p] = NoPid] /\ flag' = [flag EXCEPT ![p] = NoFlag]
  /\ sawOld' = [sawOld EXCEPT ![p] = FALSE]
  /\ window' = [window EXCEPT ![p] = -1] /\ known' = [known EXCEPT ![p] = Unknown]
  /\ disturbed' = disturbed \ {p} /\ measured' = [measured EXCEPT ![p] = {}]
  /\ UNCHANGED <<foreign, starts, backend, excuse>>

\* log.Fatalf, or a signal: deferred calls do not run.
Dies(p) == Gone(p) /\ linked' = linked \ {p} /\ UNCHANGED lock

Killed(p) == pc[p] # "idle" /\ Dies(p)

\* Another program of the machine starts or ends.
Foreign(n) ==
  /\ \/ ~Running(n) /\ foreign' = foreign \cup {n}
     \/ n \in foreign /\ foreign' = foreign \ {n}
  /\ UNCHANGED <<pc, pid, flag, locking, backend, asking, starts>>

-----------------------------------------------------------------------------
(***************************************************************************)
(* takeLock and its release.                                               *)
(***************************************************************************)
HolderAlive(p) == \/ lock.pid \in {NoFile, NoStamp}   \* unreadable: treated as held
                  \/ lock.pid = pid[p]                \* os.Getpid()
                  \/ Running(lock.pid)

\* Another process is between its own Stat and the end of its WriteFile.
Races(p) == \E q \in Procs \ {p} : pc[q] \in TakingLock

Stat(p) ==
  /\ pc[p] = "stat"
  /\ Goes(p, IF lock.pid = NoFile THEN "truncate" ELSE "judge")
  /\ sawOld' = [sawOld EXCEPT ![p] = lock.old]
  /\ excuse' = IF Races(p) THEN excuse \cup {"raced"} ELSE excuse
  /\ UNCHANGED <<linked, lock, process, backend, asking>>

\* Mutant: -force is on by default.
NeverRefuses(p) == FALSE

Refuses(p) == HolderAlive(p) /\ ~sawOld[p] /\ ~flag[p].force

\* Why the guard let p by although an eval is running.
Overtaking(p) ==
  IF \E q \in Procs \ {p} : Sweeping(q)
    THEN (IF sawOld[p] THEN {"outlived"} ELSE {}) \cup (IF flag[p].force THEN {"forced"} ELSE {})
    ELSE {}

Overtakes(p) ==
  /\ pc[p] = "judge" /\ ~Refuses(p)
  /\ Goes(p, "truncate")
  /\ excuse' = excuse \cup Overtaking(p)
  /\ sawOld' = [sawOld EXCEPT ![p] = FALSE]
  /\ UNCHANGED <<linked, lock, process, backend, asking>>

\* Mutant: the release is deferred before the error is looked at.
RefusedReleases(p) ==
  /\ pc[p] = "judge" /\ Refuses(p)
  /\ lock' = [pid |-> NoFile, old |-> FALSE] /\ linked' = {}
  /\ Gone(p)

Refused(p) == pc[p] = "judge" /\ Refuses(p) /\ Dies(p)

\* os.WriteFile opens the file, creating or emptying it ...
Truncate(p) ==
  /\ pc[p] = "truncate"
  /\ Goes(p, "stamp")
  /\ lock' = [pid |-> NoStamp, old |-> FALSE]
  /\ linked' = linked \cup {p}
  /\ UNCHANGED <<sawOld, excuse, process, backend, asking>>

\* ... and writes through the descriptor, to whatever file that still is; a
\* write that fails ends the process with the empty file left behind.
Stamp(p) ==
  /\ pc[p] = "stamp"
  /\ \/ /\ Goes(p, "prepare")
        /\ lock' = IF p \in linked THEN [pid |-> pid[p], old |-> FALSE] ELSE lock
        /\ linked' = linked \ {p}
        /\ UNCHANGED <<sawOld, excuse, process, backend, asking>>
     \/ Dies(p)

\* main returns; the deferred release removes the file, whoever wrote it.
Returns(p) ==
  /\ pc[p] = "measure"
  /\ IF flag[p].role = "eval"
       THEN lock' = [pid |-> NoFile, old |-> FALSE] /\ linked' = {}
       ELSE UNCHANGED <<lock, linked>>
  /\ Gone(p)

\* staleLockAfter passes.
Ages ==
  /\ lock.pid # NoFile /\ ~lock.old
  /\ lock' = [lock EXCEPT !.old = TRUE]
  /\ UNCHANGED <<pc, process, backend, asking, sawOld, linked, excuse>>

-----------------------------------------------------------------------------
(***************************************************************************)
(* Which server is answering.                                              *)
(***************************************************************************)
\* The results directory and file are made; failing, main calls log.Fatalf,
\* which is Killed here.
Prepares(p) ==
  /\ pc[p] = "prepare"
  /\ Goes(p, "window")
  /\ UNCHANGED <<locking, process, backend, asking>>

\* contextLimit and modelName of each dialect ask an endpoint only its own
\* server has; the other one answers 404.
Answers(kind) == server.kind = kind

\* A question is answered with `it' or ends in an error, which it may with the right
\* server too (a busy one, a response that cannot be decoded).
Asked(kind, it, error) == IF Answers(kind) THEN {it, error} ELSE {error}

\* MaxContextLength. The agent asks for no model, and goes to the mismatch check
\* when this alone fails.
AskWindow(p) ==
  /\ pc[p] = "window"
  /\ \E n \in Asked(flag[p].kind, server.window, -1) :
       /\ window' = [window EXCEPT ![p] = n]
       /\ Goes(p, IF flag[p].role = "eval" THEN "model"
                  ELSE IF n = -1 THEN "detect" ELSE "measure")
  /\ UNCHANGED <<locking, process, backend, known, disturbed, measured>>

\* ModelName, whose error is recorded as a name; with both questions unanswered main
\* suspects the flag.
AskModel(p) ==
  /\ pc[p] = "model"
  /\ \E name \in Asked(flag[p].kind, server.weights, Unknown) :
       /\ known' = [known EXCEPT ![p] = name]
       /\ Goes(p, IF window[p] = -1 /\ name = Unknown THEN "detect" ELSE "require")
  /\ UNCHANGED <<locking, process, backend, window, disturbed, measured>>

\* Mutant: a server of the other kind is taken for no server.
DetectsOnlyTheFlag(f) == IF server.kind = f.kind /\ server.window > 0 THEN server.kind ELSE ""

\* DetectKind: the kind whose window question gives a positive number.
DetectKind(f) == IF server.kind \in Kinds /\ server.window > 0 THEN server.kind ELSE ""

\* Its client gives up after five seconds, which a server busy with someone
\* else's prompt may take: then nothing is detected.
Detect(p) ==
  /\ pc[p] = "detect"
  /\ \/ /\ DetectKind(flag[p]) \notin {"", flag[p].kind}
        /\ Dies(p)
     \/ /\ DetectKind(flag[p]) \in {"", flag[p].kind}
        /\ Goes(p, IF flag[p].role = "eval" THEN "require" ELSE "measure")
        /\ UNCHANGED <<locking, process, backend, asking>>
     \/ /\ server.kind # "down"
        /\ Goes(p, IF flag[p].role = "eval" THEN "require" ELSE "measure")
        /\ disturbed' = disturbed \cup {p}
        /\ UNCHANGED <<locking, process, backend, window, known, measured>>

\* Mutant: without an answer there is nothing to compare -require-model with.
RequiresKnown(p) == flag[p].require \notin {"any", known[p]} /\ known[p] # Unknown

Unwanted(p) == flag[p].require \notin {"any", known[p]}

Require(p) ==
  /\ pc[p] = "require"
  /\ \/ Unwanted(p) /\ Dies(p)
     \/ /\ ~Unwanted(p)
        /\ Goes(p, "measure")     \* writeMeta records window and known
        /\ UNCHANGED <<locking, process, backend, asking>>

\* The server is stopped, or comes back, or comes back as another.
ServerChanges ==
  /\ changes < MaxChanges
  /\ server' \in Servers \ {server}
  /\ changes' = changes + 1
  /\ disturbed' = disturbed \cup {p \in Procs : Talking(p)}
  /\ UNCHANGED <<pc, process, locking, window, known, measured>>

-----------------------------------------------------------------------------
(***************************************************************************)
(* Server.Chat: the constraint a request carries, and what the server that *)
(* gets it makes of it.                                                    *)
(***************************************************************************)
Constraint == {"plan", "leak", "none"}

\* Mutant: the llama dialect sends the grammar too, and no schema.
WireAlwaysGrammar(kind, gbnf, schema) == [grammar |-> gbnf, format |-> "none"]

\* applyStructured: koboldcpp is sent a grammar, llama-server the schema of a
\* structured request; a content grammar has no schema to send.
Wire(kind, gbnf, schema) ==
  IF kind = "kobold" THEN [grammar |-> gbnf, format |-> "none"]
                     ELSE [grammar |-> "none", format |-> schema]

\* contentGrammar, unless -grammar=false (NoGrammar) took it away.
ContentGrammar(f) == IF f.kind = "kobold" /\ f.grammar THEN "leak" ELSE "none"

\* Mutant: the content grammar wins over that of a structured call.
ContentFirst(f, structured) ==
  IF structured /\ ContentGrammar(f) = "none" THEN Wire(f.kind, "plan", "plan")
  ELSE Wire(f.kind, ContentGrammar(f), "none")

Request(f, structured) ==
  IF structured THEN Wire(f.kind, "plan", "plan")
  ELSE Wire(f.kind, ContentGrammar(f), "none")

\* What holds the model back: koboldcpp reads grammar on the chat endpoint,
\* llama-server response_format, and each ignores the other's field.
Honoured(req) == IF server.kind = "kobold" THEN req.grammar ELSE req.format

\* What is not as the process's flags and questions made it believe.
Amiss(p, structured) ==
  {w \in {"kind", "weights", "free", "leaky"} :
     \/ w = "kind" /\ server.kind # flag[p].kind
     \/ w = "weights" /\ flag[p].role = "eval" /\ known[p] \notin {Unknown, server.weights}
     \/ w = "free" /\ structured /\ Honoured(Request(flag[p], structured)) # "plan"
     \/ w = "leaky" /\ ~structured /\ flag[p].grammar /\ server.kind = "kobold"
                    /\ Honoured(Request(flag[p], structured)) # "leak"}

\* Both servers serve /v1/chat/completions: a response is used whoever gives it.
\* A server that is down makes the call an error, EvalRun's subject.
Chat(p) ==
  /\ pc[p] = "measure" /\ server.kind # "down"
  /\ \E structured \in BOOLEAN :
       measured' = [measured EXCEPT ![p] = @ \cup Amiss(p, structured)]
  /\ UNCHANGED <<pc, process, locking, backend, window, known, disturbed>>

-----------------------------------------------------------------------------
TakeLock(p) == Stat(p) \/ Overtakes(p) \/ Refused(p) \/ Truncate(p) \/ Stamp(p)
StartUp(p) == Prepares(p) \/ AskWindow(p) \/ AskModel(p) \/ Detect(p) \/ Require(p)

Next ==
  \/ \E p \in Procs : \/ Start(p) \/ Killed(p) \/ TakeLock(p) \/ StartUp(p)
                      \/ Chat(p) \/ Returns(p)
  \/ \E n \in Pids : Foreign(n)
  \/ Ages
  \/ ServerChanges

Spec == Init /\ [][Next]_vars

-----------------------------------------------------------------------------
TypeOK ==
  /\ pc \in [Procs -> Stages] /\ pid \in [Procs -> Pids \cup {NoPid}]
  /\ flag \in [Procs -> Flags \cup {NoFlag}]
  /\ sawOld \in [Procs -> BOOLEAN] /\ linked \subseteq Procs
  /\ lock \in [pid : Pids \cup {NoFile, NoStamp}, old : BOOLEAN]
  /\ foreign \subseteq Pids /\ starts \in 0..MaxStarts
  /\ server \in Servers /\ changes \in 0..MaxChanges
  /\ window \in [Procs -> {-1} \cup {srv.window : srv \in Servers}]
  /\ known \in [Procs -> Weights \cup {Unknown}]
  /\ disturbed \subseteq Procs
  /\ measured \in [Procs -> SUBSET {"kind", "weights", "free", "leaky"}]
  /\ excuse \subseteq {"raced", "forced", "outlived"}

\* takeLock keeps evals apart: unless two of them were inside takeLock at once,
\* or one went past the lock of a running one by -force or because that had run
\* for three hours, no two evals are past it, and the lock file names the one
\* that is - no crash, reused process id, stale file or late release breaks it.
OneAtATime ==
  excuse = {} =>
    \A p \in Procs : Sweeping(p) =>
      /\ lock.pid = pid[p]
      /\ \A q \in Procs : Sweeping(q) => q = p

\* What a process has been answered is what it thinks it measures: the server is
\* of the kind its flag names, a structured call was held to its schema and a
\* plain one kept from writing tool calls as text - unless the backend changed
\* (or was too slow to name itself) after the process asked, or names no window.
MeasuredAsMeant ==
  \A p \in Procs : p \notin disturbed /\ server.window > 0 =>
    measured[p] \cap {"kind", "free", "leaky"} = {}

\* The record of an eval that measures never names another model than the one that
\* answers it - it may say "(unknown)", but not when -require-model asks for one -
\* and what -require-model asks for is what answers, on the same conditions.
RecordNamesNoOther ==
  \A p \in Procs :
    Sweeping(p) /\ pc[p] = "measure" /\ p \notin disturbed =>
      /\ server.window > 0 => "weights" \notin measured[p]
      /\ flag[p].require # "any" => known[p] = flag[p].require /\ flag[p].require = server.weights
=============================================================================
