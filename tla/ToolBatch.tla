------------------------------ MODULE ToolBatch ------------------------------
(***************************************************************************)
(* The tool calls of one response: Agent.run from the results slice to the *)
(* tool messages (internal/agent/agent.go), Tool.Mode (tool.go) and        *)
(* delegate_task with its semaphore (internal/tools/delegate.go).          *)
(*                                                                         *)
(* The main goroutine spawns one goroutine per Concurrent call, joins      *)
(* them, runs the Exclusive calls one after the other and then answers     *)
(* every call in order.  A delegate_task runs a subagent, whose own tool   *)
(* calls are steps of their own here.  A command may leave a process       *)
(* behind that keeps its output open: the time limit kills the shell, and  *)
(* cmd.Run returns only when the output is closed.                         *)
(***************************************************************************)
EXTENDS Integers, Sequences, FiniteSets

CONSTANTS
  MaxCalls,       \* bound: most tool calls in the response
  MaxConcurrent,  \* Delegate.MaxConcurrent (3 when zero)
  SubSteps        \* bound: most tool calls of one subagent

ASSUME BoundAssumption ==
  MaxCalls \in Nat \ {0} /\ MaxConcurrent \in Nat \ {0} /\ SubSteps \in Nat

VARIABLES
  kind,     \* kind[i]: the tool the i-th call names
  refused,  \* the calls the repeat guards refuse before any call runs
  place,    \* the main goroutine
  call,     \* call[i]: how far the i-th call is
  slots,    \* the occupied slots of the semaphore
  sub,      \* sub[i]: the subagent of a delegate_task
  held,     \* the calls whose command has left such a process
  result,   \* results[i]
  history   \* the tool messages appended to the conversation

vars == <<kind, refused, place, call, slots, sub, held, result, history>>

Concurrent == {"read", "delegate"}
Exclusive  == {"write", "shell"}
Indices    == DOMAIN kind

Idle      == [tool |-> "none", left |-> SubSteps]
NoResult  == [content |-> "none", err |-> FALSE]

Init ==
  /\ kind \in UNION {[1..n -> Concurrent \union Exclusive] : n \in 1..MaxCalls}
  /\ refused \in SUBSET Indices
  /\ place = "spawn" /\ slots = 0
  /\ call = [i \in Indices |-> "waiting"]
  /\ sub = [i \in Indices |-> Idle]
  /\ result = [i \in Indices |->
                 IF i \in refused THEN [content |-> "refusal", err |-> TRUE]
                                  ELSE NoResult]
  /\ held = {} /\ history = <<>>

ToRun(ks) == {i \in Indices \ refused : kind[i] \in ks}

\* One goroutine for every Concurrent call.
Spawn ==
  /\ place = "spawn"
  /\ place' = "join"
  /\ call' = [i \in Indices |-> IF i \in ToRun(Concurrent) THEN "spawned" ELSE call[i]]
  /\ UNCHANGED <<kind, refused, slots, sub, held, result, history>>

\* Mutant: every racer builds a semaphore of its own.
SlotFreeForAll == TRUE

SlotFree == slots < MaxConcurrent

\* A goroutine starts; a delegate_task first takes a slot.
Begin(i) ==
  /\ call[i] = "spawned"
  /\ kind[i] = "delegate" => SlotFree
  /\ slots' = IF kind[i] = "delegate" THEN slots + 1 ELSE slots
  /\ call' = [call EXCEPT ![i] = "running"]
  /\ UNCHANGED <<kind, refused, place, sub, held, result, history>>

\* A command starts, and may leave a process behind.
MayLinger(i) == held' = held \/ held' = held \union {i}

\* What was left behind ends, or lets go of the output.
LetsGo(i) ==
  /\ i \in held
  /\ held' = held \ {i}
  /\ UNCHANGED <<kind, refused, place, call, slots, sub, result, history>>

\* The subagent's loop: one tool at a time, of either mode; "write" stands for
\* run_shell too.
SubBegins(i, tool) ==
  /\ call[i] = "running" /\ kind[i] = "delegate"
  /\ sub[i].tool = "none" /\ sub[i].left > 0
  /\ sub' = [sub EXCEPT ![i] = [tool |-> tool, left |-> @.left - 1]]
  /\ IF tool = "write" THEN MayLinger(i) ELSE UNCHANGED held
  /\ UNCHANGED <<kind, refused, place, call, slots, result, history>>

SubEnds(i) ==
  /\ sub[i].tool # "none" /\ i \notin held
  /\ sub' = [sub EXCEPT ![i].tool = "none"]
  /\ UNCHANGED <<kind, refused, place, call, slots, held, result, history>>

\* Mutant: a subagent that fails keeps its slot.
ReleasedUnlessFailed(i, ok) ==
  IF kind[i] = "delegate" /\ ok THEN slots - 1 ELSE slots

\* defer func() { <-sem }()
Released(i, ok) == IF kind[i] = "delegate" THEN slots - 1 ELSE slots

\* run_shell returns what the command printed with its error, too.
Content(i, ok) == IF ok \/ kind[i] = "shell" THEN "output" ELSE "none"

\* A call ends, with or without an error (a time limit among them).
Returns(i, ok) ==
  /\ call[i] = "running" /\ sub[i].tool = "none" /\ i \notin held
  /\ call' = [call EXCEPT ![i] = "returned"]
  /\ slots' = Released(i, ok)
  /\ result' = [result EXCEPT ![i] = [content |-> Content(i, ok), err |-> ~ok]]
  /\ UNCHANGED <<kind, refused, place, sub, held, history>>

\* Mutant: the Exclusive calls do not wait for the goroutines.
AllJoinedEarly == \A i \in ToRun(Concurrent) : call[i] # "waiting"

AllJoined == \A i \in ToRun(Concurrent) : call[i] = "returned"

\* wg.Wait()
Join ==
  /\ place = "join" /\ AllJoined
  /\ place' = "exclusive"
  /\ UNCHANGED <<kind, refused, call, slots, sub, held, result, history>>

Turn(i) ==
  /\ call[i] = "waiting"
  /\ \A j \in ToRun(Exclusive) : j < i => call[j] = "returned"

RunExclusive(i) ==
  /\ place = "exclusive" /\ i \in ToRun(Exclusive)
  /\ Turn(i)
  /\ call' = [call EXCEPT ![i] = "running"]
  /\ IF kind[i] = "shell" THEN MayLinger(i) ELSE UNCHANGED held
  /\ UNCHANGED <<kind, refused, place, slots, sub, result, history>>

Message(i) == [id |-> i, content |-> IF result[i].err THEN "error"
                                     ELSE result[i].content]

\* Mutant: a refused call is passed over.
AnswersOfExecuted ==
  [n \in 1..Cardinality(Indices \ refused) |->
     Message(CHOOSE i \in Indices \ refused :
               Cardinality({j \in Indices \ refused : j <= i}) = n)]

\* One tool message for every call, in the calls' order.
Answers == [i \in Indices |-> Message(i)]

Answer ==
  /\ place = "exclusive"
  /\ \A i \in ToRun(Exclusive) : call[i] = "returned"
  /\ place' = "answered"
  /\ history' = Answers
  /\ UNCHANGED <<kind, refused, call, slots, sub, held, result>>

Proceeds ==
  \/ Spawn
  \/ Join
  \/ Answer
  \/ \E i \in Indices :
       \/ Begin(i)
       \/ RunExclusive(i)
       \/ SubEnds(i)
       \/ \E tool \in {"read", "write"} : SubBegins(i, tool)
       \/ \E ok \in BOOLEAN : Returns(i, ok)

Next == Proceeds \/ \E i \in Indices : LetsGo(i)

Spec == Init /\ [][Next]_vars

(***************************************************************************)
(* The scheduler runs every goroutine that can run, and every tool ends:   *)
(* commands have timeouts, subagents have a step budget (SubSteps), so the *)
(* calls cannot keep one another waiting by going on forever.  Nothing     *)
(* makes a process that was left behind let go of the output.              *)
(***************************************************************************)
FairSpec == Spec /\ WF_vars(Proceeds)

-----------------------------------------------------------------------------
(***************************************************************************)
(* Properties.                                                             *)
(***************************************************************************)
\* The type of every variable.
TypeOK ==
  /\ kind \in UNION {[1..n -> Concurrent \union Exclusive] : n \in 1..MaxCalls}
  /\ refused \subseteq Indices
  /\ place \in {"spawn", "join", "exclusive", "answered"}
  /\ call \in [Indices -> {"waiting", "spawned", "running", "returned"}]
  /\ slots \in 0..MaxConcurrent
  /\ sub \in [Indices -> [tool : {"none", "read", "write"}, left : 0..SubSteps]]
  /\ held \subseteq Indices
  /\ result \in [Indices -> [content : {"none", "output", "refusal"}, err : BOOLEAN]]
  /\ DOMAIN history \subseteq Indices

Phase(i) == IF call[i] = "running" THEN "running"
            ELSE IF call[i] = "returned" \/ i \in refused THEN "over"
            ELSE "todo"

Promise == INSTANCE StepPromise WITH
  phase <- [i \in Indices |-> Phase(i)],
  answered <- [n \in DOMAIN history |-> history[n].id],
  Delegating <- {"delegate"}

\* Goroutines, semaphore and join implement StepPromise: Exclusive calls "run one
\* at a time and never overlap with the Concurrent batch or each other", "a model
\* issuing write_file then patch_file on the same file in one step can rely on that
\* order" (agent.go), no more than MaxConcurrent delegate_task calls run, and every
\* call, refused or failed, has one tool message, in the calls' order.
StepPromised == Promise!Spec

\* The step comes to an end: no slot, join or turn is waited for forever, unless
\* a process that a command left behind keeps the command's output open.
StepEnds == []<>(held = {}) => <>(place = "answered")
=============================================================================
