----------------------------- MODULE StepPromise -----------------------------
(***************************************************************************)
(* What a step of the agent promises the model that asked for several tool *)
(* calls at once (ToolMode in internal/agent/tool.go, the comments of      *)
(* Agent.run): an Exclusive call overlaps with no other call, Exclusive    *)
(* calls follow the order of the response, no more than MaxConcurrent      *)
(* subagents work at a time, and when every call is over each has one      *)
(* answer, in the order of the calls.  No goroutine, semaphore or join.    *)
(***************************************************************************)
EXTENDS Integers, FiniteSets

CONSTANTS
  Concurrent, Exclusive,  \* the two modes: sets of tools
  Delegating,             \* the tools that run a subagent
  MaxConcurrent,          \* how many of these may run together
  MaxCalls                \* bound: calls of a response

VARIABLES
  kind,      \* kind[i]: the tool the i-th call names
  phase,     \* phase[i]: "todo", "running" or "over"
  answered   \* the calls that have an answer, in the order of the answers

vars == <<kind, phase, answered>>

Indices == DOMAIN kind
Running == {i \in Indices : phase[i] = "running"}

\* A call that is refused is over before it begins.
Init ==
  /\ kind \in UNION {[1..n -> Concurrent \union Exclusive] : n \in 1..MaxCalls}
  /\ phase \in [Indices -> {"todo", "over"}]
  /\ answered = <<>>

BeginConcurrent(i) ==
  /\ kind[i] \in Concurrent
  /\ \A j \in Running : kind[j] \in Concurrent
  /\ kind[i] \in Delegating =>
       Cardinality({j \in Running : kind[j] \in Delegating}) < MaxConcurrent

BeginExclusive(i) ==
  /\ kind[i] \in Exclusive
  /\ Running = {}
  /\ \A j \in Indices : kind[j] \in Exclusive /\ j < i => phase[j] = "over"

Begin(i) ==
  /\ phase[i] = "todo"
  /\ BeginConcurrent(i) \/ BeginExclusive(i)
  /\ phase' = [phase EXCEPT ![i] = "running"]
  /\ UNCHANGED <<kind, answered>>

End(i) ==
  /\ phase[i] = "running"
  /\ phase' = [phase EXCEPT ![i] = "over"]
  /\ UNCHANGED <<kind, answered>>

Answer ==
  /\ answered = <<>>
  /\ \A i \in Indices : phase[i] = "over"
  /\ answered' = [i \in Indices |-> i]
  /\ UNCHANGED <<kind, phase>>

Next == Answer \/ \E i \in Indices : Begin(i) \/ End(i)

Spec == Init /\ [][Next]_vars
=============================================================================
