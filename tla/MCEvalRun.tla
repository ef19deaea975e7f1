------------------------------ MODULE MCEvalRun ------------------------------
(***************************************************************************)
(* EvalRun on small instances, and what documents and comments say of the  *)
(* scores that runs refute.                                                *)
(***************************************************************************)
EXTENDS EvalRun, TLC

CONSTANTS j1, j2, j3   \* the jobs: exclusive, a mission, an agent that delegates

TraceCheck(matches, mode, maxCalls) ==
  [matches |-> matches, mode |-> mode, maxCalls |-> maxCalls, bad |-> FALSE]
AnswerCheck(regex, mode) == [regex |-> regex, mode |-> mode, bad |-> FALSE]

SomeProbes ==
  j1 :> [verify |-> TRUE, trace |-> {TraceCheck({"write"}, "forbidden", 0)},
         answer |-> {AnswerCheck("bytes", "required")}, maxSteps |-> 0]
  @@ j2 :> [verify |-> TRUE, trace |-> {TraceCheck({"write"}, "", 1)}, answer |-> {}, maxSteps |-> 1]
  @@ j3 :> [verify |-> FALSE, trace |-> {TraceCheck({"write"}, "required", 0)},
            answer |-> {AnswerCheck("sorry", "forbidden")}, maxSteps |-> 0]

SomeSizes == j1 :> {0, 1} @@ j2 :> {1} @@ j3 :> {0, 1, 2}
SomeRequests == j1 :> 1 @@ j2 :> 3 @@ j3 :> 3

-----------------------------------------------------------------------------
\* "A run that never reached the model is not scored" (docs/conventions.md).
UnansweredIsNotScored ==
  \A j \in Jobs : at[j] = "scored" /\ ~result[j].errored => run[j].answered > 0

\* "OnStep, if set, receives every step of every agent built from this Env"
\* (roles.go): a tool that was called is in the trace the probe asserts on.
TraceIsComplete ==
  \A j \in Jobs : at[j] = "scored" => \A k \in run[j].used : \E c \in run[j].made : c[1] = k

\* "MaxSteps fails a run that took more round-trips than the probe considers
\* reasonable" (main.go).
StepsAreRoundTrips ==
  \A j \in Jobs : at[j] = "scored" /\ result[j].passed /\ ProbeOf[j].maxSteps > 0 =>
    run[j].calls <= ProbeOf[j].maxSteps

\* "A probe with nothing to assert passes unconditionally, which is worse than not
\* having the probe at all" (main.go): one that loads can fail a run that ended.
LoadedProbesAssert ==
  \A p \in {SomeProbes[j] : j \in Jobs} \cup
           {[SomeProbes[j1] EXCEPT !.verify = FALSE, !.answer = {},
                                   !.trace = {TraceCheck({"write"}, "", 0)}]} :
    Loads(p) => \E n \in 0..2, hits \in SUBSET Patterns(p), verified \in {TRUE, ~p.verify} :
      ~NothingFails(p, [NewRun EXCEPT !.made = Kinds \X (1..n), !.steps = n,
                                      !.hits = hits, !.verified = verified])
=============================================================================
