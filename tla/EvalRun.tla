------------------------------- MODULE EvalRun -------------------------------
(***************************************************************************)
(* One sweep of the eval harness (cmd/eval/main.go): how main schedules    *)
(* the (probe, run) jobs, what countingClient and the step recorder see of *)
(* one run, and how runOnce scores it.                                     *)
(*                                                                         *)
(* A run's requests come from a mission's planner, which reports no steps, *)
(* from the agent or the workers the recorder listens to, or from the      *)
(* subagents of delegate_task (internal/roles), which run beside each      *)
(* other.  A request fails when the backend is gone or the probe's timeout *)
(* has passed.  A tool call is one of a few `Kinds', which a trace check's *)
(* tool and args_regex select; an answer is the set of regular expressions *)
(* it matches.                                                             *)
(***************************************************************************)
EXTENDS Integers, Sequences, FiniteSetsExt

CONSTANTS
  Jobs,         \* the (probe, run) pairs
  Exclusive,    \* those whose probe is exclusive
  Missions,     \* those whose probe runs a mission
  JobsN,        \* -jobs
  Kinds,        \* kinds of tool calls
  ProbeOf,      \* each job's assertions, [verify, trace, answer, maxSteps]
  Subagents,    \* the subagents that may run beside each other
  Sizes,        \* the prompt_tokens reported of each job, zero when none are
  MaxRequests   \* bound: the requests of each job

\* loadProbes: "a probe with nothing to assert passes unconditionally".
Loads(p) == p.verify \/ p.trace # {} \/ p.answer # {} \/ p.maxSteps # 0

ASSUME JobAssumption ==
  /\ IsFiniteSet(Jobs) /\ IsFiniteSet(Kinds) /\ Exclusive \subseteq Jobs /\ Missions \subseteq Jobs
  /\ JobsN \in Nat \ {0} /\ MaxRequests \in [Jobs -> Nat]
  /\ Sizes \in [Jobs -> SUBSET Nat]
ASSUME ProbeAssumption ==
  \A j \in Jobs : Loads(ProbeOf[j]) /\ \A tc \in ProbeOf[j].trace : tc.maxCalls \in Int

VARIABLES
  phase,   \* main: the exclusive jobs, the others, the summary
  at,      \* at[j]: how far the job is
  run,     \* run[j]: the local variables of its runOnce
  result,  \* result[j]: Errored and Passed
  all      \* the recorded jobs, in their order

vars == <<phase, at, run, result, all>>

Reporting == {"agent", "worker"}
Sources(j) == IF j \in Missions THEN {"planner", "worker"} ELSE {"agent"} \cup Subagents
Callers == {"planner"} \cup Reporting \cup Subagents

\* A call of countingClient.Chat: where it is, what the backend reported, the
\* counter as it was loaded.
Idle == [at |-> "idle", got |-> 0, err |-> FALSE, saw |-> 0]

NewRun ==
  [calls |-> 0, peak |-> 0, floor |-> 0, chat |-> [c \in Callers |-> Idle],
   turn |-> 0,                     \* steps of the agent or worker that runs now
   steps |-> 0,                    \* Result.Steps
   made |-> {},                    \* the recorded calls: <<kind, number among its kind>>
   runError |-> FALSE, verified |-> FALSE, hits |-> {},
   \* Observed: the answers, what they reported, the kinds of calls anyone made.
   answered |-> 0, sizes |-> {}, used |-> {}]

NoResult == [errored |-> FALSE, passed |-> FALSE]

Init ==
  /\ phase = "exclusive" /\ all = <<>>
  /\ at = [j \in Jobs |-> "queued"]
  /\ run = [j \in Jobs |-> NewRun]
  /\ result = [j \in Jobs |-> NoResult]

Active == {j \in Jobs : at[j] \in {"setup", "running", "scored"}}

Goes(j, stage) == at' = [at EXCEPT ![j] = stage]

-----------------------------------------------------------------------------
(***************************************************************************)
(* main.                                                                   *)
(***************************************************************************)
\* Exclusive probes are special only when something could run beside them.
First == IF JobsN > 1 THEN Exclusive ELSE {}

StartExclusive(j) ==
  /\ phase = "exclusive" /\ j \in First
  /\ at[j] = "queued" /\ Active = {}
  /\ Goes(j, "setup")
  /\ UNCHANGED <<phase, run, result, all>>

\* Mutant: the batch starts once the exclusive jobs have started.
ExclusiveDoneStarted ==
  /\ phase = "exclusive" /\ \A j \in First : at[j] # "queued"
  /\ phase' = "batch"
  /\ UNCHANGED <<at, run, result, all>>

ExclusiveDone ==
  /\ phase = "exclusive" /\ \A j \in First : at[j] = "recorded"
  /\ phase' = "batch"
  /\ UNCHANGED <<at, run, result, all>>

\* sem holds the goroutines of the batch.
SlotFree == Cardinality(Active \ First) < JobsN

StartJob(j) ==
  /\ phase = "batch" /\ j \notin First
  /\ at[j] = "queued" /\ SlotFree
  /\ Goes(j, "setup")
  /\ UNCHANGED <<phase, run, result, all>>

\* Mutant: a goroutine joins the wait group only once it has its slot.
AllJoinedStarted == \A j \in Jobs : at[j] \in {"queued", "recorded"}

\* wg.Wait()
AllJoined == \A j \in Jobs : at[j] = "recorded"

Summarize ==
  /\ phase = "batch" /\ AllJoined
  /\ phase' = "summary"
  /\ UNCHANGED <<at, run, result, all>>

-----------------------------------------------------------------------------
(***************************************************************************)
(* countingClient.Chat.                                                    *)
(***************************************************************************)
InFlight(j) == {who \in Callers : run[j].chat[who].at # "idle"}

\* Agents take turns, a mission's planner first; the subagents of one step of the
\* agent run beside each other.
MaySend(j, who) ==
  /\ who \notin InFlight(j)
  /\ who \in Subagents => run[j].turn > 0 /\ InFlight(j) \subseteq Subagents
  /\ who \notin Subagents => InFlight(j) = {}
  /\ who = "worker" => run[j].answered > 0

\* The call becomes c, and the run beside it r.
Continues(j, who, c, r) ==
  /\ run' = [run EXCEPT ![j] = [r EXCEPT !.chat[who] = c]]
  /\ UNCHANGED <<phase, at, result, all>>

Send(j, who) ==
  /\ at[j] = "running" /\ run[j].calls < MaxRequests[j]
  /\ who \in Sources(j) /\ MaySend(j, who)
  /\ Continues(j, who, [Idle EXCEPT !.at = "sent"], [run[j] EXCEPT !.calls = @ + 1])

\* The backend answers, or does not and reports nothing.
Answered(j, who) ==
  LET c == run[j].chat[who]
  IN /\ c.at = "sent"
     /\ \/ \E got \in Sizes[j] :
             Continues(j, who, [c EXCEPT !.at = "peak", !.got = got],
                       [run[j] EXCEPT !.answered = @ + 1, !.sizes = @ \cup {got}])
        \/ Continues(j, who, [c EXCEPT !.at = "peak", !.err = TRUE], run[j])

\* Where Chat goes once the peak is settled: "for got > 0".
AfterPeak(got) == IF got > 0 THEN "floor" ELSE "done"

LoadPeak(j, who) ==
  LET c == run[j].chat[who]
  IN /\ c.at = "peak"
     /\ Continues(j, who, [c EXCEPT !.saw = run[j].peak,
                    !.at = IF c.got <= run[j].peak THEN AfterPeak(c.got) ELSE "swap peak"],
                  run[j])

\* Mutant: the larger prompt is stored, whatever the counter has become.
SwapPeakBlindly(j, who) ==
  LET c == run[j].chat[who]
  IN /\ c.at = "swap peak"
     /\ Continues(j, who, [c EXCEPT !.at = AfterPeak(c.got)], [run[j] EXCEPT !.peak = c.got])

\* CompareAndSwapInt64, or load again.
SwapPeak(j, who) ==
  LET c == run[j].chat[who]
  IN /\ c.at = "swap peak"
     /\ \/ /\ run[j].peak = c.saw
           /\ Continues(j, who, [c EXCEPT !.at = AfterPeak(c.got)],
                        [run[j] EXCEPT !.peak = c.got])
        \/ run[j].peak # c.saw /\ Continues(j, who, [c EXCEPT !.at = "peak"], run[j])

\* Mutant: the floor starts at zero, which no prompt is below.
SettledFromZero(floor, got) == got >= floor

\* Zero is a floor not measured yet.
Settled(floor, got) == floor # 0 /\ got >= floor

LoadFloor(j, who) ==
  LET c == run[j].chat[who]
  IN /\ c.at = "floor"
     /\ Continues(j, who, [c EXCEPT !.saw = run[j].floor,
                    !.at = IF Settled(run[j].floor, c.got) THEN "done" ELSE "swap floor"],
                  run[j])

SwapFloor(j, who) ==
  LET c == run[j].chat[who]
  IN /\ c.at = "swap floor"
     /\ \/ /\ run[j].floor = c.saw
           /\ Continues(j, who, [c EXCEPT !.at = "done"], [run[j] EXCEPT !.floor = c.got])
        \/ run[j].floor # c.saw /\ Continues(j, who, [c EXCEPT !.at = "floor"], run[j])

Counts(j, who) == \/ Send(j, who) \/ Answered(j, who)
                  \/ LoadPeak(j, who) \/ SwapPeak(j, who)
                  \/ LoadFloor(j, who) \/ SwapFloor(j, who)

-----------------------------------------------------------------------------
(***************************************************************************)
(* Scoring.                                                                *)
(***************************************************************************)
Matched(tc, made) == Cardinality({c \in made : c[1] \in tc.matches})

\* checkTrace; `bad' is an args_regex that does not compile.
TraceFailures(p, made) ==
  {tc \in p.trace :
     \/ tc.bad
     \/ tc.maxCalls > 0 /\ Matched(tc, made) > tc.maxCalls
     \/ tc.mode = "required" /\ Matched(tc, made) = 0
     \/ tc.mode = "forbidden" /\ Matched(tc, made) > 0
     \/ tc.mode \notin {"required", "forbidden", ""}}

\* checkAnswer.
AnswerFailures(p, hits) ==
  {ac \in p.answer :
     \/ ac.bad
     \/ ac.mode = "required" /\ ac.regex \notin hits
     \/ ac.mode = "forbidden" /\ ac.regex \in hits
     \/ ac.mode \notin {"required", "forbidden"}}

\* Mutant: the run's own error is no failure.
NothingFailsLenient(p, r) ==
  /\ r.verified /\ TraceFailures(p, r.made) = {} /\ AnswerFailures(p, r.hits) = {}
  /\ p.maxSteps > 0 => r.steps <= p.maxSteps

NothingFails(p, r) ==
  /\ ~r.runError
  /\ r.verified /\ TraceFailures(p, r.made) = {} /\ AnswerFailures(p, r.hits) = {}
  /\ p.maxSteps > 0 => r.steps <= p.maxSteps

\* Mutant: whether the model was reached is read off the steps.
ReachedBySteps(r) == r.steps > 0

Reached(r) == r.calls > 0

\* r: the run as it ended.
Scores(j, r) ==
  /\ run' = [run EXCEPT ![j] = r]
  /\ result' = [result EXCEPT ![j] =
       IF ~Reached(r) /\ r.runError THEN [errored |-> TRUE, passed |-> FALSE]
       ELSE [errored |-> FALSE, passed |-> NothingFails(ProbeOf[j], r)]]
  /\ Goes(j, "scored")
  /\ UNCHANGED <<phase, all>>

Patterns(p) == {ac.regex : ac \in p.answer}

\* The workspace and the answer are as they are; without checks there is nothing
\* for checkWorkspace to fail.
Score(j, r, err) ==
  \E verified \in {TRUE, ~ProbeOf[j].verify}, hits \in SUBSET Patterns(ProbeOf[j]) :
    Scores(j, [r EXCEPT !.runError = err, !.verified = verified, !.hits = hits])

-----------------------------------------------------------------------------
(***************************************************************************)
(* runOnce.                                                                *)
(***************************************************************************)
SetUp(j) ==
  /\ at[j] = "setup"
  /\ Goes(j, "running")
  /\ UNCHANGED <<phase, run, result, all>>

\* The temporary directory, the seed or the workspace: an early return.
SetUpFails(j) ==
  /\ at[j] = "setup"
  /\ run' = [run EXCEPT ![j].runError = TRUE]
  /\ Goes(j, "scored")
  /\ UNCHANGED <<phase, result, all>>

\* record: a step of the agent that reports it, with its number and its calls.
Recorded(r, kinds, turn) ==
  [r EXCEPT !.turn = turn, !.steps = IF turn > @ THEN turn ELSE @,
            !.made = @ \cup {<<k, Cardinality({c \in @ : c[1] = k}) + 1>> : k \in kinds}]

\* Chat returned a response: OnStep of an agent or worker (perhaps a new one), or
\* nothing the recorder sees.
Responds(j, who) ==
  /\ run[j].chat[who].at = "done" /\ ~run[j].chat[who].err
  /\ \E kinds \in SUBSET Kinds, anew \in BOOLEAN :
       LET r == [run[j] EXCEPT !.used = @ \cup kinds]
       IN /\ who = "planner" => kinds = {}
          /\ anew => who = "worker" /\ r.turn > 0
          /\ Continues(j, who, Idle, IF who \in Reporting
                THEN Recorded(r, kinds, IF anew THEN 1 ELSE r.turn + 1) ELSE r)

Err(j, who) == run[j].chat[who].at = "done" /\ run[j].chat[who].err

\* Chat returned an error the run outlives: that of a delegate_task call, or, in a
\* mission, of the search once it has found a plan, or of the review.
ErrAbsorbed(j, who) ==
  /\ Err(j, who)
  /\ who \in Subagents \/ (j \in Missions /\ run[j].answered > 0)
  /\ Continues(j, who, Idle, run[j])

\* Chat returned an error that is the run's.
ErrEnds(j, who) ==
  /\ Err(j, who) /\ who \notin Subagents
  /\ Score(j, [run[j] EXCEPT !.chat[who] = Idle], TRUE)

Errs(j, who) == ErrAbsorbed(j, who) \/ ErrEnds(j, who)

\* The run ends, finished or cut off (no valid plan, the step budget, a failed
\* mission).
Ends(j, err) ==
  /\ at[j] = "running" /\ InFlight(j) = {} /\ run[j].answered > 0
  /\ Score(j, run[j], err)

\* record, under its mutex; runOnce has returned.
Record(j) ==
  /\ at[j] = "scored"
  /\ Goes(j, "recorded")
  /\ all' = Append(all, j)
  /\ run' = [run EXCEPT ![j] = NewRun]
  /\ UNCHANGED <<phase, result>>

RunOnce(j) ==
  \/ SetUp(j)
  \/ SetUpFails(j)
  \/ \E who \in Sources(j) : Counts(j, who) \/ Responds(j, who) \/ Errs(j, who)
  \/ \E err \in BOOLEAN : Ends(j, err)
  \/ Record(j)

Next ==
  \/ \E j \in Jobs : StartExclusive(j) \/ StartJob(j) \/ RunOnce(j)
  \/ ExclusiveDone
  \/ Summarize

Spec == Init /\ [][Next]_vars

-----------------------------------------------------------------------------
(***************************************************************************)
(* Properties.                                                             *)
(***************************************************************************)
\* The type of every variable.
TypeOK ==
  /\ phase \in {"exclusive", "batch", "summary"}
  /\ at \in [Jobs -> {"queued", "setup", "running", "scored", "recorded"}]
  /\ \A j \in Jobs :
       /\ run[j].calls \in 0..MaxRequests[j] /\ run[j].answered \in 0..run[j].calls
       /\ run[j].steps \in 0..run[j].answered /\ run[j].turn \in 0..run[j].steps
       /\ run[j].made \subseteq Kinds \X (1..run[j].answered)
       /\ {run[j].peak, run[j].floor} \cup run[j].sizes \subseteq Sizes[j] \cup {0}
  /\ result \in [Jobs -> [errored : BOOLEAN, passed : BOOLEAN]]
  /\ all \in Seq(Jobs) /\ Len(all) <= Cardinality(Jobs)

\* "Exclusive probes first and alone": while one runs nothing else does, and no
\* more jobs run at once than -jobs, the exclusive ones included.
ExclusiveRunsAlone ==
  /\ \A j \in Active \cap Exclusive : Active = {j}
  /\ Cardinality(Active) <= JobsN

\* The summary covers every job: none is still running, lost or counted twice
\* when the rate is computed, so the rate is of all the attempts.
SummaryCoversAll ==
  phase = "summary" =>
    /\ \A j \in Jobs : Cardinality({i \in DOMAIN all : all[i] = j}) = 1
    /\ Active = {}

\* What a probe asks of the tools that were used, the answer and the steps; a
\* check that cannot be read asks what no run does.
AsAsked(p, r) ==
  /\ \A tc \in p.trace :
       /\ ~tc.bad /\ tc.mode \in {"required", "forbidden", ""}
       /\ tc.mode = "required" => \E c \in r.made : c[1] \in tc.matches
       /\ tc.mode = "forbidden" => \A c \in r.made : c[1] \notin tc.matches
       /\ tc.maxCalls > 0 => Matched(tc, r.made) <= tc.maxCalls
  /\ \A ac \in p.answer : /\ ~ac.bad /\ ac.mode \in {"required", "forbidden"}
                          /\ ac.mode = "required" <=> ac.regex \in r.hits
  /\ p.maxSteps > 0 => r.steps <= p.maxSteps

\* A score says what happened: a pass was reached by the model, ended by itself
\* ("a run the harness had to cut off is not a pass", however well the workspace
\* looks) and did all its probe asks; a failure has a reason; and a run that is
\* excluded got no answer ("scoring that as never ran excludes a real failure").
ScoreIsHonest ==
  \A j \in Jobs : at[j] = "scored" =>
    LET r == run[j]
    IN /\ result[j].passed => /\ r.answered > 0 /\ ~r.runError
                              /\ r.verified /\ AsAsked(ProbeOf[j], r)
       /\ result[j].errored => r.answered = 0
       /\ ~result[j].passed /\ ~result[j].errored =>
            r.runError \/ ~r.verified \/ ~AsAsked(ProbeOf[j], r)

\* The prompt range of a run is exact: the largest and the smallest prompt any of
\* its requests reported, however the counters of concurrent subagents meet.
PromptRangeIsExact ==
  \A j \in Jobs : at[j] = "scored" =>
    /\ run[j].peak = Max(run[j].sizes \cup {0})
    /\ run[j].floor = IF run[j].sizes \ {0} = {} THEN 0 ELSE Min(run[j].sizes \ {0})
=============================================================================
