# TARS in TLA+

TARS is a coding agent for local language models: a loop that lets a model call tools in a
workspace (`internal/agent`, `internal/tools`), a mission runner that plans, executes and verifies
a longer task with one worker agent per subtask (`internal/mission`), and a harness that measures
both (`cmd/eval`). This directory holds TLA+ models of its control logic, the TLC configurations
that check them and theorems about all of them that TLAPS proves.

`PROJECT.json` lists the components, the runs, the mapping of every definition to source lines,
the hazards the properties are aimed at, and for each property a plausible bug (a *mutant*, an
operator marked `Mutant:` right before the definition it would replace) that the property catches.

Run a check with `tlc -config Mission_faults.cfg MCMission.tla`, the proofs with
`tlapm MissionProofs.tla` (or any other module whose name ends in `Proofs`).

## The system

| component | state it keeps | operations | what is hard | what makes it correct |
|---|---|---|---|---|
| mission runner (`mission/phases.go`, `ledger.go`) | the ledger `mission.json` and its copy in memory, one transcript per worker | explore, plan, execute (worker, check, fix), verify, review, replan, resume | crashes between saves, failing saves, outages, budgets that feed one another | done means measured, history is frozen, budgets bound the work, it ends |
| plan search (`mission/plan.go`) | candidates, best so far | sample, validate, score, repair | checks rewritten between rules, a backend dying mid-search | the best valid plan is kept, it announces what it changed, none of its checks is known to be no evidence |
| checks (`mission/checks.go`) | none | run one check, run derived checks | pure observation | a verdict is measured, never claimed |
| agent loop (`agent/agent.go`) | counters, latches, repeat caches, queue of notices | respond, check a finish, refuse, run tools, judge, interject | caches and counters that outlive what they were about, several messages for one slot | no unearned finish, no refusal outlives a change the loop is told of, the model is told, and once |
| tool batch (`agent/agent.go`, `tools/delegate.go`, `shell.go`) | results by index, semaphore | spawn, join, run Exclusive calls, answer | goroutines, subagents inside Concurrent calls, a process a command leaves behind | exclusion, order, one answer per call, the cap, termination |
| conversation (`agent/agent.go`, `compact.go`) | message history, state file, size of the last prompt | append, compact, save, load, resume with a note or an answer | crashes between response, snapshot and results; cutting the history; estimates one step old | wire-valid requests, the newest steps survive |
| background processes (`tools/background*.go`, `procgroup_*.go`) | registry of processes | start, stop, StopAll, reap | three goroutines, a signal handler, process groups, a pipe a child keeps open | nothing outlives the agent, an exit is learnt |
| eval harness (`cmd/eval/main.go`) | jobs, results, counters per run | load probes, schedule, run, count, score, summarise | concurrent jobs and subagents, failures at every stage | honest rates, exact counters |
| eval lock (`cmd/eval/lock.go`) | the file `.eval-lock` | look, judge the holder, take over, release | check-then-write, crashes, reused process ids, age | one eval at a backend |
| file tools, workspace (`tools/fs.go`, `patch*.go`, `move.go`, `grep.go`) | the workspace | read, write, patch, replace lines, move, search | partial writes, a move in several steps, line numbers of two tools | nothing lost, nothing else touched, true answers |
| llm client, dialects (`llm/*.go`), startup of both commands | what the server said it is | ask window and model, detect the kind, constrain, request | a wrong flag, a server that is down, slow or changes | a process measures what it believes it measures |
| roles, shell, `ask_user`, `check_url` | none | run | time limits | seen through the effects on caches and batches |
| explore, map, spec, report, prompts, skills, command line | none | collect and render text | - | - |

The command line builds the agent from roles and either runs the loop directly or hands it to a
`mission.Runner`, which runs one agent per subtask with the subtask's transcript as its state file.
The agent calls tools from a registry; `delegate_task` runs another agent inside a tool call;
background processes are shared by all agents of a process. The eval harness drives both through
the same roles, wrapped in a counting client and a step recorder.

## Modules

| module | models | composed with |
|---|---|---|
| `MissionLedger` | abstract: what `mission.json` promises a reader after a stop at any moment | refined by `Mission` |
| `Mission`, `MCMission` | `Runner.Run` and everything below it, saves, crashes, resuming | plans come from `PlanSearch`, workers are runs of `AgentLoop` |
| `MissionProofs` | theorems about `Mission`, and that it implements `MissionLedger` | extends `Mission` |
| `PlanSearch`, `MCPlanSearch` | `generateSubtasks`, the validator and the score | one step of `Mission` (`Planned`, `PlanInvalid`, `PlanOutage` and their replan forms) |
| `PlanProofs` | theorems about `PlanSearch` | extends `PlanSearch` |
| `AgentLoop`, `MCAgentLoop` | `Agent.run`: finish checks, guards, judging, `interject` | one step is one `ToolBatch` |
| `AgentLoopProofs` | theorems about `AgentLoop` | extends `AgentLoop` |
| `StepPromise` | abstract: what one step with tool calls promises the loop | refined by `ToolBatch` |
| `ToolBatch`, `MCToolBatch` | one response's calls, Concurrent and Exclusive, and the subagents | one step of `AgentLoop` |
| `ToolBatchProofs` | theorems about `ToolBatch` | extends `ToolBatch` |
| `Conversation`, `MCConversation` | history, compaction, snapshot, resume | |
| `ConversationProofs` | theorems about `Conversation` | extends `Conversation` |
| `BackgroundProcs`, `MCBackgroundProcs` | start/stop/StopAll/reap and the ways the process ends | |
| `FileTools`, `MCFileTools` | the tools that read and change files, as system calls; the checks that look at files | what a Concurrent or Exclusive call of `ToolBatch` does; `Passes` is the verdict of `Mission`'s checks |
| `ToolsProofs` | theorems about `BackgroundProcs` and `FileTools` | extends both |
| `EvalSweep`, `MCEvalSweep` | the lock, the startup of `cmd/eval` and `cmd/agent`, the server kinds and the constraint of a request | `measure` is the whole of `EvalRun` |
| `EvalSweepProofs` | theorems about `EvalSweep` | extends `EvalSweep` |
| `EvalRun`, `MCEvalRun` | a sweep: jobs, `runOnce`, counting, recording, scoring | a job is an `AgentLoop` or a `Mission` |
| `EvalRunProofs` | theorems about `EvalRun` | extends `EvalRun` |

The composition is by abstraction, not by one big module: each module chooses from a set what the
one below it can return, and names that set (`Plans`, `Outcomes`, `Replies`).

### How state and actions correspond to the code

* **Mission.** `mem` is the `*Mission` the runner works on, `disk` is `mission.json`; `pc` is the
  place in `Run` (`dispatch` is the head of its loop, the others name the handler). Each handler
  is an action up to its next `Save`, worker run or question to the human, so a crash (`Crash`) can fall between
  any two of them. A `Save` that returns an error leaves `disk` alone and takes the code's error
  path: `CommitOrReturn` where the code returns it, `CommitOrFail` where it fails the mission,
  `BestEffort` where it is ignored. `holds` is the set of checks that would pass now; a worker and,
  while no process runs, a human move it anywhere. A worker can also leave something running:
  `start_background` is among its tools, and a command may leave children. `left` says so, and from
  then on `Drift` moves `holds` at any moment, the final verification, the review and the last save
  included; a stop may end what was left or not. `seen` are the checks that passed in the final
  verification, a loop whose every check sees the workspace as it is at its turn (`VerifyPasses`).
  A transcript can be cut short by a stop (`Transcribed`), and the newest one, when empty,
  counts as none (`NewestTranscript`).
* **PlanSearch.** `Sample` is one turn of the candidate loop, `SampleFails` its `break` or return,
  `Sampled` the end of the loop, `Repair` and `RepairFails` the second request. `SubtaskErrors`
  keeps the order of the rules: the read-only rule sees the check the model wrote, all later ones
  the replaced one. `Needle` is a needle without its quotes: `Plan` trims it, without a warning, as
  the code does.
* **AgentLoop.** One action of `Act` is one turn of the loop. `runState` is split into `stall`,
  `gate`, `seen`, `budget` and `writes`. Observations the code does not have (`fresh`, `missed`, `onDisk`,
  `written`, `verified`, `said`, `heard`, `quiet`) are only read by properties and by what tools answer.
  `fresh` are the reads that would still be answered in the same way. Those a change made stale that
  the loop is not told of go to `missed`: a command that writes and fails, a subagent that counted no
  mutation, a process in the background, which writes at any time (`Disturbed`). `quiet`
  counts the fruitless steps since the model was last told that it is stuck.
* **ToolBatch.** `Spawn`, `Join`, `RunExclusive` and `Answer` are the main goroutine, `Begin`,
  `SubBegins`, `SubEnds` and `Returns` the calls. `held` are the calls whose command left a process
  that keeps their output open (`MayLinger`); such a call returns once it `LetsGo`. `StepPromise`
  knows only which calls run, how they ended and the messages: `Begin`, `End` and `Answer`.
* **Conversation.** A message is its kind, the number of the response it belongs to, its number
  of calls and its tokens. `Truncate` and `Write` are the two halves of `os.WriteFile`; `measured`
  is `lastPromptTokens`, from which `EffectiveMaxTokens` reckons.
* **FileTools.** A text is a sequence of characters, a path a sequence of names. A tool either
  refuses or becomes `todo`, the system calls it makes; `Succeeded`, `Failed`, `Faulted` and
  `Crashed` are what may happen to the next of them, `Recovery` what `move_file` does about it.
  `Shown`, `Grep` (a long line is shown up to `MaxShown` and marked as cut), `RunCheck` (which looks
  for a text in the first `MaxChecked` characters) and `DerivedChecks` are the reading side.
* **EvalSweep.** `Stat`, `Overtakes`, `Refused`, `Truncate` and `Stamp` are `takeLock`, `Returns`
  the deferred release and `Killed` every end that skips it. `AskWindow`, `AskModel`, `Detect` and
  `Require` are the startup; `Chat` compares what a response is with what the process believes.
* **BackgroundProcs.** `Register` and `Start` are the two halves of `start`; `Kill`, `SeesExit` and
  `GraceOver` the parts of `stop`; `Reap` is the goroutine that waits; `Signal...` the signal
  goroutine; `MainReturns`, `MainExits`, `Fatal` the ways `main` ends.
* **EvalRun.** `StartExclusive`, `StartJob`, `Summarize` are `main`. `Send`, `Answered`, `LoadPeak`,
  `SwapPeak`, `LoadFloor` and `SwapFloor` are the steps of `countingClient.Chat`, any number of them
  between those of another subagent. `Responds` holds the recorder, `Scores` the verdict
  (`TraceFailures`, `AnswerFailures`, `NothingFails`). `run[j]` are the local variables of one
  `runOnce` and end with it. A failed request is the run's error (`ErrEnds`) or is absorbed
  (`ErrAbsorbed`): by `delegate_task`, by a plan search that has a plan, by the review.

## Runs

| run | instance | shows |
|---|---|---|
| `Mission_faults` | 1 subtask per plan, 1 fix, 1 replan, no human gate, 1 resume, 2 failed saves, workers that leave something running | `TypeOK`, `DoneIsMeasured`, `AttemptsBounded`, `DoneIsVerified`, and the refinement `LedgerPromise`, under crashes, outages and lost saves |
| `Mission_clean` | plans of up to 2 subtasks, human gate with 2 revisions, no faults besides outages, nothing left running | `NothingLeftBehind`, and under fairness `RunEnds` |
| `Plan` | 2 candidates over 43 answers that reach every rule, one file, one directory, no grep | `BestIsKept`, `NothingIsWasted`, `NoBlindChecks`, `ChecksDiffer`, `ChangesAreAnnounced` |
| `AgentLoop_calls` | 3 steps of up to 2 calls (read, write, shell, delegate), a worker that must write, commands and background processes that change files unnoticed | `RepeatsAreRefused`, `ToldChangesEndRefusals` |
| `AgentLoop_talk` | 5 steps, every kind of reply, usage below 75%, 75% and 90%, every finish check switched on | `AdvisoriesOnce`, `StuckIsSaid`, `FinishIsEarned`, `PendingSurvives` |
| `ToolBatch` | up to 3 calls, 2 slots, subagents of one tool call | the refinement `StepPromised`; under fairness `StepEnds`, as far as left-behind processes let go |
| `Conversation` | 4 responses, 2 kept, a window of 10 tokens, small and large results, 1 stop, 1 failed snapshot | `HistoryIsWhole`, `RecentIsKept`, `FullIsCompacted`, `ResponseIsOnDisk` |
| `Background` | 2 processes, 1 stop call, signal | `StoppedMeansGone`, `ReturnLeavesNothing`; under fairness `ExitIsLearnt`, `TeardownEnds` |
| `Eval` | 3 jobs (one exclusive, one mission, one with 2 subagents), 2 at a time, up to 3 requests each | `ExclusiveRunsAlone`, `SummaryCoversAll`, `ScoreIsHonest`, `PromptRangeIsExact` |
| `EvalSweep` | 2 process slots and ids, 3 starts (evals with and without `-force`, an agent), 4 servers, 1 change | `OneAtATime`, `MeasuredAsMeant`, `RecordNamesNoOther` |
| `FileTools` | 2 tool calls over two entries, a directory and a file outside, 2 texts, 1 fault or crash, 2 characters of a line shown, 2 looked at by a check | `MoveLosesNothing`, `OnlyTheTargetChanges`, `AnswersAreTrue`, `LineNumbersAgree`, `PassedMeansProduced` |
| `Mission_skipped` | the smallest that shows it | a disagreement of code and text, below |

`TypeOK` is an invariant of `Mission_faults` and a theorem for every module (`FileTools` calls it
`FilesTypeOK`). Every safety property the passing runs check, the action properties and refinements
included, is a theorem as well.

Why these bounds: a mission needs one fix, one replan, one stop and two lost saves for a fault and
the recovery from it beside another fault (a second stop, with what workers leave running, takes the
state space out of the run; the theorems hold for any number), and two subtasks per plan for what
one subtask does to another; two fix workers add only repetitions. Repeat guards need a first, a
tolerated and a refused call, hence three steps; the latches need their limit twice over, hence five
steps with limits of two and three (the third silent time, two more fruitless steps, is beyond them;
`StuckIsAlwaysSaid` is for every number). `Mission_clean` has nothing left running because
`NothingLeftBehind` and `RunEnds` do not ask what holds, and `Drift` changes nothing else; the
theorem is for both values of `WorkersLinger`. Two calls in one response are enough for a guard that
is read before both, three for two Concurrent ones and an Exclusive one. Compaction acts at
`KeepSteps + 1` groups and again one response later. Two candidates give every order of better,
worse, equal and invalid. Two processes and one signal give every pair of a start and a teardown.
Two batch jobs beside an exclusive one are what the scheduler distinguishes; two subagents after one
agent step are what a compare-and-swap distinguishes, with no, a small and a large prompt. Two slots
and three starts give an eval that is refused, overtakes or dies beside another, and its successor;
one change of the server falls before, between or after all questions. Two tool calls are what one
leaves for the next; the texts have a repeated and an overlapping snippet, a last line with and
without a newline, an empty line and a CRLF.

`CHECK_DEADLOCK FALSE` is set everywhere because every one of these systems stops: a mission is
done or nobody resumes it, a run finishes, a response's calls are answered, the process ends.

`RepeatsAreRefused` allows one response's worth of calls over the limit, which is what the code
guarantees: the guards look before any call of the response runs. `HistoryIsWhole` claims
wire-validity only of runs without a stop and without a failed snapshot: what a snapshot that was
not written leaves on disk is an older history, whose last calls a resume does not answer.

### Fairness

* `Mission`: `WF(Run)` - a process that runs takes its next step - and weak fairness of a worker's
  end, which `agent.Config.MaxSteps` bounds. Crashes, outages and resumes are never required. The human is assumed
  to answer the gate; the code blocks until then.
* `ToolBatch`: `WF(Proceeds)` - goroutines that can run do, and every tool ends: `run_shell` has a
  timeout, subagents a step budget, and `Proceeds` has no cycle. Nothing makes a process that a
  command left behind let go of the output (`LetsGo` has no fairness): the code waits for it without
  a `WaitDelay`. `StepEnds` therefore asks for it as a premise.
* `BackgroundProcs`: the goroutine in `Wait` runs once its `Wait` can return (`WaitDelay` bounds the
  pipe), and the callers of `stop` run, whose wait `stopGrace` bounds. Started processes need never
  exit.

## Proofs

`MissionProofs` proves, for every value of `MaxFix`, `MaxReplans`, `MaxRevisions`, `MaxPlan`,
`MaxResumes` and `MaxSaveFails` and all three switches, from `BudgetAssumption`, `SwitchAssumption` and
`EnvironmentAssumption` alone (the last theorem has a premise of its own):

* `TypeCorrect`: `Spec => []TypeOK`
* `DoneMeasured`: `Spec => []DoneIsMeasured`
* `AttemptsAreBounded`: `Spec => []AttemptsBounded`
* `DoneVerified`: `Spec => DoneIsVerified`
* `LedgerIsPromised`: `Spec => LedgerPromise`, that `Mission` implements `MissionLedger`
* `NothingIsLeftBehind`: `Spec => []NothingLeftBehind`, for `MaxResumes = 0` and `MaxSaveFails = 0`

None of the invariants is inductive: each depends on what the runner knows at its place in `Run`.
`IInv` adds what they rest on. `Good` is what every ledger satisfies, in memory or on disk: its
type, done subtasks measured, attempts bounded, pending subtasks never attempted. `Placed` is what
the ledger in memory satisfies at a place: while a worker or its check is under way the subtask at
the cursor is running, in `passed` its newest fact is a passed check, in `review` the mission is
being verified, and every *other* running subtask (left by a process that died) still has room for
the attempt a resume adds. When no process runs, memory and disk agree; between the final
verification and the end, every check was seen to pass in it, and still does unless something is
left running (`AllVerified`). `IInv` was checked with TLC first.

`NextKeeps` has one lemma per group of actions (plan, execute, verify, replan, environment) and one
step per action. `SavingEffect` says once what all ways of saving have in common (the file holds the
old ledger, the new one, or the new one marked failed) and `EffectKeepsInvariant` that such a step
keeps `IInv`, so an action only shows what it does to the ledger. `DoneVerified` needs the step as
well as the state: `NotDone` and `DoneStep` show that only `Finish`, `VerifyPasses` and their kin
write "done", in a step before which every check was seen to pass. The theorem says of the workspace
at the moment of the save only what the code can know: `DriftKeeps` is why what workers left running
costs `holds` but not `seen`.

`LedgerIsPromised` rests on `Synced`: how far the file may trail the memory. They differ in a first
plan that the human has not approved, and in the newest status of a failed subtask whose save got
lost, and nowhere else. One lemma per action shows `Kept`: the step keeps `Synced`, and leaves the
file alone or takes it to a ledger that `Follows` the old one, which is a
step of `MissionLedger`. For
`NothingIsLeftBehind`, `LeftInv` says that everything of the newest plan before the cursor is done,
place by place; its premise `Undisturbed` is what the property is about, since a resume may skip a
failed subtask (below, the disagreement `Mission_skipped` shows).

`EvalSweepProofs` proves, for any sets of processes, process ids, flags and servers, from
`PidAssumption`, `FlagAssumption`, `ServerAssumption` and `BoundAssumption`:

* `SweepTypeCorrect`: `Spec => []TypeOK`
* `OneEvalAtATime`: `Spec => []OneAtATime`
* `MeasuresWhatItMeans`: `Spec => []MeasuredAsMeant`
* `RecordsNoOther`: `Spec => []RecordNamesNoOther`

`OneAtATime` rests on `LockInv`: unless something excused it, at most one process is inside
`takeLock`, a sweeping one is named by the file and alone, none is about to empty or stamp the file
while another sweeps, and the one about to stamp holds the file the path leads to. `HasPid` (a
running process has an id) joins it. The other two rest on `AskedInv`: what a process was told, of
which nothing changed since, is what the server is, stage by stage of the startup.

`ToolBatchProofs` proves, for every `MaxCalls`, `MaxConcurrent` and `SubSteps`, from
`BoundAssumption`:

* `StepTypeCorrect`: `Spec => []TypeOK`
* `StepKeepsItsPromise`: `Spec => StepPromised`, that `ToolBatch` implements `StepPromise`

Its invariant `Placed` says what each place of the loop allows the calls to be (no Exclusive call
has begun before the join, at most one runs, those before it are over), and that the slots taken are
the delegates that run: the cardinality the abstract cap speaks of. Every action then maps to a step
of `StepPromise` or leaves its variables alone.

`AgentLoopProofs` proves, for every limit, set of calls and configuration, from `BoundAssumption`,
`ConfigAssumption` and `ModelAssumption`:

* `TypeIsOK`: `Spec => []TypeOK`
* `StuckIsAlwaysSaid`: `Spec => []StuckIsSaid`
* `AdvisoriesComeOnce`: `Spec => []AdvisoriesOnce`
* `TheFinishIsEarned`: `Spec => []FinishIsEarned`
* `RepeatsStayRefused`: `Spec => []RepeatsAreRefused`
* `PendingIsKept`: `Spec => PendingSurvives`
* `ToldChangesAlwaysEndRefusals`: `Spec => []ToldChangesEndRefusals`

`AdvisoriesOnce` counts messages, which the code nowhere does; `Latched` and `Warning` tie each
count to the latch that allows it, and a notice that is queued to its threshold as if it had been
said. `Gated` ties the finish to its checks (a failed verification blocks it, the refusals are
numbered), `Recorded` the paths that were written to the list the guard looks at. `StuckIsAlwaysSaid`
ties `quiet`, which counts what the model was not told, to the counter of the code as long as the
escalated words have not been said: after them the code resets its counter in silence, and the
property asks for nothing more. `ToldChangesAlwaysEndRefusals` has no premise: every refused read is in `fresh`
or, once something changed that the loop was not told of, in `missed`.

`ToolsProofs` proves about `BackgroundProcs`, for any sets of processes and calls, from
`CallerAssumption`:

* `TypeIsOK`: `Spec => []TypeOK`
* `StoppedIsGone`: `Spec => []StoppedMeansGone`
* `ReturningLeavesNothing`: `Spec => []ReturnLeavesNothing`

`Stopping` is what a caller of `stop` has come to know of its target by its place in `stop`, and
has to survive whatever the others do to that target; it rests on `Started` (only what was
registered and started is alive, and what is dead stays so). `Deferred` says that once the
deferred `StopAll` has begun nothing new starts and what is alive is still ahead of it.

About `FileTools` it proves, for texts of any length, trees of any shape and any number of calls and
faults, from `TextAssumption`, `PathAssumption`, `SizeAssumption` and its `BoundAssumption`:

* `FilesTypes`: `FilesSpec => []FilesTypeOK`
* `MovesLoseNothing`: `FilesSpec => []MoveLosesNothing`
* `OnlyTargetsChange`: `FilesSpec => []OnlyTheTargetChanges`
* `AnswersHold`: `FilesSpec => []AnswersAreTrue`
* `NumbersAgree`: `FilesSpec => []LineNumbersAgree`
* `PassingIsProducing`: `FilesSpec => []PassedMeansProduced`
* `LinesOfJoin`: splitting what was joined gives the lines back, for any lines without a newline

`MoveLosesNothing` speaks of every moment of a move, so its invariant has to name them: `Moving`
lists what may be left to do and what the disk holds at each, and that the fallback copies only a
file and to another path (`Copying`; a file that is renamed onto itself cannot be refused, or the
copy would empty its own source). `Writing` does the same for the tools that write, `Granted` keeps
what a tool found before it was allowed to start, since `patch_file` and `patch_lines` answer for
the text they had read. The disk stays a tree (`IsDisk`): `Renaming` shows it for a directory that
takes everything below it along, with `Below`, that what has something below it is a directory.
`FilesInv` is the conjunction.

The other half is what `strings.Split`, `strings.Join` and `strings.Count` return, which the model
writes as folds. The library's induction theorems take an operator and cannot be used, so
induction is done on sets: among the subsets of a finite set that break a claim one is minimal
(`MinimalSubset`, from the well-foundedness of strict inclusion), and `SeqInduction` is induction over
sequences for a set in place of a property. `FoldStep` says that a fold over one more element is one
more step; `LinesStep`, `JoinOfAppend` and `CountOfNone` follow. `LinesReplaced` and `Replaced` are
then what `patch_lines` and `patch_file` put into a text.

`ConversationProofs` proves, for any numbers of responses, calls, kept steps, stops and tokens, from
`BoundAssumption` and `TokenAssumption`:

* `HistoriesStayWhole`: `Spec => []HistoryIsWhole`
* `ResponsesReachTheDisk`: `Spec => []ResponseIsOnDisk`
* `RecentStays`: `Spec => RecentIsKept`
* `FullIsAlwaysCompacted`: `Spec => []FullIsCompacted`
* `TypeIsOK`: `Spec => []TypeOK`

`Grown` describes every history the loop can have, in memory or on disk: the head, each result
behind the response that called for it with only results between, and no call answered twice.
`Compacted` cuts it before a group, so no result loses its response. That there is a
group to cut before, and how many stay, needs a number counted from the end of a set: `LeastOf` and
`FromTheTop` get it from the well-foundedness of the subsets of a finite set, in place of an
induction over numbers. `Responded` and `Sent` say what the file holds at which place of a step.
That `measured` is a number (`TypeIsOK`) is that the sum over any history is one: `AddsUp`, about a
fold over a finite set.

`EvalRunProofs` proves, for any jobs, probes, subagents and prompt sizes, from `JobAssumption` and
`ProbeAssumption` (a probe that is run was loaded, its limits are integers):

* `ExclusiveIsAlone`: `Spec => []ExclusiveRunsAlone`
* `SummaryIsOfAll`: `Spec => []SummaryCoversAll`
* `ScoresAreHonest`: `Spec => []ScoreIsHonest`
* `PromptRangesAreExact`: `Spec => []PromptRangeIsExact`
* `TypeIsOK`: `Spec => []TypeOK`

While subagents swap, peak and floor are wrong, so exactness is not inductive. `Peaked` says what
is true meanwhile: a reported size above the peak belongs to a call that is still about to compare
it; `Floored` likewise with zero for "none", which is where the order of the two loops of
`countingClient.Chat` and the failing compare-and-swap matter. When no call is under way (`Quiet`) no such
size is left. `Scheduled` and `Covered` are the same kind of argument for the jobs, `Honest` what
the score says of the run it was made from. `TypeOK` bounds the recorded steps and calls by the
answers, the answers by the requests: between them are the requests under way and the answers
their callers do not know of yet, which `Tallied` counts.

`PlanProofs` proves, for any set of answers, number of candidates and workspace, from
`RequestAssumption`:

* `TypeIsOK`: `Spec => []TypeOK`
* `BestStaysBest`: `Spec => []BestIsKept`
* `NoPlanIsWasted`: `Spec => []NothingIsWasted`
* `NeverBlindChecks`: `Spec => []NoBlindChecks`
* `ChecksAlwaysDiffer`: `Spec => []ChecksDiffer`
* `ChangesAreAlwaysAnnounced`: `Spec => []ChangesAreAnnounced`

The invariant is that either `best` is the first of the best valid answers so far (`Chosen`) or
none was valid (`Nothing`). A new candidate is compared with the best one only, so that it is
compared with all of them needs `Better` to be an order: `BetterOrders`, about scores that are
fractions with different denominators, compared by multiplying across. The other three are about
what `Valid` accepts after the replacements of `Plan`.

Attempts at these proofs corrected the models: `HistoryIsWhole` used to claim wire-validity after
two failed snapshots as well, which is false (the run has room for one), and an answer check that
cannot be read did not count in `AsAsked`. The strength of a plan and the files the loop knows were
folds and are sets now, which the provers can reason about.

Only model-checked:

* liveness (`RunEnds`, `StepEnds`, `ExitIsLearnt`, `TeardownEnds`): fairness and ENABLED are out of
  the prover's reach.
* that the properties can fail: the disagreements below and the mutants are TLC's.

## Where code and text disagree

One is shown by a run and listed in `PROJECT.json`: in `Mission_skipped`, a crash between the save of
"failed" and the replan lets the resumed mission skip the failed subtask and report the mission done
(`phases.go`, `Run`).

Further divergences met while modelling are stated in the MC modules, each with the line it quotes;
TLC refutes each on the instance of the module's run, or on the one named with it:

* `MCMission`: `OutagesSpareTheBudget`, `WorkerRunsBounded`, `RunningMeansMidWorker`,
  `ContinuesTheInterrupted`, `RevisionsAreUsed`, `BudgetIsSpentOnCommit`; `DoneHolds`: a mission is
  recorded as done when a process a worker left running has broken a check since the final
  verification, which the review (`phases.go:614`, "an extra net over already-passing checks") gives it
  the time for.
* `MCAgentLoop`: `BudgetIsHeard`, `OneNudgePerStep`, `NotTheSameTwice`, `WrittenIsOnDisk`,
  `FinishIsGroundTruth`; `RefusedReadsAreUnchanged`: a read is refused as
  unchanged (`agent.go`) after a failing command, a subagent or a background process changed its file.
* `MCToolBatch`: `ExclusiveRunsFirst`, `NothingRacesAWrite`, `OutputIsDelivered`;
  `TimeLimitEndsTheStep`: a process a command leaves behind outlives the time limit of `run_shell`
  (`shell.go:62-69`) and of a check (`checks.go:112-124`), and both wait for it.
* `MCConversation`: `NoteFollowsAnsweredCalls`, `AnswerCompletesTheCalls` (with two calls in a
  response), `SavedSurvives`; `RequestFits`: the generation budget forgets the results since the last
  measurement, and the whole history after a resume.
* `MCBackgroundProcs`: `StopAllLeavesNothing`, `InterruptCleansUp`.
* `MCEvalRun`: `TraceIsComplete`; `UnansweredIsNotScored`: a run whose seed cannot be copied or whose
  first request fails is scored as a failure of the agent (no path of the code sets `Errored`);
  `StepsAreRoundTrips`: the steps of a mission are those of its longest worker;
  `LoadedProbesAssert`: a probe whose only trace check has neither mode nor limit loads and always
  passes.
* `MCEvalSweep`: `NeverTwoEvals`: a holder that has run for three hours is overtaken, two that start
  together both look before either writes, and a reused process id keeps a dead holder's lock (or,
  as the own one, is taken for alive); `OneModelPerSweep`: the model is asked for once;
  `ModelIsRecorded`: a server that does not say its model in time is recorded as "(unknown)" and
  the sweep goes on (`main.go:320-323`), unless `-require-model` is set.
* `MCFileTools`: `PromisesAreChecked`, `PatchIsUnique`, `MoveIsAtomic`.
* `MCPlanSearch`: `RepairSparesThePlan`: a check with a command the host lacks is replaced by
  `file_exists` on a file that exists, which the next rule rejects; `FilesAreWatchedOnce`, once a
  `file_exists` check carries a `contains` it does not use; `FalseBeforeTheWork`: nobody looks whether
  a file contains the needle of its check already.

## What the models leave out

* A check is a function of the workspace and of who answers its requests; that it observes and does
  not act is a rule of `PlanSearch`, as far as `mutatingShellCheck` can tell. `NoBlindChecks` speaks
  of the classes the validator knows. A `content_contains` or `http` check may be true before
  the work, and a subtask without files may have no check at all.
* While a mission's process runs, only its workers and what they left running change the workspace:
  the reviewer and the explorer have read-only tools (`roles.go:87`), and a human who edits
  meanwhile is not modelled.
* Subagents keep no state file; `ask_user` is modelled as the first call of its response.
* `delegate_task` counts at most one mutation of its subagent per call in `AgentLoop`.
* `EvalRun`: no path of the code sets `Errored`, so that part of `ScoreIsHonest` only guards against
  a change that would. How a probe is read and its seed copied is one step that works or fails.
* `FileTools` has one process, no symlinks and no permissions; `list_files`, the cap of 200
  matches of `grep_files` and its lines longer than the scanner's buffer are left out.
* `EvalSweep`: every process belongs to one user, so asking whether an id is alive never fails with
  a refusal that means "alive but not yours".
* `BackgroundProcs`: process groups of Unix only, whose ids are never reused by another group.
* Not modelled at all: `check_url`, the validation of tool arguments, the text of prompts, maps,
  specs, reports and traces, JSON and `<think>` stripping, the encoding of HTTP requests, the cutting
  of long results in the middle, names of transcript files (`a10` sorts before `a9`), float64
  rounding of plan scores. They turn one value into one text and keep no state. Two could matter:
  ten attempts at one subtask, which the default budgets never reach, and two plans whose scores
  differ in the last bit.

## Plan

1. `Mission` and `MissionLedger` with their proofs: the ledger is what every user relies on. Done.
2. `AgentLoop`, `ToolBatch` with `StepPromise`, `Conversation` with its budget, `BackgroundProcs`,
   `EvalRun`, `EvalSweep`, `FileTools`, `PlanSearch`; proofs about `EvalSweep` and `ToolBatch`. Done.
3. The refinement `LedgerPromise` and `NothingLeftBehind` as theorems. Done.
4. Proofs about `AgentLoop`, `BackgroundProcs`, `Conversation`, `EvalRun` and `PlanSearch`: every
   safety property their runs check. Done.
5. Proofs about `FileTools`: its five properties, and the induction over data they need; the types
   of `Conversation` and `EvalRun`. Done.
6. `AgentLoop` composed over `StepPromise`: a step of the loop as the answer of a batch, so that what
   a call saw and what the loop's caches say of it come from one state.
