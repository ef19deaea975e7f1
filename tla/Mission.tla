------------------------------- MODULE Mission -------------------------------
(***************************************************************************)
(* The mission runner of internal/mission: Runner.Run and the handlers it  *)
(* calls (phases.go) over the ledger mission.json (ledger.go).             *)
(*                                                                         *)
(* `mem' is the *Mission the process works on and `disk' what mission.json *)
(* holds; every save may fail and the process may die between any two      *)
(* steps, after which `agent -resume' starts again from `disk'.  The       *)
(* workspace is abstracted to `holds', the set of checks that would pass   *)
(* if they ran now: a worker moves it anywhere, what a worker has left     *)
(* running (start_background, a child of shell) goes on doing so, and so   *)
(* may a human while no process runs.  A check observes and does not act;  *)
(* a subtask's declared check and the checks derived from its files_hint   *)
(* are one check.                                                          *)
(*                                                                         *)
(* The cursor counts from 1 (the code counts from 0).  The fields gen and  *)
(* failedChecks of a subtask are read off the ledger (the value of Replans *)
(* when the subtask was appended; the number of "check: FAILED" facts).    *)
(***************************************************************************)
EXTENDS Integers, Sequences

CONSTANTS
  MaxFix,        \* Runner.maxFixAttempts(): fix workers after a failed check
  MaxReplans,    \* Runner.maxReplans()
  MaxRevisions,  \* Runner.maxPlanRevisions()
  HumanGate,     \* TRUE iff ApprovePlan is set (no -yes)
  HasVerifyCmd,  \* TRUE iff VerifyCmd is non-empty
  WorkersLinger, \* TRUE iff workers leave processes running behind them
  MaxPlan,       \* most subtasks in one plan (parseAndValidate: 8)
  MaxResumes,    \* bound: how often a stopped mission is resumed
  MaxSaveFails   \* bound: how many Saves return an error

ASSUME BudgetAssumption ==
  /\ MaxFix \in Nat /\ MaxReplans \in Nat
  /\ MaxRevisions \in Nat \ {0} /\ MaxPlan \in Nat \ {0}

ASSUME SwitchAssumption ==
  /\ HumanGate \in BOOLEAN /\ HasVerifyCmd \in BOOLEAN
  /\ WorkersLinger \in BOOLEAN

ASSUME EnvironmentAssumption == MaxResumes \in Nat /\ MaxSaveFails \in Nat

VARIABLES
  mem,          \* the ledger in memory
  disk,         \* the ledger in mission.json
  pc,           \* where Runner.Run stands; "down" when no process runs
  reason,       \* what tryReplan was called for
  revision,     \* the loop variable of runPlan and tryReplan
  answer,       \* the approval gate's last answer
  holds,        \* the checks the workspace satisfies; 0 is VerifyCmd
  left,         \* TRUE: a worker may have left something running
  seen,         \* what the newest final verification found to hold; none
                \* once a worker or a human has touched the workspace since
  transcripts,  \* <<i, a, whole>>: workers/s<i>-a<a>.json, cut short or whole
  resumes,      \* how often the mission was resumed
  saveFails     \* how many Saves failed

vars == <<mem, disk, pc, reason, revision, answer, holds, left, seen,
          transcripts, resumes, saveFails>>

Phases   == {"explore", "plan", "execute", "verify", "done", "failed"}
Terminal == {"done", "failed"}
Statuses == {"pending", "running", "done", "failed", "skipped"}
Settled  == {"done", "failed", "skipped"}
Facts    == {"none", "stopped", "passed", "failed", "verifyFailed"}

Subtask == [status : Statuses, attempts : Nat, failedChecks : Nat,
            fact : Facts,               \* the newest measured fact
            check : {"none", "real"},   \* Check.Type "none", or any other
            gen : Nat]

Ledger == [phase : Phases, subs : Seq(Subtask), replans : Nat, cursor : Nat]

\* Mutant: the harness-owned fields are not overwritten.
FreshKeepingModelFields(g) ==
  [status : {"pending", "complete"}, attempts : {0}, failedChecks : {0},
   fact : {"none"}, check : {"none", "real"}, gen : {g}]

(***************************************************************************)
(* What parseAndValidate lets through: 1..MaxPlan fresh subtasks.  One     *)
(* with check "none" has no files_hint (validateCheck, readOnlySubtaskErr),*)
(* so it has no derived checks either.                                     *)
(***************************************************************************)
Fresh(g) == [status : {"pending"}, attempts : {0}, failedChecks : {0},
             fact : {"none"}, check : {"none", "real"}, gen : {g}]

Plans(g) == UNION {[1..n -> Fresh(g)] : n \in 1..MaxPlan}

Answers == IF HumanGate THEN {"approve", "reject", "note"} ELSE {"approve"}

CheckKeys(m) == (IF HasVerifyCmd THEN {0} ELSE {}) \union 1..Len(m.subs)

(***************************************************************************)
(* Saving, and the ways Run returns.  When the process is gone, memory is  *)
(* gone with it: mem mirrors disk until the next start loads it.           *)
(***************************************************************************)
Commit(m, next) ==
  /\ mem' = m /\ disk' = m /\ pc' = next
  /\ UNCHANGED saveFails

SaveFails ==
  /\ saveFails < MaxSaveFails
  /\ saveFails' = saveFails + 1
  /\ UNCHANGED disk

Exit == pc' = "down" /\ mem' = disk'

\* if err := m.Save(r.Dir); err != nil { return "", err }
CommitOrReturn(m, next) == Commit(m, next) \/ (SaveFails /\ Exit)

\* _ = m.Save(r.Dir)
BestEffort(m, next) == Commit(m, next) \/ (SaveFails /\ mem' = m /\ pc' = next)

Fail(m) ==
  LET f == [m EXCEPT !.phase = "failed"]
  IN  /\ \/ disk' = f /\ UNCHANGED saveFails
         \/ SaveFails
      /\ Exit

\* A Save whose error reaches r.fail, which saves once more.
CommitOrFail(m, next) ==
  \/ Commit(m, next)
  \/ /\ saveFails < MaxSaveFails
     /\ disk' = [m EXCEPT !.phase = "failed"]
     /\ saveFails' = saveFails + 1
     /\ Exit
  \/ /\ saveFails + 1 < MaxSaveFails
     /\ saveFails' = saveFails + 2
     /\ UNCHANGED disk
     /\ Exit

\* The locals of the plan loops are dropped when a loop ends.
EndLoop == reason' = "none" /\ revision' = 0 /\ answer' = "none"

loop == <<reason, revision, answer>>

world == <<holds, left, seen>>

Init ==
  /\ mem = [phase |-> "explore", subs |-> <<>>, replans |-> 0, cursor |-> 1]
  /\ disk = mem
  /\ pc = "dispatch"
  /\ reason = "none" /\ revision = 0 /\ answer = "none"
  /\ holds = {} /\ left = FALSE /\ seen = {} /\ transcripts = {}
  /\ resumes = 0 /\ saveFails = 0

-----------------------------------------------------------------------------
(***************************************************************************)
(* Run's dispatch on the phase.                                            *)
(***************************************************************************)
AtPhase(p) == pc = "dispatch" /\ mem.phase = p

\* Infallible: the map may stay empty, planning proceeds either way.
Explore ==
  /\ AtPhase("explore")
  /\ CommitOrReturn([mem EXCEPT !.phase = "plan"], "dispatch")
  /\ UNCHANGED <<loop, world, transcripts, resumes>>

\* PhaseDone and PhaseFailed: the report is printed and Run returns.
Return ==
  /\ pc = "dispatch" /\ mem.phase \in Terminal
  /\ UNCHANGED <<disk, saveFails>>
  /\ Exit
  /\ UNCHANGED <<loop, world, transcripts, resumes>>

-----------------------------------------------------------------------------
(***************************************************************************)
(* runPlan.  Each turn of its loop is one step: GeneratePlan, then the     *)
(* human's answer.  m.Subtasks already holds the new plan when the human   *)
(* answers, so a rejected plan is what the failed ledger shows.            *)
(***************************************************************************)
Planned(plan) == [mem EXCEPT !.subs = plan]

\* errInfra: the phase stays "plan" and nothing was saved.
PlanOutage ==
  /\ AtPhase("plan")
  /\ UNCHANGED <<disk, saveFails>>
  /\ Exit /\ EndLoop
  /\ UNCHANGED <<world, transcripts, resumes>>

\* No candidate and no repair passed parseAndValidate.
PlanInvalid ==
  /\ AtPhase("plan")
  /\ Fail(mem) /\ EndLoop
  /\ UNCHANGED <<world, transcripts, resumes>>

PlanApproved(plan) ==
  /\ AtPhase("plan")
  /\ CommitOrFail([Planned(plan) EXCEPT !.phase = "execute", !.cursor = 1],
                  "dispatch")
  /\ EndLoop
  /\ UNCHANGED <<world, transcripts, resumes>>

RevisionsLeft == revision + 1 < MaxRevisions

\* Mutant: the revision is not counted.
PlanSentBackUncounted(plan) ==
  /\ AtPhase("plan") /\ RevisionsLeft
  /\ "note" \in Answers
  /\ mem' = Planned(plan)
  /\ revision' = revision /\ answer' = "note"
  /\ UNCHANGED <<disk, pc, saveFails, reason, world, transcripts, resumes>>

PlanSentBack(plan) ==
  /\ AtPhase("plan") /\ RevisionsLeft
  /\ "note" \in Answers
  /\ mem' = Planned(plan)
  /\ revision' = revision + 1 /\ answer' = "note"
  /\ UNCHANGED <<disk, pc, saveFails, reason, world, transcripts, resumes>>

\* "n", or a note when the revisions are used up.
GateCloses(a) ==
  /\ a \in Answers \ {"approve"}
  /\ a = "note" => ~RevisionsLeft
  /\ answer' = a

PlanAbandoned(plan, a) ==
  /\ AtPhase("plan")
  /\ GateCloses(a)
  /\ Fail(Planned(plan))
  /\ UNCHANGED <<reason, revision, world, transcripts, resumes>>

-----------------------------------------------------------------------------
(***************************************************************************)
(* PhaseExecute: the subtask at the cursor.                                *)
(***************************************************************************)
Executing == AtPhase("execute")

Cur == mem.subs[mem.cursor]

InPlan == mem.cursor \in 1..Len(mem.subs)

\* The ledger with the subtask at the cursor replaced by s.
WithSub(s) == [mem EXCEPT !.subs[mem.cursor] = s]

PastTheEnd ==
  /\ Executing /\ ~InPlan
  /\ CommitOrReturn([mem EXCEPT !.phase = "verify"], "dispatch")
  /\ UNCHANGED <<loop, world, transcripts, resumes>>

SkipSettled ==
  /\ Executing /\ InPlan
  /\ Cur.status \in Settled
  /\ CommitOrReturn([mem EXCEPT !.cursor = @ + 1], "dispatch")
  /\ UNCHANGED <<loop, world, transcripts, resumes>>

\* latestWorkerState: the attempt whose transcript is newest, 0 when there is
\* none and when the newest is an empty file.
NewestTranscript(i) ==
  LET as == {t[2] : t \in {u \in transcripts : u[1] = i}}
  IN  IF \E a \in as : (\A b \in as : b <= a) /\ <<i, a, TRUE>> \in transcripts
        THEN CHOOSE a \in as : \A b \in as : b <= a
        ELSE 0

HasTranscript(i) == NewestTranscript(i) # 0

\* The top of attempt: one more attempt unless a transcript is continued.
StartAttempt(continue) ==
  WithSub([Cur EXCEPT !.status = "running",
                      !.attempts = IF continue THEN @ ELSE @ + 1])

Resumable == Cur.status = "running" /\ HasTranscript(mem.cursor)

\* runSubtask's first attempt.  Run dispatches here on pending and running.
StartSubtask ==
  /\ Executing /\ InPlan
  /\ Cur.status \notin Settled
  /\ CommitOrFail(StartAttempt(Resumable), "worker")
  /\ UNCHANGED <<loop, world, transcripts, resumes>>

\* saveState truncates the running attempt's transcript and writes it again.
Transcribed(whole) ==
  {t \in transcripts : <<t[1], t[2]>> # <<mem.cursor, Cur.attempts>>}
    \union {<<mem.cursor, Cur.attempts, whole>>}

\* The workspace becomes h, whatever the worker leaves running.
Touched(h) == holds' = h /\ left' \in {left, WorkersLinger} /\ seen' = {}

\* Mutant: a worker's report is taken for the verdict.
WorkerStepTrusted(h, next) ==
  /\ pc = "worker" /\ next \in {"worker", "check"}
  /\ h \subseteq CheckKeys(mem)
  /\ Touched(h)
  /\ transcripts' = Transcribed(TRUE)
  /\ pc' = (IF next = "check" THEN "passed" ELSE "worker")
  /\ UNCHANGED <<mem, disk, saveFails, loop, resumes>>

(***************************************************************************)
(* The worker makes one model call and runs the tools it asks for: its     *)
(* transcript is saved as soon as a response is there, and the workspace   *)
(* may change in any way.  It goes on, or it ends (a report or ErrMaxSteps,*)
(* which the runner treats alike).                                         *)
(***************************************************************************)
WorkerStep(h, next) ==
  /\ pc = "worker" /\ next \in {"worker", "check"}
  /\ h \subseteq CheckKeys(mem)
  /\ Touched(h)
  /\ transcripts' = Transcribed(TRUE)
  /\ pc' = next
  /\ UNCHANGED <<mem, disk, saveFails, loop, resumes>>

\* The backend dies: the attempt's facts are kept and Run returns errInfra.
WorkerOutage ==
  /\ pc = "worker"
  /\ \/ /\ disk' = WithSub([Cur EXCEPT !.fact = "stopped"])
        /\ UNCHANGED saveFails
     \/ SaveFails
  /\ Exit
  /\ UNCHANGED <<loop, world, transcripts, resumes>>

Passes(i) == mem.subs[i].check = "none" \/ i \in holds

\* RunCheck and RunDerivedChecks, whose verdict is recorded and saved.
CheckSubtask ==
  /\ pc = "check"
  /\ IF Passes(mem.cursor)
       THEN CommitOrFail(WithSub([Cur EXCEPT !.fact = "passed"]), "passed")
       ELSE CommitOrFail(WithSub([Cur EXCEPT !.fact = "failed",
                                             !.failedChecks = @ + 1]), "failed")
  /\ UNCHANGED <<loop, world, transcripts, resumes>>

SettleDone ==
  /\ pc = "passed"
  /\ CommitOrFail([WithSub([Cur EXCEPT !.status = "done"])
                    EXCEPT !.cursor = @ + 1], "dispatch")
  /\ UNCHANGED <<loop, world, transcripts, resumes>>

\* Mutant: one fix worker too many.
FixesLeftOffByOne == Cur.attempts <= 1 + MaxFix

FixesLeft == Cur.attempts < 1 + MaxFix

StartFix ==
  /\ pc = "failed" /\ FixesLeft
  /\ CommitOrFail(StartAttempt(FALSE), "worker")
  /\ UNCHANGED <<loop, world, transcripts, resumes>>

GiveUp ==
  /\ pc = "failed" /\ ~FixesLeft
  /\ BestEffort(WithSub([Cur EXCEPT !.status = "failed"]), "replanning")
  /\ reason' = "subtask"
  /\ UNCHANGED <<revision, answer, world, transcripts, resumes>>

-----------------------------------------------------------------------------
(***************************************************************************)
(* PhaseVerify: runVerifyChecks, the review, the end.                      *)
(***************************************************************************)
Verifying == AtPhase("verify")

\* What the checks, run one after the other, can find to hold: what holds, and
\* anything while something goes on changing the workspace.
Verdicts == IF left THEN SUBSET CheckKeys(mem) ELSE {holds}

\* Mutant: only the newest subtask is verified again.
RegressedNewestOnly(found) ==
  {i \in {Len(mem.subs)} \ {0} :
     mem.subs[i].status = "done" /\ mem.subs[i].check # "none" /\ i \notin found}

\* The subtasks whose checks the final verification runs and finds failing.
Regressed(found) ==
  {i \in 1..Len(mem.subs) :
     mem.subs[i].status = "done" /\ mem.subs[i].check # "none" /\ i \notin found}

VerifyCmdFails(found) == HasVerifyCmd /\ 0 \notin found

Verified(found) == seen' = found /\ UNCHANGED <<holds, left>>

VerifyPasses(found) ==
  /\ Verifying
  /\ Regressed(found) = {} /\ ~VerifyCmdFails(found)
  /\ pc' = "review"
  /\ Verified(found)
  /\ UNCHANGED <<mem, disk, saveFails, loop, transcripts, resumes>>

VerifyFinds(found) ==
  /\ Verifying
  /\ Regressed(found) # {} \/ VerifyCmdFails(found)
  /\ BestEffort(
       [mem EXCEPT !.subs =
          [i \in 1..Len(mem.subs) |->
             IF i \in Regressed(found)
               THEN [mem.subs[i] EXCEPT !.fact = "verifyFailed"]
               ELSE mem.subs[i]]],
       "replanning")
  /\ reason' = "verify"
  /\ Verified(found)
  /\ UNCHANGED <<revision, answer, transcripts, resumes>>

Finish(m) == CommitOrReturn([m EXCEPT !.phase = "done"], "dispatch")

\* The review is skipped, fails, says ok, or finds gaps nobody can pay for.
ReviewPasses ==
  /\ pc = "review"
  /\ Finish(mem)
  /\ UNCHANGED <<loop, world, transcripts, resumes>>

ReviewFindsGaps ==
  /\ pc = "review"
  /\ mem.replans < MaxReplans
  /\ pc' = "replanning" /\ reason' = "review"
  /\ UNCHANGED <<mem, disk, saveFails, revision, answer, world, transcripts,
                 resumes>>

-----------------------------------------------------------------------------
(***************************************************************************)
(* tryReplan.  When the review asked for it, every error means "finish as  *)
(* it is"; otherwise infra errors stop the process and others fail the     *)
(* mission.                                                                *)
(***************************************************************************)
Replanning == pc = "replanning"

BudgetLeft == mem.replans < MaxReplans

ReplanError(m) == IF reason = "review" THEN Finish(m) ELSE Fail(m)

ReplanOutage ==
  /\ Replanning /\ BudgetLeft
  /\ IF reason = "review" THEN Finish(mem)
                          ELSE UNCHANGED <<disk, saveFails>> /\ Exit
  /\ EndLoop
  /\ UNCHANGED <<world, transcripts, resumes>>

\* The budget is used up, or no plan passed parseAndValidate.
ReplanImpossible ==
  /\ Replanning
  /\ ReplanError(mem) /\ EndLoop
  /\ UNCHANGED <<world, transcripts, resumes>>

ReplanAbandoned(a) ==
  /\ Replanning /\ BudgetLeft
  /\ GateCloses(a)
  /\ ReplanError(mem)
  /\ reason' = "none" /\ revision' = (IF reason = "review" THEN 0 ELSE revision)
  /\ UNCHANGED <<world, transcripts, resumes>>

ReplanSentBack ==
  /\ Replanning /\ BudgetLeft /\ RevisionsLeft
  /\ "note" \in Answers
  /\ revision' = revision + 1 /\ answer' = "note"
  /\ UNCHANGED <<mem, disk, pc, saveFails, reason, world, transcripts, resumes>>

\* Mutants: the replan erases the failed tail; the cursor is taken after the
\* append.
ExtendedErasing(plan) ==
  [phase |-> "execute",
   subs |-> SubSeq(mem.subs, 1, Len(mem.subs) - 1) \o plan,
   replans |-> mem.replans + 1,
   cursor |-> Len(mem.subs)]

ExtendedCursorAfter(plan) ==
  [phase |-> "execute",
   subs |-> mem.subs \o plan,
   replans |-> mem.replans + 1,
   cursor |-> Len(mem.subs \o plan) + 1]

\* The executed history stays; the new subtasks follow it.
Extended(plan) ==
  [phase |-> "execute",
   subs |-> mem.subs \o plan,
   replans |-> mem.replans + 1,
   cursor |-> Len(mem.subs) + 1]

\* The save fails after m was extended: with a review's reason Run falls
\* through to PhaseDone, else it fails the mission; both save once more.
ReplanApproved(plan) ==
  /\ Replanning /\ BudgetLeft
  /\ IF reason # "review"
       THEN CommitOrFail(Extended(plan), "dispatch")
       ELSE \/ Commit(Extended(plan), "dispatch")
            \/ /\ saveFails < MaxSaveFails
               /\ saveFails' = saveFails + 1
               /\ disk' = [Extended(plan) EXCEPT !.phase = "done"]
               /\ mem' = disk' /\ pc' = "dispatch"
            \/ /\ saveFails + 1 < MaxSaveFails
               /\ saveFails' = saveFails + 2
               /\ UNCHANGED disk
               /\ Exit
  /\ EndLoop
  /\ UNCHANGED <<world, transcripts, resumes>>

-----------------------------------------------------------------------------
(***************************************************************************)
(* The process may die anywhere, also while a worker's transcript is being *)
(* written, and is started again with -resume.  While it is down the       *)
(* workspace is a human's; what workers left running may live on.          *)
(***************************************************************************)
Crash ==
  /\ pc # "down"
  /\ transcripts' \in {transcripts}
       \union (IF pc = "worker" THEN {Transcribed(FALSE)} ELSE {})
  /\ UNCHANGED <<disk, saveFails>>
  /\ Exit /\ EndLoop
  /\ UNCHANGED <<world, resumes>>

Resume(h) ==
  /\ pc = "down" /\ resumes < MaxResumes
  /\ h \subseteq CheckKeys(disk)
  /\ holds' = h /\ left' \in {left, FALSE} /\ seen' = {}
  /\ pc' = "dispatch" /\ resumes' = resumes + 1
  /\ EndLoop
  /\ UNCHANGED <<mem, disk, saveFails, transcripts>>

\* What a worker left running changes the workspace, or what an http check
\* asks, whatever the runner is doing.
Drift(h) ==
  /\ pc # "down" /\ left
  /\ h \subseteq CheckKeys(mem)
  /\ holds' = h
  /\ UNCHANGED <<mem, disk, pc, saveFails, loop, left, seen, transcripts,
                 resumes>>

Plan ==
  \/ PlanOutage
  \/ PlanInvalid
  \/ \E plan \in Plans(mem.replans) :
       \/ PlanApproved(plan)
       \/ PlanSentBack(plan)
       \/ \E a \in Answers : PlanAbandoned(plan, a)

Execute ==
  \/ PastTheEnd
  \/ SkipSettled
  \/ StartSubtask
  \/ \E h \in SUBSET CheckKeys(mem), next \in {"worker", "check"} :
       WorkerStep(h, next)
  \/ WorkerOutage
  \/ CheckSubtask
  \/ SettleDone
  \/ StartFix
  \/ GiveUp

Verify ==
  \/ \E found \in Verdicts : VerifyPasses(found) \/ VerifyFinds(found)
  \/ ReviewPasses
  \/ ReviewFindsGaps

Replan ==
  \/ ReplanOutage
  \/ ReplanImpossible
  \/ ReplanSentBack
  \/ \E a \in Answers : ReplanAbandoned(a)
  \/ \E plan \in Plans(mem.replans + 1) : ReplanApproved(plan)

Run == Explore \/ Plan \/ Execute \/ Verify \/ Replan \/ Return

Next ==
  \/ Run
  \/ Crash
  \/ \E h \in SUBSET CheckKeys(disk) : Resume(h)
  \/ \E h \in SUBSET CheckKeys(mem) : Drift(h)

Spec == Init /\ [][Next]_vars

(***************************************************************************)
(* A process that runs keeps running, the human answers, and a worker ends *)
(* (agent.Config.MaxSteps bounds its steps).  Nothing is assumed of the    *)
(* environment: crashes, outages and lost saves need not happen, and       *)
(* nobody need resume a stopped mission.                                   *)
(***************************************************************************)
WorkerEnds == \E h \in SUBSET CheckKeys(mem) : WorkerStep(h, "check")

Fairness == WF_vars(Run) /\ WF_vars(WorkerEnds)

FairSpec == Spec /\ Fairness

-----------------------------------------------------------------------------
(***************************************************************************)
(* Properties.                                                             *)
(***************************************************************************)
Places == {"down", "dispatch", "worker", "check", "passed", "failed", "review",
           "replanning"}

\* The type of every variable (Mission, Subtask: ledger.go).
TypeOK ==
  /\ mem \in Ledger /\ disk \in Ledger
  /\ pc \in Places
  /\ reason \in {"none", "subtask", "verify", "review"}
  /\ revision \in Nat
  /\ answer \in {"none", "approve", "reject", "note"}
  /\ holds \subseteq Nat /\ left \in BOOLEAN /\ seen \subseteq Nat
  /\ transcripts \subseteq Nat \X Nat \X BOOLEAN
  /\ resumes \in Nat /\ saveFails \in Nat

\* Never a faked success: whatever crashes, outages and lost saves happen, a
\* subtask recorded as done has a check that was run by the harness and passed
\* as the last measurement before it was settled (attempt, runSubtask).
MeasuredIn(m) ==
  \A i \in 1..Len(m.subs) :
    m.subs[i].status = "done" => m.subs[i].fact \in {"passed", "verifyFailed"}

DoneIsMeasured == MeasuredIn(mem) /\ MeasuredIn(disk)

\* A mission that reaches PhaseDone does so after a final verification that
\* found every done subtask's check and the verify command to pass, with no
\* worker and no resume in between, on every way there (the review, the replan
\* it asked for, a lost save); and they pass at that moment too, unless what a
\* worker left running may have changed the workspace since.
Vouched(i) == i \in seen /\ (left \/ i \in holds)

AllVerified(m) ==
  /\ \A i \in 1..Len(m.subs) :
       m.subs[i].status = "done" => m.subs[i].check = "none" \/ Vouched(i)
  /\ HasVerifyCmd => Vouched(0)

DoneIsVerified ==
  [][disk.phase # "done" /\ disk'.phase = "done" => AllVerified(disk')]_vars

\* The worker runs of one subtask are bounded: its fix budget plus one run for
\* every restart of the process, which gives its first attempt for free.
AttemptsBounded ==
  \A i \in 1..Len(disk.subs) : disk.subs[i].attempts <= 1 + MaxFix + resumes

\* In a run without stops and lost saves, a mission is done only when every
\* subtask of its newest plan is done: the failed and the pending subtasks that
\* remain all belong to plans a replan has replaced (tryReplan).
Current(m) == {i \in 1..Len(m.subs) : m.subs[i].gen = m.replans}

NothingLeftBehind ==
  disk.phase = "done" => \A i \in Current(disk) : disk.subs[i].status = "done"

\* The ledger on disk keeps the promise stated in MissionLedger.
Promise == INSTANCE MissionLedger WITH
  phase <- disk.phase,
  subs <- [i \in 1..Len(disk.subs) |->
             [status |-> disk.subs[i].status, attempts |-> disk.subs[i].attempts]],
  replans <- disk.replans

LedgerPromise == Promise!Spec

\* Every process comes to an end: the budgets for fixes, replans and revisions
\* leave Run's loop no way to go on forever.
RunEnds == pc # "down" ~> pc = "down"
=============================================================================
