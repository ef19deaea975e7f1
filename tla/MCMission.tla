----------------------------- MODULE MCMission -----------------------------
(***************************************************************************)
(* Mission on small instances: the budgets and the bounds of each run are  *)
(* in its .cfg.  The first part restricts the environment, the second      *)
(* states what comments of phases.go say of the runner and what the runs   *)
(* named after them refute.                                                *)
(***************************************************************************)
EXTENDS Mission, SequencesExt

\* The backend may die, the process does not.
NoCrashNext ==
  \/ Run
  \/ \E h \in SUBSET CheckKeys(disk) : Resume(h)
  \/ \E h \in SUBSET CheckKeys(mem) : Drift(h)
NoCrashSpec == Init /\ [][NoCrashNext]_vars

-----------------------------------------------------------------------------
\* "a failed subtask still at the cursor after a resume means it was already
\* either replaced by a replan or is about to fail the mission below"
\* (phases.go, Run): so no mission is done with a failed subtask that its
\* newest plan still contains.
FailedIsReplacedOrFatal ==
  disk.phase = "done" => \A i \in Current(disk) : disk.subs[i].status # "failed"

\* "the review is an extra net over already-passing checks" (phases.go,
\* runReview): the checks pass when the mission is recorded as done.  What a
\* worker left running may break them after the final verification.
DoneHolds ==
  [][disk.phase # "done" /\ disk'.phase = "done"
       => \A i \in 1..Len(disk'.subs) :
            disk'.subs[i].status = "done" => disk'.subs[i].check = "none" \/ i \in holds]_vars

\* "Infra errors stop the mission ... without consuming fix or replan budgets"
\* (phases.go, errInfra): a subtask that failed had its check fail after the
\* first worker and after every fix worker of the budget.
OutagesSpareTheBudget ==
  \A i \in 1..Len(disk.subs) :
    disk.subs[i].status = "failed" => disk.subs[i].failedChecks >= 1 + MaxFix

\* "this bounds total worker runs by construction: subtasks x (1+fixes) x
\* (1+replans)" (phases.go, MaxReplans).
WorkerRuns(m) == FoldSeq(LAMBDA s, n : s.attempts + n, 0, m.subs)

WorkerRunsBounded ==
  WorkerRuns(disk) <= MaxPlan * (1 + MaxFix) * (1 + MaxReplans)

\* "StatusRunning on entry means the process died mid-worker last time"
\* (phases.go, runSubtask): no worker is started on a subtask whose check has
\* already passed.
RunningMeansMidWorker == pc = "worker" => Cur.fact # "passed"

\* "the newest saved transcript should be continued" (phases.go, runSubtask):
\* the transcript that is continued is the interrupted attempt's.
ContinuesTheInterrupted ==
  [][pc = "dispatch" /\ pc' = "worker" /\ Resumable
       => NewestTranscript(mem.cursor) = Cur.attempts]_vars

\* "plan still rejected after %d revisions" (phases.go, runPlan): a mission
\* that fails because the human sent its plan back once more has revised its
\* plan MaxPlanRevisions times.
RevisionsAreUsed ==
  answer = "note" /\ pc = "down" /\ disk.phase = "failed" => revision >= MaxRevisions

\* "The budget is spent only when a new plan actually commits" (phases.go,
\* tryReplan): Replans grows together with a ledger that is to be executed.
BudgetIsSpentOnCommit ==
  [][disk'.replans # disk.replans => disk'.phase = "execute"]_vars
=============================================================================
