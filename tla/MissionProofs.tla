---------------------------- MODULE MissionProofs ----------------------------
(***************************************************************************)
(* Theorems about Mission for every value of its constants.                *)
(***************************************************************************)
EXTENDS Mission, SequenceTheorems, TLAPS

-----------------------------------------------------------------------------
(***************************************************************************)
(* Lemmas about the ledgers the actions build.                             *)
(***************************************************************************)

\* Replacing the subtask at the cursor keeps the ledger's type and touches
\* nothing else.
LEMMA WithSubType ==
  ASSUME mem \in Ledger, InPlan, NEW s \in Subtask
  PROVE  /\ WithSub(s) \in Ledger
         /\ WithSub(s).phase = mem.phase
         /\ WithSub(s).replans = mem.replans
         /\ WithSub(s).cursor = mem.cursor
         /\ Len(WithSub(s).subs) = Len(mem.subs)
         /\ \A i \in 1..Len(mem.subs) :
              WithSub(s).subs[i] = IF i = mem.cursor THEN s ELSE mem.subs[i]
<1>1. mem.subs \in Seq(Subtask)
  BY DEF Ledger
<1>2. /\ [mem.subs EXCEPT ![mem.cursor] = s] \in Seq(Subtask)
      /\ Len([mem.subs EXCEPT ![mem.cursor] = s]) = Len(mem.subs)
      /\ \A i \in 1..Len(mem.subs) :
           [mem.subs EXCEPT ![mem.cursor] = s][i]
             = IF i = mem.cursor THEN s ELSE mem.subs[i]
  BY <1>1, ExceptSeq DEF InPlan
<1>3. WithSub(s) = [mem EXCEPT !.subs = [mem.subs EXCEPT ![mem.cursor] = s]]
  BY DEF WithSub, Ledger
<1>. QED
  BY <1>2, <1>3 DEF Ledger

\* A plan that passed validation is a non-empty sequence of fresh subtasks.
LEMMA PlanType ==
  ASSUME NEW g \in Nat, NEW plan \in Plans(g)
  PROVE  /\ plan \in Seq(Subtask)
         /\ Len(plan) \in Nat \ {0}
         /\ \A i \in 1..Len(plan) : plan[i] \in Fresh(g)
<1>1. PICK n \in 1..MaxPlan : plan \in [1..n -> Fresh(g)]
  BY DEF Plans
<1>2. n \in Nat \ {0}
  BY <1>1, BudgetAssumption
<1>3. plan \in Seq(Fresh(g)) /\ Len(plan) = n
  BY <1>1, <1>2
<1>4. Fresh(g) \subseteq Subtask
  BY DEF Fresh, Subtask, Statuses, Facts
<1>. QED
  BY <1>1, <1>2, <1>3, <1>4

\* Extending the ledger appends the plan after the executed history.
LEMMA ExtendedType ==
  ASSUME mem \in Ledger, NEW plan \in Plans(mem.replans + 1)
  PROVE  /\ Extended(plan) \in Ledger
         /\ Extended(plan).phase = "execute"
         /\ Extended(plan).replans = mem.replans + 1
         /\ Extended(plan).cursor = Len(mem.subs) + 1
         /\ Len(Extended(plan).subs) = Len(mem.subs) + Len(plan)
         /\ \A i \in 1..Len(Extended(plan).subs) :
              \/ i \in 1..Len(mem.subs) /\ Extended(plan).subs[i] = mem.subs[i]
              \/ i > Len(mem.subs) /\ Extended(plan).subs[i] \in Fresh(mem.replans + 1)
<1>1. mem.subs \in Seq(Subtask) /\ mem.replans + 1 \in Nat
  BY DEF Ledger
<1>2. plan \in Seq(Subtask) /\ \A i \in 1..Len(plan) : plan[i] \in Fresh(mem.replans + 1)
  BY <1>1, PlanType
<1>3. /\ mem.subs \o plan \in Seq(Subtask)
      /\ Len(mem.subs \o plan) = Len(mem.subs) + Len(plan)
      /\ \A i \in 1..Len(mem.subs) + Len(plan) :
           (mem.subs \o plan)[i]
             = IF i <= Len(mem.subs) THEN mem.subs[i] ELSE plan[i - Len(mem.subs)]
  BY <1>1, <1>2, ConcatProperties
<1>4. Len(mem.subs) \in Nat /\ Len(plan) \in Nat
  BY <1>1, <1>2, LenProperties
<1>5. /\ Extended(plan).subs = mem.subs \o plan
      /\ Extended(plan).phase = "execute"
      /\ Extended(plan).replans = mem.replans + 1
      /\ Extended(plan).cursor = Len(mem.subs) + 1
      /\ Extended(plan) \in Ledger
  <2>1. "execute" \in Phases
    BY DEF Phases
  <2>. QED
    BY <2>1, <1>1, <1>3, <1>4 DEF Extended, Ledger
<1>6. ASSUME NEW i \in 1..Len(Extended(plan).subs)
      PROVE  \/ i \in 1..Len(mem.subs) /\ Extended(plan).subs[i] = mem.subs[i]
             \/ i > Len(mem.subs) /\ Extended(plan).subs[i] \in Fresh(mem.replans + 1)
  <2>1. i \in 1..Len(mem.subs) + Len(plan)
    BY <1>3, <1>5, <1>6
  <2>2. CASE i <= Len(mem.subs)
    BY <2>1, <2>2, <1>3, <1>4, <1>5
  <2>3. CASE ~(i <= Len(mem.subs))
    <3>1. i - Len(mem.subs) \in 1..Len(plan)
      BY <2>1, <2>3, <1>4
    <3>2. Extended(plan).subs[i] = plan[i - Len(mem.subs)]
      BY <2>1, <2>3, <1>3, <1>5
    <3>3. i > Len(mem.subs)
      BY <2>1, <2>3, <1>4
    <3>. QED
      BY <3>1, <3>2, <3>3, <1>2
  <2>. QED
    BY <2>2, <2>3
<1>. QED
  BY <1>3, <1>5, <1>6

-----------------------------------------------------------------------------
(***************************************************************************)
(* The inductive invariant.  Good is what every ledger satisfies, in memory*)
(* or on disk, after r resumes; Placed is what the ledger in memory        *)
(* satisfies at a given place of Run.  The bound on attempts needs the     *)
(* distinction Placed makes: a running subtask that no worker of this      *)
(* process has been started on leaves room for the attempt a resume adds.  *)
(***************************************************************************)
Busy == {"worker", "check", "passed", "failed"}

Good(m, r) ==
  /\ m \in Ledger
  /\ MeasuredIn(m)
  /\ \A i \in 1..Len(m.subs) :
       /\ m.subs[i].attempts <= 1 + MaxFix + r
       /\ m.subs[i].status = "pending" => m.subs[i].attempts = 0

Placed(m, place, why, r) ==
  /\ place \in Busy => /\ m.phase = "execute"
                       /\ m.cursor \in 1..Len(m.subs)
                       /\ m.subs[m.cursor].status = "running"
  /\ place = "passed" => m.subs[m.cursor].fact = "passed"
  /\ place = "review" => m.phase = "verify"
  /\ place = "replanning" => /\ m.phase \in {"execute", "verify"}
                             /\ why \in {"subtask", "verify", "review"}
  /\ \A i \in 1..Len(m.subs) :
       m.subs[i].status = "running" /\ ~(place \in Busy /\ i = m.cursor)
         => m.subs[i].attempts <= MaxFix + r

WorldTyped ==
  /\ holds \subseteq Nat /\ left \in BOOLEAN /\ seen \subseteq Nat
  /\ transcripts \subseteq Nat \X Nat \X BOOLEAN

\* A worker's transcript is named after its subtask and its attempt.
LEMMA TranscribedType ==
  ASSUME WorldTyped, mem \in Ledger, Cur \in Subtask, NEW whole \in BOOLEAN
  PROVE  Transcribed(whole) \subseteq Nat \X Nat \X BOOLEAN
<1>1. mem.cursor \in Nat /\ Cur.attempts \in Nat
  BY DEF Ledger, Subtask
<1>2. <<mem.cursor, Cur.attempts, whole>> \in Nat \X Nat \X BOOLEAN
  BY <1>1
<1>3. transcripts \subseteq Nat \X Nat \X BOOLEAN
  BY DEF WorldTyped
<1>. QED
  BY <1>2, <1>3 DEF Transcribed

\* Between the final verification and what follows it, all checks are verified.
Reviewed(place, why) ==
  place = "review" \/ (place = "replanning" /\ why = "review")

IInv ==
  /\ TypeOK
  /\ Good(mem, resumes) /\ Good(disk, resumes)
  /\ pc = "down" => mem = disk
  /\ pc # "down" => Placed(mem, pc, reason, resumes)
  /\ Reviewed(pc, reason) => AllVerified(mem)

-----------------------------------------------------------------------------
(***************************************************************************)
(* What all the ways of saving have in common.                             *)
(***************************************************************************)
Failed(m) == [m EXCEPT !.phase = "failed"]

Effect(m, next) ==
  /\ disk' \in {disk, m, Failed(m)}
  /\ saveFails' \in Nat
  /\ \/ pc' = next /\ mem' = m
     \/ pc' = "down" /\ mem' = disk'

\* However a ledger is saved, mission.json holds the old ledger, the new one, or
\* the new one marked as failed, and a Run that returns leaves nothing else.
LEMMA SavingEffect ==
  ASSUME saveFails \in Nat, NEW m, NEW next,
         \/ CommitOrReturn(m, next)
         \/ BestEffort(m, next)
         \/ CommitOrFail(m, next)
         \/ Fail(m)
         \/ UNCHANGED <<disk, saveFails>> /\ Exit
  PROVE  Effect(m, next)
BY DEF Effect, Failed, CommitOrReturn, BestEffort, CommitOrFail, Fail, Commit,
       SaveFails, Exit

\* Changing the phase does not touch what Good says.
LEMMA GoodPhase ==
  ASSUME NEW m, NEW r, Good(m, r), NEW p \in Phases
  PROVE  /\ Good([m EXCEPT !.phase = p], r)
         /\ [m EXCEPT !.phase = p].phase = p
         /\ [m EXCEPT !.phase = p].subs = m.subs
         /\ [m EXCEPT !.phase = p].cursor = m.cursor
         /\ [m EXCEPT !.phase = p].replans = m.replans
BY DEF Good, Ledger, MeasuredIn

\* A step that saves a good ledger and stands where that ledger is placed
\* keeps the invariant.
LEMMA EffectKeepsInvariant ==
  ASSUME IInv,
         NEW m, NEW next \in Places \ {"down"},
         Effect(m, next), Good(m, resumes),
         Placed(m, next, reason', resumes),
         Reviewed(next, reason') => AllVerified(m)',
         UNCHANGED resumes,
         reason' \in {"none", "subtask", "verify", "review"},
         revision' \in Nat,
         answer' \in {"none", "approve", "reject", "note"},
         UNCHANGED <<world, transcripts>> \/ WorldTyped'
  PROVE  IInv'
<1>1. Good(Failed(m), resumes)
  BY GoodPhase DEF Failed, Phases
<1>2. Good(disk, resumes)
  BY DEF IInv
<1>3. Good(disk', resumes)
  BY <1>1, <1>2 DEF Effect
<1>4. Good(mem', resumes)
  BY <1>3 DEF Effect
<1>5. Good(mem, resumes)' /\ Good(disk, resumes)'
  BY <1>3, <1>4 DEF Good, MeasuredIn
<1>6. TypeOK'
  <2>1. WorldTyped'
    BY DEF WorldTyped, world, IInv, TypeOK
  <2>. QED
    BY <1>5, <2>1 DEF TypeOK, WorldTyped, IInv, Good, Effect, Places
<1>7. CASE pc' = next /\ mem' = m
  <2>1. Reviewed(pc, reason)' => AllVerified(mem)'
    BY <1>7 DEF Reviewed, AllVerified
  <2>. QED
    BY <1>5, <1>6, <1>7, <2>1 DEF IInv, Placed
<1>8. CASE pc' = "down" /\ mem' = disk'
  BY <1>5, <1>6, <1>8 DEF IInv, Reviewed
<1>. QED
  BY <1>7, <1>8 DEF Effect

\* The ledgers the actions save are good, and no subtask of theirs runs
\* unless it ran before.
LEMMA WithSubGood ==
  ASSUME Good(mem, resumes), InPlan,
         NEW s \in Subtask,
         s.attempts <= 1 + MaxFix + resumes,
         s.status # "pending",
         s.status = "done" => s.fact \in {"passed", "verifyFailed"}
  PROVE  Good(WithSub(s), resumes)
<1>1. mem \in Ledger
  BY DEF Good
<1>2. /\ WithSub(s) \in Ledger
      /\ Len(WithSub(s).subs) = Len(mem.subs)
      /\ \A i \in 1..Len(mem.subs) :
           WithSub(s).subs[i] = IF i = mem.cursor THEN s ELSE mem.subs[i]
  BY <1>1, WithSubType
<1>. QED
  BY <1>2 DEF Good, MeasuredIn

\* A replan's ledger is good when the one it extends is.
LEMMA ExtendedGood ==
  ASSUME Good(mem, resumes), resumes \in Nat, NEW plan \in Plans(mem.replans + 1)
  PROVE  Good(Extended(plan), resumes)
<1>1. mem \in Ledger
  BY DEF Good
<1>2. /\ Extended(plan) \in Ledger
      /\ \A i \in 1..Len(Extended(plan).subs) :
           \/ i \in 1..Len(mem.subs) /\ Extended(plan).subs[i] = mem.subs[i]
           \/ i > Len(mem.subs) /\ Extended(plan).subs[i] \in Fresh(mem.replans + 1)
  BY <1>1, ExtendedType
<1>3. ASSUME NEW i \in 1..Len(Extended(plan).subs)
      PROVE  LET s == Extended(plan).subs[i]
             IN  /\ s.status = "done" => s.fact \in {"passed", "verifyFailed"}
                 /\ s.attempts <= 1 + MaxFix + resumes
                 /\ s.status = "pending" => s.attempts = 0
  <2>1. CASE i \in 1..Len(mem.subs) /\ Extended(plan).subs[i] = mem.subs[i]
    BY <2>1 DEF Good, MeasuredIn
  <2>2. CASE Extended(plan).subs[i] \in Fresh(mem.replans + 1)
    BY <2>2, BudgetAssumption DEF Fresh
  <2>. QED
    BY <1>2, <2>1, <2>2
<1>. QED
  BY <1>2, <1>3 DEF Good, MeasuredIn

\* The ledger with a first plan in it is good and nothing of it has started.
LEMMA PlannedGood ==
  ASSUME Good(mem, resumes), resumes \in Nat, NEW plan \in Plans(mem.replans)
  PROVE  /\ Good(Planned(plan), resumes)
         /\ Planned(plan).phase = mem.phase
         /\ \A i \in 1..Len(Planned(plan).subs) :
              Planned(plan).subs[i].status = "pending"
<1>1. mem \in Ledger /\ mem.replans \in Nat
  BY DEF Good, Ledger
<1>2. /\ plan \in Seq(Subtask)
      /\ \A i \in 1..Len(plan) : plan[i] \in Fresh(mem.replans)
  BY <1>1, PlanType
<1>3. /\ Planned(plan).subs = plan
      /\ Planned(plan).phase = mem.phase
      /\ Planned(plan) \in Ledger
  BY <1>1, <1>2 DEF Planned, Ledger
<1>4. \A i \in 1..Len(plan) : /\ plan[i].status = "pending"
                              /\ plan[i].attempts = 0
  BY <1>2 DEF Fresh
<1>. QED
  BY <1>2, <1>3, <1>4, BudgetAssumption DEF Good, MeasuredIn

-----------------------------------------------------------------------------
(***************************************************************************)
(* Every step keeps the invariant.                                         *)
(***************************************************************************)
\* A mission starts with a good ledger.
LEMMA InitInvariant == Init => IInv
<1>. SUFFICES ASSUME Init PROVE IInv
  OBVIOUS
<1>1. <<>> \in Seq(Subtask) /\ Len(<<>>) = 0
  BY EmptySeq
<1>2. mem \in Ledger /\ mem.subs = <<>> /\ disk = mem
  BY <1>1 DEF Init, Ledger, Phases
<1>3. TypeOK
  BY <1>2 DEF Init, TypeOK, Places
<1>4. Good(mem, resumes) /\ Good(disk, resumes)
  BY <1>1, <1>2 DEF Good, MeasuredIn
<1>5. Placed(mem, pc, reason, resumes)
  BY <1>1, <1>2 DEF Init, Placed, Busy
<1>. QED
  BY <1>3, <1>4, <1>5 DEF Init, IInv, Reviewed

\* Planning replaces the subtasks by fresh ones, whatever the human answers.
LEMMA PlanKeeps == IInv /\ Plan => IInv'
<1>. SUFFICES ASSUME IInv, Plan PROVE IInv'
  OBVIOUS
<1>1. /\ Good(mem, resumes) /\ saveFails \in Nat /\ resumes \in Nat
      /\ revision \in Nat /\ reason \in {"none", "subtask", "verify", "review"}
      /\ WorldTyped
  BY DEF IInv, TypeOK, WorldTyped
<1>2. pc = "dispatch" /\ mem.phase = "plan"
  BY DEF Plan, PlanOutage, PlanInvalid, PlanApproved, PlanSentBack, PlanAbandoned,
         AtPhase
<1>3. Placed(mem, "dispatch", reason, resumes)
  BY <1>2 DEF IInv
<1>4. "dispatch" \in Places \ {"down"}
  BY DEF Places
<1>5. CASE PlanOutage
  <2>1. Effect(mem, "dispatch")
    BY <1>1, <1>5, SavingEffect DEF PlanOutage
  <2>2. Placed(mem, "dispatch", reason', resumes)
    BY <1>3 DEF Placed
  <2>. QED
    BY <1>1, <1>4, <1>5, <2>1, <2>2, EffectKeepsInvariant
       DEF PlanOutage, EndLoop, Reviewed
<1>6. CASE PlanInvalid
  <2>1. Effect(mem, "dispatch")
    BY <1>1, <1>6, SavingEffect DEF PlanInvalid
  <2>2. Placed(mem, "dispatch", reason', resumes)
    BY <1>3 DEF Placed
  <2>. QED
    BY <1>1, <1>4, <1>6, <2>1, <2>2, EffectKeepsInvariant
       DEF PlanInvalid, EndLoop, Reviewed
<1>7. ASSUME NEW plan \in Plans(mem.replans), PlanApproved(plan)
      PROVE  IInv'
  <2> DEFINE m == [Planned(plan) EXCEPT !.phase = "execute", !.cursor = 1]
  <2>1. /\ Good(Planned(plan), resumes)
        /\ \A i \in 1..Len(Planned(plan).subs) :
             Planned(plan).subs[i].status = "pending"
    BY <1>1, PlannedGood
  <2>2. m \in Ledger /\ m.subs = Planned(plan).subs
    BY <2>1 DEF Good, Ledger, Phases
  <2>3. Good(m, resumes)
    BY <2>1, <2>2 DEF Good, MeasuredIn
  <2>4. Placed(m, "dispatch", reason', resumes)
    BY <2>1, <2>2 DEF Placed, Busy
  <2>5. Effect(m, "dispatch")
    BY <1>1, <1>7, SavingEffect DEF PlanApproved
  <2> HIDE DEF m
  <2>. QED
    BY <1>1, <1>4, <1>7, <2>3, <2>4, <2>5, EffectKeepsInvariant
       DEF PlanApproved, EndLoop, Reviewed
<1>8. ASSUME NEW plan \in Plans(mem.replans), PlanSentBack(plan)
      PROVE  IInv'
  <2>1. Good(Planned(plan), resumes) /\ Placed(Planned(plan), "dispatch", reason, resumes)
    BY <1>1, PlannedGood DEF Placed, Busy
  <2>2. Effect(Planned(plan), "dispatch")
    BY <1>1, <1>2, <1>8 DEF PlanSentBack, Effect
  <2>. QED
    BY <1>1, <1>4, <1>8, <2>1, <2>2, EffectKeepsInvariant
       DEF PlanSentBack, Reviewed
<1>9. ASSUME NEW plan \in Plans(mem.replans), NEW a \in Answers,
             PlanAbandoned(plan, a)
      PROVE  IInv'
  <2>1. Good(Planned(plan), resumes) /\ Placed(Planned(plan), "dispatch", reason, resumes)
    BY <1>1, PlannedGood DEF Placed, Busy
  <2>2. Effect(Planned(plan), "dispatch")
    BY <1>1, <1>9, SavingEffect DEF PlanAbandoned
  <2>3. answer' \in {"approve", "reject", "note"}
    BY <1>9 DEF PlanAbandoned, GateCloses, Answers
  <2>. QED
    BY <1>1, <1>4, <1>9, <2>1, <2>2, <2>3, EffectKeepsInvariant
       DEF PlanAbandoned, Reviewed
<1>. QED
  BY <1>5, <1>6, <1>7, <1>8, <1>9 DEF Plan

\* A step of Execute saves the ledger with the cursor's subtask replaced by s.
LEMMA WithSubKeeps ==
  ASSUME IInv, InPlan, mem.phase = "execute",
         pc \in Busy \union {"dispatch"},
         NEW s \in Subtask, NEW next \in Busy \union {"replanning"},
         Effect(WithSub(s), next),
         s.attempts <= 1 + MaxFix + resumes,
         next \in Busy => s.status = "running",
         next = "replanning" => s.status = "failed" /\ reason' = "subtask",
         next = "passed" => s.fact = "passed",
         UNCHANGED <<revision, answer, world, transcripts, resumes>>,
         reason' \in {"none", "subtask", "verify", "review"}
  PROVE  IInv'
<1>1. /\ mem \in Ledger /\ Good(mem, resumes) /\ resumes \in Nat
      /\ Placed(mem, pc, reason, resumes)
  BY DEF IInv, TypeOK, Busy
<1>2. /\ Len(WithSub(s).subs) = Len(mem.subs)
      /\ WithSub(s).phase = "execute" /\ WithSub(s).cursor = mem.cursor
      /\ \A i \in 1..Len(mem.subs) :
           WithSub(s).subs[i] = IF i = mem.cursor THEN s ELSE mem.subs[i]
  BY <1>1, WithSubType
<1>3. s.status \in {"running", "failed"}
  BY DEF Busy
<1>4. Good(WithSub(s), resumes)
  BY <1>1, <1>3, WithSubGood
<1>5. ASSUME NEW i \in 1..Len(WithSub(s).subs),
             WithSub(s).subs[i].status = "running",
             ~(next \in Busy /\ i = WithSub(s).cursor)
      PROVE  WithSub(s).subs[i].attempts <= MaxFix + resumes
  <2>1. CASE i = mem.cursor
    BY <1>2, <1>5, <2>1 DEF Busy
  <2>2. CASE i # mem.cursor
    BY <1>1, <1>2, <1>5, <2>2 DEF Placed
  <2>. QED
    BY <2>1, <2>2
<1>6. Placed(WithSub(s), next, reason', resumes)
  BY <1>2, <1>5 DEF Placed, InPlan, Busy
<1>7. next \in Places \ {"down"}
  BY DEF Busy, Places
<1>8. ~Reviewed(next, reason')
  BY DEF Reviewed, Busy
<1>. QED
  BY <1>4, <1>6, <1>7, <1>8, EffectKeepsInvariant DEF IInv, TypeOK

\* Where a worker, its check or its verdict stands, the cursor is in the plan.
LEMMA AtWork ==
  ASSUME IInv, pc \in Busy
  PROVE  /\ InPlan /\ mem.phase = "execute"
         /\ Cur \in Subtask /\ Cur.status = "running"
         /\ Cur.attempts <= 1 + MaxFix + resumes
         /\ pc = "passed" => Cur.fact = "passed"
<1>1. mem.subs \in Seq(Subtask)
  BY DEF IInv, TypeOK, Ledger
<1>2. Placed(mem, pc, reason, resumes)
  BY DEF IInv, Busy
<1>. QED
  BY <1>1, <1>2, ElementOfSeq DEF Placed, InPlan, Cur, IInv, Good

\* Executing rewrites the record at the cursor and moves the cursor.
LEMMA ExecuteKeeps == IInv /\ Execute => IInv'
<1>. SUFFICES ASSUME IInv, Execute PROVE IInv'
  OBVIOUS
<1>1. /\ mem \in Ledger /\ Good(mem, resumes) /\ Good(disk, resumes)
      /\ saveFails \in Nat /\ resumes \in Nat /\ revision \in Nat
      /\ mem.subs \in Seq(Subtask) /\ Len(mem.subs) \in Nat
      /\ reason \in {"none", "subtask", "verify", "review"}
      /\ answer \in {"none", "approve", "reject", "note"}
      /\ WorldTyped
  BY LenProperties DEF IInv, TypeOK, WorldTyped, Ledger
<1>2. "dispatch" \in Places \ {"down"}
  BY DEF Places
<1>3. CASE PastTheEnd
  <2> DEFINE m == [mem EXCEPT !.phase = "verify"]
  <2>1. Good(m, resumes) /\ m.subs = mem.subs
    BY <1>1, GoodPhase DEF Phases
  <2>2. Effect(m, "dispatch")
    BY <1>1, <1>3, SavingEffect DEF PastTheEnd
  <2>3. Placed(mem, "dispatch", reason, resumes)
    BY <1>3 DEF PastTheEnd, Executing, AtPhase, IInv
  <2>4. Placed(m, "dispatch", reason, resumes)
    BY <2>1, <2>3 DEF Placed, Busy
  <2> HIDE DEF m
  <2>. QED
    BY <1>1, <1>2, <1>3, <2>1, <2>2, <2>4, EffectKeepsInvariant
       DEF PastTheEnd, loop, Reviewed
<1>4. CASE SkipSettled
  <2> DEFINE m == [mem EXCEPT !.cursor = @ + 1]
  <2>1. m \in Ledger /\ m.subs = mem.subs
    BY <1>1 DEF Ledger
  <2>2. Good(m, resumes)
    BY <1>1, <2>1 DEF Good, MeasuredIn
  <2>3. Effect(m, "dispatch")
    BY <1>1, <1>4, SavingEffect DEF SkipSettled
  <2>4. Placed(mem, "dispatch", reason, resumes)
    BY <1>4 DEF SkipSettled, Executing, AtPhase, IInv
  <2>5. Placed(m, "dispatch", reason, resumes)
    BY <2>1, <2>4 DEF Placed, Busy
  <2> HIDE DEF m
  <2>. QED
    BY <1>1, <1>2, <1>4, <2>2, <2>3, <2>5, EffectKeepsInvariant
       DEF SkipSettled, loop, Reviewed
<1>5. CASE StartSubtask
  <2> DEFINE s == [Cur EXCEPT !.status = "running",
                              !.attempts = IF Resumable THEN @ ELSE @ + 1]
  <2>1. InPlan /\ pc = "dispatch" /\ mem.phase = "execute" /\ Cur.status \notin Settled
    BY <1>5 DEF StartSubtask, Executing, AtPhase
  <2>2. Cur \in Subtask
    BY <1>1, <2>1, ElementOfSeq DEF InPlan, Cur
  <2>3. Placed(mem, "dispatch", reason, resumes)
    BY <2>1 DEF IInv
  <2>4. Cur.status = "pending" \/ Cur.status = "running"
    BY <2>1, <2>2 DEF Subtask, Statuses, Settled
  <2>5. Cur.attempts <= MaxFix + resumes
    BY <1>1, <2>1, <2>3, <2>4, BudgetAssumption DEF Placed, Busy, Cur, InPlan, Good
  <2>6. s \in Subtask /\ s.attempts <= 1 + MaxFix + resumes /\ s.status = "running"
    <3> DEFINE n == IF Resumable THEN Cur.attempts ELSE Cur.attempts + 1
    <3>1. n \in Nat /\ n <= 1 + MaxFix + resumes
      BY <1>1, <2>2, <2>5, BudgetAssumption DEF Subtask
    <3>2. s = [Cur EXCEPT !.status = "running", !.attempts = n]
      OBVIOUS
    <3> HIDE DEF n, s
    <3>. QED
      BY <2>2, <3>1, <3>2 DEF Subtask, Statuses
  <2>7. Effect(WithSub(s), "worker")
    BY <1>1, <1>5, SavingEffect DEF StartSubtask, StartAttempt
  <2> HIDE DEF s
  <2>. QED
    BY <1>1, <1>5, <2>1, <2>6, <2>7, WithSubKeeps DEF StartSubtask, loop, Busy
<1>6. ASSUME NEW h \in SUBSET CheckKeys(mem), NEW next \in {"worker", "check"},
             WorkerStep(h, next)
      PROVE  IInv'
  <2>1. /\ pc = "worker" /\ Touched(h) /\ pc' = next
        /\ transcripts' = Transcribed(TRUE)
        /\ UNCHANGED <<mem, disk, saveFails, loop, resumes>>
    BY <1>6 DEF WorkerStep
  <2>2. Cur \in Subtask /\ Placed(mem, pc, reason, resumes)
    BY <2>1, AtWork DEF Busy, IInv
  <2>3. transcripts' \subseteq Nat \X Nat \X BOOLEAN
    BY <1>1, <2>1, <2>2, TranscribedType
  <2>4. WorldTyped'
    <3>1. left' = left \/ left' = WorkersLinger
      BY <2>1 DEF Touched
    <3>2. left' \in BOOLEAN
      BY <1>1, <3>1, SwitchAssumption DEF WorldTyped
    <3>3. holds' \subseteq Nat /\ seen' = {}
      BY <1>1, <2>1 DEF CheckKeys, Touched
    <3>. QED
      BY <2>3, <3>2, <3>3 DEF WorldTyped
  <2>5. Placed(mem, next, reason, resumes)
    BY <2>1, <2>2 DEF Placed, Busy
  <2>6. Effect(mem, next)
    BY <1>1, <2>1 DEF Effect
  <2>. QED
    BY <1>1, <2>1, <2>4, <2>5, <2>6, EffectKeepsInvariant
       DEF loop, Reviewed, Places
<1>7. CASE WorkerOutage
  <2> DEFINE s == [Cur EXCEPT !.fact = "stopped"]
  <2>1. /\ InPlan /\ mem.phase = "execute" /\ Cur \in Subtask
        /\ Cur.status = "running" /\ Cur.attempts <= 1 + MaxFix + resumes
        /\ pc = "worker"
    BY <1>7, AtWork DEF WorkerOutage, Busy
  <2>2. /\ s \in Subtask /\ s.status = "running"
        /\ s.attempts <= 1 + MaxFix + resumes
    BY <2>1 DEF Subtask, Facts
  <2>3. Effect(WithSub(s), "worker")
    BY <1>1, <1>7 DEF WorkerOutage, Effect, SaveFails, Exit
  <2> HIDE DEF s
  <2>. QED
    BY <1>1, <1>7, <2>1, <2>2, <2>3, WithSubKeeps DEF WorkerOutage, loop, Busy
<1>8. CASE CheckSubtask
  <2>1. /\ InPlan /\ mem.phase = "execute" /\ Cur \in Subtask
        /\ Cur.status = "running" /\ Cur.attempts <= 1 + MaxFix + resumes
        /\ pc = "check"
    BY <1>8, AtWork DEF CheckSubtask, Busy
  <2>2. CASE Passes(mem.cursor)
    <3> DEFINE s == [Cur EXCEPT !.fact = "passed"]
    <3>1. /\ s \in Subtask /\ s.status = "running" /\ s.fact = "passed"
          /\ s.attempts <= 1 + MaxFix + resumes
      BY <2>1 DEF Subtask, Facts
    <3>2. Effect(WithSub(s), "passed")
      BY <1>1, <1>8, <2>2, SavingEffect DEF CheckSubtask
    <3> HIDE DEF s
    <3>. QED
      BY <1>1, <1>8, <2>1, <3>1, <3>2, WithSubKeeps DEF CheckSubtask, loop, Busy
  <2>3. CASE ~Passes(mem.cursor)
    <3> DEFINE s == [Cur EXCEPT !.fact = "failed", !.failedChecks = @ + 1]
    <3>1. /\ s \in Subtask /\ s.status = "running"
          /\ s.attempts <= 1 + MaxFix + resumes
      <4>1. Cur.failedChecks + 1 \in Nat
        BY <2>1 DEF Subtask
      <4>. QED
        BY <2>1, <4>1 DEF Subtask, Facts
    <3>2. Effect(WithSub(s), "failed")
      BY <1>1, <1>8, <2>3, SavingEffect DEF CheckSubtask
    <3> HIDE DEF s
    <3>. QED
      BY <1>1, <1>8, <2>1, <3>1, <3>2, WithSubKeeps DEF CheckSubtask, loop, Busy
  <2>. QED
    BY <2>2, <2>3
<1>9. CASE SettleDone
  <2> DEFINE s == [Cur EXCEPT !.status = "done"]
             m == [WithSub(s) EXCEPT !.cursor = @ + 1]
  <2>1. /\ InPlan /\ mem.phase = "execute" /\ Cur \in Subtask
        /\ Cur.attempts <= 1 + MaxFix + resumes
        /\ pc = "passed" /\ Cur.fact = "passed"
    BY <1>9, AtWork DEF SettleDone, Busy
  <2>2. /\ s \in Subtask /\ s.status = "done" /\ s.fact = "passed"
        /\ s.attempts <= 1 + MaxFix + resumes
    BY <2>1 DEF Subtask, Statuses
  <2>3. Effect(m, "dispatch")
    BY <1>1, <1>9, SavingEffect DEF SettleDone
  <2> HIDE DEF s
  <2>4. Good(WithSub(s), resumes)
    BY <1>1, <2>1, <2>2, WithSubGood
  <2>5. /\ WithSub(s) \in Ledger
        /\ Len(WithSub(s).subs) = Len(mem.subs)
        /\ \A i \in 1..Len(mem.subs) :
             WithSub(s).subs[i] = IF i = mem.cursor THEN s ELSE mem.subs[i]
    BY <1>1, <2>1, <2>2, WithSubType
  <2>6. m \in Ledger /\ m.subs = WithSub(s).subs
    BY <2>5 DEF Ledger
  <2>7. Good(m, resumes)
    BY <2>4, <2>6 DEF Good, MeasuredIn
  <2>8. Placed(mem, pc, reason, resumes)
    BY <2>1 DEF IInv
  <2>9. Placed(m, "dispatch", reason, resumes)
    BY <2>2, <2>5, <2>6, <2>8 DEF Placed, Busy
  <2> HIDE DEF m
  <2>. QED
    BY <1>1, <1>2, <1>9, <2>3, <2>7, <2>9, EffectKeepsInvariant
       DEF SettleDone, loop, Reviewed
<1>10. CASE StartFix
  <2> DEFINE s == [Cur EXCEPT !.status = "running",
                              !.attempts = IF FALSE THEN @ ELSE @ + 1]
  <2>1. /\ InPlan /\ mem.phase = "execute" /\ Cur \in Subtask
        /\ pc = "failed" /\ Cur.attempts < 1 + MaxFix
    BY <1>10, AtWork DEF StartFix, FixesLeft, Busy
  <2>2. /\ s \in Subtask /\ s.status = "running"
        /\ s.attempts <= 1 + MaxFix + resumes
    <3>1. Cur.attempts \in Nat /\ Cur.attempts + 1 \in Nat
      BY <2>1 DEF Subtask
    <3>2. s = [Cur EXCEPT !.status = "running", !.attempts = Cur.attempts + 1]
      OBVIOUS
    <3>3. s \in Subtask /\ s.status = "running" /\ s.attempts = Cur.attempts + 1
      BY <2>1, <3>1, <3>2 DEF Subtask, Statuses
    <3>. QED
      BY <1>1, <2>1, <3>1, <3>3, BudgetAssumption
  <2>3. Effect(WithSub(s), "worker")
    BY <1>1, <1>10, SavingEffect DEF StartFix, StartAttempt
  <2> HIDE DEF s
  <2>. QED
    BY <1>1, <1>10, <2>1, <2>2, <2>3, WithSubKeeps DEF StartFix, loop, Busy
<1>11. CASE GiveUp
  <2> DEFINE s == [Cur EXCEPT !.status = "failed"]
  <2>1. /\ InPlan /\ mem.phase = "execute" /\ Cur \in Subtask
        /\ Cur.attempts <= 1 + MaxFix + resumes /\ pc = "failed"
    BY <1>11, AtWork DEF GiveUp, Busy
  <2>2. /\ s \in Subtask /\ s.status = "failed"
        /\ s.attempts <= 1 + MaxFix + resumes
    BY <2>1 DEF Subtask, Statuses
  <2>3. Effect(WithSub(s), "replanning")
    BY <1>1, <1>11, SavingEffect DEF GiveUp
  <2> HIDE DEF s
  <2>. QED
    BY <1>1, <1>11, <2>1, <2>2, <2>3, WithSubKeeps DEF GiveUp, Busy
<1>. QED
  BY <1>3, <1>4, <1>5, <1>6, <1>7, <1>8, <1>9, <1>10, <1>11 DEF Execute

\* The final verification only writes facts, and only of done subtasks; it
\* hands on to the review when every check of theirs holds.
LEMMA VerifyKeeps == IInv /\ Verify => IInv'
<1>. SUFFICES ASSUME IInv, Verify PROVE IInv'
  OBVIOUS
<1>1. /\ mem \in Ledger /\ Good(mem, resumes)
      /\ saveFails \in Nat /\ resumes \in Nat /\ revision \in Nat
      /\ mem.subs \in Seq(Subtask) /\ Len(mem.subs) \in Nat
      /\ reason \in {"none", "subtask", "verify", "review"}
      /\ answer \in {"none", "approve", "reject", "note"}
      /\ WorldTyped
  BY LenProperties DEF IInv, TypeOK, WorldTyped, Ledger
<1>2. {"dispatch", "review", "replanning"} \subseteq Places \ {"down"}
  BY DEF Places
<1>3. Placed(mem, pc, reason, resumes)
  BY DEF IInv, Verify, VerifyPasses, VerifyFinds, ReviewPasses, ReviewFindsGaps,
         Verifying, AtPhase
<1>4. ASSUME NEW found \in Verdicts, VerifyPasses(found) \/ VerifyFinds(found)
      PROVE  /\ seen' = found /\ holds' = holds /\ left' = left
             /\ WorldTyped'
             /\ left \/ found = holds
  <2>1. /\ seen' = found /\ holds' = holds /\ left' = left
        /\ transcripts' = transcripts
    BY <1>4 DEF VerifyPasses, VerifyFinds, Verified
  <2>2. found \subseteq Nat /\ (left \/ found = holds)
    BY <1>1, <1>4 DEF Verdicts, CheckKeys, WorldTyped
  <2>. QED
    BY <1>1, <2>1, <2>2 DEF WorldTyped
<1>5. ASSUME NEW found \in Verdicts, VerifyPasses(found)
      PROVE  IInv'
  <2>1. pc = "dispatch" /\ mem.phase = "verify"
    BY <1>5 DEF VerifyPasses, Verifying, AtPhase
  <2>2. mem' = mem /\ reason' = reason
    BY <1>5 DEF VerifyPasses, loop
  <2>3. Placed(mem, "review", reason, resumes)
    BY <1>3, <1>5, <2>1 DEF Placed, Busy
  <2>4. Effect(mem, "review")
    BY <1>1, <1>5 DEF VerifyPasses, Effect
  <2>5. AllVerified(mem)'
    BY <1>4, <1>5, <2>2
       DEF VerifyPasses, Regressed, VerifyCmdFails, AllVerified, Vouched
  <2>6. WorldTyped'
    BY <1>4, <1>5
  <2>. QED
    BY <1>1, <1>2, <1>5, <2>2, <2>3, <2>4, <2>5, <2>6, EffectKeepsInvariant
       DEF VerifyPasses, loop, AllVerified
<1>6. ASSUME NEW found \in Verdicts, VerifyFinds(found)
      PROVE  IInv'
  <2> DEFINE f == [i \in 1..Len(mem.subs) |->
                     IF i \in Regressed(found)
                       THEN [mem.subs[i] EXCEPT !.fact = "verifyFailed"]
                       ELSE mem.subs[i]]
             m == [mem EXCEPT !.subs = f]
  <2>1. pc = "dispatch" /\ mem.phase = "verify"
    BY <1>6 DEF VerifyFinds, Verifying, AtPhase
  <2>2. ASSUME NEW i \in 1..Len(mem.subs)
        PROVE  /\ f[i] \in Subtask
               /\ f[i].status = mem.subs[i].status
               /\ f[i].attempts = mem.subs[i].attempts
               /\ f[i].fact \in {mem.subs[i].fact, "verifyFailed"}
    <3>1. mem.subs[i] \in Subtask
      BY <1>1, ElementOfSeq
    <3>. QED
      BY <3>1 DEF Subtask, Facts
  <2>3. f \in Seq(Subtask) /\ Len(f) = Len(mem.subs)
    <3> HIDE DEF f
    <3>1. f \in [1..Len(mem.subs) -> Subtask]
      <4>1. DOMAIN f = 1..Len(mem.subs) /\ f = [i \in 1..Len(mem.subs) |-> f[i]]
        BY DEF f
      <4>. QED
        BY <2>2, <4>1
    <3>. QED
      BY <1>1, <3>1, SeqDef, LenProperties
  <2>4. Effect(m, "replanning")
    BY <1>1, <1>6, SavingEffect DEF VerifyFinds
  <2> HIDE DEF f
  <2>5. /\ m \in Ledger /\ m.subs = f /\ m.phase = "verify"
        /\ m.cursor = mem.cursor
    BY <1>1, <2>1, <2>3 DEF Ledger
  <2>6. Good(m, resumes)
    <3>1. MeasuredIn(mem)
      BY <1>1 DEF Good
    <3>2. MeasuredIn(m)
      BY <2>2, <2>3, <2>5, <3>1 DEF MeasuredIn
    <3>3. \A i \in 1..Len(mem.subs) :
            /\ f[i].attempts <= 1 + MaxFix + resumes
            /\ f[i].status = "pending" => f[i].attempts = 0
      BY <1>1, <2>2 DEF Good
    <3>. QED
      BY <2>3, <2>5, <3>2, <3>3 DEF Good
  <2>7. Placed(m, "replanning", "verify", resumes)
    BY <1>3, <1>6, <2>1, <2>2, <2>3, <2>5 DEF Placed, Busy
  <2>8. WorldTyped'
    BY <1>4, <1>6
  <2> HIDE DEF m
  <2>. QED
    BY <1>1, <1>2, <1>6, <2>4, <2>6, <2>7, <2>8, EffectKeepsInvariant
       DEF VerifyFinds, Reviewed
<1>7. CASE ReviewPasses
  <2> DEFINE m == [mem EXCEPT !.phase = "done"]
  <2>1. Good(m, resumes) /\ m.subs = mem.subs
    BY <1>1, GoodPhase DEF Phases
  <2>2. Effect(m, "dispatch")
    BY <1>1, <1>7, SavingEffect DEF ReviewPasses, Finish
  <2>3. Placed(m, "dispatch", reason, resumes)
    BY <1>3, <1>7, <2>1 DEF Placed, Busy, ReviewPasses
  <2> HIDE DEF m
  <2>. QED
    BY <1>1, <1>2, <1>7, <2>1, <2>2, <2>3, EffectKeepsInvariant
       DEF ReviewPasses, loop, Reviewed
<1>8. CASE ReviewFindsGaps
  <2>1. pc = "review" /\ mem' = mem /\ reason' = "review"
    BY <1>8 DEF ReviewFindsGaps
  <2>2. AllVerified(mem)'
    BY <1>8, <2>1 DEF ReviewFindsGaps, AllVerified, Vouched, world, IInv, Reviewed
  <2>3. Placed(mem, "replanning", "review", resumes)
    BY <1>3, <2>1 DEF Placed, Busy
  <2>4. Effect(mem, "replanning")
    BY <1>1, <1>8 DEF ReviewFindsGaps, Effect
  <2>. QED
    BY <1>1, <1>2, <1>8, <2>1, <2>2, <2>3, <2>4, EffectKeepsInvariant
       DEF ReviewFindsGaps, AllVerified
<1>. QED
  BY <1>6, <1>7, <1>8, <1>5 DEF Verify

\* However a replan fails, the ledger that is saved is the one it started from.
LEMMA ReplanErrorKeeps ==
  ASSUME IInv, Replanning, ReplanError(mem),
         UNCHANGED <<world, transcripts, resumes>>,
         reason' = "none", revision' \in Nat,
         answer' \in {"none", "approve", "reject", "note"}
  PROVE  IInv'
<1> DEFINE m == [mem EXCEPT !.phase = "done"]
<1>1. /\ Good(mem, resumes) /\ saveFails \in Nat
      /\ Placed(mem, "replanning", reason, resumes)
      /\ WorldTyped
  BY DEF IInv, TypeOK, WorldTyped, Replanning
<1>2. "dispatch" \in Places \ {"down"}
  BY DEF Places
<1>3. CASE reason = "review"
  <2>1. Good(m, resumes) /\ m.subs = mem.subs
    BY <1>1, GoodPhase DEF Phases
  <2>2. Effect(m, "dispatch")
    BY <1>1, <1>3, SavingEffect DEF ReplanError, Finish
  <2>3. Placed(m, "dispatch", "none", resumes)
    BY <1>1, <2>1 DEF Placed, Busy
  <2> HIDE DEF m
  <2>. QED
    BY <1>1, <1>2, <2>1, <2>2, <2>3, EffectKeepsInvariant DEF Reviewed
<1>4. CASE reason # "review"
  <2>1. Effect(mem, "dispatch")
    BY <1>1, <1>4, SavingEffect DEF ReplanError
  <2>2. Placed(mem, "dispatch", "none", resumes)
    BY <1>1 DEF Placed, Busy
  <2>. QED
    BY <1>1, <1>2, <2>1, <2>2, EffectKeepsInvariant DEF Reviewed
<1>. QED
  BY <1>3, <1>4

\* A replan appends fresh subtasks to an executed history it leaves alone.
LEMMA ReplanKeeps == IInv /\ Replan => IInv'
<1>. SUFFICES ASSUME IInv, Replan PROVE IInv'
  OBVIOUS
<1>1. /\ mem \in Ledger /\ Good(mem, resumes) /\ mem.subs \in Seq(Subtask)
      /\ saveFails \in Nat /\ resumes \in Nat /\ revision \in Nat
      /\ reason \in {"none", "subtask", "verify", "review"}
      /\ answer \in {"none", "approve", "reject", "note"}
      /\ WorldTyped
  BY DEF IInv, TypeOK, WorldTyped, Ledger
<1>2. {"dispatch", "replanning"} \subseteq Places \ {"down"}
  BY DEF Places
<1>3. pc = "replanning"
  BY DEF Replan, ReplanOutage, ReplanImpossible, ReplanSentBack, ReplanAbandoned,
         ReplanApproved, Replanning
<1>4. Placed(mem, "replanning", reason, resumes)
  BY <1>3 DEF IInv
<1>5. ASSUME NEW a \in Answers \ {"approve"}
      PROVE  a \in {"none", "approve", "reject", "note"}
  BY DEF Answers
<1>6. CASE ReplanOutage
  <2>1. CASE reason = "review"
    BY <1>1, <1>6, <2>1, ReplanErrorKeeps DEF ReplanOutage, ReplanError, EndLoop
  <2>2. CASE reason # "review"
    <3>1. Effect(mem, "dispatch")
      BY <1>1, <1>6, <2>2, SavingEffect DEF ReplanOutage
    <3>2. Placed(mem, "dispatch", "none", resumes)
      BY <1>4 DEF Placed, Busy
    <3>. QED
      BY <1>1, <1>2, <1>6, <3>1, <3>2, EffectKeepsInvariant
         DEF ReplanOutage, EndLoop, Reviewed
  <2>. QED
    BY <2>1, <2>2
<1>7. CASE ReplanImpossible
  BY <1>7, ReplanErrorKeeps DEF ReplanImpossible, EndLoop
<1>8. ASSUME NEW a \in Answers, ReplanAbandoned(a)
      PROVE  IInv'
  BY <1>1, <1>5, <1>8, ReplanErrorKeeps DEF ReplanAbandoned, GateCloses
<1>9. CASE ReplanSentBack
  <2>1. mem' = mem /\ reason' = reason /\ world' = world
    BY <1>9 DEF ReplanSentBack
  <2>2. Reviewed("replanning", reason) => AllVerified(mem)'
    BY <1>3, <2>1 DEF IInv, Reviewed, AllVerified, Vouched, world
  <2>3. Effect(mem, "replanning")
    BY <1>1, <1>3, <1>9 DEF ReplanSentBack, Effect
  <2>4. revision' \in Nat
    BY <1>1, <1>9 DEF ReplanSentBack
  <2>. QED
    BY <1>1, <1>2, <1>4, <1>9, <2>1, <2>2, <2>3, <2>4, EffectKeepsInvariant
       DEF ReplanSentBack, AllVerified
<1>10. ASSUME NEW plan \in Plans(mem.replans + 1), ReplanApproved(plan)
       PROVE  IInv'
  <2> DEFINE m == Extended(plan)
             d == [Extended(plan) EXCEPT !.phase = "done"]
  <2>1. Good(m, resumes)
    BY <1>1, ExtendedGood
  <2>2. Good(d, resumes) /\ d.subs = m.subs
    BY <2>1, GoodPhase DEF Phases
  <2>3. ASSUME NEW i \in 1..Len(m.subs), m.subs[i].status = "running"
        PROVE  m.subs[i].attempts <= MaxFix + resumes
    <3>1. \/ i \in 1..Len(mem.subs) /\ m.subs[i] = mem.subs[i]
          \/ m.subs[i] \in Fresh(mem.replans + 1)
      BY <1>1, <2>3, ExtendedType
    <3>2. m.subs[i] \notin Fresh(mem.replans + 1)
      BY <2>3 DEF Fresh
    <3>. QED
      BY <1>4, <2>3, <3>1, <3>2 DEF Placed, Busy
  <2>4. Placed(m, "dispatch", "none", resumes)
    BY <2>3 DEF Placed, Busy
  <2>5. Placed(d, "dispatch", "none", resumes)
    BY <2>2, <2>3 DEF Placed, Busy
  <2>6. Effect(m, "dispatch") \/ Effect(d, "dispatch")
    <3>1. CASE reason # "review"
      BY <1>1, <1>10, <3>1, SavingEffect DEF ReplanApproved
    <3>2. CASE reason = "review"
      BY <1>1, <1>10, <3>2 DEF ReplanApproved, Effect, Commit, SaveFails, Exit
    <3>. QED
      BY <3>1, <3>2
  <2> HIDE DEF m, d
  <2>. QED
    BY <1>1, <1>2, <1>10, <2>1, <2>2, <2>4, <2>5, <2>6, EffectKeepsInvariant
       DEF ReplanApproved, EndLoop, Reviewed
<1>. QED
  BY <1>6, <1>7, <1>8, <1>9, <1>10 DEF Replan

\* Starting, ending, dying and resuming change no record of a subtask; a
\* resume makes room for one more attempt of every subtask that was running.
LEMMA OutsideKeeps ==
  ASSUME IInv, Explore \/ Return \/ Crash \/ \E h \in SUBSET CheckKeys(disk) : Resume(h)
  PROVE  IInv'
<1>1. /\ mem \in Ledger /\ Good(mem, resumes) /\ Good(disk, resumes)
      /\ saveFails \in Nat /\ resumes \in Nat /\ revision \in Nat
      /\ reason \in {"none", "subtask", "verify", "review"}
      /\ answer \in {"none", "approve", "reject", "note"}
      /\ WorldTyped
  BY DEF IInv, TypeOK, WorldTyped
<1>2. "dispatch" \in Places \ {"down"}
  BY DEF Places
<1>3. CASE Explore
  <2> DEFINE m == [mem EXCEPT !.phase = "plan"]
  <2>1. Good(m, resumes) /\ m.subs = mem.subs
    BY <1>1, GoodPhase DEF Phases
  <2>2. Effect(m, "dispatch")
    BY <1>1, <1>3, SavingEffect DEF Explore
  <2>3. Placed(mem, "dispatch", reason, resumes)
    BY <1>3 DEF Explore, AtPhase, IInv
  <2>4. Placed(m, "dispatch", reason, resumes)
    BY <2>1, <2>3 DEF Placed, Busy
  <2> HIDE DEF m
  <2>. QED
    BY <1>1, <1>2, <1>3, <2>1, <2>2, <2>4, EffectKeepsInvariant
       DEF Explore, loop, Reviewed
<1>4. CASE Return \/ Crash
  <2>1. /\ pc' = "down" /\ mem' = disk' /\ disk' = disk
        /\ UNCHANGED <<saveFails, world, resumes>>
        /\ reason' \in {reason, "none"} /\ revision' \in {revision, 0}
        /\ answer' \in {answer, "none"}
    BY <1>4 DEF Return, Crash, Exit, EndLoop, loop
  <2>4. transcripts' \subseteq Nat \X Nat \X BOOLEAN
    <3>1. CASE transcripts' = transcripts
      BY <1>1, <3>1 DEF WorldTyped
    <3>2. CASE pc = "worker" /\ transcripts' = Transcribed(FALSE)
      <4>1. InPlan /\ Cur \in Subtask
        BY <3>2, AtWork DEF Busy
      <4>. QED
        BY <1>1, <3>2, <4>1, TranscribedType
    <3>. QED
      BY <1>4, <3>1, <3>2 DEF Return, Crash
  <2>2. TypeOK'
    BY <1>1, <2>1, <2>4 DEF TypeOK, Places, Good, WorldTyped, world
  <2>3. Good(mem, resumes)' /\ Good(disk, resumes)'
    BY <1>1, <2>1 DEF Good, MeasuredIn
  <2>. QED
    BY <2>1, <2>2, <2>3 DEF IInv, Reviewed
<1>5. ASSUME NEW h \in SUBSET CheckKeys(disk), Resume(h)
      PROVE  IInv'
  <2>1. /\ pc = "down" /\ mem = disk /\ pc' = "dispatch"
        /\ resumes' = resumes + 1 /\ holds' = h /\ left' \in BOOLEAN /\ seen' = {}
        /\ mem' = mem /\ disk' = disk
        /\ UNCHANGED <<saveFails, transcripts>>
        /\ reason' = "none" /\ revision' = 0 /\ answer' = "none"
    BY <1>1, <1>5 DEF Resume, EndLoop, IInv, WorldTyped
  <2>2. holds' \subseteq Nat
    <3>1. disk.subs \in Seq(Subtask)
      BY <1>1 DEF Good, Ledger
    <3>. QED
      BY <2>1, <3>1, LenProperties DEF CheckKeys
  <2>3. TypeOK'
    BY <1>1, <2>1, <2>2 DEF TypeOK, Places, Good, WorldTyped
  <2>4. ASSUME NEW i \in 1..Len(mem.subs)
        PROVE  /\ mem.subs[i].attempts \in Nat
               /\ mem.subs[i].attempts <= 1 + MaxFix + resumes
    <3>1. mem.subs \in Seq(Subtask)
      BY <1>1 DEF Ledger
    <3>2. mem.subs[i] \in Subtask
      BY <3>1, ElementOfSeq
    <3>. QED
      BY <1>1, <3>2 DEF Good, Subtask
  <2>5. \A i \in 1..Len(mem.subs) : /\ mem.subs[i].attempts <= 1 + MaxFix + (resumes + 1)
                                    /\ mem.subs[i].attempts <= MaxFix + (resumes + 1)
    BY <1>1, <2>4, BudgetAssumption
  <2>6. Good(mem, resumes + 1)
    BY <1>1, <2>5 DEF Good
  <2>7. Placed(mem, "dispatch", "none", resumes + 1)
    BY <2>5 DEF Placed, Busy
  <2>8. Good(mem, resumes)' /\ Good(disk, resumes)'
    BY <2>1, <2>6 DEF Good, MeasuredIn
  <2>9. Placed(mem, pc, reason, resumes)'
    BY <2>1, <2>7 DEF Placed, Busy
  <2>. QED
    BY <2>1, <2>3, <2>8, <2>9 DEF IInv, Reviewed
<1>. QED
  BY <1>3, <1>4, <1>5

\* What a worker left running touches no ledger, and where it may be at work
\* nothing rests on the workspace.
LEMMA DriftKeeps ==
  ASSUME IInv, NEW h \in SUBSET CheckKeys(mem), Drift(h)
  PROVE  IInv'
<1>1. /\ pc # "down" /\ left /\ holds' = h
      /\ UNCHANGED <<mem, disk, pc, saveFails, left, seen, transcripts, resumes>>
      /\ UNCHANGED <<reason, revision, answer>>
  BY DEF Drift, loop
<1>2. holds' \subseteq Nat
  BY <1>1 DEF CheckKeys
<1>3. TypeOK'
  BY <1>1, <1>2 DEF IInv, TypeOK
<1>4. Reviewed(pc, reason)' => AllVerified(mem)'
  BY <1>1 DEF IInv, Reviewed, AllVerified, Vouched
<1>. QED
  BY <1>1, <1>3, <1>4 DEF IInv, Good, MeasuredIn, Placed

\* IInv is inductive.
LEMMA NextKeeps == IInv /\ [Next]_vars => IInv'
<1>. SUFFICES ASSUME IInv, [Next]_vars PROVE IInv'
  OBVIOUS
<1>1. CASE Next
  BY <1>1, OutsideKeeps, DriftKeeps, PlanKeeps, ExecuteKeeps, VerifyKeeps, ReplanKeeps
     DEF Next, Run
<1>2. CASE UNCHANGED vars
  BY <1>2 DEF vars, IInv, TypeOK, Good, MeasuredIn, Placed, Reviewed, AllVerified, Vouched
<1>. QED
  BY <1>1, <1>2

\* Every reachable state satisfies the inductive invariant.
LEMMA Invariance == Spec => []IInv
BY InitInvariant, NextKeeps, PTL DEF Spec

-----------------------------------------------------------------------------
(***************************************************************************)
(* What follows from it.                                                   *)
(***************************************************************************)

\* Every variable keeps its type, whatever crashes and lost saves happen: no
\* handler of phases.go leaves the ledger or the runner's position malformed.
THEOREM TypeCorrect == Spec => []TypeOK
<1>1. IInv => TypeOK
  BY DEF IInv
<1>. QED
  BY <1>1, Invariance, PTL

\* A subtask the ledger records as done, in memory or on disk, was measured to
\* pass by the harness (attempt, runSubtask), for all budgets and faults.
THEOREM DoneMeasured == Spec => []DoneIsMeasured
<1>1. IInv => DoneIsMeasured
  BY DEF IInv, Good, DoneIsMeasured
<1>. QED
  BY <1>1, Invariance, PTL

\* No subtask gets more worker runs than its fix budget, one, and one for every
\* resume (runSubtask, attempt), for all budgets and faults.
THEOREM AttemptsAreBounded == Spec => []AttemptsBounded
<1>1. IInv => AttemptsBounded
  BY DEF IInv, Good, AttemptsBounded
<1>. QED
  BY <1>1, Invariance, PTL

\* A step that saves a ledger which is not done turns no ledger into a done one.
LEMMA NotDone ==
  ASSUME NEW m \in Ledger, NEW next, Effect(m, next), m.phase # "done",
         disk'.phase = "done"
  PROVE  disk' = disk
<1>1. Failed(m).phase = "failed"
  BY DEF Failed, Ledger
<1>. QED
  BY <1>1 DEF Effect

\* Only Run's PhaseVerify turns a ledger into a done one, right after the final
\* verification found every check to hold.
LEMMA DoneStep ==
  ASSUME IInv, Next, disk.phase # "done", disk'.phase = "done"
  PROVE  AllVerified(disk')
<1>1. /\ mem \in Ledger /\ Good(mem, resumes) /\ saveFails \in Nat
      /\ mem.subs \in Seq(Subtask) /\ mem.replans \in Nat
  BY DEF IInv, TypeOK, Ledger
<1>2. ASSUME NEW m \in Ledger, NEW next, Effect(m, next), m.phase # "done"
      PROVE  FALSE
  BY <1>2, NotDone
<1>3. CASE Explore
  <2>1. Effect([mem EXCEPT !.phase = "plan"], "dispatch")
    BY <1>1, <1>3, SavingEffect DEF Explore
  <2>2. [mem EXCEPT !.phase = "plan"] \in Ledger
    BY <1>1 DEF Ledger, Phases
  <2>. QED
    BY <1>2, <2>1, <2>2 DEF Ledger
<1>4. CASE Return \/ Crash \/ \E h \in SUBSET CheckKeys(disk) : Resume(h)
  BY <1>4 DEF Return, Crash, Resume
<1>5. ASSUME NEW h \in SUBSET CheckKeys(mem), Drift(h) PROVE FALSE
  BY <1>5 DEF Drift
<1>6. CASE Plan
  <2>0. pc = "dispatch" /\ mem.phase = "plan"
    BY <1>6 DEF Plan, PlanOutage, PlanInvalid, PlanApproved, PlanSentBack,
                PlanAbandoned, AtPhase
  <2>1. CASE PlanOutage
    BY <2>1 DEF PlanOutage
  <2>2. CASE PlanInvalid
    BY <1>1, <1>2, <2>0, <2>2, SavingEffect DEF PlanInvalid
  <2>3. ASSUME NEW plan \in Plans(mem.replans)
        PROVE  /\ Planned(plan) \in Ledger /\ Planned(plan).phase = "plan"
               /\ [Planned(plan) EXCEPT !.phase = "execute", !.cursor = 1] \in Ledger
               /\ [Planned(plan) EXCEPT !.phase = "execute", !.cursor = 1].phase = "execute"
    <3>1. Planned(plan) \in Ledger /\ Planned(plan).phase = "plan"
      BY <1>1, <2>0, PlanType DEF Planned, Ledger
    <3>. QED
      BY <3>1 DEF Ledger, Phases
  <2>4. ASSUME NEW plan \in Plans(mem.replans), PlanApproved(plan)
        PROVE  FALSE
    <3>1. Effect([Planned(plan) EXCEPT !.phase = "execute", !.cursor = 1], "dispatch")
      BY <1>1, <2>4, SavingEffect DEF PlanApproved
    <3>. QED
      BY <1>2, <2>3, <3>1
  <2>5. ASSUME NEW plan \in Plans(mem.replans), PlanSentBack(plan)
        PROVE  FALSE
    BY <2>5 DEF PlanSentBack
  <2>6. ASSUME NEW plan \in Plans(mem.replans), NEW a \in Answers, PlanAbandoned(plan, a)
        PROVE  FALSE
    <3>1. Effect(Planned(plan), "dispatch")
      BY <1>1, <2>6, SavingEffect DEF PlanAbandoned
    <3>. QED
      BY <1>2, <2>3, <3>1
  <2>. QED
    BY <1>6, <2>1, <2>2, <2>4, <2>5, <2>6 DEF Plan
<1>7. CASE Execute
  <2>1. CASE WorkerOutage \/ CheckSubtask \/ SettleDone \/ StartFix \/ GiveUp
    <3>1. pc \in Busy
      BY <2>1 DEF WorkerOutage, CheckSubtask, SettleDone, StartFix, GiveUp, Busy
    <3>2. InPlan /\ mem.phase = "execute" /\ Cur \in Subtask
      BY <3>1, AtWork
    <3>3. ASSUME NEW s \in Subtask
          PROVE  WithSub(s) \in Ledger /\ WithSub(s).phase = "execute"
      BY <1>1, <3>2, WithSubType
    <3>4. CASE WorkerOutage
      <4>1. [Cur EXCEPT !.fact = "stopped"] \in Subtask
        BY <3>2 DEF Subtask, Facts
      <4>2. Effect(WithSub([Cur EXCEPT !.fact = "stopped"]), "worker")
        BY <1>1, <3>4 DEF WorkerOutage, Effect, SaveFails, Exit
      <4>. QED
        BY <1>2, <3>3, <4>1, <4>2
    <3>5. CASE CheckSubtask
      <4>1. /\ [Cur EXCEPT !.fact = "passed"] \in Subtask
            /\ [Cur EXCEPT !.fact = "failed", !.failedChecks = @ + 1] \in Subtask
        <5>1. Cur.failedChecks + 1 \in Nat
          BY <3>2 DEF Subtask
        <5>. QED
          BY <3>2, <5>1 DEF Subtask, Facts
      <4>2. \/ Effect(WithSub([Cur EXCEPT !.fact = "passed"]), "passed")
            \/ Effect(WithSub([Cur EXCEPT !.fact = "failed", !.failedChecks = @ + 1]),
                      "failed")
        BY <1>1, <3>5, SavingEffect DEF CheckSubtask
      <4>. QED
        BY <1>2, <3>3, <4>1, <4>2
    <3>6. CASE SettleDone
      <4> DEFINE s == [Cur EXCEPT !.status = "done"]
                 m == [WithSub(s) EXCEPT !.cursor = @ + 1]
      <4>1. s \in Subtask
        BY <3>2 DEF Subtask, Statuses
      <4>2. Effect(m, "dispatch")
        BY <1>1, <3>6, SavingEffect DEF SettleDone
      <4> HIDE DEF s
      <4>3. WithSub(s) \in Ledger /\ WithSub(s).phase = "execute"
        BY <3>3, <4>1
      <4>4. m \in Ledger /\ m.phase = "execute"
        BY <4>3 DEF Ledger
      <4> HIDE DEF m
      <4>. QED
        BY <1>2, <4>2, <4>4
    <3>7. CASE StartFix
      <4> DEFINE s == [Cur EXCEPT !.status = "running",
                                  !.attempts = IF FALSE THEN @ ELSE @ + 1]
      <4>1. s \in Subtask
        <5>1. Cur.attempts + 1 \in Nat
          BY <3>2 DEF Subtask
        <5>2. s = [Cur EXCEPT !.status = "running", !.attempts = Cur.attempts + 1]
          OBVIOUS
        <5>. QED
          BY <3>2, <5>1, <5>2 DEF Subtask, Statuses
      <4>2. Effect(WithSub(s), "worker")
        BY <1>1, <3>7, SavingEffect DEF StartFix, StartAttempt
      <4> HIDE DEF s
      <4>. QED
        BY <1>2, <3>3, <4>1, <4>2
    <3>8. CASE GiveUp
      <4>1. [Cur EXCEPT !.status = "failed"] \in Subtask
        BY <3>2 DEF Subtask, Statuses
      <4>2. Effect(WithSub([Cur EXCEPT !.status = "failed"]), "replanning")
        BY <1>1, <3>8, SavingEffect DEF GiveUp
      <4>. QED
        BY <1>2, <3>3, <4>1, <4>2
    <3>. QED
      BY <2>1, <3>4, <3>5, <3>6, <3>7, <3>8
  <2>2. CASE PastTheEnd
    <3>1. Effect([mem EXCEPT !.phase = "verify"], "dispatch")
      BY <1>1, <2>2, SavingEffect DEF PastTheEnd
    <3>2. [mem EXCEPT !.phase = "verify"] \in Ledger
      BY <1>1 DEF Ledger, Phases
    <3>. QED
      BY <1>2, <3>1, <3>2 DEF Ledger
  <2>3. CASE SkipSettled
    <3>1. Effect([mem EXCEPT !.cursor = @ + 1], "dispatch") /\ mem.phase = "execute"
      BY <1>1, <2>3, SavingEffect DEF SkipSettled, Executing, AtPhase
    <3>2. [mem EXCEPT !.cursor = @ + 1] \in Ledger
      BY <1>1 DEF Ledger
    <3>3. [mem EXCEPT !.cursor = @ + 1].phase = "execute"
      BY <1>1, <3>1 DEF Ledger
    <3>. QED
      BY <1>2, <3>1, <3>2, <3>3
  <2>4. CASE StartSubtask
    <3> DEFINE s == [Cur EXCEPT !.status = "running",
                                !.attempts = IF Resumable THEN @ ELSE @ + 1]
    <3>1. InPlan /\ mem.phase = "execute" /\ Cur \in Subtask
      BY <1>1, <2>4, ElementOfSeq DEF StartSubtask, Executing, AtPhase, InPlan, Cur
    <3>2. s \in Subtask
      <4> DEFINE n == IF Resumable THEN Cur.attempts ELSE Cur.attempts + 1
      <4>1. n \in Nat
        BY <3>1 DEF Subtask
      <4>2. s = [Cur EXCEPT !.status = "running", !.attempts = n]
        OBVIOUS
      <4> HIDE DEF n, s
      <4>. QED
        BY <3>1, <4>1, <4>2 DEF Subtask, Statuses
    <3>3. Effect(WithSub(s), "worker")
      BY <1>1, <2>4, SavingEffect DEF StartSubtask, StartAttempt
    <3> HIDE DEF s
    <3>4. WithSub(s) \in Ledger /\ WithSub(s).phase = "execute"
      BY <1>1, <3>1, <3>2, WithSubType
    <3>. QED
      BY <1>2, <3>3, <3>4
  <2>5. ASSUME NEW h \in SUBSET CheckKeys(mem), NEW next \in {"worker", "check"},
               WorkerStep(h, next)
        PROVE  FALSE
    BY <2>5 DEF WorkerStep
  <2>. QED
    BY <1>7, <2>1, <2>2, <2>3, <2>4, <2>5 DEF Execute
<1>8. CASE Verify
  <2>1. ASSUME (\E found \in Verdicts : VerifyPasses(found)) \/ ReviewFindsGaps
        PROVE  FALSE
    BY <2>1 DEF VerifyPasses, ReviewFindsGaps
  <2>2. ASSUME NEW found \in Verdicts, VerifyFinds(found)
        PROVE  FALSE
    <3> DEFINE f == [i \in 1..Len(mem.subs) |->
                       IF i \in Regressed(found)
                         THEN [mem.subs[i] EXCEPT !.fact = "verifyFailed"]
                         ELSE mem.subs[i]]
               m == [mem EXCEPT !.subs = f]
    <3>1. mem.phase = "verify"
      BY <2>2 DEF VerifyFinds, Verifying, AtPhase
    <3>2. disk' \in {disk, m}
      BY <2>2 DEF VerifyFinds, BestEffort, Commit, SaveFails
    <3>3. m.phase = "verify"
      BY <1>1, <3>1 DEF Ledger
    <3>. QED
      BY <3>2, <3>3
  <2>3. CASE ReviewPasses
    <3>1. AllVerified(mem)
      BY <2>3 DEF ReviewPasses, IInv, Reviewed
    <3>2. disk' \in {disk, [mem EXCEPT !.phase = "done"]}
      BY <2>3 DEF ReviewPasses, Finish, CommitOrReturn, Commit, SaveFails
    <3>3. disk'.subs = mem.subs
      BY <1>1, <3>2 DEF Ledger
    <3>. QED
      BY <3>1, <3>3 DEF AllVerified
  <2>. QED
    BY <1>8, <2>1, <2>2, <2>3 DEF Verify
<1>9. CASE Replan
  <2>1. mem.phase \in {"execute", "verify"} /\ pc = "replanning"
    BY <1>9 DEF Replan, ReplanOutage, ReplanImpossible, ReplanSentBack,
                ReplanAbandoned, ReplanApproved, Replanning, IInv, Placed
  <2>2. ASSUME ReplanError(mem)
        PROVE  AllVerified(disk')
    <3>1. CASE reason = "review"
      <4>1. AllVerified(mem)
        BY <2>1, <3>1 DEF IInv, Reviewed
      <4>2. disk' \in {disk, [mem EXCEPT !.phase = "done"]}
        BY <2>2, <3>1 DEF ReplanError, Finish, CommitOrReturn, Commit, SaveFails
      <4>3. disk'.subs = mem.subs
        BY <1>1, <4>2 DEF Ledger
      <4>. QED
        BY <4>1, <4>3 DEF AllVerified
    <3>2. CASE reason # "review"
      BY <1>1, <1>2, <2>1, <2>2, <3>2, SavingEffect DEF ReplanError
    <3>. QED
      BY <3>1, <3>2
  <2>3. CASE ReplanOutage
    BY <2>2, <2>3 DEF ReplanOutage, ReplanError
  <2>4. CASE ReplanImpossible
    BY <2>2, <2>4 DEF ReplanImpossible
  <2>5. ASSUME NEW a \in Answers, ReplanAbandoned(a)
        PROVE  AllVerified(disk')
    BY <2>2, <2>5 DEF ReplanAbandoned
  <2>6. CASE ReplanSentBack
    BY <2>6 DEF ReplanSentBack
  <2>7. ASSUME NEW plan \in Plans(mem.replans + 1), ReplanApproved(plan)
        PROVE  AllVerified(disk')
    <3>1. Extended(plan) \in Ledger /\ Extended(plan).phase = "execute"
      BY <1>1, ExtendedType
    <3>2. CASE reason # "review"
      <4>1. Effect(Extended(plan), "dispatch")
        BY <1>1, <2>7, <3>2, SavingEffect DEF ReplanApproved
      <4>. QED
        BY <1>2, <3>1, <4>1
    <3>3. CASE reason = "review"
      <4>1. AllVerified(mem)
        BY <2>1, <3>3 DEF IInv, Reviewed
      <4>2. disk' \in {disk, Extended(plan), [Extended(plan) EXCEPT !.phase = "done"]}
        BY <2>7, <3>3 DEF ReplanApproved, Commit
      <4>3. disk'.subs = Extended(plan).subs
        BY <3>1, <4>2 DEF Ledger
      <4>4. ASSUME NEW i \in 1..Len(Extended(plan).subs),
                   Extended(plan).subs[i].status = "done"
            PROVE  Extended(plan).subs[i].check = "none" \/ Vouched(i)
        <5>1. \/ i \in 1..Len(mem.subs) /\ Extended(plan).subs[i] = mem.subs[i]
              \/ Extended(plan).subs[i] \in Fresh(mem.replans + 1)
          BY <1>1, <4>4, ExtendedType
        <5>2. Extended(plan).subs[i] \notin Fresh(mem.replans + 1)
          BY <4>4 DEF Fresh
        <5>. QED
          BY <4>1, <4>4, <5>1, <5>2 DEF AllVerified
      <4>. QED
        BY <4>1, <4>3, <4>4 DEF AllVerified
    <3>. QED
      BY <3>2, <3>3
  <2>. QED
    BY <1>9, <2>3, <2>4, <2>5, <2>6, <2>7 DEF Replan
<1>. QED
  BY <1>3, <1>4, <1>5, <1>6, <1>7, <1>8, <1>9 DEF Next, Run

\* The mission is saved as done only after a final verification that found every
\* done subtask's check and the verify command to pass, with no worker and no
\* resume in between; they hold when it is saved unless something a worker left
\* running has changed the workspace since (Run, PhaseVerify; runVerifyChecks),
\* for all budgets, crashes, resumes, lost saves and left processes.
THEOREM DoneVerified == Spec => DoneIsVerified
<1>1. IInv /\ [Next]_vars
        => [disk.phase # "done" /\ disk'.phase = "done" => AllVerified(disk')]_vars
  BY DoneStep
<1>. QED
  BY <1>1, Invariance, PTL DEF Spec, DoneIsVerified
-----------------------------------------------------------------------------
(***************************************************************************)
(* mission.json keeps the promise of MissionLedger, for every value of the *)
(* constants and whatever crashes, outages and lost saves happen; and      *)
(* without stops and lost saves nothing is left behind.                    *)
(***************************************************************************)

\* What MissionLedger sees of a subtask, and of a ledger.
Shown(s)    == [status |-> s.status, attempts |-> s.attempts]
ShownSubs(m) == [i \in 1..Len(m.subs) |-> Shown(m.subs[i])]

-----------------------------------------------------------------------------
(***************************************************************************)
(* One step of the promise, stated on whole ledgers.                       *)
(***************************************************************************)
Unchanged(s, t) == s.status = t.status /\ s.attempts = t.attempts

Progress(s, t) ==
  /\ s.status \in {"pending", "running"}
  /\ t.status \in {"running", "done", "failed"}
  /\ s.attempts <= t.attempts

\* Only the k-th subtask develops, and subtasks are added at the end.
SubsFollow(old, new) ==
  /\ Len(old) <= Len(new)
  /\ \E k \in Nat : \A i \in 1..Len(old) :
       \/ Unchanged(old[i], new[i])
       \/ i = k /\ Progress(old[i], new[i])

PaidFor(d, n) ==
  \/ n.replans = d.replans + 1 /\ n.replans <= MaxReplans
  \/ n.replans = d.replans /\ Len(n.subs) = Len(d.subs)
  \/ n.replans = d.replans /\ d.subs = <<>> /\ d.phase = "plan"

Moves(d, n) ==
  /\ d.phase \notin Terminal
  /\ n.phase = d.phase \/ <<d.phase, n.phase>> \in Promise!Edges
  /\ d.phase = "verify" /\ n.phase = "execute" => n.replans = d.replans + 1

Follows(d, n) == Moves(d, n) /\ SubsFollow(d.subs, n.subs) /\ PaidFor(d, n)

\* The subtasks the promise speaks of are those of the ledger, without their detail.
LEMMA ShownType ==
  ASSUME NEW m \in Ledger
  PROVE  /\ Len(m.subs) \in Nat
         /\ Len(ShownSubs(m)) = Len(m.subs)
         /\ \A i \in 1..Len(m.subs) : /\ ShownSubs(m)[i] = Shown(m.subs[i])
                                      /\ m.subs[i] \in Subtask
<1>1. m.subs \in Seq(Subtask)
  BY DEF Ledger
<1>2. Len(m.subs) \in Nat /\ \A i \in 1..Len(m.subs) : m.subs[i] \in Subtask
  BY <1>1, LenProperties, ElementOfSeq
<1>3. Len(ShownSubs(m)) = Len(m.subs)
  BY <1>2 DEF ShownSubs
<1>. QED
  BY <1>2, <1>3 DEF ShownSubs

\* Such a step is a step of the promise.
LEMMA FollowsIsPromised ==
  ASSUME disk \in Ledger, disk' \in Ledger, Follows(disk, disk')
  PROVE  Promise!Next
<1>1. /\ Len(disk.subs) \in Nat /\ Len(ShownSubs(disk)) = Len(disk.subs)
      /\ \A i \in 1..Len(disk.subs) : ShownSubs(disk)[i] = Shown(disk.subs[i])
      /\ \A i \in 1..Len(disk.subs) : disk.subs[i] \in Subtask
  BY ShownType
<1>2. /\ Len(disk'.subs) \in Nat /\ Len(ShownSubs(disk')) = Len(disk'.subs)
      /\ \A i \in 1..Len(disk'.subs) : ShownSubs(disk')[i] = Shown(disk'.subs[i])
  BY ShownType
<1>3. PICK k \in Nat : \A i \in 1..Len(disk.subs) :
         \/ Unchanged(disk.subs[i], disk'.subs[i])
         \/ i = k /\ Progress(disk.subs[i], disk'.subs[i])
  BY DEF Follows, SubsFollow
<1>4. Len(disk.subs) <= Len(disk'.subs)
  BY DEF Follows, SubsFollow
<1>5. ASSUME NEW i \in 1..Len(disk.subs)
      PROVE  /\ Promise!Develops(ShownSubs(disk)[i], ShownSubs(disk')[i])
             /\ i # k => ShownSubs(disk)[i] = ShownSubs(disk')[i]
  <2>1. /\ ShownSubs(disk)[i] = Shown(disk.subs[i])
        /\ ShownSubs(disk')[i] = Shown(disk'.subs[i])
    BY <1>1, <1>2, <1>4
  <2>. QED
    BY <1>3, <2>1 DEF Shown, Unchanged, Progress, Promise!Develops
<1>6. Promise!HistoryFrozen /\ Promise!OneAtATime
  BY <1>1, <1>2, <1>4, <1>5
     DEF Promise!HistoryFrozen, Promise!OneAtATime, ShownSubs, Shown
<1>7. disk.subs = <<>> => ShownSubs(disk) = <<>>
  BY <1>1 DEF ShownSubs
<1>8. Promise!GrowthIsPaidFor
  BY <1>1, <1>2, <1>7 DEF Follows, PaidFor, Promise!GrowthIsPaidFor, ShownSubs, Shown
<1>9. disk.phase \notin {"done", "failed"} /\ Promise!PhaseMoves /\ Promise!BackToWork
  BY DEF Follows, Moves, Promise!PhaseMoves, Promise!BackToWork, Terminal
<1>. QED
  BY <1>6, <1>8, <1>9 DEF Promise!Next

-----------------------------------------------------------------------------
(***************************************************************************)
(* How far mission.json may trail the ledger in memory: not at all, but for*)
(* a first plan the human has not approved yet (runPlan), and for a failed *)
(* subtask whose save got lost (Run, `_ = m.Save').                        *)
(***************************************************************************)
Synced ==
  /\ mem.phase = disk.phase /\ mem.replans = disk.replans
  /\ disk.phase \in {"explore", "plan"} => disk.subs = <<>>
  /\ disk.phase # "plan" =>
       /\ Len(mem.subs) = Len(disk.subs)
       /\ \A i \in 1..Len(disk.subs) :
            \/ Unchanged(disk.subs[i], mem.subs[i])
            \/ /\ pc = "replanning" /\ reason = "subtask" /\ i = mem.cursor
               /\ Progress(disk.subs[i], mem.subs[i])
  /\ pc = "replanning" =>
       mem.phase = IF reason = "subtask" THEN "execute" ELSE "verify"

\* What every step is shown to do: it keeps Synced, and leaves mission.json alone or
\* takes it where the promise allows.
Kept == Synced' /\ (disk' = disk \/ Follows(disk, disk'))

\* The two ways a step ends: the ledger is saved and Run goes on, or Run returns and
\* the file is as it was or marked as failed.
Stored(m, next) == mem' = m /\ disk' = m /\ pc' = next
Ends(m) == pc' = "down" /\ mem' = disk' /\ disk' \in {disk, Failed(m)}

\* Each way of saving is one of the two.
LEMMA Endings ==
  ASSUME NEW m, NEW next
  PROVE  /\ CommitOrReturn(m, next) => Stored(m, next) \/ (Ends(m) /\ disk' = disk)
         /\ CommitOrFail(m, next) => Stored(m, next) \/ Ends(m)
         /\ Fail(m) => Ends(m)
         /\ BestEffort(m, next) =>
              Stored(m, next) \/ (mem' = m /\ disk' = disk /\ pc' = next)
         /\ UNCHANGED <<disk, saveFails>> /\ Exit => Ends(m) /\ disk' = disk
BY DEF CommitOrReturn, CommitOrFail, Fail, BestEffort, Commit, SaveFails, Exit, Stored,
       Ends, Failed

Open == {"plan", "execute", "verify"}

\* A Run that returns without a save.
LEMMA ReturnKeeps ==
  ASSUME IInv, Synced, pc' = "down", mem' = disk', disk' = disk
  PROVE  Kept
BY DEF Kept, Synced, Unchanged, IInv, TypeOK, Ledger

\* A Run that ends and may mark the file as failed.
LEMMA EndsKeeps ==
  ASSUME IInv, Synced, NEW m \in Ledger, disk.phase \in Open, Ends(m),
         SubsFollow(disk.subs, m.subs), PaidFor(disk, m)
  PROVE  Kept
<1>1. CASE disk' = disk
  BY <1>1, ReturnKeeps DEF Ends
<1>2. CASE disk' = Failed(m)
  <2>1. /\ Failed(m).phase = "failed" /\ Failed(m).subs = m.subs
        /\ Failed(m).replans = m.replans
    BY DEF Failed, Ledger
  <2>2. Follows(disk, Failed(m))
    BY <2>1 DEF Follows, Moves, PaidFor, Open, Terminal, Promise!Edges
  <2>3. Synced'
    BY <1>2, <2>1 DEF Ends, Synced, Unchanged
  <2>. QED
    BY <1>2, <2>2, <2>3 DEF Kept
<1>. QED
  BY <1>1, <1>2 DEF Ends

\* A save after which Run goes on.
LEMMA StoredKeeps ==
  ASSUME NEW m \in Ledger, NEW next, Stored(m, next), Follows(disk, m),
         m.phase \in {"explore", "plan"} => m.subs = <<>>,
         next = "replanning" =>
           m.phase = IF reason' = "subtask" THEN "execute" ELSE "verify"
  PROVE  Kept
BY DEF Stored, Kept, Synced, Unchanged

-----------------------------------------------------------------------------
(***************************************************************************)
(* The ledgers the actions save follow the one in the file.                *)
(***************************************************************************)
\* The ledger in memory follows the one in the file.
LEMMA MemFollows ==
  ASSUME IInv, Synced
  PROVE  SubsFollow(disk.subs, mem.subs) /\ PaidFor(disk, mem)
<1>1. /\ mem \in Ledger /\ disk \in Ledger /\ mem.cursor \in Nat
      /\ Len(mem.subs) \in Nat /\ Len(disk.subs) \in Nat
  BY ShownType DEF IInv, TypeOK, Ledger
<1>2. CASE disk.phase = "plan"
  BY <1>1, <1>2 DEF Synced, SubsFollow, PaidFor
<1>3. CASE disk.phase # "plan"
  <2>1. \A i \in 1..Len(disk.subs) :
          \/ Unchanged(disk.subs[i], mem.subs[i])
          \/ i = mem.cursor /\ Progress(disk.subs[i], mem.subs[i])
    BY <1>3 DEF Synced
  <2>2. Len(mem.subs) = Len(disk.subs) /\ mem.replans = disk.replans
    BY <1>3 DEF Synced
  <2>3. SubsFollow(disk.subs, mem.subs)
    BY <1>1, <2>1, <2>2 DEF SubsFollow
  <2>. QED
    BY <2>2, <2>3 DEF PaidFor
<1>. QED
  BY <1>2, <1>3

\* Outside of a replan every subtask is in the file as it is in memory.
LEMMA Mirrored ==
  ASSUME IInv, Synced, pc # "replanning", mem.phase # "plan"
  PROVE  /\ Len(mem.subs) = Len(disk.subs)
         /\ \A i \in 1..Len(disk.subs) : Unchanged(disk.subs[i], mem.subs[i])
BY DEF Synced

\* Only the phase or the cursor changes.
LEMMA SameSubsFollow ==
  ASSUME IInv, Synced, NEW m, m.subs = mem.subs, m.replans = mem.replans,
         m.phase = mem.phase \/ <<mem.phase, m.phase>> \in Promise!Edges,
         mem.phase \notin Terminal,
         m.phase # "execute" \/ mem.phase # "verify"
  PROVE  Follows(disk, m)
<1>1. SubsFollow(disk.subs, mem.subs) /\ PaidFor(disk, mem)
  BY MemFollows
<1>2. disk.phase = mem.phase
  BY DEF Synced
<1>. QED
  BY <1>1, <1>2 DEF Follows, Moves, PaidFor

\* The subtask at the cursor makes progress, or only its facts change.
LEMMA WithSubFollows ==
  ASSUME IInv, Synced, InPlan, pc # "replanning", mem.phase = "execute",
         NEW s \in Subtask, Unchanged(Cur, s) \/ Progress(Cur, s)
  PROVE  /\ WithSub(s) \in Ledger /\ WithSub(s).phase = "execute"
         /\ Follows(disk, WithSub(s))
<1>1. /\ mem \in Ledger /\ disk \in Ledger /\ mem.cursor \in Nat
      /\ Len(mem.subs) \in Nat /\ Len(disk.subs) \in Nat
  BY ShownType DEF IInv, TypeOK, Ledger
<1>2. /\ WithSub(s) \in Ledger
      /\ WithSub(s).phase = mem.phase /\ WithSub(s).replans = mem.replans
      /\ Len(WithSub(s).subs) = Len(mem.subs)
      /\ \A i \in 1..Len(mem.subs) :
           WithSub(s).subs[i] = IF i = mem.cursor THEN s ELSE mem.subs[i]
  BY <1>1, WithSubType
<1>3. /\ Len(mem.subs) = Len(disk.subs)
      /\ \A i \in 1..Len(disk.subs) : Unchanged(disk.subs[i], mem.subs[i])
  BY Mirrored
<1>4. ASSUME NEW i \in 1..Len(disk.subs)
      PROVE  \/ Unchanged(disk.subs[i], WithSub(s).subs[i])
             \/ i = mem.cursor /\ Progress(disk.subs[i], WithSub(s).subs[i])
  BY <1>2, <1>3 DEF Unchanged, Progress, Cur
<1>5. SubsFollow(disk.subs, WithSub(s).subs)
  BY <1>1, <1>2, <1>3, <1>4 DEF SubsFollow
<1>6. disk.phase = "execute" /\ disk.replans = mem.replans
  BY DEF Synced
<1>. QED
  BY <1>2, <1>3, <1>5, <1>6 DEF Follows, Moves, PaidFor, Terminal

\* A replan keeps the history, adds its subtasks, and is paid for.
LEMMA ExtendedFollows ==
  ASSUME IInv, Synced, pc = "replanning", BudgetLeft,
         NEW plan \in Plans(mem.replans + 1)
  PROVE  /\ Extended(plan) \in Ledger /\ Extended(plan).phase = "execute"
         /\ SubsFollow(disk.subs, Extended(plan).subs)
         /\ PaidFor(disk, Extended(plan))
         /\ Follows(disk, Extended(plan))
<1>1. /\ mem \in Ledger /\ disk \in Ledger /\ mem.replans \in Nat
      /\ Len(mem.subs) \in Nat /\ Len(disk.subs) \in Nat
  BY ShownType DEF IInv, TypeOK, Ledger
<1>2. /\ Extended(plan) \in Ledger /\ Extended(plan).phase = "execute"
      /\ Extended(plan).replans = mem.replans + 1
      /\ Len(Extended(plan).subs) = Len(mem.subs) + Len(plan)
      /\ \A i \in 1..Len(Extended(plan).subs) :
           i \in 1..Len(mem.subs) => Extended(plan).subs[i] = mem.subs[i]
  BY <1>1, ExtendedType
<1>3. Len(plan) \in Nat
  BY <1>1, PlanType
<1>4. disk.phase \in {"execute", "verify"} /\ disk.replans = mem.replans
  BY DEF Synced
<1>5. Len(mem.subs) = Len(disk.subs) /\ SubsFollow(disk.subs, mem.subs)
  BY <1>4, MemFollows DEF Synced
<1>6. SubsFollow(disk.subs, Extended(plan).subs)
  <2>1. PICK k \in Nat : \A i \in 1..Len(disk.subs) :
           \/ Unchanged(disk.subs[i], mem.subs[i])
           \/ i = k /\ Progress(disk.subs[i], mem.subs[i])
    BY <1>5 DEF SubsFollow
  <2>2. \A i \in 1..Len(disk.subs) : Extended(plan).subs[i] = mem.subs[i]
    BY <1>1, <1>2, <1>3, <1>5
  <2>3. Len(disk.subs) <= Len(Extended(plan).subs)
    BY <1>1, <1>2, <1>3, <1>5
  <2>. QED
    BY <2>1, <2>2, <2>3 DEF SubsFollow
<1>7. PaidFor(disk, Extended(plan))
  BY <1>1, <1>2, <1>4, BudgetAssumption DEF PaidFor, BudgetLeft
<1>8. Moves(disk, Extended(plan))
  BY <1>2, <1>4 DEF Moves, Terminal, Promise!Edges
<1>. QED
  BY <1>2, <1>6, <1>7, <1>8 DEF Follows

-----------------------------------------------------------------------------
(***************************************************************************)
(* Every step keeps the promise.                                           *)
(***************************************************************************)
LEMMA InitSynced == Init => Synced
BY DEF Init, Synced

\* Explore, and what ends or starts a process.
LEMMA OutsideSyncs ==
  ASSUME IInv, Synced,
         \/ Explore \/ Return \/ Crash
         \/ \E h \in SUBSET CheckKeys(disk) : Resume(h)
         \/ \E h \in SUBSET CheckKeys(mem) : Drift(h)
  PROVE  Kept
<1>1. CASE Explore
  <2> DEFINE m == [mem EXCEPT !.phase = "plan"]
  <2>1. /\ mem \in Ledger /\ mem.phase = "explore" /\ disk.phase = "explore"
        /\ Len(mem.subs) = Len(disk.subs) /\ disk.subs = <<>> /\ mem.subs \in Seq(Subtask)
    BY <1>1 DEF Explore, AtPhase, IInv, TypeOK, Ledger, Synced
  <2>2. mem.subs = <<>>
    BY <2>1, EmptySeq
  <2>3. /\ m \in Ledger /\ m.subs = mem.subs /\ m.replans = mem.replans
        /\ m.phase = "plan"
    BY <2>1 DEF Ledger, Phases
  <2>4. Stored(m, "dispatch") \/ (Ends(m) /\ disk' = disk)
    BY <1>1, Endings DEF Explore
  <2> HIDE DEF m
  <2>5. Follows(disk, m)
    BY <2>1, <2>3, SameSubsFollow DEF Terminal, Promise!Edges
  <2>. QED
    BY <2>2, <2>3, <2>4, <2>5, StoredKeeps, ReturnKeeps DEF Ends
<1>2. CASE Return \/ Crash
  BY <1>2, ReturnKeeps DEF Return, Crash, Exit
<1>3. CASE \E h \in SUBSET CheckKeys(disk) : Resume(h)
  BY <1>3 DEF Resume, Kept, Synced, Unchanged, IInv, EndLoop
<1>4. CASE \E h \in SUBSET CheckKeys(mem) : Drift(h)
  BY <1>4 DEF Drift, Kept, Synced, Unchanged, loop
<1>. QED
  BY <1>1, <1>2, <1>3, <1>4

\* The plan phase: the subtasks reach the file once a plan is approved.
LEMMA PlanSyncs == ASSUME IInv, Synced, Plan PROVE Kept
<1>1. /\ pc = "dispatch" /\ mem.phase = "plan" /\ mem \in Ledger /\ mem.replans \in Nat
      /\ disk.phase = "plan" /\ disk.replans = mem.replans /\ disk.subs = <<>>
  BY DEF Plan, PlanOutage, PlanInvalid, PlanApproved, PlanSentBack, PlanAbandoned,
         AtPhase, IInv, TypeOK, Ledger, Synced
<1>2. ASSUME NEW m \in Ledger, m.replans = mem.replans
      PROVE  SubsFollow(disk.subs, m.subs) /\ PaidFor(disk, m)
  <2>1. Len(m.subs) \in Nat
    BY ShownType
  <2>. QED
    BY <1>1, <1>2, <2>1 DEF SubsFollow, PaidFor
<1>3. ASSUME NEW plan \in Plans(mem.replans)
      PROVE  /\ Planned(plan) \in Ledger
             /\ Planned(plan).phase = "plan" /\ Planned(plan).replans = mem.replans
  BY <1>1, PlanType DEF Planned, Ledger
<1>4. CASE PlanOutage
  BY <1>4, ReturnKeeps DEF PlanOutage, Exit
<1>5. CASE PlanInvalid
  BY <1>1, <1>2, <1>5, Endings, EndsKeeps DEF PlanInvalid, Open
<1>6. ASSUME NEW plan \in Plans(mem.replans), PlanApproved(plan)
      PROVE  Kept
  <2> DEFINE m == [Planned(plan) EXCEPT !.phase = "execute", !.cursor = 1]
  <2>1. /\ m \in Ledger /\ m.phase = "execute" /\ m.replans = mem.replans
    BY <1>3 DEF Ledger, Phases
  <2>2. Stored(m, "dispatch") \/ Ends(m)
    BY <1>6, Endings DEF PlanApproved
  <2> HIDE DEF m
  <2>3. Follows(disk, m)
    BY <1>1, <1>2, <2>1 DEF Follows, Moves, Terminal, Promise!Edges
  <2>. QED
    BY <1>1, <1>2, <2>1, <2>2, <2>3, StoredKeeps, EndsKeeps DEF Open
<1>7. ASSUME NEW plan \in Plans(mem.replans), PlanSentBack(plan)
      PROVE  Kept
  <2>1. disk' = disk /\ pc' = pc /\ mem' = Planned(plan)
    BY <1>7 DEF PlanSentBack
  <2>. QED
    BY <1>1, <1>3, <2>1 DEF Kept, Synced
<1>8. ASSUME NEW plan \in Plans(mem.replans), NEW a \in Answers, PlanAbandoned(plan, a)
      PROVE  Kept
  BY <1>1, <1>2, <1>3, <1>8, Endings, EndsKeeps DEF PlanAbandoned, Open
<1>. QED
  BY <1>4, <1>5, <1>6, <1>7, <1>8 DEF Plan

\* A save of the subtask at the cursor.
LEMMA WithSubSyncs ==
  ASSUME IInv, Synced, InPlan, pc # "replanning", mem.phase = "execute",
         NEW s \in Subtask, Unchanged(Cur, s) \/ Progress(Cur, s),
         NEW m \in Ledger, m.subs = WithSub(s).subs, m.phase = "execute",
         m.replans = WithSub(s).replans,
         NEW next, Stored(m, next) \/ Ends(m),
         next = "replanning" => reason' = "subtask"
  PROVE  Kept
<1>1. Follows(disk, WithSub(s)) /\ WithSub(s).phase = "execute" /\ disk.phase = "execute"
  BY WithSubFollows DEF Synced
<1>2. Follows(disk, m)
  BY <1>1 DEF Follows, Moves, PaidFor
<1>. QED
  BY <1>1, <1>2, StoredKeeps, EndsKeeps DEF Follows, Open

\* The execute phase: only the subtask at the cursor develops.
LEMMA ExecuteSyncs == ASSUME IInv, Synced, Execute PROVE Kept
<1>1. /\ mem \in Ledger /\ mem.subs \in Seq(Subtask) /\ disk \in Ledger
      /\ mem.phase = disk.phase
  BY DEF IInv, TypeOK, Ledger, Synced
<1>2. CASE PastTheEnd
  <2> DEFINE m == [mem EXCEPT !.phase = "verify"]
  <2>1. mem.phase = "execute"
    BY <1>2 DEF PastTheEnd, Executing, AtPhase
  <2>2. /\ m \in Ledger /\ m.subs = mem.subs /\ m.replans = mem.replans
        /\ m.phase = "verify"
    BY <1>1 DEF Ledger, Phases
  <2>3. Stored(m, "dispatch") \/ (Ends(m) /\ disk' = disk)
    BY <1>2, Endings DEF PastTheEnd
  <2> HIDE DEF m
  <2>4. Follows(disk, m)
    BY <2>1, <2>2, SameSubsFollow DEF Terminal, Promise!Edges
  <2>. QED
    BY <2>2, <2>3, <2>4, StoredKeeps, ReturnKeeps DEF Ends
<1>3. CASE SkipSettled
  <2> DEFINE m == [mem EXCEPT !.cursor = @ + 1]
  <2>1. mem.phase = "execute"
    BY <1>3 DEF SkipSettled, Executing, AtPhase
  <2>2. /\ m \in Ledger /\ m.subs = mem.subs /\ m.replans = mem.replans
        /\ m.phase = "execute"
    BY <1>1, <2>1 DEF Ledger
  <2>3. Stored(m, "dispatch") \/ (Ends(m) /\ disk' = disk)
    BY <1>3, Endings DEF SkipSettled
  <2> HIDE DEF m
  <2>4. Follows(disk, m)
    BY <2>1, <2>2, SameSubsFollow DEF Terminal, Promise!Edges
  <2>. QED
    BY <2>2, <2>3, <2>4, StoredKeeps, ReturnKeeps DEF Ends
<1>4. CASE StartSubtask
  <2> DEFINE n == IF Resumable THEN Cur.attempts ELSE Cur.attempts + 1
             s == [Cur EXCEPT !.status = "running", !.attempts = n]
  <2>1. /\ InPlan /\ mem.phase = "execute" /\ pc # "replanning" /\ Cur \in Subtask
        /\ Cur.status \notin Settled
    BY <1>1, <1>4, ElementOfSeq DEF StartSubtask, Executing, AtPhase, InPlan, Cur
  <2>2. n \in Nat /\ Cur.attempts \in Nat /\ Cur.attempts <= n
    BY <2>1 DEF Subtask
  <2>3. s \in Subtask /\ s.status = "running" /\ s.attempts = n
    BY <2>1, <2>2 DEF Subtask, Statuses
  <2>4. StartAttempt(Resumable) = WithSub(s)
    BY DEF StartAttempt
  <2>5. Stored(WithSub(s), "worker") \/ Ends(WithSub(s))
    BY <1>4, <2>4, Endings DEF StartSubtask
  <2> HIDE DEF s, n
  <2>6. Progress(Cur, s)
    BY <2>1, <2>2, <2>3 DEF Progress, Settled, Subtask, Statuses
  <2>7. WithSub(s) \in Ledger /\ WithSub(s).phase = "execute"
    BY <2>1, <2>3, <2>6, WithSubFollows
  <2>. QED
    BY <2>1, <2>3, <2>5, <2>6, <2>7, WithSubSyncs
<1>5. ASSUME NEW h \in SUBSET CheckKeys(mem), NEW next \in {"worker", "check"},
             WorkerStep(h, next)
      PROVE  Kept
  <2>1. pc = "worker" /\ pc' = next /\ mem' = mem /\ disk' = disk
    BY <1>5 DEF WorkerStep
  <2>. QED
    BY <2>1 DEF Kept, Synced
<1>6. CASE WorkerOutage \/ CheckSubtask \/ SettleDone \/ StartFix \/ GiveUp
  <2>0. pc \in Busy
    BY <1>6 DEF WorkerOutage, CheckSubtask, SettleDone, StartFix, GiveUp, Busy
  <2>1. InPlan /\ mem.phase = "execute" /\ Cur \in Subtask /\ Cur.status = "running"
    BY <2>0, AtWork
  <2>2. pc # "replanning"
    BY <2>0 DEF Busy
  <2>3. ASSUME NEW s \in Subtask, Unchanged(Cur, s) \/ Progress(Cur, s)
        PROVE  WithSub(s) \in Ledger /\ WithSub(s).phase = "execute"
    BY <2>1, <2>2, <2>3, WithSubFollows
  <2>4. CASE WorkerOutage
    <3> DEFINE s == [Cur EXCEPT !.fact = "stopped"]
    <3>1. s \in Subtask /\ Unchanged(Cur, s)
      BY <2>1 DEF Subtask, Facts, Unchanged
    <3>2. pc' = "down" /\ mem' = disk' /\ disk' \in {disk, WithSub(s)}
      BY <2>4 DEF WorkerOutage, SaveFails, Exit
    <3> HIDE DEF s
    <3>3. WithSub(s) \in Ledger /\ WithSub(s).phase = "execute"
      BY <2>3, <3>1
    <3>4. CASE disk' = disk
      BY <3>2, <3>4, ReturnKeeps
    <3>5. CASE disk' = WithSub(s)
      BY <2>1, <2>2, <3>1, <3>2, <3>3, <3>5, WithSubSyncs DEF Stored
    <3>. QED
      BY <3>2, <3>4, <3>5
  <2>5. CASE CheckSubtask
    <3> DEFINE p == [Cur EXCEPT !.fact = "passed"]
               f == [Cur EXCEPT !.fact = "failed", !.failedChecks = @ + 1]
    <3>1. p \in Subtask /\ Unchanged(Cur, p)
      BY <2>1 DEF Subtask, Facts, Unchanged
    <3>2. f \in Subtask /\ Unchanged(Cur, f)
      <4>1. Cur.failedChecks + 1 \in Nat
        BY <2>1 DEF Subtask
      <4>. QED
        BY <2>1, <4>1 DEF Subtask, Facts, Unchanged
    <3>3. \/ Stored(WithSub(p), "passed") \/ Ends(WithSub(p))
          \/ Stored(WithSub(f), "failed") \/ Ends(WithSub(f))
      BY <2>5, Endings DEF CheckSubtask
    <3> HIDE DEF p, f
    <3>4. /\ WithSub(p) \in Ledger /\ WithSub(p).phase = "execute"
          /\ WithSub(f) \in Ledger /\ WithSub(f).phase = "execute"
      BY <2>3, <3>1, <3>2
    <3>5. CASE Stored(WithSub(p), "passed") \/ Ends(WithSub(p))
      BY <2>1, <2>2, <3>1, <3>4, <3>5, WithSubSyncs
    <3>6. CASE Stored(WithSub(f), "failed") \/ Ends(WithSub(f))
      BY <2>1, <2>2, <3>2, <3>4, <3>6, WithSubSyncs
    <3>. QED
      BY <3>3, <3>5, <3>6
  <2>6. CASE SettleDone
    <3> DEFINE s == [Cur EXCEPT !.status = "done"]
               m == [WithSub(s) EXCEPT !.cursor = @ + 1]
    <3>1. s \in Subtask /\ Progress(Cur, s)
      BY <2>1 DEF Subtask, Statuses, Progress
    <3>2. Stored(m, "dispatch") \/ Ends(m)
      BY <2>6, Endings DEF SettleDone
    <3> HIDE DEF s
    <3>3. WithSub(s) \in Ledger /\ WithSub(s).phase = "execute"
      BY <2>3, <3>1
    <3>4. /\ m \in Ledger /\ m.phase = "execute" /\ m.subs = WithSub(s).subs
          /\ m.replans = WithSub(s).replans
      BY <3>3 DEF Ledger
    <3> HIDE DEF m
    <3>. QED
      BY <2>1, <2>2, <3>1, <3>2, <3>4, WithSubSyncs
  <2>7. CASE StartFix
    <3> DEFINE n == Cur.attempts + 1
               s == [Cur EXCEPT !.status = "running", !.attempts = n]
    <3>1. s \in Subtask /\ Progress(Cur, s)
      <4>1. Cur.attempts \in Nat /\ n \in Nat /\ Cur.attempts <= n
        BY <2>1 DEF Subtask
      <4> HIDE DEF n
      <4>2. s \in Subtask /\ s.status = "running" /\ s.attempts = n
        BY <2>1, <4>1 DEF Subtask, Statuses
      <4>. QED
        BY <2>1, <4>1, <4>2 DEF Progress
    <3>2. StartAttempt(FALSE) = WithSub(s)
      BY DEF StartAttempt
    <3>3. Stored(WithSub(s), "worker") \/ Ends(WithSub(s))
      BY <2>7, <3>2, Endings DEF StartFix
    <3> HIDE DEF s
    <3>4. WithSub(s) \in Ledger /\ WithSub(s).phase = "execute"
      BY <2>3, <3>1
    <3>. QED
      BY <2>1, <2>2, <3>1, <3>3, <3>4, WithSubSyncs
  <2>8. CASE GiveUp
    <3> DEFINE s == [Cur EXCEPT !.status = "failed"]
    <3>1. s \in Subtask /\ Progress(Cur, s)
      BY <2>1 DEF Subtask, Statuses, Progress
    <3>2. /\ reason' = "subtask"
          /\ \/ Stored(WithSub(s), "replanning")
             \/ mem' = WithSub(s) /\ disk' = disk /\ pc' = "replanning"
      BY <2>8, Endings DEF GiveUp
    <3> HIDE DEF s
    <3>3. WithSub(s) \in Ledger /\ WithSub(s).phase = "execute"
      BY <2>3, <3>1
    <3>4. CASE Stored(WithSub(s), "replanning")
      BY <2>1, <2>2, <3>1, <3>2, <3>3, <3>4, WithSubSyncs
    <3>5. CASE mem' = WithSub(s) /\ disk' = disk /\ pc' = "replanning"
      <4>1. /\ Len(WithSub(s).subs) = Len(mem.subs) /\ WithSub(s).cursor = mem.cursor
            /\ WithSub(s).replans = mem.replans
            /\ \A i \in 1..Len(mem.subs) :
                 WithSub(s).subs[i] = IF i = mem.cursor THEN s ELSE mem.subs[i]
        BY <1>1, <2>1, <3>1, WithSubType
      <4>2. /\ Len(mem.subs) = Len(disk.subs)
            /\ \A i \in 1..Len(disk.subs) : Unchanged(disk.subs[i], mem.subs[i])
        BY <2>1, <2>2, Mirrored
      <4>3. \A i \in 1..Len(disk.subs) :
              \/ Unchanged(disk.subs[i], WithSub(s).subs[i])
              \/ i = mem.cursor /\ Progress(disk.subs[i], WithSub(s).subs[i])
        BY <3>1, <4>1, <4>2 DEF Unchanged, Progress, Cur
      <4>. QED
        BY <1>1, <2>1, <3>2, <3>3, <3>5, <4>1, <4>2, <4>3 DEF Kept, Synced
    <3>. QED
      BY <3>2, <3>4, <3>5
  <2>. QED
    BY <1>6, <2>4, <2>5, <2>6, <2>7, <2>8
<1>. QED
  BY <1>2, <1>3, <1>4, <1>5, <1>6 DEF Execute

\* The verify phase: no subtask changes.
LEMMA VerifySyncs == ASSUME IInv, Synced, Verify PROVE Kept
<1>1. /\ mem \in Ledger /\ disk \in Ledger /\ mem.subs \in Seq(Subtask)
      /\ Len(mem.subs) \in Nat /\ mem.phase = "verify" /\ disk.phase = "verify"
      /\ pc \in {"dispatch", "review"} /\ disk.replans = mem.replans
  BY ShownType DEF Verify, VerifyPasses, VerifyFinds, ReviewPasses, ReviewFindsGaps,
     Verifying, AtPhase, IInv, TypeOK, Placed, Ledger, Synced
<1>2. CASE (\E found \in Verdicts : VerifyPasses(found)) \/ ReviewFindsGaps
  BY <1>1, <1>2 DEF VerifyPasses, ReviewFindsGaps, Kept, Synced, Unchanged, Progress
<1>3. CASE ReviewPasses
  <2> DEFINE m == [mem EXCEPT !.phase = "done"]
  <2>1. /\ m \in Ledger /\ m.subs = mem.subs /\ m.replans = mem.replans
        /\ m.phase = "done"
    BY <1>1 DEF Ledger, Phases
  <2>2. Stored(m, "dispatch") \/ (Ends(m) /\ disk' = disk)
    BY <1>3, Endings DEF ReviewPasses, Finish
  <2> HIDE DEF m
  <2>3. Follows(disk, m)
    BY <1>1, <2>1, SameSubsFollow DEF Terminal, Promise!Edges
  <2>. QED
    BY <2>1, <2>2, <2>3, StoredKeeps, ReturnKeeps DEF Ends
<1>4. ASSUME NEW found \in Verdicts, VerifyFinds(found)
      PROVE  Kept
  <2> DEFINE f == [i \in 1..Len(mem.subs) |->
                     IF i \in Regressed(found)
                       THEN [mem.subs[i] EXCEPT !.fact = "verifyFailed"]
                       ELSE mem.subs[i]]
             m == [mem EXCEPT !.subs = f]
  <2>1. \A i \in 1..Len(mem.subs) : mem.subs[i] \in Subtask
    BY <1>1, ElementOfSeq
  <2>2. \A i \in 1..Len(mem.subs) : f[i] \in Subtask /\ Unchanged(mem.subs[i], f[i])
    BY <2>1 DEF Subtask, Facts, Unchanged
  <2>3. f \in Seq(Subtask) /\ Len(f) = Len(mem.subs)
    <3>1. DOMAIN f = 1..Len(mem.subs) /\ f = [i \in 1..Len(mem.subs) |-> f[i]]
      OBVIOUS
    <3> HIDE DEF f
    <3>2. f \in [1..Len(mem.subs) -> Subtask]
      BY <2>2, <3>1
    <3>. QED
      BY <1>1, <3>2, SeqDef, LenProperties
  <2>4. /\ reason' = "verify"
        /\ \/ Stored(m, "replanning")
           \/ mem' = m /\ disk' = disk /\ pc' = "replanning"
    BY <1>4, Endings DEF VerifyFinds
  <2> HIDE DEF f
  <2>5. m \in Ledger /\ m.subs = f /\ m.phase = "verify" /\ m.replans = mem.replans
    BY <1>1, <2>3 DEF Ledger
  <2>6. /\ Len(mem.subs) = Len(disk.subs)
        /\ \A i \in 1..Len(disk.subs) : Unchanged(disk.subs[i], mem.subs[i])
    BY <1>1, Mirrored
  <2>7. \A i \in 1..Len(disk.subs) : Unchanged(disk.subs[i], f[i])
    BY <2>2, <2>6 DEF Unchanged
  <2> HIDE DEF m
  <2>8. SubsFollow(disk.subs, m.subs)
    BY <1>1, <2>3, <2>5, <2>6, <2>7 DEF SubsFollow
  <2>9. Follows(disk, m)
    BY <1>1, <2>3, <2>5, <2>6, <2>8 DEF Follows, Moves, PaidFor, Terminal
  <2>10. CASE Stored(m, "replanning")
    BY <2>4, <2>5, <2>9, <2>10, StoredKeeps
  <2>11. CASE mem' = m /\ disk' = disk /\ pc' = "replanning"
    BY <1>1, <2>3, <2>4, <2>5, <2>6, <2>7, <2>11 DEF Kept, Synced, Unchanged
  <2>. QED
    BY <2>4, <2>10, <2>11
<1>. QED
  BY <1>2, <1>3, <1>4 DEF Verify

\* A replan that gets no plan, whatever it was for.
LEMMA ReplanErrorSyncs ==
  ASSUME IInv, Synced, Replanning, ReplanError(mem) PROVE Kept
<1>1. /\ mem \in Ledger /\ disk.phase = mem.phase /\ mem.phase \in {"execute", "verify"}
      /\ reason = "review" => mem.phase = "verify"
  BY DEF IInv, TypeOK, Synced, Replanning
<1>2. CASE reason = "review"
  <2> DEFINE m == [mem EXCEPT !.phase = "done"]
  <2>1. /\ m \in Ledger /\ m.subs = mem.subs /\ m.replans = mem.replans
        /\ m.phase = "done"
    BY <1>1 DEF Ledger, Phases
  <2>2. Stored(m, "dispatch") \/ (Ends(m) /\ disk' = disk)
    BY <1>2, Endings DEF ReplanError, Finish
  <2> HIDE DEF m
  <2>3. Follows(disk, m)
    BY <1>1, <1>2, <2>1, SameSubsFollow DEF Terminal, Promise!Edges
  <2>. QED
    BY <2>1, <2>2, <2>3, StoredKeeps, ReturnKeeps DEF Ends
<1>3. CASE reason # "review"
  <2>1. SubsFollow(disk.subs, mem.subs) /\ PaidFor(disk, mem)
    BY MemFollows
  <2>2. Ends(mem)
    BY <1>3, Endings DEF ReplanError
  <2>. QED
    BY <1>1, <2>1, <2>2, EndsKeeps DEF Open
<1>. QED
  BY <1>2, <1>3

\* A replan: subtasks are added at the end, and paid for.
LEMMA ReplanSyncs == ASSUME IInv, Synced, Replan PROVE Kept
<1>1. /\ pc = "replanning" /\ mem \in Ledger /\ disk.phase = mem.phase
      /\ mem.phase \in {"execute", "verify"} /\ mem.replans \in Nat
      /\ reason = "review" => disk.phase = "verify"
  BY DEF Replan, ReplanOutage, ReplanImpossible, ReplanSentBack, ReplanAbandoned,
         ReplanApproved, Replanning, IInv, TypeOK, Ledger, Synced
<1>2. CASE ReplanOutage
  BY <1>2, ReplanErrorSyncs, ReturnKeeps DEF ReplanOutage, ReplanError, Exit
<1>3. CASE ReplanImpossible
  BY <1>3, ReplanErrorSyncs DEF ReplanImpossible
<1>4. ASSUME NEW a \in Answers, ReplanAbandoned(a) PROVE Kept
  BY <1>4, ReplanErrorSyncs DEF ReplanAbandoned
<1>5. CASE ReplanSentBack
  BY <1>5 DEF ReplanSentBack, Kept, Synced
<1>6. ASSUME NEW plan \in Plans(mem.replans + 1), ReplanApproved(plan) PROVE Kept
  <2>0. BudgetLeft
    BY <1>6 DEF ReplanApproved
  <2>1. /\ Extended(plan) \in Ledger /\ Extended(plan).phase = "execute"
        /\ SubsFollow(disk.subs, Extended(plan).subs)
        /\ PaidFor(disk, Extended(plan)) /\ Follows(disk, Extended(plan))
    BY <1>1, <2>0, ExtendedFollows
  <2>2. CASE reason # "review"
    <3>1. Stored(Extended(plan), "dispatch") \/ Ends(Extended(plan))
      BY <1>6, <2>2, Endings DEF ReplanApproved
    <3>. QED
      BY <1>1, <2>1, <3>1, StoredKeeps, EndsKeeps DEF Open
  <2>3. CASE reason = "review"
    <3> DEFINE m == [Extended(plan) EXCEPT !.phase = "done"]
    <3>1. /\ m \in Ledger /\ m.phase = "done" /\ m.subs = Extended(plan).subs
          /\ m.replans = Extended(plan).replans
      BY <2>1 DEF Ledger, Phases
    <3>2. \/ Stored(Extended(plan), "dispatch")
          \/ Stored(m, "dispatch")
          \/ pc' = "down" /\ mem' = disk' /\ disk' = disk
      BY <1>6, <2>3 DEF ReplanApproved, Commit, Stored, Exit
    <3> HIDE DEF m
    <3>3. Follows(disk, m)
      BY <1>1, <2>1, <2>3, <3>1 DEF Follows, Moves, PaidFor, Terminal, Promise!Edges
    <3>. QED
      BY <2>1, <3>1, <3>2, <3>3, StoredKeeps, ReturnKeeps
  <2>. QED
    BY <2>2, <2>3
<1>. QED
  BY <1>2, <1>3, <1>4, <1>5, <1>6 DEF Replan

\* Every step keeps what is synced, and the promise.
LEMMA NextSyncs == IInv /\ Synced /\ [Next]_vars => Kept
<1>. SUFFICES ASSUME IInv, Synced, [Next]_vars PROVE Kept
  OBVIOUS
<1>1. CASE Next
  BY <1>1, OutsideSyncs, PlanSyncs, ExecuteSyncs, VerifySyncs, ReplanSyncs DEF Next, Run
<1>2. CASE UNCHANGED vars
  BY <1>2 DEF vars, Kept, Synced, Unchanged, Progress
<1>. QED
  BY <1>1, <1>2

\* mission.json keeps the promise of MissionLedger across every stop, resume, outage
\* and lost save, for all budgets: the phase moves along its graph and is final once
\* terminal, settled subtasks are frozen, one subtask develops at a time, and what
\* is added is paid for (Run and its handlers in phases.go).
THEOREM LedgerIsPromised == Spec => LedgerPromise
<1>1. Init => Promise!Init
  <2> SUFFICES ASSUME Init PROVE Promise!Init
    OBVIOUS
  <2>1. disk.phase = "explore" /\ disk.subs = <<>> /\ disk.replans = 0
    BY DEF Init
  <2>2. ShownSubs(disk) = <<>>
    BY <2>1 DEF ShownSubs
  <2>. QED
    BY <2>1, <2>2 DEF Promise!Init, ShownSubs, Shown
<1>2. IInv /\ IInv' /\ Synced /\ [Next]_vars => [Promise!Next]_(Promise!ledger)
  <2> SUFFICES ASSUME IInv, IInv', Synced, [Next]_vars
               PROVE  Promise!Next \/ UNCHANGED Promise!ledger
    OBVIOUS
  <2>1. disk \in Ledger /\ disk' \in Ledger
    BY DEF IInv, TypeOK
  <2>2. disk' = disk \/ Follows(disk, disk')
    BY NextSyncs DEF Kept
  <2>. QED
    BY <2>1, <2>2, FollowsIsPromised DEF Promise!ledger
<1>3. Init => Synced
  BY InitSynced
<1>4. IInv /\ Synced /\ [Next]_vars => Synced'
  BY NextSyncs DEF Kept
<1>. QED
  BY <1>1, <1>2, <1>3, <1>4, Invariance, PTL DEF Spec, LedgerPromise, Promise!Spec

-----------------------------------------------------------------------------
(***************************************************************************)
(* Without stops and lost saves, what the newest plan has put behind the   *)
(* cursor is done and what lies ahead is not settled.                      *)
(***************************************************************************)
Undisturbed == MaxResumes = 0 /\ MaxSaveFails = 0

Ahead(m) ==
  /\ m.cursor >= 1
  /\ \A i \in 1..Len(m.subs) :
       /\ m.subs[i].gen <= m.replans
       /\ m.subs[i].gen = m.replans =>
            IF i < m.cursor THEN m.subs[i].status = "done"
                            ELSE m.subs[i].status \in {"pending", "running"}

AllDone(m) == \A i \in Current(m) : m.subs[i].status = "done"

Fits(m, place) ==
  /\ \A i \in 1..Len(m.subs) : m.subs[i].gen <= m.replans
  /\ m.phase \in {"explore", "plan"} => m.replans = 0
  /\ m.phase = "execute" /\ place # "replanning" => Ahead(m)
  /\ m.phase \in {"verify", "done"} => AllDone(m)

LeftInv ==
  /\ saveFails = 0 /\ resumes = 0
  /\ pc # "down" => Fits(mem, pc)
  /\ disk.phase = "done" => AllDone(disk)

\* Undisturbed, all ways of saving save.
LEMMA NoSaveIsLost ==
  ASSUME Undisturbed, LeftInv, NEW m, NEW next
  PROVE  /\ CommitOrReturn(m, next) => Commit(m, next)
         /\ CommitOrFail(m, next) => Commit(m, next)
         /\ BestEffort(m, next) => Commit(m, next)
         /\ Fail(m) => /\ pc' = "down" /\ disk' = [m EXCEPT !.phase = "failed"]
                       /\ saveFails' = saveFails
BY DEF Undisturbed, LeftInv, CommitOrReturn, CommitOrFail, BestEffort, Fail, SaveFails, Exit

\* A save of a ledger that fits.
LEMMA CommitFits ==
  ASSUME LeftInv, NEW m, NEW next, Commit(m, next), UNCHANGED resumes, Fits(m, next)
  PROVE  LeftInv'
BY DEF LeftInv, Commit, Fits, Ahead, AllDone, Current

\* A Run that returns leaves the file alone or marks the mission as failed.
LEMMA StopFits ==
  ASSUME LeftInv, pc' = "down", UNCHANGED <<saveFails, resumes>>,
         disk' = disk \/ disk'.phase = "failed"
  PROVE  LeftInv'
BY DEF LeftInv, AllDone, Current

\* A ledger marked as failed.
LEMMA PhaseFailed ==
  ASSUME NEW m \in Ledger PROVE [m EXCEPT !.phase = "failed"].phase = "failed"
BY DEF Ledger

\* A save of the subtask at the cursor that leaves it unsettled.
LEMMA WithSubFits ==
  ASSUME LeftInv, mem \in Ledger, InPlan, pc # "replanning", pc # "down",
         mem.phase = "execute",
         NEW s \in Subtask, s.gen = Cur.gen, s.status \in {"pending", "running"},
         NEW next, Commit(WithSub(s), next), UNCHANGED resumes
  PROVE  LeftInv'
<1>1. /\ WithSub(s).phase = mem.phase /\ WithSub(s).replans = mem.replans
      /\ WithSub(s).cursor = mem.cursor
      /\ Len(WithSub(s).subs) = Len(mem.subs)
      /\ \A i \in 1..Len(mem.subs) :
           WithSub(s).subs[i] = IF i = mem.cursor THEN s ELSE mem.subs[i]
  BY WithSubType
<1>2. Ahead(mem) /\ Fits(mem, pc) /\ mem.cursor \in Nat
  BY DEF LeftInv, Fits, Ledger
<1>3. Ahead(WithSub(s))
  BY <1>1, <1>2 DEF Ahead, Cur, InPlan
<1>4. Fits(WithSub(s), next)
  BY <1>1, <1>2, <1>3 DEF Fits, Ahead
<1>. QED
  BY <1>4, CommitFits

\* Explore, and what ends or starts a process.
LEMMA OutsideFits ==
  ASSUME Undisturbed, IInv, LeftInv,
         \/ Explore \/ Return \/ Crash
         \/ \E h \in SUBSET CheckKeys(disk) : Resume(h)
         \/ \E h \in SUBSET CheckKeys(mem) : Drift(h)
  PROVE  LeftInv'
<1>1. CASE Explore
  <2> DEFINE m == [mem EXCEPT !.phase = "plan"]
  <2>1. m.phase = "plan" /\ m.subs = mem.subs /\ m.replans = mem.replans
    BY DEF IInv, TypeOK, Ledger
  <2>2. Fits(mem, pc) /\ mem.phase = "explore"
    BY <1>1 DEF Explore, AtPhase, LeftInv
  <2>3. Commit(m, "dispatch") /\ UNCHANGED resumes
    BY <1>1, NoSaveIsLost DEF Explore
  <2> HIDE DEF m
  <2>4. Fits(m, "dispatch")
    BY <2>1, <2>2 DEF Fits
  <2>. QED
    BY <2>3, <2>4, CommitFits
<1>2. CASE Return \/ Crash
  BY <1>2, StopFits DEF Return, Crash, Exit
<1>3. CASE \E h \in SUBSET CheckKeys(disk) : Resume(h)
  BY <1>3 DEF Resume, LeftInv, Undisturbed
<1>4. CASE \E h \in SUBSET CheckKeys(mem) : Drift(h)
  BY <1>4 DEF Drift, LeftInv, Fits, Ahead, AllDone, Current
<1>. QED
  BY <1>1, <1>2, <1>3, <1>4

\* The plan phase: the first plan lies ahead.
LEMMA PlanFits == ASSUME Undisturbed, IInv, LeftInv, Plan PROVE LeftInv'
<1>1. /\ pc = "dispatch" /\ mem.phase = "plan" /\ mem \in Ledger /\ mem.replans = 0
      /\ UNCHANGED resumes
  BY DEF Plan, PlanOutage, PlanInvalid, PlanApproved, PlanSentBack, PlanAbandoned,
         AtPhase, IInv, TypeOK, LeftInv, Fits
<1>2. ASSUME NEW plan \in Plans(mem.replans)
      PROVE  /\ Planned(plan) \in Ledger
             /\ Planned(plan).phase = "plan" /\ Planned(plan).replans = 0
             /\ Planned(plan).subs = plan /\ Len(plan) \in Nat
             /\ \A i \in 1..Len(plan) : plan[i].gen = 0 /\ plan[i].status = "pending"
  <2>1. /\ plan \in Seq(Subtask) /\ Len(plan) \in Nat
        /\ \A i \in 1..Len(plan) : plan[i] \in Fresh(mem.replans)
    BY <1>1, PlanType
  <2>. QED
    BY <1>1, <2>1 DEF Planned, Ledger, Fresh
<1>3. CASE PlanOutage
  BY <1>1, <1>3, StopFits DEF PlanOutage, Exit
<1>4. CASE PlanInvalid
  <2>1. pc' = "down" /\ disk' = [mem EXCEPT !.phase = "failed"] /\ saveFails' = saveFails
    BY <1>4, NoSaveIsLost DEF PlanInvalid
  <2>. QED
    BY <1>1, <2>1, PhaseFailed, StopFits
<1>5. ASSUME NEW plan \in Plans(mem.replans), PlanApproved(plan) PROVE LeftInv'
  <2> DEFINE m == [Planned(plan) EXCEPT !.phase = "execute", !.cursor = 1]
  <2>1. m.phase = "execute" /\ m.replans = 0 /\ m.subs = plan /\ m.cursor = 1
    BY <1>2 DEF Ledger
  <2>2. Commit(m, "dispatch")
    BY <1>5, NoSaveIsLost DEF PlanApproved
  <2> HIDE DEF m
  <2>3. Fits(m, "dispatch")
    BY <1>2, <2>1 DEF Fits, Ahead
  <2>. QED
    BY <1>1, <2>2, <2>3, CommitFits
<1>6. ASSUME NEW plan \in Plans(mem.replans), PlanSentBack(plan) PROVE LeftInv'
  <2>1. /\ disk' = disk /\ pc' = pc /\ mem' = Planned(plan) /\ saveFails' = saveFails
    BY <1>6 DEF PlanSentBack
  <2>2. Fits(Planned(plan), pc)
    BY <1>2 DEF Fits
  <2>. QED
    BY <1>1, <2>1, <2>2 DEF LeftInv, Fits, Ahead, AllDone, Current
<1>7. ASSUME NEW plan \in Plans(mem.replans), NEW a \in Answers, PlanAbandoned(plan, a)
      PROVE  LeftInv'
  <2>1. /\ pc' = "down" /\ disk' = [Planned(plan) EXCEPT !.phase = "failed"]
        /\ saveFails' = saveFails
    BY <1>7, NoSaveIsLost DEF PlanAbandoned
  <2>. QED
    BY <1>1, <1>2, <2>1, PhaseFailed, StopFits
<1>. QED
  BY <1>3, <1>4, <1>5, <1>6, <1>7 DEF Plan

\* The execute phase: what the cursor leaves behind is done.
LEMMA ExecuteFits == ASSUME Undisturbed, IInv, LeftInv, Execute PROVE LeftInv'
<1>1. /\ mem \in Ledger /\ mem.subs \in Seq(Subtask) /\ Len(mem.subs) \in Nat
      /\ mem.cursor \in Nat /\ mem.replans \in Nat
      /\ UNCHANGED resumes
  BY LenProperties DEF IInv, TypeOK, Ledger, Execute, PastTheEnd, SkipSettled,
     StartSubtask, WorkerStep, WorkerOutage, CheckSubtask, SettleDone, StartFix, GiveUp
<1>2. /\ pc # "down" /\ pc # "replanning" /\ mem.phase = "execute"
      /\ Fits(mem, pc) /\ Ahead(mem)
  <2>1. pc \in Busy \/ Executing
    BY DEF Execute, PastTheEnd, SkipSettled, StartSubtask, WorkerStep, WorkerOutage,
       CheckSubtask, SettleDone, StartFix, GiveUp, Busy
  <2>. QED
    BY <2>1, AtWork DEF Executing, AtPhase, Busy, LeftInv, Fits
<1>3. CASE PastTheEnd
  <2> DEFINE m == [mem EXCEPT !.phase = "verify"]
  <2>1. m.phase = "verify" /\ m.subs = mem.subs /\ m.replans = mem.replans
    BY <1>1 DEF Ledger
  <2>2. Commit(m, "dispatch")
    BY <1>3, NoSaveIsLost DEF PastTheEnd
  <2> HIDE DEF m
  <2>3. mem.cursor > Len(mem.subs)
    BY <1>1, <1>2, <1>3 DEF PastTheEnd, InPlan, Ahead
  <2>4. AllDone(m)
    BY <1>1, <1>2, <2>1, <2>3 DEF AllDone, Current, Ahead
  <2>5. Fits(m, "dispatch")
    BY <1>2, <2>1, <2>4 DEF Fits
  <2>. QED
    BY <1>1, <2>2, <2>5, CommitFits
<1>4. CASE SkipSettled
  <2> DEFINE m == [mem EXCEPT !.cursor = @ + 1]
  <2>1. /\ m.phase = "execute" /\ m.subs = mem.subs /\ m.replans = mem.replans
        /\ m.cursor = mem.cursor + 1
    BY <1>1, <1>2 DEF Ledger
  <2>2. Commit(m, "dispatch") /\ Cur.status \in Settled
    BY <1>4, NoSaveIsLost DEF SkipSettled
  <2> HIDE DEF m
  <2>3. Ahead(m)
    BY <1>1, <1>2, <2>1, <2>2 DEF Ahead, Cur, Settled
  <2>4. Fits(m, "dispatch")
    BY <1>2, <2>1, <2>3 DEF Fits
  <2>. QED
    BY <1>1, <2>2, <2>4, CommitFits
<1>5. CASE StartSubtask
  <2> DEFINE n == IF Resumable THEN Cur.attempts ELSE Cur.attempts + 1
             s == [Cur EXCEPT !.status = "running", !.attempts = n]
  <2>1. InPlan /\ Cur \in Subtask
    BY <1>1, <1>5, ElementOfSeq DEF StartSubtask, InPlan, Cur
  <2>2. n \in Nat
    BY <2>1 DEF Subtask
  <2>3. s \in Subtask /\ s.status = "running" /\ s.gen = Cur.gen
    BY <2>1, <2>2 DEF Subtask, Statuses
  <2>4. Commit(WithSub(s), "worker")
    BY <1>5, NoSaveIsLost DEF StartSubtask, StartAttempt
  <2> HIDE DEF s, n
  <2>. QED
    BY <1>1, <1>2, <2>1, <2>3, <2>4, WithSubFits
<1>6. ASSUME NEW h \in SUBSET CheckKeys(mem), NEW next \in {"worker", "check"},
             WorkerStep(h, next)
      PROVE  LeftInv'
  <2>1. /\ pc' = next /\ mem' = mem /\ disk' = disk /\ saveFails' = saveFails
    BY <1>6 DEF WorkerStep
  <2>. QED
    BY <1>1, <1>2, <2>1 DEF LeftInv, Fits, AllDone, Current, Ahead
<1>7. CASE WorkerOutage \/ CheckSubtask \/ SettleDone \/ StartFix \/ GiveUp
  <2>0. pc \in Busy
    BY <1>7 DEF WorkerOutage, CheckSubtask, SettleDone, StartFix, GiveUp, Busy
  <2>1. InPlan /\ Cur \in Subtask /\ Cur.status = "running"
    BY <2>0, AtWork
  <2>2. CASE WorkerOutage
    <3> DEFINE s == [Cur EXCEPT !.fact = "stopped"]
    <3>1. s \in Subtask
      BY <2>1 DEF Subtask, Facts
    <3>2. disk' = disk \/ disk' = WithSub(s)
      BY <2>2 DEF WorkerOutage, SaveFails
    <3>3. pc' = "down" /\ saveFails' = saveFails
      BY <2>2 DEF WorkerOutage, SaveFails, Exit, Undisturbed, LeftInv
    <3> HIDE DEF s
    <3>4. WithSub(s).phase = "execute"
      BY <1>1, <1>2, <2>1, <3>1, WithSubType
    <3>. QED
      BY <1>1, <3>2, <3>3, <3>4 DEF LeftInv, AllDone, Current
  <2>3. CASE CheckSubtask
    <3> DEFINE p == [Cur EXCEPT !.fact = "passed"]
               f == [Cur EXCEPT !.fact = "failed", !.failedChecks = @ + 1]
    <3>1. p \in Subtask /\ p.status = "running" /\ p.gen = Cur.gen
      BY <2>1 DEF Subtask, Facts
    <3>2. f \in Subtask /\ f.status = "running" /\ f.gen = Cur.gen
      <4>1. Cur.failedChecks + 1 \in Nat
        BY <2>1 DEF Subtask
      <4>. QED
        BY <2>1, <4>1 DEF Subtask, Facts
    <3>3. Commit(WithSub(p), "passed") \/ Commit(WithSub(f), "failed")
      BY <2>3, NoSaveIsLost DEF CheckSubtask
    <3> HIDE DEF p, f
    <3>. QED
      BY <1>1, <1>2, <2>1, <3>1, <3>2, <3>3, WithSubFits
  <2>4. CASE SettleDone
    <3> DEFINE s == [Cur EXCEPT !.status = "done"]
               m == [WithSub(s) EXCEPT !.cursor = @ + 1]
    <3>1. s \in Subtask /\ s.status = "done" /\ s.gen = Cur.gen
      BY <2>1 DEF Subtask, Statuses
    <3>2. Commit(m, "dispatch")
      BY <2>4, NoSaveIsLost DEF SettleDone
    <3> HIDE DEF s
    <3>3. /\ WithSub(s) \in Ledger /\ WithSub(s).phase = mem.phase
          /\ WithSub(s).replans = mem.replans
          /\ WithSub(s).cursor = mem.cursor
          /\ Len(WithSub(s).subs) = Len(mem.subs)
          /\ \A i \in 1..Len(mem.subs) :
               WithSub(s).subs[i] = IF i = mem.cursor THEN s ELSE mem.subs[i]
      BY <1>1, <2>1, <3>1, WithSubType
    <3>4. /\ m.phase = "execute" /\ m.subs = WithSub(s).subs
          /\ m.replans = mem.replans /\ m.cursor = mem.cursor + 1
      BY <1>2, <3>3 DEF Ledger
    <3> HIDE DEF m
    <3>5. Ahead(m)
      <4>1. /\ Ahead(mem) /\ mem.cursor \in Nat /\ mem.cursor >= 1
            /\ mem.cursor \in 1..Len(mem.subs) /\ Cur = mem.subs[mem.cursor]
            /\ Len(m.subs) = Len(mem.subs)
        BY <1>1, <1>2, <2>1, <3>3, <3>4 DEF Ahead, Cur, InPlan, Ledger
      <4>2. ASSUME NEW i \in 1..Len(mem.subs)
            PROVE  /\ m.subs[i].gen <= m.replans
                   /\ m.subs[i].gen = m.replans =>
                        IF i < m.cursor THEN m.subs[i].status = "done"
                                        ELSE m.subs[i].status \in {"pending", "running"}
        <5>1. CASE i = mem.cursor
          BY <3>1, <3>3, <3>4, <4>1, <5>1 DEF Ahead
        <5>2. CASE i # mem.cursor
          <6>1. i < m.cursor <=> i < mem.cursor
            BY <3>4, <4>1, <5>2
          <6>. QED
            BY <3>3, <3>4, <4>1, <5>2, <6>1 DEF Ahead
        <5>. QED
          BY <5>1, <5>2
      <4>. QED
        BY <3>4, <4>1, <4>2 DEF Ahead
    <3>6. Fits(m, "dispatch")
      BY <3>4, <3>5 DEF Fits, Ahead
    <3>. QED
      BY <1>1, <3>2, <3>6, CommitFits
  <2>5. CASE StartFix
    <3> DEFINE n == Cur.attempts + 1
               s == [Cur EXCEPT !.status = "running", !.attempts = n]
    <3>1. n \in Nat
      BY <2>1 DEF Subtask
    <3>2. Commit(WithSub(s), "worker")
      BY <2>5, NoSaveIsLost DEF StartFix, StartAttempt
    <3> HIDE DEF n
    <3>3. s \in Subtask /\ s.status = "running" /\ s.gen = Cur.gen
      BY <2>1, <3>1 DEF Subtask, Statuses
    <3> HIDE DEF s
    <3>. QED
      BY <1>1, <1>2, <2>1, <3>2, <3>3, WithSubFits
  <2>6. CASE GiveUp
    <3> DEFINE s == [Cur EXCEPT !.status = "failed"]
    <3>1. s \in Subtask /\ s.gen = Cur.gen
      BY <2>1 DEF Subtask, Statuses
    <3>2. Commit(WithSub(s), "replanning")
      BY <2>6, NoSaveIsLost DEF GiveUp
    <3> HIDE DEF s
    <3>3. /\ WithSub(s).phase = "execute" /\ WithSub(s).replans = mem.replans
          /\ Len(WithSub(s).subs) = Len(mem.subs)
          /\ \A i \in 1..Len(mem.subs) :
               WithSub(s).subs[i] = IF i = mem.cursor THEN s ELSE mem.subs[i]
      BY <1>1, <1>2, <2>1, <3>1, WithSubType
    <3>4. Fits(WithSub(s), "replanning")
      BY <1>2, <2>1, <3>1, <3>3 DEF Fits, Ahead, Cur
    <3>. QED
      BY <1>1, <3>2, <3>4, CommitFits
  <2>. QED
    BY <1>7, <2>2, <2>3, <2>4, <2>5, <2>6
<1>. QED
  BY <1>3, <1>4, <1>5, <1>6, <1>7 DEF Execute

\* A mission whose newest plan is done may be saved as done.
LEMMA FinishFits ==
  ASSUME Undisturbed, IInv, LeftInv, pc # "down", mem.phase = "verify", Finish(mem),
         UNCHANGED resumes
  PROVE  LeftInv'
<1> DEFINE m == [mem EXCEPT !.phase = "done"]
<1>1. m.phase = "done" /\ m.subs = mem.subs /\ m.replans = mem.replans
  BY DEF IInv, TypeOK, Ledger
<1>2. Commit(m, "dispatch")
  BY NoSaveIsLost DEF Finish
<1> HIDE DEF m
<1>3. Fits(m, "dispatch")
  BY <1>1 DEF LeftInv, Fits, AllDone, Current
<1>. QED
  BY <1>2, <1>3, CommitFits

\* The verify phase: it comes when all is done.
LEMMA VerifyFits == ASSUME Undisturbed, IInv, LeftInv, Verify PROVE LeftInv'
<1>1. /\ mem \in Ledger /\ mem.subs \in Seq(Subtask) /\ Len(mem.subs) \in Nat
      /\ mem.phase = "verify" /\ pc \in {"dispatch", "review"} /\ UNCHANGED resumes
      /\ Fits(mem, pc)
  BY LenProperties DEF Verify, VerifyPasses, VerifyFinds, ReviewPasses, ReviewFindsGaps,
     Verifying, AtPhase, IInv, TypeOK, Placed, Ledger, LeftInv
<1>2. CASE (\E found \in Verdicts : VerifyPasses(found)) \/ ReviewFindsGaps
  BY <1>1, <1>2 DEF VerifyPasses, ReviewFindsGaps, LeftInv, Fits, AllDone, Current
<1>3. CASE ReviewPasses
  BY <1>1, <1>3, FinishFits DEF ReviewPasses
<1>4. ASSUME NEW found \in Verdicts, VerifyFinds(found)
      PROVE  LeftInv'
  <2> DEFINE f == [i \in 1..Len(mem.subs) |->
                     IF i \in Regressed(found)
                       THEN [mem.subs[i] EXCEPT !.fact = "verifyFailed"]
                       ELSE mem.subs[i]]
             m == [mem EXCEPT !.subs = f]
  <2>1. \A i \in 1..Len(mem.subs) : mem.subs[i] \in Subtask
    BY <1>1, ElementOfSeq
  <2>2. \A i \in 1..Len(mem.subs) : /\ f[i].status = mem.subs[i].status
                                    /\ f[i].gen = mem.subs[i].gen
    BY <2>1 DEF Subtask
  <2>3. Len(f) = Len(mem.subs)
    <3>1. Len(mem.subs) \in Nat /\ f = [i \in 1..Len(mem.subs) |-> f[i]]
      BY <1>1
    <3> HIDE DEF f
    <3>. QED
      BY <3>1
  <2>4. Commit(m, "replanning")
    BY <1>4, NoSaveIsLost DEF VerifyFinds
  <2> HIDE DEF f
  <2>5. m.subs = f /\ m.phase = "verify" /\ m.replans = mem.replans
    BY <1>1 DEF Ledger
  <2> HIDE DEF m
  <2>6. Fits(m, "replanning")
    BY <1>1, <2>2, <2>3, <2>5 DEF Fits, AllDone, Current
  <2>. QED
    BY <1>1, <2>4, <2>6, CommitFits
<1>. QED
  BY <1>2, <1>3, <1>4 DEF Verify

\* A replan: the new plan lies ahead, whatever became of the old one.
LEMMA ReplanFits == ASSUME Undisturbed, IInv, Synced, LeftInv, Replan PROVE LeftInv'
<1>1. /\ pc = "replanning" /\ mem \in Ledger /\ mem.replans \in Nat
      /\ Len(mem.subs) \in Nat /\ UNCHANGED resumes
      /\ Fits(mem, pc)
      /\ reason = "review" => mem.phase = "verify"
  BY ShownType DEF Replan, ReplanOutage, ReplanImpossible, ReplanSentBack,
     ReplanAbandoned, ReplanApproved, Replanning, IInv, TypeOK, Ledger, Synced, LeftInv
<1>2. ASSUME ReplanError(mem) PROVE LeftInv'
  <2>1. CASE reason = "review"
    BY <1>1, <1>2, <2>1, FinishFits DEF ReplanError
  <2>2. CASE reason # "review"
    <3>1. /\ pc' = "down" /\ disk' = [mem EXCEPT !.phase = "failed"]
          /\ saveFails' = saveFails
      BY <1>2, <2>2, NoSaveIsLost DEF ReplanError
    <3>. QED
      BY <1>1, <3>1, PhaseFailed, StopFits
  <2>. QED
    BY <2>1, <2>2
<1>3. CASE ReplanOutage
  BY <1>1, <1>2, <1>3, StopFits DEF ReplanOutage, ReplanError, Exit
<1>4. CASE ReplanImpossible
  BY <1>2, <1>4 DEF ReplanImpossible
<1>5. ASSUME NEW a \in Answers, ReplanAbandoned(a) PROVE LeftInv'
  BY <1>2, <1>5 DEF ReplanAbandoned
<1>6. CASE ReplanSentBack
  BY <1>1, <1>6 DEF ReplanSentBack, LeftInv, Fits, AllDone, Current
<1>7. ASSUME NEW plan \in Plans(mem.replans + 1), ReplanApproved(plan) PROVE LeftInv'
  <2>1. /\ Extended(plan).phase = "execute"
        /\ Extended(plan).replans = mem.replans + 1
        /\ Extended(plan).cursor = Len(mem.subs) + 1
        /\ \A i \in 1..Len(Extended(plan).subs) :
             \/ i \in 1..Len(mem.subs) /\ Extended(plan).subs[i] = mem.subs[i]
             \/ i > Len(mem.subs) /\ Extended(plan).subs[i] \in Fresh(mem.replans + 1)
    BY <1>1, ExtendedType
  <2>2. Commit(Extended(plan), "dispatch")
    BY <1>7, NoSaveIsLost DEF ReplanApproved, Undisturbed, LeftInv
  <2>3. ASSUME NEW i \in 1..Len(Extended(plan).subs)
        PROVE  LET t == Extended(plan).subs[i]
               IN  /\ t.gen <= mem.replans + 1
                   /\ t.gen = mem.replans + 1 => i > Len(mem.subs) /\ t.status = "pending"
    <3>1. CASE i \in 1..Len(mem.subs) /\ Extended(plan).subs[i] = mem.subs[i]
      <4>1. mem.subs[i].gen \in Nat /\ mem.subs[i].gen <= mem.replans
        BY <1>1, <3>1, ShownType DEF Fits, Subtask
      <4>. QED
        BY <1>1, <3>1, <4>1
    <3>2. CASE i > Len(mem.subs) /\ Extended(plan).subs[i] \in Fresh(mem.replans + 1)
      BY <1>1, <3>2 DEF Fresh
    <3>. QED
      BY <2>1, <3>1, <3>2
  <2>4. Ahead(Extended(plan))
    BY <1>1, <2>1, <2>3 DEF Ahead
  <2>5. Fits(Extended(plan), "dispatch")
    BY <1>1, <2>1, <2>3, <2>4 DEF Fits
  <2>. QED
    BY <1>1, <2>2, <2>5, CommitFits
<1>. QED
  BY <1>3, <1>4, <1>5, <1>6, <1>7 DEF Replan

\* Without stops and lost saves a mission is saved as done only when every subtask of
\* its newest plan is done (Run, tryReplan), whatever outages, failed checks and
\* rejections happen and for all budgets.  The two bounds are zero because the code
\* does not promise it otherwise: see Mission_skipped.
THEOREM NothingIsLeftBehind ==
  ASSUME Undisturbed PROVE Spec => []NothingLeftBehind
<1>1. Init => LeftInv
  BY DEF Init, LeftInv, Fits
<1>2. IInv /\ Synced /\ LeftInv /\ [Next]_vars => LeftInv'
  <2> SUFFICES ASSUME IInv, Synced, LeftInv, [Next]_vars PROVE LeftInv'
    OBVIOUS
  <2>1. CASE Next
    BY <2>1, OutsideFits, PlanFits, ExecuteFits, VerifyFits, ReplanFits DEF Next, Run
  <2>2. CASE UNCHANGED vars
    BY <2>2 DEF vars, LeftInv, Fits, Ahead, AllDone, Current
  <2>. QED
    BY <2>1, <2>2
<1>3. LeftInv => NothingLeftBehind
  BY DEF LeftInv, NothingLeftBehind, AllDone
<1>4. Init => Synced
  BY InitSynced
<1>5. IInv /\ Synced /\ [Next]_vars => Synced'
  BY NextSyncs DEF Kept
<1>. QED
  BY <1>1, <1>2, <1>3, <1>4, <1>5, Invariance, PTL DEF Spec
=============================================================================
