------------------------------ MODULE AgentLoop ------------------------------
(***************************************************************************)
(* One run of the agent loop of internal/agent/agent.go: Agent.run, the    *)
(* finish checks, the repeat guards and interject.                         *)
(*                                                                         *)
(* One step of the model is one turn of the loop: the response, the checks *)
(* or the tool calls it leads to, and what the loop then says.  How the    *)
(* calls of one step interleave is ToolBatch's subject; here they take     *)
(* effect together, the Concurrent ones before the Exclusive ones.         *)
(*                                                                         *)
(* runState is split by concern: `stall' judges progress, `gate' the       *)
(* finish, `seen' holds the repeat guards, `budget' the context notices,   *)
(* `writes' is mutatingSucceeded.  What the loop cannot see is observed in *)
(* `fresh' (the reads whose last result the workspace would still give),   *)
(* `missed' (those that changes nobody told the loop of made stale),       *)
(* `onDisk', `written' (write_file's successes), `verified' (the verify    *)
(* command's newest result), `said' (the user messages of the last step),  *)
(* `heard' (how often each was said) and `quiet' (the fruitless steps      *)
(* since the model was last told that it is stuck).                        *)
(***************************************************************************)
EXTENDS Integers, Sequences, FiniteSets

CONSTANTS
  MaxSteps, MaxStuckSteps, MaxExploratorySteps,   \* Config
  SkipVerify, VerifyOnZeroWrites, HasVerify,      \* Config
  MaxZeroWriteRefusals, MaxIdenticalAttempts, MaxSameToolSteps,
  Calls,      \* the tool calls the model may make, records [tool, path]
  MaxCalls,   \* bound: most tool calls in one response
  Replies,    \* the kinds of responses without a tool call that may come
  Usages      \* the context usages that may be reported: below 75%, 75%, 90%

Tools      == {"read", "probe", "delegate", "write", "edit", "move", "shell"}
Concurrent == {"read", "probe", "delegate"}
Idempotent == {"read"}
MutatingTools == {"write", "edit", "move"}

Nudges == {"StuckRepeating", "StuckFailing", "StuckEscalated", "ToolLoop",
           "SearchFatigue", "BudgetNotice", "BudgetWarning"}
Notices == {"none", "BudgetNotice", "BudgetWarning"}
Corrections == {"Truncated", "LeakDetected", "LeakRepeated", "Verify",
                "VerifyFailedContinue", "AnnouncedNotWritten"}

ASSUME BoundAssumption ==
  /\ MaxSteps \in Nat \ {0} /\ MaxStuckSteps \in Nat \ {0}
  /\ MaxExploratorySteps \in Nat \ {0} /\ MaxSameToolSteps \in Nat \ {0}
  /\ MaxZeroWriteRefusals \in Nat /\ MaxIdenticalAttempts \in Nat \ {0, 1}
  /\ MaxCalls \in Nat \ {0}

ASSUME ConfigAssumption ==
  SkipVerify \in BOOLEAN /\ VerifyOnZeroWrites \in BOOLEAN /\ HasVerify \in BOOLEAN

ASSUME ModelAssumption ==
  /\ \A c \in Calls : c.tool \in Tools /\ c = [tool |-> c.tool, path |-> c.path]
  /\ IsFiniteSet(Calls)
  /\ Replies \subseteq {"text", "empty", "truncated", "leaked"}
  /\ Usages \subseteq {0, 75, 90}

Paths == {c.path : c \in Calls}

VARIABLES
  pc,        \* "running", "finished", "exhausted" (ErrMaxSteps) or "broken"
  step, stall, gate, seen, budget, writes,
  fresh, missed, onDisk, written, verified, said, heard, quiet

vars == <<pc, step, stall, gate, seen, budget, writes,
          fresh, missed, onDisk, written, verified, said, heard, quiet>>

world == <<fresh, missed, onDisk, written>>

progress == <<stall, quiet>>

Init ==
  /\ pc = "running" /\ step = 0 /\ writes = 0
  /\ stall = [stuck |-> 0, stuckNudges |-> 0, signature |-> <<>>,
              sameTool |-> 0, single |-> "none", exploratory |-> 0,
              toolLoopWarned |-> FALSE, searchFatigueWarned |-> FALSE]
  /\ gate = [verifiedOnce |-> FALSE, blocked |-> FALSE, zeroWrites |-> 0,
             emptyRetried |-> FALSE]
  /\ seen = [idempotent |-> {}, wrote |-> {}, failed |-> [c \in Calls |-> 0]]
  /\ budget = [warned |-> 0, pending |-> "none"]
  /\ fresh = {} /\ missed = {} /\ onDisk \in SUBSET Paths /\ written = [p \in Paths |-> 0]
  /\ verified = [out |-> "none", current |-> FALSE]
  /\ said = <<>> /\ heard = [n \in Nudges |-> 0] /\ quiet = 0

-----------------------------------------------------------------------------
(***************************************************************************)
(* The response arrives.                                                   *)
(***************************************************************************)
Responds(u) ==
  /\ pc = "running" /\ step < MaxSteps
  /\ step' = step + 1
  /\ u \in Usages

\* budgetWarning: a threshold is warned of once, and only the highest crossed.
Warned(u) == IF u > budget.warned THEN u ELSE budget.warned

Notice(u) ==
  IF u <= budget.warned THEN "none"
  ELSE IF u = 90 THEN "BudgetWarning" ELSE "BudgetNotice"

Raised(u) == [budget EXCEPT !.warned = Warned(u)]

Say(msgs) ==
  /\ said' = msgs
  /\ heard' = [n \in Nudges |->
                 heard[n] + Cardinality({i \in DOMAIN msgs : msgs[i] = n})]

\* The backend fails: the run ends with an error that is not ErrMaxSteps.
ChatFails ==
  /\ pc = "running" /\ step < MaxSteps
  /\ pc' = "broken" /\ said' = <<>>
  /\ UNCHANGED <<step, progress, gate, seen, budget, writes, world, verified, heard>>

OutOfSteps ==
  /\ pc = "running" /\ step = MaxSteps
  /\ pc' = "exhausted" /\ said' = <<>>
  /\ UNCHANGED <<step, progress, gate, seen, budget, writes, world, verified, heard>>

-----------------------------------------------------------------------------
(***************************************************************************)
(* A response without tool calls.                                          *)
(***************************************************************************)

\* The messages that tell the model it gets nowhere.
StuckWords == {"StuckRepeating", "StuckFailing", "StuckEscalated", "LeakRepeated"}

Observe(fruitless) ==
  quiet' = IF ~fruitless \/ \E i \in DOMAIN said' : said'[i] \in StuckWords
             THEN 0 ELSE quiet + 1

\* A response that is no answer: complain, and say more when stuck.
Complain(first, more) ==
  /\ IF stall.stuck + 1 >= MaxStuckSteps
       THEN /\ stall' = [stall EXCEPT !.stuck = 0]
            /\ Say(<<first, more>>)
       ELSE /\ stall' = [stall EXCEPT !.stuck = @ + 1]
            /\ Say(<<first>>)
  /\ Observe(TRUE)

Truncated(u) ==
  /\ Responds(u) /\ "truncated" \in Replies
  /\ Complain("Truncated", "StuckFailing")
  /\ budget' = Raised(u)
  /\ UNCHANGED <<pc, gate, seen, writes, world, verified>>

Leaked(u) ==
  /\ Responds(u) /\ "leaked" \in Replies
  /\ Complain("LeakDetected", "LeakRepeated")
  /\ budget' = Raised(u)
  /\ UNCHANGED <<pc, gate, seen, writes, world, verified>>

\* The responses that would end the run if every finish check lets them.
Answers == {"text", "empty"} \cap Replies

\* Mutant: the next finish is not verified again.
VerifyBlocksOnce(u) ==
  /\ Responds(u) /\ Answers # {}
  /\ gate.blocked
  /\ gate' = [gate EXCEPT !.blocked = FALSE]
  /\ Say(<<"VerifyFailedContinue">>)
  /\ budget' = Raised(u)
  /\ UNCHANGED <<pc, progress, seen, writes, world, verified>>

\* blockFinishDueToVerify: the verify command failed at the last round.
VerifyBlocks(u) ==
  /\ Responds(u) /\ Answers # {}
  /\ gate.blocked
  /\ gate' = [gate EXCEPT !.blocked = FALSE, !.verifiedOnce = FALSE]
  /\ Say(<<"VerifyFailedContinue">>)
  /\ budget' = Raised(u)
  /\ UNCHANGED <<pc, progress, seen, writes, world, verified>>

VerifyWanted == ~SkipVerify \/ (VerifyOnZeroWrites /\ writes = 0)

MustVerify == VerifyWanted /\ ~gate.verifiedOnce

\* The self-check round; `out' is the verify command's result.
VerifyRound(u, out) ==
  /\ Responds(u) /\ Answers # {}
  /\ ~gate.blocked /\ MustVerify
  /\ out \in (IF HasVerify THEN {"ok", "failed"} ELSE {"none"})
  /\ gate' = [gate EXCEPT !.verifiedOnce = TRUE, !.blocked = (out = "failed")]
  /\ verified' = [out |-> out, current |-> TRUE]
  /\ Say(<<"Verify">> \o (IF Notice(u) = "none" THEN <<>> ELSE <<Notice(u)>>))
  /\ budget' = Raised(u)
  /\ UNCHANGED <<pc, progress, seen, writes, world>>

WritesOwed ==
  VerifyOnZeroWrites /\ writes = 0 /\ gate.zeroWrites < MaxZeroWriteRefusals

RefuseZeroWrites(u) ==
  /\ Responds(u) /\ Answers # {}
  /\ ~gate.blocked /\ ~MustVerify /\ WritesOwed
  /\ gate' = [gate EXCEPT !.zeroWrites = @ + 1]
  /\ Say(<<"AnnouncedNotWritten">>)
  /\ budget' = Raised(u)
  /\ UNCHANGED <<pc, progress, seen, writes, world, verified>>

RetryEmpty(u) ==
  /\ Responds(u) /\ "empty" \in Replies
  /\ ~gate.blocked /\ ~MustVerify /\ ~WritesOwed
  /\ ~gate.emptyRetried
  /\ gate' = [gate EXCEPT !.emptyRetried = TRUE]
  /\ Say(<<>>)
  /\ budget' = Raised(u)
  /\ UNCHANGED <<pc, progress, seen, writes, world, verified>>

Finish(u, r) ==
  /\ Responds(u) /\ r \in Answers
  /\ ~gate.blocked /\ ~MustVerify /\ ~WritesOwed
  /\ r = "empty" => gate.emptyRetried
  /\ pc' = "finished"
  /\ Say(<<>>)
  /\ budget' = Raised(u)
  /\ UNCHANGED <<progress, gate, seen, writes, world, verified>>

-----------------------------------------------------------------------------
(***************************************************************************)
(* A response with tool calls: the guards, the calls, what they changed.   *)
(***************************************************************************)
Requests == UNION {[1..n -> Calls] : n \in 1..MaxCalls}

\* What a call may do: `changed' says whether it touched the workspace and
\* `muts' what the DELEGATE header of a subagent's result reports (0 or 1).  A command
\* or a subagent may have written before it failed, and a subagent's own commands are
\* not counted as its writes; what the process a probe started does is Disturbed's.
Outcome == [ok : BOOLEAN, changed : BOOLEAN, muts : {0, 1}]

Outcomes(c) ==
  {o \in Outcome :
     /\ o.muts = 1 => c.tool = "delegate" /\ o.ok /\ o.changed
     /\ c.tool \in {"read", "probe"} => ~o.changed
     /\ c.tool \in MutatingTools /\ o.ok => o.changed}

\* Mutant: three attempts are run, the fourth is refused.
RefusedLate(c) ==
  \/ c.tool = "write" /\ c.path \in seen.wrote
  \/ seen.failed[c] >= MaxIdenticalAttempts
  \/ c.tool \in Idempotent /\ c \in seen.idempotent

\* The repeat guards, evaluated before any call of the step runs.
Refused(c) ==
  \/ c.tool = "write" /\ c.path \in seen.wrote
  \/ seen.failed[c] >= MaxIdenticalAttempts - 1
  \/ c.tool \in Idempotent /\ c \in seen.idempotent

Executed(calls) == {i \in DOMAIN calls : ~Refused(calls[i])}

Succeeded(calls, out) == {i \in Executed(calls) : out[i].ok}

\* The files of Paths that exist after the first n calls: those that were written, or
\* were there, and have not been moved away since.
Files(calls, out, n) ==
  LET did(tool, p) == {i \in Succeeded(calls, out) :
                         i <= n /\ calls[i].tool = tool /\ calls[i].path = p}
  IN  {p \in Paths :
         \/ p \in onDisk /\ did("move", p) = {}
         \/ \E i \in did("write", p) : \A j \in did("move", p) : j < i}

Possible(calls, out) ==
  \A i \in DOMAIN calls :
    /\ out[i] \in Outcomes(calls[i])
    /\ calls[i].tool \in {"edit", "move"} /\ out[i].ok
         => calls[i].path \in Files(calls, out, i - 1)

\* mutatingSucceeded: the file tools' successes and what subagents report.
Mutations(calls, out) ==
  Cardinality({i \in Succeeded(calls, out) :
                 calls[i].tool \in MutatingTools \/ out[i].muts = 1})

\* failedCalls of one call after the step's results, in the calls' order.
Failures(calls, out, c) ==
  LET mine == {i \in Executed(calls) : calls[i] = c}
      ok   == mine \cap Succeeded(calls, out)
  IN  (IF ok = {} THEN seen.failed[c] ELSE 0)
        + Cardinality({i \in mine \ ok : \A j \in ok : j < i})

\* Mutant: a subagent's writes leave the reads valid.
InvalidatesOwn(calls, out) ==
  \E i \in Succeeded(calls, out) : calls[i].tool \notin Concurrent

Invalidates(calls, out) ==
  \/ \E i \in Succeeded(calls, out) : calls[i].tool \notin Concurrent
  \/ Mutations(calls, out) > 0

Remembered(calls, out) ==
  LET ok == Succeeded(calls, out)
  IN  [idempotent |->
         IF Invalidates(calls, out) THEN {}
         ELSE seen.idempotent
                \union {calls[i] : i \in {j \in ok : calls[j].tool \in Idempotent}},
       wrote |->
         seen.wrote
           \union {calls[i].path : i \in {j \in ok : calls[j].tool = "write"}},
       failed |->
         IF Invalidates(calls, out) THEN [c \in Calls |-> 0]
         ELSE [c \in Calls |-> Failures(calls, out, c)]]

-----------------------------------------------------------------------------
(***************************************************************************)
(* Judging the step: trackSingleToolLoop, the stuck counter, interject.    *)
(***************************************************************************)

\* callSignature: the calls as a bag, order independent.
Signature(calls) ==
  [c \in {calls[i] : i \in DOMAIN calls} |->
     Cardinality({i \in DOMAIN calls : calls[i] = c})]

Repeats(calls) == Signature(calls) = stall.signature

Single(calls) == IF Len(calls) = 1 THEN calls[1].tool ELSE "none"

SameTool(calls) ==
  IF Len(calls) # 1 THEN 0
  ELSE IF calls[1].tool = stall.single THEN stall.sameTool + 1 ELSE 1

Judged(calls, out) ==
  LET mutated    == Mutations(calls, out) > 0
      progressed == Succeeded(calls, out) # {}
  IN  [stall EXCEPT
         !.signature   = Signature(calls),
         !.exploratory = IF mutated THEN 0 ELSE @ + 1,
         !.single      = IF mutated THEN "none" ELSE Single(calls),
         !.sameTool    = IF mutated THEN 0 ELSE SameTool(calls),
         !.stuck       = IF progressed /\ ~Repeats(calls) THEN 0 ELSE @ + 1]

\* Mutant: after the first, the loop stops talking.
StuckNudgeOnce(s, repeat) ==
  CASE s.stuckNudges = 0 -> IF repeat THEN "StuckRepeating" ELSE "StuckFailing"
    [] OTHER             -> "none"

StuckNudge(s, repeat) ==
  CASE s.stuckNudges = 0 -> IF repeat THEN "StuckRepeating" ELSE "StuckFailing"
    [] s.stuckNudges = 1 -> "StuckEscalated"
    [] OTHER             -> "none"

\* Mutant: the latch of the tool-loop nudge is missing.
InToolLoopAgain(s) == s.sameTool >= MaxSameToolSteps

IsStuck(s)    == s.stuck >= MaxStuckSteps
InToolLoop(s) == s.sameTool >= MaxSameToolSteps /\ ~s.toolLoopWarned
IsFatigued(s) == s.exploratory >= MaxExploratorySteps /\ ~s.searchFatigueWarned

Utter(msg) == IF msg = "none" THEN <<>> ELSE <<msg>>

\* Mutant: the notice that lost its slot is not kept.
QueueForgetful(notice) == notice

\* The notice waiting for a free slot.
Queue(notice) == IF notice = "none" THEN budget.pending ELSE notice

\* interject: at most one thing, by severity; s is the judged state.
Interject(s, repeat, u) ==
  LET pending == Queue(Notice(u))
      kept    == [warned |-> Warned(u), pending |-> pending]
  IN  \/ /\ IsStuck(s)
         /\ stall' = [s EXCEPT !.stuck = 0, !.signature = <<>>,
                               !.stuckNudges = @ + 1]
         /\ budget' = kept
         /\ Say(Utter(StuckNudge(s, repeat)))
      \/ /\ ~IsStuck(s) /\ InToolLoop(s)
         /\ stall' = [s EXCEPT !.toolLoopWarned = TRUE]
         /\ budget' = kept
         /\ Say(<<"ToolLoop">>)
      \/ /\ ~IsStuck(s) /\ ~InToolLoop(s) /\ IsFatigued(s)
         /\ stall' = [s EXCEPT !.searchFatigueWarned = TRUE]
         /\ budget' = kept
         /\ Say(<<"SearchFatigue">>)
      \/ /\ ~IsStuck(s) /\ ~InToolLoop(s) /\ ~IsFatigued(s)
         /\ stall' = s
         /\ budget' = [kept EXCEPT !.pending = "none"]
         /\ Say(Utter(pending))

\* A change the loop is told of: a command or a file tool that changed something
\* says that it succeeded, or a subagent counts its writes.
Told(calls, out) ==
  \E i \in Succeeded(calls, out) :
    out[i].changed /\ (calls[i].tool \in Concurrent => out[i].muts = 1)

CallTools(u, calls, out) ==
  /\ Responds(u)
  /\ Possible(calls, out)
  /\ writes' = writes + Mutations(calls, out)
  /\ seen' = Remembered(calls, out)
  /\ Interject(Judged(calls, out), Repeats(calls), u)
  /\ Observe(Succeeded(calls, out) = {} \/ Repeats(calls))
  /\ LET changed == \E i \in Executed(calls) : out[i].changed
         reads   == {calls[i] : i \in {j \in Succeeded(calls, out) :
                                          calls[j].tool \in Idempotent}}
     IN  /\ fresh' = IF changed THEN {} ELSE fresh \union reads
         /\ missed' = IF Told(calls, out) THEN {}
                      ELSE (missed \union fresh \union reads) \ fresh'
         /\ verified' = [verified EXCEPT !.current = @ /\ ~changed]
  /\ onDisk' = Files(calls, out, Len(calls))
  /\ written' = [p \in Paths |->
                   written[p] + Cardinality({i \in Succeeded(calls, out) :
                                               calls[i] = [tool |-> "write", path |-> p]})]
  /\ UNCHANGED <<pc, gate>>

\* A process that a command or start_background left, in this run or one before it,
\* changes the files.
Disturbed ==
  /\ pc = "running"
  /\ fresh' = {} /\ missed' = missed \union fresh
  /\ onDisk' \in SUBSET Paths
  /\ verified' = [verified EXCEPT !.current = FALSE]
  /\ UNCHANGED <<pc, step, progress, gate, seen, budget, writes, written, said, heard>>

-----------------------------------------------------------------------------
Speak(u) ==
  \/ Truncated(u)
  \/ Leaked(u)
  \/ VerifyBlocks(u)
  \/ \E out \in {"ok", "failed", "none"} : VerifyRound(u, out)
  \/ RefuseZeroWrites(u)
  \/ RetryEmpty(u)
  \/ \E r \in Answers : Finish(u, r)

Act(u) ==
  \E calls \in Requests : \E out \in [1..Len(calls) -> Outcome] :
    CallTools(u, calls, out)

Next ==
  \/ ChatFails
  \/ OutOfSteps
  \/ Disturbed
  \/ \E u \in Usages : Speak(u) \/ Act(u)

Spec == Init /\ [][Next]_vars

-----------------------------------------------------------------------------
(***************************************************************************)
(* Properties.                                                             *)
(***************************************************************************)
Gate == [verifiedOnce : BOOLEAN, blocked : BOOLEAN, zeroWrites : Nat,
         emptyRetried : BOOLEAN]

Bags == UNION {[D -> 0..MaxCalls] : D \in SUBSET Calls}

Stall == [stuck : Nat, stuckNudges : Nat, signature : Bags, sameTool : Nat,
          single : Tools \union {"none"}, exploratory : Nat,
          toolLoopWarned : BOOLEAN, searchFatigueWarned : BOOLEAN]

Seen == [idempotent : SUBSET Calls, wrote : SUBSET Paths, failed : [Calls -> Nat]]

\* The type of every variable (runState).
TypeOK ==
  /\ pc \in {"running", "finished", "exhausted", "broken"}
  /\ step \in 0..MaxSteps /\ writes \in Nat
  /\ stall \in Stall
  /\ gate \in Gate /\ seen \in Seen
  /\ budget \in [warned : {0, 75, 90}, pending : Notices]
  /\ fresh \subseteq Calls /\ missed \subseteq Calls /\ onDisk \subseteq Paths
  /\ written \in [Paths -> Nat]
  /\ verified \in [out : {"none", "ok", "failed"}, current : BOOLEAN]
  /\ said \in Seq(Nudges \union Corrections)
  /\ heard \in [Nudges -> Nat] /\ quiet \in Nat

\* "After the first, the wording escalates; after the second, the loop stops talking":
\* no MaxStuckSteps steps that got nowhere - refused, failed, repeated, truncated or
\* leaked ones in any order - pass without the model being told that it is stuck,
\* whatever competes for the slot, until it was told so in the escalated words.
StuckIsSaid == quiet < MaxStuckSteps \/ heard["StuckEscalated"] = 1

\* The latches keep each advisory to once per run, whatever takes its slot, and
\* after being stuck for the second time the loop stops talking about it.
AdvisoriesOnce ==
  \A n \in {"ToolLoop", "SearchFatigue", "BudgetNotice", "BudgetWarning",
            "StuckRepeating", "StuckEscalated"} : heard[n] <= 1

\* A budget notice that lost its slot queues: it waits until it is said or a
\* higher one takes its place.
PendingSurvives ==
  [][budget.pending # "none" /\ pc' = "running"
       => \/ budget'.pending \in {budget.pending, "BudgetWarning"}
          \/ said' \in {<<budget.pending>>, <<"BudgetWarning">>}]_vars

\* A run finishes only when its checks let it: not while the newest result of
\* the verify command is a failure, and not with nothing written when writes
\* are expected unless every refusal has been used up.
FinishIsEarned ==
  pc = "finished" =>
    /\ ~SkipVerify => gate.verifiedOnce /\ verified.out # "failed"
    /\ VerifyOnZeroWrites /\ writes = 0 => gate.zeroWrites = MaxZeroWriteRefusals

\* A change the loop was told of ends every refusal of a read: the reads that are
\* refused as unchanged are those the workspace would still answer in the same way,
\* or those that a failing command, a subagent that counted nothing or a process in
\* the background has made stale since then.
ToldChangesEndRefusals == seen.idempotent \subseteq fresh \union missed

\* "the call executes twice and the third attempt is refused without running", and
\* "A second write_file to the same path is refused": a call that keeps failing
\* while nothing changes, and a path that was written, are not run again, but for
\* the calls of one response, which are let through together.
RepeatsAreRefused ==
  /\ \A c \in Calls : seen.failed[c] <= MaxIdenticalAttempts - 2 + MaxCalls
  /\ \A p \in Paths : written[p] <= MaxCalls
=============================================================================
