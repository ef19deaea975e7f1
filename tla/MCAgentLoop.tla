----------------------------- MODULE MCAgentLoop -----------------------------
(***************************************************************************)
(* AgentLoop on small instances: the tool calls a run offers the model,    *)
(* and what comments and documents say of the loop that runs refute.       *)
(***************************************************************************)
EXTENDS AgentLoop

Call(t, p) == [tool |-> t, path |-> p]

\* Reads and writes next to a command and a subagent.
BatchCalls == {Call("read", "a"), Call("write", "a"), Call("shell", "a"),
               Call("delegate", "a")}

\* A file edited, and a server started and polled.
EditCalls == {Call("edit", "a"), Call("probe", "a")}

-----------------------------------------------------------------------------
\* "it has to queue rather than be dropped when something more urgent takes the
\* slot - otherwise the run never hears about it again" (agent.go, interject):
\* a threshold that was crossed has been spoken of or is queued.
BudgetIsHeard ==
  /\ budget.warned = 75 => heard["BudgetNotice"] = 1 \/ budget.pending = "BudgetNotice"
  /\ budget.warned = 90 => heard["BudgetWarning"] = 1 \/ budget.pending = "BudgetWarning"

\* "At most one nudge reaches the model per step" (docs/conventions.md).
OneNudgePerStep == Len(said) <= 1

\* "What it must not do is say the same thing twice" (agent.go, interject).
NotTheSameTwice == heard["StuckFailing"] <= 1

\* "nothing has changed since - its result is still valid" (agent.go, the refusal
\* of a repeated read): a read that is refused would be answered in the same way.
RefusedReadsAreUnchanged == seen.idempotent \subseteq fresh

\* "it is on disk" (agent.go, the refusal of a second write_file).
WrittenIsOnDisk == seen.wrote \subseteq onDisk

\* "so the finish is gated on ground truth rather than a claim" (roles.go,
\* Interactive): a finished run's workspace is the one that was verified.
FinishIsGroundTruth ==
  pc = "finished" /\ HasVerify /\ ~SkipVerify => verified = [out |-> "ok", current |-> TRUE]
=============================================================================
