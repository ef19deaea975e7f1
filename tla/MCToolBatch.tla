----------------------------- MODULE MCToolBatch -----------------------------
(***************************************************************************)
(* ToolBatch on small instances, and what comments say of the schedule     *)
(* that runs refute.                                                       *)
(***************************************************************************)
EXTENDS ToolBatch

Running == {i \in Indices : call[i] = "running"}

\* "they run before anything else in the step starts" (tool.go, Exclusive): a
\* Concurrent call starts only when no Exclusive call is still to come.
ExclusiveRunsFirst ==
  \A i \in Running : kind[i] \in Concurrent =>
    \A j \in ToRun(Exclusive) : call[j] = "returned"

\* "two reads can't race a write of the same path either way, in any order"
\* (agent.go, run): while a write is under way, here or in a subagent, no other
\* tool that touches files is.
Touching(i) ==
  IF kind[i] = "delegate" THEN sub[i].tool
  ELSE IF kind[i] = "read" THEN "read" ELSE "write"

NothingRacesAWrite ==
  \A i, j \in Running : i # j /\ Touching(i) = "write" => Touching(j) = "none"

\* "its last lines carry how it failed, and the failure is usually the point"
\* (shell.go, shellMaxBytes): the model sees what a command printed.
OutputIsDelivered ==
  \A i \in DOMAIN history :
    kind[i] = "shell" /\ i \notin refused => history[i].content = "output"

\* "a check that hangs is a failed check, not a stuck mission", by a bound "the
\* same way tools.RunShell bounds the model's own commands" (checks.go): the time
\* limit ends a command, whatever it has started.
TimeLimitEndsTheStep == <>(place = "answered")
=============================================================================
