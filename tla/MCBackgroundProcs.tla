-------------------------- MODULE MCBackgroundProcs --------------------------
(***************************************************************************)
(* BackgroundProcs on small instances, and what comments say of the        *)
(* teardown that runs refute.                                              *)
(***************************************************************************)
EXTENDS BackgroundProcs

\* "StopAll kills every process this set ever started" (background.go): once
\* the signal goroutine's StopAll is through, none of them is alive.
StopAllLeavesNothing == ended = "signal" => \A c \in Calls : ~Survives(c)

\* "os.Exit skips deferred calls, so this path cleans up for itself" (main.go):
\* an interrupt does not leave running what the agent had started and whose start
\* was over.
InterruptCleansUp ==
  signal /\ ~Up => \A c \in Calls : stage[c] = "returned" => ~Survives(c)
=============================================================================
