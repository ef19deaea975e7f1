---------------------------- MODULE MCEvalSweep ----------------------------
(***************************************************************************)
(* EvalSweep on a small instance, and what comments say of it that runs    *)
(* refute.                                                                 *)
(***************************************************************************)
EXTENDS EvalSweep

Flag(role, force, kind, require) ==
  [role |-> role, force |-> force, kind |-> kind, require |-> require, grammar |-> TRUE]

SomeFlags == {Flag("eval", FALSE, "llama", "any"), Flag("eval", FALSE, "kobold", "w1"),
              Flag("eval", TRUE, "kobold", "any"), Flag("agent", FALSE, "llama", "any")}

Server(kind, weights, n) == [kind |-> kind, weights |-> weights, window |-> n]

SomeServers == {Server("kobold", "w1", 8), Server("llama", "w2", 8),
                Server("llama", "w1", 0), Server("down", "none", 0)}

-----------------------------------------------------------------------------
\* "A pass rate without the model that produced it is worse than no number" (main.go):
\* an eval that measures knows the model, while its server stands still.
ModelIsRecorded ==
  \A p \in Procs :
    Sweeping(p) /\ pc[p] = "measure" /\ p \notin disturbed => known[p] # Unknown

\* "takeLock stops two evals sharing one backend" (lock.go).
NeverTwoEvals == \A p, q \in Procs : Sweeping(p) /\ Sweeping(q) => p = q

\* "the backend changed under us" is what main's checks are for: koboldcpp "was
\* restarted and came back holding different weights" (main.go); a sweep's answers
\* all come from the model it recorded.
OneModelPerSweep == \A p \in Procs : flag[p] # NoFlag => "weights" \notin measured[p]
=============================================================================
