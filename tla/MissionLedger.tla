---------------------------- MODULE MissionLedger ----------------------------
(***************************************************************************)
(* What mission.json promises whoever reads it after a stop at any moment: *)
(* the phase moves along the mission's graph and a terminal phase is       *)
(* final; what has been executed is frozen (a settled subtask keeps its    *)
(* status and its number of attempts, no subtask ever disappears or goes   *)
(* back); subtasks are added only by the first plan and by replans, and    *)
(* every replan is paid for out of MaxReplans.                             *)
(***************************************************************************)
EXTENDS Integers, Sequences

CONSTANT MaxReplans

VARIABLES phase, subs, replans

ledger == <<phase, subs, replans>>

Edges == {<<"explore", "plan">>, <<"plan", "execute">>, <<"execute", "verify">>,
          <<"verify", "execute">>, <<"verify", "done">>,
          <<"plan", "failed">>, <<"execute", "failed">>, <<"verify", "failed">>}

Init == phase = "explore" /\ subs = <<>> /\ replans = 0

PhaseMoves == phase' = phase \/ <<phase, phase'>> \in Edges

\* How one subtask's record may develop in one step.
Develops(s, t) ==
  \/ t = s
  \/ s.status \in {"pending", "running"}
     /\ t.status \in {"running", "done", "failed"}
     /\ s.attempts <= t.attempts

HistoryFrozen ==
  /\ Len(subs) <= Len(subs')
  /\ \A i \in 1..Len(subs) : Develops(subs[i], subs'[i])

\* At most one subtask is being executed.
OneAtATime ==
  \A i, j \in 1..Len(subs) :
    subs[i] # subs'[i] /\ subs[j] # subs'[j] => i = j

GrowthIsPaidFor ==
  \/ replans' = replans + 1 /\ replans' <= MaxReplans
  \/ replans' = replans /\ Len(subs') = Len(subs)
  \/ replans' = replans /\ subs = <<>> /\ phase = "plan"

\* Only a plan sends a verified mission back to work.
BackToWork == phase = "verify" /\ phase' = "execute" => replans' = replans + 1

Next ==
  /\ phase \notin {"done", "failed"}
  /\ PhaseMoves /\ HistoryFrozen /\ OneAtATime /\ GrowthIsPaidFor /\ BackToWork

Spec == Init /\ [][Next]_ledger
=============================================================================
