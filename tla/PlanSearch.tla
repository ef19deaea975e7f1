----------------------------- MODULE PlanSearch -----------------------------
(***************************************************************************)
(* How a mission gets a plan: generateSubtasks and parseAndValidate of     *)
(* internal/mission/plan.go, behind both GeneratePlan and GenerateReplan.  *)
(* Several candidates are sampled, validated and scored, the best is kept; *)
(* when none is valid one repair request carries the errors back.          *)
(*                                                                         *)
(* What the model answers is a sequence of subtasks, <<>> when it is not   *)
(* JSON or has none.  Of a text only what the rules look at is kept: a     *)
(* command is the class the predicates on it put it in, `complete' says    *)
(* that title, goal and acceptance are there and `readish' that the goal   *)
(* is about reading.  The score is an exact fraction where the code has a  *)
(* float64.                                                                *)
(***************************************************************************)
EXTENDS Integers, Sequences, FiniteSets

CONSTANTS
  Answers,        \* what the model may answer
  Candidates,     \* PlanRequest.Candidates, or defaultPlanCandidates
  MaxSubtasks,    \* the most subtasks of a valid plan (8)
  Norm,           \* normalizePlanPath on the paths the model writes
  Existing, Dirs, \* the normalised paths of files, of directories
  Needle,         \* what trimming quotes and blanks leaves of a `contains'
  Distinctive,    \* the needles of three characters or more
  Vacuous, Mutating, Unsatisfiable, Missing, Strong   \* classes of commands

CheckTypes == {"", "none", "file_exists", "content_contains", "shell", "http"}

ASSUME RequestAssumption ==
  /\ Candidates \in Nat \ {0} /\ MaxSubtasks \in Nat \ {0}
  /\ Existing \cap Dirs = {} /\ "" \notin Existing
  /\ "" \in DOMAIN Norm /\ Norm[""] = ""
  /\ \A a \in Answers : a \in Seq([complete : BOOLEAN, readish : BOOLEAN,
       status : {"pending", "done"}, hints : Seq(DOMAIN Norm),
       check : [type : STRING, cmd : STRING, path : DOMAIN Norm,
                contains : DOMAIN Needle, url : STRING]])

VARIABLES
  named,     \* how many files the task names (FileMentions)
  answers,   \* the answers so far
  best,      \* found, best, bestWarns; from: the answer it is made of
  last,      \* the answer lastRaw and lastErrs are of, 0 for none
  place,     \* "sampling", "repair", "done"
  outcome    \* "none", "planned", "outage" (errInfra), "rejected"

vars == <<named, answers, best, last, place, outcome>>

NoPlan == [found |-> FALSE, plan |-> <<>>, warns |-> {}, from |-> 0]

-----------------------------------------------------------------------------
(***************************************************************************)
(* One subtask.                                                            *)
(***************************************************************************)
Hints(s) == {s.hints[k] : k \in DOMAIN s.hints}

AllHintsExist(s) == s.hints # <<>> /\ \A p \in Hints(s) : Norm[p] \in Existing

\* The harness-owned fields are overwritten.
Owned(s) == [s EXCEPT !.status = "pending"]

\* A subtask that only reads.
ReadOnly(s) ==
  /\ AllHintsExist(s)
  /\ \/ s.readish
     \/ s.check.type \in {"", "none"}
     \/ s.check.type = "file_exists" /\ Norm[s.check.path] \in Existing

\* firstCheckablePath: the check's own path, else the first declared output.
Watchable(s) ==
  LET paths  == <<s.check.path>> \o s.hints
      named_ == {k \in DOMAIN paths : paths[k] # ""}
  IN  IF named_ = {} THEN "" ELSE paths[CHOOSE k \in named_ : \A j \in named_ : k <= j]

Check(type, path) ==
  [type |-> type, cmd |-> "", path |-> path, contains |-> "", url |-> ""]

\* The predicates on a command: it cannot fail, it does the work itself, it cannot
\* pass, this host does not have it.
vacuousShellCheck(cmd)       == cmd \in Vacuous
mutatingShellCheck(cmd)      == cmd \in Mutating
unsatisfiableShellCheck(cmd) == cmd \in Unsatisfiable
missingCommand(cmd)          == cmd \in Missing

Unrunnable(s) == s.check.type = "shell" /\ missingCommand(s.check.cmd)

\* repairUnrunnableCheck.
Repaired(s) ==
  LET p == Watchable(s)
  IN  IF ~Unrunnable(s) THEN s
      ELSE [s EXCEPT !.check = Check(IF p = "" THEN "none" ELSE "file_exists", p)]

\* validateCheck trims the needle where it stands, and says nothing of it ...
Unquoted(s) ==
  IF s.check.type = "content_contains"
    THEN [s EXCEPT !.check = [s.check EXCEPT !.contains = Needle[s.check.contains]]]
    ELSE s

\* ... and finds this wrong.
CheckIsWrong(s) ==
  LET c == s.check
      p == Norm[c.path]
  IN  CASE c.type = "none"             -> s.hints # <<>> /\ ~AllHintsExist(s)
        [] c.type = "file_exists"      -> p = "" \/ p \in Existing \union Dirs
        [] c.type = "content_contains" -> p = "" \/ p \in Dirs \/ c.contains \notin Distinctive
        [] c.type = "shell" ->
             \/ c.cmd = "" \/ vacuousShellCheck(c.cmd) \/ mutatingShellCheck(c.cmd)
             \/ unsatisfiableShellCheck(c.cmd) \/ missingCommand(c.cmd)
        [] c.type = "http"  -> c.url = ""
        [] OTHER            -> TRUE

Fingerprint(c) == <<c.type, c.cmd, Norm[c.path], c.contains, c.url>>

-----------------------------------------------------------------------------
(***************************************************************************)
(* One plan.                                                               *)
(***************************************************************************)
\* What is returned of an answer that is valid.
Plan(a) == [i \in DOMAIN a |-> Unquoted(Repaired(Owned(a[i])))]

\* Mutant: repeated checks are looked for among the checks as written.
SameCheckAsWritten(a, i) ==
  \E j \in 1..(i - 1) : Fingerprint(a[j].check) = Fingerprint(a[i].check)

\* A check an earlier subtask has already.
SameCheck(a, i) ==
  LET c == Plan(a)[i].check
  IN  /\ c.type \notin {"", "none"}
      /\ \E j \in 1..(i - 1) : Fingerprint(Plan(a)[j].check) = Fingerprint(c)

\* Mutant: checks are validated before the ones that cannot run are replaced.
SubtaskErrorsOfWritten(a, i) ==
  {e \in {"incomplete", "read-only", "check", "same check"} :
     CASE e = "incomplete" -> ~a[i].complete
       [] e = "read-only"  -> ReadOnly(a[i])
       [] e = "check"      -> ~Unrunnable(a[i]) /\ CheckIsWrong(a[i])
       [] e = "same check" -> SameCheck(a, i)}

\* The read-only rule sees the check the model wrote, the others its repair.
SubtaskErrors(a, i) ==
  {e \in {"incomplete", "read-only", "check", "same check"} :
     CASE e = "incomplete" -> ~a[i].complete
       [] e = "read-only"  -> ReadOnly(a[i])
       [] e = "check"      -> CheckIsWrong(Plan(a)[i])
       [] e = "same check" -> SameCheck(a, i)}

TooCoarse(a) == Len(a) = 1 /\ named >= 2

\* parseAndValidate finds nothing wrong.
Valid(a) ==
  /\ a # <<>> /\ Len(a) <= MaxSubtasks
  /\ \A i \in DOMAIN a : SubtaskErrors(a, i) = {}
  /\ ~TooCoarse(a)

\* What the human is told about the plan: replaced checks and new files.
Warnings(a) ==
  {<<i, "check">> : i \in {i \in DOMAIN a : Unrunnable(a[i])}}
    \union UNION {{<<i, p>> : p \in {p \in Hints(a[i]) : Norm[p] \notin Existing}}
                  : i \in DOMAIN a}

CheckStrength(c) ==
  CASE c.type = "shell"                   -> IF c.cmd \in Strong THEN 3 ELSE 2
    [] c.type = "content_contains"        -> 2
    [] c.type \in {"file_exists", "http"} -> 1
    [] OTHER                              -> 0

\* The sum of the strengths: each counts once for every level it reaches.
Strength(p) ==
  LET AtLeast(level) == Cardinality({i \in DOMAIN p : CheckStrength(p[i].check) >= level})
  IN  AtLeast(1) + AtLeast(2) + AtLeast(3)

\* The paths that are named more than once, by one subtask or by several.
Mentions(p, path) ==
  {m \in UNION {{i} \X DOMAIN p[i].hints : i \in DOMAIN p} :
     Norm[p[m[1]].hints[m[2]]] = path}

Overlaps(p) ==
  Cardinality({path \in {Norm[r] : r \in DOMAIN Norm} \ {""} :
                 Cardinality(Mentions(p, path)) > 1})

\* scorePlan(p) > scorePlan(q): the mean strength less the overlaps.
Better(p, q) ==
  (Strength(p) - Overlaps(p) * Len(p)) * Len(q) >
  (Strength(q) - Overlaps(q) * Len(q)) * Len(p)

-----------------------------------------------------------------------------
(***************************************************************************)
(* generateSubtasks.                                                       *)
(***************************************************************************)
Init ==
  /\ named \in {1, 2}
  /\ answers = <<>> /\ best = NoPlan /\ last = 0
  /\ place = "sampling" /\ outcome = "none"

Ends(how) == place' = "done" /\ outcome' = how

\* Mutant: a plan as good as the best one so far takes its place.
KeepNewestOfBest(a) ==
  LET new == [found |-> TRUE, plan |-> Plan(a), warns |-> Warnings(a),
              from |-> Len(answers) + 1]
  IN  best' = IF ~best.found \/ ~Better(best.plan, new.plan) THEN new ELSE best

\* Mutant: the warnings are those of the newest valid candidate.
KeepNewestWarnings(a) ==
  LET new == [found |-> TRUE, plan |-> Plan(a), warns |-> Warnings(a),
              from |-> Len(answers) + 1]
  IN  best' = IF ~best.found \/ Better(new.plan, best.plan) THEN new
              ELSE [best EXCEPT !.warns = new.warns]

Keep(a) ==
  LET new == [found |-> TRUE, plan |-> Plan(a), warns |-> Warnings(a),
              from |-> Len(answers) + 1]
  IN  best' = IF ~best.found \/ Better(new.plan, best.plan) THEN new ELSE best

Sample(a) ==
  /\ place = "sampling" /\ Len(answers) < Candidates
  /\ answers' = Append(answers, a)
  /\ \/ Valid(a) /\ Keep(a) /\ UNCHANGED last
     \/ ~Valid(a) /\ last' = Len(answers) + 1 /\ UNCHANGED best
  /\ UNCHANGED <<named, place, outcome>>

\* Mutant: a dead backend ends the search whatever it has found.
SampleFailsAnyway ==
  /\ place = "sampling" /\ Len(answers) < Candidates
  /\ Ends("outage")
  /\ UNCHANGED <<named, answers, best, last>>

\* A backend that died mid-search still leaves a usable plan.
SampleFails ==
  /\ place = "sampling" /\ Len(answers) < Candidates
  /\ Ends(IF best.found THEN "planned" ELSE "outage")
  /\ UNCHANGED <<named, answers, best, last>>

Sampled ==
  /\ place = "sampling" /\ Len(answers) = Candidates
  /\ IF best.found THEN Ends("planned")
                   ELSE place' = "repair" /\ UNCHANGED outcome
  /\ UNCHANGED <<named, answers, best, last>>

Repair(a) ==
  /\ place = "repair"
  /\ answers' = Append(answers, a)
  /\ \/ Valid(a) /\ Keep(a) /\ Ends("planned")
     \/ ~Valid(a) /\ UNCHANGED best /\ Ends("rejected")
  /\ UNCHANGED <<named, last>>

RepairFails ==
  /\ place = "repair"
  /\ Ends("outage")
  /\ UNCHANGED <<named, answers, best, last>>

Next ==
  \/ \E a \in Answers : Sample(a) \/ Repair(a)
  \/ SampleFails
  \/ Sampled
  \/ RepairFails

Spec == Init /\ [][Next]_vars

-----------------------------------------------------------------------------
(***************************************************************************)
(* Properties.                                                             *)
(***************************************************************************)
\* The type of every variable; a plan carries nothing the model may not set.
TypeOK ==
  /\ named \in {1, 2} /\ Len(answers) <= Candidates + 1
  /\ \A i \in DOMAIN answers : answers[i] \in Answers
  /\ best.found \in BOOLEAN /\ best.from \in 0..Len(answers)
  /\ \A i \in DOMAIN best.plan : best.plan[i].status = "pending"
  /\ best.warns \subseteq (1..MaxSubtasks) \X ({"check"} \union DOMAIN Norm)
  /\ last \in 0..Candidates
  /\ place \in {"sampling", "repair", "done"}
  /\ outcome \in {"none", "planned", "outage", "rejected"}

\* The plan that is returned is the first of the best valid candidates, whatever
\* order they came in and wherever the search was cut short.
BestIsKept ==
  outcome = "planned" =>
    /\ Valid(answers[best.from]) /\ best.plan = Plan(answers[best.from])
    /\ \A i \in DOMAIN answers : Valid(answers[i]) =>
         /\ ~Better(Plan(answers[i]), best.plan)
         /\ Better(best.plan, Plan(answers[i])) \/ best.from <= i

\* No valid plan is wasted: the search is an outage or a rejection only when not
\* one answer was valid, and it rejects only after the repair request.
NothingIsWasted ==
  /\ outcome \in {"outage", "rejected"} => \A i \in DOMAIN answers : ~Valid(answers[i])
  /\ outcome = "rejected" => Len(answers) = Candidates + 1

\* What the validator knows to be no evidence is not in the plan, not even as the
\* replacement of another check: a file that exists, a directory, a command that
\* cannot fail, cannot pass, is not there or is seen to act, and no check at all for
\* a subtask that names files.  It knows nothing of what a file contains and who
\* answers a request: MCPlanSearch.
NoBlindChecks ==
  \A i \in DOMAIN best.plan :
    LET c == best.plan[i].check
    IN  /\ c.type = "none" => best.plan[i].hints = <<>>
        /\ c.type = "file_exists" => Norm[c.path] \notin Existing
        /\ c.type \in {"file_exists", "content_contains"} => Norm[c.path] \notin Dirs
        /\ c.type = "shell" => c.cmd \notin Vacuous \union Mutating \union Unsatisfiable \union Missing

\* No two subtasks of the plan rest on the same check, although replacing checks
\* can make two different ones the same.
ChecksDiffer ==
  \A i, j \in DOMAIN best.plan :
    LET c == best.plan[i].check
    IN  i # j /\ c.type # "none" => Fingerprint(c) # Fingerprint(best.plan[j].check)

\* What the human approves is what was announced: every check that was replaced,
\* which is every one that is not the one the model wrote but for the quotes of its
\* needle, and every file that is to be new, has its warning.
ChangesAreAnnounced ==
  outcome = "planned" =>
    \A i \in DOMAIN best.plan :
      LET written == answers[best.from][i]
          c       == best.plan[i].check
      IN  /\ c \notin {written.check, [written.check EXCEPT !.contains = Needle[written.check.contains]]} =>
               <<i, "check">> \in best.warns
          /\ \A p \in Hints(written) : Norm[p] \notin Existing => <<i, p>> \in best.warns
=============================================================================
