---------------------------- MODULE MCPlanSearch ----------------------------
(***************************************************************************)
(* PlanSearch on a small workspace: one file and one directory, a host     *)
(* without grep.  The answers reach every rule of the validator.           *)
(***************************************************************************)
EXTENDS PlanSearch

Normalized == [p \in {"", "old", "new", "./new", "dir"} |->
                 IF p = "./new" THEN "new" ELSE p]

Unquote == [text \in {"", "func", "'func'", "if", "'if'"} |->
              CASE text = "'func'" -> "func" [] text = "'if'" -> "if" [] OTHER -> text]

Task(hints, check) ==
  [complete |-> TRUE, readish |-> FALSE, status |-> "pending",
   hints |-> hints, check |-> check]

Runs(cmd) == [Check("shell", "") EXCEPT !.cmd = cmd]
Holds(path, text) == [Check("content_contains", path) EXCEPT !.contains = text]

\* Subtasks that are fine by themselves.
Creates  == Task(<<"new">>, Check("file_exists", "new"))
CreatesT == Task(<<"./new", "old">>, Check("file_exists", "./new"))
Greps    == Task(<<"new">>, Runs("grep"))
Builds   == Task(<<"old">>, Runs("go build"))
Adds     == Task(<<"old">>, Holds("old", "func"))
AddsQ    == Task(<<"old">>, Holds("old", "'func'"))

\* Subtasks with something to say about.
Others ==
  {Task(<<>>, Runs("grep")), Task(<<"old">>, Runs("grep")),
   Task(<<"old">>, Check("file_exists", "old")), Task(<<>>, Check("file_exists", "dir")),
   Task(<<"new">>, Check("none", "")), Task(<<>>, Check("", "")),
   Task(<<>>, Holds("old", "if")), Task(<<>>, Holds("new", "'if'")), Task(<<>>, Runs("echo")), Task(<<>>, Runs("touch")),
   Task(<<>>, Runs("go test x_test.go")), Task(<<>>, Runs("run.sh")),
   Task(<<>>, Check("http", "")), Task(<<>>, [Check("http", "") EXCEPT !.url = "http://"]),
   [Builds EXCEPT !.readish = TRUE], [Builds EXCEPT !.complete = FALSE],
   [Builds EXCEPT !.status = "done"]}

\* A check with a text it does not use.
CreatesX == Task(<<"new">>, [Check("file_exists", "new") EXCEPT !.contains = "func"])

Good == {Creates, CreatesT, CreatesX, Greps, Builds, Adds, AddsQ}

SmallAnswers ==
  {<<>>} \union {<<s>> : s \in Good \union Others}
         \union (Good \X Good) \union {<<Creates, Builds, Adds>>}

RepairAnswers == {<<Task(<<"old">>, Runs("grep"))>>}

-----------------------------------------------------------------------------
\* "downgrades a shell check that cannot run on this host, instead of letting it
\* sink the plan that carries it" (plan.go, repairUnrunnableCheck): a plan that
\* would be valid with a command the host has is valid.
WithCommand(a) ==
  [i \in DOMAIN a |-> IF Unrunnable(a[i]) THEN [a[i] EXCEPT !.check.cmd = "run.sh"] ELSE a[i]]

RepairSparesThePlan ==
  \A i \in DOMAIN answers : Valid(WithCommand(answers[i])) => Valid(answers[i])

\* "fingerprint uniquely identifies a check so two subtasks can't pass on the same
\* evidence" (ledger.go): no two file checks of a plan watch the same file.
FilesAreWatchedOnce ==
  \A i, j \in DOMAIN best.plan :
    LET c == best.plan[i].check
        d == best.plan[j].check
    IN  i # j /\ c.type = "file_exists" /\ d.type = "file_exists" => Norm[c.path] # Norm[d.path]

\* "A check that is already true before any work verifies nothing" (plan.go): no
\* check of a plan is, when the old file contains the text already.
AlreadyThere == {<<"old", "func">>}

FalseBeforeTheWork ==
  \A i \in DOMAIN best.plan :
    LET c == best.plan[i].check
    IN  c.type = "content_contains" => <<Norm[c.path], c.contains>> \notin AlreadyThere
=============================================================================
