------------------------------ MODULE FileTools ------------------------------
(***************************************************************************)
(* The tools of internal/tools that read and change files - read_file,     *)
(* write_file, patch_file, patch_lines, move_file, grep_files - as the     *)
(* system calls they make, and the checks of internal/mission/checks.go    *)
(* that look at the result.                                                *)
(*                                                                         *)
(* A text is a sequence of characters of which "n" is the newline and "r"  *)
(* the carriage return.  A path is a sequence of names below the workspace *)
(* root.  A call is refused before it changes anything, or becomes `todo', *)
(* the system calls left; each of them may fail, a write may fail half way *)
(* (os.WriteFile truncates first), and the process may die between two.    *)
(***************************************************************************)
EXTENDS Integers, SequencesExt

CONSTANTS
  Root,             \* the workspace root, an absolute path
  Nodes,            \* the absolute paths the file system may have an entry at
  Rels,             \* the relative paths a model may name
  Texts, Snippets,  \* what files begin with; what a model may write or search for
  Ranges,           \* the line ranges a model may name, <<start_line, end_line>>
  MaxRead,          \* readMaxBytes
  MaxShown,         \* grepMaxLineLen
  MaxChecked,       \* maxRead of RunCheck
  MinRewriteLines,  \* rewriteInsteadOfPatch spares files with fewer lines
  Subtasks,         \* records [check, hints]: a declared check and files_hint
  MaxCalls,         \* bound: tool calls of a behaviour
  MaxFaults         \* bound: failing system calls and crashes

ASSUME SizeAssumption == /\ MaxRead \in Nat /\ MaxShown \in Nat /\ MaxChecked \in Nat
                         /\ MinRewriteLines \in Nat \ {0}
ASSUME BoundAssumption == MaxCalls \in Nat /\ MaxFaults \in Nat
ASSUME TextAssumption == Texts \cup Snippets \subseteq Seq(STRING) /\ Ranges \subseteq Int \X Int

VARIABLES
  disk,     \* what is at each path: [kind, text]
  todo,     \* the system calls the current tool still makes
  call,     \* Observed: the current or last call,
  before,   \* the disk when it began,
  answer,   \* "running", "ok", "refused", "failed" (a system call did) or "crashed",
  calls, faults

fileVars == <<disk, todo, call, before, answer, calls, faults>>

Absent == [kind |-> "none", text |-> <<>>]
Dir == [kind |-> "dir", text |-> <<>>]
File(text) == [kind |-> "file", text |-> text]

Parent(p) == SubSeq(p, 1, Len(p) - 1)
Within(p, d) == IsPrefix(d, p)

\* Every entry has a directory above it, and the root is one.
IsTree(d) == \A p \in DOMAIN d :
  /\ p = Root => d[p] = Dir
  /\ d[p].kind # "none" /\ Parent(p) \in DOMAIN d => d[Parent(p)] = Dir

NoToolCall == [tool |-> "none", from |-> <<>>, to |-> <<>>, old |-> <<>>, new |-> <<>>,
               first |-> 0, last |-> 0]

FilesInit ==
  /\ disk \in {d \in [Nodes -> {Absent, Dir} \cup {File(t) : t \in Texts}] : IsTree(d)}
  /\ \A p \in Nodes : ~Within(p, Root) => disk[p] = File(CHOOSE text \in Texts : TRUE)
  /\ todo = <<>> /\ call = NoToolCall /\ before = disk /\ answer = "ok"
  /\ calls = 0 /\ faults = 0

-----------------------------------------------------------------------------
(***************************************************************************)
(* Paths and texts.                                                        *)
(***************************************************************************)
\* filepath.Clean of an absolute path.
Clean(p) == FoldLeft(LAMBDA a, name : IF name = ".." THEN IF a = <<>> THEN a ELSE Front(a)
                                      ELSE Append(a, name), <<>>, p)

Escapes == <<>>

\* Mutant: the path is joined and cleaned, and not compared with the root.
ResolveAnything(rel) == Clean(Root \o rel)

\* Workspace.Resolve: the cleaned path, if it is the root or below it.
Resolve(rel) == IF Within(Clean(Root \o rel), Root) THEN Clean(Root \o rel) ELSE Escapes

\* There is a node for every path in the workspace that a model may name, and for
\* every directory above it there.
ASSUME PathAssumption ==
  /\ Root \in Seq(STRING) /\ Nodes \subseteq Seq(STRING) \ {<<>>}
  /\ \A rel \in Rels : Resolve(rel) \in Nodes \cup {Escapes}
  /\ \A p \in Nodes : Within(p, Root) /\ p # Root => Parent(p) \in Nodes

IsFile(p) == p \in Nodes /\ disk[p].kind = "file"
Text(p) == disk[p].text

\* strings.Split(t, "\n"): one line more than there are newlines.
Lines(t) ==
  FoldLeft(LAMBDA ls, c : IF c = "n" THEN Append(ls, <<>>)
                          ELSE Append(Front(ls), Append(Last(ls), c)), <<<<>>>>, t)

\* strings.Join(lines, "\n").
Join(lines) == FoldLeft(LAMBDA a, l : a \o <<"n">> \o l, Head(lines), Tail(lines))

OccursAt(t, s, i) == i + Len(s) - 1 <= Len(t) /\ SubSeq(t, i, i + Len(s) - 1) = s

\* strings.Count: occurrences that do not overlap, from the left.
Count(t, s) ==
  IF s = <<>> THEN Len(t) + 1
  ELSE FoldLeft(LAMBDA a, i : IF i >= a.next /\ OccursAt(t, s, i)
                                THEN [n |-> a.n + 1, next |-> i + Len(s)] ELSE a,
                [n |-> 0, next |-> 1], [i \in 1..Len(t) |-> i]).n

\* strings.Replace(t, s, r, 1).
ReplaceFirstOf(t, s, r) ==
  LET i == SelectInSeq([j \in 1..(Len(t) + 1) |-> j], LAMBDA j : OccursAt(t, s, j))
  IN SubSeq(t, 1, i - 1) \o r \o SubSeq(t, i + Len(s), Len(t))

\* Mutant: end_line is taken for the first line to keep.
ReplaceLinesShort(t, first, last, new) ==
  Join(SubSeq(Lines(t), 1, first - 1) \o Lines(new) \o SubSeq(Lines(t), last, Len(Lines(t))))

\* patch_lines: last may lie beyond the end of the file.
ReplaceLines(t, first, last, new) ==
  LET ls == Lines(t)
  IN Join(SubSeq(ls, 1, first - 1) \o Lines(new) \o SubSeq(ls, last + 1, Len(ls)))

TrimCR(l) == LET m == SelectLastInSeq(l, LAMBDA c : c # "r") IN SubSeq(l, 1, m)

\* How many lines of old are kept in new, each line of new counting once.
Kept(old, new) ==
  LET o == [i \in DOMAIN Lines(old) |-> TrimCR(Lines(old)[i])]
      m == [i \in DOMAIN Lines(new) |-> TrimCR(Lines(new)[i])]
  IN FoldLeft(LAMBDA a, l : IF \E i \in DOMAIN a.left : a.left[i] = l
                              THEN [n |-> a.n + 1, left |-> RemoveFirst(a.left, l)] ELSE a,
              [n |-> 0, left |-> m], o).n

\* rewriteInsteadOfPatch, rewriteKeptRatio being seven tenths.
RewriteInsteadOfPatch(p, new) ==
  /\ IsFile(p) /\ Text(p) # <<>>
  /\ Len(Lines(Text(p))) >= MinRewriteLines
  /\ 10 * Kept(Text(p), new) >= 7 * Len(Lines(Text(p)))

\* bufio.Scanner in grep_files: the last line counts when it is not empty, and one
\* carriage return before a newline or the end is dropped.
Scanned(t) ==
  LET all == Lines(t)
      ls == IF Last(all) = <<>> THEN Front(all) ELSE all
  IN [i \in DOMAIN ls |-> IF ls[i] # <<>> /\ Last(ls[i]) = "r" THEN Front(ls[i]) ELSE ls[i]]

\* The first max characters of a text that is longer.
Cut(t, max) == IF Len(t) > max THEN SubSeq(t, 1, max) ELSE t

Match(n, l) == [line |-> n, text |-> Cut(l, MaxShown), cut |-> Len(l) > MaxShown]

\* Mutant: lines are numbered from zero.
GrepFromZero(t, s) ==
  LET ls == Scanned(t) IN {Match(i - 1, ls[i]) : i \in {j \in DOMAIN ls : Count(ls[j], s) > 0}}

\* grep_files on one file, for a pattern that is the text s: line numbers and texts,
\* a long one cut and marked.  The pattern is looked for in the whole line.
Grep(t, s) ==
  LET ls == Scanned(t) IN {Match(i, ls[i]) : i \in {j \in DOMAIN ls : Count(ls[j], s) > 0}}

-----------------------------------------------------------------------------
(***************************************************************************)
(* System calls.                                                           *)
(***************************************************************************)
Mkdir(p) == [op |-> "mkdir", path |-> p, to |-> <<>>, text |-> <<>>]
Truncate(p) == [op |-> "truncate", path |-> p, to |-> <<>>, text |-> <<>>]
Put(p, text) == [op |-> "put", path |-> p, to |-> <<>>, text |-> text]
Unlink(p) == [op |-> "unlink", path |-> p, to |-> <<>>, text |-> <<>>]
Rename(p, q) == [op |-> "rename", path |-> p, to |-> q, text |-> <<>>]

\* os.WriteFile opens with O_TRUNC and writes.
Written(p, text) == <<Truncate(p), Put(p, text)>>

Above(p) == {q \in Nodes : Within(p, q)}

HasDirectory(p) == Parent(p) \in Nodes => disk[Parent(p)].kind = "dir"

\* What os.Rename refuses: a directory in the way (even itself), a file above the
\* new name, a directory for a file, a directory moved below itself.
Renamable(p, q) ==
  /\ q \in Nodes /\ disk[q].kind # "dir"
  /\ HasDirectory(q)
  /\ disk[p].kind = "dir" => disk[q].kind = "none" /\ ~Within(q, p)

Renamed(p, q) ==
  [n \in Nodes |->
     IF Within(n, q) THEN LET m == p \o SubSeq(n, Len(q) + 1, Len(n))
                          IN IF m \in Nodes THEN disk[m] ELSE Absent
     ELSE IF Within(n, p) THEN Absent
     ELSE disk[n]]

Succeeds(s) ==
  \/ s.op = "mkdir" /\ \A q \in Above(s.path) : disk[q].kind # "file"
  \/ s.op = "truncate" /\ disk[s.path].kind # "dir" /\ HasDirectory(s.path)
  \/ s.op = "put"
  \/ s.op = "unlink"
  \/ s.op = "rename" /\ Renamable(s.path, s.to)

Effect(s) ==
  CASE s.op = "mkdir" -> [n \in Nodes |-> IF n \in Above(s.path) THEN Dir ELSE disk[n]]
    [] s.op = "truncate" -> [disk EXCEPT ![s.path] = File(<<>>)]
    [] s.op = "put" -> [disk EXCEPT ![s.path] = File(s.text)]
    [] s.op = "unlink" -> [disk EXCEPT ![s.path] = Absent]
    [] s.op = "rename" -> IF s.path = s.to THEN disk ELSE Renamed(s.path, s.to)

\* Mutant: the source goes before the copy is written.
FallbackUnlinksFirst(p, q) == <<Truncate(q), Unlink(p), Put(q, Text(p))>>

\* move_file after a rename that failed: read, copy, delete.
Fallback(p, q) == Written(q, Text(p)) \o <<Unlink(p)>>

\* Mutant: a failing write does not stop the tool.
AfterFault(s) == IF s.op = "rename" /\ IsFile(s.path) THEN Fallback(s.path, s.to) ELSE Tail(todo)

\* What is left to do when s failed: only move_file has another way.
Recovery(s) == IF s.op = "rename" /\ IsFile(s.path) THEN Fallback(s.path, s.to) ELSE <<>>

Succeeded ==
  /\ todo # <<>> /\ Succeeds(Head(todo))
  /\ disk' = Effect(Head(todo)) /\ todo' = Tail(todo)
  /\ answer' = IF Tail(todo) = <<>> THEN "ok" ELSE "running"
  /\ UNCHANGED <<call, before, calls, faults>>

FailsWith(d) ==
  /\ disk' = d /\ todo' = Recovery(Head(todo))
  /\ answer' = IF Recovery(Head(todo)) = <<>> THEN "failed" ELSE "running"
  /\ UNCHANGED <<call, before, calls>>

\* The file system's rules refuse the call, or the new name is on another one.
Failed ==
  /\ todo # <<>>
  /\ \/ ~Succeeds(Head(todo))
     \/ Head(todo).op = "rename" /\ Head(todo).path # Head(todo).to
  /\ FailsWith(disk) /\ UNCHANGED faults

\* Out of space, an I/O error: a write leaves a part.
Faulted ==
  /\ todo # <<>> /\ faults < MaxFaults
  /\ LET s == Head(todo)
     IN \/ s.op = "put" /\ \E part \in Prefixes(s.text) : FailsWith([disk EXCEPT ![s.path] = File(part)])
        \/ s.op \in {"mkdir", "truncate", "unlink"} /\ FailsWith(disk)
  /\ faults' = faults + 1

\* The process dies, and a resumed one will make the next call.
Crashed ==
  /\ todo # <<>> /\ faults < MaxFaults
  /\ todo' = <<>> /\ answer' = "crashed" /\ faults' = faults + 1
  /\ UNCHANGED <<disk, call, before, calls>>

-----------------------------------------------------------------------------
(***************************************************************************)
(* The tools.                                                              *)
(***************************************************************************)
\* Run of a tool, up to its first system call that changes something.
Called(c, ok, steps) ==
  /\ todo = <<>> /\ calls < MaxCalls
  /\ call' = (IF ok THEN c ELSE NoToolCall) /\ before' = disk /\ calls' = calls + 1
  /\ todo' = IF ok THEN steps ELSE <<>>
  /\ answer' = IF ok THEN "running" ELSE "refused"
  /\ UNCHANGED <<disk, faults>>

WriteFile(rel, new) ==
  LET p == Resolve(rel)
  IN Called([NoToolCall EXCEPT !.tool = "write_file", !.to = p, !.new = new],
            p # Escapes /\ ~RewriteInsteadOfPatch(p, new),
            <<Mkdir(Parent(p))>> \o Written(p, new))

\* Mutant: the first of several occurrences will do.
PatchesFirst(p, old) == IsFile(p) /\ Count(Text(p), old) > 0

Patches(p, old) == IsFile(p) /\ Count(Text(p), old) = 1

PatchFile(rel, old, new) ==
  LET p == Resolve(rel)
  IN Called([NoToolCall EXCEPT !.tool = "patch_file", !.to = p, !.old = old, !.new = new],
            Patches(p, old),
            IF Patches(p, old) THEN Written(p, ReplaceFirstOf(Text(p), old, new)) ELSE <<>>)

PatchLines(rel, first, last, new) ==
  LET p == Resolve(rel)
      ok == 1 <= first /\ first <= last /\ IsFile(p) /\ first <= Len(Lines(Text(p)))
  IN Called([NoToolCall EXCEPT !.tool = "patch_lines", !.to = p, !.new = new,
                           !.first = first, !.last = last],
            ok, IF ok THEN Written(p, ReplaceLines(Text(p), first, last, new)) ELSE <<>>)

MoveFile(rel, torel) ==
  LET p == Resolve(rel)
      q == Resolve(torel)
      ok == p # Escapes /\ q # Escapes /\ disk[p].kind # "none"
  IN Called([NoToolCall EXCEPT !.tool = "move_file", !.from = p, !.to = q],
            ok, IF ok THEN <<Mkdir(Parent(q)), Rename(p, q)>> ELSE <<>>)

FilesNext ==
  \/ \E rel \in Rels, new \in Snippets : WriteFile(rel, new)
  \/ \E rel \in Rels, old, new \in Snippets : PatchFile(rel, old, new)
  \/ \E rel \in Rels, range \in Ranges, new \in Snippets : PatchLines(rel, range[1], range[2], new)
  \/ \E rel, torel \in Rels : MoveFile(rel, torel)
  \/ Succeeded \/ Failed \/ Faulted \/ Crashed

FilesSpec == FilesInit /\ [][FilesNext]_fileVars

-----------------------------------------------------------------------------
(***************************************************************************)
(* read_file, and the checks of a subtask.                                 *)
(***************************************************************************)
\* formatReadFileResult: a body cut at the caller's cap and readMaxBytes, and what
\* is said of it.
Shown(t, cap) ==
  LET limit == IF cap = 0 \/ cap > MaxRead THEN MaxRead ELSE cap
  IN [size |-> Len(t), truncated |-> Len(t) > MaxRead,
      body |-> SubSeq(t, 1, IF limit < Len(t) THEN limit ELSE Len(t)),
      note |-> limit < Len(t)]

\* RunCheck: a command's and a request's verdict come with the check, and of a long
\* file only the beginning is searched.
RunCheck(c) ==
  \/ c.type = "none"
  \/ c.type = "file_exists" /\ IsFile(Resolve(c.path)) /\ Text(Resolve(c.path)) # <<>>
  \/ /\ c.type = "content_contains" /\ c.contains # <<>>
     /\ IsFile(Resolve(c.path))
     /\ Count(Cut(Text(Resolve(c.path)), MaxChecked), c.contains) > 0
  \/ c.type \in {"shell", "http"} /\ c.passes

\* Mutant: a declared check on one file stands for all of them.
DerivedUnlessDeclared(sub) == IF sub.check.path = <<>> THEN sub.hints ELSE {}

\* DerivedChecks: the promised paths other than the one the check names.
DerivedChecks(sub) == sub.hints \ {sub.check.path}

FileExists(p) == [type |-> "file_exists", path |-> p, contains |-> <<>>, passes |-> FALSE]

\* The verdict of an attempt, and of a done subtask at the end.
Passes(sub) == RunCheck(sub.check) /\ \A p \in DerivedChecks(sub) : RunCheck(FileExists(p))

-----------------------------------------------------------------------------
FilesTypeOK ==
  /\ DOMAIN disk = Nodes /\ \A p \in Nodes : disk[p].kind \in {"none", "dir", "file"}
  /\ IsTree(disk)
  /\ DOMAIN before = Nodes
  /\ answer \in {"running", "ok", "refused", "failed", "crashed"}
  /\ todo # <<>> <=> answer = "running"
  /\ calls \in 0..MaxCalls /\ faults \in 0..MaxFaults

\* The text a move began with is whole at its source or its destination at every
\* moment, whatever fails or dies: a fault between the copy and the delete, or half
\* way through the copy, loses nothing.
MoveLosesNothing ==
  call.tool = "move_file" /\ before[call.from].kind = "file" =>
    before[call.from] \in {disk[call.from], disk[call.to]}

\* Only the path a call names (and what is moved with it) ever changes, outside
\* the workspace nothing; a directory may appear above it.
OnlyTheTargetChanges ==
  \A p \in Nodes : disk[p] # before[p] =>
    /\ Within(p, Root)
    /\ \/ call.to # <<>> /\ Within(p, call.to)
       \/ call.from # <<>> /\ Within(p, call.from)
       \/ before[p] = Absent /\ disk[p] = Dir /\ Within(call.to, p)

\* What each tool promises of the file it names, stated without its algorithm.
Wanted ==
  LET was == before[call.to].text
      is == disk[call.to].text
  IN CASE call.tool = "write_file" -> is = call.new
       [] call.tool = "patch_file" ->
            \E u \in Prefixes(was) : /\ u \o call.old \in Prefixes(was)
                                     /\ is = u \o call.new
                                             \o SubSeq(was, Len(u \o call.old) + 1, Len(was))
       [] call.tool = "patch_lines" ->
            LET a == Lines(was)
                b == Lines(is)
                end == IF call.last < Len(a) THEN call.last ELSE Len(a)
            IN /\ SubSeq(b, 1, call.first - 1) = SubSeq(a, 1, call.first - 1)
               /\ SubSeq(b, call.first, Len(b) - (Len(a) - end)) = Lines(call.new)
               /\ SubSeq(b, Len(b) - (Len(a) - end) + 1, Len(b)) = SubSeq(a, end + 1, Len(a))
       [] call.tool = "move_file" ->
            /\ disk[call.to] = before[call.from]
            /\ call.from # call.to => disk[call.from] = Absent
       [] OTHER -> TRUE

\* The answer a model gets is true: "ok" when the file is what was asked for and a
\* moved one is no longer where it was, an old_content that is replaced was there
\* once, and a read that shows less than the file says so.
AnswersAreTrue ==
  /\ answer = "ok" => Wanted
  /\ answer = "ok" /\ call.tool = "patch_file" => Count(before[call.to].text, call.old) = 1
  /\ answer # "running" =>
       \A p \in Nodes, cap \in 0..(MaxRead + 1) : IsFile(p) =>
         LET shown == Shown(Text(p), cap)
         IN /\ shown.body \in Prefixes(Text(p))
            /\ shown.body = Text(p) \/ shown.note

\* The number grep_files gives a line is the one patch_lines replaces it by: every
\* other line stays, and what is replaced is the text that was shown (but for a
\* carriage return) or, when that is marked as cut, a text that begins with it -
\* with newlines at the end, empty lines, CRLF and long lines.
LineNumbersAgree ==
  answer # "running" => \A t \in {Text(p) : p \in {q \in Nodes : IsFile(q)}} :
    \A g \in UNION {Grep(t, s) : s \in Snippets} :
      LET was == Lines(t)
          is == Lines(ReplaceLines(t, g.line, g.line, <<"x">>))
      IN /\ g.line \in DOMAIN was /\ is = [was EXCEPT ![g.line] = <<"x">>]
         /\ IF g.cut THEN g.text \in Prefixes(was[g.line]) /\ Len(g.text) = MaxShown
                     ELSE TrimCR(g.text) = TrimCR(was[g.line])

\* A subtask that passes has produced every file its plan promised, unless its check
\* names the file and is of a kind that does not look at it.
PassedMeansProduced ==
  \A sub \in Subtasks : Passes(sub) =>
    \A p \in sub.hints :
      \/ IsFile(Resolve(p)) /\ Text(Resolve(p)) # <<>>
      \/ p = sub.check.path /\ sub.check.type \in {"none", "shell", "http"}
=============================================================================
