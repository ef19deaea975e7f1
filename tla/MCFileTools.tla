---------------------------- MODULE MCFileTools ----------------------------
(***************************************************************************)
(* FileTools on a small file system, and what comments say of the tools    *)
(* and checks that runs refute.                                            *)
(***************************************************************************)
EXTENDS FileTools

TheRoot == <<"w">>

\* Below the root a and b, either a file or a directory with an a; beside it an out.
SomeNodes == {<<"w">>, <<"w", "a">>, <<"w", "b">>, <<"w", "a", "a">>, <<"out">>}

SomeRels == {<<"a">>, <<"a", "..", "b">>, <<"a", "a">>, <<"..", "out">>}

\* With a repeated and an overlapping occurrence of a snippet, and a CRLF.
SomeTexts == {<<"x", "x", "x", "n", "y", "n">>, <<"y", "n", "y", "n", "r">>}

SomeSnippets == {<<>>, <<"x", "x">>, <<"y", "n">>}

Check(type, path, contains) ==
  [type |-> type, path |-> path, contains |-> contains, passes |-> TRUE]

SomeRanges == {<<0, 1>>, <<1, 1>>, <<1, 2>>, <<2, 1>>, <<2, 9>>}

SomeSubtasks ==
  {[check |-> c, hints |-> {<<"a">>, <<"b">>}] :
     c \in {Check("none", <<>>, <<>>), Check("shell", <<>>, <<>>), Check("shell", <<"a">>, <<>>),
            Check("file_exists", <<"a">>, <<>>), Check("content_contains", <<"a">>, <<"x">>)}}

-----------------------------------------------------------------------------
\* "every path in it is checked whatever the model chose to verify" (checks.go).
PromisesAreChecked ==
  \A sub \in Subtasks : Passes(sub) =>
    \A p \in sub.hints : IsFile(Resolve(p)) /\ Text(Resolve(p)) # <<>>

\* "make it unique before patching" (patch.go): what is replaced is the only one.
PatchIsUnique ==
  answer = "ok" /\ call.tool = "patch_file" =>
    \E i \in 1..(Len(before[call.to].text) + 1) :
      \A j \in 1..(Len(before[call.to].text) + 1) :
        OccursAt(before[call.to].text, call.old, j) <=> i = j

\* "renames or moves a file in one atomic step" (move.go): a move is whole or not at all.
MoveIsAtomic ==
  call.tool = "move_file" /\ answer = "crashed" =>
    \/ disk = before
    \/ disk[call.to] = before[call.from] /\ disk[call.from] = Absent
=============================================================================
