---------------------------- MODULE Conversation ----------------------------
(***************************************************************************)
(* The message history of one agent: Agent.run's appends, the compaction   *)
(* of internal/agent/compact.go, the state file, and what Resume and       *)
(* ResumeWithAnswer make of it after the process ended (agent.go; the two  *)
(* callers are cmd/agent/main.go and internal/mission/phases.go).          *)
(*                                                                         *)
(* os.WriteFile truncates the file and then writes it: two steps.  A file  *)
(* that is absent, truncated or cut short cannot be decoded; all three are *)
(* Unreadable.  A message takes some tokens, one unless it is a result a   *)
(* tool filled; a prompt takes those of all its messages.                  *)
(***************************************************************************)
EXTENDS Integers, SequencesExt

CONSTANTS
  KeepSteps,     \* CompactKeepSteps (8 when zero)
  Limit,         \* ContextLimit, in tokens
  CompactAt,     \* the tokens of a prompt that are CompactAtPercent of it
  MaxTokens, FirstEstimate, Margin, Least,   \* what effectiveMaxTokens reckons with
  LargeResult,   \* the tokens of a large result
  MaxCalls,      \* bound: most tool calls in one response
  MaxResponses,  \* bound: responses over all processes
  MaxStops,      \* bound: times the process ends before the run does
  MaxSaveFails   \* bound: snapshots that cannot be written

ASSUME BoundAssumption ==
  /\ KeepSteps \in Nat \ {0} /\ MaxCalls \in Nat
  /\ MaxResponses \in Nat /\ MaxStops \in Nat /\ MaxSaveFails \in Nat
ASSUME TokenAssumption ==
  /\ Limit \in Nat /\ CompactAt \in 0..Limit /\ LargeResult \in Nat
  /\ MaxTokens \in Nat /\ FirstEstimate \in Nat /\ Margin \in Nat /\ Least \in Nat

VARIABLES
  history,    \* the messages in memory
  disk,       \* the state file
  reports,    \* the backend tells the tokens of a prompt
  measured,   \* lastPromptTokens: the newest prompt the backend measured, or 0
  place,      \* what the loop does next
  then,       \* ... and after the snapshot it is writing
  responses,  \* responses so far: the newest one's number
  saved,      \* the newest response that was ever whole on disk
  stops, saveFails

vars == <<history, disk, reports, measured, place, then, responses, saved, stops, saveFails>>

Unreadable == <<>>

(***************************************************************************)
(* Messages.  n is the number of a response; ask is 1 when its first call  *)
(* is an ask_user, 0 when no call of it is.                                *)
(***************************************************************************)
Plain(kind) == [kind |-> kind, n |-> 0, calls |-> 0, ask |-> 0, size |-> 1]
Start       == <<Plain("system"), Plain("task")>>
Response(n, calls, ask) ==
  [kind |-> "assistant", n |-> n, calls |-> calls, ask |-> ask, size |-> 1]
Result(n, call, size) ==
  [kind |-> "tool", n |-> n, calls |-> call, ask |-> 0, size |-> size]

Newest(h)  == h[Len(h)]

Results(m, size) == [i \in 1..m.calls |-> Result(m.n, i, size)]

Prompt(h) == FoldLeft(LAMBDA tokens, m : tokens + m.size, 0, h)

(***************************************************************************)
(* compactHistory and stepGroups.                                          *)
(***************************************************************************)
Tail2(h) == SubSeq(h, 3, Len(h))

\* Mutant: every result is a group of its own.
GroupStartsAtResults(rest) ==
  {i \in DOMAIN rest : i = 1 \/ rest[i].kind \in {"assistant", "tool"}}

\* Where the groups of rest begin.
GroupStarts(rest) ==
  {i \in DOMAIN rest : i = 1 \/ rest[i].kind = "assistant"}

\* Where the last keep groups begin.
KeptFrom(rest, keep) ==
  CHOOSE i \in GroupStarts(rest) :
    Cardinality({j \in GroupStarts(rest) : j >= i}) = keep

\* Mutant: one group too few.
CompactedShort(h) ==
  LET rest == Tail2(h)
  IN IF Cardinality(GroupStarts(rest)) <= KeepSteps THEN h
     ELSE SubSeq(h, 1, 2) \o <<Plain("notice")>>
            \o SubSeq(rest, KeptFrom(rest, KeepSteps) + 1, Len(rest))

Compacted(h) ==
  LET rest == Tail2(h)
  IN IF Len(h) <= 2 \/ Cardinality(GroupStarts(rest)) <= KeepSteps THEN h
     ELSE SubSeq(h, 1, 2) \o <<Plain("notice")>>
            \o SubSeq(rest, KeptFrom(rest, KeepSteps), Len(rest))

\* Mutant: only the first compaction of a run happens.
MaybeCompactOnce(h, full) ==
  IF full /\ h[3].kind # "notice" /\ Len(Compacted(h)) < Len(h)
  THEN Compacted(h) ELSE h

\* full: the prompt took CompactAtPercent of the window or more.
MaybeCompact(h, full) ==
  IF full /\ Len(Compacted(h)) < Len(h) THEN Compacted(h) ELSE h

-----------------------------------------------------------------------------
(***************************************************************************)
(* effectiveMaxTokens: how many tokens a request asks for.                 *)
(***************************************************************************)
Estimate == IF measured > 0 THEN measured ELSE FirstEstimate

Room == IF Limit - Estimate - Margin < Least THEN Least ELSE Limit - Estimate - Margin

EffectiveMaxTokens == IF Room > MaxTokens THEN MaxTokens ELSE Room

-----------------------------------------------------------------------------
Init ==
  /\ history = Start /\ disk = Unreadable /\ reports \in BOOLEAN /\ measured = 0
  /\ place = "chat" /\ then = "chat"
  /\ responses = 0 /\ saved = 0
  /\ stops = 0 /\ saveFails = 0

\* Mutant: only a response with calls is saved.
AfterResponseUnsaved(calls) ==
  IF calls > 0 THEN place' = "save" /\ then' = "act"
               ELSE place' = "talk" /\ UNCHANGED then

\* maybeCompact, saveState; then the calls or the talk.
AfterResponse(calls) ==
  /\ place' = "save"
  /\ then' = IF calls > 0 THEN "act" ELSE "talk"

Respond(calls, ask) ==
  /\ place = "chat" /\ responses < MaxResponses
  /\ ask <= calls
  /\ responses' = responses + 1
  /\ measured' = IF reports THEN Prompt(history) ELSE measured
  /\ history' = MaybeCompact(Append(history, Response(responses + 1, calls, ask)),
                             reports /\ Prompt(history) >= CompactAt)
  /\ AfterResponse(calls)
  /\ UNCHANGED <<reports, disk, saved, stops, saveFails>>

\* saveState, best effort: the file is truncated, ...
Truncate ==
  /\ place = "save"
  /\ disk' = Unreadable
  /\ place' = "write"
  /\ UNCHANGED <<reports, measured, history, then, responses, saved, stops, saveFails>>

\* ... then written.
Write ==
  /\ place = "write"
  /\ disk' = history
  /\ saved' = responses
  /\ place' = then
  /\ UNCHANGED <<reports, measured, history, then, responses, stops, saveFails>>

\* An error in either step is ignored.
SaveFails ==
  /\ place \in {"save", "write"} /\ saveFails < MaxSaveFails
  /\ saveFails' = saveFails + 1
  /\ place' = then
  /\ UNCHANGED <<reports, measured, history, disk, then, responses, saved, stops>>

(***************************************************************************)
(* A response without calls: some number of user messages and no snapshot  *)
(* (none after an empty answer, two when the stuck notice comes with the   *)
(* first), the refusal of a finish that wrote nothing, or the finish.      *)
(***************************************************************************)
Nudge(count) ==
  /\ place = "talk"
  /\ history' = history \o [i \in 1..count |-> Plain("nudge")]
  /\ place' = "chat"
  /\ UNCHANGED <<reports, measured, disk, then, responses, saved, stops, saveFails>>

Refuse ==
  /\ place = "talk"
  /\ history' = Append(history, Plain("nudge"))
  /\ place' = "save" /\ then' = "chat"
  /\ UNCHANGED <<reports, measured, disk, responses, saved, stops, saveFails>>

\* The run returns; its file stays and may be resumed like any other.
Finish ==
  /\ place = "talk"
  /\ place' = "down"
  /\ history' = <<>>
  /\ UNCHANGED <<reports, measured, disk, then, responses, saved, stops, saveFails>>

\* The calls run and are answered, interject may add a message, saveState.
Act(size, nudged) ==
  /\ place = "act"
  /\ history' = history \o Results(Newest(history), size)
                  \o (IF nudged THEN <<Plain("nudge")>> ELSE <<>>)
  /\ place' = "save" /\ then' = "chat"
  /\ UNCHANGED <<reports, measured, disk, responses, saved, stops, saveFails>>

(***************************************************************************)
(* The process ends: a crash or a signal anywhere, a failed request or the *)
(* step budget before a request.                                           *)
(***************************************************************************)
Stop ==
  /\ place # "down" /\ stops < MaxStops
  /\ stops' = stops + 1
  /\ place' = "down"
  /\ history' = <<>>
  /\ UNCHANGED <<reports, measured, disk, then, responses, saved, saveFails>>

PausedOnQuestion(h) == Newest(h).kind = "assistant" /\ Newest(h).ask # 0

\* The caller appends the answer, or the note.
Resumed(h) ==
  Append(h, IF PausedOnQuestion(h) THEN Result(Newest(h).n, Newest(h).ask, 1)
                                   ELSE Plain("note"))

Resume ==
  /\ place = "down" /\ disk # Unreadable
  /\ history' = Resumed(disk)
  /\ place' = "chat" /\ measured' = 0
  /\ UNCHANGED <<reports, disk, then, responses, saved, stops, saveFails>>

\* LoadState fails: a mission worker starts from its seed again.
StartOver ==
  /\ place = "down" /\ disk = Unreadable
  /\ history' = Start
  /\ place' = "chat" /\ measured' = 0
  /\ UNCHANGED <<reports, disk, then, responses, saved, stops, saveFails>>

Next ==
  \/ \E calls \in 0..MaxCalls, ask \in 0..1 : Respond(calls, ask)
  \/ Truncate
  \/ Write
  \/ SaveFails
  \/ \E count \in 0..2 : Nudge(count)
  \/ Refuse
  \/ Finish
  \/ \E size \in {1, LargeResult}, nudged \in BOOLEAN : Act(size, nudged)
  \/ Stop
  \/ Resume
  \/ StartOver

Spec == Init /\ [][Next]_vars

-----------------------------------------------------------------------------
(***************************************************************************)
(* Properties.                                                             *)
(***************************************************************************)
Kinds == {"system", "task", "notice", "nudge", "note", "assistant", "tool"}

Messages == [kind : Kinds, n : 0..MaxResponses, calls : 0..MaxCalls, ask : 0..MaxCalls,
             size : {1, LargeResult}]

Places == {"chat", "save", "write", "talk", "act", "down"}

\* The type of every variable.
TypeOK ==
  /\ history \in Seq(Messages) /\ disk \in Seq(Messages) 
  /\ reports \in BOOLEAN /\ measured \in Nat
  /\ place \in Places /\ then \in {"chat", "talk", "act"}
  /\ responses \in 0..MaxResponses /\ saved \in 0..responses
  /\ stops \in 0..MaxStops /\ saveFails \in 0..MaxSaveFails

\* Where the responses of h stand.
Turns(h) == {i \in DOMAIN h : h[i].kind = "assistant"}

LastOnes(h, k) == SubSeq(h, Len(h) - k + 1, Len(h))

\* The tool messages that follow the response at i directly.
AnswersAt(h, i) ==
  {j \in DOMAIN h : j > i /\ \A p \in (i + 1)..j : h[p].kind = "tool"}

\* What a backend accepts: every call has its result before anything else, and
\* every result its call.
WireValid(h) ==
  /\ \A i \in Turns(h) :
       {<<h[j].n, h[j].calls>> : j \in AnswersAt(h, i)} = {h[i].n} \X (1..h[i].calls)
  /\ \A j \in DOMAIN h : h[j].kind = "tool" => \E i \in Turns(h) : j \in AnswersAt(h, i)

\* "The system prompt, original user task" head every history, with at most one
\* notice behind them (compactHistory).
HasHead(h) ==
  /\ SubSeq(h, 1, 2) = Start
  /\ \A i \in DOMAIN h : h[i].kind = "notice" => i = 3

\* "Tool results are never separated from their matching assistant tool_call"
\* (compact.go): a tool message stands in the run of results right after its
\* response, and no call is answered twice.
ResultsHaveCalls(h) ==
  \A j \in DOMAIN h : h[j].kind = "tool" =>
    /\ \E i \in Turns(h) : /\ j \in AnswersAt(h, i)
                           /\ h[i].n = h[j].n /\ h[j].calls \in 1..h[i].calls
    /\ \A p \in DOMAIN h :
         h[p].kind = "tool" /\ h[p].n = h[j].n /\ h[p].calls = h[j].calls => p = j

\* Whatever was compacted away and wherever the process was resumed, results stay
\* with their calls and the head is there, in memory and on disk; and a run that was
\* never stopped, all of whose snapshots were written, sends only requests a backend
\* accepts, even when it is resumed after its end.
HistoryIsWhole ==
  /\ \A h \in {history, disk} \ {<<>>} : HasHead(h) /\ ResultsHaveCalls(h)
  /\ place = "chat" /\ stops = 0 /\ saveFails = 0 => WireValid(history)

\* A compaction keeps "the most recent keepSteps groups intact": what is dropped
\* stands before the newest KeepSteps responses and all that followed them.
RecentIsKept ==
  [][responses' # responses =>
       LET whole == Append(history, Newest(history'))
       IN \/ history' = whole
          \/ \E k \in 1..Len(history') :
               /\ LastOnes(history', k) = LastOnes(whole, k)
               /\ Cardinality(Turns(LastOnes(whole, k))) >= KeepSteps]_vars

\* "may do so more than once in a run": a response past the threshold leaves no
\* more than KeepSteps responses behind, or one more when dropping it would save
\* nothing.
FullIsCompacted ==
  place = "chat" =>
    Cardinality(Turns(MaybeCompact(Append(history, Response(0, 0, 0)), TRUE)))
      <= KeepSteps + 1

\* saveState comes before the calls: while they run, or the loop judges an
\* answer, the file holds the history with their response, so a process that ends
\* there loses none. (A snapshot that failed excuses this.)
ResponseIsOnDisk ==
  place \in {"act", "talk"} => disk = history \/ saveFails > 0
=============================================================================
