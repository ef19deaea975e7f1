--------------------------- MODULE MCConversation ---------------------------
(***************************************************************************)
(* Conversation on small instances, and what comments say of resuming that *)
(* runs refute.                                                            *)
(***************************************************************************)
EXTENDS Conversation

\* "a backend expects every tool_call to get its matching tool-result before
\* anything else, not a naked user message after an unanswered call" (agent.go,
\* ResumeWithAnswer): the note of Resume follows answered calls.
NoteFollowsAnsweredCalls ==
  [][place = "down" /\ place' = "chat" /\ Newest(history').kind = "note"
       => WireValid(history')]_vars

\* The same of the answer ResumeWithAnswer appends.
AnswerCompletesTheCalls ==
  [][place = "down" /\ place' = "chat" /\ Newest(history').kind = "tool"
       => WireValid(history')]_vars

\* "If the process dies or the run hits MaxSteps, the file on disk reflects the
\* last completed step" (agent.go, StateFile): a response that was saved is there.
SavedSurvives ==
  place = "down" => saved = 0 \/ \E i \in DOMAIN disk : disk[i].n = saved

\* effectiveMaxTokens asks for no more than "the room actually left in the context
\* window": "history only grows a little per step, so this is a safe
\* approximation" (agent.go). A large result, or a long history a process has just
\* been resumed from, is more than a little.
RequestFits ==
  place = "chat" => \/ Prompt(history) + EffectiveMaxTokens <= Limit
                    \/ EffectiveMaxTokens = Least
=============================================================================
