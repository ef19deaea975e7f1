--------------------------- MODULE AgentLoopProofs ---------------------------
(***************************************************************************)
(* The agent loop keeps its promises for every configuration, every set of *)
(* tool calls and every number of calls in one response.                   *)
(***************************************************************************)
EXTENDS AgentLoop, FiniteSetTheorems, TLAPS

Tick(b) == IF b THEN 1 ELSE 0

\* What was said of the progress is covered by its latch.
Latched ==
  /\ heard["ToolLoop"] <= Tick(stall.toolLoopWarned)
  /\ heard["SearchFatigue"] <= Tick(stall.searchFatigueWarned)
  /\ heard["StuckRepeating"] <= Tick(stall.stuckNudges >= 1)
  /\ heard["StuckEscalated"] <= Tick(stall.stuckNudges >= 2)

\* What was said, and what is queued, of the context is covered by its threshold.
Warning ==
  /\ heard["BudgetNotice"] + Tick(budget.pending = "BudgetNotice")
       <= Tick(budget.warned >= 75)
  /\ heard["BudgetWarning"] + Tick(budget.pending = "BudgetWarning")
       <= Tick(budget.warned >= 90)

\* A failed verification that counts still blocks the finish, and the refusals
\* are numbered.
Gated ==
  /\ verified.out = "failed" /\ gate.verifiedOnce => gate.blocked
  /\ gate.zeroWrites <= MaxZeroWriteRefusals

\* Whatever was written is remembered to have been.
Recorded == \A p \in Paths : written[p] > 0 => p \in seen.wrote

\* Up to the escalated message the steps the model was not told of are those the
\* loop has counted, and the message follows its number.
Counted ==
  /\ stall.stuck < MaxStuckSteps
  /\ stall.stuckNudges < 2 => quiet = stall.stuck
  /\ stall.stuckNudges >= 2 => heard["StuckEscalated"] >= 1

Inv ==
  /\ TypeOK
  /\ Counted
  /\ Latched /\ Warning
  /\ Gated /\ FinishIsEarned
  /\ Recorded /\ RepeatsAreRefused

-----------------------------------------------------------------------------
\* The positions of a response are 1 .. n for an n of at most MaxCalls.
LEMMA Positions ==
  ASSUME NEW calls \in Requests
  PROVE  /\ Len(calls) \in 1..MaxCalls
         /\ DOMAIN calls = 1..Len(calls)
         /\ calls \in [1..Len(calls) -> Calls]
         /\ \A i \in DOMAIN calls : calls[i] \in Calls
<1>1. PICK n \in 1..MaxCalls : calls \in [1..n -> Calls]
  BY DEF Requests
<1>2. n \in Nat /\ MaxCalls \in Nat
  BY <1>1, BoundAssumption
<1>3. calls \in Seq(Calls) /\ Len(calls) = n
  BY <1>1, <1>2, SMT
<1> QED
  BY <1>1, <1>3

\* Some of the calls of a response are at most MaxCalls, and none is no call.
LEMMA SomeCalls ==
  ASSUME NEW calls \in Requests, NEW S \in SUBSET DOMAIN calls
  PROVE  /\ Cardinality(S) \in 0..MaxCalls
         /\ Cardinality(S) = 0 <=> S = {}
<1>1. DOMAIN calls = 1..Len(calls) /\ Len(calls) \in 1..MaxCalls /\ MaxCalls \in Nat
  BY Positions, BoundAssumption
<1>2. IsFiniteSet(DOMAIN calls) /\ Cardinality(DOMAIN calls) = Len(calls)
  BY <1>1, FS_Interval
<1>3. IsFiniteSet(S) /\ Cardinality(S) <= Len(calls)
  BY <1>2, FS_Subset
<1>4. Cardinality(S) \in Nat
  BY <1>3, FS_CardinalityType
<1>5. Cardinality(S) = 0 <=> S = {}
  BY <1>3, FS_EmptySet
<1> QED
  BY <1>1, <1>3, <1>4, <1>5

\* A call is its tool and its path.
LEMMA CallShape ==
  ASSUME NEW c \in Calls
  PROVE  c.tool \in Tools /\ c.path \in Paths /\ c = [tool |-> c.tool, path |-> c.path]
BY ModelAssumption DEF Paths

\* Nothing said leaves the record as it is.
LEMMA Silence ==
  ASSUME TypeOK, Say(<<>>)
  PROVE  said' = <<>> /\ heard' = heard
<1>1. \A n \in Nudges : Cardinality({i \in DOMAIN <<>> : <<>>[i] = n}) = 0
  <2>1. \A n \in Nudges : {i \in DOMAIN <<>> : <<>>[i] = n} = {}
    OBVIOUS
  <2> QED
    BY <2>1, FS_EmptySet
<1> QED
  BY <1>1 DEF Say, TypeOK

\* One message is counted once.
LEMMA OneMessage ==
  ASSUME TypeOK, NEW a, Say(<<a>>)
  PROVE  /\ said' = <<a>>
         /\ heard' = [n \in Nudges |-> heard[n] + Tick(n = a)]
<1>1. ASSUME NEW n \in Nudges
      PROVE  Cardinality({i \in DOMAIN <<a>> : <<a>>[i] = n}) = Tick(n = a)
  <2>1. CASE n = a
    <3>1. {i \in DOMAIN <<a>> : <<a>>[i] = n} = {1}
      BY <2>1
    <3> QED
      BY <2>1, <3>1, FS_Singleton DEF Tick
  <2>2. CASE n # a
    <3>1. {i \in DOMAIN <<a>> : <<a>>[i] = n} = {}
      BY <2>2
    <3> QED
      BY <2>2, <3>1, FS_EmptySet DEF Tick
  <2> QED
    BY <2>1, <2>2
<1> QED
  BY <1>1 DEF Say

\* Two messages are counted once each.
LEMMA TwoMessages ==
  ASSUME TypeOK, NEW a, NEW b, a # b, Say(<<a, b>>)
  PROVE  /\ said' = <<a, b>>
         /\ heard' = [n \in Nudges |-> heard[n] + Tick(n \in {a, b})]
<1>1. ASSUME NEW n \in Nudges
      PROVE  Cardinality({i \in DOMAIN <<a, b>> : <<a, b>>[i] = n}) = Tick(n \in {a, b})
  <2>1. CASE n = a
    <3>1. {i \in DOMAIN <<a, b>> : <<a, b>>[i] = n} = {1}
      BY <2>1
    <3> QED
      BY <2>1, <3>1, FS_Singleton DEF Tick
  <2>2. CASE n = b
    <3>1. {i \in DOMAIN <<a, b>> : <<a, b>>[i] = n} = {2}
      BY <2>2
    <3> QED
      BY <2>2, <3>1, FS_Singleton DEF Tick
  <2>3. CASE n \notin {a, b}
    <3>1. {i \in DOMAIN <<a, b>> : <<a, b>>[i] = n} = {}
      BY <2>3
    <3> QED
      BY <2>3, <3>1, FS_EmptySet DEF Tick
  <2> QED
    BY <2>1, <2>2, <2>3
<1> QED
  BY <1>1 DEF Say

\* What a response may raise.
LEMMA Raising ==
  ASSUME TypeOK, NEW u \in Usages
  PROVE  /\ Warned(u) \in {0, 75, 90} /\ Notice(u) \in Notices
         /\ Raised(u) = [warned |-> Warned(u), pending |-> budget.pending]
         /\ Warned(u) >= budget.warned
         /\ Notice(u) = "none" => Warned(u) = budget.warned
         /\ Notice(u) = "BudgetNotice" => budget.warned = 0 /\ Warned(u) = 75
         /\ Notice(u) = "BudgetWarning" => budget.warned < 90 /\ Warned(u) = 90
<1>1. u \in {0, 75, 90} /\ budget.warned \in {0, 75, 90}
  BY ModelAssumption DEF TypeOK
<1>2. budget = [warned |-> budget.warned, pending |-> budget.pending]
  BY DEF TypeOK
<1>3. Raised(u) = [warned |-> Warned(u), pending |-> budget.pending]
  BY <1>2 DEF Raised
<1> QED
  BY <1>1, <1>3 DEF Warned, Notice, Notices

\* The runs of a call are positions of the response.
LEMMA Runs ==
  ASSUME NEW calls \in Requests, NEW out
  PROVE  /\ Executed(calls) \in SUBSET DOMAIN calls
         /\ Succeeded(calls, out) \in SUBSET Executed(calls)
         /\ Mutations(calls, out) \in 0..MaxCalls
<1>1. /\ Executed(calls) \in SUBSET DOMAIN calls
      /\ Succeeded(calls, out) \in SUBSET Executed(calls)
  BY DEF Executed, Succeeded
<1>2. {i \in Succeeded(calls, out) :
         calls[i].tool \in MutatingTools \/ out[i].muts = 1} \in SUBSET DOMAIN calls
  BY <1>1
<1> QED
  BY <1>1, <1>2, SomeCalls DEF Mutations

\* The failures remembered of a call: at most those of one response more than
\* the guard lets through.
LEMMA FailureCount ==
  ASSUME TypeOK, NEW calls \in Requests, NEW out, NEW c \in Calls
  PROVE  /\ Failures(calls, out, c) \in Nat
         /\ seen.failed[c] <= MaxIdenticalAttempts - 2 + MaxCalls
              => Failures(calls, out, c) <= MaxIdenticalAttempts - 2 + MaxCalls
<1> DEFINE mine == {i \in Executed(calls) : calls[i] = c}
           ok   == mine \cap Succeeded(calls, out)
           lost == {i \in mine \ ok : \A j \in ok : j < i}
           base == IF ok = {} THEN seen.failed[c] ELSE 0
           k    == Cardinality(lost)
<1>1. Failures(calls, out, c) = base + k
  BY DEF Failures
<1>2. lost \in SUBSET DOMAIN calls /\ lost \subseteq mine
  BY Runs
<1>3. k \in 0..MaxCalls /\ (k = 0 <=> lost = {})
  BY <1>2, SomeCalls
<1>4. seen.failed[c] \in Nat /\ base \in {seen.failed[c], 0}
  BY DEF TypeOK, Seen
<1>5. lost # {} => seen.failed[c] < MaxIdenticalAttempts - 1
  <2>1. SUFFICES ASSUME lost # {} PROVE seen.failed[c] < MaxIdenticalAttempts - 1
    OBVIOUS
  <2>2. PICK i \in mine : TRUE
    BY <2>1, <1>2
  <2>3. ~Refused(c)
    BY <2>2 DEF Executed
  <2> QED
    BY <2>3, <1>4, BoundAssumption DEF Refused
<1> HIDE DEF mine, ok, lost, base, k
<1> QED
  BY <1>1, <1>3, <1>4, <1>5, BoundAssumption

\* What is remembered of the calls has its type.
LEMMA RememberedType ==
  ASSUME TypeOK, NEW calls \in Requests, NEW out
  PROVE  Remembered(calls, out) \in Seen
<1> DEFINE ok    == Succeeded(calls, out)
           reads == {calls[i] : i \in {j \in ok : calls[j].tool \in Idempotent}}
           paths == {calls[i].path : i \in {j \in ok : calls[j].tool = "write"}}
           idem  == IF Invalidates(calls, out) THEN {} ELSE seen.idempotent \union reads
           fail  == IF Invalidates(calls, out) THEN [c \in Calls |-> 0]
                    ELSE [c \in Calls |-> Failures(calls, out, c)]
<1>1. \A i \in ok : calls[i] \in Calls
  BY Runs, Positions
<1>2. reads \subseteq Calls
  BY <1>1
<1>3. paths \subseteq Paths
  BY <1>1, CallShape
<1>4. seen.idempotent \subseteq Calls /\ seen.wrote \subseteq Paths
  BY DEF TypeOK, Seen
<1>5. idem \in SUBSET Calls
  BY <1>2, <1>4
<1>6. seen.wrote \union paths \in SUBSET Paths
  BY <1>3, <1>4
<1>7. fail \in [Calls -> Nat]
  BY FailureCount
<1>8. Remembered(calls, out)
        = [idempotent |-> idem, wrote |-> seen.wrote \union paths, failed |-> fail]
  BY DEF Remembered
<1> HIDE DEF ok, reads, paths, idem, fail
<1> QED
  BY <1>5, <1>6, <1>7, <1>8 DEF Seen

\* The signature of a response is a bag of calls.
LEMMA SignatureType ==
  ASSUME NEW calls \in Requests
  PROVE  Signature(calls) \in Bags
<1> DEFINE D == {calls[i] : i \in DOMAIN calls}
<1>1. D \in SUBSET Calls
  BY Positions
<1>2. \A c \in D : Cardinality({i \in DOMAIN calls : calls[i] = c}) \in 0..MaxCalls
  <2>1. \A c \in D : {i \in DOMAIN calls : calls[i] = c} \in SUBSET DOMAIN calls
    OBVIOUS
  <2> QED
    BY <2>1, SomeCalls
<1>3. Signature(calls) = [c \in D |-> Cardinality({i \in DOMAIN calls : calls[i] = c})]
  BY DEF Signature
<1> HIDE DEF D
<1>4. Signature(calls) \in [D -> 0..MaxCalls]
  BY <1>2, <1>3
<1> QED
  BY <1>1, <1>4 DEF Bags

\* What judging a step leaves alone, and what it may make of the counters.
LEMMA JudgedShape ==
  ASSUME TypeOK, NEW calls \in Requests, NEW out
  PROVE  /\ Judged(calls, out) \in Stall
         /\ Judged(calls, out).stuck =
              IF Succeeded(calls, out) = {} \/ Repeats(calls) THEN stall.stuck + 1 ELSE 0
         /\ Judged(calls, out).stuckNudges = stall.stuckNudges
         /\ Judged(calls, out).toolLoopWarned = stall.toolLoopWarned
         /\ Judged(calls, out).searchFatigueWarned = stall.searchFatigueWarned
<1> DEFINE mutated == Mutations(calls, out) > 0
           moved   == Succeeded(calls, out) # {} /\ ~Repeats(calls)
           sig     == Signature(calls)
           expl    == IF mutated THEN 0 ELSE stall.exploratory + 1
           single  == IF mutated THEN "none" ELSE Single(calls)
           same    == IF mutated THEN 0 ELSE SameTool(calls)
           stuck   == IF moved THEN 0 ELSE stall.stuck + 1
<1>1. stall \in Stall
  BY DEF TypeOK
<1>2. Judged(calls, out) =
        [stall EXCEPT !.signature = sig, !.exploratory = expl, !.single = single,
                      !.sameTool = same, !.stuck = stuck]
  BY <1>1 DEF Judged, Stall
<1>3. Len(calls) = 1 => calls[1] \in Calls
  BY Positions
<1>4. SameTool(calls) \in Nat
  BY <1>1 DEF SameTool, Stall
<1>5. Single(calls) \in Tools \union {"none"}
  BY <1>3, CallShape DEF Single
<1>6. /\ sig \in Bags /\ single \in Tools \union {"none"} /\ same \in Nat
  BY <1>4, <1>5, SignatureType
<1>7. /\ expl \in Nat /\ stuck \in Nat
      /\ stuck = IF Succeeded(calls, out) = {} \/ Repeats(calls) THEN stall.stuck + 1 ELSE 0
  BY <1>1 DEF Stall
<1> HIDE DEF mutated, moved, sig, expl, single, same, stuck
<1> DEFINE s == [stall EXCEPT !.signature = sig, !.exploratory = expl, !.single = single,
                              !.sameTool = same, !.stuck = stuck]
<1>8. s \in Stall
  BY <1>1, <1>6, <1>7 DEF Stall
<1>9. /\ s.stuck = stuck /\ s.stuckNudges = stall.stuckNudges
      /\ s.toolLoopWarned = stall.toolLoopWarned
      /\ s.searchFatigueWarned = stall.searchFatigueWarned
  BY <1>1 DEF Stall
<1> HIDE DEF s
<1> QED
  BY <1>2, <1>7, <1>8, <1>9 DEF s

\* The empty signature is a bag.
LEMMA NoSignature == <<>> \in Bags
<1>1. <<>> \in [{} -> 0..MaxCalls]
  OBVIOUS
<1> QED
  BY <1>1 DEF Bags

-----------------------------------------------------------------------------
Messages == Nudges \union Corrections

\* A message, or two, is said in the loop's own words.
LEMMA SayType ==
  ASSUME TypeOK,
         \/ Say(<<>>)
         \/ \E a \in Messages : Say(<<a>>)
         \/ \E a, b \in Messages : a # b /\ Say(<<a, b>>)
  PROVE  said' \in Seq(Messages) /\ heard' \in [Nudges -> Nat]
<1>1. heard \in [Nudges -> Nat]
  BY DEF TypeOK
<1>2. CASE Say(<<>>)
  BY <1>1, <1>2, Silence
<1>3. ASSUME NEW a \in Messages, Say(<<a>>)
      PROVE  said' \in Seq(Messages) /\ heard' \in [Nudges -> Nat]
  <2>1. said' = <<a>> /\ heard' = [n \in Nudges |-> heard[n] + Tick(n = a)]
    BY <1>3, OneMessage
  <2> QED
    BY <2>1, <1>1 DEF Tick
<1>4. ASSUME NEW a \in Messages, NEW b \in Messages, a # b, Say(<<a, b>>)
      PROVE  said' \in Seq(Messages) /\ heard' \in [Nudges -> Nat]
  <2>1. said' = <<a, b>> /\ heard' = [n \in Nudges |-> heard[n] + Tick(n \in {a, b})]
    BY <1>4, TwoMessages
  <2> QED
    BY <2>1, <1>1 DEF Tick
<1> QED
  BY <1>2, <1>3, <1>4

\* A message, or none, uttered.
LEMMA UtterSay ==
  ASSUME NEW m \in Messages \union {"none"}, Say(Utter(m))
  PROVE  Say(<<>>) \/ \E a \in Messages : Say(<<a>>)
<1>1. CASE m = "none"
  BY <1>1 DEF Utter
<1>2. CASE m # "none"
  <2>1. Say(<<m>>) /\ m \in Messages
    BY <1>2 DEF Utter
  <2> QED
    BY <2>1
<1> QED
  BY <1>1, <1>2

\* The queue after a response, and what the loop says of being stuck.
LEMMA QueueType ==
  ASSUME TypeOK, NEW u \in Usages
  PROVE  Queue(Notice(u)) \in Notices /\ Warned(u) \in {0, 75, 90}
BY Raising DEF Queue, TypeOK

\* What the loop says of being stuck is one of its messages, or nothing.
LEMMA StuckNudgeType ==
  ASSUME NEW s, NEW r
  PROVE  StuckNudge(s, r) \in Messages \union {"none"}
<1>1. CASE s.stuckNudges = 0
  BY <1>1 DEF StuckNudge, Messages, Nudges
<1>2. CASE s.stuckNudges = 1
  BY <1>2 DEF StuckNudge, Messages, Nudges
<1>3. CASE s.stuckNudges # 0 /\ s.stuckNudges # 1
  BY <1>3 DEF StuckNudge
<1> QED
  BY <1>1, <1>2, <1>3

Budget == [warned : {0, 75, 90}, pending : Notices]

\* Every way of interjecting keeps the types.
LEMMA InterjectType ==
  ASSUME TypeOK, NEW u \in Usages, NEW s \in Stall, NEW r, Interject(s, r, u)
  PROVE  /\ stall' \in Stall /\ budget' \in Budget
         /\ said' \in Seq(Messages) /\ heard' \in [Nudges -> Nat]
<1> DEFINE pending == Queue(Notice(u))
           kept    == [warned |-> Warned(u), pending |-> pending]
<1>1. pending \in Notices /\ kept \in Budget
  BY QueueType DEF Budget
<1>2. [kept EXCEPT !.pending = "none"] \in Budget
  BY <1>1 DEF Budget, Notices
<1>3. pending \in Messages \union {"none"}
  BY <1>1 DEF Notices, Messages, Nudges
<1>4. CASE /\ IsStuck(s)
           /\ stall' = [s EXCEPT !.stuck = 0, !.signature = <<>>, !.stuckNudges = @ + 1]
           /\ budget' = kept
           /\ Say(Utter(StuckNudge(s, r)))
  <2> DEFINE none == <<>>
             more == s.stuckNudges + 1
  <2>0. stall' = [s EXCEPT !.stuck = 0, !.signature = none, !.stuckNudges = more]
    BY <1>4
  <2>1. stall' \in Stall
    <3>1. none \in Bags /\ more \in Nat
      BY NoSignature DEF Stall
    <3> HIDE DEF none, more
    <3> QED
      BY <2>0, <3>1 DEF Stall
  <2>2. Say(<<>>) \/ \E a \in Messages : Say(<<a>>)
    BY <1>4, StuckNudgeType, UtterSay
  <2> QED
    BY <1>1, <1>4, <2>1, <2>2, SayType
<1>5. CASE /\ stall' = [s EXCEPT !.toolLoopWarned = TRUE]
           /\ budget' = kept
           /\ Say(<<"ToolLoop">>)
  <2>1. stall' \in Stall
    BY <1>5 DEF Stall
  <2>2. "ToolLoop" \in Messages
    BY DEF Messages, Nudges
  <2> QED
    BY <1>1, <1>5, <2>1, <2>2, SayType
<1>6. CASE /\ stall' = [s EXCEPT !.searchFatigueWarned = TRUE]
           /\ budget' = kept
           /\ Say(<<"SearchFatigue">>)
  <2>1. stall' \in Stall
    BY <1>6 DEF Stall
  <2>2. "SearchFatigue" \in Messages
    BY DEF Messages, Nudges
  <2> QED
    BY <1>1, <1>6, <2>1, <2>2, SayType
<1>7. CASE /\ stall' = s
           /\ budget' = [kept EXCEPT !.pending = "none"]
           /\ Say(Utter(pending))
  <2>1. Say(<<>>) \/ \E a \in Messages : Say(<<a>>)
    BY <1>7, <1>3, UtterSay
  <2> QED
    BY <1>2, <1>7, <2>1, SayType
<1> HIDE DEF pending, kept
<1> QED
  BY <1>4, <1>5, <1>6, <1>7 DEF Interject, pending, kept

\* The observation of the fruitless steps is a number.
LEMMA ObserveType ==
  ASSUME TypeOK, NEW f, Observe(f)
  PROVE  quiet' \in Nat
BY DEF TypeOK, Observe

\* So does complaining of a response that is no answer.
LEMMA ComplainType ==
  ASSUME TypeOK, NEW a \in Messages, NEW b \in Messages, a # b, Complain(a, b)
  PROVE  /\ stall' \in Stall /\ quiet' \in Nat
         /\ said' \in Seq(Messages) /\ heard' \in [Nudges -> Nat]
<1>1. stall \in Stall
  BY DEF TypeOK
<1>2. stall' \in Stall
  BY <1>1 DEF Complain, Stall
<1>3. quiet' \in Nat
  BY ObserveType DEF Complain
<1>4. Say(<<a>>) \/ Say(<<a, b>>)
  BY DEF Complain
<1> QED
  BY <1>2, <1>3, <1>4, SayType

-----------------------------------------------------------------------------
\* It holds at the start.
LEMMA InitInv == Init => Inv
<1> SUFFICES ASSUME Init PROVE Inv
  OBVIOUS
<1>1. stall \in Stall /\ gate \in Gate /\ seen \in Seen /\ budget \in Budget
  BY NoSignature DEF Init, Stall, Gate, Seen, Budget, Notices, Tools
<1>2. TypeOK
  BY <1>1, BoundAssumption DEF Init, TypeOK, Budget
<1>3. Counted /\ Latched /\ Warning
  BY BoundAssumption DEF Init, Counted, Latched, Warning, Tick, Nudges
<1>4. Gated /\ FinishIsEarned
  BY BoundAssumption DEF Init, Gated, FinishIsEarned
<1>5. Recorded /\ RepeatsAreRefused
  BY BoundAssumption DEF Init, Recorded, RepeatsAreRefused
<1> QED
  BY <1>2, <1>3, <1>4, <1>5 DEF Inv

\* How often the calls write a path.
Writes(calls, out, p) ==
  Cardinality({i \in Succeeded(calls, out) : calls[i] = [tool |-> "write", path |-> p]})

\* A path is written at most MaxCalls times, each time by a call that succeeded.
LEMMA WrittenCount ==
  ASSUME NEW calls \in Requests, NEW out, NEW p
  PROVE  /\ Writes(calls, out, p) \in 0..MaxCalls
         /\ Writes(calls, out, p) > 0 =>
              \E i \in Succeeded(calls, out) : calls[i] = [tool |-> "write", path |-> p]
<1>1. {i \in Succeeded(calls, out) : calls[i] = [tool |-> "write", path |-> p]}
        \in SUBSET DOMAIN calls
  BY Runs
<1>2. /\ Writes(calls, out, p) \in 0..MaxCalls
      /\ Writes(calls, out, p) = 0
           <=> {i \in Succeeded(calls, out) :
                  calls[i] = [tool |-> "write", path |-> p]} = {}
  BY <1>1, SomeCalls DEF Writes
<1> QED
  BY <1>2, BoundAssumption

\* A step with tool calls keeps the types.
LEMMA CallToolsType ==
  ASSUME TypeOK, NEW u \in Usages, NEW calls \in Requests,
         NEW out \in [1..Len(calls) -> Outcome], CallTools(u, calls, out)
  PROVE  TypeOK'
<1> USE DEF CallTools
<1>1. pc' \in {"running", "finished", "exhausted", "broken"} /\ gate' \in Gate
  BY DEF TypeOK
<1>2. step' \in 0..MaxSteps
  BY BoundAssumption DEF TypeOK, Responds
<1>3. writes' \in Nat
  BY Runs, BoundAssumption DEF TypeOK
<1>4. /\ stall' \in Stall /\ budget' \in Budget
      /\ said' \in Seq(Messages) /\ heard' \in [Nudges -> Nat]
  <2>1. Judged(calls, out) \in Stall
    BY JudgedShape
  <2> QED
    BY <2>1, InterjectType
<1>5. seen' \in Seen
  BY RememberedType
<1>6. fresh' \subseteq Calls /\ missed' \subseteq Calls
  <2> DEFINE reads == {calls[i] : i \in {j \in Succeeded(calls, out) :
                                          calls[j].tool \in Idempotent}}
  <2>1. reads \subseteq Calls
    BY Runs, Positions
  <2>2. fresh \subseteq Calls /\ missed \subseteq Calls
    BY DEF TypeOK
  <2>3. /\ fresh' \in {{}, fresh \union reads}
        /\ missed' \in {{}, (missed \union fresh \union reads) \ fresh'}
    OBVIOUS
  <2> HIDE DEF reads
  <2> QED
    BY <2>1, <2>2, <2>3
<1>7. onDisk' \subseteq Paths
  BY DEF Files
<1>8. written' \in [Paths -> Nat]
  <2> HIDE DEF CallTools
  <2>1. \A p \in Paths : Writes(calls, out, p) \in Nat
    <3>1. ASSUME NEW p \in Paths PROVE Writes(calls, out, p) \in 0..MaxCalls
      BY WrittenCount
    <3> QED
      BY <3>1, BoundAssumption
  <2>2. written' = [p \in Paths |-> written[p] + Writes(calls, out, p)]
    BY DEF CallTools, Writes
  <2>3. \A p \in Paths : written[p] \in Nat
    BY DEF TypeOK
  <2>4. \A p \in Paths : written[p] + Writes(calls, out, p) \in Nat
    BY <2>1, <2>3
  <2> QED
    BY <2>2, <2>4, Zenon
<1>9. verified' \in [out : {"none", "ok", "failed"}, current : BOOLEAN]
  <2>1. verified \in [out : {"none", "ok", "failed"}, current : BOOLEAN]
    BY DEF TypeOK
  <2>2. PICK b \in BOOLEAN : verified' = [verified EXCEPT !.current = @ /\ b]
    OBVIOUS
  <2> QED
    BY <2>1, <2>2
<1>10. quiet' \in Nat
  BY ObserveType
<1> QED
  BY <1>1, <1>2, <1>3, <1>4, <1>5, <1>6, <1>7, <1>8, <1>9, <1>10 DEF TypeOK, Budget, Messages

\* Crossing a threshold keeps the type.
LEMMA RaisedType ==
  ASSUME TypeOK, NEW u \in Usages
  PROVE  Raised(u) \in Budget
<1>1. budget.pending \in Notices
  BY DEF TypeOK
<1> QED
  BY <1>1, Raising DEF Budget

\* What the responses without a tool call leave to the others.
SpeakKeeps == UNCHANGED <<seen, writes, world>>

\* Two messages said one after the other.
LEMMA Joined ==
  ASSUME NEW a, NEW b
  PROVE  <<a>> \o <<b>> = <<a, b>>
<1> DEFINE s == <<a>> \o <<b>>
<1>1. s \in Seq({a, b}) /\ Len(s) = 2 /\ s[1] = a /\ s[2] = b
  OBVIOUS
<1> HIDE DEF s
<1>2. s = <<s[1], s[2]>>
  BY <1>1
<1>3. s = <<a, b>>
  BY <1>1, <1>2, Zenon
<1> QED
  BY <1>3, Zenon DEF s

\* A response without tool calls keeps the types and touches nothing else.
LEMMA SpeakType ==
  ASSUME TypeOK, NEW u \in Usages, Speak(u)
  PROVE  TypeOK' /\ SpeakKeeps
<1> DEFINE Spoken == /\ stall' \in Stall /\ quiet' \in Nat /\ gate' \in Gate
                     /\ said' \in Seq(Messages) /\ heard' \in [Nudges -> Nat]
                     /\ verified' \in [out : {"none", "ok", "failed"}, current : BOOLEAN]
                     /\ pc' \in {"running", "finished"} /\ Responds(u)
                     /\ budget' = Raised(u) /\ SpeakKeeps
<1>1. Spoken => TypeOK' /\ SpeakKeeps
  <2>1. Responds(u) => step' \in 0..MaxSteps
    BY BoundAssumption DEF Responds, TypeOK
  <2> QED
    BY <2>1, RaisedType DEF TypeOK, SpeakKeeps, world, Budget, Messages
<1>2. /\ stall \in Stall /\ quiet \in Nat /\ gate \in Gate
      /\ verified \in [out : {"none", "ok", "failed"}, current : BOOLEAN]
      /\ pc \in {"running", "finished", "exhausted", "broken"}
  BY DEF TypeOK
<1>3. {"Truncated", "LeakDetected", "LeakRepeated", "VerifyFailedContinue", "Verify",
       "AnnouncedNotWritten", "StuckFailing", "BudgetNotice", "BudgetWarning"}
        \subseteq Messages
  BY DEF Messages, Nudges, Corrections
<1>4. CASE Truncated(u)
  <2>1. Complain("Truncated", "StuckFailing")
    BY <1>4 DEF Truncated
  <2>2. /\ stall' \in Stall /\ quiet' \in Nat
        /\ said' \in Seq(Messages) /\ heard' \in [Nudges -> Nat]
    BY <2>1, <1>3, ComplainType
  <2> QED
    BY <1>1, <1>2, <1>4, <2>2 DEF Truncated, Responds, SpeakKeeps
<1>5. CASE Leaked(u)
  <2>1. Complain("LeakDetected", "LeakRepeated")
    BY <1>5 DEF Leaked
  <2>2. /\ stall' \in Stall /\ quiet' \in Nat
        /\ said' \in Seq(Messages) /\ heard' \in [Nudges -> Nat]
    BY <2>1, <1>3, ComplainType
  <2> QED
    BY <1>1, <1>2, <1>5, <2>2 DEF Leaked, Responds, SpeakKeeps
<1>6. CASE VerifyBlocks(u)
  <2>1. gate' \in Gate
    BY <1>2, <1>6 DEF VerifyBlocks, Gate
  <2>2. Say(<<"VerifyFailedContinue">>)
    BY <1>6 DEF VerifyBlocks
  <2>3. said' \in Seq(Messages) /\ heard' \in [Nudges -> Nat]
    BY <2>2, <1>3, SayType
  <2> QED
    BY <1>1, <1>2, <1>6, <2>1, <2>3 DEF VerifyBlocks, Responds, SpeakKeeps, progress
<1>7. ASSUME NEW out \in {"ok", "failed", "none"}, VerifyRound(u, out)
      PROVE  TypeOK' /\ SpeakKeeps
  <2>1. gate' \in Gate
    BY <1>2, <1>7 DEF VerifyRound, Gate
  <2>2. verified' \in [out : {"none", "ok", "failed"}, current : BOOLEAN]
    BY <1>7 DEF VerifyRound
  <2>3. Say(<<"Verify">>) \/ Say(<<"Verify", "BudgetNotice">>)
          \/ Say(<<"Verify", "BudgetWarning">>)
    <3>1. CASE Notice(u) = "none"
      <4>1. <<"Verify">> \o (IF Notice(u) = "none" THEN <<>> ELSE <<Notice(u)>>)
              = <<"Verify">>
        BY <3>1
      <4>2. Say(<<"Verify">> \o (IF Notice(u) = "none" THEN <<>> ELSE <<Notice(u)>>))
        BY <1>7 DEF VerifyRound
      <4> QED
        BY <4>1, <4>2, Zenon
    <3>2. CASE Notice(u) \in {"BudgetNotice", "BudgetWarning"}
      <4>1. <<"Verify">> \o (IF Notice(u) = "none" THEN <<>> ELSE <<Notice(u)>>)
              = <<"Verify", Notice(u)>>
        <5>1. <<"Verify">> \o <<Notice(u)>> = <<"Verify", Notice(u)>>
          BY Joined, Zenon
        <5>2. Notice(u) # "none"
          BY <3>2
        <5> QED
          BY <5>1, <5>2, Zenon
      <4>2. Say(<<"Verify">> \o (IF Notice(u) = "none" THEN <<>> ELSE <<Notice(u)>>))
        BY <1>7 DEF VerifyRound
      <4>3. Say(<<"Verify", Notice(u)>>)
        BY <4>1, <4>2, Zenon
      <4> QED
        BY <3>2, <4>3, Zenon
    <3> QED
      BY <3>1, <3>2, Raising DEF Notices
  <2>4. said' \in Seq(Messages) /\ heard' \in [Nudges -> Nat]
    <3>1. CASE Say(<<"Verify">>)
      BY <3>1, <1>3, SayType
    <3>2. CASE Say(<<"Verify", "BudgetNotice">>)
      BY <3>2, <1>3, SayType
    <3>3. CASE Say(<<"Verify", "BudgetWarning">>)
      BY <3>3, <1>3, SayType
    <3> QED
      BY <2>3, <3>1, <3>2, <3>3
  <2> QED
    BY <1>1, <1>2, <1>7, <2>1, <2>2, <2>4 DEF VerifyRound, Responds, SpeakKeeps, progress
<1>8. CASE RefuseZeroWrites(u)
  <2>1. gate' \in Gate
    BY <1>2, <1>8 DEF RefuseZeroWrites, Gate
  <2>2. Say(<<"AnnouncedNotWritten">>)
    BY <1>8 DEF RefuseZeroWrites
  <2>3. said' \in Seq(Messages) /\ heard' \in [Nudges -> Nat]
    BY <2>2, <1>3, SayType
  <2> QED
    BY <1>1, <1>2, <1>8, <2>1, <2>3 DEF RefuseZeroWrites, Responds, SpeakKeeps, progress
<1>9. CASE RetryEmpty(u)
  <2>1. gate' \in Gate
    BY <1>2, <1>9 DEF RetryEmpty, Gate
  <2>2. Say(<<>>)
    BY <1>9 DEF RetryEmpty
  <2>3. said' \in Seq(Messages) /\ heard' \in [Nudges -> Nat]
    BY <2>2, SayType
  <2> QED
    BY <1>1, <1>2, <1>9, <2>1, <2>3 DEF RetryEmpty, Responds, SpeakKeeps, progress
<1>10. ASSUME NEW r \in Answers, Finish(u, r)
       PROVE  TypeOK' /\ SpeakKeeps
  <2>1. Say(<<>>)
    BY <1>10 DEF Finish
  <2>2. said' \in Seq(Messages) /\ heard' \in [Nudges -> Nat]
    BY <2>1, SayType
  <2> QED
    BY <1>1, <1>2, <1>10, <2>2 DEF Finish, Responds, SpeakKeeps, progress
<1> QED
  BY <1>4, <1>5, <1>6, <1>7, <1>8, <1>9, <1>10 DEF Speak

\* The run breaks or is exhausted, or nothing happens: only pc and said move.
Ends == ChatFails \/ OutOfSteps \/ UNCHANGED vars

\* What a disturbance leaves alone.
CalmKeeps == UNCHANGED <<pc, step, stall, gate, seen, budget, writes, written, said,
                         heard, quiet>>

\* A run that ends, or stands still, keeps the types.
LEMMA EndsType ==
  ASSUME TypeOK, Ends
  PROVE  /\ TypeOK'
         /\ UNCHANGED <<step, stall, gate, seen, budget, writes, world, verified, heard, quiet>>
<1>1. UNCHANGED <<step, stall, gate, seen, budget, writes, world, verified, heard, quiet>>
  BY DEF Ends, ChatFails, OutOfSteps, vars, world, progress
<1>2. /\ pc' \in {"running", "finished", "exhausted", "broken"}
      /\ said' \in Seq(Messages)
  <2>1. CASE ChatFails \/ OutOfSteps
    <3>1. pc' \in {"exhausted", "broken"} /\ said' = <<>>
      BY <2>1 DEF ChatFails, OutOfSteps
    <3> QED
      BY <3>1
  <2>2. CASE UNCHANGED vars
    BY <2>2 DEF vars, TypeOK, Messages
  <2> QED
    BY <2>1, <2>2 DEF Ends
<1> QED
  BY <1>1, <1>2 DEF TypeOK, world, Messages

\* A disturbance keeps the types.
LEMMA DisturbedType ==
  ASSUME TypeOK, Disturbed
  PROVE  TypeOK' /\ CalmKeeps /\ verified'.out = verified.out
<1>1. /\ fresh' \subseteq Calls /\ missed' \subseteq Calls /\ onDisk' \subseteq Paths
      /\ CalmKeeps
  BY DEF Disturbed, TypeOK, CalmKeeps, progress
<1>2. /\ verified' \in [out : {"none", "ok", "failed"}, current : BOOLEAN]
      /\ verified'.out = verified.out
  BY DEF Disturbed, TypeOK
<1> QED
  BY <1>1, <1>2 DEF TypeOK, CalmKeeps

-----------------------------------------------------------------------------
\* Every step keeps the types.
LEMMA NextType ==
  ASSUME TypeOK, [Next]_vars
  PROVE  TypeOK'
<1>1. CASE Ends
  BY <1>1, EndsType
<1>2. ASSUME NEW u \in Usages, Speak(u) PROVE TypeOK'
  BY <1>2, SpeakType
<1>3. ASSUME NEW u \in Usages, NEW calls \in Requests,
             NEW out \in [1..Len(calls) -> Outcome], CallTools(u, calls, out)
      PROVE  TypeOK'
  BY <1>3, CallToolsType
<1>4. CASE Disturbed
  BY <1>4, DisturbedType
<1> QED
  BY <1>1, <1>2, <1>3, <1>4 DEF Next, Act, Ends

-----------------------------------------------------------------------------
\* Hearing m once more, where "none" is no message.
Hears(m) == heard' = [n \in Nudges |-> heard[n] + Tick(n = m)]

\* A message, or none, is heard once, or not at all.
LEMMA Uttered ==
  ASSUME TypeOK, NEW m \in Messages \union {"none"}, Say(Utter(m))
  PROVE  Hears(m) /\ (m = "none" => said' = <<>>) /\ (m # "none" => said' = <<m>>)
<1>1. CASE m = "none"
  <2>1. said' = <<>> /\ heard' = heard
    BY <1>1, Silence DEF Utter
  <2>2. \A n \in Nudges : heard[n] + Tick(n = "none") = heard[n]
    BY DEF TypeOK, Nudges, Tick
  <2>3. heard = [n \in Nudges |-> heard[n] + Tick(n = "none")]
    BY <2>2 DEF TypeOK
  <2> QED
    BY <1>1, <2>1, <2>3 DEF Hears
<1>2. CASE m # "none"
  <2>1. Say(<<m>>)
    BY <1>2 DEF Utter
  <2> QED
    BY <1>2, <2>1, OneMessage DEF Hears
<1> QED
  BY <1>1, <1>2

\* Hearing m, nudge by nudge.
LEMMA Hearing ==
  ASSUME TypeOK, NEW m, Hears(m)
  PROVE  \A n \in Nudges : /\ heard[n] \in Nat
                           /\ heard'[n] = heard[n] + Tick(n = m)
BY DEF Hears, TypeOK

\* The four ways of interjecting, each with its message.
LEMMA InterjectWays ==
  ASSUME TypeOK, NEW u \in Usages, NEW s \in Stall, NEW r, Interject(s, r, u)
  PROVE  \/ /\ stall'.stuckNudges = s.stuckNudges + 1
            /\ stall'.toolLoopWarned = s.toolLoopWarned
            /\ stall'.searchFatigueWarned = s.searchFatigueWarned
            /\ budget' = [warned |-> Warned(u), pending |-> Queue(Notice(u))]
            /\ Hears(StuckNudge(s, r))
         \/ /\ stall' = [s EXCEPT !.toolLoopWarned = TRUE] /\ ~s.toolLoopWarned
            /\ budget' = [warned |-> Warned(u), pending |-> Queue(Notice(u))]
            /\ Hears("ToolLoop")
         \/ /\ stall' = [s EXCEPT !.searchFatigueWarned = TRUE] /\ ~s.searchFatigueWarned
            /\ budget' = [warned |-> Warned(u), pending |-> Queue(Notice(u))]
            /\ Hears("SearchFatigue")
         \/ /\ stall' = s
            /\ budget' = [warned |-> Warned(u), pending |-> "none"]
            /\ Hears(Queue(Notice(u)))
            /\ Queue(Notice(u)) # "none" => said' = <<Queue(Notice(u))>>
<1> DEFINE pending == Queue(Notice(u))
           kept    == [warned |-> Warned(u), pending |-> pending]
<1>1. pending \in Messages \union {"none"}
  BY QueueType DEF Notices, Messages, Nudges
<1>2. CASE /\ IsStuck(s)
           /\ stall' = [s EXCEPT !.stuck = 0, !.signature = <<>>, !.stuckNudges = @ + 1]
           /\ budget' = kept
           /\ Say(Utter(StuckNudge(s, r)))
  <2> DEFINE none == <<>>
             more == s.stuckNudges + 1
  <2>1. stall' = [s EXCEPT !.stuck = 0, !.signature = none, !.stuckNudges = more]
    BY <1>2
  <2>2. /\ stall'.stuckNudges = more
        /\ stall'.toolLoopWarned = s.toolLoopWarned
        /\ stall'.searchFatigueWarned = s.searchFatigueWarned
    <3> HIDE DEF none, more
    <3> QED
      BY <2>1 DEF Stall
  <2>3. Hears(StuckNudge(s, r))
    BY <1>2, StuckNudgeType, Uttered
  <2> QED
    BY <1>2, <2>2, <2>3
<1>3. CASE /\ ~IsStuck(s) /\ InToolLoop(s)
           /\ stall' = [s EXCEPT !.toolLoopWarned = TRUE]
           /\ budget' = kept
           /\ Say(<<"ToolLoop">>)
  <2>1. Hears("ToolLoop")
    BY <1>3, OneMessage DEF Hears
  <2> QED
    BY <1>3, <2>1 DEF InToolLoop
<1>4. CASE /\ ~IsStuck(s) /\ ~InToolLoop(s) /\ IsFatigued(s)
           /\ stall' = [s EXCEPT !.searchFatigueWarned = TRUE]
           /\ budget' = kept
           /\ Say(<<"SearchFatigue">>)
  <2>1. Hears("SearchFatigue")
    BY <1>4, OneMessage DEF Hears
  <2> QED
    BY <1>4, <2>1 DEF IsFatigued
<1>5. CASE /\ stall' = s
           /\ budget' = [kept EXCEPT !.pending = "none"]
           /\ Say(Utter(pending))
  <2>1. Hears(pending) /\ (pending # "none" => said' = <<pending>>)
    BY <1>1, <1>5, Uttered
  <2> QED
    BY <1>5, <2>1
<1> QED
  BY <1>2, <1>3, <1>4, <1>5 DEF Interject

\* No way of interjecting outruns the latches.
LEMMA InterjectLatched ==
  ASSUME TypeOK, Latched, NEW u \in Usages, NEW s \in Stall, NEW r, Interject(s, r, u),
         s.stuckNudges = stall.stuckNudges,
         s.toolLoopWarned = stall.toolLoopWarned,
         s.searchFatigueWarned = stall.searchFatigueWarned
  PROVE  Latched'
<1>1. /\ {"ToolLoop", "SearchFatigue", "StuckRepeating", "StuckEscalated"} \subseteq Nudges
      /\ s.stuckNudges \in Nat
  BY DEF Nudges, Stall
<1>2. CASE /\ stall'.stuckNudges = s.stuckNudges + 1
           /\ stall'.toolLoopWarned = s.toolLoopWarned
           /\ stall'.searchFatigueWarned = s.searchFatigueWarned
           /\ Hears(StuckNudge(s, r))
  <2>1. /\ StuckNudge(s, r) # "ToolLoop" /\ StuckNudge(s, r) # "SearchFatigue"
        /\ StuckNudge(s, r) = "StuckRepeating" => s.stuckNudges = 0
        /\ StuckNudge(s, r) = "StuckEscalated" => s.stuckNudges = 1
    <3>1. CASE s.stuckNudges = 0
      BY <3>1 DEF StuckNudge
    <3>2. CASE s.stuckNudges = 1
      BY <3>2 DEF StuckNudge
    <3>3. CASE s.stuckNudges # 0 /\ s.stuckNudges # 1
      BY <3>3 DEF StuckNudge
    <3> QED
      BY <3>1, <3>2, <3>3
  <2> DEFINE m == StuckNudge(s, r)
  <2>2. \A n \in Nudges : heard[n] \in Nat /\ heard'[n] = heard[n] + Tick(n = m)
    BY <1>2, Hearing
  <2> HIDE DEF m
  <2> QED
    BY <1>1, <1>2, <2>1, <2>2 DEF Latched, Tick, m
<1>3. CASE stall' = [s EXCEPT !.toolLoopWarned = TRUE] /\ ~s.toolLoopWarned /\ Hears("ToolLoop")
  <2>1. \A n \in Nudges : heard[n] \in Nat /\ heard'[n] = heard[n] + Tick(n = "ToolLoop")
    BY <1>3, Hearing
  <2> QED
    BY <1>1, <1>3, <2>1 DEF Latched, Tick, Stall
<1>4. CASE /\ stall' = [s EXCEPT !.searchFatigueWarned = TRUE] /\ ~s.searchFatigueWarned
           /\ Hears("SearchFatigue")
  <2>1. \A n \in Nudges : heard[n] \in Nat /\ heard'[n] = heard[n] + Tick(n = "SearchFatigue")
    BY <1>4, Hearing
  <2> QED
    BY <1>1, <1>4, <2>1 DEF Latched, Tick, Stall
<1>5. CASE stall' = s /\ Hears(Queue(Notice(u)))
  <2> DEFINE m == Queue(Notice(u))
  <2>1. m \in Notices
    BY QueueType
  <2>2. \A n \in Nudges : heard[n] \in Nat /\ heard'[n] = heard[n] + Tick(n = m)
    BY <1>5, Hearing
  <2> HIDE DEF m
  <2> QED
    BY <1>1, <1>5, <2>1, <2>2 DEF Latched, Tick, Notices
<1> QED
  BY <1>2, <1>3, <1>4, <1>5, InterjectWays

\* No way of interjecting outruns the thresholds of the context.
LEMMA InterjectWarning ==
  ASSUME TypeOK, Warning, NEW u \in Usages, NEW s \in Stall, NEW r, Interject(s, r, u)
  PROVE  Warning'
<1> DEFINE m == Queue(Notice(u))
<1>1. {"BudgetNotice", "BudgetWarning"} \subseteq Nudges
  BY DEF Nudges
<1>2. /\ heard["BudgetNotice"] \in Nat /\ heard["BudgetWarning"] \in Nat
      /\ budget.warned \in {0, 75, 90} /\ Warned(u) \in {0, 75, 90}
  BY <1>1, Raising DEF TypeOK
<1>3. /\ heard["BudgetNotice"] + Tick(m = "BudgetNotice") <= Tick(Warned(u) >= 75)
      /\ heard["BudgetWarning"] + Tick(m = "BudgetWarning") <= Tick(Warned(u) >= 90)
  <2>1. CASE Notice(u) = "none"
    <3>1. m = budget.pending /\ Warned(u) = budget.warned
      BY <2>1, Raising DEF Queue
    <3> QED
      BY <3>1 DEF Warning
  <2>2. CASE Notice(u) = "BudgetNotice"
    <3>1. m = "BudgetNotice" /\ budget.warned = 0 /\ Warned(u) = 75
      BY <2>2, Raising DEF Queue
    <3> QED
      BY <1>2, <3>1 DEF Warning, Tick
  <2>3. CASE Notice(u) = "BudgetWarning"
    <3>1. m = "BudgetWarning" /\ budget.warned < 90 /\ Warned(u) = 90
      BY <2>3, Raising DEF Queue
    <3> QED
      BY <1>2, <3>1 DEF Warning, Tick
  <2> QED
    BY <2>1, <2>2, <2>3, Raising DEF Notices
<1>4. CASE /\ budget' = [warned |-> Warned(u), pending |-> m]
           /\ \E x : Hears(x) /\ x \notin {"BudgetNotice", "BudgetWarning"}
  <2>1. PICK x : Hears(x) /\ x \notin {"BudgetNotice", "BudgetWarning"}
    BY <1>4
  <2>2. \A n \in Nudges : heard[n] \in Nat /\ heard'[n] = heard[n] + Tick(n = x)
    BY <2>1, Hearing
  <2>3. /\ heard'["BudgetNotice"] = heard["BudgetNotice"]
        /\ heard'["BudgetWarning"] = heard["BudgetWarning"]
    BY <1>1, <2>1, <2>2 DEF Tick
  <2> HIDE DEF m
  <2> QED
    BY <1>3, <1>4, <2>3 DEF Warning
<1>5. CASE /\ budget' = [warned |-> Warned(u), pending |-> "none"] /\ Hears(m)
  <2>1. \A n \in Nudges : heard[n] \in Nat /\ heard'[n] = heard[n] + Tick(n = m)
    BY <1>5, Hearing
  <2> HIDE DEF m
  <2>2. /\ heard'["BudgetNotice"] = heard["BudgetNotice"] + Tick(m = "BudgetNotice")
        /\ heard'["BudgetWarning"] = heard["BudgetWarning"] + Tick(m = "BudgetWarning")
    BY <1>1, <2>1 DEF Tick
  <2>3. heard'["BudgetNotice"] \in Nat /\ heard'["BudgetWarning"] \in Nat
    BY <1>1, <2>1 DEF Tick
  <2> QED
    BY <1>2, <1>3, <1>5, <2>2, <2>3 DEF Warning, Tick
<1>6. StuckNudge(s, r) \notin {"BudgetNotice", "BudgetWarning"}
  <2>1. CASE s.stuckNudges = 0
    BY <2>1 DEF StuckNudge
  <2>2. CASE s.stuckNudges = 1
    BY <2>2 DEF StuckNudge
  <2>3. CASE s.stuckNudges # 0 /\ s.stuckNudges # 1
    BY <2>3 DEF StuckNudge
  <2> QED
    BY <2>1, <2>2, <2>3
<1> QED
  BY <1>4, <1>5, <1>6, InterjectWays

\* What a response without a tool call says is no nudge but for the notice of
\* the verification round and the third complaint.
LEMMA SpeakWays ==
  ASSUME TypeOK, NEW u \in Usages, Speak(u)
  PROVE  /\ budget' = [warned |-> Warned(u), pending |-> budget.pending]
         /\ stall'.stuckNudges = stall.stuckNudges
         /\ stall'.toolLoopWarned = stall.toolLoopWarned
         /\ stall'.searchFatigueWarned = stall.searchFatigueWarned
         /\ \E m \in {"none", "StuckFailing", Notice(u)} : Hears(m)
<1>1. heard \in [Nudges -> Nat] /\ stall \in Stall
  BY DEF TypeOK
<1>2. ASSUME NEW a, a \notin Nudges, NEW b, Say(<<a, b>>), a # b PROVE Hears(b)
  <2>1. heard' = [n \in Nudges |-> heard[n] + Tick(n \in {a, b})]
    BY <1>2, TwoMessages
  <2>2. \A n \in Nudges : Tick(n \in {a, b}) = Tick(n = b)
    BY <1>2 DEF Tick
  <2> QED
    BY <2>1, <2>2 DEF Hears
<1>3. ASSUME NEW a, a \notin Nudges, Say(<<a>>) PROVE Hears("none")
  <2>1. heard' = [n \in Nudges |-> heard[n] + Tick(n = a)]
    BY <1>3, OneMessage
  <2>2. \A n \in Nudges : Tick(n = a) = Tick(n = "none")
    BY <1>3 DEF Tick, Nudges
  <2> QED
    BY <2>1, <2>2 DEF Hears
<1>4. Say(<<>>) => Hears("none")
  <2>1. Utter("none") = <<>>
    BY DEF Utter
  <2> QED
    BY <2>1, Uttered, Zenon
<1>5. /\ "Truncated" \notin Nudges /\ "LeakDetected" \notin Nudges
      /\ "LeakRepeated" \notin Nudges /\ "Verify" \notin Nudges
      /\ "VerifyFailedContinue" \notin Nudges /\ "AnnouncedNotWritten" \notin Nudges
  BY DEF Nudges
<1>6. budget' = [warned |-> Warned(u), pending |-> budget.pending]
  <2>1. budget' = Raised(u)
    BY DEF Speak, Truncated, Leaked, VerifyBlocks, VerifyRound, RefuseZeroWrites,
           RetryEmpty, Finish
  <2> QED
    BY <2>1, Raising
<1>7. ASSUME NEW a, NEW b, Complain(a, b)
      PROVE  /\ stall'.stuckNudges = stall.stuckNudges
             /\ stall'.toolLoopWarned = stall.toolLoopWarned
             /\ stall'.searchFatigueWarned = stall.searchFatigueWarned
             /\ Say(<<a>>) \/ Say(<<a, b>>)
  BY <1>1, <1>7 DEF Complain, Stall
<1>8. CASE Truncated(u)
  <2>1. Complain("Truncated", "StuckFailing")
    BY <1>8 DEF Truncated
  <2>2. Hears("none") \/ Hears("StuckFailing")
    BY <2>1, <1>2, <1>3, <1>5, <1>7
  <2> QED
    BY <1>6, <1>7, <2>1, <2>2
<1>9. CASE Leaked(u)
  <2>1. Complain("LeakDetected", "LeakRepeated")
    BY <1>9 DEF Leaked
  <2>2. Hears("none") \/ Hears("LeakRepeated")
    BY <2>1, <1>2, <1>3, <1>5, <1>7
  <2>3. Hears("LeakRepeated") => Hears("none")
    <3>1. \A n \in Nudges : Tick(n = "LeakRepeated") = Tick(n = "none")
      BY DEF Tick, Nudges
    <3> QED
      BY <3>1 DEF Hears
  <2> QED
    BY <1>6, <1>7, <2>1, <2>2, <2>3
<1>10. ASSUME NEW out, VerifyRound(u, out) PROVE Hears("none") \/ Hears(Notice(u))
  <2>1. CASE Notice(u) = "none"
    <3>1. <<"Verify">> \o (IF Notice(u) = "none" THEN <<>> ELSE <<Notice(u)>>) = <<"Verify">>
      BY <2>1
    <3>2. Say(<<"Verify">> \o (IF Notice(u) = "none" THEN <<>> ELSE <<Notice(u)>>))
      BY <1>10 DEF VerifyRound
    <3>3. Say(<<"Verify">>)
      BY <3>1, <3>2, Zenon
    <3> QED
      BY <3>3, <1>3, <1>5
  <2>2. CASE Notice(u) # "none"
    <3>1. <<"Verify">> \o (IF Notice(u) = "none" THEN <<>> ELSE <<Notice(u)>>)
            = <<"Verify", Notice(u)>>
      BY <2>2, Joined, Zenon
    <3>2. Say(<<"Verify">> \o (IF Notice(u) = "none" THEN <<>> ELSE <<Notice(u)>>))
      BY <1>10 DEF VerifyRound
    <3>3. Say(<<"Verify", Notice(u)>>)
      BY <3>1, <3>2, Zenon
    <3>4. Notice(u) # "Verify"
      BY DEF Notice
    <3> QED
      BY <3>3, <3>4, <1>2, <1>5
  <2> QED
    BY <2>1, <2>2
<1>11. CASE ~Truncated(u) /\ ~Leaked(u)
  <2>1. stall' = stall
    BY <1>11 DEF Speak, VerifyBlocks, VerifyRound, RefuseZeroWrites, RetryEmpty, Finish,
                 progress
  <2>2. \/ \E out : VerifyRound(u, out)
        \/ \E a : a \notin Nudges /\ Say(<<a>>)
        \/ Say(<<>>)
    BY <1>11, <1>5 DEF Speak, VerifyBlocks, RefuseZeroWrites, RetryEmpty, Finish
  <2>3. Hears("none") \/ Hears(Notice(u))
    BY <2>2, <1>3, <1>4, <1>10
  <2> QED
    BY <1>6, <2>1, <2>3
<1> QED
  BY <1>8, <1>9, <1>11

\* Nor does a response without tool calls.
LEMMA SpeakHeard ==
  ASSUME TypeOK, Latched, Warning, NEW u \in Usages, Speak(u)
  PROVE  Latched' /\ Warning'
<1>1. PICK m \in {"none", "StuckFailing", Notice(u)} : Hears(m)
  BY SpeakWays
<1>2. \A n \in Nudges : heard[n] \in Nat /\ heard'[n] = heard[n] + Tick(n = m)
  BY <1>1, Hearing
<1>3. Notice(u) \in Notices
  BY Raising
<1>4. Latched'
  <2>1. /\ {"ToolLoop", "SearchFatigue", "StuckRepeating", "StuckEscalated"} \subseteq Nudges
        /\ m \notin {"ToolLoop", "SearchFatigue", "StuckRepeating", "StuckEscalated"}
    BY <1>1, <1>3 DEF Nudges, Notices
  <2>2. \A n \in {"ToolLoop", "SearchFatigue", "StuckRepeating", "StuckEscalated"} :
          heard'[n] = heard[n]
    BY <1>2, <2>1 DEF Tick
  <2> QED
    BY <2>2, SpeakWays DEF Latched
<1>5. Warning'
  <2>1. {"BudgetNotice", "BudgetWarning"} \subseteq Nudges
    BY DEF Nudges
  <2>2. /\ heard["BudgetNotice"] \in Nat
        /\ heard'["BudgetNotice"] = heard["BudgetNotice"] + Tick(m = "BudgetNotice")
        /\ heard["BudgetWarning"] \in Nat
        /\ heard'["BudgetWarning"] = heard["BudgetWarning"] + Tick(m = "BudgetWarning")
    BY <1>2, <2>1 DEF Tick
  <2>3. /\ budget' = [warned |-> Warned(u), pending |-> budget.pending]
        /\ budget.warned \in {0, 75, 90} /\ budget.pending \in Notices
    BY SpeakWays DEF TypeOK
  <2>4. CASE m \in {"none", "StuckFailing"}
    <3>1. Warned(u) >= budget.warned /\ Warned(u) \in {0, 75, 90}
      BY Raising
    <3> QED
      BY <2>2, <2>3, <2>4, <3>1 DEF Warning, Tick
  <2>5. CASE m = "BudgetNotice" /\ m = Notice(u)
    <3>1. budget.warned = 0 /\ Warned(u) = 75
      BY <2>5, Raising
    <3> QED
      BY <2>2, <2>3, <2>5, <3>1 DEF Warning, Tick
  <2>6. CASE m = "BudgetWarning" /\ m = Notice(u)
    <3>1. budget.warned < 90 /\ Warned(u) = 90
      BY <2>6, Raising
    <3> QED
      BY <2>2, <2>3, <2>6, <3>1 DEF Warning, Tick
  <2> QED
    BY <1>1, <1>3, <2>4, <2>5, <2>6 DEF Notices
<1> QED
  BY <1>4, <1>5

\* Nor does any step.
LEMMA NextHeard ==
  ASSUME TypeOK, Latched, Warning, [Next]_vars
  PROVE  Latched' /\ Warning'
<1>1. CASE Ends
  BY <1>1, EndsType DEF Latched, Warning
<1>2. ASSUME NEW u \in Usages, Speak(u) PROVE Latched' /\ Warning'
  BY <1>2, SpeakHeard
<1>3. ASSUME NEW u \in Usages, NEW calls \in Requests,
             NEW out \in [1..Len(calls) -> Outcome], CallTools(u, calls, out)
      PROVE  Latched' /\ Warning'
  <2>1. Interject(Judged(calls, out), Repeats(calls), u)
    BY <1>3 DEF CallTools
  <2> QED
    BY <2>1, JudgedShape, InterjectLatched, InterjectWarning
<1>4. CASE Disturbed
  BY <1>4, DisturbedType DEF CalmKeeps, Latched, Warning
<1> QED
  BY <1>1, <1>2, <1>3, <1>4 DEF Next, Act, Ends

-----------------------------------------------------------------------------
\* What was said once stays said.
LEMMA HeardGrows ==
  ASSUME TypeOK, NEW m, Hears(m)
  PROVE  /\ heard'["StuckEscalated"] >= heard["StuckEscalated"]
         /\ m = "StuckEscalated" => heard'["StuckEscalated"] >= 1
<1>1. "StuckEscalated" \in Nudges
  BY DEF Nudges
<1>2. /\ heard["StuckEscalated"] \in Nat
      /\ heard'["StuckEscalated"] = heard["StuckEscalated"] + Tick("StuckEscalated" = m)
  BY <1>1, Hearing
<1> QED
  BY <1>2 DEF Tick

\* One word to a stuck model ends the quiet, another word does not.
LEMMA Observed ==
  ASSUME NEW f, Observe(f), NEW m, said' = Utter(m)
  PROVE  quiet' = IF ~f \/ (m # "none" /\ m \in StuckWords) THEN 0 ELSE quiet + 1
<1>1. CASE m = "none"
  <2>1. said' = <<>>
    BY <1>1 DEF Utter
  <2>2. ~\E i \in DOMAIN said' : said'[i] \in StuckWords
    BY <2>1
  <2> QED
    BY <1>1, <2>2 DEF Observe
<1>2. CASE m # "none"
  <2>1. said' = <<m>>
    BY <1>2 DEF Utter
  <2>2. (\E i \in DOMAIN said' : said'[i] \in StuckWords) <=> m \in StuckWords
    BY <2>1
  <2> QED
    BY <1>2, <2>2 DEF Observe
<1> QED
  BY <1>1, <1>2

\* Whatever interject says, the loop has told the model or still counts.
LEMMA InterjectCounted ==
  ASSUME TypeOK, Counted, NEW u \in Usages, NEW s \in Stall, NEW r, Interject(s, r, u),
         NEW f \in BOOLEAN, Observe(f),
         s.stuck = IF f THEN stall.stuck + 1 ELSE 0,
         s.stuckNudges = stall.stuckNudges
  PROVE  Counted'
<1>1. /\ s.stuck \in Nat /\ s.stuckNudges \in Nat /\ stall.stuck \in Nat /\ quiet \in Nat
      /\ MaxStuckSteps \in Nat \ {0}
  BY BoundAssumption DEF TypeOK, Stall
<1>2. PICK h : Hears(h)
  BY InterjectWays
<1>3. heard'["StuckEscalated"] >= heard["StuckEscalated"] /\ heard["StuckEscalated"] \in Nat
      /\ heard'["StuckEscalated"] \in Nat
  BY <1>2, HeardGrows, Hearing DEF TypeOK, Nudges, Tick
<1>4. CASE IsStuck(s)
  <2> DEFINE m == StuckNudge(s, r)
             none == <<>>
             more == s.stuckNudges + 1
  <2>1. /\ stall' = [s EXCEPT !.stuck = 0, !.signature = none, !.stuckNudges = more]
        /\ Say(Utter(m))
    BY <1>4 DEF Interject
  <2>2. stall'.stuck = 0 /\ stall'.stuckNudges = more
    <3> HIDE DEF none, more, m
    <3> QED
      BY <2>1 DEF Stall
  <2>3. said' = Utter(m)
    BY <2>1 DEF Say
  <2>4. quiet' = IF ~f \/ (m # "none" /\ m \in StuckWords) THEN 0 ELSE quiet + 1
    <3> HIDE DEF m
    <3> QED
      BY <2>3, Observed
  <2>5. Hears(m)
    BY <2>1, StuckNudgeType, Uttered
  <2>6. CASE s.stuckNudges = 0
    <3>1. m \in StuckWords /\ m # "none"
      BY <2>6 DEF StuckNudge, StuckWords
    <3> HIDE DEF m
    <3> QED
      BY <1>1, <2>2, <2>4, <2>6, <3>1 DEF Counted
  <2>7. CASE s.stuckNudges = 1
    <3>1. m = "StuckEscalated"
      BY <2>7 DEF StuckNudge
    <3> HIDE DEF m
    <3>2. heard'["StuckEscalated"] >= 1
      BY <2>5, <3>1, HeardGrows
    <3> QED
      BY <1>1, <2>2, <2>7, <3>2 DEF Counted
  <2>8. CASE s.stuckNudges >= 2
    BY <1>1, <1>3, <2>2, <2>8 DEF Counted
  <2> QED
    BY <1>1, <2>6, <2>7, <2>8
<1>5. CASE ~IsStuck(s)
  <2>1. /\ stall'.stuck = s.stuck /\ stall'.stuckNudges = s.stuckNudges
        /\ \E m \in {"ToolLoop", "SearchFatigue", "none", "BudgetNotice", "BudgetWarning"} :
             said' = Utter(m)
    <3>1. CASE stall' = [s EXCEPT !.toolLoopWarned = TRUE] /\ Say(<<"ToolLoop">>)
      <4>1. said' = Utter("ToolLoop")
        BY <3>1 DEF Say, Utter
      <4> QED
        BY <3>1, <4>1 DEF Stall
    <3>2. CASE stall' = [s EXCEPT !.searchFatigueWarned = TRUE] /\ Say(<<"SearchFatigue">>)
      <4>1. said' = Utter("SearchFatigue")
        BY <3>2 DEF Say, Utter
      <4> QED
        BY <3>2, <4>1 DEF Stall
    <3>3. CASE stall' = s /\ Say(Utter(Queue(Notice(u))))
      BY <3>3, QueueType DEF Say, Notices
    <3> QED
      BY <1>5, <3>1, <3>2, <3>3 DEF Interject
  <2>2. PICK m \in {"ToolLoop", "SearchFatigue", "none", "BudgetNotice", "BudgetWarning"} :
          said' = Utter(m)
    BY <2>1
  <2>3. m \notin StuckWords
    BY <2>2 DEF StuckWords
  <2>4. quiet' = IF f THEN quiet + 1 ELSE 0
    BY <2>2, <2>3, Observed
  <2> QED
    BY <1>1, <1>3, <1>5, <2>1, <2>4 DEF Counted, IsStuck
<1> QED
  BY <1>4, <1>5

\* Complaining says what the loop has counted, too.
LEMMA ComplainCounted ==
  ASSUME TypeOK, Counted, NEW a, NEW b, a \notin StuckWords, b \in StuckWords, Complain(a, b),
         heard'["StuckEscalated"] >= heard["StuckEscalated"],
         heard["StuckEscalated"] \in Nat, heard'["StuckEscalated"] \in Nat
  PROVE  Counted'
<1>1. /\ stall \in Stall /\ stall.stuck \in Nat /\ stall.stuckNudges \in Nat /\ quiet \in Nat
      /\ MaxStuckSteps \in Nat \ {0}
  BY BoundAssumption DEF TypeOK, Stall
<1>2. CASE stall.stuck + 1 >= MaxStuckSteps
  <2>1. stall' = [stall EXCEPT !.stuck = 0] /\ said' = <<a, b>> /\ Observe(TRUE)
    BY <1>2 DEF Complain, Say
  <2>2. stall'.stuck = 0 /\ stall'.stuckNudges = stall.stuckNudges
    BY <1>1, <2>1 DEF Stall
  <2>3. 2 \in DOMAIN said' /\ said'[2] \in StuckWords
    BY <2>1
  <2>4. quiet' = 0
    BY <2>1, <2>3 DEF Observe
  <2> QED
    BY <1>1, <2>2, <2>4 DEF Counted
<1>3. CASE ~(stall.stuck + 1 >= MaxStuckSteps)
  <2>1. stall' = [stall EXCEPT !.stuck = @ + 1] /\ said' = <<a>> /\ Observe(TRUE)
    BY <1>3 DEF Complain, Say
  <2>2. stall'.stuck = stall.stuck + 1 /\ stall'.stuckNudges = stall.stuckNudges
    BY <1>1, <2>1 DEF Stall
  <2>3. ~\E i \in DOMAIN said' : said'[i] \in StuckWords
    BY <2>1
  <2>4. quiet' = quiet + 1
    BY <2>1, <2>3 DEF Observe
  <2> QED
    BY <1>1, <1>3, <2>2, <2>4 DEF Counted
<1> QED
  BY <1>2, <1>3

\* No step loses count of the steps that got nowhere.
LEMMA NextCounted ==
  ASSUME TypeOK, Counted, [Next]_vars
  PROVE  Counted'
<1>1. ASSUME UNCHANGED <<stall, quiet, heard>> PROVE Counted'
  BY <1>1 DEF Counted
<1>2. CASE Ends
  BY <1>1, <1>2, EndsType
<1>3. CASE Disturbed
  BY <1>1, <1>3, DisturbedType DEF CalmKeeps
<1>4. ASSUME NEW u \in Usages, Speak(u) PROVE Counted'
  <2>1. PICK m : Hears(m)
    BY <1>4, SpeakWays
  <2>2. /\ heard'["StuckEscalated"] >= heard["StuckEscalated"]
        /\ heard["StuckEscalated"] \in Nat /\ heard'["StuckEscalated"] \in Nat
    BY <2>1, HeardGrows, Hearing DEF Nudges, Tick
  <2>3. CASE Truncated(u)
    <3>1. Complain("Truncated", "StuckFailing")
      BY <2>3 DEF Truncated
    <3>2. "Truncated" \notin StuckWords /\ "StuckFailing" \in StuckWords
      BY DEF StuckWords
    <3> QED
      BY <2>2, <3>1, <3>2, ComplainCounted
  <2>4. CASE Leaked(u)
    <3>1. Complain("LeakDetected", "LeakRepeated")
      BY <2>4 DEF Leaked
    <3>2. "LeakDetected" \notin StuckWords /\ "LeakRepeated" \in StuckWords
      BY DEF StuckWords
    <3> QED
      BY <2>2, <3>1, <3>2, ComplainCounted
  <2>5. CASE ~Truncated(u) /\ ~Leaked(u)
    <3>1. UNCHANGED <<stall, quiet>>
      BY <1>4, <2>5 DEF Speak, VerifyBlocks, VerifyRound, RefuseZeroWrites, RetryEmpty,
                        Finish, progress
    <3>2. stall.stuckNudges \in Nat
      BY DEF TypeOK, Stall
    <3> QED
      BY <2>2, <3>1, <3>2 DEF Counted
  <2> QED
    BY <2>3, <2>4, <2>5
<1>5. ASSUME NEW u \in Usages, NEW calls \in Requests,
             NEW out \in [1..Len(calls) -> Outcome], CallTools(u, calls, out)
      PROVE  Counted'
  <2> DEFINE f == Succeeded(calls, out) = {} \/ Repeats(calls)
             s == Judged(calls, out)
  <2>1. Interject(s, Repeats(calls), u) /\ Observe(f)
    BY <1>5 DEF CallTools
  <2>2. /\ s \in Stall /\ s.stuckNudges = stall.stuckNudges
        /\ s.stuck = IF f THEN stall.stuck + 1 ELSE 0
    BY JudgedShape
  <2>3. f \in BOOLEAN
    OBVIOUS
  <2> HIDE DEF f, s
  <2> QED
    BY <2>1, <2>2, <2>3, InterjectCounted
<1> QED
  BY <1>2, <1>3, <1>4, <1>5 DEF Next, Act, Ends

-----------------------------------------------------------------------------
\* A step keeps the gate, and opens it only for a finish that is earned.
LEMMA NextEarned ==
  ASSUME TypeOK, TypeOK', Gated, FinishIsEarned, [Next]_vars
  PROVE  Gated' /\ FinishIsEarned'
<1>1. /\ gate \in Gate /\ gate.zeroWrites \in Nat /\ gate.verifiedOnce \in BOOLEAN
      /\ verified \in [out : {"none", "ok", "failed"}, current : BOOLEAN]
  BY DEF TypeOK, Gate
<1>2. CASE Ends
  <2>1. Gated'
    BY <1>2, EndsType DEF Gated
  <2>2. pc' = "finished" => pc = "finished"
    BY <1>2 DEF Ends, ChatFails, OutOfSteps, vars
  <2> QED
    BY <1>2, <2>1, <2>2, EndsType DEF FinishIsEarned
<1>3. ASSUME NEW u \in Usages, Speak(u), \A r \in Answers : ~Finish(u, r)
      PROVE  Gated' /\ FinishIsEarned'
  <2>1. pc' = "running"
    BY <1>3 DEF Speak, Truncated, Leaked, VerifyBlocks, VerifyRound, RefuseZeroWrites,
                RetryEmpty, Responds
  <2>2. ASSUME Truncated(u) \/ Leaked(u) PROVE Gated'
    BY <2>2 DEF Truncated, Leaked, Gated
  <2>3. ASSUME VerifyBlocks(u) PROVE Gated'
    <3>1. gate' = [gate EXCEPT !.blocked = FALSE, !.verifiedOnce = FALSE]
      BY <2>3 DEF VerifyBlocks
    <3>2. gate'.verifiedOnce = FALSE /\ gate'.zeroWrites = gate.zeroWrites
      BY <1>1, <3>1 DEF Gate
    <3> QED
      BY <3>2 DEF Gated
  <2>4. ASSUME NEW out, VerifyRound(u, out) PROVE Gated'
    <3> DEFINE b == (out = "failed")
    <3>1. /\ gate' = [gate EXCEPT !.verifiedOnce = TRUE, !.blocked = b]
          /\ verified' = [out |-> out, current |-> TRUE]
      BY <2>4 DEF VerifyRound
    <3>2. gate'.blocked = b /\ gate'.zeroWrites = gate.zeroWrites
      <4> HIDE DEF b
      <4> QED
        BY <1>1, <3>1 DEF Gate
    <3> QED
      BY <3>1, <3>2 DEF Gated
  <2>5. ASSUME RefuseZeroWrites(u) PROVE Gated'
    <3>1. /\ gate' = [gate EXCEPT !.zeroWrites = @ + 1] /\ verified' = verified
          /\ gate.zeroWrites < MaxZeroWriteRefusals
      BY <2>5 DEF RefuseZeroWrites, WritesOwed
    <3>2. /\ gate'.zeroWrites = gate.zeroWrites + 1
          /\ gate'.blocked = gate.blocked /\ gate'.verifiedOnce = gate.verifiedOnce
      BY <1>1, <3>1 DEF Gate
    <3> QED
      BY <1>1, <3>1, <3>2, BoundAssumption DEF Gated
  <2>6. ASSUME RetryEmpty(u) PROVE Gated'
    <3>1. gate' = [gate EXCEPT !.emptyRetried = TRUE] /\ verified' = verified
      BY <2>6 DEF RetryEmpty
    <3>2. /\ gate'.zeroWrites = gate.zeroWrites
          /\ gate'.blocked = gate.blocked /\ gate'.verifiedOnce = gate.verifiedOnce
      BY <1>1, <3>1 DEF Gate
    <3> QED
      BY <3>1, <3>2 DEF Gated
  <2>7. Gated'
    BY <1>3, <2>2, <2>3, <2>4, <2>5, <2>6 DEF Speak
  <2> QED
    BY <2>1, <2>7 DEF FinishIsEarned
<1>4. ASSUME NEW u \in Usages, NEW r \in Answers, Finish(u, r)
      PROVE  Gated' /\ FinishIsEarned'
  <2>1. Gated'
    BY <1>4 DEF Finish, Gated
  <2>2. /\ UNCHANGED <<gate, writes, verified>>
        /\ ~gate.blocked /\ ~MustVerify /\ ~WritesOwed
    BY <1>4 DEF Finish
  <2>3. ~SkipVerify => gate.verifiedOnce
    BY <2>2 DEF MustVerify, VerifyWanted
  <2>4. gate.verifiedOnce => verified.out # "failed"
    BY <2>2 DEF Gated
  <2>5. VerifyOnZeroWrites /\ writes = 0 => gate.zeroWrites = MaxZeroWriteRefusals
    BY <1>1, <2>2, BoundAssumption DEF WritesOwed, Gated
  <2> QED
    BY <2>1, <2>2, <2>3, <2>4, <2>5 DEF FinishIsEarned
<1>5. ASSUME NEW u \in Usages, NEW calls \in Requests,
             NEW out \in [1..Len(calls) -> Outcome], CallTools(u, calls, out)
      PROVE  Gated' /\ FinishIsEarned'
  <2>1. pc' = "running" /\ gate' = gate
    BY <1>5 DEF CallTools, Responds
  <2>2. verified'.out = verified.out
    <3>1. \E b : verified' = [verified EXCEPT !.current = @ /\ b]
      BY <1>5 DEF CallTools
    <3> QED
      BY <1>1, <3>1
  <2> QED
    BY <2>1, <2>2 DEF Gated, FinishIsEarned
<1>6. CASE Disturbed
  BY <1>6, DisturbedType DEF CalmKeeps, Gated, FinishIsEarned
<1> QED
  BY <1>2, <1>3, <1>4, <1>5, <1>6 DEF Next, Act, Ends

\* The guards hold the repeats in bounds.
LEMMA NextBounded ==
  ASSUME TypeOK, Recorded, RepeatsAreRefused, [Next]_vars
  PROVE  Recorded' /\ RepeatsAreRefused'
<1>1. ASSUME UNCHANGED <<seen, written>> PROVE Recorded' /\ RepeatsAreRefused'
  BY <1>1 DEF Recorded, RepeatsAreRefused
<1>2. ASSUME NEW u \in Usages, NEW calls \in Requests,
             NEW out \in [1..Len(calls) -> Outcome], CallTools(u, calls, out)
      PROVE  Recorded' /\ RepeatsAreRefused'
  <2>1. /\ seen' = Remembered(calls, out)
        /\ written' = [p \in Paths |-> written[p] + Writes(calls, out, p)]
    BY <1>2 DEF CallTools, Writes
  <2>2. /\ seen'.wrote = seen.wrote \union
             {calls[i].path : i \in {j \in Succeeded(calls, out) : calls[j].tool = "write"}}
        /\ seen'.failed \in {[c \in Calls |-> 0],
                             [c \in Calls |-> Failures(calls, out, c)]}
    BY <2>1 DEF Remembered
  <2>3. ASSUME NEW p \in Paths
        PROVE  /\ written'[p] > 0 => p \in seen'.wrote
               /\ written'[p] <= MaxCalls
    <3>1. /\ written[p] \in Nat /\ Writes(calls, out, p) \in 0..MaxCalls
          /\ written'[p] = written[p] + Writes(calls, out, p)
      BY <2>1, WrittenCount DEF TypeOK
    <3>2. CASE Writes(calls, out, p) > 0
      <4>1. PICK i \in Succeeded(calls, out) : calls[i] = [tool |-> "write", path |-> p]
        BY <3>2, WrittenCount
      <4>2. calls[i].tool = "write" /\ calls[i].path = p
        BY <4>1
      <4>3. p \in seen'.wrote
        BY <2>2, <4>2
      <4>4. ~Refused(calls[i])
        BY Runs DEF Executed
      <4>5. p \notin seen.wrote
        BY <4>2, <4>4 DEF Refused
      <4>6. written[p] = 0
        BY <3>1, <4>5 DEF Recorded
      <4> QED
        BY <3>1, <4>3, <4>6, BoundAssumption
    <3>3. CASE Writes(calls, out, p) = 0
      <4>1. written'[p] = written[p]
        BY <3>1, <3>3
      <4> QED
        BY <2>2, <4>1 DEF Recorded, RepeatsAreRefused
    <3> QED
      BY <3>1, <3>2, <3>3, BoundAssumption
  <2>4. \A c \in Calls : seen'.failed[c] <= MaxIdenticalAttempts - 2 + MaxCalls
    <3>1. CASE seen'.failed = [c \in Calls |-> 0]
      BY <3>1, BoundAssumption
    <3>2. CASE seen'.failed = [c \in Calls |-> Failures(calls, out, c)]
      BY <3>2, FailureCount DEF RepeatsAreRefused
    <3> QED
      BY <2>2, <3>1, <3>2
  <2> QED
    BY <2>3, <2>4 DEF Recorded, RepeatsAreRefused
<1>3. CASE Ends
  BY <1>1, <1>3, EndsType DEF world
<1>4. ASSUME NEW u \in Usages, Speak(u) PROVE Recorded' /\ RepeatsAreRefused'
  BY <1>1, <1>4, SpeakType DEF SpeakKeeps, world
<1>5. CASE Disturbed
  BY <1>1, <1>5, DisturbedType DEF CalmKeeps
<1> QED
  BY <1>2, <1>3, <1>4, <1>5 DEF Next, Act, Ends

\* The invariant is inductive.
LEMMA NextInv == Inv /\ [Next]_vars => Inv'
<1> SUFFICES ASSUME Inv, [Next]_vars PROVE Inv'
  OBVIOUS
<1>1. TypeOK /\ TypeOK'
  BY NextType DEF Inv
<1> QED
  BY <1>1, NextCounted, NextHeard, NextEarned, NextBounded DEF Inv

-----------------------------------------------------------------------------
\* Agent.run keeps its counters, latches and queues of the types it declares.
THEOREM TypeIsOK == Spec => []TypeOK
<1>1. Inv => TypeOK
  BY DEF Inv
<1> QED
  BY <1>1, InitInv, NextInv, PTL DEF Spec

\* No MaxStuckSteps fruitless steps pass without a word to the stuck model before the
\* escalated one was said, for every limit and every order of the responses.
THEOREM StuckIsAlwaysSaid == Spec => []StuckIsSaid
<1>1. Inv => StuckIsSaid
  <2> SUFFICES ASSUME Inv PROVE StuckIsSaid
    OBVIOUS
  <2>1. TypeOK /\ Counted /\ Latched
    BY DEF Inv
  <2>2. /\ heard["StuckEscalated"] \in Nat /\ stall.stuckNudges \in Nat
        /\ heard["StuckEscalated"] <= Tick(stall.stuckNudges >= 2)
    BY <2>1 DEF TypeOK, Stall, Nudges, Latched
  <2> QED
    BY <2>1, <2>2, BoundAssumption DEF Counted, StuckIsSaid, Tick
<1> QED
  BY <1>1, InitInv, NextInv, PTL DEF Spec

\* Every advisory of interject and of the context budget is heard at most once in a
\* run, however long it is and whatever competes for the slot.
THEOREM AdvisoriesComeOnce == Spec => []AdvisoriesOnce
<1>1. Inv => AdvisoriesOnce
  <2>1. SUFFICES ASSUME Inv PROVE AdvisoriesOnce
    OBVIOUS
  <2>2. TypeOK /\ Latched /\ Warning
    BY <2>1 DEF Inv
  <2>3. \A n \in Nudges : heard[n] \in Nat
    BY <2>2 DEF TypeOK
  <2> QED
    BY <2>2, <2>3 DEF Latched, Warning, Tick, Nudges, AdvisoriesOnce
<1> QED
  BY <1>1, InitInv, NextInv, PTL DEF Spec

\* A run that finishes has passed every finish check of its configuration.
THEOREM TheFinishIsEarned == Spec => []FinishIsEarned
<1>1. Inv => FinishIsEarned
  BY DEF Inv
<1> QED
  BY <1>1, InitInv, NextInv, PTL DEF Spec

\* No call is run again and again while nothing changes, and no file is written
\* again: the guards' limits hold up to the calls of one response.
THEOREM RepeatsStayRefused == Spec => []RepeatsAreRefused
<1>1. Inv => RepeatsAreRefused
  BY DEF Inv
<1> QED
  BY <1>1, InitInv, NextInv, PTL DEF Spec

\* A context notice that lost its slot to a nudge waits: interject forgets it
\* only for a higher one.
THEOREM PendingIsKept == Spec => PendingSurvives
<1> DEFINE Waits == budget.pending # "none" /\ pc' = "running"
                      => \/ budget'.pending \in {budget.pending, "BudgetWarning"}
                         \/ said' \in {<<budget.pending>>, <<"BudgetWarning">>}
<1>1. ASSUME Inv, [Next]_vars PROVE [Waits]_vars
  <2>1. TypeOK /\ Warning
    BY <1>1 DEF Inv
  <2>2. CASE Ends
    BY <2>1, <2>2, EndsType
  <2>3. ASSUME NEW u \in Usages, Speak(u) PROVE Waits
    BY <2>1, <2>3, SpeakWays
  <2>4. ASSUME NEW u \in Usages, NEW calls \in Requests,
               NEW out \in [1..Len(calls) -> Outcome], CallTools(u, calls, out)
        PROVE  Waits
    <3>1. Interject(Judged(calls, out), Repeats(calls), u) /\ Judged(calls, out) \in Stall
      BY <2>1, <2>4, JudgedShape DEF CallTools
    <3>2. \/ budget'.pending = Queue(Notice(u))
          \/ Queue(Notice(u)) # "none" => said' = <<Queue(Notice(u))>>
      BY <2>1, <3>1, InterjectWays
    <3>3. SUFFICES ASSUME budget.pending # "none" PROVE Waits
      OBVIOUS
    <3>4. Notice(u) # "BudgetNotice"
      <4>1. SUFFICES ASSUME Notice(u) = "BudgetNotice" PROVE FALSE
        OBVIOUS
      <4>2. budget.warned = 0
        BY <2>1, <4>1, Raising
      <4>3. heard["BudgetNotice"] \in Nat /\ heard["BudgetWarning"] \in Nat
        BY <2>1 DEF TypeOK, Nudges
      <4>4. budget.pending \in {"BudgetNotice", "BudgetWarning"}
        BY <2>1, <3>3 DEF TypeOK, Notices
      <4> QED
        BY <2>1, <4>2, <4>3, <4>4 DEF Warning, Tick
    <3>5. Queue(Notice(u)) \in {budget.pending, "BudgetWarning"}
      BY <2>1, <3>4, Raising DEF Queue, Notices
    <3> QED
      BY <3>2, <3>3, <3>5
  <2>5. CASE Disturbed
    BY <2>5, DisturbedType, <2>1 DEF CalmKeeps
  <2> QED
    BY <1>1, <2>2, <2>3, <2>4, <2>5 DEF Next, Act, Ends
<1>2. Spec => []Inv
  BY InitInv, NextInv, PTL DEF Spec
<1>3. Inv /\ [Next]_vars => [Waits]_vars
  BY <1>1
<1> QED
  BY <1>2, <1>3, PTL DEF Spec, PendingSurvives

-----------------------------------------------------------------------------
\* A change the loop was told of invalidates the reads.
LEMMA ToldInvalidates ==
  ASSUME NEW calls \in Requests, NEW out, Told(calls, out)
  PROVE  Invalidates(calls, out)
<1>1. PICK i \in Succeeded(calls, out) : calls[i].tool \in Concurrent => out[i].muts = 1
  BY DEF Told
<1>2. CASE calls[i].tool \in Concurrent
  <2> DEFINE S == {j \in Succeeded(calls, out) :
                     calls[j].tool \in MutatingTools \/ out[j].muts = 1}
  <2>1. S \in SUBSET DOMAIN calls /\ S # {}
    BY <1>1, <1>2, Runs
  <2>2. Cardinality(S) > 0
    BY <2>1, SomeCalls, BoundAssumption
  <2> QED
    BY <2>2 DEF Invalidates, Mutations
<1>3. CASE calls[i].tool \notin Concurrent
  BY <1>3 DEF Invalidates
<1> QED
  BY <1>2, <1>3

\* Whatever the tools do and whoever else changes the files, a change that the loop
\* was told of ends every refusal of a read.
THEOREM ToldChangesAlwaysEndRefusals == Spec => []ToldChangesEndRefusals
<1>1. Init => ToldChangesEndRefusals
  BY DEF Init, ToldChangesEndRefusals
<1>2. ASSUME Inv, ToldChangesEndRefusals, [Next]_vars
      PROVE  ToldChangesEndRefusals'
  <2>1. ASSUME UNCHANGED <<seen, fresh, missed>> PROVE ToldChangesEndRefusals'
    BY <1>2, <2>1 DEF ToldChangesEndRefusals
  <2>2. ASSUME NEW u \in Usages, NEW calls \in Requests,
               NEW out \in [1..Len(calls) -> Outcome], CallTools(u, calls, out)
        PROVE  ToldChangesEndRefusals'
    <3> DEFINE changed == \E i \in Executed(calls) : out[i].changed
               reads == {calls[i] : i \in {j \in Succeeded(calls, out) :
                                              calls[j].tool \in Idempotent}}
    <3>1. /\ seen' = Remembered(calls, out)
          /\ fresh' = IF changed THEN {} ELSE fresh \union reads
          /\ ~Told(calls, out) =>
               missed' = (missed \union fresh \union reads) \ fresh'
      BY <2>2 DEF CallTools
    <3>2. seen'.idempotent = IF Invalidates(calls, out) THEN {}
                             ELSE seen.idempotent \union reads
      BY <3>1 DEF Remembered
    <3>3. CASE Invalidates(calls, out)
      BY <3>2, <3>3 DEF ToldChangesEndRefusals
    <3>4. CASE ~Invalidates(calls, out)
      <4>1. ~Told(calls, out)
        BY <3>4, ToldInvalidates
      <4> HIDE DEF changed, reads
      <4> QED
        BY <1>2, <3>1, <3>2, <3>4, <4>1 DEF ToldChangesEndRefusals
    <3> QED
      BY <3>3, <3>4
  <2>3. CASE Ends
    BY <2>1, <2>3, EndsType, <1>2 DEF world, Inv
  <2>4. ASSUME NEW u \in Usages, Speak(u) PROVE ToldChangesEndRefusals'
    BY <1>2, <2>1, <2>4, SpeakType DEF SpeakKeeps, world, Inv
  <2>5. CASE Disturbed
    BY <1>2, <2>5 DEF Disturbed, ToldChangesEndRefusals
  <2> QED
    BY <1>2, <2>2, <2>3, <2>4, <2>5 DEF Next, Act, Ends
<1>3. Inv /\ ToldChangesEndRefusals /\ [Next]_vars => Inv' /\ ToldChangesEndRefusals'
  BY <1>2, NextInv
<1> QED
  BY <1>1, <1>3, InitInv, PTL DEF Spec
=============================================================================
