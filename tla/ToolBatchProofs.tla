--------------------------- MODULE ToolBatchProofs ---------------------------
(***************************************************************************)
(* Goroutines, semaphore and join keep StepPromise for every number of     *)
(* calls, of slots and of steps of a subagent.                             *)
(***************************************************************************)
EXTENDS ToolBatch, FiniteSetTheorems, TLAPS

\* The calls that hold a slot of the semaphore.
Delegates == {i \in Indices : call[i] = "running" /\ kind[i] = "delegate"}

\* How far a call can be while the main goroutine is where it is.
Placed ==
  /\ place = "spawn" => \A i \in Indices : call[i] = "waiting"
  /\ place = "join" =>
       \A i \in Indices : i \in ToRun(Concurrent) <=> call[i] # "waiting"
  /\ place \in {"exclusive", "answered"} =>
       /\ \A i \in ToRun(Concurrent) : call[i] = "returned"
       /\ \A i \in Indices : call[i] # "spawned"
       /\ \A i \in refused : call[i] = "waiting"
       /\ \A i, j \in ToRun(Exclusive) :
            j < i /\ call[i] # "waiting" => call[j] = "returned"
  /\ place # "answered" => history = <<>>

Inv == TypeOK /\ Placed /\ slots = Cardinality(Delegates)

-----------------------------------------------------------------------------
\* The calls are numbered, and finitely many.
LEMMA Numbered == ASSUME TypeOK PROVE Indices \subseteq Nat /\ IsFiniteSet(Indices)
<1>1. PICK n \in 1..MaxCalls : kind \in [1..n -> Concurrent \union Exclusive]
  BY DEF TypeOK
<1>2. Indices = 1..n /\ n \in Nat
  BY <1>1, BoundAssumption DEF Indices
<1> QED
  BY <1>2, FS_Interval

LEMMA DelegatesFinite == ASSUME TypeOK PROVE IsFiniteSet(Delegates)
<1>1. Delegates \in SUBSET Indices
  BY DEF Delegates
<1> QED
  BY <1>1, Numbered, FS_Subset

\* A call has one mode.
LEMMA OneMode ==
  ASSUME TypeOK, NEW i \in Indices
  PROVE  /\ kind[i] \in Concurrent \/ kind[i] \in Exclusive
         /\ ~(kind[i] \in Concurrent /\ kind[i] \in Exclusive)
<1>1. PICK n \in 1..MaxCalls : kind \in [1..n -> Concurrent \union Exclusive]
  BY DEF TypeOK
<1>2. kind[i] \in Concurrent \union Exclusive
  BY <1>1 DEF Indices
<1> QED
  BY <1>2 DEF Concurrent, Exclusive

LEMMA InitInv == Init => Inv
<1> SUFFICES ASSUME Init PROVE Inv
  OBVIOUS
<1>1. TypeOK
  BY BoundAssumption DEF Init, TypeOK, Indices, Idle, NoResult, Concurrent, Exclusive
<1>2. Placed
  BY DEF Init, Placed, Indices
<1>3. Delegates = {}
  BY DEF Init, Delegates, Indices
<1> QED
  BY <1>1, <1>2, <1>3, FS_EmptySet DEF Inv, Init

-----------------------------------------------------------------------------
(***************************************************************************)
(* Every step keeps the types.                                             *)
(***************************************************************************)
LEMMA CallsKeepType ==
  ASSUME TypeOK, NEW i \in Indices,
         \/ RunExclusive(i) \/ SubEnds(i) \/ LetsGo(i)
         \/ \E tool \in {"read", "write"} : SubBegins(i, tool)
  PROVE  TypeOK'
<1>1. CASE RunExclusive(i)
  BY <1>1 DEF TypeOK, RunExclusive, MayLinger, Indices
<1>2. CASE SubEnds(i)
  BY <1>2 DEF TypeOK, SubEnds, Indices
<1>3. CASE LetsGo(i)
  BY <1>3 DEF TypeOK, LetsGo, Indices
<1>4. ASSUME NEW tool \in {"read", "write"}, SubBegins(i, tool) PROVE TypeOK'
  BY <1>4, BoundAssumption DEF TypeOK, SubBegins, MayLinger, Indices
<1> QED
  BY <1>1, <1>2, <1>3, <1>4

LEMMA MainKeepsType ==
  ASSUME TypeOK, Spawn \/ Join \/ Answer PROVE TypeOK'
<1>1. CASE Spawn
  BY <1>1 DEF TypeOK, Spawn, Indices
<1>2. CASE Join
  BY <1>2 DEF TypeOK, Join, Indices
<1>3. CASE Answer
  BY <1>3 DEF TypeOK, Answer, Answers, Indices
<1> QED
  BY <1>1, <1>2, <1>3

\* A call that begins or ends moves the slots with the delegates.
LEMMA BeginKeeps ==
  ASSUME Inv, NEW i \in Indices, Begin(i) PROVE Inv'
<1> USE DEF Inv
<1>0. Indices' = Indices /\ kind' = kind
  BY DEF Begin, Indices
<1>1. place = "join" /\ i \in ToRun(Concurrent)
  BY DEF Begin, Placed, TypeOK
<1>2. call' = [call EXCEPT ![i] = "running"] /\ call[i] = "spawned" /\ DOMAIN call = Indices
  BY DEF Begin, TypeOK
<1>3. Placed'
  BY <1>0, <1>1, <1>2 DEF Placed, Begin, ToRun
<1>4. CASE kind[i] = "delegate"
  <2>1. Delegates' = Delegates \cup {i} /\ i \notin Delegates
    BY <1>0, <1>2, <1>4 DEF Delegates
  <2>2. slots' = Cardinality(Delegates')
    BY <1>4, <2>1, DelegatesFinite, FS_AddElement DEF Begin
  <2>3. slots' \in 0..MaxConcurrent
    BY <1>4, BoundAssumption DEF Begin, SlotFree, TypeOK
  <2>4. TypeOK'
    BY <1>0, <1>2, <2>3 DEF TypeOK, Begin, Indices
  <2> QED
    BY <1>3, <2>2, <2>4
<1>5. CASE kind[i] # "delegate"
  <2>1. Delegates' = Delegates /\ slots' = slots
    BY <1>0, <1>2, <1>5 DEF Delegates, Begin
  <2>2. TypeOK'
    BY <1>0, <1>2, <2>1 DEF TypeOK, Begin, Indices
  <2> QED
    BY <1>3, <2>1, <2>2
<1> QED
  BY <1>4, <1>5

LEMMA ReturnsKeeps ==
  ASSUME Inv, NEW i \in Indices, NEW ok \in BOOLEAN, Returns(i, ok) PROVE Inv'
<1> USE DEF Inv
<1>0. Indices' = Indices /\ kind' = kind
  BY DEF Returns, Indices
<1>2. call' = [call EXCEPT ![i] = "returned"] /\ call[i] = "running" /\ DOMAIN call = Indices
  BY DEF Returns, TypeOK
<1>3. Placed'
  BY <1>0, <1>2 DEF Placed, Returns, ToRun
<1>r. result' \in [Indices -> [content : {"none", "output", "refusal"}, err : BOOLEAN]]
  BY DEF Returns, TypeOK, Content
<1>4. CASE kind[i] = "delegate"
  <2>1. Delegates' = Delegates \ {i} /\ i \in Delegates
    BY <1>0, <1>2, <1>4 DEF Delegates
  <2>r. slots' = slots - 1
    BY <1>4 DEF Returns, Released
  <2>c. Cardinality(Delegates') = Cardinality(Delegates) - 1 /\ Cardinality(Delegates') \in Nat
    BY <2>1, DelegatesFinite, FS_RemoveElement, FS_CardinalityType
  <2>2. slots' = Cardinality(Delegates') /\ slots' = slots - 1 /\ slots' \in Nat
    BY <2>r, <2>c
  <2>3. slots' \in 0..MaxConcurrent
    BY <2>2, BoundAssumption DEF TypeOK
  <2>4. TypeOK'
    BY <1>0, <1>2, <1>r, <2>3 DEF TypeOK, Returns, Indices
  <2> QED
    BY <1>3, <2>2, <2>4
<1>5. CASE kind[i] # "delegate"
  <2>1. Delegates' = Delegates /\ slots' = slots
    BY <1>0, <1>2, <1>5 DEF Delegates, Returns, Released
  <2>2. TypeOK'
    BY <1>0, <1>2, <1>r, <2>1 DEF TypeOK, Returns, Indices
  <2> QED
    BY <1>3, <2>1, <2>2
<1> QED
  BY <1>4, <1>5

\* The other actions leave the delegates that run alone.
LEMMA OthersKeep ==
  ASSUME Inv,
         \/ Spawn \/ Join \/ Answer
         \/ \E i \in Indices : \/ RunExclusive(i) \/ SubEnds(i) \/ LetsGo(i)
                               \/ \E tool \in {"read", "write"} : SubBegins(i, tool)
  PROVE  Inv'
<1> USE DEF Inv
<1>t. TypeOK'
  BY CallsKeepType, MainKeepsType
<1>0. Indices' = Indices /\ kind' = kind /\ slots' = slots /\ refused' = refused
  BY DEF Spawn, Join, Answer, RunExclusive, SubEnds, LetsGo, SubBegins, Indices
<1>1. CASE Spawn
  <2>1. /\ call' = [i \in Indices |-> IF i \in ToRun(Concurrent) THEN "spawned" ELSE call[i]]
        /\ place' = "join" /\ history' = <<>>
        /\ \A i \in Indices : call[i] = "waiting"
    BY <1>1 DEF Spawn, Placed
  <2>2. Delegates' = Delegates
    BY <1>0, <2>1 DEF Delegates
  <2>3. ToRun(Concurrent)' = ToRun(Concurrent)
    BY <1>0 DEF ToRun
  <2>4. \A i \in Indices : call'[i] # "waiting" <=> i \in ToRun(Concurrent)
    BY <2>1
  <2>5. Placed'
    BY <1>0, <2>1, <2>3, <2>4 DEF Placed
  <2> QED
    BY <1>t, <1>0, <2>2, <2>5
<1>2. CASE Join
  <2>1. Delegates' = Delegates
    BY <1>0, <1>2 DEF Join, Delegates
  <2>2. place = "join" /\ place' = "exclusive" /\ call' = call /\ history' = history
    BY <1>2 DEF Join
  <2>3. \A i \in Indices : i \in ToRun(Concurrent) => call[i] = "returned"
    BY <1>2 DEF Join, AllJoined
  <2>4. \A i \in Indices : i \notin ToRun(Concurrent) => call[i] = "waiting"
    BY <2>2 DEF Placed
  <2>5. \A i \in ToRun(Exclusive) : i \in Indices /\ i \notin ToRun(Concurrent)
    BY OneMode DEF ToRun
  <2>6. \A i \in refused : i \in Indices /\ i \notin ToRun(Concurrent)
    BY DEF ToRun, TypeOK
  <2>7. Placed'
    BY <1>0, <2>2, <2>3, <2>4, <2>5, <2>6 DEF Placed, ToRun
  <2> QED
    BY <1>t, <1>0, <2>1, <2>7
<1>3. CASE Answer
  <2>1. Delegates' = Delegates
    BY <1>0, <1>3 DEF Answer, Delegates
  <2>2. Placed'
    BY <1>0, <1>3 DEF Answer, Placed, ToRun
  <2> QED
    BY <1>t, <1>0, <2>1, <2>2
<1>4. ASSUME NEW i \in Indices, RunExclusive(i) PROVE Inv'
  <2>1. place = "exclusive" /\ i \in ToRun(Exclusive) /\ call' = [call EXCEPT ![i] = "running"]
        /\ place' = place /\ history' = history /\ kind[i] # "delegate"
    BY <1>4 DEF RunExclusive, ToRun, Exclusive
  <2>2. Delegates' = Delegates
    BY <1>0, <2>1 DEF Delegates, TypeOK
  <2>3. /\ \A j \in ToRun(Concurrent) : j # i
        /\ \A j \in refused : j # i
    BY <2>1, OneMode DEF ToRun
  <2>4. \A j \in ToRun(Exclusive) : j < i => call[j] = "returned"
    BY <1>4 DEF RunExclusive, Turn
  <2>5. \A j \in ToRun(Exclusive) : call[j] = "returned" => j # i
    BY <1>4 DEF RunExclusive, Turn
  <2>6. \A j \in ToRun(Exclusive) : i < j => call[j] = "waiting"
    BY <1>4, <2>1 DEF RunExclusive, Turn, Placed
  <2>7. ToRun(Exclusive) \subseteq Nat /\ ToRun(Exclusive) \subseteq Indices
    BY Numbered DEF ToRun
  <2>8. Placed'
    BY <1>0, <2>1, <2>3, <2>4, <2>5, <2>6, <2>7 DEF Placed, ToRun, TypeOK
  <2> QED
    BY <1>t, <1>0, <2>2, <2>8
<1>5. ASSUME NEW i \in Indices,
             SubEnds(i) \/ LetsGo(i) \/ \E tool \in {"read", "write"} : SubBegins(i, tool)
      PROVE Inv'
  <2>1. call' = call /\ place' = place /\ history' = history
    BY <1>5 DEF SubEnds, LetsGo, SubBegins
  <2>2. Delegates' = Delegates /\ Placed'
    BY <1>0, <2>1 DEF Delegates, Placed, ToRun
  <2> QED
    BY <1>t, <1>0, <2>2
<1> QED
  BY <1>1, <1>2, <1>3, <1>4, <1>5

LEMMA StepKeeps == Inv /\ [Next]_vars => Inv'
<1> SUFFICES ASSUME Inv, [Next]_vars PROVE Inv'
  OBVIOUS
<1>1. CASE UNCHANGED vars
  BY <1>1 DEF Inv, TypeOK, Placed, Delegates, Indices, ToRun, vars
<1>2. CASE Next
  BY <1>2, BeginKeeps, ReturnsKeeps, OthersKeep DEF Next, Proceeds
<1> QED
  BY <1>1, <1>2

\* Every variable has its type, for every number of calls, slots and steps.
THEOREM StepTypeCorrect == Spec => []TypeOK
<1>1. Inv => TypeOK
  BY DEF Inv
<1> QED
  BY <1>1, InitInv, StepKeeps, PTL DEF Spec

-----------------------------------------------------------------------------
(***************************************************************************)
(* Every step is a step of StepPromise, or none.                           *)
(***************************************************************************)
Phases   == [i \in Indices |-> Phase(i)]
Answered == [n \in DOMAIN history |-> history[n].id]

LEMMA InitPromised == Init => Promise!Init
  BY DEF Init, Promise!Init, Promise!Indices, Indices, Phase

\* The abstract variables stay when the concrete ones they are made of do.
LEMMA SameIsStutter ==
  ASSUME kind' = kind, refused' = refused, history' = history,
         \A i \in Indices : Phase(i)' = Phase(i)
  PROVE  UNCHANGED Promise!vars
<1>1. Indices' = Indices
  BY DEF Indices
<1>2. [i \in Indices |-> Phase(i)]' = [i \in Indices |-> Phase(i)]
  BY <1>1
<1>3. [n \in DOMAIN history |-> history[n].id]' = [n \in DOMAIN history |-> history[n].id]
  OBVIOUS
<1> QED
  BY <1>2, <1>3 DEF Promise!vars

LEMMA SameCardinality == \A S : Promise!Cardinality(S) = Cardinality(S)
  BY DEF Promise!Cardinality, Cardinality

\* A call that runs or is over does so in StepPromise as well.
LEMMA BeginPromised ==
  ASSUME Inv, NEW i \in Indices, Begin(i) PROVE Promise!Begin(i)
<1> USE DEF Inv
<1>1. place = "join" /\ i \in ToRun(Concurrent) /\ call[i] = "spawned"
  BY DEF Begin, Placed, TypeOK
<1>2. call' = [call EXCEPT ![i] = "running"] /\ DOMAIN call = Indices /\ UNCHANGED <<kind, refused, history>>
  BY DEF Begin, TypeOK
<1>3. Phase(i) = "todo" /\ Phases' = [Phases EXCEPT ![i] = "running"]
  BY <1>1, <1>2 DEF Phase, Phases, ToRun, Indices
<1>4. Promise!Running = {j \in Indices : call[j] = "running"}
  BY DEF Promise!Running, Promise!Indices, Indices, Phase
<1>5. \A j \in Promise!Running : kind[j] \in Concurrent
  BY <1>1, <1>4 DEF Placed, ToRun
<1>6. {j \in Promise!Running : kind[j] \in {"delegate"}} = Delegates
  BY <1>4 DEF Delegates
<1>7. kind[i] \in {"delegate"} =>
        Cardinality({j \in Promise!Running : kind[j] \in {"delegate"}}) < MaxConcurrent
  BY <1>6 DEF Begin, SlotFree
<1>8. Promise!BeginConcurrent(i)
  BY <1>1, <1>5, <1>7, SameCardinality DEF Promise!BeginConcurrent, ToRun
<1> QED
  BY <1>2, <1>3, <1>8 DEF Promise!Begin, Promise!Indices, Phases, Indices

LEMMA RunExclusivePromised ==
  ASSUME Inv, NEW i \in Indices, RunExclusive(i) PROVE Promise!Begin(i)
<1> USE DEF Inv
<1>1. place = "exclusive" /\ i \in ToRun(Exclusive) /\ call[i] = "waiting"
  BY DEF RunExclusive, Turn
<1>2. call' = [call EXCEPT ![i] = "running"] /\ DOMAIN call = Indices /\ UNCHANGED <<kind, refused, history>>
  BY DEF RunExclusive, TypeOK
<1>3. Phase(i) = "todo" /\ Phases' = [Phases EXCEPT ![i] = "running"]
  BY <1>1, <1>2 DEF Phase, Phases, ToRun, Indices
<1>4. \A j \in ToRun(Exclusive) : j < i => call[j] = "returned"
  BY DEF RunExclusive, Turn
<1>5. \A j \in ToRun(Exclusive) : i < j => call[j] = "waiting"
  BY <1>1 DEF Placed
<1>6. ToRun(Exclusive) \subseteq Nat /\ i \in Nat
  BY Numbered DEF ToRun
<1>7. \A j \in Indices : call[j] # "running"
  <2>1. \A j \in ToRun(Exclusive) : call[j] # "running"
    BY <1>1, <1>4, <1>5, <1>6
  <2>2. \A j \in refused \union ToRun(Concurrent) : call[j] # "running"
    BY <1>1 DEF Placed
  <2>3. \A j \in Indices : j \in refused \/ j \in ToRun(Concurrent) \/ j \in ToRun(Exclusive)
    BY OneMode DEF ToRun
  <2> QED
    BY <2>1, <2>2, <2>3
<1>8. Promise!Running = {}
  BY <1>7 DEF Promise!Running, Promise!Indices, Indices, Phase
<1>9. \A j \in Indices : kind[j] \in Exclusive /\ j < i => Phase(j) = "over"
  BY <1>4, <1>7 DEF Phase, ToRun
<1>10. Promise!BeginExclusive(i)
  BY <1>1, <1>8, <1>9 DEF Promise!BeginExclusive, Promise!Indices, Indices, ToRun
<1> QED
  BY <1>2, <1>3, <1>10 DEF Promise!Begin, Promise!Indices, Phases, Indices

LEMMA ReturnsPromised ==
  ASSUME Inv, NEW i \in Indices, NEW ok \in BOOLEAN, Returns(i, ok) PROVE Promise!End(i)
<1>1. call[i] = "running" /\ call' = [call EXCEPT ![i] = "returned"] /\ DOMAIN call = Indices
      /\ UNCHANGED <<kind, refused, history>>
  BY DEF Returns, Inv, TypeOK
<1>2. Phase(i) = "running" /\ Phases' = [Phases EXCEPT ![i] = "over"]
  BY <1>1 DEF Phase, Phases, Indices
<1> QED
  BY <1>1, <1>2 DEF Promise!End, Promise!Indices, Phases, Indices

LEMMA AnswerPromised == ASSUME Inv, Answer PROVE Promise!Answer
<1> USE DEF Inv
<1>1. history = <<>> /\ history' = Answers /\ UNCHANGED <<kind, refused, call>>
  BY DEF Answer, Placed
<1>2. Answered = <<>> /\ Answered' = [i \in Indices |-> i]
  BY <1>1 DEF Answered, Answers, Message, Indices
<1>3. \A i \in Indices : Phase(i) = "over"
  <2>1. \A i \in ToRun(Exclusive) \union ToRun(Concurrent) : call[i] = "returned"
    BY DEF Answer, Placed
  <2>2. \A j \in Indices : j \in refused \/ j \in ToRun(Concurrent) \/ j \in ToRun(Exclusive)
    BY OneMode DEF ToRun
  <2>3. \A i \in refused : call[i] # "running"
    BY DEF Answer, Placed
  <2> QED
    BY <2>1, <2>2, <2>3 DEF Phase
<1>4. Phases' = Phases
  BY <1>1 DEF Phases, Phase, Indices
<1> QED
  BY <1>1, <1>2, <1>3, <1>4 DEF Promise!Answer, Promise!Indices, Phases, Answered, Indices

LEMMA StepPromisedNext == Inv /\ [Next]_vars => [Promise!Next]_Promise!vars
<1> SUFFICES ASSUME Inv, [Next]_vars PROVE [Promise!Next]_Promise!vars
  OBVIOUS
<1>0. Promise!Indices = Indices
  BY DEF Promise!Indices, Indices
<1>1. ASSUME NEW i \in Indices, Begin(i) \/ RunExclusive(i) PROVE Promise!Next
  BY <1>0, <1>1, BeginPromised, RunExclusivePromised DEF Promise!Next
<1>2. ASSUME NEW i \in Indices, NEW ok \in BOOLEAN, Returns(i, ok) PROVE Promise!Next
  BY <1>0, <1>2, ReturnsPromised DEF Promise!Next
<1>3. CASE Answer
  BY <1>3, AnswerPromised DEF Promise!Next
<1>4. CASE Spawn
  <2>1. \A i \in Indices : call[i] = "waiting" /\ Phase(i)' = Phase(i)
    BY <1>4 DEF Inv, Placed, Spawn, Phase
  <2> QED
    BY <1>4, <2>1, SameIsStutter DEF Spawn
<1>5. ASSUME Join \/ \E i \in Indices : \/ SubEnds(i) \/ LetsGo(i)
                                        \/ \E tool \in {"read", "write"} : SubBegins(i, tool)
      PROVE UNCHANGED Promise!vars
  <2>1. UNCHANGED <<kind, refused, call, history>>
    BY <1>5 DEF Join, SubEnds, LetsGo, SubBegins
  <2>2. \A i \in Indices : Phase(i)' = Phase(i)
    BY <2>1 DEF Phase
  <2> QED
    BY <2>1, <2>2, SameIsStutter
<1>6. CASE UNCHANGED vars
  <2>1. UNCHANGED <<kind, refused, call, history>>
    BY <1>6 DEF vars
  <2>2. \A i \in Indices : Phase(i)' = Phase(i)
    BY <2>1 DEF Phase
  <2> QED
    BY <2>1, <2>2, SameIsStutter
<1> QED
  BY <1>1, <1>2, <1>3, <1>4, <1>5, <1>6 DEF Next, Proceeds

\* Agent.run's goroutines, join and loop, with the semaphore of delegate_task,
\* implement StepPromise, whatever the number of calls and of slots.
THEOREM StepKeepsItsPromise == Spec => StepPromised
<1>1. Init => Promise!Init
  BY InitPromised
<1> QED
  BY <1>1, InitInv, StepKeeps, StepPromisedNext, PTL DEF Spec, StepPromised, Promise!Spec
=============================================================================
