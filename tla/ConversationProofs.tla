-------------------------- MODULE ConversationProofs --------------------------
(***************************************************************************)
(* A conversation stays whole and is compacted as promised, whatever the   *)
(* bounds, the number of kept steps and of calls in a response.            *)
(*                                                                         *)
(* A compaction cuts the history before the KeepSteps-th newest group, so  *)
(* it has to be shown that there is one: the only fact about the order of  *)
(* the numbers that is needed is that a finite set of them has a least     *)
(* one, from the well-foundedness of the subsets of a finite set.          *)
(***************************************************************************)
EXTENDS Conversation, FiniteSetTheorems, SequenceTheorems, WellFoundedInduction, TLAPS

-----------------------------------------------------------------------------
\* No set of T is smaller than U.
Minimal(U, T) == \A V \in T : V \subseteq U => V = U

\* Of some subsets of a finite set one is minimal.
LEMMA MinimalSubset ==
  ASSUME NEW S, IsFiniteSet(S), NEW T, T \subseteq SUBSET S, T # {}
  PROVE  \E U \in T : Minimal(U, T)
<1>1. IsWellFoundedOn(StrictSubsetOrdering(S), SUBSET S)
  BY FS_StrictSubsetOrderingWellFounded, FS_FiniteSubsetsOfFinite
<1>2. PICK U \in T : \A V \in T : ~(<<V, U>> \in StrictSubsetOrdering(S))
  BY <1>1, WFMin
<1>3. ASSUME NEW V \in T, V \subseteq U PROVE V = U
  BY <1>2, <1>3 DEF StrictSubsetOrdering
<1> QED
  BY <1>3 DEF Minimal

\* A finite set of numbers that is not empty has a least element.
LEMMA LeastOf ==
  ASSUME NEW S \in SUBSET Nat, IsFiniteSet(S), S # {}
  PROVE  \E m \in S : \A j \in S : m <= j
<1> DEFINE Below(i) == {j \in S : j < i}
           T        == {Below(i) : i \in S}
<1>1. T \subseteq SUBSET S /\ T # {}
  OBVIOUS
<1>2. PICK U \in T : Minimal(U, T)
  <2> HIDE DEF T
  <2>1. T \subseteq SUBSET S /\ T # {} /\ IsFiniteSet(S)
    BY <1>1
  <2> QED
    BY <2>1, MinimalSubset
<1>3. PICK m \in S : U = Below(m)
  BY <1>2
<1>4. ASSUME NEW j \in S, j < m PROVE FALSE
  <2>1. Below(j) \in T
    OBVIOUS
  <2>2. Below(j) \subseteq Below(m) /\ j \in Below(m) /\ j \notin Below(j)
    <3>1. \A i \in S : i \in Nat
      OBVIOUS
    <3>2. \A i \in S : i < j => i < m
      BY <1>4, <3>1
    <3>3. ~(j < j)
      BY <3>1
    <3> QED
      BY <1>4, <3>2, <3>3
  <2> HIDE DEF T
  <2>3. Below(j) = Below(m)
    BY <1>2, <1>3, <2>1, <2>2, Zenon DEF Minimal
  <2> QED
    BY <2>2, <2>3
<1> QED
  BY <1>4

\* ... and one with any number of elements from it on, up to all of them.
LEMMA FromTheTop ==
  ASSUME NEW S \in SUBSET Nat, IsFiniteSet(S),
         NEW k \in Nat \ {0}, k <= Cardinality(S)
  PROVE  \E f \in S : Cardinality({j \in S : j >= f}) = k
<1> DEFINE T == {U \in SUBSET S : /\ \A a \in U, b \in S : b >= a => b \in U
                                  /\ Cardinality(U) >= k}
<1>0. Cardinality(S) \in Nat
  BY FS_CardinalityType
<1>1. T \subseteq SUBSET S /\ S \in T /\ T # {}
  BY <1>0
<1>2. PICK U \in T : Minimal(U, T)
  <2> HIDE DEF T
  <2>1. T \subseteq SUBSET S /\ T # {} /\ IsFiniteSet(S)
    BY <1>1
  <2> QED
    BY <2>1, MinimalSubset
<1>3. /\ U \in SUBSET S /\ IsFiniteSet(U) /\ Cardinality(U) \in Nat /\ Cardinality(U) >= k
      /\ U # {}
  <2>1. U \in SUBSET S /\ Cardinality(U) >= k
    BY <1>1, <1>2
  <2>2. IsFiniteSet(U) /\ Cardinality(U) \in Nat
    BY <2>1, FS_Subset, FS_CardinalityType
  <2> QED
    BY <2>1, <2>2, FS_EmptySet
<1>4. PICK m \in U : \A j \in U : m <= j
  <2>1. U \in SUBSET Nat
    BY <1>3
  <2> QED
    BY <1>3, <2>1, LeastOf
<1>5. {j \in S : j >= m} = U
  BY <1>3, <1>4
<1>6. ASSUME Cardinality(U) > k PROVE FALSE
  <2>1. Cardinality(U \ {m}) = Cardinality(U) - 1
    BY <1>3, <1>4, FS_RemoveElement
  <2>2. U \ {m} \in T
    BY <1>3, <1>4, <1>6, <2>1
  <2> QED
    BY <1>2, <1>4, <2>2 DEF Minimal
<1>7. Cardinality(U) = k
  BY <1>3, <1>6
<1> QED
  BY <1>4, <1>5, <1>7

-----------------------------------------------------------------------------
\* The positions of a history are numbered.
LEMMA Numbered ==
  ASSUME NEW h \in Seq(Messages)
  PROVE  /\ Len(h) \in Nat /\ DOMAIN h = 1..Len(h) /\ \A i \in 1..Len(h) : h[i] \in Messages
         /\ Turns(h) \in SUBSET Nat /\ IsFiniteSet(Turns(h))
         /\ \A S \in SUBSET Nat : S \subseteq DOMAIN h => IsFiniteSet(S)
<1>1. Len(h) \in Nat /\ DOMAIN h = 1..Len(h) /\ \A i \in 1..Len(h) : h[i] \in Messages
  BY LenProperties, ElementOfSeq
<1>2. IsFiniteSet(1..Len(h))
  BY <1>1, FS_Interval
<1>3. Turns(h) \in SUBSET (1..Len(h))
  BY <1>1 DEF Turns
<1>4. IsFiniteSet(Turns(h)) /\ Turns(h) \in SUBSET Nat
  BY <1>2, <1>3, FS_Subset
<1>5. ASSUME NEW S \in SUBSET Nat, S \subseteq DOMAIN h PROVE IsFiniteSet(S)
  BY <1>1, <1>2, <1>5, FS_Subset
<1> QED
  BY <1>1, <1>4, <1>5

\* The messages behind the head.
LEMMA Behind ==
  ASSUME NEW h \in Seq(Messages), Len(h) >= 2
  PROVE  /\ Tail2(h) \in Seq(Messages) /\ Len(Tail2(h)) = Len(h) - 2
         /\ \A i \in 1..(Len(h) - 2) : Tail2(h)[i] = h[i + 2]
         /\ GroupStarts(Tail2(h))
              = {i \in 1..(Len(h) - 2) : i = 1 \/ h[i + 2].kind = "assistant"}
<1>1. Len(h) \in Nat /\ \A i \in 3..Len(h) : h[i] \in Messages
  BY Numbered
<1>2. /\ SubSeq(h, 3, Len(h)) \in Seq(Messages)
      /\ Len(SubSeq(h, 3, Len(h))) = IF 3 <= Len(h) THEN Len(h) - 3 + 1 ELSE 0
      /\ \A i \in 1..(Len(h) - 3 + 1) : SubSeq(h, 3, Len(h))[i] = h[3 + i - 1]
  <2>1. 3 \in Int /\ Len(h) \in Int
    BY <1>1
  <2> QED
    BY <1>1, <2>1, SubSeqProperties
<1>3. Tail2(h) \in Seq(Messages) /\ Len(Tail2(h)) = Len(h) - 2
  <2> DEFINE t == SubSeq(h, 3, Len(h))
  <2>1. t \in Seq(Messages) /\ Len(t) = IF 3 <= Len(h) THEN Len(h) - 3 + 1 ELSE 0
    BY <1>2
  <2> HIDE DEF t
  <2>2. Len(t) = Len(h) - 2
    <3>1. PICK n \in Nat : n = Len(h)
      BY <1>1
    <3> QED
      BY <2>1, <3>1
  <2> QED
    BY <2>1, <2>2 DEF Tail2, t
<1>4. \A i \in 1..(Len(h) - 2) : Tail2(h)[i] = h[i + 2]
  <2>1. \A i \in 1..(Len(h) - 2) : i \in 1..(Len(h) - 3 + 1) /\ 3 + i - 1 = i + 2
    BY <1>1
  <2> QED
    BY <1>2, <2>1 DEF Tail2
<1>5. DOMAIN Tail2(h) = 1..(Len(h) - 2)
  BY <1>3, Numbered
<1> QED
  BY <1>3, <1>4, <1>5 DEF GroupStarts

\* g is h cut before its f-th message behind the head, a response.
CutAt(g, h, f) ==
  /\ f \in 2..(Len(h) - 2) /\ h[f + 2].kind = "assistant"
  /\ Cardinality({j \in GroupStarts(Tail2(h)) : j >= f}) = KeepSteps
  /\ g \in Seq(Messages) /\ Len(g) = Len(h) - f + 2
  /\ g[1] = h[1] /\ g[2] = h[2] /\ g[3] = Plain("notice")
  /\ \A p \in 4..Len(g) : g[p] = h[p + f - 2]
  /\ SubSeq(Tail2(h), f, Len(Tail2(h))) \in Seq(Messages)
  /\ g = SubSeq(h, 1, 2) \o <<Plain("notice")>> \o SubSeq(Tail2(h), f, Len(Tail2(h)))

\* Where there are more groups than are kept, the cut is at one of them.
LEMMA Kept ==
  ASSUME NEW h \in Seq(Messages), Len(h) > 2,
         Cardinality(GroupStarts(Tail2(h))) > KeepSteps
  PROVE  LET f == KeptFrom(Tail2(h), KeepSteps)
         IN  /\ f \in 2..(Len(h) - 2) /\ h[f + 2].kind = "assistant"
             /\ Cardinality({j \in GroupStarts(Tail2(h)) : j >= f}) = KeepSteps
<1> DEFINE S == GroupStarts(Tail2(h))
           f == KeptFrom(Tail2(h), KeepSteps)
<1>1. /\ S = {i \in 1..(Len(h) - 2) : i = 1 \/ h[i + 2].kind = "assistant"}
      /\ Len(h) \in Nat
  BY Behind, Numbered
<1>2. S \in SUBSET Nat /\ S \in SUBSET (1..(Len(h) - 2))
  BY <1>1
<1>3. IsFiniteSet(1..(Len(h) - 2))
  BY <1>1, FS_Interval
<1>4. IsFiniteSet(S) /\ Cardinality(S) \in Nat
  BY <1>2, <1>3, FS_Subset, FS_CardinalityType
<1>5. KeepSteps \in Nat \ {0} /\ KeepSteps <= Cardinality(S)
  BY <1>4, BoundAssumption
<1>6. \E i \in S : Cardinality({j \in S : j >= i}) = KeepSteps
  <2> HIDE DEF S
  <2> QED
    BY <1>2, <1>4, <1>5, FromTheTop
<1>7. f \in S /\ Cardinality({j \in S : j >= f}) = KeepSteps
  BY <1>6 DEF KeptFrom
<1>8. f # 1
  <2>1. ASSUME f = 1 PROVE FALSE
    <3>1. {j \in S : j >= f} = S
      BY <1>2, <2>1
    <3>2. Cardinality({j \in S : j >= f}) = Cardinality(S)
      BY <3>1
    <3>3. Cardinality(S) > KeepSteps
      OBVIOUS
    <3>4. Cardinality({j \in S : j >= f}) = KeepSteps
      BY <1>7
    <3> HIDE DEF S, f
    <3> QED
      BY <1>4, <1>5, <3>2, <3>3, <3>4
  <2> QED
    BY <2>1
<1>9. f \in 2..(Len(h) - 2) /\ h[f + 2].kind = "assistant"
  BY <1>1, <1>7, <1>8
<1> QED
  BY <1>7, <1>9

\* compactHistory leaves a history alone or cuts it.
LEMMA Compaction ==
  ASSUME NEW h \in Seq(Messages), Len(h) >= 2
  PROVE  \/ /\ Compacted(h) = h
            /\ Len(h) = 2 \/ Cardinality(GroupStarts(Tail2(h))) <= KeepSteps
         \/ \E f : CutAt(Compacted(h), h, f)
<1>1. CASE Len(h) <= 2 \/ Cardinality(GroupStarts(Tail2(h))) <= KeepSteps
  <2>1. Compacted(h) = h
    BY <1>1 DEF Compacted
  <2>2. Len(h) <= 2 => Len(h) = 2
    <3>1. PICK n \in Nat : n = Len(h)
      BY Numbered
    <3> QED
      BY <3>1
  <2> QED
    BY <1>1, <2>1, <2>2
<1>2. CASE ~(Len(h) <= 2 \/ Cardinality(GroupStarts(Tail2(h))) <= KeepSteps)
  <2> DEFINE f    == KeptFrom(Tail2(h), KeepSteps)
             head == SubSeq(h, 1, 2)
             note == <<Plain("notice")>>
             rest == SubSeq(Tail2(h), f, Len(Tail2(h)))
             g    == head \o note \o rest
  <2>1. Compacted(h) = g
    BY <1>2 DEF Compacted
  <2>2. Len(h) \in Nat /\ Len(h) > 2
    BY <1>2, Numbered
  <2>3. /\ Cardinality(GroupStarts(Tail2(h))) \in Nat /\ KeepSteps \in Nat
    <3>1. GroupStarts(Tail2(h)) \in SUBSET (1..(Len(h) - 2))
      BY Behind
    <3>2. IsFiniteSet(1..(Len(h) - 2))
      BY <2>2, FS_Interval
    <3> QED
      BY <3>1, <3>2, FS_Subset, FS_CardinalityType, BoundAssumption
  <2>4. /\ f \in 2..(Len(h) - 2) /\ h[f + 2].kind = "assistant"
        /\ Cardinality({j \in GroupStarts(Tail2(h)) : j >= f}) = KeepSteps
    BY <1>2, <2>2, <2>3, Kept
  <2> HIDE DEF f
  <2>5. Tail2(h) \in Seq(Messages) /\ Len(Tail2(h)) = Len(h) - 2
        /\ \A i \in 1..(Len(h) - 2) : Tail2(h)[i] = h[i + 2]
    BY Behind
  <2>6. /\ head \in Seq(Messages) /\ Len(head) = 2 /\ head[1] = h[1] /\ head[2] = h[2]
    <3>1. \A i \in 1..2 : h[i] \in Messages
      BY <2>2, Numbered
    <3>2. /\ head \in Seq(Messages) /\ Len(head) = IF 1 <= 2 THEN 2 - 1 + 1 ELSE 0
          /\ \A i \in 1..(2 - 1 + 1) : head[i] = h[1 + i - 1]
      BY <3>1, SubSeqProperties
    <3> QED
      BY <3>2
  <2>7. Plain("notice") \in Messages
    BY BoundAssumption DEF Plain, Messages, Kinds
  <2>8. note \in Seq(Messages) /\ Len(note) = 1 /\ note[1] = Plain("notice")
    BY <2>7
  <2>9. /\ rest \in Seq(Messages) /\ Len(rest) = Len(h) - f - 1
        /\ \A i \in 1..(Len(h) - f - 1) : rest[i] = h[f + i + 1]
    <3>1. \A i \in f..Len(Tail2(h)) : Tail2(h)[i] \in Messages
      <4>1. \A i \in f..Len(Tail2(h)) : i \in 1..Len(Tail2(h))
        BY <2>2, <2>4, <2>5
      <4> QED
        BY <4>1, <2>5, ElementOfSeq
    <3>2. f \in Int /\ Len(Tail2(h)) \in Int
      BY <2>2, <2>4, <2>5
    <3>3. /\ rest \in Seq(Messages)
          /\ Len(rest) = IF f <= Len(Tail2(h)) THEN Len(Tail2(h)) - f + 1 ELSE 0
          /\ \A i \in 1..(Len(Tail2(h)) - f + 1) : rest[i] = Tail2(h)[f + i - 1]
      BY <3>1, <3>2, SubSeqProperties
    <3> HIDE DEF rest
    <3>4. Len(rest) = Len(h) - f - 1
      BY <2>2, <2>4, <2>5, <3>3
    <3>5. ASSUME NEW i \in 1..(Len(h) - f - 1) PROVE rest[i] = h[f + i + 1]
      <4>1. i \in 1..(Len(Tail2(h)) - f + 1) /\ f + i - 1 \in 1..(Len(h) - 2)
            /\ f + i - 1 + 2 = f + i + 1
        BY <2>2, <2>4, <2>5
      <4> QED
        BY <2>5, <3>3, <4>1
    <3> QED
      BY <3>3, <3>4, <3>5
  <2> HIDE DEF head, note, rest
  <2>10. /\ head \o note \in Seq(Messages) /\ Len(head \o note) = 3
         /\ (head \o note)[1] = h[1] /\ (head \o note)[2] = h[2]
         /\ (head \o note)[3] = Plain("notice")
    <3>1. head \in Seq(Messages) /\ note \in Seq(Messages)
      BY <2>6, <2>8
    <3>2. /\ head \o note \in Seq(Messages) /\ Len(head \o note) = Len(head) + Len(note)
          /\ \A i \in 1..(Len(head) + Len(note)) :
               (head \o note)[i] = IF i <= Len(head) THEN head[i] ELSE note[i - Len(head)]
      BY <3>1, ConcatProperties
    <3>3. Len(head \o note) = 3 /\ (head \o note)[1] = head[1] /\ (head \o note)[2] = head[2]
          /\ (head \o note)[3] = note[1]
      BY <2>6, <2>8, <3>2
    <3> QED
      BY <2>6, <2>8, <3>2, <3>3
  <2> DEFINE front == head \o note
  <2>11. g = front \o rest
    OBVIOUS
  <2> HIDE DEF g, front
  <2>12. /\ g \in Seq(Messages) /\ Len(g) = Len(front) + Len(rest)
         /\ \A i \in 1..(Len(front) + Len(rest)) :
              g[i] = IF i <= Len(front) THEN front[i] ELSE rest[i - Len(front)]
    <3>1. front \in Seq(Messages) /\ rest \in Seq(Messages)
      BY <2>9, <2>10 DEF front
    <3> QED
      BY <2>11, <3>1, ConcatProperties
  <2>13. Len(front) = 3 /\ front[1] = h[1] /\ front[2] = h[2] /\ front[3] = Plain("notice")
    BY <2>10 DEF front
  <2>14. Len(g) = Len(h) - f + 2
    BY <2>2, <2>4, <2>9, <2>12, <2>13
  <2>15. g[1] = h[1] /\ g[2] = h[2] /\ g[3] = Plain("notice")
    <3>1. Len(rest) \in Nat
      BY <2>9
    <3>2. \A i \in 1..3 : i \in 1..(Len(front) + Len(rest)) /\ i <= Len(front)
      BY <2>13, <3>1
    <3>3. \A i \in 1..3 : g[i] = front[i]
      BY <2>12, <3>2
    <3>4. g[1] = front[1] /\ g[2] = front[2] /\ g[3] = front[3]
      BY <3>3
    <3> QED
      BY <2>13, <3>4
  <2>16. ASSUME NEW p \in 4..Len(g) PROVE g[p] = h[p + f - 2]
    <3>1. p \in 1..(Len(front) + Len(rest)) /\ p > Len(front)
          /\ p - Len(front) \in 1..(Len(h) - f - 1) /\ f + (p - Len(front)) + 1 = p + f - 2
      BY <2>2, <2>4, <2>9, <2>13, <2>14
    <3> QED
      BY <2>9, <2>12, <3>1
  <2>17. CutAt(g, h, f)
    BY <2>4, <2>9, <2>12, <2>14, <2>15, <2>16 DEF CutAt, g, head, note, rest
  <2> QED
    BY <2>1, <2>17 DEF g
<1> QED
  BY <1>1, <1>2

-----------------------------------------------------------------------------
(***************************************************************************)
(* The inductive invariant.                                                *)
(***************************************************************************)

\* All of TypeOK but measured, which is a sum over a history.
Typed ==
  /\ history \in Seq(Messages) /\ disk \in Seq(Messages)
  /\ reports \in BOOLEAN
  /\ place \in Places /\ then \in {"chat", "talk", "act"}
  /\ responses \in 0..MaxResponses /\ saved \in 0..responses
  /\ stops \in 0..MaxStops /\ saveFails \in 0..MaxSaveFails

\* The head, and a notice only behind it.
Headed(h) ==
  /\ 2 \in 1..Len(h) /\ h[1] = Plain("system") /\ h[2] = Plain("task")
  /\ \A i \in 4..Len(h) : h[i].kind # "notice"

\* Nothing but tool messages stands between the response at i and the message at j.
Follows(h, i, j) == i < j /\ \A p \in (i + 1)..j : h[p].kind = "tool"

\* The result at j is one of a call of the response at i.
Answers(h, i, j) ==
  /\ h[i].kind = "assistant" /\ Follows(h, i, j)
  /\ h[i].n = h[j].n /\ h[j].calls \in 1..h[i].calls

\* Every result has its call ...
Owned(h) ==
  \A j \in 1..Len(h) : h[j].kind = "tool" => \E i \in 1..Len(h) : Answers(h, i, j)

\* ... and no other result.
Single(h) ==
  \A j, p \in 1..Len(h) :
     /\ h[j].kind = "tool" /\ h[p].kind = "tool"
     /\ h[j].n = h[p].n /\ h[j].calls = h[p].calls
     => j = p

\* No two responses have one number, none has one above r, and none asks without a
\* call.
Counted(h, r) ==
  /\ \A i \in 1..Len(h) : h[i].kind = "assistant" => h[i].n <= r /\ h[i].ask <= h[i].calls
  /\ \A i, j \in 1..Len(h) :
       h[i].kind = "assistant" /\ h[j].kind = "assistant" /\ h[i].n = h[j].n => i = j

\* What a run makes of a history in r responses.
Grown(h, r) == Headed(h) /\ Owned(h) /\ Single(h) /\ Counted(h, r)

\* Every call of the response at i is answered ...
Answered(h, i) ==
  \A c \in 1..h[i].calls : \E j \in 1..Len(h) : Answers(h, i, j) /\ h[j].calls = c

\* ... of every response before position k.
AnsweredTo(h, k) ==
  \A i \in 1..Len(h) : h[i].kind = "assistant" /\ i < k => Answered(h, i)

\* Histories in memory and on disk are what runs make of them.
Whole ==
  /\ place # "down" => Grown(history, responses)
  /\ place = "down" => history = <<>>
  /\ disk # <<>> => Grown(disk, responses)

\* What the loop does after the snapshot.
After == IF place \in {"save", "write"} THEN then ELSE place

\* A response is there to be acted on, or one without calls to be judged.
Responded ==
  /\ After \in {"act", "talk"} => Newest(history).kind = "assistant"
  /\ After = "talk" => Newest(history).calls = 0

\* In a run that was never stopped and wrote all its snapshots only the response
\* acted on has calls without a result.
Sent ==
  stops = 0 /\ saveFails = 0 =>
    /\ After \in {"act", "talk"} => AnsweredTo(history, Len(history))
    /\ After = "chat" => AnsweredTo(history, Len(history) + 1)
    /\ After = "down" => AnsweredTo(disk, Len(disk) + 1)

Inv == Typed /\ Whole /\ Responded /\ ResponseIsOnDisk /\ Sent

-----------------------------------------------------------------------------
(***************************************************************************)
(* What keeps a history whole.                                             *)
(***************************************************************************)

\* A cut keeps the newest message, and the rest at another place.
LEMMA CutPlaces ==
  ASSUME NEW h \in Seq(Messages), Headed(h), NEW g, NEW f, CutAt(g, h, f)
  PROVE  /\ g \in Seq(Messages) /\ Len(g) \in Nat /\ Len(h) \in Nat /\ f \in Nat
         /\ f >= 2 /\ f + 2 <= Len(h) /\ Len(g) = Len(h) - f + 2 /\ h[f + 2].kind = "assistant"
         /\ \A i \in 1..Len(g) : g[i].kind \in {"assistant", "tool"} => i >= 4
         /\ \A i \in 4..Len(g) : /\ i \in 1..Len(g) /\ i + f - 2 \in (f + 2)..Len(h)
                                 /\ i + f - 2 \in 1..Len(h) /\ g[i] = h[i + f - 2]
         /\ \A i \in 1..Len(h) : i >= f + 2 => /\ i - f + 2 \in 4..Len(g)
                                               /\ i - f + 2 + f - 2 = i
         /\ Newest(g) = Newest(h)
<1>1. /\ Len(h) \in Nat /\ f \in 2..(Len(h) - 2) /\ Len(g) = Len(h) - f + 2
      /\ g \in Seq(Messages) /\ h[f + 2].kind = "assistant"
      /\ \A p \in 4..Len(g) : g[p] = h[p + f - 2]
  BY Numbered DEF CutAt
<1> DEFINE n == Len(h)
           m == Len(g)
<1>2. n \in Nat /\ f \in 2..(n - 2) /\ m = n - f + 2
  BY <1>1
<1>3. /\ g[1].kind = "system" /\ g[2].kind = "task" /\ g[3].kind = "notice"
  BY DEF CutAt, Headed, Plain
<1>4. \A i \in 4..m : g[i] = h[i + f - 2]
  BY <1>1
<1>5. g[m] = h[n]
  <2> HIDE DEF m, n
  <2>1. m \in 4..m /\ m + f - 2 = n
    BY <1>2
  <2> QED
    BY <1>4, <2>1
<1>6. Newest(g) = Newest(h)
  BY <1>5 DEF Newest
<1> HIDE DEF m, n
<1>7. /\ m \in Nat /\ f \in Nat /\ f >= 2 /\ f + 2 <= n
      /\ \A i \in 4..m : i \in 1..m /\ i + f - 2 \in (f + 2)..n /\ i + f - 2 \in 1..n
      /\ \A i \in 1..n : i >= f + 2 => i - f + 2 \in 4..m /\ i - f + 2 + f - 2 = i
  BY <1>2
<1>8. \A i \in 1..m : g[i].kind \in {"assistant", "tool"} => i >= 4
  <2>1. ASSUME NEW i \in 1..m, ~(i >= 4) PROVE i = 1 \/ i = 2 \/ i = 3
    BY <1>7, <2>1
  <2> QED
    BY <1>3, <2>1
<1> QED
  BY <1>1, <1>2, <1>4, <1>6, <1>7, <1>8 DEF m, n

\* Between two places of a cut stand the same messages as before.
LEMMA CutFollows ==
  ASSUME NEW h \in Seq(Messages), Headed(h), NEW g, NEW f, CutAt(g, h, f),
         NEW i \in 4..Len(g), NEW j \in 4..Len(g)
  PROVE  Answers(g, i, j) <=> Answers(h, i + f - 2, j + f - 2)
<1>1. /\ Len(g) \in Nat /\ f \in Nat /\ f >= 2
      /\ \A p \in 4..Len(g) : g[p] = h[p + f - 2]
  BY CutPlaces
<1>0. Len(g) \in Nat /\ f \in Nat /\ f >= 2
  BY <1>1
<1>2. i \in Nat /\ j \in Nat /\ i >= 4 /\ j <= Len(g)
  BY <1>0
<1>3. i < j <=> i + f - 2 < j + f - 2
  BY <1>1, <1>2
<1>4. ASSUME \A p \in (i + 1)..j : g[p].kind = "tool",
             NEW p \in (i + f - 2 + 1)..(j + f - 2)
      PROVE  h[p].kind = "tool"
  <2>1. p - f + 2 \in (i + 1)..j /\ p - f + 2 \in 4..Len(g) /\ p - f + 2 + f - 2 = p
    BY <1>0, <1>2
  <2>2. g[p - f + 2] = h[p - f + 2 + f - 2]
    BY <1>1, <2>1
  <2> QED
    BY <1>4, <2>1, <2>2
<1>5. ASSUME \A p \in (i + f - 2 + 1)..(j + f - 2) : h[p].kind = "tool",
             NEW p \in (i + 1)..j
      PROVE  g[p].kind = "tool"
  <2>1. p + f - 2 \in (i + f - 2 + 1)..(j + f - 2) /\ p \in 4..Len(g)
    BY <1>0, <1>2
  <2>2. g[p] = h[p + f - 2]
    BY <1>1, <2>1
  <2> QED
    BY <1>5, <2>1, <2>2
<1>6. Follows(g, i, j) <=> Follows(h, i + f - 2, j + f - 2)
  BY <1>3, <1>4, <1>5 DEF Follows
<1> QED
  BY <1>1, <1>6 DEF Answers

\* A cut leaves a whole history whole.
LEMMA CutIsGrown ==
  ASSUME NEW h \in Seq(Messages), NEW r \in Nat, Grown(h, r), NEW g, NEW f, CutAt(g, h, f)
  PROVE  Grown(g, r)
<1>1. Headed(h) /\ Owned(h) /\ Single(h) /\ Counted(h, r)
  BY DEF Grown
<1>2. /\ Len(g) \in Nat /\ Len(h) \in Nat /\ f \in Nat
      /\ f >= 2 /\ f + 2 <= Len(h) /\ Len(g) = Len(h) - f + 2 /\ h[f + 2].kind = "assistant"
      /\ \A i \in 1..Len(g) : g[i].kind \in {"assistant", "tool"} => i >= 4
      /\ \A i \in 4..Len(g) : /\ i \in 1..Len(g) /\ i + f - 2 \in (f + 2)..Len(h)
                              /\ i + f - 2 \in 1..Len(h) /\ g[i] = h[i + f - 2]
      /\ \A i \in 1..Len(h) : i >= f + 2 => /\ i - f + 2 \in 4..Len(g)
                                            /\ i - f + 2 + f - 2 = i
  BY <1>1, CutPlaces
<1>0. Len(g) \in Nat /\ Len(h) \in Nat /\ f \in Nat
  BY <1>2
<1>3. \A i \in 1..Len(g) : g[i].kind \in {"assistant", "tool"} => i \in 4..Len(g)
  BY <1>2
<1>4. Headed(g)
  <2>1. 2 \in 1..Len(g)
    BY <1>2
  <2>2. g[1] = Plain("system") /\ g[2] = Plain("task")
    BY <1>1 DEF CutAt, Headed
  <2>3. ASSUME NEW i \in 4..Len(g) PROVE g[i].kind # "notice"
    <3>1. i + f - 2 \in 4..Len(h) /\ g[i] = h[i + f - 2]
      BY <1>2
    <3> QED
      BY <1>1, <3>1 DEF Headed
  <2> QED
    BY <2>1, <2>2, <2>3 DEF Headed
<1>5. Owned(g)
  <2>1. ASSUME NEW j \in 1..Len(g), g[j].kind = "tool"
        PROVE  \E i \in 1..Len(g) : Answers(g, i, j)
    <3>1. j \in 4..Len(g) /\ j + f - 2 \in (f + 2)..Len(h) /\ j + f - 2 \in 1..Len(h)
          /\ h[j + f - 2].kind = "tool"
      BY <1>2, <1>3, <2>1
    <3>2. PICK i \in 1..Len(h) : Answers(h, i, j + f - 2)
      BY <1>1, <3>1 DEF Owned
    <3>3. i >= f + 2
      <4>1. ASSUME i < f + 2 PROVE FALSE
        <5>0. i \in Nat /\ j \in Nat /\ f \in Nat /\ j >= 4
          <6>1. j \in 4..Len(g)
            BY <3>1
          <6> QED
            BY <1>0, <6>1
        <5>1. f + 2 \in (i + 1)..(j + f - 2)
          BY <4>1, <5>0
        <5> QED
          BY <1>2, <3>2, <5>1 DEF Answers, Follows
      <4> QED
        BY <1>2, <4>1
    <3>4. i - f + 2 \in 4..Len(g) /\ i - f + 2 + f - 2 = i /\ i - f + 2 \in 1..Len(g)
      BY <1>2, <3>3
    <3>5. Answers(g, i - f + 2, j)
      BY <1>1, <3>1, <3>2, <3>4, CutFollows
    <3> QED
      BY <3>4, <3>5
  <2> QED
    BY <2>1 DEF Owned
<1>6. Single(g)
  <2>1. ASSUME NEW j \in 1..Len(g), NEW p \in 1..Len(g), g[j].kind = "tool", g[p].kind = "tool",
               g[j].n = g[p].n, g[j].calls = g[p].calls
        PROVE  j = p
    <3>1. j \in 4..Len(g) /\ p \in 4..Len(g)
      BY <1>3, <2>1
    <3>2. j + f - 2 \in 1..Len(h) /\ p + f - 2 \in 1..Len(h)
          /\ g[j] = h[j + f - 2] /\ g[p] = h[p + f - 2]
      BY <1>2, <3>1
    <3>3. j + f - 2 = p + f - 2
      BY <1>1, <2>1, <3>2 DEF Single
    <3> QED
      BY <1>2, <3>3
  <2> QED
    BY <2>1 DEF Single
<1>7. Counted(g, r)
  <2>1. ASSUME NEW i \in 1..Len(g), g[i].kind = "assistant"
        PROVE  /\ g[i].n <= r /\ g[i].ask <= g[i].calls
    <3>1. i + f - 2 \in 1..Len(h) /\ g[i] = h[i + f - 2]
      BY <1>2, <1>3, <2>1
    <3> QED
      BY <1>1, <2>1, <3>1 DEF Counted
  <2>2. ASSUME NEW i \in 1..Len(g), NEW j \in 1..Len(g),
               g[i].kind = "assistant", g[j].kind = "assistant", g[i].n = g[j].n
        PROVE  i = j
    <3>1. i + f - 2 \in 1..Len(h) /\ j + f - 2 \in 1..Len(h)
          /\ g[i] = h[i + f - 2] /\ g[j] = h[j + f - 2]
      BY <1>2, <1>3, <2>2
    <3>2. i + f - 2 = j + f - 2
      BY <1>1, <2>2, <3>1 DEF Counted
    <3> QED
      BY <1>2, <3>2
  <2> QED
    BY <2>1, <2>2 DEF Counted
<1> QED
  BY <1>4, <1>5, <1>6, <1>7 DEF Grown

\* What was answered before a cut is answered after it.
LEMMA CutIsAnswered ==
  ASSUME NEW h \in Seq(Messages), NEW r \in Nat, Grown(h, r), NEW g, NEW f, CutAt(g, h, f),
         AnsweredTo(h, Len(h))
  PROVE  AnsweredTo(g, Len(g))
<1>1. Headed(h)
  BY DEF Grown
<1>2. /\ Len(g) \in Nat /\ Len(h) \in Nat /\ f \in Nat
      /\ f >= 2 /\ f + 2 <= Len(h) /\ Len(g) = Len(h) - f + 2
      /\ \A i \in 1..Len(g) : g[i].kind \in {"assistant", "tool"} => i >= 4
      /\ \A i \in 4..Len(g) : /\ i \in 1..Len(g) /\ i + f - 2 \in (f + 2)..Len(h)
                              /\ i + f - 2 \in 1..Len(h) /\ g[i] = h[i + f - 2]
      /\ \A i \in 1..Len(h) : i >= f + 2 => /\ i - f + 2 \in 4..Len(g)
                                            /\ i - f + 2 + f - 2 = i
  BY <1>1, CutPlaces
<1>3. ASSUME NEW i \in 1..Len(g), g[i].kind = "assistant", i < Len(g),
             NEW c \in 1..g[i].calls
      PROVE  \E j \in 1..Len(g) : Answers(g, i, j) /\ g[j].calls = c
  <2>1. i \in 4..Len(g) /\ i + f - 2 \in 1..Len(h) /\ g[i] = h[i + f - 2]
        /\ i + f - 2 < Len(h) /\ i + f - 2 >= f + 2
    BY <1>2, <1>3
  <2>2. PICK j \in 1..Len(h) : Answers(h, i + f - 2, j) /\ h[j].calls = c
    BY <1>3, <2>1 DEF AnsweredTo, Answered
  <2>3. i + f - 2 < j
    BY <2>2 DEF Answers, Follows
  <2>4. j - f + 2 \in 4..Len(g) /\ j - f + 2 + f - 2 = j /\ j - f + 2 \in 1..Len(g)
    BY <1>2, <2>1, <2>3
  <2>5. Answers(g, i, j - f + 2) <=> Answers(h, i + f - 2, j - f + 2 + f - 2)
    BY <1>1, <2>1, <2>4, CutFollows
  <2>6. g[j - f + 2] = h[j - f + 2 + f - 2]
    BY <1>2, <2>4
  <2>7. Answers(g, i, j - f + 2) /\ g[j - f + 2] = h[j]
    BY <2>2, <2>4, <2>5, <2>6
  <2> QED
    BY <2>2, <2>4, <2>7
<1> QED
  BY <1>3 DEF AnsweredTo, Answered

\* g is h and more.
Extends(g, h) ==
  /\ g \in Seq(Messages) /\ Len(h) <= Len(g)
  /\ \A i \in 1..Len(h) : g[i] = h[i]

\* What stood in a history stands in one that extends it.
LEMMA SameAnswers ==
  ASSUME NEW h \in Seq(Messages), NEW g, Extends(g, h)
  PROVE  /\ Len(h) \in Nat /\ Len(g) \in Nat /\ Len(h) <= Len(g)
         /\ \A i \in 1..Len(h) : i \in 1..Len(g) /\ g[i] = h[i]
         /\ \A i, j \in 1..Len(h) : Answers(g, i, j) <=> Answers(h, i, j)
<1>1. Len(h) \in Nat /\ Len(g) \in Nat /\ Len(h) <= Len(g)
  BY Numbered DEF Extends
<1>2. \A i \in 1..Len(h) : i \in 1..Len(g) /\ g[i] = h[i]
  BY <1>1 DEF Extends
<1>3. ASSUME NEW i \in 1..Len(h), NEW j \in 1..Len(h)
      PROVE  Answers(g, i, j) <=> Answers(h, i, j)
  <2>1. \A p \in (i + 1)..j : p \in 1..Len(h)
    BY <1>1
  <2>2. Follows(g, i, j) <=> Follows(h, i, j)
    BY <1>2, <2>1 DEF Follows
  <2> QED
    BY <1>2, <2>2 DEF Answers
<1> QED
  BY <1>1, <1>2, <1>3

\* A message that is no notice, result or response changes nothing.
LEMMA TalkKeeps ==
  ASSUME NEW h \in Seq(Messages), NEW r \in Nat, Grown(h, r), NEW g, Extends(g, h),
         \A i \in 1..Len(g) : i > Len(h) => g[i].kind \in {"nudge", "note"}
  PROVE  /\ Grown(g, r)
         /\ AnsweredTo(h, Len(h) + 1) => AnsweredTo(g, Len(g) + 1)
<1>1. /\ Len(h) \in Nat /\ Len(g) \in Nat /\ Len(h) <= Len(g)
      /\ \A i \in 1..Len(h) : i \in 1..Len(g) /\ g[i] = h[i]
      /\ \A i, j \in 1..Len(h) : Answers(g, i, j) <=> Answers(h, i, j)
  BY SameAnswers
<1>2. Headed(h) /\ Owned(h) /\ Single(h) /\ Counted(h, r)
  BY DEF Grown
<1>3. \A i \in 1..Len(g) : g[i].kind \in {"tool", "assistant", "notice"} => i \in 1..Len(h)
  BY <1>1
<1>4. Headed(g)
  <2>1. \A i \in 4..Len(g) : i \in 1..Len(g) /\ (i \in 1..Len(h) => i \in 4..Len(h))
    BY <1>1
  <2>2. \A i \in 4..Len(g) : g[i].kind # "notice"
    BY <1>1, <1>2, <1>3, <2>1 DEF Headed
  <2>3. 1 \in 1..Len(h) /\ 2 \in 1..Len(h)
    BY <1>1, <1>2 DEF Headed
  <2> QED
    BY <1>1, <1>2, <2>2, <2>3 DEF Headed
<1>5. Owned(g)
  BY <1>1, <1>2, <1>3 DEF Owned
<1>6. Single(g)
  BY <1>1, <1>2, <1>3 DEF Single
<1>7. Counted(g, r)
  BY <1>1, <1>2, <1>3 DEF Counted
<1>8. ASSUME AnsweredTo(h, Len(h) + 1),
             NEW i \in 1..Len(g), g[i].kind = "assistant", NEW c \in 1..g[i].calls
      PROVE  \E j \in 1..Len(g) : Answers(g, i, j) /\ g[j].calls = c
  <2>1. i \in 1..Len(h) /\ i < Len(h) + 1 /\ h[i] = g[i]
    BY <1>1, <1>3, <1>8
  <2>2. PICK j \in 1..Len(h) : Answers(h, i, j) /\ h[j].calls = c
    BY <1>8, <2>1 DEF AnsweredTo, Answered
  <2> QED
    BY <1>1, <2>1, <2>2
<1> QED
  BY <1>4, <1>5, <1>6, <1>7, <1>8 DEF Grown, AnsweredTo, Answered

\* Results of the newest response, each of another call, stay with it; and when
\* they are those of all its calls, it is answered.
LEMMA ResultsKeep ==
  ASSUME NEW h \in Seq(Messages), NEW r \in Nat, Grown(h, r), Newest(h).kind = "assistant",
         NEW g, Extends(g, h),
         \A i \in 1..Len(g) : i > Len(h) =>
            /\ g[i].kind = "tool" /\ g[i].n = Newest(h).n
            /\ g[i].calls \in 1..Newest(h).calls,
         \A i, j \in 1..Len(g) : i > Len(h) /\ j > Len(h) /\ g[i].calls = g[j].calls => i = j
  PROVE  /\ Grown(g, r)
         /\ AnsweredTo(h, Len(h)) /\ (\A c \in 1..Newest(h).calls :
                                         \E j \in 1..Len(g) : j > Len(h) /\ g[j].calls = c)
              => AnsweredTo(g, Len(g) + 1)
<1>1. /\ Len(h) \in Nat /\ Len(g) \in Nat /\ Len(h) <= Len(g)
      /\ \A i \in 1..Len(h) : i \in 1..Len(g) /\ g[i] = h[i]
      /\ \A i, j \in 1..Len(h) : Answers(g, i, j) <=> Answers(h, i, j)
  BY SameAnswers
<1>2. Headed(h) /\ Owned(h) /\ Single(h) /\ Counted(h, r)
  BY DEF Grown
<1> DEFINE n == Len(h)
<1>3. n \in 1..n /\ n \in 1..Len(g) /\ g[n] = h[n] /\ h[n].kind = "assistant" /\ Newest(h) = h[n]
  <2>1. n \in 1..n
    BY <1>1, <1>2 DEF Headed
  <2> QED
    BY <1>1, <2>1 DEF Newest
<1>4. \A i \in 1..Len(g) : i > n \/ i \in 1..n
  BY <1>1
<1>5. \A i \in 1..Len(g) : g[i].kind \in {"assistant", "notice"} => i \in 1..n
  BY <1>4
<1>6. ASSUME NEW j \in 1..Len(g), j > n PROVE Answers(g, n, j)
  <2>1. \A p \in (n + 1)..j : p \in 1..Len(g) /\ p > n
    BY <1>1
  <2> QED
    BY <1>3, <1>6, <2>1 DEF Answers, Follows
<1>7. ASSUME NEW j \in 1..n, h[j].kind = "tool", h[j].n = h[n].n PROVE FALSE
  <2>1. PICK i \in 1..n : Answers(h, i, j)
    BY <1>2, <1>7 DEF Owned
  <2>2. i = n
    BY <1>2, <1>3, <1>7, <2>1 DEF Counted, Answers
  <2>3. i < j
    BY <2>1 DEF Answers, Follows
  <2> QED
    BY <1>1, <2>2, <2>3
<1>8. Headed(g)
  <2>1. \A i \in 4..Len(g) : i \in 1..Len(g) /\ (i \in 1..n => i \in 4..n)
    BY <1>1
  <2>2. \A i \in 4..Len(g) : g[i].kind # "notice"
    BY <1>1, <1>2, <1>5, <2>1 DEF Headed
  <2>3. 1 \in 1..n /\ 2 \in 1..n
    BY <1>1, <1>2 DEF Headed
  <2> QED
    BY <1>1, <1>2, <2>2, <2>3 DEF Headed
<1>9. Owned(g)
  <2>1. ASSUME NEW j \in 1..Len(g), g[j].kind = "tool", j \in 1..n
        PROVE  \E i \in 1..Len(g) : Answers(g, i, j)
    BY <1>1, <1>2, <2>1 DEF Owned
  <2> QED
    BY <1>3, <1>4, <1>6, <2>1 DEF Owned
<1>10. Single(g)
  <2>1. ASSUME NEW j \in 1..Len(g), NEW p \in 1..Len(g), g[j].kind = "tool", g[p].kind = "tool",
               g[j].n = g[p].n, g[j].calls = g[p].calls
        PROVE  j = p
    <3>1. CASE j > n /\ p > n
      BY <2>1, <3>1
    <3>2. CASE j \in 1..n /\ p \in 1..n
      BY <1>1, <1>2, <2>1, <3>2 DEF Single
    <3>3. CASE j \in 1..n /\ p > n
      BY <1>1, <1>3, <1>7, <2>1, <3>3
    <3>4. CASE j > n /\ p \in 1..n
      BY <1>1, <1>3, <1>7, <2>1, <3>4
    <3> QED
      BY <1>4, <3>1, <3>2, <3>3, <3>4
  <2> QED
    BY <2>1 DEF Single
<1>11. Counted(g, r)
  BY <1>1, <1>2, <1>5 DEF Counted
<1>12. ASSUME AnsweredTo(h, n),
              \A c \in 1..Newest(h).calls : \E j \in 1..Len(g) : j > n /\ g[j].calls = c,
              NEW i \in 1..Len(g), g[i].kind = "assistant", NEW c \in 1..g[i].calls
       PROVE  \E j \in 1..Len(g) : Answers(g, i, j) /\ g[j].calls = c
  <2>1. i \in 1..n /\ g[i] = h[i]
    BY <1>1, <1>5, <1>12
  <2>2. CASE i = n
    <3>1. PICK j \in 1..Len(g) : j > n /\ g[j].calls = c
      BY <1>3, <1>12, <2>2
    <3> QED
      BY <1>6, <2>2, <3>1
  <2>3. CASE i < n
    <3>1. PICK j \in 1..n : Answers(h, i, j) /\ h[j].calls = c
      BY <1>12, <2>1, <2>3 DEF AnsweredTo, Answered
    <3> QED
      BY <1>1, <2>1, <3>1
  <2> QED
    BY <1>1, <2>1, <2>2, <2>3
<1> QED
  BY <1>8, <1>9, <1>10, <1>11, <1>12 DEF Grown, AnsweredTo, Answered

\* A new response has a new number and no results.
LEMMA ResponseKeeps ==
  ASSUME NEW h \in Seq(Messages), NEW r \in Nat, Grown(h, r), NEW g, Extends(g, h),
         Len(g) = Len(h) + 1, Newest(g).kind = "assistant", Newest(g).n = r + 1,
         Newest(g).ask <= Newest(g).calls
  PROVE  /\ Grown(g, r + 1)
         /\ AnsweredTo(h, Len(h) + 1) => AnsweredTo(g, Len(g))
<1>1. /\ Len(h) \in Nat /\ Len(g) \in Nat /\ Len(h) <= Len(g)
      /\ \A i \in 1..Len(h) : i \in 1..Len(g) /\ g[i] = h[i]
      /\ \A i, j \in 1..Len(h) : Answers(g, i, j) <=> Answers(h, i, j)
  BY SameAnswers
<1>2. Headed(h) /\ Owned(h) /\ Single(h) /\ Counted(h, r)
  BY DEF Grown
<1> DEFINE m == Len(g)
<1>3. /\ m \in 1..m /\ ~(m \in 1..Len(h)) /\ g[m].kind = "assistant" /\ g[m].n = r + 1
      /\ g[m].ask <= g[m].calls
      /\ \A i \in 1..m : i = m \/ (i \in 1..Len(h) /\ i < Len(h) + 1 /\ i # m)
  BY <1>1 DEF Newest
<1>4. \A i \in 1..Len(h) : h[i] \in Messages /\ h[i].n \in Nat
  <2>1. \A i \in 1..Len(h) : h[i] \in Messages
    BY Numbered
  <2>2. ASSUME NEW x \in Messages PROVE x.n \in Nat
    BY <2>2, BoundAssumption DEF Messages
  <2> QED
    BY <2>1, <2>2
<1>5. Headed(g)
  <2>1. \A i \in 4..m : i \in 1..m /\ (i \in 1..Len(h) => i \in 4..Len(h))
    BY <1>1
  <2>2. \A i \in 4..m : g[i].kind # "notice"
    BY <1>1, <1>2, <1>3, <2>1 DEF Headed
  <2>3. 1 \in 1..Len(h) /\ 2 \in 1..Len(h)
    BY <1>1, <1>2 DEF Headed
  <2> QED
    BY <1>1, <1>2, <2>2, <2>3 DEF Headed
<1>6. Owned(g)
  BY <1>1, <1>2, <1>3 DEF Owned
<1>7. Single(g)
  BY <1>1, <1>2, <1>3 DEF Single
<1>8. Counted(g, r + 1)
  <2>1. ASSUME NEW i \in 1..m, g[i].kind = "assistant"
        PROVE  g[i].n <= r + 1 /\ g[i].ask <= g[i].calls
    BY <1>1, <1>2, <1>3, <1>4, <2>1 DEF Counted
  <2>2. ASSUME NEW i \in 1..m, NEW j \in 1..m,
               g[i].kind = "assistant", g[j].kind = "assistant", g[i].n = g[j].n
        PROVE  i = j
    <3>1. \A k \in 1..Len(h) : g[k].kind = "assistant" => g[k].n # r + 1
      BY <1>1, <1>2, <1>4 DEF Counted
    <3> QED
      BY <1>1, <1>2, <1>3, <2>2, <3>1 DEF Counted
  <2> QED
    BY <2>1, <2>2 DEF Counted
<1>9. ASSUME AnsweredTo(h, Len(h) + 1),
             NEW i \in 1..m, g[i].kind = "assistant", i < m, NEW c \in 1..g[i].calls
      PROVE  \E j \in 1..m : Answers(g, i, j) /\ g[j].calls = c
  <2>1. i \in 1..Len(h) /\ i < Len(h) + 1 /\ h[i] = g[i]
    BY <1>1, <1>3, <1>9
  <2>2. PICK j \in 1..Len(h) : Answers(h, i, j) /\ h[j].calls = c
    BY <1>9, <2>1 DEF AnsweredTo, Answered
  <2> QED
    BY <1>1, <2>1, <2>2
<1> QED
  BY <1>5, <1>6, <1>7, <1>8, <1>9 DEF Grown, AnsweredTo, Answered

-----------------------------------------------------------------------------
(***************************************************************************)
(* What the steps append.                                                  *)
(***************************************************************************)

\* One message.
LEMMA Appended ==
  ASSUME NEW h \in Seq(Messages), NEW m \in Messages
  PROVE  /\ Extends(Append(h, m), h) /\ Len(Append(h, m)) = Len(h) + 1
         /\ Newest(Append(h, m)) = m
         /\ \A i \in 1..Len(Append(h, m)) : i > Len(h) => Append(h, m)[i] = m
<1> DEFINE g == Append(h, m)
<1>1. /\ g \in Seq(Messages) /\ Len(g) = Len(h) + 1
      /\ \A i \in 1..Len(h) : g[i] = h[i]
      /\ g[Len(h) + 1] = m
  BY AppendProperties
<1>2. Len(h) \in Nat
  BY Numbered
<1> HIDE DEF g
<1>3. Newest(g) = m
  BY <1>1 DEF Newest
<1>4. Len(h) <= Len(g)
  BY <1>1, <1>2
<1>5. \A i \in 1..Len(g) : i > Len(h) => i = Len(h) + 1
  BY <1>1, <1>2
<1>6. Extends(g, h)
  BY <1>1, <1>4 DEF Extends
<1> QED
  BY <1>1, <1>3, <1>5, <1>6 DEF g

\* Several.
LEMMA Joined ==
  ASSUME NEW h \in Seq(Messages), NEW t \in Seq(Messages)
  PROVE  /\ Extends(h \o t, h) /\ Len(h \o t) = Len(h) + Len(t)
         /\ Len(h) \in Nat /\ Len(t) \in Nat
         /\ \A i \in 1..Len(h \o t) :
              i > Len(h) => i - Len(h) \in 1..Len(t) /\ (h \o t)[i] = t[i - Len(h)]
         /\ \A i \in 1..Len(t) : i + Len(h) \in 1..Len(h \o t) /\ i + Len(h) > Len(h)
                                 /\ (h \o t)[i + Len(h)] = t[i]
<1> DEFINE g == h \o t
<1>1. /\ g \in Seq(Messages) /\ Len(g) = Len(h) + Len(t)
      /\ \A i \in 1..(Len(h) + Len(t)) : g[i] = IF i <= Len(h) THEN h[i] ELSE t[i - Len(h)]
  BY ConcatProperties
<1>2. Len(h) \in Nat /\ Len(t) \in Nat
  BY Numbered
<1> HIDE DEF g
<1>3. Extends(g, h)
  BY <1>1, <1>2 DEF Extends
<1>4. ASSUME NEW i \in 1..Len(g), i > Len(h)
      PROVE  i - Len(h) \in 1..Len(t) /\ g[i] = t[i - Len(h)]
  BY <1>1, <1>2, <1>4
<1>5. ASSUME NEW i \in 1..Len(t)
      PROVE  i + Len(h) \in 1..Len(g) /\ i + Len(h) > Len(h) /\ g[i + Len(h)] = t[i]
  <2>1. i + Len(h) \in 1..(Len(h) + Len(t)) /\ i + Len(h) > Len(h) /\ i + Len(h) - Len(h) = i
    BY <1>2
  <2> QED
    BY <1>1, <1>2, <2>1
<1> QED
  BY <1>1, <1>2, <1>3, <1>4, <1>5 DEF g

\* The messages there are.
LEMMA AreMessages ==
  /\ \A kind \in Kinds : Plain(kind) \in Messages
  /\ \A n \in 0..MaxResponses, calls \in 0..MaxCalls, ask \in 0..MaxCalls :
       Response(n, calls, ask) \in Messages
  /\ \A n \in 0..MaxResponses, call \in 0..MaxCalls, size \in {1, LargeResult} :
       Result(n, call, size) \in Messages
<1>1. 0 \in 0..MaxResponses /\ 0 \in 0..MaxCalls
  BY BoundAssumption
<1> QED
  BY <1>1 DEF Messages, Plain, Response, Result, Kinds

\* The first messages of a run.
LEMMA StartIsGrown ==
  ASSUME NEW r \in Nat
  PROVE  /\ Start \in Seq(Messages) /\ Grown(Start, r) /\ Start # <<>>
         /\ AnsweredTo(Start, Len(Start) + 1)
<1>1. Plain("system") \in Messages /\ Plain("task") \in Messages
  BY AreMessages DEF Kinds
<1>2. /\ Start \in Seq(Messages) /\ Len(Start) = 2
      /\ Start[1] = Plain("system") /\ Start[2] = Plain("task")
  BY <1>1 DEF Start
<1>3. \A i \in 1..Len(Start) : Start[i].kind \in {"system", "task"}
  BY <1>2 DEF Plain
<1>4. Headed(Start)
  BY <1>2 DEF Headed
<1>5. Owned(Start) /\ Single(Start) /\ Counted(Start, r) /\ AnsweredTo(Start, Len(Start) + 1)
  BY <1>3 DEF Owned, Single, Counted, AnsweredTo
<1> QED
  BY <1>2, <1>4, <1>5 DEF Grown

-----------------------------------------------------------------------------
(***************************************************************************)
(* What the properties say of a history.                                   *)
(***************************************************************************)

\* A grown history has its head, and its results stay with their calls.
LEMMA GrownIsWhole ==
  ASSUME NEW h \in Seq(Messages), NEW r \in Nat, Grown(h, r)
  PROVE  HasHead(h) /\ ResultsHaveCalls(h)
<1>1. Headed(h) /\ Owned(h) /\ Single(h) /\ Counted(h, r)
  BY DEF Grown
<1>2. Len(h) \in Nat /\ DOMAIN h = 1..Len(h) /\ \A i \in 1..Len(h) : h[i] \in Messages
  BY Numbered
<1>3. HasHead(h)
  <2> DEFINE t == SubSeq(h, 1, 2)
  <2>1. \A i \in 1..2 : h[i] \in Messages
    BY <1>1, <1>2 DEF Headed
  <2>2. /\ t \in Seq(Messages) /\ Len(t) = (IF 1 <= 2 THEN 2 - 1 + 1 ELSE 0)
        /\ \A i \in 1..(2 - 1 + 1) : t[i] = h[1 + i - 1]
    BY <2>1, SubSeqProperties
  <2> HIDE DEF t
  <2>3. Len(t) = 2 /\ t[1] = h[1] /\ t[2] = h[2]
    BY <2>2
  <2>4. /\ Start \in Seq(Messages) /\ Len(Start) = 2
        /\ Start[1] = h[1] /\ Start[2] = h[2]
    <3>1. Start \in Seq(Messages)
      BY StartIsGrown
    <3> QED
      BY <1>1, <3>1 DEF Headed, Start
  <2>5. \A i \in 1..Len(t) : t[i] = Start[i]
    <3>1. \A i \in 1..2 : i = 1 \/ i = 2
      OBVIOUS
    <3> QED
      BY <2>3, <2>4, <3>1
  <2>6. t = Start
    BY <2>2, <2>3, <2>4, <2>5, SeqEqual
  <2>7. \A i \in 1..Len(h) : h[i].kind = "notice" => i = 3
    <3>1. \A i \in 1..Len(h) : i = 1 \/ i = 2 \/ i = 3 \/ i \in 4..Len(h)
      BY <1>2
    <3> QED
      BY <1>1, <3>1 DEF Headed, Plain
  <2> QED
    BY <1>2, <2>6, <2>7 DEF HasHead, t
<1>4. \A i, j \in 1..Len(h) : Follows(h, i, j) => j \in AnswersAt(h, i)
  BY <1>2 DEF Follows, AnswersAt
<1>5. ASSUME NEW j \in DOMAIN h, h[j].kind = "tool"
      PROVE  /\ \E i \in Turns(h) : /\ j \in AnswersAt(h, i)
                                    /\ h[i].n = h[j].n /\ h[j].calls \in 1..h[i].calls
             /\ \A p \in DOMAIN h :
                  h[p].kind = "tool" /\ h[p].n = h[j].n /\ h[p].calls = h[j].calls => p = j
  <2>1. PICK i \in 1..Len(h) : Answers(h, i, j)
    BY <1>1, <1>2, <1>5 DEF Owned
  <2>2. i \in Turns(h) /\ j \in AnswersAt(h, i) /\ h[i].n = h[j].n /\ h[j].calls \in 1..h[i].calls
    BY <1>2, <1>4, <2>1 DEF Answers, Turns
  <2> QED
    BY <1>1, <1>2, <1>5, <2>2 DEF Single
<1> QED
  BY <1>3, <1>5 DEF ResultsHaveCalls

\* With every call answered it is what a backend accepts: between a response and a
\* result that follows it directly stands no other response.
LEMMA AnsweredIsValid ==
  ASSUME NEW h \in Seq(Messages), NEW r \in Nat, Grown(h, r), AnsweredTo(h, Len(h) + 1)
  PROVE  WireValid(h)
<1>1. Headed(h) /\ Owned(h) /\ Single(h) /\ Counted(h, r)
  BY DEF Grown
<1>2. Len(h) \in Nat /\ DOMAIN h = 1..Len(h) /\ \A i \in 1..Len(h) : i < Len(h) + 1
  BY Numbered
<1>3. \A i, j \in 1..Len(h) : Follows(h, i, j) <=> j \in AnswersAt(h, i)
  BY <1>2 DEF Follows, AnswersAt
<1>4. ASSUME NEW i \in 1..Len(h), h[i].kind = "assistant", NEW j \in 1..Len(h), Follows(h, i, j)
      PROVE  Answers(h, i, j)
  <2>1. h[j].kind = "tool"
    BY <1>2, <1>4 DEF Follows
  <2>2. PICK k \in 1..Len(h) : Answers(h, k, j)
    BY <1>1, <2>1 DEF Owned
  <2>3. h[k].kind = "assistant" /\ Follows(h, k, j)
    BY <2>2 DEF Answers
  <2>4. i < j /\ k < j /\ i \in Nat /\ j \in Nat /\ k \in Nat
    BY <1>2, <1>4, <2>3 DEF Follows
  <2>5. ~(i < k)
    <3>1. ASSUME i < k PROVE k \in (i + 1)..j
      BY <2>4, <3>1
    <3> QED
      BY <1>4, <2>3, <3>1 DEF Follows
  <2>6. ~(k < i)
    <3>1. ASSUME k < i PROVE i \in (k + 1)..j
      BY <2>4, <3>1
    <3> QED
      BY <1>4, <2>3, <3>1 DEF Follows
  <2>7. i = k
    BY <2>4, <2>5, <2>6
  <2> QED
    BY <2>2, <2>7
<1>5. ASSUME NEW i \in Turns(h)
      PROVE  {<<h[j].n, h[j].calls>> : j \in AnswersAt(h, i)} = {h[i].n} \X (1..h[i].calls)
  <2>1. i \in 1..Len(h) /\ h[i].kind = "assistant"
    BY <1>2, <1>5 DEF Turns
  <2>2. ASSUME NEW j \in AnswersAt(h, i)
        PROVE  h[j].n = h[i].n /\ h[j].calls \in 1..h[i].calls
    <3>1. j \in 1..Len(h)
      BY <1>2 DEF AnswersAt
    <3> QED
      BY <1>3, <1>4, <2>1, <3>1 DEF Answers
  <2>3. ASSUME NEW c \in 1..h[i].calls
        PROVE  \E j \in AnswersAt(h, i) : h[j].n = h[i].n /\ h[j].calls = c
    <3>1. PICK j \in 1..Len(h) : Answers(h, i, j) /\ h[j].calls = c
      BY <1>2, <2>1 DEF AnsweredTo, Answered
    <3>2. j \in AnswersAt(h, i) /\ h[j].n = h[i].n
      BY <1>3, <2>1, <3>1 DEF Answers
    <3> QED
      BY <3>1, <3>2
  <2> QED
    BY <2>2, <2>3
<1>6. ASSUME NEW j \in DOMAIN h, h[j].kind = "tool"
      PROVE  \E i \in Turns(h) : j \in AnswersAt(h, i)
  <2>1. PICK i \in 1..Len(h) : Answers(h, i, j)
    BY <1>1, <1>2, <1>6 DEF Owned
  <2>2. i \in Turns(h) /\ j \in AnswersAt(h, i)
    BY <1>2, <1>3, <2>1 DEF Answers, Turns
  <2> QED
    BY <2>2
<1> QED
  BY <1>5, <1>6 DEF WireValid

\* maybeCompact leaves a history alone or cuts it.
LEMMA MaybeCut ==
  ASSUME NEW h \in Seq(Messages), Len(h) >= 2, NEW full \in BOOLEAN
  PROVE  MaybeCompact(h, full) = h \/ \E f : CutAt(MaybeCompact(h, full), h, f)
<1>1. Compacted(h) = h \/ \E f : CutAt(Compacted(h), h, f)
  BY Compaction
<1> QED
  BY <1>1 DEF MaybeCompact

\* As many numbers as another set has, when they are among its own, shifted.
LEMMA Shifted ==
  ASSUME NEW S \in SUBSET Int, IsFiniteSet(S), NEW d \in Int,
         NEW T \in SUBSET Int, \A t \in T : t + d \in S
  PROVE  IsFiniteSet(T) /\ Cardinality(T) <= Cardinality(S)
<1> DEFINE F == [t \in T |-> t + d]
<1>1. \A t \in T : t \in Int
  OBVIOUS
<1>2. F \in [T -> S] /\ \A t, u \in T : F[t] = F[u] => t = u
  BY <1>1
<1>3. F \in Injection(T, S)
  BY <1>2 DEF Injection, IsInjective
<1> HIDE DEF F
<1> QED
  BY <1>3, FS_Injection

\* A group behind the head for every response.
LEMMA TurnsAreGroups ==
  ASSUME NEW h \in Seq(Messages), Headed(h)
  PROVE  LET S == GroupStarts(Tail2(h))
         IN  /\ S = {i \in 1..(Len(h) - 2) : i = 1 \/ h[i + 2].kind = "assistant"}
             /\ S \in SUBSET Int /\ IsFiniteSet(S) /\ Cardinality(S) \in Nat
             /\ \A t \in Turns(h) : t - 2 \in S
             /\ Turns(h) \in SUBSET Int /\ IsFiniteSet(Turns(h)) /\ Cardinality(Turns(h)) \in Nat
             /\ Cardinality(Turns(h)) <= Cardinality(S)
<1> DEFINE S == GroupStarts(Tail2(h))
<1>1. Len(h) \in Nat /\ DOMAIN h = 1..Len(h) /\ 2 \in 1..Len(h)
  BY Numbered DEF Headed
<1>2. Len(h) >= 2
  BY <1>1
<1>3. S = {i \in 1..(Len(h) - 2) : i = 1 \/ h[i + 2].kind = "assistant"}
  BY <1>2, Behind
<1>4. IsFiniteSet(1..(Len(h) - 2)) /\ S \in SUBSET (1..(Len(h) - 2)) /\ S \in SUBSET Int
  <2> HIDE DEF S
  <2>1. S \in SUBSET (1..(Len(h) - 2))
    BY <1>3
  <2>2. Len(h) - 2 \in Int
    BY <1>1
  <2>3. IsFiniteSet(1..(Len(h) - 2))
    BY <2>2, FS_Interval
  <2> QED
    BY <2>1, <2>3
<1>5. IsFiniteSet(S) /\ Cardinality(S) \in Nat
  BY <1>4, FS_Subset, FS_CardinalityType
<1>6. ASSUME NEW t \in Turns(h) PROVE t - 2 \in S
  <2>1. t \in 1..Len(h) /\ h[t].kind = "assistant" /\ h[1].kind = "system" /\ h[2].kind = "task"
    BY <1>1 DEF Turns, Headed, Plain
  <2>2. t # 1 /\ t # 2
    BY <2>1
  <2>3. t - 2 \in 1..(Len(h) - 2) /\ t - 2 + 2 = t
    BY <1>1, <2>1, <2>2
  <2> QED
    BY <1>3, <2>1, <2>3
<1>7. Turns(h) \in SUBSET Int
  BY <1>1 DEF Turns
<1>8. PICK d \in Int : \A t \in Turns(h) : t + d \in S
  <2>1. 0 - 2 \in Int /\ \A t \in Turns(h) : t + (0 - 2) = t - 2
    BY <1>7
  <2> HIDE DEF S
  <2> QED
    BY <1>6, <2>1
<1>9. IsFiniteSet(Turns(h)) /\ Cardinality(Turns(h)) <= Cardinality(S)
  <2> HIDE DEF S
  <2> QED
    BY <1>4, <1>5, <1>7, <1>8, Shifted
<1>10. Cardinality(Turns(h)) \in Nat
  BY <1>9, FS_CardinalityType
<1> QED
  BY <1>3, <1>4, <1>5, <1>6, <1>7, <1>9, <1>10

\* The responses before and after a cut.
LEMMA CutCounts ==
  ASSUME NEW h \in Seq(Messages), Headed(h), NEW g, NEW f, CutAt(g, h, f)
  PROVE  /\ Cardinality(Turns(g)) \in Nat /\ Cardinality(Turns(g)) <= KeepSteps
         /\ f = 2 => Cardinality(Turns(h)) <= KeepSteps + 1
<1> DEFINE S == GroupStarts(Tail2(h))
           T == {j \in S : j >= f}
<1>1. /\ S = {i \in 1..(Len(h) - 2) : i = 1 \/ h[i + 2].kind = "assistant"}
      /\ S \in SUBSET Int /\ IsFiniteSet(S) /\ Cardinality(S) \in Nat
      /\ Cardinality(Turns(h)) \in Nat /\ Cardinality(Turns(h)) <= Cardinality(S)
  BY TurnsAreGroups
<1>2. Cardinality(T) = KeepSteps
  BY DEF CutAt
<1>3. T \in SUBSET S /\ IsFiniteSet(T) /\ T \in SUBSET Int
  <2>1. T \in SUBSET S
    OBVIOUS
  <2> HIDE DEF S, T
  <2> QED
    BY <1>1, <2>1, FS_Subset
<1>4. /\ g \in Seq(Messages) /\ Len(g) \in Nat /\ Len(h) \in Nat /\ f \in Nat
      /\ f >= 2 /\ f + 2 <= Len(h)
      /\ \A i \in 1..Len(g) : g[i].kind \in {"assistant", "tool"} => i >= 4
      /\ \A i \in 4..Len(g) : /\ i \in 1..Len(g) /\ i + f - 2 \in (f + 2)..Len(h)
                              /\ i + f - 2 \in 1..Len(h) /\ g[i] = h[i + f - 2]
  BY CutPlaces
<1>5. DOMAIN g = 1..Len(g)
  BY <1>4, Numbered
<1>6. ASSUME NEW t \in Turns(g) PROVE t + (f - 4) \in T
  <2>1. t \in 4..Len(g) /\ g[t].kind = "assistant"
    BY <1>4, <1>5 DEF Turns
  <2>2. t + f - 2 \in (f + 2)..Len(h) /\ h[t + f - 2].kind = "assistant"
    BY <1>4, <2>1
  <2>3. t + (f - 4) \in 1..(Len(h) - 2) /\ t + (f - 4) + 2 = t + f - 2 /\ t + (f - 4) >= f
    BY <1>4, <2>1, <2>2
  <2> QED
    BY <1>1, <2>2, <2>3
<1>7. Turns(g) \in SUBSET Int /\ f - 4 \in Int
  BY <1>4, <1>5 DEF Turns
<1>8. IsFiniteSet(Turns(g)) /\ Cardinality(Turns(g)) <= Cardinality(T)
  <2> HIDE DEF S, T
  <2> QED
    BY <1>3, <1>6, <1>7, Shifted
<1>9. Cardinality(Turns(g)) \in Nat
  BY <1>8, FS_CardinalityType
<1>10. ASSUME f = 2 PROVE Cardinality(Turns(h)) <= KeepSteps + 1
  <2>1. S \subseteq T \cup {1}
    BY <1>1, <1>10
  <2>2. IsFiniteSet(T \cup {1}) /\ Cardinality(T \cup {1}) <= Cardinality(T) + 1
        /\ Cardinality(T) \in Nat /\ Cardinality(T \cup {1}) \in Nat
    <3>1. Cardinality(T) \in Nat
      BY <1>3, FS_CardinalityType
    <3>2. /\ IsFiniteSet(T \cup {1})
          /\ Cardinality(T \cup {1}) = IF 1 \in T THEN Cardinality(T) ELSE Cardinality(T) + 1
      BY <1>3, FS_AddElement
    <3> HIDE DEF T
    <3> QED
      BY <3>1, <3>2
  <2>3. Cardinality(S) <= Cardinality(T \cup {1})
    BY <2>1, <2>2, FS_Subset
  <2> HIDE DEF S, T
  <2> QED
    BY <1>1, <1>2, <2>2, <2>3
<1> QED
  BY <1>2, <1>8, <1>9, <1>10

\* What a cut keeps: the last messages, with KeepSteps responses among them.
LEMMA CutKeeps ==
  ASSUME NEW h \in Seq(Messages), Headed(h), NEW g, NEW f, CutAt(g, h, f)
  PROVE  \E k \in 1..Len(g) : /\ LastOnes(g, k) = LastOnes(h, k)
                              /\ Cardinality(Turns(LastOnes(h, k))) >= KeepSteps
<1> DEFINE k == Len(h) - f - 1
           S == GroupStarts(Tail2(h))
           T == {j \in S : j >= f}
           t == LastOnes(h, k)
<1>1. /\ g \in Seq(Messages) /\ Len(g) \in Nat /\ Len(h) \in Nat /\ f \in Nat
      /\ f >= 2 /\ f + 2 <= Len(h) /\ Len(g) = Len(h) - f + 2
      /\ \A i \in 4..Len(g) : /\ i \in 1..Len(g) /\ i + f - 2 \in (f + 2)..Len(h)
                              /\ i + f - 2 \in 1..Len(h) /\ g[i] = h[i + f - 2]
  BY CutPlaces
<1>2. /\ k \in 1..Len(g) /\ Len(g) - k + 1 = 4 /\ Len(h) - k + 1 = f + 2 /\ k \in Nat
  BY <1>1
<1>3. LastOnes(g, k) = SubSeq(g, 4, Len(g)) /\ t = SubSeq(h, f + 2, Len(h))
  BY <1>2 DEF LastOnes
<1>4. \A i \in 1..Len(h) : h[i] \in Messages
  BY Numbered
<1>5. \A i \in 1..Len(g) : g[i] \in Messages
  BY <1>1, Numbered
<1>6. /\ t \in Seq(Messages) /\ Len(t) = k
      /\ \A i \in 1..k : t[i] = h[i + f + 1]
  <2>1. /\ SubSeq(h, f + 2, Len(h)) \in Seq(Messages)
        /\ Len(SubSeq(h, f + 2, Len(h)))
             = (IF f + 2 <= Len(h) THEN Len(h) - (f + 2) + 1 ELSE 0)
        /\ \A i \in 1..(Len(h) - (f + 2) + 1) : SubSeq(h, f + 2, Len(h))[i] = h[f + 2 + i - 1]
    <3>1. f + 2 \in Int /\ Len(h) \in Int /\ \A i \in (f + 2)..Len(h) : i \in 1..Len(h)
      BY <1>1
    <3> QED
      BY <1>4, <3>1, SubSeqProperties
  <2>2. f + 2 <= Len(h) /\ Len(h) - (f + 2) + 1 = k /\ \A i \in 1..k : f + 2 + i - 1 = i + f + 1
    BY <1>1
  <2> HIDE DEF k, t
  <2> QED
    BY <1>3, <2>1, <2>2
<1>7. /\ LastOnes(g, k) \in Seq(Messages) /\ Len(LastOnes(g, k)) = k
      /\ \A i \in 1..k : LastOnes(g, k)[i] = h[i + f + 1]
  <2>1. /\ SubSeq(g, 4, Len(g)) \in Seq(Messages)
        /\ Len(SubSeq(g, 4, Len(g))) = (IF 4 <= Len(g) THEN Len(g) - 4 + 1 ELSE 0)
        /\ \A i \in 1..(Len(g) - 4 + 1) : SubSeq(g, 4, Len(g))[i] = g[4 + i - 1]
    <3>1. 4 \in Int /\ Len(g) \in Int /\ \A i \in 4..Len(g) : i \in 1..Len(g)
      BY <1>1
    <3> QED
      BY <1>5, <3>1, SubSeqProperties
  <2>2. 4 <= Len(g) /\ Len(g) - 4 + 1 = k
    BY <1>1
  <2>3. ASSUME NEW i \in 1..k PROVE g[4 + i - 1] = h[i + f + 1]
    <3>1. 4 + i - 1 \in 4..Len(g) /\ 4 + i - 1 + f - 2 = i + f + 1
      BY <1>1
    <3> QED
      BY <1>1, <3>1
  <2> HIDE DEF k, t
  <2> QED
    BY <1>3, <2>1, <2>2, <2>3
<1>8. LastOnes(g, k) = t
  <2> HIDE DEF k, t
  <2> QED
    BY <1>6, <1>7, SeqEqual
<1>9. /\ S = {i \in 1..(Len(h) - 2) : i = 1 \/ h[i + 2].kind = "assistant"}
      /\ S \in SUBSET Int
  BY TurnsAreGroups
<1>10. DOMAIN t = 1..k /\ IsFiniteSet(Turns(t)) /\ Turns(t) \in SUBSET Int
  <2> HIDE DEF k, t
  <2>1. DOMAIN t = 1..k /\ IsFiniteSet(Turns(t)) /\ Turns(t) \in SUBSET Nat
    BY <1>6, Numbered
  <2> QED
    BY <2>1
<1>11. ASSUME NEW j \in T PROVE j + (1 - f) \in Turns(t)
  <2>1. j \in 1..(Len(h) - 2) /\ j >= f /\ h[j + 2].kind = "assistant"
    BY <1>1, <1>9
  <2>2. j + (1 - f) \in 1..k /\ j + (1 - f) + f + 1 = j + 2
    <3>1. Len(h) \in Nat /\ f \in Nat
      BY <1>1
    <3> QED
      BY <2>1, <3>1
  <2>3. t[j + (1 - f)].kind = "assistant"
    <3> HIDE DEF k, t, T, S
    <3> QED
      BY <1>6, <2>1, <2>2
  <2> HIDE DEF k, t, T, S
  <2> QED
    BY <1>10, <2>2, <2>3 DEF Turns
<1>12. Cardinality(T) <= Cardinality(Turns(t))
  <2>1. T \in SUBSET Int /\ 1 - f \in Int
    BY <1>1, <1>9
  <2> HIDE DEF k, t, T, S
  <2> QED
    BY <1>10, <1>11, <2>1, Shifted
<1>13. Cardinality(T) = KeepSteps
  BY DEF CutAt
<1>14. Cardinality(Turns(t)) >= KeepSteps
  <2>1. Cardinality(Turns(t)) \in Nat
    BY <1>10, FS_CardinalityType
  <2> HIDE DEF k, t, T, S
  <2> QED
    BY <1>12, <1>13, <2>1, BoundAssumption
<1> HIDE DEF k
<1> QED
  BY <1>2, <1>8, <1>14

-----------------------------------------------------------------------------
(***************************************************************************)
(* The steps.                                                              *)
(***************************************************************************)

\* What Respond does to the history of a run.
LEMMA RespondMakes ==
  ASSUME Typed, Whole, NEW calls \in 0..MaxCalls, NEW ask \in 0..1, Respond(calls, ask)
  PROVE  LET next == Append(history, Response(responses + 1, calls, ask))
         IN  /\ Response(responses + 1, calls, ask) \in Messages
             /\ Extends(next, history) /\ Len(next) = Len(history) + 1
             /\ Newest(next) = Response(responses + 1, calls, ask)
             /\ next \in Seq(Messages) /\ Grown(next, responses + 1)
             /\ AnsweredTo(history, Len(history) + 1) => AnsweredTo(next, Len(next))
             /\ history' = next \/ \E f : CutAt(history', next, f)
<1> DEFINE m    == Response(responses + 1, calls, ask)
           next == Append(history, m)
           full == reports /\ Prompt(history) >= CompactAt
<1>1. Grown(history, responses) /\ history \in Seq(Messages) /\ responses \in Nat
  BY BoundAssumption DEF Typed, Whole, Respond
<1>2. m \in Messages
  <2>1. responses + 1 \in 0..MaxResponses /\ ask \in 0..MaxCalls
    BY BoundAssumption DEF Typed, Respond
  <2> QED
    BY <2>1, AreMessages
<1>3. m.kind = "assistant" /\ m.n = responses + 1 /\ m.calls = calls /\ m.ask = ask /\ ask <= calls
  BY DEF Response, Respond
<1> HIDE DEF m
<1>4. /\ Extends(next, history) /\ Len(next) = Len(history) + 1 /\ Newest(next) = m
  BY <1>1, <1>2, Appended
<1>5. next \in Seq(Messages)
  BY <1>4 DEF Extends
<1>6. /\ Grown(next, responses + 1)
      /\ AnsweredTo(history, Len(history) + 1) => AnsweredTo(next, Len(next))
  <2> HIDE DEF next
  <2> QED
    BY <1>1, <1>3, <1>4, ResponseKeeps
<1>7. history' = MaybeCompact(next, full)
  BY DEF Respond, m
<1>8. full \in BOOLEAN
  BY DEF Typed
<1>9. Len(next) >= 2
  <2>1. Len(next) \in Nat /\ 2 \in 1..Len(next)
    BY <1>5, <1>6, Numbered DEF Grown, Headed
  <2> QED
    BY <2>1
<1>10. history' = next \/ \E f : CutAt(history', next, f)
  <2> HIDE DEF next, full
  <2> QED
    BY <1>5, <1>7, <1>8, <1>9, MaybeCut
<1> QED
  BY <1>2, <1>4, <1>5, <1>6, <1>10 DEF m

\* A response keeps the invariant.
LEMMA RespondKeeps ==
  ASSUME Inv, NEW calls \in 0..MaxCalls, NEW ask \in 0..1, Respond(calls, ask)
  PROVE  Inv'
<1> DEFINE m    == Response(responses + 1, calls, ask)
           next == Append(history, m)
<1>1. Typed /\ Whole /\ Sent
  BY DEF Inv
<1>2. /\ m \in Messages /\ m.kind = "assistant" /\ m.calls = calls
      /\ Extends(next, history) /\ Len(next) = Len(history) + 1 /\ Newest(next) = m
      /\ next \in Seq(Messages) /\ Grown(next, responses + 1)
      /\ AnsweredTo(history, Len(history) + 1) => AnsweredTo(next, Len(next))
      /\ history' = next \/ \E f : CutAt(history', next, f)
  <2>1. m.kind = "assistant" /\ m.calls = calls
    BY DEF Response
  <2> QED
    BY <1>1, <2>1, RespondMakes
<1>3. responses \in Nat /\ responses + 1 \in Nat /\ responses' = responses + 1
  BY <1>1, BoundAssumption DEF Typed, Respond
<1> HIDE DEF m, next
<1>4. /\ history' \in Seq(Messages) /\ Grown(history', responses + 1) /\ Newest(history') = m
      /\ AnsweredTo(history, Len(history) + 1) => AnsweredTo(history', Len(history'))
  <2>1. CASE history' = next
    BY <1>2, <2>1
  <2>2. CASE \E f : CutAt(history', next, f)
    <3>1. PICK f : CutAt(history', next, f)
      BY <2>2
    <3>2. history' \in Seq(Messages) /\ Newest(history') = Newest(next)
      BY <1>2, <3>1, CutPlaces DEF Grown
    <3>3. Grown(history', responses + 1)
      BY <1>2, <1>3, <3>1, CutIsGrown
    <3>4. AnsweredTo(next, Len(next)) => AnsweredTo(history', Len(history'))
      BY <1>2, <1>3, <3>1, CutIsAnswered
    <3> QED
      BY <1>2, <3>2, <3>3, <3>4
  <2> QED
    BY <1>2, <2>1, <2>2
<1>5. Typed'
  <2>1. responses + 1 \in 0..MaxResponses /\ saved \in 0..(responses + 1)
    BY <1>1, BoundAssumption DEF Typed, Respond
  <2> QED
    BY <1>1, <1>3, <1>4, <2>1 DEF Typed, Respond, AfterResponse, Places
<1>6. place' = "save" /\ then' = (IF calls > 0 THEN "act" ELSE "talk")
  BY DEF Respond, AfterResponse
<1>7. Whole'
  <2>1. disk # <<>> => Grown(disk, responses + 1)
    <3>1. ASSUME Grown(disk, responses) PROVE Grown(disk, responses + 1)
      <4>1. \A i \in 1..Len(disk) : disk[i] \in Messages /\ disk[i].n \in Nat
        <5>1. \A x \in Messages : x.n \in Nat
          BY BoundAssumption DEF Messages
        <5>2. \A i \in 1..Len(disk) : disk[i] \in Messages
          BY <1>1, Numbered DEF Typed
        <5> QED
          BY <5>1, <5>2
      <4>2. Counted(disk, responses)
        BY <3>1 DEF Grown
      <4>3. ASSUME NEW i \in 1..Len(disk), disk[i].kind = "assistant"
            PROVE  disk[i].n <= responses + 1 /\ disk[i].ask <= disk[i].calls
        <5>1. disk[i].n <= responses /\ disk[i].ask <= disk[i].calls
          BY <4>2, <4>3 DEF Counted
        <5>2. disk[i].n \in Nat
          BY <4>1
        <5> QED
          BY <1>3, <5>1, <5>2
      <4>4. Counted(disk, responses + 1)
        BY <4>2, <4>3 DEF Counted
      <4> QED
        BY <3>1, <4>4 DEF Grown
    <3> QED
      BY <1>1, <3>1 DEF Whole
  <2> QED
    BY <1>3, <1>4, <1>6, <2>1 DEF Whole, Respond
<1>8. Responded'
  <2>1. calls > 0 \/ calls = 0
    BY BoundAssumption
  <2> QED
    BY <1>2, <1>4, <1>6, <2>1 DEF Responded, After
<1>9. ResponseIsOnDisk'
  BY <1>6 DEF ResponseIsOnDisk
<1>10. Sent'
  <2>1. After = "chat" /\ stops' = stops /\ saveFails' = saveFails
    BY DEF Respond, After
  <2>2. After' \in {"act", "talk"}
    BY <1>6 DEF After
  <2> QED
    BY <1>1, <1>4, <2>1, <2>2 DEF Sent
<1> QED
  BY <1>5, <1>7, <1>8, <1>9, <1>10 DEF Inv

\* User messages change nothing.
LEMMA WordsKeep ==
  ASSUME NEW h \in Seq(Messages), NEW r \in Nat, Grown(h, r), NEW t \in Seq(Messages),
         \A i \in 1..Len(t) : t[i].kind \in {"nudge", "note"}
  PROVE  /\ h \o t \in Seq(Messages) /\ Grown(h \o t, r)
         /\ AnsweredTo(h, Len(h) + 1) => AnsweredTo(h \o t, Len(h \o t) + 1)
<1> DEFINE g == h \o t
<1>1. /\ Extends(g, h)
      /\ \A i \in 1..Len(g) : i > Len(h) => i - Len(h) \in 1..Len(t) /\ g[i] = t[i - Len(h)]
  BY Joined
<1>2. g \in Seq(Messages)
  BY <1>1 DEF Extends
<1> HIDE DEF g
<1>3. \A i \in 1..Len(g) : i > Len(h) => g[i].kind \in {"nudge", "note"}
  BY <1>1
<1>4. Grown(g, r) /\ (AnsweredTo(h, Len(h) + 1) => AnsweredTo(g, Len(g) + 1))
  BY <1>1, <1>3, TalkKeeps
<1> QED
  BY <1>2, <1>4 DEF g

\* The nudges there are.
LEMMA Nudges ==
  ASSUME NEW count \in Nat
  PROVE  LET t == [i \in 1..count |-> Plain("nudge")]
         IN  t \in Seq(Messages) /\ \A i \in 1..Len(t) : t[i].kind \in {"nudge", "note"}
<1> DEFINE t == [i \in 1..count |-> Plain("nudge")]
<1>1. Plain("nudge") \in Messages /\ Plain("nudge").kind = "nudge"
  BY AreMessages DEF Kinds, Plain
<1>2. t \in [1..count -> Messages]
  BY <1>1
<1>3. t \in Seq(Messages)
  BY <1>2, SeqDef
<1>4. Len(t) = count
  OBVIOUS
<1> QED
  BY <1>1, <1>3, <1>4

\* One word at the end changes nothing either.
LEMMA WordKeeps ==
  ASSUME NEW h \in Seq(Messages), NEW r \in Nat, Grown(h, r), NEW kind \in {"nudge", "note"}
  PROVE  LET g == Append(h, Plain(kind))
         IN  /\ g \in Seq(Messages) /\ Grown(g, r)
             /\ AnsweredTo(h, Len(h) + 1) => AnsweredTo(g, Len(g) + 1)
<1> DEFINE m == Plain(kind)
           g == Append(h, m)
<1>1. m \in Messages /\ m.kind = kind
  BY AreMessages DEF Kinds, Plain
<1> HIDE DEF m
<1>2. Extends(g, h) /\ \A i \in 1..Len(g) : i > Len(h) => g[i] = m
  BY <1>1, Appended
<1>3. g \in Seq(Messages)
  BY <1>2 DEF Extends
<1> HIDE DEF g
<1>4. \A i \in 1..Len(g) : i > Len(h) => g[i].kind \in {"nudge", "note"}
  BY <1>1, <1>2
<1>5. Grown(g, r) /\ (AnsweredTo(h, Len(h) + 1) => AnsweredTo(g, Len(g) + 1))
  BY <1>2, <1>4, TalkKeeps
<1> QED
  BY <1>3, <1>5 DEF g, m

\* The results of the newest response answer it.
LEMMA AnswersKeep ==
  ASSUME NEW h \in Seq(Messages), NEW r \in Nat, Grown(h, r), Newest(h).kind = "assistant",
         NEW size \in {1, LargeResult}
  PROVE  LET g == h \o Results(Newest(h), size)
         IN  /\ g \in Seq(Messages) /\ Grown(g, r)
             /\ AnsweredTo(h, Len(h)) => AnsweredTo(g, Len(g) + 1)
<1> DEFINE m == Newest(h)
           t == Results(m, size)
           g == h \o t
<1>1. m \in Messages
  <2>1. Len(h) \in 1..Len(h)
    <3>1. Len(h) \in Nat /\ 2 \in 1..Len(h)
      BY Numbered DEF Grown, Headed
    <3> QED
      BY <3>1
  <2> QED
    BY <2>1, Numbered DEF Newest
<1>2. m.n \in 0..MaxResponses /\ m.calls \in 0..MaxCalls /\ m.calls \in Nat
  BY <1>1, BoundAssumption DEF Messages
<1> HIDE DEF m
<1>3. \A i \in 1..m.calls : Result(m.n, i, size) \in Messages
  <2>1. \A i \in 1..m.calls : i \in 0..MaxCalls
    BY <1>2, BoundAssumption
  <2> QED
    BY <1>2, <2>1, AreMessages
<1>4. t \in [1..m.calls -> Messages]
  BY <1>3 DEF Results
<1>5. t \in Seq(Messages)
  BY <1>2, <1>4, SeqDef
<1>6. Len(t) = m.calls
  BY <1>2 DEF Results
<1>7. \A i \in 1..Len(t) : t[i].kind = "tool" /\ t[i].n = m.n /\ t[i].calls = i
  BY <1>6 DEF Results, Result
<1> HIDE DEF t
<1>8. /\ Extends(g, h) /\ Len(h) \in Nat
      /\ \A i \in 1..Len(g) : i > Len(h) => i - Len(h) \in 1..Len(t) /\ g[i] = t[i - Len(h)]
      /\ \A i \in 1..Len(t) : i + Len(h) \in 1..Len(g) /\ i + Len(h) > Len(h)
                              /\ g[i + Len(h)] = t[i]
  BY <1>5, Joined
<1>9. g \in Seq(Messages) /\ Len(g) \in Nat
  BY <1>8, Numbered DEF Extends
<1> HIDE DEF g
<1>10. \A i \in 1..Len(g) : i > Len(h) =>
         g[i].kind = "tool" /\ g[i].n = m.n /\ g[i].calls = i - Len(h)
         /\ g[i].calls \in 1..m.calls
  <2>1. ASSUME NEW i \in 1..Len(g), i > Len(h)
        PROVE  /\ g[i].kind = "tool" /\ g[i].n = m.n /\ g[i].calls = i - Len(h)
               /\ g[i].calls \in 1..m.calls
    <3>1. i - Len(h) \in 1..Len(t) /\ g[i] = t[i - Len(h)]
      BY <1>8, <2>1
    <3>2. t[i - Len(h)].kind = "tool" /\ t[i - Len(h)].n = m.n /\ t[i - Len(h)].calls = i - Len(h)
      BY <1>7, <3>1
    <3> QED
      BY <1>6, <3>1, <3>2
  <2> QED
    BY <2>1
<1>11. ASSUME NEW i \in 1..Len(g), NEW j \in 1..Len(g), i > Len(h), j > Len(h),
              g[i].calls = g[j].calls
       PROVE  i = j
  <2>1. i - Len(h) = j - Len(h)
    BY <1>10, <1>11
  <2> QED
    BY <1>8, <1>9, <2>1
<1>12. ASSUME NEW c \in 1..m.calls
       PROVE  \E j \in 1..Len(g) : j > Len(h) /\ g[j].calls = c
  <2>1. c + Len(h) \in 1..Len(g) /\ c + Len(h) > Len(h) /\ g[c + Len(h)] = t[c] /\ t[c].calls = c
    BY <1>6, <1>7, <1>8
  <2> QED
    BY <2>1
<1>13. Grown(g, r) /\ (AnsweredTo(h, Len(h)) => AnsweredTo(g, Len(g) + 1))
  BY <1>8, <1>10, <1>11, <1>12, ResultsKeep DEF m
<1> QED
  BY <1>9, <1>13 DEF g, t, m

\* What a resumed history is: an answer to its newest response, or a note.
LEMMA ResumedKeeps ==
  ASSUME NEW h \in Seq(Messages), NEW r \in Nat, Grown(h, r)
  PROVE  /\ Resumed(h) \in Seq(Messages) /\ Grown(Resumed(h), r)
         /\ AnsweredTo(h, Len(h) + 1) => AnsweredTo(Resumed(h), Len(Resumed(h)) + 1)
<1> DEFINE m == Newest(h)
<1>1. /\ Len(h) \in Nat /\ Len(h) \in 1..Len(h) /\ Len(h) < Len(h) + 1 /\ m = h[Len(h)]
      /\ m \in Messages
  <2>1. Len(h) \in 1..Len(h) /\ Len(h) \in Nat /\ Len(h) < Len(h) + 1
    <3>1. Len(h) \in Nat /\ 2 \in 1..Len(h)
      BY Numbered DEF Grown, Headed
    <3> QED
      BY <3>1
  <2> QED
    BY <2>1, Numbered DEF Newest
<1>2. m.n \in 0..MaxResponses /\ m.ask \in 0..MaxCalls /\ m.calls \in 0..MaxCalls
  BY <1>1 DEF Messages
<1>3. CASE ~PausedOnQuestion(h)
  BY <1>3, WordKeeps DEF Resumed
<1>4. CASE PausedOnQuestion(h)
  <2>1. m.kind = "assistant" /\ m.ask # 0
    BY <1>4 DEF PausedOnQuestion
  <2>2. m.ask <= m.calls
    BY <1>1, <2>1 DEF Grown, Counted
  <2>3. m.ask \in 1..m.calls
    BY <1>2, <2>1, <2>2, BoundAssumption
  <2> DEFINE a == Result(m.n, m.ask, 1)
             g == Append(h, a)
  <2>4. Resumed(h) = g
    BY <1>4 DEF Resumed
  <2>5. a \in Messages
    BY <1>2, AreMessages
  <2>6. a.kind = "tool" /\ a.n = m.n /\ a.calls = m.ask
    BY DEF Result
  <2> HIDE DEF m, a
  <2>7. /\ Extends(g, h) /\ Len(g) = Len(h) + 1
        /\ \A i \in 1..Len(g) : i > Len(h) => g[i] = a
    BY <2>5, Appended
  <2>8. g \in Seq(Messages) /\ Len(g) \in Nat
    BY <2>7, Numbered DEF Extends
  <2> HIDE DEF g
  <2>9. \A i \in 1..Len(g) : i > Len(h) => i = Len(g)
    BY <1>1, <2>7
  <2>10. Grown(g, r)
    <3>1. \A i \in 1..Len(g) : i > Len(h) =>
            /\ g[i].kind = "tool" /\ g[i].n = m.n /\ g[i].calls \in 1..m.calls
      BY <2>3, <2>6, <2>7
    <3>2. \A i, j \in 1..Len(g) : i > Len(h) /\ j > Len(h) /\ g[i].calls = g[j].calls => i = j
      BY <2>9
    <3> QED
      BY <2>1, <2>7, <3>1, <3>2, ResultsKeep DEF m
  <2>11. ASSUME AnsweredTo(h, Len(h) + 1) PROVE FALSE
    <3>1. m.ask \in 1..h[Len(h)].calls /\ h[Len(h)].kind = "assistant"
      BY <1>1, <2>1, <2>3
    <3>2. PICK j \in 1..Len(h) : Answers(h, Len(h), j)
      BY <1>1, <2>11, <3>1 DEF AnsweredTo, Answered
    <3> QED
      BY <1>1, <3>2 DEF Answers, Follows
  <2> QED
    BY <2>4, <2>8, <2>10, <2>11
<1> QED
  BY <1>3, <1>4

\* A history whose newest response has no calls is answered when all but that are.
LEMMA TalkIsAnswered ==
  ASSUME Typed, Responded, After = "talk", Grown(history, responses),
         AnsweredTo(history, Len(history))
  PROVE  AnsweredTo(history, Len(history) + 1)
<1>1. Len(history) \in Nat /\ history[Len(history)].calls = 0
  BY Numbered DEF Typed, Responded, Newest
<1>2. \A i \in 1..Len(history) : i < Len(history) + 1 => i < Len(history) \/ i = Len(history)
  BY <1>1
<1>3. Answered(history, Len(history))
  BY <1>1 DEF Answered
<1> QED
  BY <1>2, <1>3 DEF AnsweredTo

\* What the loop appends keeps the invariant.
LEMMA AppendsKeep ==
  ASSUME Inv, NEW g, place \in {"talk", "act"},
         history' = g, g \in Seq(Messages), Grown(g, responses),
         AnsweredTo(history, Len(history)) => AnsweredTo(g, Len(g) + 1),
         place' = "chat" \/ (place' = "save" /\ then' = "chat"),
         then' \in {then, "chat"},
         UNCHANGED <<reports, disk, responses, saved, stops, saveFails>>
  PROVE  Inv'
<1>1. Typed /\ Whole /\ Sent
  BY DEF Inv
<1>2. Typed'
  BY <1>1 DEF Typed, Places
<1>3. Whole'
  BY <1>1 DEF Whole
<1>4. After = place /\ After' = "chat"
  BY DEF After
<1>5. Responded' /\ ResponseIsOnDisk'
  BY <1>4 DEF Responded, ResponseIsOnDisk
<1>6. Sent'
  BY <1>1, <1>4 DEF Sent
<1> QED
  BY <1>2, <1>3, <1>5, <1>6 DEF Inv

\* The loop answers a reply that cannot be the end with a nudge.
LEMMA NudgeKeeps ==
  ASSUME Inv, NEW count \in 0..2, Nudge(count)
  PROVE  Inv'
<1> DEFINE t == [i \in 1..count |-> Plain("nudge")]
<1>1. /\ Typed /\ Whole /\ Responded
      /\ history \in Seq(Messages) /\ responses \in Nat /\ Grown(history, responses)
      /\ place = "talk" /\ After = "talk"
  BY BoundAssumption DEF Inv, Typed, Whole, Nudge, After
<1>2. t \in Seq(Messages) /\ \A i \in 1..Len(t) : t[i].kind \in {"nudge", "note"}
  BY Nudges
<1> HIDE DEF t
<1>3. /\ history \o t \in Seq(Messages) /\ Grown(history \o t, responses)
      /\ AnsweredTo(history, Len(history) + 1)
           => AnsweredTo(history \o t, Len(history \o t) + 1)
  BY <1>1, <1>2, WordsKeep
<1>4. AnsweredTo(history, Len(history)) => AnsweredTo(history, Len(history) + 1)
  BY <1>1, TalkIsAnswered
<1> DEFINE g == history \o t
<1>5. history' = g
  BY DEF Nudge, t
<1>6. g \in Seq(Messages) /\ Grown(g, responses)
      /\ (AnsweredTo(history, Len(history)) => AnsweredTo(g, Len(g) + 1))
  BY <1>3, <1>4
<1> HIDE DEF g
<1>7. place' = "chat" /\ UNCHANGED <<reports, disk, then, responses, saved, stops, saveFails>>
  BY DEF Nudge
<1> QED
  BY <1>1, <1>5, <1>6, <1>7, AppendsKeep

\* A finish is refused with a message of its own.
LEMMA RefuseKeeps ==
  ASSUME Inv, Refuse
  PROVE  Inv'
<1> DEFINE g == Append(history, Plain("nudge"))
<1>1. /\ Typed /\ Whole /\ Responded
      /\ history \in Seq(Messages) /\ responses \in Nat /\ Grown(history, responses)
      /\ place = "talk" /\ After = "talk"
  BY BoundAssumption DEF Inv, Typed, Whole, Refuse, After
<1>2. /\ g \in Seq(Messages) /\ Grown(g, responses)
      /\ AnsweredTo(history, Len(history) + 1) => AnsweredTo(g, Len(g) + 1)
  BY <1>1, WordKeeps
<1>3. AnsweredTo(history, Len(history)) => AnsweredTo(history, Len(history) + 1)
  BY <1>1, TalkIsAnswered
<1>4. history' = g
  BY DEF Refuse
<1> HIDE DEF g
<1> QED
  BY <1>1, <1>2, <1>3, <1>4, AppendsKeep DEF Refuse

\* The calls of a response get their results, in order.
LEMMA ActKeeps ==
  ASSUME Inv, NEW size \in {1, LargeResult}, NEW nudged \in BOOLEAN, Act(size, nudged)
  PROVE  Inv'
<1> DEFINE h == history \o Results(Newest(history), size)
           t == IF nudged THEN <<Plain("nudge")>> ELSE <<>>
<1>1. /\ Typed /\ Whole /\ Newest(history).kind = "assistant"
      /\ history \in Seq(Messages) /\ responses \in Nat /\ Grown(history, responses)
      /\ place = "act"
  BY BoundAssumption DEF Inv, Typed, Whole, Responded, Act, After
<1>2. /\ h \in Seq(Messages) /\ Grown(h, responses)
      /\ AnsweredTo(history, Len(history)) => AnsweredTo(h, Len(h) + 1)
  BY <1>1, AnswersKeep
<1>3. t \in Seq(Messages) /\ \A i \in 1..Len(t) : t[i].kind \in {"nudge", "note"}
  <2>1. Plain("nudge") \in Messages /\ Plain("nudge").kind = "nudge"
    BY AreMessages DEF Kinds, Plain
  <2> QED
    BY <2>1
<1>4. history' = h \o t
  BY DEF Act
<1> HIDE DEF h, t
<1>5. /\ h \o t \in Seq(Messages) /\ Grown(h \o t, responses)
      /\ AnsweredTo(h, Len(h) + 1) => AnsweredTo(h \o t, Len(h \o t) + 1)
  BY <1>1, <1>2, <1>3, WordsKeep
<1> DEFINE g == h \o t
<1>6. history' = g /\ g \in Seq(Messages) /\ Grown(g, responses)
      /\ (AnsweredTo(history, Len(history)) => AnsweredTo(g, Len(g) + 1))
  BY <1>2, <1>4, <1>5
<1> HIDE DEF g
<1>7. /\ place' = "save" /\ then' = "chat"
      /\ UNCHANGED <<reports, disk, responses, saved, stops, saveFails>>
  BY DEF Act
<1> QED
  BY <1>1, <1>6, <1>7, AppendsKeep

\* The snapshot and the end of a process keep it.
LEMMA SnapshotKeeps ==
  ASSUME Inv, Truncate \/ Write \/ SaveFails
  PROVE  Inv'
<1>1. Typed /\ Whole /\ Responded /\ Sent
  BY DEF Inv
<1>2. /\ place \in {"save", "write"} /\ After = then /\ After' = then
      /\ then \in {"chat", "talk", "act"}
      /\ UNCHANGED <<reports, history, then, responses, stops>>
      /\ saveFails' = saveFails \/ (saveFails' = saveFails + 1 /\ saveFails' <= MaxSaveFails)
  BY <1>1, BoundAssumption DEF Typed, Truncate, Write, SaveFails, After
<1>3. Typed'
  <2>1. disk' \in Seq(Messages) /\ saved' \in 0..responses
    <3>1. disk' \in {disk, history, <<>>} /\ saved' \in {saved, responses}
      BY DEF Truncate, Write, SaveFails, Unreadable
    <3>2. <<>> \in Seq(Messages)
      OBVIOUS
    <3>3. saved \in 0..responses /\ responses \in 0..responses
      BY <1>1, BoundAssumption DEF Typed
    <3> QED
      BY <1>1, <3>1, <3>2, <3>3 DEF Typed
  <2>2. saveFails' \in 0..MaxSaveFails
    BY <1>1, <1>2, BoundAssumption DEF Typed
  <2>3. place' \in Places
    BY <1>1 DEF Typed, Places, Truncate, Write, SaveFails
  <2> QED
    BY <1>1, <1>2, <2>1, <2>2, <2>3 DEF Typed
<1>4. Whole'
  <2>1. place' # "down"
    BY <1>1 DEF Typed, Truncate, Write, SaveFails
  <2>2. Grown(history, responses)
    BY <1>1, <1>2 DEF Whole
  <2>3. disk' \in {disk, history, <<>>}
    BY DEF Truncate, Write, SaveFails, Unreadable
  <2> QED
    BY <1>1, <1>2, <2>1, <2>2, <2>3 DEF Whole
<1>5. Responded'
  BY <1>1, <1>2 DEF Responded
<1>6. ResponseIsOnDisk'
  <2>1. CASE Truncate
    BY <2>1 DEF Truncate, ResponseIsOnDisk
  <2>2. CASE Write
    BY <2>2 DEF Write, ResponseIsOnDisk
  <2>3. CASE SaveFails
    BY <1>1, <2>3 DEF SaveFails, ResponseIsOnDisk, Typed
  <2> QED
    BY <2>1, <2>2, <2>3
<1>7. Sent'
  <2>1. saveFails' = 0 => saveFails = 0
    BY <1>1, <1>2 DEF Typed
  <2> QED
    BY <1>1, <1>2, <2>1 DEF Sent
<1> QED
  BY <1>3, <1>4, <1>5, <1>6, <1>7 DEF Inv

\* A run that ends, however it does, leaves its snapshot.
LEMMA EndKeeps ==
  ASSUME Inv, Finish \/ Stop
  PROVE  Inv'
<1>1. Typed /\ Whole /\ Responded /\ Sent /\ ResponseIsOnDisk
  BY DEF Inv
<1>2. /\ place' = "down" /\ history' = <<>> /\ After' = "down"
      /\ UNCHANGED <<reports, disk, then, responses, saved, saveFails>>
  BY DEF Finish, Stop, After
<1>3. Typed'
  <2>1. stops' \in 0..MaxStops
    BY <1>1, BoundAssumption DEF Typed, Finish, Stop
  <2> QED
    BY <1>1, <1>2, <2>1 DEF Typed, Places
<1>4. Whole' /\ Responded' /\ ResponseIsOnDisk'
  BY <1>1, <1>2 DEF Whole, Responded, ResponseIsOnDisk
<1>5. Sent'
  <2>1. CASE Stop
    <3>1. stops' # 0
      BY <1>1, <2>1 DEF Typed, Stop
    <3> QED
      BY <3>1 DEF Sent
  <2>2. CASE Finish
    <3>1. /\ place = "talk" /\ After = "talk" /\ stops' = stops
          /\ history \in Seq(Messages) /\ Grown(history, responses)
      BY <1>1, <2>2 DEF Finish, After, Whole, Typed
    <3>2. AnsweredTo(history, Len(history)) => AnsweredTo(history, Len(history) + 1)
      BY <1>1, <3>1, TalkIsAnswered
    <3>3. saveFails = 0 => disk = history
      BY <1>1, <3>1 DEF ResponseIsOnDisk, Typed
    <3> QED
      BY <1>1, <1>2, <3>1, <3>2, <3>3 DEF Sent
  <2> QED
    BY <2>1, <2>2
<1> QED
  BY <1>3, <1>4, <1>5 DEF Inv

\* A process that is gone leaves the state file.
LEMMA ReturnKeeps ==
  ASSUME Inv, Resume \/ StartOver
  PROVE  Inv'
<1>1. Typed /\ Whole /\ Sent
  BY DEF Inv
<1>2. /\ place = "down" /\ After = "down" /\ place' = "chat" /\ After' = "chat"
      /\ UNCHANGED <<reports, disk, then, responses, saved, stops, saveFails>>
  BY DEF Resume, StartOver, After
<1>3. responses \in Nat /\ disk \in Seq(Messages)
  BY <1>1, BoundAssumption DEF Typed
<1>4. /\ history' \in Seq(Messages) /\ Grown(history', responses)
      /\ AnsweredTo(disk, Len(disk) + 1) => AnsweredTo(history', Len(history') + 1)
  <2>1. CASE Resume
    <3>1. history' = Resumed(disk) /\ Grown(disk, responses)
      BY <1>1, <2>1 DEF Resume, Whole, Unreadable
    <3> QED
      BY <1>3, <3>1, ResumedKeeps
  <2>2. CASE StartOver
    <3>1. history' = Start
      BY <2>2 DEF StartOver
    <3> QED
      BY <1>3, <3>1, StartIsGrown
  <2> QED
    BY <2>1, <2>2
<1>5. Typed'
  BY <1>1, <1>2, <1>4 DEF Typed, Places
<1>6. Whole'
  BY <1>1, <1>2, <1>4 DEF Whole
<1>7. Responded' /\ ResponseIsOnDisk'
  BY <1>2 DEF Responded, ResponseIsOnDisk
<1>8. Sent'
  BY <1>1, <1>2, <1>4 DEF Sent
<1> QED
  BY <1>5, <1>6, <1>7, <1>8 DEF Inv

\* Every behaviour satisfies the invariant.
LEMMA Invariance == Spec => []Inv
<1>1. Init => Inv
  <2> SUFFICES ASSUME Init PROVE Inv
    OBVIOUS
  <2>1. /\ Start \in Seq(Messages) /\ Grown(Start, 0) /\ AnsweredTo(Start, Len(Start) + 1)
    BY StartIsGrown
  <2>2. Typed
    BY <2>1, BoundAssumption DEF Init, Typed, Places, Unreadable
  <2>3. Whole
    BY <2>1 DEF Init, Whole, Unreadable
  <2>4. Responded /\ ResponseIsOnDisk
    BY DEF Init, Responded, After, ResponseIsOnDisk
  <2>5. Sent
    BY <2>1 DEF Init, Sent, After
  <2> QED
    BY <2>2, <2>3, <2>4, <2>5 DEF Inv
<1>2. Inv /\ [Next]_vars => Inv'
  <2> SUFFICES ASSUME Inv, [Next]_vars PROVE Inv'
    OBVIOUS
  <2>1. CASE \E calls \in 0..MaxCalls, ask \in 0..1 : Respond(calls, ask)
    BY <2>1, RespondKeeps
  <2>2. CASE Truncate \/ Write \/ SaveFails
    BY <2>2, SnapshotKeeps
  <2>3. CASE \E count \in 0..2 : Nudge(count)
    BY <2>3, NudgeKeeps
  <2>4. CASE Refuse
    BY <2>4, RefuseKeeps
  <2>5. CASE \E size \in {1, LargeResult}, nudged \in BOOLEAN : Act(size, nudged)
    BY <2>5, ActKeeps
  <2>6. CASE Finish \/ Stop
    BY <2>6, EndKeeps
  <2>7. CASE Resume \/ StartOver
    BY <2>7, ReturnKeeps
  <2>8. CASE UNCHANGED vars
    BY <2>8 DEF vars, Inv, Typed, Whole, Responded, After, ResponseIsOnDisk, Sent
  <2> QED
    BY <2>1, <2>2, <2>3, <2>4, <2>5, <2>6, <2>7, <2>8 DEF Next
<1> QED
  BY <1>1, <1>2, PTL DEF Spec

-----------------------------------------------------------------------------
(***************************************************************************)
(* The type of measured: the sizes of a history add up to a number.        *)
(***************************************************************************)
\* A finite set of numbers that is not empty has a greatest element.
LEMMA GreatestOf ==
  ASSUME NEW S \in SUBSET Nat, IsFiniteSet(S), S # {}
  PROVE  Max(S) \in S /\ \A j \in S : Max(S) >= j
<1> DEFINE Above(i) == {j \in S : j > i}
           T        == {Above(i) : i \in S}
<1>1. T \subseteq SUBSET S /\ T # {}
  OBVIOUS
<1>2. PICK U \in T : Minimal(U, T)
  <2> HIDE DEF T
  <2> QED
    BY <1>1, MinimalSubset
<1>3. PICK m \in S : U = Above(m)
  BY <1>2
<1>4. ASSUME NEW j \in S, j > m PROVE FALSE
  <2>1. Above(j) \in T
    OBVIOUS
  <2>2. Above(j) \subseteq Above(m) /\ j \in Above(m) /\ j \notin Above(j)
    <3>1. \A i \in S : i \in Nat
      OBVIOUS
    <3>2. \A i \in S : i > j => i > m
      BY <1>4, <3>1
    <3>3. ~(j > j)
      BY <3>1
    <3> QED
      BY <1>4, <3>2, <3>3
  <2> HIDE DEF T
  <2>3. Above(j) = Above(m)
    BY <1>2, <1>3, <2>1, <2>2, Zenon DEF Minimal
  <2> QED
    BY <2>2, <2>3
<1>5. \E x \in S : \A y \in S : x >= y
  BY <1>4
<1> QED
  BY <1>5 DEF Max

\* What the fold of Prompt says of the sets of positions among D.
Adds(f, h, D) ==
  \A S \in SUBSET D : f[S] = IF S = {} THEN 0 ELSE f[S \ {Max(S)}] + h[Max(S)].size

\* Its values are numbers,
LEMMA AddsToNumbers ==
  ASSUME NEW D \in SUBSET Nat, IsFiniteSet(D), NEW h, \A i \in D : h[i].size \in Nat,
         NEW f, Adds(f, h, D)
  PROVE  \A S \in SUBSET D : f[S] \in Nat
<1> DEFINE Bad == {S \in SUBSET D : f[S] \notin Nat}
<1>1. SUFFICES ASSUME Bad # {} PROVE FALSE
  OBVIOUS
<1>2. PICK U \in Bad : Minimal(U, Bad)
  <2>1. Bad \subseteq SUBSET D
    OBVIOUS
  <2> HIDE DEF Bad
  <2> QED
    BY <1>1, <2>1, MinimalSubset
<1>3. U \in SUBSET D /\ U \in SUBSET Nat /\ IsFiniteSet(U) /\ f[U] \notin Nat
  BY <1>2, FS_Subset
<1>4. U # {}
  <2>1. ASSUME U = {} PROVE f[U] = 0
    BY <1>3, <2>1 DEF Adds
  <2> QED
    BY <1>3, <2>1
<1>5. Max(U) \in U
  BY <1>3, <1>4, GreatestOf
<1>6. U \ {Max(U)} \notin Bad
  <2>1. U \ {Max(U)} \subseteq U /\ U \ {Max(U)} # U
    BY <1>5
  <2> QED
    BY <1>2, <2>1, Zenon DEF Minimal
<1>7. f[U \ {Max(U)}] \in Nat
  BY <1>3, <1>6
<1>8. h[Max(U)].size \in Nat
  BY <1>3, <1>5
<1>9. f[U] = f[U \ {Max(U)}] + h[Max(U)].size
  BY <1>3, <1>4 DEF Adds
<1> QED
  BY <1>3, <1>7, <1>8, <1>9

\* and there is such a function.
LEMMA AddsUp ==
  ASSUME NEW D \in SUBSET Nat, IsFiniteSet(D), NEW h
  PROVE  \E f : DOMAIN f = SUBSET D /\ f = [S \in SUBSET D |-> f[S]] /\ Adds(f, h, D)
<1> DEFINE Has(f, U) == /\ DOMAIN f = SUBSET U /\ f = [S \in SUBSET U |-> f[S]]
                        /\ Adds(f, h, U)
           Bad == {U \in SUBSET D : ~\E f : Has(f, U)}
<1>1. SUFFICES ASSUME Bad # {} PROVE FALSE
  OBVIOUS
<1>2. PICK U \in Bad : Minimal(U, Bad)
  <2>1. Bad \subseteq SUBSET D
    OBVIOUS
  <2> HIDE DEF Bad
  <2> QED
    BY <1>1, <2>1, MinimalSubset
<1>3. U \in SUBSET D /\ U \in SUBSET Nat /\ IsFiniteSet(U) /\ ~\E f : Has(f, U)
  BY <1>2, FS_Subset
<1>4. CASE U = {}
  <2> DEFINE f == [S \in SUBSET U |-> 0]
  <2>1. Has(f, U)
    BY <1>4 DEF Adds
  <2> HIDE DEF f
  <2> QED
    BY <1>3, <2>1
<1>5. CASE U # {}
  <2>1. PICK x \in U : x = Max(U) /\ \A j \in U : x >= j
    BY <1>3, <1>5, GreatestOf
  <2>2. U \ {x} \notin Bad
    <3>1. U \ {x} \subseteq U /\ U \ {x} # U
      OBVIOUS
    <3> QED
      BY <1>2, <3>1, Zenon DEF Minimal
  <2>3. PICK g : Has(g, U \ {x})
    BY <1>3, <2>2
  <2> DEFINE f == [S \in SUBSET U |-> IF x \in S THEN g[S \ {x}] + h[x].size ELSE g[S]]
  <2>4. ASSUME NEW S \in SUBSET U
        PROVE  f[S] = IF S = {} THEN 0 ELSE f[S \ {Max(S)}] + h[Max(S)].size
    <3>1. CASE x \in S
      <4>1. Max(S) = x
        <5>1. S \in SUBSET Nat /\ IsFiniteSet(S) /\ S # {}
          BY <1>3, <3>1, FS_Subset
        <5>2. Max(S) \in S /\ Max(S) >= x
          BY <3>1, <5>1, GreatestOf
        <5>3. x >= Max(S) /\ x \in Nat /\ Max(S) \in Nat
          BY <1>3, <2>1, <5>2
        <5> QED
          BY <5>2, <5>3
      <4>2. f[S \ {x}] = g[S \ {x}]
        OBVIOUS
      <4>3. f[S] = g[S \ {x}] + h[x].size
        BY <3>1
      <4> HIDE DEF f
      <4> QED
        BY <3>1, <4>1, <4>2, <4>3
    <3>2. CASE x \notin S
      <4>1. f[S] = g[S] /\ \A y : f[S \ {y}] = g[S \ {y}]
        BY <3>2
      <4>2. g[S] = IF S = {} THEN 0 ELSE g[S \ {Max(S)}] + h[Max(S)].size
        BY <2>3, <3>2 DEF Adds
      <4> HIDE DEF f
      <4> QED
        BY <4>1, <4>2
    <3> QED
      BY <3>1, <3>2
  <2>5. DOMAIN f = SUBSET U /\ f = [S \in SUBSET U |-> f[S]]
    OBVIOUS
  <2> HIDE DEF f
  <2>6. Has(f, U)
    BY <2>4, <2>5 DEF Adds
  <2> QED
    BY <1>3, <2>6
<1> QED
  BY <1>4, <1>5

\* So the sizes of a history add up to a number.
LEMMA PromptIsNumber ==
  ASSUME NEW h \in Seq(Messages)
  PROVE  Prompt(h) \in Nat
<1> DEFINE D == DOMAIN h
           Eq(f) == f = [S \in SUBSET D |->
                           IF S = {} THEN 0 ELSE f[S \ {Max(S)}] + h[Max(S)].size]
<1>1. D \in SUBSET Nat /\ IsFiniteSet(D) /\ \A i \in D : h[i].size \in Nat
  <2>1. D = 1..Len(h) /\ Len(h) \in Nat
    BY LenProperties
  <2>2. IsFiniteSet(1..Len(h))
    BY <2>1, FS_Interval
  <2>3. ASSUME NEW i \in 1..Len(h) PROVE h[i].size \in Nat
    <3>1. h[i] \in Messages
      BY ElementOfSeq
    <3> QED
      BY <3>1, TokenAssumption DEF Messages
  <2>4. D \in SUBSET Nat
    BY <2>1
  <2> QED
    BY <2>1, <2>2, <2>3, <2>4, Zenon
<1>2. Prompt(h) = (CHOOSE f : Eq(f))[D]
  BY DEF Prompt, FoldLeft, MapThenFoldSet
<1> HIDE DEF D
<1>3. PICK f : f = [S \in SUBSET D |-> f[S]] /\ Adds(f, h, D)
  BY <1>1, AddsUp
<1>4. Eq(f)
  BY <1>3 DEF Adds
<1>5. Eq(CHOOSE g : Eq(g))
  <2> HIDE DEF Eq
  <2> QED
    BY <1>4
<1>6. ASSUME NEW g, Eq(g) PROVE Adds(g, h, D)
  BY <1>6, Zenon DEF Adds
<1>7. Adds(CHOOSE g : Eq(g), h, D)
  <2> HIDE DEF Eq
  <2> QED
    BY <1>5, <1>6
<1>8. (CHOOSE g : Eq(g))[D] \in Nat
  <2> HIDE DEF Eq
  <2> QED
    BY <1>1, <1>7, AddsToNumbers
<1> QED
  BY <1>2, <1>8

-----------------------------------------------------------------------------
(***************************************************************************)
(* The theorems.                                                           *)
(***************************************************************************)

\* saveState is in time: while calls run, or an answer is judged, the state file
\* holds the history with their response, unless a snapshot failed.
THEOREM ResponsesReachTheDisk == Spec => []ResponseIsOnDisk
  BY Invariance, PTL DEF Inv

\* Compaction, snapshot and resume leave the head in place and results with their
\* calls, and a run that was neither stopped nor failed to save sends only requests
\* a backend accepts.
THEOREM HistoriesStayWhole == Spec => []HistoryIsWhole
<1>1. Inv => HistoryIsWhole
  <2> SUFFICES ASSUME Inv PROVE HistoryIsWhole
    OBVIOUS
  <2>1. /\ Typed /\ Whole /\ Sent /\ responses \in Nat
        /\ history \in Seq(Messages) /\ disk \in Seq(Messages)
    BY BoundAssumption DEF Inv, Typed
  <2>2. ASSUME NEW h \in {history, disk} \ {<<>>} PROVE HasHead(h) /\ ResultsHaveCalls(h)
    <3>1. h \in Seq(Messages) /\ Grown(h, responses)
      BY <2>1 DEF Whole
    <3> QED
      BY <2>1, <3>1, GrownIsWhole
  <2>3. ASSUME place = "chat", stops = 0, saveFails = 0 PROVE WireValid(history)
    <3>1. Grown(history, responses) /\ AnsweredTo(history, Len(history) + 1)
      BY <2>1, <2>3 DEF Whole, Sent, After
    <3> QED
      BY <2>1, <3>1, AnsweredIsValid
  <2> QED
    BY <2>2, <2>3 DEF HistoryIsWhole
<1> QED
  BY <1>1, Invariance, PTL

\* A compaction drops nothing of the newest KeepSteps responses and what followed
\* them.
THEOREM RecentStays == Spec => RecentIsKept
<1>1. ASSUME Inv, [Next]_vars, responses' # responses
      PROVE  LET whole == Append(history, Newest(history'))
             IN \/ history' = whole
                \/ \E k \in 1..Len(history') :
                     /\ LastOnes(history', k) = LastOnes(whole, k)
                     /\ Cardinality(Turns(LastOnes(whole, k))) >= KeepSteps
  <2>1. PICK calls \in 0..MaxCalls, ask \in 0..1 : Respond(calls, ask)
    BY <1>1 DEF Next, vars, Truncate, Write, SaveFails, Nudge, Refuse, Finish, Act, Stop, Resume,
                StartOver
  <2> DEFINE m    == Response(responses + 1, calls, ask)
             next == Append(history, m)
  <2>2. /\ Newest(next) = m /\ next \in Seq(Messages) /\ Headed(next)
        /\ history' = next \/ \E f : CutAt(history', next, f)
    BY <1>1, <2>1, RespondMakes DEF Inv, Grown
  <2> HIDE DEF m
  <2>3. CASE history' = next
    <3>1. Newest(history') = m
      BY <2>2, <2>3
    <3> QED
      BY <2>3, <3>1
  <2>4. CASE \E f : CutAt(history', next, f)
    <3> HIDE DEF next
    <3>1. PICK f : CutAt(history', next, f)
      BY <2>4
    <3>2. Newest(history') = m
      BY <2>2, <3>1, CutPlaces
    <3>3. next = Append(history, Newest(history'))
      BY <3>2 DEF next
    <3>4. \E k \in 1..Len(history') :
             /\ LastOnes(history', k) = LastOnes(next, k)
             /\ Cardinality(Turns(LastOnes(next, k))) >= KeepSteps
      BY <2>2, <3>1, CutKeeps
    <3> QED
      BY <3>3, <3>4
  <2> QED
    BY <2>2, <2>3, <2>4
<1>2. Inv /\ [Next]_vars => [responses' # responses =>
       LET whole == Append(history, Newest(history'))
       IN \/ history' = whole
          \/ \E k \in 1..Len(history') :
               /\ LastOnes(history', k) = LastOnes(whole, k)
               /\ Cardinality(Turns(LastOnes(whole, k))) >= KeepSteps]_vars
  BY <1>1
<1> QED
  BY <1>2, Invariance, PTL DEF Spec, RecentIsKept

\* Every compaction of a full history leaves KeepSteps responses, or one more.
THEOREM FullIsAlwaysCompacted == Spec => []FullIsCompacted
<1>1. Inv => FullIsCompacted
  <2> SUFFICES ASSUME Inv, place = "chat"
               PROVE  Cardinality(Turns(MaybeCompact(Append(history, Response(0, 0, 0)), TRUE)))
                        <= KeepSteps + 1
    BY DEF FullIsCompacted
  <2> DEFINE m == Response(0, 0, 0)
             h == Append(history, m)
  <2>1. history \in Seq(Messages) /\ Headed(history)
    BY DEF Inv, Typed, Whole, Grown
  <2>2. m \in Messages /\ m.kind = "assistant"
    <3>1. 0 \in 0..MaxResponses /\ 0 \in 0..MaxCalls
      BY BoundAssumption
    <3> QED
      BY <3>1, AreMessages DEF Response
  <2> HIDE DEF m
  <2>3. /\ Extends(h, history) /\ Len(h) = Len(history) + 1
        /\ \A i \in 1..Len(h) : i > Len(history) => h[i] = m
    BY <2>1, <2>2, Appended
  <2>4. h \in Seq(Messages) /\ Len(h) \in Nat /\ Len(history) \in Nat
    BY <2>1, <2>3, Numbered DEF Extends
  <2> HIDE DEF h
  <2>5. 2 \in 1..Len(history) /\ 1 \in 1..Len(history) /\ 2 \in 1..Len(h) /\ Len(h) > 2
    BY <2>1, <2>3, <2>4 DEF Headed
  <2>6. Headed(h)
    <3>1. ASSUME NEW i \in 4..Len(h) PROVE h[i].kind # "notice"
      <4>1. i \in 1..Len(h) /\ (i > Len(history) \/ i \in 4..Len(history))
            /\ (i \in 4..Len(history) => i \in 1..Len(history))
        BY <2>4
      <4>2. CASE i > Len(history)
        BY <2>2, <2>3, <4>1, <4>2
      <4>3. CASE i \in 4..Len(history)
        BY <2>1, <2>3, <4>1, <4>3 DEF Headed, Extends
      <4> QED
        BY <4>1, <4>2, <4>3
    <3> QED
      BY <2>1, <2>3, <2>5, <3>1 DEF Headed, Extends
  <2> DEFINE S == GroupStarts(Tail2(h))
  <2>7. /\ Cardinality(S) \in Nat /\ Cardinality(Turns(h)) \in Nat
        /\ Cardinality(Turns(h)) <= Cardinality(S)
    BY <2>4, <2>6, TurnsAreGroups
  <2>8. KeepSteps \in Nat
    BY BoundAssumption
  <2>9. Len(h) # 2 /\ Len(h) >= 2
    <3>1. PICK n \in Nat : n = Len(h)
      BY <2>4
    <3>2. Len(h) > 2
      BY <2>5
    <3>3. n > 2
      BY <3>1, <3>2
    <3>4. n # 2 /\ n >= 2
      BY <3>3
    <3> QED
      BY <3>1, <3>4
  <2>10. \/ Compacted(h) = h /\ Cardinality(S) <= KeepSteps
         \/ \E f : CutAt(Compacted(h), h, f)
    BY <2>4, <2>9, Compaction
  <2>11. ASSUME Compacted(h) = h, Cardinality(S) <= KeepSteps
         PROVE  Cardinality(Turns(MaybeCompact(h, TRUE))) <= KeepSteps + 1
    <3>1. MaybeCompact(h, TRUE) = h
      BY <2>11 DEF MaybeCompact
    <3> HIDE DEF S
    <3>2. PICK n \in Nat : n = Cardinality(S)
      BY <2>7
    <3>3. PICK k \in Nat : k = Cardinality(Turns(h))
      BY <2>7
    <3>4. n <= KeepSteps /\ k <= n
      BY <2>7, <2>11, <3>2, <3>3
    <3>5. k <= KeepSteps + 1
      BY <2>8, <3>4
    <3> QED
      BY <3>1, <3>3, <3>5
  <2>12. ASSUME NEW f, CutAt(Compacted(h), h, f)
         PROVE  Cardinality(Turns(MaybeCompact(h, TRUE))) <= KeepSteps + 1
    <3> DEFINE g == Compacted(h)
    <3>1. /\ Cardinality(Turns(g)) \in Nat /\ Cardinality(Turns(g)) <= KeepSteps
          /\ f = 2 => Cardinality(Turns(h)) <= KeepSteps + 1
      BY <2>4, <2>6, <2>12, CutCounts
    <3>2. f \in Nat /\ f >= 2 /\ Len(g) = Len(h) - f + 2
      BY <2>4, <2>6, <2>12, CutPlaces
    <3>3. CASE Len(g) < Len(h)
      <4>1. MaybeCompact(h, TRUE) = g
        BY <3>3 DEF MaybeCompact
      <4> HIDE DEF g
      <4>2. PICK k \in Nat : k = Cardinality(Turns(g))
        BY <3>1
      <4>3. k <= KeepSteps
        BY <3>1, <4>2
      <4>4. k <= KeepSteps + 1
        BY <2>8, <4>3
      <4> QED
        BY <4>1, <4>2, <4>4
    <3>4. CASE ~(Len(g) < Len(h))
      <4>1. MaybeCompact(h, TRUE) = h
        BY <3>4 DEF MaybeCompact
      <4> HIDE DEF g
      <4>2. f = 2
        BY <2>4, <3>2, <3>4
      <4> QED
        BY <3>1, <4>1, <4>2
    <3> QED
      BY <3>3, <3>4
  <2>13. Cardinality(Turns(MaybeCompact(h, TRUE))) <= KeepSteps + 1
    BY <2>10, <2>11, <2>12
  <2> QED
    BY <2>13 DEF h, m
<1> QED
  BY <1>1, Invariance, PTL

\* The variables have their types; what EffectiveMaxTokens reckons with is a number.
THEOREM TypeIsOK == Spec => []TypeOK
<1> DEFINE Measured == measured \in Nat
<1>1. Init => Measured
  BY DEF Init
<1>2. Inv /\ Measured /\ [Next]_vars => Measured'
  <2> SUFFICES ASSUME Inv, Measured, [Next]_vars PROVE Measured'
    OBVIOUS
  <2>1. CASE \E calls \in 0..MaxCalls, ask \in 0..1 : Respond(calls, ask)
    <3>1. Prompt(history) \in Nat
      BY PromptIsNumber DEF Inv, Typed
    <3>2. measured' = IF reports THEN Prompt(history) ELSE measured
      BY <2>1 DEF Respond
    <3> QED
      BY <3>1, <3>2
  <2>2. CASE Resume \/ StartOver
    BY <2>2 DEF Resume, StartOver
  <2>3. CASE Truncate \/ Write \/ SaveFails \/ Refuse \/ Finish \/ Stop \/ UNCHANGED vars
    BY <2>3 DEF Truncate, Write, SaveFails, Refuse, Finish, Stop, vars
  <2>4. CASE \E count \in 0..2 : Nudge(count)
    BY <2>4 DEF Nudge
  <2>5. CASE \E size \in {1, LargeResult}, nudged \in BOOLEAN : Act(size, nudged)
    BY <2>5 DEF Act
  <2> QED
    BY <2>1, <2>2, <2>3, <2>4, <2>5 DEF Next
<1>3. Inv /\ Measured => TypeOK
  BY DEF Inv, Typed, TypeOK
<1> QED
  BY <1>1, <1>2, <1>3, Invariance, PTL DEF Spec

=============================================================================
