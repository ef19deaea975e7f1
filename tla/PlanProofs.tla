----------------------------- MODULE PlanProofs -----------------------------
(***************************************************************************)
(* The plan a mission gets is the first of the best valid answers, its     *)
(* checks are none of those known to be blind and differ, and those that   *)
(* were replaced are announced, whatever the model answers, however many   *)
(* candidates are asked for and wherever the backend dies.                 *)
(***************************************************************************)
EXTENDS PlanSearch, FiniteSetTheorems, SequenceTheorems, TLAPS

\* What best is made of: an answer that is valid, of which none before is as good
\* and none after is better.
Chosen ==
  LET a == answers[best.from]
  IN  /\ best.from \in 1..Len(answers) /\ Valid(a)
      /\ best = [found |-> TRUE, plan |-> Plan(a), warns |-> Warnings(a), from |-> best.from]
      /\ \A i \in 1..Len(answers) : Valid(answers[i]) =>
           /\ ~Better(Plan(answers[i]), Plan(a))
           /\ Better(Plan(a), Plan(answers[i])) \/ best.from <= i

Nothing == best = NoPlan /\ \A i \in 1..Len(answers) : ~Valid(answers[i])

\* How far the search is, and how it ended.
Searched ==
  /\ named \in {1, 2} /\ answers \in Seq(Answers) /\ last \in 0..Candidates
  /\ place \in {"sampling", "repair", "done"}
  /\ Len(answers) <= IF place = "done" THEN Candidates + 1 ELSE Candidates
  /\ place # "done" => outcome = "none"
  /\ place = "repair" => ~best.found /\ Len(answers) = Candidates
  /\ outcome \in {"none", "planned", "outage", "rejected"}
  /\ outcome = "planned" => best.found
  /\ outcome \in {"outage", "rejected"} => ~best.found
  /\ outcome = "rejected" => Len(answers) = Candidates + 1

Inv == Searched /\ (Chosen \/ Nothing)

-----------------------------------------------------------------------------
(***************************************************************************)
(* The plan an answer is made into.                                        *)
(***************************************************************************)
Subtasks ==
  [complete : BOOLEAN, readish : BOOLEAN, status : {"pending", "done"},
   hints : Seq(DOMAIN Norm),
   check : [type : STRING, cmd : STRING, path : DOMAIN Norm, contains : DOMAIN Needle, url : STRING]]

\* Trimming the needle changes nothing else of a subtask.
LEMMA UnquotedOf ==
  ASSUME NEW s
  PROVE  LET u == Unquoted(s)
         IN  /\ u = s \/ u = [s EXCEPT !.check = [s.check EXCEPT !.contains = Needle[s.check.contains]]]
             /\ s.check.type # "content_contains" => u = s
BY DEF Unquoted

\* A plan has the answer's subtasks with their hints, all pending; a check that is
\* run is the one the answer has, but for the quotes of its needle.
LEMMA PlanOf ==
  ASSUME NEW a \in Answers
  PROVE  /\ a \in Seq(Subtasks) /\ Len(a) \in Nat /\ DOMAIN a = 1..Len(a)
         /\ DOMAIN Plan(a) = 1..Len(a) /\ Len(Plan(a)) = Len(a)
         /\ \A i \in 1..Len(a) :
              /\ a[i] \in Subtasks
              /\ Plan(a)[i].hints = a[i].hints /\ Plan(a)[i].status = "pending"
              /\ ~Unrunnable(a[i]) =>
                   Plan(a)[i].check \in
                     {a[i].check, [a[i].check EXCEPT !.contains = Needle[a[i].check.contains]]}
              /\ Unrunnable(a[i]) =>
                   Plan(a)[i].check = Check(IF Watchable(a[i]) = "" THEN "none" ELSE "file_exists",
                                            Watchable(a[i]))
              /\ ~Unrunnable(a[i]) => Plan(a)[i].check.type = a[i].check.type
<1>1. a \in Seq(Subtasks)
  BY RequestAssumption DEF Subtasks
<1>2. Len(a) \in Nat /\ DOMAIN a = 1..Len(a) /\ \A i \in 1..Len(a) : a[i] \in Subtasks
  BY <1>1
<1>3. /\ DOMAIN Plan(a) = 1..Len(a)
      /\ \A i \in 1..Len(a) : Plan(a)[i] = Unquoted(Repaired(Owned(a[i])))
  BY <1>2 DEF Plan
<1>4. Len(Plan(a)) = Len(a)
  BY <1>2 DEF Plan
<1>5. ASSUME NEW i \in 1..Len(a)
      PROVE  LET p == Unquoted(Repaired(Owned(a[i])))
                 c == a[i].check
             IN  /\ p.hints = a[i].hints /\ p.status = "pending"
                 /\ ~Unrunnable(a[i]) =>
                      /\ p.check \in {c, [c EXCEPT !.contains = Needle[c.contains]]}
                      /\ p.check.type = c.type
                 /\ Unrunnable(a[i]) =>
                      p.check = Check(IF Watchable(a[i]) = "" THEN "none" ELSE "file_exists",
                                      Watchable(a[i]))
  <2>1. a[i] \in Subtasks
    BY <1>2
  <2> DEFINE s == Owned(a[i])
  <2>2. /\ s \in Subtasks /\ s.hints = a[i].hints /\ s.status = "pending"
        /\ s.check = a[i].check
    BY <2>1 DEF Owned, Subtasks
  <2>3. Unrunnable(s) <=> Unrunnable(a[i])
    BY <2>2 DEF Unrunnable
  <2>4. Watchable(s) = Watchable(a[i])
    BY <2>2 DEF Watchable
  <2> HIDE DEF s
  <2>5. CASE ~Unrunnable(s)
    <3>1. Repaired(s) = s
      BY <2>5 DEF Repaired
    <3> DEFINE n == [s EXCEPT !.check = [s.check EXCEPT !.contains = Needle[s.check.contains]]]
    <3>2. Unquoted(s) \in {s, n}
      BY UnquotedOf
    <3>3. /\ n.hints = s.hints /\ n.status = s.status
          /\ n.check = [s.check EXCEPT !.contains = Needle[s.check.contains]]
          /\ n.check.type = s.check.type
      BY <2>2 DEF Subtasks
    <3> HIDE DEF n
    <3> QED
      BY <2>2, <2>3, <2>5, <3>1, <3>2, <3>3 DEF s
  <2>6. CASE Unrunnable(s)
    <3> DEFINE c == Check(IF Watchable(s) = "" THEN "none" ELSE "file_exists", Watchable(s))
    <3>1. Repaired(s) = [s EXCEPT !.check = c]
      BY <2>6 DEF Repaired
    <3>2. c.type # "content_contains"
      BY DEF Check
    <3> HIDE DEF c
    <3>3. /\ Repaired(s).hints = s.hints /\ Repaired(s).status = s.status
          /\ Repaired(s).check = c
      BY <2>2, <3>1 DEF Subtasks
    <3>4. Unquoted(Repaired(s)) = Repaired(s)
      BY <3>2, <3>3, UnquotedOf
    <3> QED
      BY <2>2, <2>3, <2>4, <2>6, <3>3, <3>4 DEF s, c
  <2> QED
    BY <2>5, <2>6
<1> QED
  BY <1>1, <1>2, <1>3, <1>4, <1>5

\* An element before a sequence that has some.
LEMMA Led ==
  ASSUME NEW S, NEW p \in S, NEW h \in Seq(S), h # <<>>
  PROVE  /\ Len(h) \in Nat /\ Len(h) >= 1
         /\ DOMAIN (<<p>> \o h) = 1..(1 + Len(h)) /\ (<<p>> \o h)[2] = h[1]
<1>1. Len(h) \in Nat /\ Len(h) # 0
  OBVIOUS
<1>2. <<p>> \in Seq(S) /\ Len(<<p>>) = 1
  OBVIOUS
<1>3. /\ <<p>> \o h \in Seq(S) /\ Len(<<p>> \o h) = 1 + Len(h)
      /\ \A k \in 1..(1 + Len(h)) : (<<p>> \o h)[k] = IF k <= 1 THEN <<p>>[k] ELSE h[k - 1]
  BY <1>2, ConcatProperties
<1> QED
  BY <1>1, <1>3

\* The positions of such a sequence.
LEMMA UpTo ==
  ASSUME NEW n \in Nat, n >= 1
  PROVE  2 \in 1..(1 + n) /\ \A k \in 1..(1 + n) : k \in Nat /\ k >= 1
OBVIOUS

\* Two is the least of a set of positions, or one is.
LEMMA LeastOfTwo ==
  ASSUME NEW S, 2 \in S, \A k \in S : k \in Nat /\ k >= 1
  PROVE  \E k \in S : \A j \in S : k <= j
<1>1. CASE 1 \in S
  BY <1>1
<1>2. CASE 1 \notin S
  <2>1. ASSUME NEW j \in S PROVE 2 <= j
    <3>1. j \in Nat /\ j >= 1 /\ j # 1
      BY <1>2
    <3> QED
      BY <3>1
  <2> QED
    BY <2>1
<1> QED
  BY <1>1, <1>2

\* A subtask whose first file is named has something to watch.
LEMMA NamedIsWatchable ==
  ASSUME NEW s \in Subtasks, s.hints # <<>>, s.hints[1] # ""
  PROVE  Watchable(s) # ""
<1> DEFINE paths == <<s.check.path>> \o s.hints
           named_ == {k \in DOMAIN paths : paths[k] # ""}
<1>1. s.hints \in Seq(DOMAIN Norm) /\ s.check.path \in DOMAIN Norm
  BY DEF Subtasks
<1>2. /\ Len(s.hints) \in Nat /\ Len(s.hints) >= 1
      /\ DOMAIN paths = 1..(1 + Len(s.hints)) /\ paths[2] = s.hints[1]
  BY <1>1, Led
<1> HIDE DEF paths
<1>3. 2 \in named_
  BY <1>2, UpTo
<1>4. \E k \in named_ : \A j \in named_ : k <= j
  BY <1>2, <1>3, UpTo, LeastOfTwo
<1>5. PICK first \in named_ : first = CHOOSE k \in named_ : \A j \in named_ : k <= j
  BY <1>4
<1>6. Watchable(s) = paths[first]
  BY <1>3, <1>5 DEF Watchable, paths
<1> QED
  BY <1>5, <1>6

-----------------------------------------------------------------------------
(***************************************************************************)
(* The score.                                                              *)
(***************************************************************************)
\* What a plan is worth, times its length.
Worth(p) == Strength(p) - Overlaps(p) * Len(p)

\* What has more than one element has one.
LEMMA MoreThanOne ==
  ASSUME NEW S, Cardinality(S) > 1
  PROVE  S # {}
<1> SUFFICES ASSUME S = {} PROVE FALSE
  OBVIOUS
<1>1. Cardinality(S) = 0
  BY FS_EmptySet
<1> QED
  BY <1>1

\* The mentions of a plan are finite, so it has finitely many overlaps.
LEMMA WorthIsInt ==
  ASSUME NEW a \in Answers
  PROVE  Worth(Plan(a)) \in Int
<1> DEFINE p == Plan(a)
           all == UNION {{i} \X DOMAIN p[i].hints : i \in DOMAIN p}
           paths == {Norm[p[m[1]].hints[m[2]]] : m \in all}
           over == {path \in {Norm[r] : r \in DOMAIN Norm} \ {""} :
                      Cardinality(Mentions(p, path)) > 1}
<1>1. /\ Len(a) \in Nat /\ DOMAIN p = 1..Len(a) /\ Len(p) = Len(a)
      /\ \A i \in DOMAIN p : a[i] \in Subtasks /\ p[i].hints = a[i].hints
  BY PlanOf
<1> HIDE DEF p
<1>2. IsFiniteSet(DOMAIN p)
  BY <1>1, FS_Interval
<1>3. Strength(p) \in Nat
  <2>1. ASSUME NEW level \in Nat
        PROVE  Cardinality({i \in DOMAIN p : CheckStrength(p[i].check) >= level}) \in Nat
    <3>1. {i \in DOMAIN p : CheckStrength(p[i].check) >= level} \in SUBSET DOMAIN p
      OBVIOUS
    <3> QED
      BY <1>2, <3>1, FS_Subset, FS_CardinalityType
  <2> QED
    BY <2>1 DEF Strength
<1>4. IsFiniteSet(all)
  <2>1. ASSUME NEW i \in DOMAIN p
        PROVE  IsFiniteSet({i} \X DOMAIN p[i].hints)
    <3>1. p[i].hints \in Seq(DOMAIN Norm)
      BY <1>1, <2>1 DEF Subtasks
    <3>2. Len(p[i].hints) \in Nat /\ DOMAIN p[i].hints = 1..Len(p[i].hints)
      BY <3>1
    <3>3. IsFiniteSet(DOMAIN p[i].hints)
      BY <3>2, FS_Interval
    <3>4. IsFiniteSet({i})
      BY FS_Singleton
    <3> QED
      BY <3>3, <3>4, FS_Product
  <2> DEFINE f == [i \in DOMAIN p |-> {i} \X DOMAIN p[i].hints]
             parts == {{i} \X DOMAIN p[i].hints : i \in DOMAIN p}
  <2>2. f \in Surjection(DOMAIN p, parts)
    BY DEF Surjection
  <2>3. IsFiniteSet(parts)
    BY <1>2, <2>2, FS_Surjection
  <2> QED
    BY <2>1, <2>3, FS_UNION
<1> HIDE DEF all
<1>5. IsFiniteSet(paths)
  <2> DEFINE f == [m \in all |-> Norm[p[m[1]].hints[m[2]]]]
  <2>1. f \in Surjection(all, paths)
    BY DEF Surjection
  <2> QED
    BY <1>4, <2>1, FS_Surjection
<1>6. over \in SUBSET paths
  <2>1. ASSUME NEW path \in over
        PROVE  path \in paths
    <3>1. Cardinality(Mentions(p, path)) > 1
      OBVIOUS
    <3>2. Mentions(p, path) = {m \in all : Norm[p[m[1]].hints[m[2]]] = path}
      BY DEF Mentions, all
    <3>3. Mentions(p, path) # {}
      BY <3>1, MoreThanOne
    <3> QED
      BY <3>2, <3>3
  <2> QED
    BY <2>1
<1>7. Overlaps(p) \in Nat
  <2>1. IsFiniteSet(over)
    BY <1>5, <1>6, FS_Subset
  <2>2. Cardinality(over) \in Nat
    BY <2>1, FS_CardinalityType
  <2> QED
    BY <2>2 DEF Overlaps
<1>8. PICK s \in Nat, o \in Nat, n \in Nat : s = Strength(p) /\ o = Overlaps(p) /\ n = Len(p)
  BY <1>1, <1>3, <1>7
<1>9. Worth(p) = s - o * n
  BY <1>8 DEF Worth
<1>10. s - o * n \in Int
  OBVIOUS
<1> QED
  BY <1>9, <1>10 DEF p

\* A fraction above one that is not below a third is above the third.
LEMMA Fractions ==
  ASSUME NEW n \in Int, NEW b \in Int, NEW x \in Int,
         NEW ln \in Nat \ {0}, NEW lb \in Nat \ {0}, NEW lx \in Nat \ {0},
         n * lb > b * ln, ~(x * lb > b * lx)
  PROVE  n * lx > x * ln
<1>1. n * lb * lx > b * ln * lx
  OBVIOUS
<1>2. x * lb * ln <= b * lx * ln
  OBVIOUS
<1>3. n * lx * lb > x * ln * lb
  BY <1>1, <1>2
<1> QED
  BY <1>3

\* Better orders plans by what their subtasks are worth on the average.
LEMMA BetterOrders ==
  ASSUME NEW a \in Answers, NEW b \in Answers, a # <<>>, b # <<>>,
         Better(Plan(a), Plan(b))
  PROVE  /\ ~Better(Plan(b), Plan(a))
         /\ \A x \in Answers : x # <<>> /\ ~Better(Plan(x), Plan(b)) => Better(Plan(a), Plan(x))
<1>1. \A x \in Answers : /\ Worth(Plan(x)) \in Int /\ Len(Plan(x)) \in Nat
                         /\ x # <<>> => Len(Plan(x)) \in Nat \ {0}
  <2>1. ASSUME NEW x \in Answers
        PROVE  Len(Plan(x)) \in Nat /\ (x # <<>> => Len(Plan(x)) # 0)
    <3>1. x \in Seq(Subtasks) /\ Len(Plan(x)) = Len(x)
      BY PlanOf
    <3> QED
      BY <3>1
  <2> QED
    BY <2>1, WorthIsInt
<1>2. \A p, q : Better(p, q) <=> Worth(p) * Len(q) > Worth(q) * Len(p)
  BY DEF Better, Worth
<1>3. PICK n \in Int, m \in Int, ln \in Nat \ {0}, lm \in Nat \ {0} :
        /\ n = Worth(Plan(a)) /\ m = Worth(Plan(b))
        /\ ln = Len(Plan(a)) /\ lm = Len(Plan(b))
  BY <1>1
<1>4. n * lm > m * ln
  BY <1>2, <1>3
<1>5. ~(m * ln > n * lm)
  BY <1>4
<1>6. ASSUME NEW x \in Answers, x # <<>>, ~Better(Plan(x), Plan(b))
      PROVE  Better(Plan(a), Plan(x))
  <2>1. PICK y \in Int, ly \in Nat \ {0} : y = Worth(Plan(x)) /\ ly = Len(Plan(x))
    BY <1>1, <1>6
  <2>2. ~(y * lm > m * ly)
    BY <1>2, <1>3, <1>6, <2>1
  <2>3. n * ly > y * ln
    BY <1>4, <2>2, Fractions
  <2> QED
    BY <1>2, <1>3, <2>1, <2>3
<1> QED
  BY <1>2, <1>3, <1>5, <1>6

-----------------------------------------------------------------------------
(***************************************************************************)
(* The search.                                                             *)
(***************************************************************************)
\* What a further answer makes of the answers.
LEMMA Another ==
  ASSUME Searched, NEW a \in Answers, answers' = Append(answers, a)
  PROVE  /\ answers' \in Seq(Answers) /\ Len(answers) \in Nat
         /\ Len(answers') = Len(answers) + 1 /\ answers'[Len(answers) + 1] = a
         /\ \A i \in 1..Len(answers) : answers'[i] = answers[i] /\ answers[i] \in Answers
         /\ 1..Len(answers') = 1..Len(answers) \cup {Len(answers) + 1}
BY AppendProperties DEF Searched

\* Whether an answer is valid depends on nothing that changes.
LEMMA StaysValid ==
  ASSUME named' = named
  PROVE  \A i : Valid(answers[i])' <=> Valid(answers'[i])
BY DEF Valid, TooCoarse

\* best is one or the other.
LEMMA FoundIsChosen ==
  ASSUME Chosen \/ Nothing
  PROVE  (best.found => Chosen) /\ (~best.found => Nothing)
<1>1. Chosen => best.found
  BY DEF Chosen
<1>2. Nothing => ~best.found
  BY DEF Nothing, NoPlan
<1> QED
  BY <1>1, <1>2

\* A valid answer is kept if it is the first or better than the best.
LEMMA KeepChooses ==
  ASSUME Searched, Chosen \/ Nothing, NEW a \in Answers, Valid(a), Keep(a),
         answers' = Append(answers, a), named' = named
  PROVE  Chosen'
<1> DEFINE n == Len(answers) + 1
           new == [found |-> TRUE, plan |-> Plan(a), warns |-> Warnings(a), from |-> n]
<1>1. /\ Len(answers) \in Nat /\ Len(answers') = n /\ answers'[n] = a
      /\ \A i \in 1..Len(answers) : answers'[i] = answers[i] /\ answers[i] \in Answers
      /\ 1..Len(answers') = 1..Len(answers) \cup {n}
      /\ n \in 1..Len(answers')
  BY Another
<1>2. \A i : Valid(answers[i])' <=> Valid(answers'[i])
  BY StaysValid
<1>3. Valid(answers'[n])
  BY <1>1
<1>4. \A x : Valid(x) => x # <<>>
  BY DEF Valid
<1>5. \A x \in Answers : Valid(x) => ~Better(Plan(x), Plan(x))
  BY <1>4, BetterOrders
<1>6. CASE best' = new /\ (~best.found \/ Better(Plan(a), best.plan))
  <2>1. best'.from = n
    BY <1>6
  <2>2. ASSUME NEW i \in 1..Len(answers'), Valid(answers'[i])
        PROVE  /\ ~Better(Plan(answers'[i]), Plan(a))
               /\ Better(Plan(a), Plan(answers'[i])) \/ n <= i
    <3>1. CASE i = n
      BY <1>1, <1>5, <3>1
    <3>2. CASE i \in 1..Len(answers)
      <4> DEFINE x == answers[i]
                 b == answers[best.from]
      <4>1. x \in Answers /\ Valid(x) /\ x # <<>> /\ answers'[i] = x /\ a # <<>>
        BY <1>1, <1>4, <2>2, <3>2
      <4>2. Chosen /\ best.found
        BY <3>2, <4>1, FoundIsChosen DEF Nothing
      <4>3. /\ b \in Answers /\ Valid(b) /\ best.plan = Plan(b) /\ b # <<>>
            /\ ~Better(Plan(x), Plan(b))
        BY <1>1, <1>4, <3>2, <4>1, <4>2 DEF Chosen
      <4>4. Better(Plan(a), Plan(b))
        BY <1>6, <4>2, <4>3
      <4> HIDE DEF x, b
      <4>5. Better(Plan(a), Plan(x))
        BY <4>1, <4>3, <4>4, BetterOrders
      <4>6. ~Better(Plan(x), Plan(a))
        BY <4>1, <4>5, BetterOrders
      <4> QED
        BY <4>1, <4>5, <4>6
    <3> QED
      BY <1>1, <3>1, <3>2
  <2> QED
    BY <1>1, <1>2, <1>3, <1>6, <2>1, <2>2 DEF Chosen
<1>7. CASE best' = best /\ best.found /\ ~Better(Plan(a), best.plan)
  <2> DEFINE b == answers[best.from]
  <2>1. /\ best.from \in 1..Len(answers) /\ Valid(b) /\ best.plan = Plan(b)
        /\ best = [found |-> TRUE, plan |-> Plan(b), warns |-> Warnings(b), from |-> best.from]
        /\ \A i \in 1..Len(answers) : Valid(answers[i]) =>
             /\ ~Better(Plan(answers[i]), Plan(b))
             /\ Better(Plan(b), Plan(answers[i])) \/ best.from <= i
    BY <1>7, FoundIsChosen DEF Chosen
  <2>2. answers'[best.from] = b /\ Valid(answers'[best.from]) /\ best.from <= n
        /\ best.from \in 1..Len(answers')
    BY <1>1, <1>7, <2>1
  <2>3. ASSUME NEW i \in 1..Len(answers'), Valid(answers'[i])
        PROVE  /\ ~Better(Plan(answers'[i]), Plan(b))
               /\ Better(Plan(b), Plan(answers'[i])) \/ best.from <= i
    <3>1. CASE i = n
      BY <1>1, <1>7, <2>1, <2>2, <3>1
    <3>2. CASE i \in 1..Len(answers)
      BY <1>1, <2>1, <2>3, <3>2
    <3> QED
      BY <1>1, <3>1, <3>2
  <2> HIDE DEF b
  <2> QED
    BY <1>2, <1>7, <2>1, <2>2, <2>3 DEF Chosen
<1>8. best' = IF ~best.found \/ Better(Plan(a), best.plan) THEN new ELSE best
  BY DEF Keep
<1> QED
  BY <1>6, <1>7, <1>8

\* An answer that is not valid changes nothing of it.
LEMMA RejectedChanges ==
  ASSUME Searched, Chosen \/ Nothing, NEW a \in Answers, ~Valid(a), best' = best,
         answers' = Append(answers, a), named' = named
  PROVE  (Chosen \/ Nothing)'
<1> DEFINE n == Len(answers) + 1
<1>1. /\ Len(answers) \in Nat /\ Len(answers') = n /\ answers'[n] = a
      /\ \A i \in 1..Len(answers) : answers'[i] = answers[i]
      /\ 1..Len(answers') = 1..Len(answers) \cup {n}
  BY Another
<1>2. \A i : Valid(answers[i])' <=> Valid(answers'[i])
  BY StaysValid
<1>3. ~Valid(answers'[n])
  BY <1>1
<1>4. \A i \in 1..Len(answers') : Valid(answers'[i]) => i \in 1..Len(answers)
  BY <1>1, <1>3
<1>5. CASE Nothing
  BY <1>2, <1>4, <1>5 DEF Nothing
<1>6. CASE Chosen
  BY <1>1, <1>2, <1>4, <1>6 DEF Chosen
<1> QED
  BY <1>5, <1>6

\* The bounds are numbers.
LEMMA Bounds ==
  /\ Candidates \in Nat /\ 0 <= Candidates /\ 0 \in 0..Candidates
  /\ MaxSubtasks \in Nat
<1>1. Candidates \in Nat \ {0} /\ MaxSubtasks \in Nat \ {0}
  BY RequestAssumption
<1> QED
  BY <1>1

\* The search begins with nothing.
LEMMA InitInv == Init => Inv
<1> SUFFICES ASSUME Init PROVE Inv
  OBVIOUS
<1>1. Searched
  <2>1. answers = <<>> /\ Len(answers) = 0 /\ answers \in Seq(Answers)
    BY DEF Init
  <2> QED
    BY <2>1, Bounds DEF Init, Searched
<1>2. Nothing
  BY DEF Init, Nothing
<1> QED
  BY <1>1, <1>2 DEF Inv

\* One more candidate.
LEMMA SampleKeeps ==
  ASSUME Inv, NEW a \in Answers, Sample(a)
  PROVE  Inv'
<1>1. Searched /\ (Chosen \/ Nothing)
  BY DEF Inv
<1>2. /\ place = "sampling" /\ Len(answers) < Candidates /\ answers' = Append(answers, a)
      /\ UNCHANGED <<named, place, outcome>>
  BY DEF Sample
<1>3. Len(answers) \in Nat /\ answers' \in Seq(Answers) /\ Len(answers') = Len(answers) + 1
  BY <1>1, <1>2, Another
<1>4. Len(answers') <= Candidates /\ Len(answers) + 1 \in 0..Candidates
  BY <1>2, <1>3, Bounds
<1>5. last' \in 0..Candidates
  BY <1>1, <1>4 DEF Sample, Searched
<1>6. Searched'
  BY <1>1, <1>2, <1>3, <1>4, <1>5 DEF Searched
<1>7. (Chosen \/ Nothing)'
  <2>1. CASE Valid(a) /\ Keep(a)
    BY <1>1, <1>2, <2>1, KeepChooses
  <2>2. CASE ~Valid(a) /\ best' = best
    BY <1>1, <1>2, <2>2, RejectedChanges
  <2> QED
    BY <2>1, <2>2 DEF Sample
<1> QED
  BY <1>6, <1>7 DEF Inv

\* The answer to the repair request, when nothing was valid.
LEMMA RepairKeeps ==
  ASSUME Inv, NEW a \in Answers, Repair(a)
  PROVE  Inv'
<1>1. Searched /\ (Chosen \/ Nothing)
  BY DEF Inv
<1>2. /\ place = "repair" /\ answers' = Append(answers, a) /\ place' = "done"
      /\ UNCHANGED <<named, last>>
  BY DEF Repair, Ends
<1>3. Len(answers) \in Nat /\ answers' \in Seq(Answers) /\ Len(answers') = Len(answers) + 1
  BY <1>1, <1>2, Another
<1>4. ~best.found /\ Len(answers) = Candidates /\ Len(answers') = Candidates + 1
  BY <1>1, <1>2, <1>3 DEF Searched
<1>5. \/ Valid(a) /\ Keep(a) /\ outcome' = "planned"
      \/ ~Valid(a) /\ best' = best /\ outcome' = "rejected"
  BY DEF Repair, Ends
<1>6. (Chosen \/ Nothing)' /\ (Valid(a) => Chosen')
  <2>1. CASE Valid(a) /\ Keep(a)
    BY <1>1, <1>2, <2>1, KeepChooses
  <2>2. CASE ~Valid(a) /\ best' = best
    BY <1>1, <1>2, <2>2, RejectedChanges
  <2> QED
    BY <1>5, <2>1, <2>2
<1>7. Chosen' => best'.found
  BY DEF Chosen
<1>8. Searched'
  BY <1>1, <1>2, <1>3, <1>4, <1>5, <1>6, <1>7, Bounds DEF Searched
<1> QED
  BY <1>6, <1>8 DEF Inv

\* The search goes on or ends without an answer.
LEMMA OtherwiseKeeps ==
  ASSUME Inv, SampleFails \/ Sampled \/ RepairFails
  PROVE  Inv'
<1>1. UNCHANGED <<named, answers, best, last>>
  BY DEF SampleFails, Sampled, RepairFails
<1>2. \A i : Valid(answers[i])' <=> Valid(answers[i])
  BY <1>1, StaysValid
<1>3. (Chosen \/ Nothing)'
  BY <1>1, <1>2 DEF Inv, Chosen, Nothing
<1>4. Len(answers) \in Nat /\ Candidates \in Nat
  BY Bounds DEF Inv, Searched
<1>5. Searched'
  <2>1. CASE SampleFails
    BY <1>1, <1>4, <2>1 DEF Inv, Searched, SampleFails, Ends
  <2>2. CASE Sampled
    BY <1>1, <1>4, <2>2 DEF Inv, Searched, Sampled, Ends
  <2>3. CASE RepairFails
    BY <1>1, <1>4, <2>3 DEF Inv, Searched, RepairFails, Ends
  <2> QED
    BY <2>1, <2>2, <2>3
<1> QED
  BY <1>3, <1>5 DEF Inv

\* The invariant is inductive, and always holds.
LEMMA AlwaysInv == Spec => []Inv
<1>1. Inv /\ [Next]_vars => Inv'
  <2> SUFFICES ASSUME Inv, [Next]_vars PROVE Inv'
    OBVIOUS
  <2>1. CASE Next
    BY <2>1, SampleKeeps, RepairKeeps, OtherwiseKeeps DEF Next
  <2>2. CASE UNCHANGED vars
    <3>1. UNCHANGED <<named, answers, best, last, place, outcome>>
      BY <2>2 DEF vars
    <3>2. \A i : Valid(answers[i])' <=> Valid(answers[i])
      BY <3>1, StaysValid
    <3> QED
      BY <3>1, <3>2 DEF Inv, Searched, Chosen, Nothing
  <2> QED
    BY <2>1, <2>2
<1> QED
  BY <1>1, InitInv, PTL DEF Spec

-----------------------------------------------------------------------------
(***************************************************************************)
(* The theorems.                                                           *)
(***************************************************************************)
\* The best plan is the plan of an answer, or there is none.
LEMMA BestIsPlan ==
  ASSUME Inv
  PROVE  \/ best = NoPlan
         \/ \E a \in Answers :
              /\ a = answers[best.from] /\ Valid(a)
              /\ best = [found |-> TRUE, plan |-> Plan(a), warns |-> Warnings(a),
                         from |-> best.from]
BY DEF Inv, Searched, Chosen, Nothing

\* A valid answer has no subtask that only reads; a check of its plan passes
\* validateCheck, and repeats none.
LEMMA ValidPlan ==
  ASSUME NEW a \in Answers, Valid(a)
  PROVE  /\ Len(a) <= MaxSubtasks
         /\ \A i \in 1..Len(a) :
              ~CheckIsWrong(Plan(a)[i]) /\ ~SameCheck(a, i) /\ ~ReadOnly(a[i])
<1>1. DOMAIN a = 1..Len(a)
  BY PlanOf
<1>2. ASSUME NEW i \in 1..Len(a)
      PROVE  ~CheckIsWrong(Plan(a)[i]) /\ ~SameCheck(a, i) /\ ~ReadOnly(a[i])
  <2>1. SubtaskErrors(a, i) = {}
    BY <1>1 DEF Valid
  <2>2. {"check", "same check", "read-only"} \cap SubtaskErrors(a, i) = {}
    BY <2>1
  <2> QED
    BY <2>2 DEF SubtaskErrors
<1> QED
  BY <1>2 DEF Valid

\* The types of the search; a plan carries nothing the model may not set
\* (parseAndValidate overwrites the status).
THEOREM TypeIsOK == Spec => []TypeOK
<1>1. Inv => TypeOK
  <2> SUFFICES ASSUME Inv PROVE TypeOK
    OBVIOUS
  <2>1. /\ Searched /\ Len(answers) \in Nat /\ DOMAIN answers = 1..Len(answers)
        /\ \A i \in 1..Len(answers) : answers[i] \in Answers
    BY DEF Inv, Searched
  <2>2. /\ best.found \in BOOLEAN /\ best.from \in 0..Len(answers)
    <3>1. CASE best = NoPlan
      BY <2>1, <3>1 DEF NoPlan
    <3>2. CASE Chosen
      <4>1. best.from \in 1..Len(answers) /\ best.found = TRUE
        BY <3>2 DEF Chosen
      <4>2. PICK n \in Nat : n = Len(answers)
        BY <2>1
      <4>3. \A k \in 1..n : k \in 0..n
        OBVIOUS
      <4> QED
        BY <4>1, <4>2, <4>3
    <3> QED
      BY <3>1, <3>2 DEF Inv, Nothing
  <2>3. /\ \A i \in DOMAIN best.plan : best.plan[i].status = "pending"
        /\ best.warns \subseteq (1..MaxSubtasks) \X ({"check"} \union DOMAIN Norm)
    <3>1. CASE best = NoPlan
      BY <3>1 DEF NoPlan
    <3>2. CASE best # NoPlan
      <4>1. PICK a \in Answers :
              Valid(a) /\ best.plan = Plan(a) /\ best.warns = Warnings(a)
        BY <3>2, BestIsPlan
      <4>2. /\ DOMAIN Plan(a) = 1..Len(a) /\ DOMAIN a = 1..Len(a) /\ Len(a) \in Nat
            /\ \A i \in 1..Len(a) : a[i] \in Subtasks /\ Plan(a)[i].status = "pending"
        BY PlanOf
      <4>3. \A i \in 1..Len(a) : i \in 1..MaxSubtasks
        BY <4>1, <4>2, ValidPlan, Bounds
      <4>4. \A i \in 1..Len(a) : Hints(a[i]) \subseteq DOMAIN Norm
        BY <4>2 DEF Hints, Subtasks
      <4>5. Warnings(a) \subseteq (1..MaxSubtasks) \X ({"check"} \union DOMAIN Norm)
        BY <4>2, <4>3, <4>4 DEF Warnings
      <4> QED
        BY <4>1, <4>2, <4>5
    <3> QED
      BY <3>1, <3>2
  <2>4. Len(answers) <= Candidates + 1
    <3>1. PICK n \in Nat, most \in Nat : n = Len(answers) /\ most = Candidates
      BY <2>1, Bounds
    <3>2. n <= most + 1 \/ n <= most
      BY <2>1, <3>1 DEF Searched
    <3>3. n <= most + 1
      BY <3>2
    <3> QED
      BY <3>1, <3>3
  <2> QED
    BY <2>1, <2>2, <2>3, <2>4 DEF TypeOK, Searched
<1> QED
  BY <1>1, AlwaysInv, PTL

\* generateSubtasks returns the first of the best valid candidates, in whatever
\* order they come and wherever the backend dies.
THEOREM BestStaysBest == Spec => []BestIsKept
<1>1. Inv => BestIsKept
  <2> SUFFICES ASSUME Inv, outcome = "planned"
               PROVE  /\ Valid(answers[best.from]) /\ best.plan = Plan(answers[best.from])
                      /\ \A i \in DOMAIN answers : Valid(answers[i]) =>
                           /\ ~Better(Plan(answers[i]), best.plan)
                           /\ Better(best.plan, Plan(answers[i])) \/ best.from <= i
    BY DEF BestIsKept
  <2>1. best.found /\ DOMAIN answers = 1..Len(answers)
    BY DEF Inv, Searched
  <2>2. Chosen
    BY <2>1, FoundIsChosen DEF Inv
  <2>3. best.plan = Plan(answers[best.from])
    BY <2>2 DEF Chosen
  <2> QED
    BY <2>1, <2>2, <2>3 DEF Chosen
<1> QED
  BY <1>1, AlwaysInv, PTL

\* An outage or a rejection is reported only when not one answer was valid, a
\* rejection only after the repair request.
THEOREM NoPlanIsWasted == Spec => []NothingIsWasted
<1>1. Inv => NothingIsWasted
  <2> SUFFICES ASSUME Inv PROVE NothingIsWasted
    OBVIOUS
  <2>1. Searched /\ DOMAIN answers = 1..Len(answers)
    BY DEF Inv, Searched
  <2>2. ~best.found => \A i \in DOMAIN answers : ~Valid(answers[i])
    BY <2>1, FoundIsChosen DEF Inv, Nothing
  <2> QED
    BY <2>1, <2>2 DEF NothingIsWasted, Searched
<1> QED
  BY <1>1, AlwaysInv, PTL

\* Only a subtask that names no file is left without a check, be it as written or
\* by repairUnrunnableCheck.
LEMMA NoneNamesNothing ==
  ASSUME NEW a \in Answers, Valid(a), NEW i \in 1..Len(a), Plan(a)[i].check.type = "none"
  PROVE  a[i].hints = <<>>
<1> SUFFICES ASSUME a[i].hints # <<>> PROVE FALSE
  OBVIOUS
<1>1. a[i] \in Subtasks /\ Plan(a)[i].hints = a[i].hints
  BY PlanOf
<1>2. AllHintsExist(a[i])
  <2>1. ~CheckIsWrong(Plan(a)[i])
    BY ValidPlan
  <2>2. AllHintsExist(Plan(a)[i])
    BY <1>1, <2>1 DEF CheckIsWrong
  <2> QED
    BY <1>1, <2>2 DEF AllHintsExist, Hints
<1>3. a[i].check.type # "none"
  BY <1>2, ValidPlan DEF ReadOnly
<1>4. Unrunnable(a[i])
  BY <1>3, PlanOf
<1>5. a[i].hints[1] # ""
  <2>1. a[i].hints \in Seq(DOMAIN Norm) /\ 1 \in DOMAIN a[i].hints
    BY <1>1 DEF Subtasks
  <2>2. Norm[a[i].hints[1]] \in Existing
    BY <1>2, <2>1 DEF AllHintsExist, Hints
  <2> QED
    BY <2>2, RequestAssumption
<1>6. Watchable(a[i]) # ""
  BY <1>1, <1>5, NamedIsWatchable
<1>7. Plan(a)[i].check = Check("file_exists", Watchable(a[i]))
  BY <1>4, <1>6, PlanOf
<1>8. Check("file_exists", Watchable(a[i])).type = "file_exists"
  BY DEF Check
<1> QED
  BY <1>7, <1>8

\* Every check of the plan, replaced or not, passed the rules of validateCheck: none
\* is of those the validator knows to be no evidence.
THEOREM NeverBlindChecks == Spec => []NoBlindChecks
<1>1. Inv => NoBlindChecks
  <2> SUFFICES ASSUME Inv, NEW i \in DOMAIN best.plan
               PROVE  LET c == best.plan[i].check
                      IN  /\ c.type = "none" => best.plan[i].hints = <<>>
                          /\ c.type = "file_exists" => Norm[c.path] \notin Existing
                          /\ c.type \in {"file_exists", "content_contains"} =>
                               Norm[c.path] \notin Dirs
                          /\ c.type = "shell" =>
                               c.cmd \notin Vacuous \union Mutating \union Unsatisfiable
                                            \union Missing
    BY DEF NoBlindChecks
  <2>1. best # NoPlan
    BY DEF NoPlan
  <2>2. PICK a \in Answers : Valid(a) /\ best.plan = Plan(a)
    BY <2>1, BestIsPlan
  <2>3. ~CheckIsWrong(Plan(a)[i]) /\ i \in 1..Len(a) /\ Plan(a)[i].hints = a[i].hints
    BY <2>2, PlanOf, ValidPlan
  <2> DEFINE s == Plan(a)[i]
  <2>4. best.plan[i] = s
    BY <2>2
  <2>5. CASE s.check.type = "none"
    BY <2>2, <2>3, <2>4, <2>5, NoneNamesNothing
  <2> HIDE DEF s
  <2>6. CASE s.check.type = "file_exists"
    BY <2>3, <2>4, <2>6 DEF CheckIsWrong, s
  <2>7. CASE s.check.type = "content_contains"
    BY <2>3, <2>4, <2>7 DEF CheckIsWrong, s
  <2>8. CASE s.check.type = "shell"
    BY <2>3, <2>4, <2>8 DEF CheckIsWrong, vacuousShellCheck, mutatingShellCheck,
                            unsatisfiableShellCheck, missingCommand, s
  <2> QED
    BY <2>4, <2>5, <2>6, <2>7, <2>8
<1> QED
  BY <1>1, AlwaysInv, PTL

\* Two subtasks of a plan never rest on one check, although repairUnrunnableCheck
\* can make two different ones the same.
THEOREM ChecksAlwaysDiffer == Spec => []ChecksDiffer
<1>1. Inv => ChecksDiffer
  <2> SUFFICES ASSUME Inv, NEW i \in DOMAIN best.plan, NEW j \in DOMAIN best.plan,
                      i # j, best.plan[i].check.type # "none",
                      Fingerprint(best.plan[i].check) = Fingerprint(best.plan[j].check)
               PROVE  FALSE
    BY DEF ChecksDiffer
  <2>1. best # NoPlan
    BY DEF NoPlan
  <2>2. PICK a \in Answers : Valid(a) /\ best.plan = Plan(a)
    BY <2>1, BestIsPlan
  <2>3. /\ i \in 1..Len(a) /\ j \in 1..Len(a) /\ Len(a) \in Nat
        /\ ~SameCheck(a, i) /\ ~SameCheck(a, j)
        /\ ~CheckIsWrong(Plan(a)[i]) /\ ~CheckIsWrong(Plan(a)[j])
    BY <2>2, PlanOf, ValidPlan
  <2> DEFINE c == Plan(a)[i].check
             d == Plan(a)[j].check
  <2>4. Fingerprint(c) = Fingerprint(d) /\ c.type # "none"
    BY <2>2
  <2>5. c.type = d.type
    BY <2>4 DEF Fingerprint
  <2>6. c.type # "" /\ d.type # ""
    BY <2>3 DEF CheckIsWrong
  <2>7. i < j \/ j < i
    BY <2>3
  <2>8. CASE j < i
    <3>1. j \in 1..(i - 1)
      BY <2>3, <2>8
    <3> QED
      BY <2>3, <2>4, <2>6, <3>1 DEF SameCheck
  <2>9. CASE i < j
    <3>1. i \in 1..(j - 1)
      BY <2>3, <2>9
    <3> QED
      BY <2>3, <2>4, <2>5, <2>6, <3>1 DEF SameCheck
  <2> QED
    BY <2>7, <2>8, <2>9
<1> QED
  BY <1>1, AlwaysInv, PTL

\* The human is told of every check that is not as written, quotes of its needle aside,
\* and of every file to be new, in the plan that is returned and not in another.
THEOREM ChangesAreAlwaysAnnounced == Spec => []ChangesAreAnnounced
<1>1. Inv => ChangesAreAnnounced
  <2> SUFFICES ASSUME Inv, outcome = "planned", NEW i \in DOMAIN best.plan
               PROVE  LET written == answers[best.from][i]
                          c       == best.plan[i].check
                      IN  /\ c \notin {written.check,
                                       [written.check EXCEPT
                                          !.contains = Needle[written.check.contains]]} =>
                               <<i, "check">> \in best.warns
                          /\ \A p \in Hints(written) :
                               Norm[p] \notin Existing => <<i, p>> \in best.warns
    BY DEF ChangesAreAnnounced
  <2>1. best.found
    BY DEF Inv, Searched
  <2>2. PICK a \in Answers : /\ a = answers[best.from] /\ best.plan = Plan(a)
                             /\ best.warns = Warnings(a)
    BY <2>1, BestIsPlan DEF NoPlan
  <2>3. /\ i \in DOMAIN a
        /\ ~Unrunnable(a[i]) =>
             Plan(a)[i].check \in
               {a[i].check, [a[i].check EXCEPT !.contains = Needle[a[i].check.contains]]}
    BY <2>2, PlanOf
  <2>4. Unrunnable(a[i]) => <<i, "check">> \in Warnings(a)
    BY <2>3 DEF Warnings
  <2>5. \A p \in Hints(a[i]) : Norm[p] \notin Existing => <<i, p>> \in Warnings(a)
    BY <2>3 DEF Warnings
  <2> QED
    BY <2>2, <2>3, <2>4, <2>5
<1> QED
  BY <1>1, AlwaysInv, PTL
=============================================================================
