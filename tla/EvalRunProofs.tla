---------------------------- MODULE EvalRunProofs ----------------------------
(***************************************************************************)
(* A sweep covers every job, keeps the exclusive ones alone, scores them   *)
(* as they went and counts their prompts exactly, whatever the jobs, the   *)
(* probes, the subagents and the sizes.                                    *)
(***************************************************************************)
EXTENDS EvalRun, FiniteSetTheorems, SequenceTheorems, TLAPS

-----------------------------------------------------------------------------
(***************************************************************************)
(* The inductive invariant.                                                *)
(***************************************************************************)
Stages == {"idle", "sent", "peak", "swap peak", "floor", "swap floor", "done"}

\* What Chat is at before the peak, and before the floor, knows what is reported.
Peaking  == {"peak", "swap peak"}
Flooring == {"peak", "swap peak", "floor", "swap floor"}

Chats == [at : Stages, got : Nat, err : BOOLEAN, saw : Nat]

Runs ==
  [calls : Nat, peak : Nat, floor : Nat, chat : [Callers -> Chats],
   turn : Nat, steps : Nat, made : SUBSET (Kinds \X Nat),
   runError : BOOLEAN, verified : BOOLEAN,
   hits : SUBSET UNION {Patterns(ProbeOf[j]) : j \in Jobs},
   answered : Nat, sizes : SUBSET Nat, used : SUBSET Kinds]

Results == [errored : BOOLEAN, passed : BOOLEAN]

Typed ==
  /\ phase \in {"exclusive", "batch", "summary"}
  /\ at \in [Jobs -> {"queued", "setup", "running", "scored", "recorded"}]
  /\ run \in [Jobs -> Runs]
  /\ result \in [Jobs -> Results]
  /\ all \in Seq(Jobs)

\* What a call of Chat carries while the counters of r are swapped.
Carries(r, c) ==
  /\ c.got \in r.sizes \cup {0}
  /\ c.at = "swap peak" => c.got > c.saw
  /\ c.at \in {"floor", "swap floor"} => c.got > 0
  /\ c.at = "swap floor" => c.saw = 0 \/ c.got < c.saw

\* The peak is a reported size, and no other is larger unless a call is about to
\* say so.
Peaked(r) ==
  /\ r.peak \in r.sizes \cup {0}
  /\ \A x \in r.sizes :
       x <= r.peak \/ \E who \in Callers : r.chat[who].at \in Peaking /\ r.chat[who].got = x

\* The floor likewise, where zero stands for none.
Floored(r) ==
  /\ r.floor \in r.sizes \cup {0}
  /\ \A x \in r.sizes \ {0} :
       \/ r.floor # 0 /\ r.floor <= x
       \/ \E who \in Callers : r.chat[who].at \in Flooring /\ r.chat[who].got = x

\* No call of another runs beside one of a planner, an agent or a worker.
Turned(r) ==
  \A who, other \in Callers :
    who \notin Subagents /\ r.chat[who].at # "idle" /\ r.chat[other].at # "idle" => other = who

\* Without a request there is no answer and none waits for one.
Begun(r) == r.calls = 0 => r.answered = 0 /\ \A who \in Callers : r.chat[who].at = "idle"

Counted(r) ==
  /\ \A who \in Callers : Carries(r, r.chat[who])
  /\ Peaked(r) /\ Floored(r) /\ Turned(r) /\ Begun(r) /\ IsFiniteSet(r.made)

Quiet(r) == \A who \in Callers : r.chat[who].at = "idle"

\* What the score says of a run that ended.
Honest(p, r, score) ==
  /\ score.passed => r.answered > 0 /\ ~r.runError /\ r.verified /\ AsAsked(p, r)
  /\ score.errored => r.answered = 0
  /\ ~score.passed /\ ~score.errored => r.runError \/ ~r.verified \/ ~AsAsked(p, r)

\* What is true of a job by how far it is.
Job(j) ==
  /\ Counted(run[j])
  /\ at[j] # "running" => Quiet(run[j])
  /\ at[j] \in {"queued", "setup"} => run[j] = NewRun /\ result[j] = NoResult
  /\ at[j] = "scored" => Honest(ProbeOf[j], run[j], result[j])

\* First the exclusive jobs run one by one, then only others.
Scheduled ==
  /\ phase = "exclusive" => Active \subseteq First /\ \A i, j \in Active : i = j
  /\ phase # "exclusive" => \A j \in First : at[j] = "recorded"
  /\ IsFiniteSet(Active) /\ Cardinality(Active) <= JobsN

\* Each recorded job is there once; at the summary all are recorded.
Covered ==
  /\ \A i \in 1..Len(all) : at[all[i]] = "recorded"
  /\ \A i, k \in 1..Len(all) : all[i] = all[k] => i = k
  /\ \A j \in Jobs : at[j] = "recorded" => \E i \in 1..Len(all) : all[i] = j
  /\ phase = "summary" => \A j \in Jobs : at[j] = "recorded"

Inv == Typed /\ (\A j \in Jobs : Job(j)) /\ Scheduled /\ Covered

-----------------------------------------------------------------------------
(***************************************************************************)
(* The counters.                                                           *)
(***************************************************************************)

\* The fields of a call and of a run.
LEMMA Fields ==
  ASSUME NEW r \in Runs
  PROVE  /\ r.calls \in Nat /\ r.peak \in Nat /\ r.floor \in Nat /\ r.answered \in Nat
         /\ r.turn \in Nat /\ r.steps \in Nat /\ r.runError \in BOOLEAN /\ r.verified \in BOOLEAN
         /\ r.sizes \in SUBSET Nat /\ r.made \in SUBSET (Kinds \X Nat) /\ r.used \in SUBSET Kinds
         /\ r.chat \in [Callers -> Chats]
         /\ \A who \in Callers : /\ r.chat[who] \in Chats /\ r.chat[who].at \in Stages
                                 /\ r.chat[who].got \in Nat /\ r.chat[who].saw \in Nat
                                 /\ r.chat[who].err \in BOOLEAN
<1>1. r.chat \in [Callers -> Chats]
  BY DEF Runs
<1>2. ASSUME NEW who \in Callers
      PROVE  /\ r.chat[who] \in Chats /\ r.chat[who].at \in Stages
             /\ r.chat[who].got \in Nat /\ r.chat[who].saw \in Nat /\ r.chat[who].err \in BOOLEAN
  BY <1>1 DEF Chats
<1> QED
  BY <1>1, <1>2 DEF Runs

\* A size that was reported before, or is what c is about to compare.
Reports(r, q, c) == \A x \in q.sizes : x \in r.sizes \/ (x = c.got /\ c.at = "peak")

\* The call of who becomes c: what it leaves behind is settled, and what it
\* brings is right.
Moves(r, q, who, c) ==
  /\ q.calls >= r.calls
  /\ q.made = r.made \/ IsFiniteSet(q.made)
  /\ r.sizes \subseteq q.sizes /\ Reports(r, q, c)
  /\ r.peak <= q.peak /\ q.peak \in q.sizes \cup {0}
  /\ q.floor = r.floor \/ (q.floor # 0 /\ (r.floor = 0 \/ q.floor <= r.floor))
  /\ q.floor \in q.sizes \cup {0}
  /\ Carries(q, c)
  /\ r.chat[who].at \in Peaking =>
       r.chat[who].got <= q.peak \/ (c.got = r.chat[who].got /\ c.at \in Peaking)
  /\ r.chat[who].at \in Flooring /\ r.chat[who].got # 0 =>
       \/ q.floor # 0 /\ q.floor <= r.chat[who].got
       \/ c.got = r.chat[who].got /\ c.at \in Flooring
  /\ c.at # "idle" =>
       \/ r.chat[who].at # "idle"
       \/ \A other \in Callers : r.chat[other].at # "idle" =>
             who \in Subagents /\ other \in Subagents
  /\ q.calls # 0

\* Such a step keeps the counters right.
LEMMA MoveKeeps ==
  ASSUME NEW r \in Runs, NEW q \in Runs, NEW who \in Callers, NEW c \in Chats, Counted(r),
         q.chat = [r.chat EXCEPT ![who] = c], Moves(r, q, who, c)
  PROVE  Counted(q)
<1> USE DEF Moves
<1>1. /\ r.calls \in Nat /\ r.peak \in Nat /\ r.floor \in Nat /\ r.answered \in Nat
      /\ r.sizes \in SUBSET Nat /\ r.chat \in [Callers -> Chats]
      /\ \A w \in Callers : r.chat[w].at \in Stages /\ r.chat[w].got \in Nat /\ r.chat[w].saw \in Nat
  BY Fields
<1>2. /\ q.calls \in Nat /\ q.peak \in Nat /\ q.floor \in Nat /\ q.answered \in Nat
      /\ q.sizes \in SUBSET Nat
  BY Fields
<1>3. q.chat[who] = c /\ \A w \in Callers \ {who} : q.chat[w] = r.chat[w]
  BY <1>1
<1>4. /\ \A w \in Callers : Carries(r, r.chat[w])
      /\ Peaked(r) /\ Floored(r) /\ Turned(r) /\ Begun(r) /\ IsFiniteSet(r.made)
  BY DEF Counted
<1>5. \A w \in Callers : Carries(q, q.chat[w])
  BY <1>3, <1>4 DEF Carries
<1>6. Peaked(q)
  <2>1. ASSUME NEW x \in q.sizes, ~(x <= q.peak)
        PROVE  \E w \in Callers : q.chat[w].at \in Peaking /\ q.chat[w].got = x
    <3>1. CASE x = c.got /\ c.at = "peak"
      BY <1>3, <3>1 DEF Peaking
    <3>2. CASE x \in r.sizes
      <4>1. ~(x <= r.peak)
        BY <1>1, <1>2, <2>1, <3>2
      <4>2. PICK w \in Callers : r.chat[w].at \in Peaking /\ r.chat[w].got = x
        BY <1>4, <3>2, <4>1 DEF Peaked
      <4>3. CASE w # who
        BY <1>3, <4>2, <4>3
      <4>4. CASE w = who
        BY <1>3, <2>1, <4>2, <4>4
      <4> QED
        BY <4>3, <4>4
    <3> QED
      BY <2>1, <3>1, <3>2 DEF Reports
  <2> QED
    BY <2>1 DEF Peaked
<1>7. Floored(q)
  <2>1. ASSUME NEW x \in q.sizes, x # 0, ~(q.floor # 0 /\ q.floor <= x)
        PROVE  \E w \in Callers : q.chat[w].at \in Flooring /\ q.chat[w].got = x
    <3>1. CASE x = c.got /\ c.at = "peak"
      BY <1>3, <3>1 DEF Flooring
    <3>2. CASE x \in r.sizes
      <4>1. ~(r.floor # 0 /\ r.floor <= x)
        BY <1>1, <1>2, <2>1, <3>2
      <4>2. PICK w \in Callers : r.chat[w].at \in Flooring /\ r.chat[w].got = x
        BY <1>4, <2>1, <3>2, <4>1 DEF Floored
      <4>3. CASE w # who
        BY <1>3, <4>2, <4>3
      <4>4. CASE w = who
        BY <1>3, <2>1, <4>2, <4>4
      <4> QED
        BY <4>3, <4>4
    <3> QED
      BY <2>1, <3>1, <3>2 DEF Reports
  <2> QED
    BY <2>1 DEF Floored
<1>8. Turned(q)
  <2>1. ASSUME NEW w \in Callers, NEW other \in Callers, w \notin Subagents,
               q.chat[w].at # "idle", q.chat[other].at # "idle"
        PROVE  other = w
    <3>1. CASE r.chat[who].at # "idle" \/ c.at = "idle"
      <4>1. r.chat[w].at # "idle" /\ r.chat[other].at # "idle"
        BY <1>3, <2>1, <3>1
      <4> QED
        BY <1>4, <2>1, <4>1 DEF Turned
    <3>2. CASE r.chat[who].at = "idle" /\ c.at # "idle"
      BY <1>3, <1>4, <2>1, <3>2 DEF Turned
    <3> QED
      BY <3>1, <3>2
  <2> QED
    BY <2>1 DEF Turned
<1>9. Begun(q)
  BY DEF Begun
<1>10. IsFiniteSet(q.made)
  BY <1>4
<1> QED
  BY <1>5, <1>6, <1>7, <1>8, <1>9, <1>10 DEF Counted

\* A run with one call replaced.
LEMMA Replaced ==
  ASSUME NEW r \in Runs, NEW who \in Callers, NEW c \in Chats
  PROVE  LET q == [r EXCEPT !.chat[who] = c]
         IN  /\ q \in Runs /\ q.chat = [r.chat EXCEPT ![who] = c]
             /\ q.calls = r.calls /\ q.answered = r.answered /\ q.sizes = r.sizes
             /\ q.peak = r.peak /\ q.floor = r.floor /\ q.made = r.made
             /\ q.steps = r.steps /\ q.turn = r.turn
<1>1. [r.chat EXCEPT ![who] = c] \in [Callers -> Chats]
  BY Fields
<1> QED
  BY <1>1 DEF Runs

\* What Continues makes of a job.
LEMMA Continued ==
  ASSUME run \in [Jobs -> Runs], NEW j \in Jobs, NEW who \in Callers, NEW c \in Chats,
         NEW r \in Runs, Continues(j, who, c, r)
  PROVE  /\ run' \in [Jobs -> Runs]
         /\ run'[j] \in Runs /\ run'[j].chat = [r.chat EXCEPT ![who] = c]
         /\ run'[j].calls = r.calls /\ run'[j].answered = r.answered
         /\ run'[j].sizes = r.sizes /\ run'[j].peak = r.peak /\ run'[j].floor = r.floor
         /\ run'[j].made = r.made /\ run'[j].steps = r.steps /\ run'[j].turn = r.turn
         /\ \A i \in Jobs \ {j} : run'[i] = run[i]
         /\ UNCHANGED <<phase, at, result, all>>
<1> DEFINE q == [r EXCEPT !.chat[who] = c]
<1>1. /\ q \in Runs /\ q.chat = [r.chat EXCEPT ![who] = c]
      /\ q.calls = r.calls /\ q.answered = r.answered /\ q.sizes = r.sizes
      /\ q.peak = r.peak /\ q.floor = r.floor /\ q.made = r.made
      /\ q.steps = r.steps /\ q.turn = r.turn
  BY Replaced
<1>2. run' = [run EXCEPT ![j] = q] /\ UNCHANGED <<phase, at, result, all>>
  BY DEF Continues
<1> HIDE DEF q
<1>3. run'[j] = q /\ run' \in [Jobs -> Runs] /\ \A i \in Jobs \ {j} : run'[i] = run[i]
  BY <1>1, <1>2
<1> QED
  BY <1>1, <1>2, <1>3

\* What a step of a call leaves of its job.
Counting(j) ==
  /\ run' \in [Jobs -> Runs] /\ Counted(run'[j])
  /\ \A i \in Jobs \ {j} : run'[i] = run[i]
  /\ UNCHANGED <<phase, at, result, all>>

\* A call that goes on so keeps its job right.
LEMMA GoesOn ==
  ASSUME Typed, NEW j \in Jobs, NEW who \in Callers, Counted(run[j]),
         NEW c \in Chats, NEW t \in Runs, t.chat = run[j].chat,
         Moves(run[j], t, who, c), Continues(j, who, c, t)
  PROVE  Counting(j)
<1> DEFINE r == run[j]
           q == run'[j]
<1>1. r \in Runs /\ run \in [Jobs -> Runs]
  BY DEF Typed
<1>2. /\ run' \in [Jobs -> Runs]
      /\ q \in Runs /\ q.chat = [r.chat EXCEPT ![who] = c]
      /\ q.calls = t.calls /\ q.answered = t.answered /\ q.sizes = t.sizes
      /\ q.peak = t.peak /\ q.floor = t.floor /\ q.made = t.made
      /\ \A i \in Jobs \ {j} : run'[i] = run[i]
      /\ UNCHANGED <<phase, at, result, all>>
  BY <1>1, Continued
<1> HIDE DEF q
<1>3. Moves(r, q, who, c)
  BY <1>2 DEF Moves, Carries, Reports
<1>4. Counted(q)
  BY <1>1, <1>2, <1>3, MoveKeeps
<1> QED
  BY <1>2, <1>4 DEF Counting, q

\* A request is sent: the caller had none, and others have only if all are subagents.
LEMMA SendKeeps ==
  ASSUME Typed, NEW j \in Jobs, NEW who \in Callers, Counted(run[j]), Send(j, who)
  PROVE  Counting(j)
<1> DEFINE r == run[j]
           c == [Idle EXCEPT !.at = "sent"]
           n == r.calls + 1
           t == [r EXCEPT !.calls = n]
<1>1. r \in Runs
  BY DEF Typed
<1>2. /\ r.calls \in Nat /\ r.peak \in Nat /\ n \in Nat
  BY <1>1, Fields
<1>3. c \in Chats /\ c.at = "sent" /\ c.got = 0
  BY DEF Chats, Idle, Stages
<1>4. Continues(j, who, c, t)
  BY DEF Send
<1>5. /\ who \notin InFlight(j)
      /\ who \in Subagents => InFlight(j) \subseteq Subagents
      /\ who \notin Subagents => InFlight(j) = {}
  BY DEF Send, MaySend
<1>6. \A other \in Callers : r.chat[other].at # "idle" => who \in Subagents /\ other \in Subagents
  BY <1>5 DEF InFlight
<1>7. r.chat[who].at = "idle"
  BY <1>5 DEF InFlight
<1> HIDE DEF c, n
<1>8. /\ t \in Runs /\ t.chat = r.chat /\ t.calls = n /\ t.sizes = r.sizes
      /\ t.peak = r.peak /\ t.floor = r.floor /\ t.made = r.made
  BY <1>1, <1>2 DEF Runs
<1> HIDE DEF t
<1>9. Moves(r, t, who, c)
  <2>1. Peaked(r) /\ Floored(r)
    BY DEF Counted
  <2>2. t.peak \in t.sizes \cup {0} /\ t.floor \in t.sizes \cup {0} /\ Reports(r, t, c)
    BY <1>8, <2>1 DEF Peaked, Floored, Reports
  <2>3. t.calls >= r.calls /\ t.calls # 0 /\ r.peak <= t.peak
    BY <1>2, <1>8 DEF n
  <2>4. Carries(t, c)
    BY <1>3 DEF Carries
  <2> HIDE DEF r
  <2> QED
    BY <1>3, <1>6, <1>7, <1>8, <2>2, <2>3, <2>4 DEF Moves, Peaking, Flooring
<1> QED
  BY <1>3, <1>4, <1>8, <1>9, GoesOn

\* A call that is under way: its run, and that there was a request.
LEMMA UnderWay ==
  ASSUME Typed, NEW j \in Jobs, NEW who \in Callers, Counted(run[j]),
         run[j].chat[who].at # "idle"
  PROVE  /\ run[j] \in Runs /\ run[j].calls \in Nat /\ run[j].calls # 0
         /\ run[j].peak \in Nat /\ run[j].floor \in Nat /\ run[j].answered \in Nat
         /\ run[j].sizes \in SUBSET Nat
         /\ run[j].peak \in run[j].sizes \cup {0} /\ run[j].floor \in run[j].sizes \cup {0}
         /\ run[j].chat[who] \in Chats /\ run[j].chat[who].at \in Stages
         /\ run[j].chat[who].got \in Nat /\ run[j].chat[who].saw \in Nat
         /\ Carries(run[j], run[j].chat[who])
<1>1. run[j] \in Runs
  BY DEF Typed
<1>2. Peaked(run[j]) /\ Floored(run[j]) /\ Begun(run[j]) /\ Carries(run[j], run[j].chat[who])
  BY DEF Counted
<1> QED
  BY <1>1, <1>2, Fields DEF Peaked, Floored, Begun

\* The backend answers: the size it reports is about to be compared.
LEMMA AnsweredKeeps ==
  ASSUME Typed, NEW j \in Jobs, NEW who \in Callers, Counted(run[j]), Answered(j, who)
  PROVE  Counting(j)
<1> DEFINE r == run[j]
           s == r.chat[who]
<1>1. s.at = "sent"
  BY DEF Answered
<1>2. /\ r \in Runs /\ r.calls \in Nat /\ r.calls # 0 /\ r.peak \in Nat /\ r.floor \in Nat
      /\ r.answered \in Nat /\ r.sizes \in SUBSET Nat
      /\ r.peak \in r.sizes \cup {0} /\ r.floor \in r.sizes \cup {0}
      /\ s \in Chats /\ s.got \in Nat /\ Carries(r, s)
  BY <1>1, UnderWay
<1>3. r.calls >= r.calls /\ r.peak <= r.peak
  BY <1>2
<1>4. CASE Continues(j, who, [s EXCEPT !.at = "peak", !.err = TRUE], r)
  <2> DEFINE c == [s EXCEPT !.at = "peak", !.err = TRUE]
  <2>1. c \in Chats /\ c.at = "peak" /\ c.got = s.got
    BY <1>2 DEF Chats, Stages
  <2>2. Continues(j, who, c, r)
    BY <1>4
  <2> HIDE DEF c
  <2>3. Carries(r, c) /\ Reports(r, r, c)
    BY <1>2, <2>1 DEF Carries, Reports
  <2>4. Moves(r, r, who, c)
    <3> HIDE DEF r
    <3> QED
      BY <1>1, <1>2, <1>3, <2>1, <2>3 DEF Moves, Peaking, Flooring
  <2> QED
    BY <1>2, <2>1, <2>2, <2>4, GoesOn
<1>5. CASE \E got \in Sizes[j] :
             Continues(j, who, [s EXCEPT !.at = "peak", !.got = got],
                       [r EXCEPT !.answered = @ + 1, !.sizes = @ \cup {got}])
  <2>1. PICK got \in Sizes[j] :
             Continues(j, who, [s EXCEPT !.at = "peak", !.got = got],
                       [r EXCEPT !.answered = @ + 1, !.sizes = @ \cup {got}])
    BY <1>5
  <2>2. got \in Nat
    BY JobAssumption
  <2> DEFINE c == [s EXCEPT !.at = "peak", !.got = got]
             n == r.answered + 1
             z == r.sizes \cup {got}
             t == [r EXCEPT !.answered = n, !.sizes = z]
  <2>3. c \in Chats /\ c.at = "peak" /\ c.got = got
    BY <1>2, <2>2 DEF Chats, Stages
  <2>4. Continues(j, who, c, t)
    BY <2>1
  <2>5. n \in Nat /\ z \in SUBSET Nat /\ r.sizes \subseteq z /\ got \in z
    BY <1>2, <2>2
  <2>6. \A x \in z : x \in r.sizes \/ x = got
    OBVIOUS
  <2> HIDE DEF c, n, z
  <2>7. /\ t \in Runs /\ t.chat = r.chat /\ t.calls = r.calls
        /\ t.sizes = z /\ t.peak = r.peak /\ t.floor = r.floor /\ t.made = r.made
    BY <1>2, <2>5 DEF Runs
  <2> HIDE DEF t
  <2>8. Carries(t, c) /\ Reports(r, t, c)
    BY <2>3, <2>5, <2>6, <2>7 DEF Carries, Reports
  <2>9. t.peak \in t.sizes \cup {0} /\ t.floor \in t.sizes \cup {0}
    BY <1>2, <2>5, <2>7
  <2>10. Moves(r, t, who, c)
    <3> HIDE DEF r
    <3> QED
      BY <1>1, <1>2, <1>3, <2>3, <2>5, <2>7, <2>8, <2>9 DEF Moves, Peaking, Flooring
  <2> QED
    BY <2>3, <2>4, <2>7, <2>10, GoesOn
<1> QED
  BY <1>4, <1>5 DEF Answered

\* The peak is loaded: it is as large, or the call goes on to swap it.
LEMMA LoadPeakKeeps ==
  ASSUME Typed, NEW j \in Jobs, NEW who \in Callers, Counted(run[j]), LoadPeak(j, who)
  PROVE  Counting(j)
<1> DEFINE r == run[j]
           s == r.chat[who]
           next == IF s.got <= r.peak THEN AfterPeak(s.got) ELSE "swap peak"
           c == [s EXCEPT !.saw = r.peak, !.at = next]
<1>1. s.at = "peak" /\ Continues(j, who, c, r)
  BY DEF LoadPeak
<1>2. /\ r \in Runs /\ r.calls \in Nat /\ r.calls # 0 /\ r.peak \in Nat /\ r.floor \in Nat
      /\ r.peak \in r.sizes \cup {0} /\ r.floor \in r.sizes \cup {0}
      /\ s \in Chats /\ s.got \in Nat /\ Carries(r, s)
  BY <1>1, UnderWay
<1>3. r.calls >= r.calls /\ r.peak <= r.peak
  BY <1>2
<1>4. \/ s.got <= r.peak /\ s.got > 0 /\ next = "floor"
      \/ s.got <= r.peak /\ s.got = 0 /\ next = "done"
      \/ s.got > r.peak /\ s.got > 0 /\ next = "swap peak"
  <2>1. \/ s.got <= r.peak /\ s.got > 0
        \/ s.got <= r.peak /\ ~(s.got > 0) /\ s.got = 0
        \/ ~(s.got <= r.peak) /\ s.got > r.peak /\ s.got > 0
    <3> HIDE DEF r, s
    <3> QED
      BY <1>2
  <2> QED
    BY <2>1 DEF AfterPeak
<1> HIDE DEF next
<1>5. c \in Chats /\ c.at = next /\ c.got = s.got /\ c.saw = r.peak
  BY <1>2, <1>4 DEF Chats, Stages
<1> HIDE DEF c
<1>6. Carries(r, c) /\ Reports(r, r, c)
  BY <1>2, <1>4, <1>5 DEF Carries, Reports
<1>7. Moves(r, r, who, c)
  <2> HIDE DEF r
  <2> QED
    BY <1>1, <1>2, <1>3, <1>4, <1>5, <1>6 DEF Moves, Peaking, Flooring
<1> QED
  BY <1>1, <1>2, <1>5, <1>7, GoesOn

\* The peak is swapped for a larger one, or loaded again.
LEMMA SwapPeakKeeps ==
  ASSUME Typed, NEW j \in Jobs, NEW who \in Callers, Counted(run[j]), SwapPeak(j, who)
  PROVE  Counting(j)
<1> DEFINE r == run[j]
           s == r.chat[who]
<1>1. s.at = "swap peak"
  BY DEF SwapPeak
<1>2. /\ r \in Runs /\ r.calls \in Nat /\ r.calls # 0 /\ r.peak \in Nat /\ r.floor \in Nat
      /\ r.peak \in r.sizes \cup {0} /\ r.floor \in r.sizes \cup {0}
      /\ s \in Chats /\ s.got \in Nat /\ s.saw \in Nat /\ Carries(r, s)
  BY <1>1, UnderWay
<1>3. r.calls >= r.calls /\ r.peak <= r.peak /\ s.got > s.saw /\ s.got \in r.sizes \cup {0}
      /\ s.got # 0 /\ s.got > 0
  <2>1. s.got > s.saw /\ s.got \in r.sizes \cup {0}
    BY <1>1, <1>2 DEF Carries
  <2> HIDE DEF r, s
  <2> QED
    BY <1>2, <2>1
<1>4. CASE r.peak # s.saw /\ Continues(j, who, [s EXCEPT !.at = "peak"], r)
  <2> DEFINE c == [s EXCEPT !.at = "peak"]
  <2>1. c \in Chats /\ c.at = "peak" /\ c.got = s.got
    BY <1>2 DEF Chats, Stages
  <2>2. Continues(j, who, c, r)
    BY <1>4
  <2> HIDE DEF c
  <2>3. Carries(r, c) /\ Reports(r, r, c)
    BY <1>3, <2>1 DEF Carries, Reports
  <2>4. Moves(r, r, who, c)
    <3> HIDE DEF r
    <3> QED
      BY <1>1, <1>2, <1>3, <2>1, <2>3 DEF Moves, Peaking, Flooring
  <2> QED
    BY <1>2, <2>1, <2>2, <2>4, GoesOn
<1>5. CASE /\ r.peak = s.saw
           /\ Continues(j, who, [s EXCEPT !.at = AfterPeak(s.got)], [r EXCEPT !.peak = s.got])
  <2> DEFINE c == [s EXCEPT !.at = "floor"]
             t == [r EXCEPT !.peak = s.got]
  <2>1. c \in Chats /\ c.at = "floor" /\ c.got = s.got
    BY <1>2 DEF Chats, Stages
  <2>2. Continues(j, who, c, t)
    BY <1>3, <1>5 DEF AfterPeak
  <2>3. /\ t \in Runs /\ t.chat = r.chat /\ t.calls = r.calls
        /\ t.sizes = r.sizes /\ t.peak = s.got /\ t.floor = r.floor /\ t.made = r.made
    BY <1>2 DEF Runs
  <2> HIDE DEF c, t
  <2>4. Carries(t, c) /\ Reports(r, t, c) /\ r.peak <= t.peak /\ t.peak <= t.peak
    <3>1. r.peak = s.saw
      BY <1>5
    <3> HIDE DEF r, s
    <3>2. Carries(t, c) /\ Reports(r, t, c)
      BY <1>3, <2>1, <2>3 DEF Carries, Reports
    <3>3. r.peak <= t.peak /\ t.peak <= t.peak
      BY <1>2, <1>3, <2>3, <3>1
    <3> QED
      BY <3>2, <3>3
  <2>5. Moves(r, t, who, c)
    <3> HIDE DEF r
    <3> QED
      BY <1>1, <1>2, <1>3, <2>1, <2>3, <2>4 DEF Moves, Peaking, Flooring
  <2> QED
    BY <2>1, <2>2, <2>3, <2>5, GoesOn
<1> QED
  BY <1>4, <1>5 DEF SwapPeak

\* The floor is loaded: it is as small, or the call goes on to swap it.
LEMMA LoadFloorKeeps ==
  ASSUME Typed, NEW j \in Jobs, NEW who \in Callers, Counted(run[j]), LoadFloor(j, who)
  PROVE  Counting(j)
<1> DEFINE r == run[j]
           s == r.chat[who]
           next == IF Settled(r.floor, s.got) THEN "done" ELSE "swap floor"
           c == [s EXCEPT !.saw = r.floor, !.at = next]
<1>1. s.at = "floor" /\ Continues(j, who, c, r)
  BY DEF LoadFloor
<1>2. /\ r \in Runs /\ r.calls \in Nat /\ r.calls # 0 /\ r.peak \in Nat /\ r.floor \in Nat
      /\ r.peak \in r.sizes \cup {0} /\ r.floor \in r.sizes \cup {0}
      /\ s \in Chats /\ s.got \in Nat /\ Carries(r, s)
  BY <1>1, UnderWay
<1>3. r.calls >= r.calls /\ r.peak <= r.peak /\ s.got > 0 /\ s.got \in r.sizes \cup {0}
  BY <1>1, <1>2 DEF Carries
<1>4. /\ next = "done" => r.floor # 0 /\ r.floor <= s.got
      /\ next = "swap floor" => r.floor = 0 \/ s.got < r.floor
      /\ next \in {"done", "swap floor"}
  BY <1>2 DEF Settled
<1> HIDE DEF next
<1>5. c \in Chats /\ c.at = next /\ c.got = s.got /\ c.saw = r.floor
  BY <1>2, <1>4 DEF Chats, Stages
<1> HIDE DEF c
<1>6. Carries(r, c) /\ Reports(r, r, c)
  BY <1>2, <1>3, <1>4, <1>5 DEF Carries, Reports
<1>7. Moves(r, r, who, c)
  <2> HIDE DEF r
  <2> QED
    BY <1>1, <1>2, <1>3, <1>4, <1>5, <1>6 DEF Moves, Peaking, Flooring
<1> QED
  BY <1>1, <1>2, <1>5, <1>7, GoesOn

\* The floor is swapped for a smaller one, or for the first, or loaded again.
LEMMA SwapFloorKeeps ==
  ASSUME Typed, NEW j \in Jobs, NEW who \in Callers, Counted(run[j]), SwapFloor(j, who)
  PROVE  Counting(j)
<1> DEFINE r == run[j]
           s == r.chat[who]
<1>1. s.at = "swap floor"
  BY DEF SwapFloor
<1>2. /\ r \in Runs /\ r.calls \in Nat /\ r.calls # 0 /\ r.peak \in Nat /\ r.floor \in Nat
      /\ r.peak \in r.sizes \cup {0} /\ r.floor \in r.sizes \cup {0}
      /\ s \in Chats /\ s.got \in Nat /\ s.saw \in Nat /\ Carries(r, s)
  BY <1>1, UnderWay
<1>3. r.calls >= r.calls /\ r.peak <= r.peak /\ s.got > 0 /\ s.got \in r.sizes \cup {0}
      /\ s.got # 0 /\ (s.saw = 0 \/ s.got < s.saw)
  <2>1. s.got > 0 /\ s.got \in r.sizes \cup {0} /\ (s.saw = 0 \/ s.got < s.saw)
    BY <1>1, <1>2 DEF Carries
  <2> HIDE DEF r, s
  <2> QED
    BY <1>2, <2>1
<1>4. CASE r.floor # s.saw /\ Continues(j, who, [s EXCEPT !.at = "floor"], r)
  <2> DEFINE c == [s EXCEPT !.at = "floor"]
  <2>1. c \in Chats /\ c.at = "floor" /\ c.got = s.got
    BY <1>2 DEF Chats, Stages
  <2>2. Continues(j, who, c, r)
    BY <1>4
  <2> HIDE DEF c
  <2>3. Carries(r, c) /\ Reports(r, r, c)
    BY <1>3, <2>1 DEF Carries, Reports
  <2>4. Moves(r, r, who, c)
    <3> HIDE DEF r
    <3> QED
      BY <1>1, <1>2, <1>3, <2>1, <2>3 DEF Moves, Peaking, Flooring
  <2> QED
    BY <1>2, <2>1, <2>2, <2>4, GoesOn
<1>5. CASE /\ r.floor = s.saw
           /\ Continues(j, who, [s EXCEPT !.at = "done"], [r EXCEPT !.floor = s.got])
  <2> DEFINE c == [s EXCEPT !.at = "done"]
             t == [r EXCEPT !.floor = s.got]
  <2>1. c \in Chats /\ c.at = "done" /\ c.got = s.got
    BY <1>2 DEF Chats, Stages
  <2>2. Continues(j, who, c, t)
    BY <1>5
  <2>3. /\ t \in Runs /\ t.chat = r.chat /\ t.calls = r.calls
        /\ t.sizes = r.sizes /\ t.peak = r.peak /\ t.floor = s.got /\ t.made = r.made
    BY <1>2 DEF Runs
  <2> HIDE DEF c, t
  <2>4. Carries(t, c) /\ Reports(r, t, c) /\ t.floor # 0 /\ t.floor <= s.got
        /\ (r.floor = 0 \/ t.floor <= r.floor)
    <3>1. r.floor = s.saw
      BY <1>5
    <3> HIDE DEF r, s
    <3>2. Carries(t, c) /\ Reports(r, t, c)
      BY <1>3, <2>1, <2>3 DEF Carries, Reports
    <3>3. t.floor # 0 /\ t.floor <= s.got /\ (r.floor = 0 \/ t.floor <= r.floor)
      BY <1>2, <1>3, <2>3, <3>1
    <3> QED
      BY <3>2, <3>3
  <2>5. Moves(r, t, who, c)
    <3> HIDE DEF r
    <3> QED
      BY <1>1, <1>2, <1>3, <2>1, <2>3, <2>4 DEF Moves, Peaking, Flooring
  <2> QED
    BY <2>1, <2>2, <2>3, <2>5, GoesOn
<1> QED
  BY <1>4, <1>5 DEF SwapFloor

\* What the recorder makes of a step.
LEMMA Recording ==
  ASSUME NEW r \in Runs, NEW kinds \in SUBSET Kinds, NEW turn \in Nat, IsFiniteSet(r.made)
  PROVE  LET t == Recorded(r, kinds, turn)
         IN  /\ t \in Runs /\ t.chat = r.chat /\ t.calls = r.calls /\ t.sizes = r.sizes
             /\ t.peak = r.peak /\ t.floor = r.floor /\ IsFiniteSet(t.made)
<1> DEFINE Nth(k) == Cardinality({c \in r.made : c[1] = k}) + 1
           new == {<<k, Nth(k)>> : k \in kinds}
           made == r.made \cup new
           steps == IF turn > r.steps THEN turn ELSE r.steps
<1>1. r.made \in SUBSET (Kinds \X Nat) /\ r.steps \in Nat
  BY Fields
<1>2. ASSUME NEW k \in kinds
      PROVE  Nth(k) \in Nat
  <2>1. {c \in r.made : c[1] = k} \in SUBSET r.made
    OBVIOUS
  <2>2. Cardinality({c \in r.made : c[1] = k}) \in Nat
    BY <2>1, FS_Subset, FS_CardinalityType
  <2> QED
    BY <2>2
<1> HIDE DEF Nth
<1>3. made \in SUBSET (Kinds \X Nat) /\ steps \in Nat
  BY <1>1, <1>2
<1>4. IsFiniteSet(made)
  <2>1. IsFiniteSet(kinds)
    BY FS_Subset, JobAssumption
  <2> DEFINE f == [k \in kinds |-> <<k, Nth(k)>>]
  <2>2. f \in Surjection(kinds, new)
    BY DEF Surjection
  <2>3. IsFiniteSet(new)
    BY <2>1, <2>2, FS_Surjection
  <2> HIDE DEF new
  <2> QED
    BY <2>3, FS_Union
<1>5. Recorded(r, kinds, turn) = [r EXCEPT !.turn = turn, !.steps = steps, !.made = made]
  BY DEF Recorded, Nth
<1> HIDE DEF made, steps
<1>6. /\ [r EXCEPT !.turn = turn, !.steps = steps, !.made = made] \in Runs
      /\ [r EXCEPT !.turn = turn, !.steps = steps, !.made = made].chat = r.chat
      /\ [r EXCEPT !.turn = turn, !.steps = steps, !.made = made].calls = r.calls
      /\ [r EXCEPT !.turn = turn, !.steps = steps, !.made = made].sizes = r.sizes
      /\ [r EXCEPT !.turn = turn, !.steps = steps, !.made = made].peak = r.peak
      /\ [r EXCEPT !.turn = turn, !.steps = steps, !.made = made].floor = r.floor
      /\ [r EXCEPT !.turn = turn, !.steps = steps, !.made = made].made = made
  BY <1>3 DEF Runs
<1> QED
  BY <1>4, <1>5, <1>6

\* A call that returned leaves the counters as they are.
LEMMA ReturnedMoves ==
  ASSUME Typed, NEW j \in Jobs, NEW who \in Callers, Counted(run[j]),
         run[j].chat[who].at = "done", NEW t \in Runs,
         t.calls = run[j].calls, t.sizes = run[j].sizes,
         t.peak = run[j].peak, t.floor = run[j].floor,
         t.made = run[j].made \/ IsFiniteSet(t.made)
  PROVE  Moves(run[j], t, who, Idle) /\ Idle \in Chats
<1> DEFINE r == run[j]
<1>1. /\ r \in Runs /\ r.calls \in Nat /\ r.calls # 0 /\ r.peak \in Nat /\ r.floor \in Nat
      /\ r.peak \in r.sizes \cup {0} /\ r.floor \in r.sizes \cup {0}
  BY UnderWay
<1>2. r.calls >= r.calls /\ r.peak <= r.peak
  BY <1>1
<1>3. Idle \in Chats /\ Idle.at = "idle" /\ Idle.got = 0
  BY DEF Chats, Idle, Stages
<1>4. Carries(t, Idle) /\ Reports(r, t, Idle)
  BY <1>3 DEF Carries, Reports
<1>5. Moves(r, t, who, Idle)
  BY <1>1, <1>2, <1>3, <1>4 DEF Moves, Peaking, Flooring
<1> QED
  BY <1>3, <1>5

\* The caller gets its response, and the recorder its step.
LEMMA RespondsKeeps ==
  ASSUME Typed, NEW j \in Jobs, NEW who \in Callers, Counted(run[j]), Responds(j, who)
  PROVE  Counting(j)
<1>1. PICK kinds \in SUBSET Kinds, anew \in BOOLEAN :
        LET r == [run[j] EXCEPT !.used = @ \cup kinds]
        IN  Continues(j, who, Idle, IF who \in Reporting
               THEN Recorded(r, kinds, IF anew THEN 1 ELSE r.turn + 1) ELSE r)
  BY DEF Responds
<1> DEFINE u == run[j].used \cup kinds
           r == [run[j] EXCEPT !.used = u]
           turn == IF anew THEN 1 ELSE r.turn + 1
           t == IF who \in Reporting THEN Recorded(r, kinds, turn) ELSE r
<1>2. run[j] \in Runs /\ run[j].used \in SUBSET Kinds /\ IsFiniteSet(run[j].made)
  BY Fields DEF Typed, Counted
<1>3. u \in SUBSET Kinds
  BY <1>2
<1>4. Continues(j, who, Idle, t)
  BY <1>1
<1> HIDE DEF u
<1>5. /\ r \in Runs /\ r.chat = run[j].chat /\ r.calls = run[j].calls /\ r.sizes = run[j].sizes
      /\ r.peak = run[j].peak /\ r.floor = run[j].floor /\ r.made = run[j].made
  BY <1>2, <1>3 DEF Runs
<1> HIDE DEF r
<1>6. turn \in Nat
  BY <1>5, Fields
<1> HIDE DEF turn
<1>7. /\ t \in Runs /\ t.chat = run[j].chat /\ t.calls = run[j].calls /\ t.sizes = run[j].sizes
      /\ t.peak = run[j].peak /\ t.floor = run[j].floor /\ IsFiniteSet(t.made)
  BY <1>2, <1>5, <1>6, Recording
<1> HIDE DEF t
<1>8. run[j].chat[who].at = "done"
  BY DEF Responds
<1>9. Moves(run[j], t, who, Idle) /\ Idle \in Chats
  BY <1>7, <1>8, ReturnedMoves
<1> QED
  BY <1>4, <1>7, <1>9, GoesOn

\* An error the run outlives changes no counter.
LEMMA ErrAbsorbedKeeps ==
  ASSUME Typed, NEW j \in Jobs, NEW who \in Callers, Counted(run[j]),
         ErrAbsorbed(j, who)
  PROVE  Counting(j)
<1>1. run[j].chat[who].at = "done" /\ Continues(j, who, Idle, run[j])
  BY DEF ErrAbsorbed, Err
<1>2. run[j] \in Runs
  BY DEF Typed
<1>3. Moves(run[j], run[j], who, Idle) /\ Idle \in Chats
  BY <1>1, <1>2, ReturnedMoves
<1> QED
  BY <1>1, <1>2, <1>3, GoesOn
-----------------------------------------------------------------------------
(***************************************************************************)
(* The scores.                                                             *)
(***************************************************************************)
\* The checks fail nothing of a run that did what its probe asks, and only then.
LEMMA FailsNothing ==
  ASSUME NEW p, NEW r, IsFiniteSet(r.made), \A tc \in p.trace : tc.maxCalls \in Int
  PROVE  NothingFails(p, r) <=> ~r.runError /\ r.verified /\ AsAsked(p, r)
<1> DEFINE Asked(tc) ==
             /\ ~tc.bad /\ tc.mode \in {"required", "forbidden", ""}
             /\ tc.mode = "required" => \E c \in r.made : c[1] \in tc.matches
             /\ tc.mode = "forbidden" => \A c \in r.made : c[1] \notin tc.matches
             /\ tc.maxCalls > 0 => Matched(tc, r.made) <= tc.maxCalls
           Fails(tc) ==
             \/ tc.bad
             \/ tc.maxCalls > 0 /\ Matched(tc, r.made) > tc.maxCalls
             \/ tc.mode = "required" /\ Matched(tc, r.made) = 0
             \/ tc.mode = "forbidden" /\ Matched(tc, r.made) > 0
             \/ tc.mode \notin {"required", "forbidden", ""}
           Answers(ac) == /\ ~ac.bad /\ ac.mode \in {"required", "forbidden"}
                          /\ ac.mode = "required" <=> ac.regex \in r.hits
           Misses(ac) == \/ ac.bad
                         \/ ac.mode = "required" /\ ac.regex \notin r.hits
                         \/ ac.mode = "forbidden" /\ ac.regex \in r.hits
                         \/ ac.mode \notin {"required", "forbidden"}
<1>1. ASSUME NEW tc \in p.trace
      PROVE  Fails(tc) <=> ~Asked(tc)
  <2> DEFINE m == {c \in r.made : c[1] \in tc.matches}
  <2>1. m \in SUBSET r.made
    OBVIOUS
  <2>2. IsFiniteSet(m)
    BY <2>1, FS_Subset
  <2>3. Cardinality(m) \in Nat /\ (Cardinality(m) = 0 <=> m = {})
    BY <2>2, FS_CardinalityType, FS_EmptySet
  <2>4. PICK n \in Nat : n = Cardinality(m)
    BY <2>3
  <2>5. PICK most \in Int : most = tc.maxCalls
    OBVIOUS
  <2>6. Matched(tc, r.made) = n
    BY <2>4 DEF Matched
  <2>7. n = 0 <=> ~\E c \in r.made : c[1] \in tc.matches
    BY <2>3, <2>4
  <2>8. (n > most <=> ~(n <= most)) /\ (n > 0 <=> n # 0)
    OBVIOUS
  <2> HIDE DEF m
  <2> QED
    BY <2>5, <2>6, <2>7, <2>8
<1>2. ASSUME NEW ac \in p.answer
      PROVE  Misses(ac) <=> ~Answers(ac)
  OBVIOUS
<1>3. TraceFailures(p, r.made) = {tc \in p.trace : Fails(tc)}
  BY DEF TraceFailures
<1>4. AnswerFailures(p, r.hits) = {ac \in p.answer : Misses(ac)}
  BY DEF AnswerFailures
<1>5. AsAsked(p, r) <=> /\ \A tc \in p.trace : Asked(tc)
                        /\ \A ac \in p.answer : Answers(ac)
                        /\ p.maxSteps > 0 => r.steps <= p.maxSteps
  BY DEF AsAsked
<1> HIDE DEF Fails, Asked, Misses, Answers
<1>6. TraceFailures(p, r.made) = {} <=> \A tc \in p.trace : Asked(tc)
  BY <1>1, <1>3
<1>7. AnswerFailures(p, r.hits) = {} <=> \A ac \in p.answer : Answers(ac)
  BY <1>2, <1>4
<1> QED
  BY <1>5, <1>6, <1>7 DEF NothingFails

\* A run whose counters are those of another.
LEMMA SameCounters ==
  ASSUME NEW r, NEW q, Counted(r), q.chat = r.chat, q.calls = r.calls, q.answered = r.answered,
         q.sizes = r.sizes, q.peak = r.peak, q.floor = r.floor, q.made = r.made
  PROVE  Counted(q)
<1>1. \A who \in Callers : Carries(q, q.chat[who])
  BY DEF Counted, Carries
<1>2. Peaked(q)
  BY DEF Counted, Peaked
<1>3. Floored(q)
  BY DEF Counted, Floored
<1>4. Turned(q) /\ Begun(q) /\ IsFiniteSet(q.made)
  BY DEF Counted, Turned, Begun
<1> QED
  BY <1>1, <1>2, <1>3, <1>4 DEF Counted

\* What the end of a run leaves of its job.
Scored(j) ==
  /\ run' \in [Jobs -> Runs] /\ result' \in [Jobs -> Results]
  /\ Counted(run'[j]) /\ Quiet(run'[j]) /\ Honest(ProbeOf[j], run'[j], result'[j])
  /\ \A i \in Jobs \ {j} : run'[i] = run[i] /\ result'[i] = result[i]
  /\ Goes(j, "scored")
  /\ UNCHANGED <<phase, all>>

\* Without an error there was an answer: then the score is honest.
LEMMA ScoreKeeps ==
  ASSUME Typed, NEW j \in Jobs, NEW r \in Runs, Counted(r), Quiet(r), NEW err \in BOOLEAN,
         err \/ r.answered > 0, Score(j, r, err)
  PROVE  Scored(j)
<1>1. PICK verified \in {TRUE, ~ProbeOf[j].verify}, hits \in SUBSET Patterns(ProbeOf[j]) :
        Scores(j, [r EXCEPT !.runError = err, !.verified = verified, !.hits = hits])
  BY DEF Score
<1> DEFINE q == [r EXCEPT !.runError = err, !.verified = verified, !.hits = hits]
           score == IF ~Reached(q) /\ q.runError THEN [errored |-> TRUE, passed |-> FALSE]
                    ELSE [errored |-> FALSE, passed |-> NothingFails(ProbeOf[j], q)]
<1>2. hits \in SUBSET UNION {Patterns(ProbeOf[i]) : i \in Jobs} /\ verified \in BOOLEAN
  BY <1>1
<1>3. /\ q \in Runs /\ q.chat = r.chat /\ q.calls = r.calls /\ q.answered = r.answered
      /\ q.sizes = r.sizes /\ q.peak = r.peak /\ q.floor = r.floor /\ q.made = r.made
      /\ q.runError = err
  BY <1>2 DEF Runs
<1>4. /\ run' = [run EXCEPT ![j] = q] /\ result' = [result EXCEPT ![j] = score]
      /\ Goes(j, "scored") /\ UNCHANGED <<phase, all>>
  BY <1>1 DEF Scores
<1> HIDE DEF q
<1>5. Counted(q) /\ Quiet(q) /\ IsFiniteSet(q.made)
  BY <1>3, SameCounters DEF Quiet, Counted
<1>6. NothingFails(ProbeOf[j], q) <=> ~q.runError /\ q.verified /\ AsAsked(ProbeOf[j], q)
  BY <1>5, FailsNothing, ProbeAssumption
<1>7. NothingFails(ProbeOf[j], q) \in BOOLEAN
  BY DEF NothingFails
<1>8. ~Reached(q) => q.answered = 0
  BY <1>3, <1>5, Fields DEF Counted, Begun, Reached
<1>9. score \in Results
  BY <1>7 DEF Results
<1>10. Honest(ProbeOf[j], q, score)
  <2>1. CASE ~Reached(q) /\ q.runError
    BY <1>8, <2>1 DEF Honest
  <2>2. CASE ~(~Reached(q) /\ q.runError)
    <3>1. score = [errored |-> FALSE, passed |-> NothingFails(ProbeOf[j], q)]
      BY <2>2
    <3>2. ~score.errored /\ (score.passed <=> NothingFails(ProbeOf[j], q))
      BY <3>1
    <3> HIDE DEF score
    <3> QED
      BY <1>3, <1>6, <3>2 DEF Honest
  <2> QED
    BY <2>1, <2>2
<1> HIDE DEF score
<1>11. /\ run'[j] = q /\ run' \in [Jobs -> Runs] /\ \A i \in Jobs \ {j} : run'[i] = run[i]
       /\ result'[j] = score /\ result' \in [Jobs -> Results]
       /\ \A i \in Jobs \ {j} : result'[i] = result[i]
  BY <1>3, <1>4, <1>9 DEF Typed
<1> QED
  BY <1>4, <1>5, <1>10, <1>11 DEF Scored

\* A run that ends by itself was answered.
LEMMA EndsKeeps ==
  ASSUME Typed, NEW j \in Jobs, Counted(run[j]), NEW err \in BOOLEAN, Ends(j, err)
  PROVE  Scored(j)
<1>1. InFlight(j) = {} /\ run[j].answered > 0 /\ Score(j, run[j], err)
  BY DEF Ends
<1>2. run[j] \in Runs /\ Quiet(run[j])
  BY <1>1 DEF Typed, Quiet, InFlight
<1> QED
  BY <1>1, <1>2, ScoreKeeps

\* No subagent is at work when the agent, the planner or a worker gets its error.
LEMMA ErrEndsKeeps ==
  ASSUME Typed, NEW j \in Jobs, NEW who \in Callers, Counted(run[j]),
         ErrEnds(j, who)
  PROVE  Scored(j)
<1> DEFINE q == [run[j] EXCEPT !.chat[who] = Idle]
<1>1. run[j].chat[who].at = "done" /\ Score(j, q, TRUE) /\ who \notin Subagents
  BY DEF ErrEnds, Err
<1>2. run[j] \in Runs /\ run[j].chat \in [Callers -> Chats]
  BY Fields DEF Typed
<1>3. Idle \in Chats /\ Idle.at = "idle"
  BY DEF Chats, Idle, Stages
<1>4. /\ q \in Runs /\ q.chat = [run[j].chat EXCEPT ![who] = Idle]
      /\ q.calls = run[j].calls /\ q.answered = run[j].answered /\ q.sizes = run[j].sizes
      /\ q.peak = run[j].peak /\ q.floor = run[j].floor /\ q.made = run[j].made
  BY <1>2, <1>3, Replaced
<1> HIDE DEF q
<1>5. Moves(run[j], q, who, Idle)
  BY <1>1, <1>4, ReturnedMoves
<1>6. Counted(q)
  BY <1>2, <1>3, <1>4, <1>5, MoveKeeps
<1>7. Quiet(q)
  <2>1. ASSUME NEW other \in Callers, other # who
        PROVE  run[j].chat[other].at = "idle"
    BY <1>1, <2>1 DEF Counted, Turned
  <2> QED
    BY <1>2, <1>3, <1>4, <2>1 DEF Quiet
<1> QED
  BY <1>1, <1>4, <1>6, <1>7, ScoreKeeps

\* A run that has not begun.
LEMMA NewRunIsRight ==
  NewRun \in Runs /\ Counted(NewRun) /\ Quiet(NewRun)
<1>1. Idle \in Chats /\ Idle.at = "idle" /\ Idle.got = 0
  BY DEF Chats, Idle, Stages
<1>2. [c \in Callers |-> Idle] \in [Callers -> Chats]
  BY <1>1
<1>3. NewRun \in Runs
  BY <1>2 DEF NewRun, Runs
<1>4. /\ NewRun.calls = 0 /\ NewRun.answered = 0 /\ NewRun.sizes = {} /\ NewRun.made = {}
      /\ NewRun.peak = 0 /\ NewRun.floor = 0 /\ \A c \in Callers : NewRun.chat[c] = Idle
  BY DEF NewRun
<1>5. Counted(NewRun) /\ Quiet(NewRun)
  BY <1>1, <1>4, FS_EmptySet DEF Counted, Carries, Peaked, Floored, Turned, Begun, Quiet
<1> QED
  BY <1>3, <1>5

\* A run that could not be set up has an error and no score.
LEMMA SetUpFailsKeeps ==
  ASSUME Typed, NEW j \in Jobs, Job(j), SetUpFails(j)
  PROVE  Scored(j)
<1> DEFINE q == [run[j] EXCEPT !.runError = TRUE]
<1>1. run[j] = NewRun /\ result[j] = NoResult
  BY DEF SetUpFails, Job
<1>2. NewRun \in Runs /\ Counted(NewRun) /\ Quiet(NewRun)
  BY NewRunIsRight
<1>3. /\ q \in Runs /\ q.chat = run[j].chat /\ q.calls = run[j].calls
      /\ q.answered = run[j].answered /\ q.sizes = run[j].sizes /\ q.peak = run[j].peak
      /\ q.floor = run[j].floor /\ q.made = run[j].made /\ q.runError = TRUE
  BY <1>1, <1>2 DEF Runs
<1>4. run' = [run EXCEPT ![j] = q] /\ Goes(j, "scored") /\ UNCHANGED <<phase, result, all>>
  BY DEF SetUpFails
<1> HIDE DEF q
<1>5. Counted(q) /\ Quiet(q)
  BY <1>1, <1>2, <1>3, SameCounters DEF Quiet
<1>6. ~result[j].passed /\ ~result[j].errored
  BY <1>1 DEF NoResult
<1>7. Honest(ProbeOf[j], q, result[j])
  BY <1>3, <1>6 DEF Honest
<1>8. /\ run'[j] = q /\ run' \in [Jobs -> Runs] /\ \A i \in Jobs \ {j} : run'[i] = run[i]
      /\ result' = result /\ result \in [Jobs -> Results]
  BY <1>3, <1>4 DEF Typed
<1> QED
  BY <1>4, <1>5, <1>7, <1>8 DEF Scored
-----------------------------------------------------------------------------
(***************************************************************************)
(* The sweep.                                                              *)
(***************************************************************************)
\* The other jobs stay as they are.
Apart(j) ==
  \A i \in Jobs \ {j} : at'[i] = at[i] /\ run'[i] = run[i] /\ result'[i] = result[i]

\* What is true of the other jobs stays true.
LEMMA OthersStay ==
  ASSUME \A i \in Jobs : Job(i), NEW j \in Jobs, Apart(j), Job(j)'
  PROVE  (\A i \in Jobs : Job(i))'
<1>1. ASSUME NEW i \in Jobs, i # j
      PROVE  Job(i)'
  BY <1>1 DEF Apart, Job
<1> QED
  BY <1>1

\* How far the jobs are once j has gone on.
LEMMA Gone ==
  ASSUME Typed, NEW j \in Jobs,
         NEW stage \in {"setup", "running", "scored", "recorded"}, Goes(j, stage)
  PROVE  /\ at'[j] = stage /\ \A i \in Jobs \ {j} : at'[i] = at[i]
         /\ at' \in [Jobs -> {"queued", "setup", "running", "scored", "recorded"}]
         /\ Active' = IF stage = "recorded" THEN Active \ {j} ELSE Active \cup {j}
<1>1. /\ at'[j] = stage /\ \A i \in Jobs \ {j} : at'[i] = at[i]
      /\ at' \in [Jobs -> {"queued", "setup", "running", "scored", "recorded"}]
  BY DEF Typed, Goes
<1> QED
  BY <1>1 DEF Active

\* Nothing is scheduled or recorded while a job goes on from one stage to another.
LEMMA GoesOnBeside ==
  ASSUME Typed, Scheduled, Covered, NEW j \in Jobs, at[j] \in {"setup", "running", "scored"},
         NEW stage \in {"running", "scored"}, Goes(j, stage), UNCHANGED <<phase, all>>
  PROVE  Scheduled' /\ Covered'
<1>1. /\ at'[j] = stage /\ \A i \in Jobs \ {j} : at'[i] = at[i]
      /\ Active' = Active
  BY Gone DEF Active
<1>2. \A i \in Jobs : at'[i] = "recorded" <=> at[i] = "recorded"
  BY <1>1
<1>3. First \subseteq Jobs
  BY JobAssumption DEF First
<1>4. Scheduled'
  BY <1>1, <1>2, <1>3 DEF Scheduled
<1>5. Covered'
  BY <1>2 DEF Covered, Typed
<1> QED
  BY <1>4, <1>5

\* A call of Chat goes on only in a running job.
LEMMA CallsRun ==
  ASSUME NEW j \in Jobs, Job(j), NEW who \in Callers, run[j].chat[who].at # "idle"
  PROVE  at[j] = "running"
BY DEF Job, Quiet

\* A step of a call keeps the invariant.
LEMMA CountingKeeps ==
  ASSUME Inv, NEW j \in Jobs, at[j] = "running", Counting(j)
  PROVE  Inv'
<1> USE DEF Inv, Counting
<1>1. Typed'
  BY DEF Typed
<1>2. Job(j)'
  BY DEF Job
<1>3. (\A i \in Jobs : Job(i))'
  BY <1>2, OthersStay DEF Apart
<1>4. Active' = Active
  BY DEF Active
<1>5. Scheduled'
  BY <1>4 DEF Scheduled, First
<1>6. Covered'
  BY DEF Covered
<1> QED
  BY <1>1, <1>3, <1>5, <1>6

\* The end of a run keeps it.
LEMMA ScoredKeeps ==
  ASSUME Inv, NEW j \in Jobs, at[j] \in {"setup", "running"}, Scored(j)
  PROVE  Inv'
<1> USE DEF Inv, Scored
<1>1. /\ at'[j] = "scored" /\ \A i \in Jobs \ {j} : at'[i] = at[i]
      /\ at' \in [Jobs -> {"queued", "setup", "running", "scored", "recorded"}]
  BY Gone
<1>2. Typed'
  BY <1>1 DEF Typed
<1>3. Job(j)'
  BY <1>1 DEF Job
<1>4. (\A i \in Jobs : Job(i))'
  BY <1>1, <1>3, OthersStay DEF Apart
<1>5. Scheduled' /\ Covered'
  BY GoesOnBeside
<1> QED
  BY <1>2, <1>4, <1>5

\* A run that is set up begins with nothing.
LEMMA SetUpKeeps ==
  ASSUME Inv, NEW j \in Jobs, SetUp(j)
  PROVE  Inv'
<1> USE DEF Inv, SetUp
<1>1. /\ at'[j] = "running" /\ \A i \in Jobs \ {j} : at'[i] = at[i]
      /\ at' \in [Jobs -> {"queued", "setup", "running", "scored", "recorded"}]
  BY Gone
<1>2. Typed'
  BY <1>1 DEF Typed
<1>3. Job(j)'
  BY <1>1 DEF Job
<1>4. (\A i \in Jobs : Job(i))'
  BY <1>1, <1>3, OthersStay DEF Apart
<1>5. Scheduled' /\ Covered'
  BY GoesOnBeside
<1> QED
  BY <1>2, <1>4, <1>5

\* A job that starts, alone or where there is a slot.
LEMMA StartsKeeps ==
  ASSUME Inv, NEW j \in Jobs, StartExclusive(j) \/ StartJob(j)
  PROVE  Inv'
<1> USE DEF Inv
<1>1. /\ at[j] = "queued" /\ Goes(j, "setup") /\ UNCHANGED <<phase, run, result, all>>
  BY DEF StartExclusive, StartJob
<1>2. /\ at'[j] = "setup" /\ \A i \in Jobs \ {j} : at'[i] = at[i]
      /\ at' \in [Jobs -> {"queued", "setup", "running", "scored", "recorded"}]
      /\ Active' = Active \cup {j}
  BY <1>1, Gone
<1>3. Typed'
  BY <1>1, <1>2 DEF Typed
<1>4. Job(j)'
  BY <1>1, <1>2 DEF Job
<1>5. (\A i \in Jobs : Job(i))'
  BY <1>1, <1>2, <1>4, OthersStay DEF Apart
<1>6. \A i \in Jobs : at'[i] = "recorded" <=> at[i] = "recorded"
  BY <1>1, <1>2
<1>7. Covered'
  BY <1>1, <1>6 DEF Covered, Typed
<1>8. j \notin Active /\ IsFiniteSet(Active)
  BY <1>1 DEF Active, Scheduled
<1>9. /\ IsFiniteSet(Active') /\ Cardinality(Active) \in Nat
      /\ Cardinality(Active') = Cardinality(Active) + 1
  BY <1>2, <1>8, FS_AddElement, FS_CardinalityType
<1>10. Scheduled'
  <2>1. CASE StartExclusive(j)
    <3>1. phase = "exclusive" /\ j \in First /\ Active = {} /\ phase' = phase
      BY <2>1 DEF StartExclusive
    <3>2. Active' = {j}
      BY <1>2, <3>1
    <3>3. JobsN \in Nat /\ 1 <= JobsN
      BY JobAssumption
    <3>4. Cardinality(Active') <= JobsN
      BY <3>2, <3>3, FS_Singleton
    <3> QED
      BY <1>9, <3>1, <3>2, <3>4 DEF Scheduled, First
  <2>2. CASE StartJob(j)
    <3>1. phase = "batch" /\ SlotFree /\ phase' = phase
      BY <2>2 DEF StartJob
    <3>2. Active \ First = Active
      BY <3>1 DEF Scheduled, Active
    <3>3. Cardinality(Active) < JobsN
      BY <3>1, <3>2 DEF SlotFree
    <3>4. PICK n \in Nat : n = Cardinality(Active)
      BY <1>9
    <3>5. PICK most \in Nat : most = JobsN
      BY JobAssumption
    <3>6. n + 1 <= most
      BY <3>3, <3>4, <3>5
    <3>7. Cardinality(Active') <= JobsN
      BY <1>9, <3>4, <3>5, <3>6
    <3>8. \A i \in First : at'[i] = "recorded"
      BY <1>6, <3>1, JobAssumption DEF Scheduled, First
    <3> QED
      BY <1>9, <3>1, <3>7, <3>8 DEF Scheduled, First
  <2> QED
    BY <2>1, <2>2
<1> QED
  BY <1>3, <1>5, <1>7, <1>10

\* A job that is recorded.
LEMMA RecordKeeps ==
  ASSUME Inv, NEW j \in Jobs, Record(j)
  PROVE  Inv'
<1> USE DEF Inv
<1>1. /\ at[j] = "scored" /\ Goes(j, "recorded") /\ all' = Append(all, j)
      /\ run' = [run EXCEPT ![j] = NewRun] /\ UNCHANGED <<phase, result>>
  BY DEF Record
<1>2. /\ at'[j] = "recorded" /\ \A i \in Jobs \ {j} : at'[i] = at[i]
      /\ at' \in [Jobs -> {"queued", "setup", "running", "scored", "recorded"}]
      /\ Active' = Active \ {j}
  BY <1>1, Gone
<1>3. NewRun \in Runs /\ Counted(NewRun) /\ Quiet(NewRun)
  BY NewRunIsRight
<1>4. /\ run'[j] = NewRun /\ run' \in [Jobs -> Runs]
      /\ \A i \in Jobs \ {j} : run'[i] = run[i]
  BY <1>1, <1>3 DEF Typed
<1>5. Typed'
  BY <1>1, <1>2, <1>4, AppendProperties DEF Typed
<1>6. Job(j)'
  BY <1>2, <1>3, <1>4 DEF Job
<1>7. (\A i \in Jobs : Job(i))'
  BY <1>1, <1>2, <1>4, <1>6, OthersStay DEF Apart
<1>8. /\ IsFiniteSet(Active') /\ Cardinality(Active') <= Cardinality(Active)
      /\ Cardinality(Active) \in Nat /\ Cardinality(Active') \in Nat
  BY <1>2, FS_Subset, FS_CardinalityType DEF Scheduled
<1>9. Scheduled'
  <2>1. Cardinality(Active') <= JobsN
    BY <1>8, JobAssumption DEF Scheduled
  <2>2. phase # "exclusive" => \A i \in First : at'[i] = "recorded"
    BY <1>2, JobAssumption DEF Scheduled, First
  <2>3. phase = "exclusive" => Active' \subseteq First /\ \A i, k \in Active' : i = k
    BY <1>2 DEF Scheduled
  <2> QED
    BY <1>1, <1>8, <2>1, <2>2, <2>3 DEF Scheduled, First
<1>10. Covered'
  <2>1. /\ Len(all) \in Nat /\ Len(all') = Len(all) + 1 /\ all'[Len(all) + 1] = j
        /\ \A i \in 1..Len(all) : all'[i] = all[i] /\ all[i] \in Jobs
    BY <1>1, AppendProperties DEF Typed
  <2>2. \A i \in 1..Len(all) : at[all[i]] = "recorded" /\ all[i] # j
    BY <1>1 DEF Covered
  <2>3. \A i \in 1..Len(all') : i \in 1..Len(all) \/ i = Len(all) + 1
    BY <2>1
  <2>4. \A i \in 1..Len(all) : i \in 1..Len(all')
    BY <2>1
  <2>5. \A i \in 1..Len(all') : at'[all'[i]] = "recorded"
    BY <1>2, <2>1, <2>2, <2>3
  <2>6. \A i, k \in 1..Len(all') : all'[i] = all'[k] => i = k
    BY <2>1, <2>2, <2>3 DEF Covered
  <2>7. ASSUME NEW i \in Jobs, at'[i] = "recorded"
        PROVE  \E k \in 1..Len(all') : all'[k] = i
    <3>1. CASE i = j
      <4>1. Len(all) + 1 \in 1..Len(all')
        BY <2>1
      <4> QED
        BY <2>1, <3>1, <4>1
    <3>2. CASE i # j
      <4>1. PICK k \in 1..Len(all) : all[k] = i
        BY <1>2, <2>7, <3>2 DEF Covered
      <4> QED
        BY <2>1, <2>4, <4>1
    <3> QED
      BY <3>1, <3>2
  <2>8. phase' = "summary" => \A i \in Jobs : at'[i] = "recorded"
    BY <1>1, <1>2 DEF Covered
  <2> QED
    BY <2>5, <2>6, <2>7, <2>8 DEF Covered
<1> QED
  BY <1>5, <1>7, <1>9, <1>10

\* main goes on.
LEMMA PhaseKeeps ==
  ASSUME Inv, ExclusiveDone \/ Summarize
  PROVE  Inv'
<1> USE DEF Inv
<1>1. UNCHANGED <<at, run, result, all>>
  BY DEF ExclusiveDone, Summarize
<1>2. Active' = Active
  BY <1>1 DEF Active
<1>3. Typed'
  BY <1>1 DEF Typed, ExclusiveDone, Summarize
<1>4. (\A i \in Jobs : Job(i))'
  BY <1>1 DEF Job
<1>5. Scheduled'
  BY <1>1, <1>2 DEF Scheduled, First, ExclusiveDone, Summarize
<1>6. Covered'
  BY <1>1 DEF Covered, ExclusiveDone, Summarize, AllJoined
<1> QED
  BY <1>3, <1>4, <1>5, <1>6
\* All jobs are queued first.
LEMMA InitIsRight ==
  Init => Inv
<1> SUFFICES ASSUME Init PROVE Inv
  OBVIOUS
<1>1. NewRun \in Runs /\ Counted(NewRun) /\ Quiet(NewRun)
  BY NewRunIsRight
<1>2. Typed
  BY <1>1 DEF Init, Typed, NoResult, Results
<1>3. \A j \in Jobs : Job(j)
  BY <1>1 DEF Init, Job
<1>4. Active = {}
  BY DEF Init, Active
<1>5. JobsN \in Nat /\ 0 <= JobsN
  BY JobAssumption
<1>6. Scheduled
  BY <1>4, <1>5, FS_EmptySet DEF Init, Scheduled
<1>7. Covered
  BY DEF Init, Covered
<1> QED
  BY <1>2, <1>3, <1>6, <1>7 DEF Inv

\* The steps of the calls of a run.
LEMMA CallKeeps ==
  ASSUME Inv, NEW j \in Jobs, NEW who \in Sources(j),
         Counts(j, who) \/ Responds(j, who) \/ Errs(j, who)
  PROVE  Inv'
<1>1. who \in Callers
  BY DEF Sources, Callers, Reporting
<1>2. Typed /\ Job(j) /\ Counted(run[j])
  BY DEF Inv, Job
<1>3. CASE Send(j, who)
  BY <1>1, <1>2, <1>3, SendKeeps, CountingKeeps DEF Send
<1>4. CASE run[j].chat[who].at # "idle"
  <2>1. at[j] = "running"
    BY <1>1, <1>2, <1>4, CallsRun
  <2>2. CASE Answered(j, who)
    BY <1>1, <1>2, <2>1, <2>2, AnsweredKeeps, CountingKeeps
  <2>3. CASE LoadPeak(j, who)
    BY <1>1, <1>2, <2>1, <2>3, LoadPeakKeeps, CountingKeeps
  <2>4. CASE SwapPeak(j, who)
    BY <1>1, <1>2, <2>1, <2>4, SwapPeakKeeps, CountingKeeps
  <2>5. CASE LoadFloor(j, who)
    BY <1>1, <1>2, <2>1, <2>5, LoadFloorKeeps, CountingKeeps
  <2>6. CASE SwapFloor(j, who)
    BY <1>1, <1>2, <2>1, <2>6, SwapFloorKeeps, CountingKeeps
  <2>7. CASE Responds(j, who)
    BY <1>1, <1>2, <2>1, <2>7, RespondsKeeps, CountingKeeps
  <2>8. CASE ErrAbsorbed(j, who)
    BY <1>1, <1>2, <2>1, <2>8, ErrAbsorbedKeeps, CountingKeeps
  <2>9. CASE ErrEnds(j, who)
    BY <1>1, <1>2, <2>1, <2>9, ErrEndsKeeps, ScoredKeeps
  <2> QED
    BY <1>3, <2>2, <2>3, <2>4, <2>5, <2>6, <2>7, <2>8, <2>9 DEF Counts, Errs
<1>5. CASE run[j].chat[who].at = "idle"
  BY <1>3, <1>5 DEF Counts, Answered, LoadPeak, SwapPeak, LoadFloor, SwapFloor, Responds, Errs,
                   ErrAbsorbed, ErrEnds, Err
<1> QED
  BY <1>4, <1>5

\* The invariant is inductive.
LEMMA StepKeeps ==
  Inv /\ [Next]_vars => Inv'
<1> SUFFICES ASSUME Inv, [Next]_vars PROVE Inv'
  OBVIOUS
<1>1. CASE UNCHANGED vars
  <2>1. Typed' /\ (\A j \in Jobs : Job(j))'
    BY <1>1 DEF vars, Inv, Typed, Job
  <2>2. Active' = Active
    BY <1>1 DEF vars, Active
  <2>3. Scheduled' /\ Covered'
    BY <1>1, <2>2 DEF vars, Inv, Scheduled, Covered, First
  <2> QED
    BY <2>1, <2>3 DEF Inv
<1>2. ASSUME NEW j \in Jobs, StartExclusive(j) \/ StartJob(j)
      PROVE  Inv'
  BY <1>2, StartsKeeps
<1>3. ASSUME NEW j \in Jobs, RunOnce(j)
      PROVE  Inv'
  <2>1. Typed /\ Job(j) /\ Counted(run[j])
    BY DEF Inv, Job
  <2>2. CASE SetUp(j)
    BY <2>2, SetUpKeeps
  <2>3. CASE SetUpFails(j)
    BY <2>1, <2>3, SetUpFailsKeeps, ScoredKeeps DEF SetUpFails
  <2>4. CASE \E who \in Sources(j) : Counts(j, who) \/ Responds(j, who) \/ Errs(j, who)
    BY <2>4, CallKeeps
  <2>5. CASE \E err \in BOOLEAN : Ends(j, err)
    <3>1. PICK err \in BOOLEAN : Ends(j, err)
      BY <2>5
    <3>2. at[j] = "running"
      BY <3>1 DEF Ends
    <3> QED
      BY <2>1, <3>1, <3>2, EndsKeeps, ScoredKeeps
  <2>6. CASE Record(j)
    BY <2>6, RecordKeeps
  <2> QED
    BY <1>3, <2>2, <2>3, <2>4, <2>5, <2>6 DEF RunOnce
<1>4. CASE ExclusiveDone \/ Summarize
  BY <1>4, PhaseKeeps
<1> QED
  BY <1>1, <1>2, <1>3, <1>4 DEF Next

\* So it always holds.
LEMMA AlwaysInv ==
  Spec => []Inv
<1> QED
  BY InitIsRight, StepKeeps, PTL DEF Spec

-----------------------------------------------------------------------------
(***************************************************************************)
(* The types, with their bounds.                                           *)
(***************************************************************************)
\* The requests that were sent, and the answers their callers do not know of yet.
Asking(r) == {who \in Callers : r.chat[who].at = "sent"}
Untold(r) == {who \in Callers : r.chat[who].at \notin {"idle", "sent"} /\ ~r.chat[who].err}

OfKind(k, made) == {c \in made : c[1] = k}

\* No more was recorded than answered, and no more answered than asked for.
Tallied(j, r) ==
  /\ IsFiniteSet(Asking(r)) /\ IsFiniteSet(Untold(r))
  /\ r.calls <= MaxRequests[j] /\ r.answered + Cardinality(Asking(r)) <= r.calls
  /\ r.turn <= r.steps /\ r.steps + Cardinality(Untold(r)) <= r.answered
  /\ \A k \in Kinds : Cardinality(OfKind(k, r.made)) + Cardinality(Untold(r)) <= r.answered
  /\ \A c \in r.made : c[2] \in 1..r.answered
  /\ r.sizes \subseteq Sizes[j]
  /\ \A who \in Callers : r.chat[who].at = "sent" => ~r.chat[who].err

\* The sums of Tallied are sums of numbers.
LEMMA Tallies ==
  ASSUME NEW r \in Runs, NEW j \in Jobs, IsFiniteSet(r.made),
         IsFiniteSet(Asking(r)), IsFiniteSet(Untold(r))
  PROVE  /\ Cardinality(Asking(r)) \in Nat /\ Cardinality(Untold(r)) \in Nat
         /\ r.calls \in Nat /\ r.answered \in Nat /\ r.turn \in Nat /\ r.steps \in Nat
         /\ MaxRequests[j] \in Nat
         /\ \A k \in Kinds : Cardinality(OfKind(k, r.made)) \in Nat
<1>1. ASSUME NEW k \in Kinds
      PROVE  Cardinality(OfKind(k, r.made)) \in Nat
  <2>1. OfKind(k, r.made) \in SUBSET r.made
    BY DEF OfKind
  <2> QED
    BY <2>1, FS_Subset, FS_CardinalityType
<1> QED
  BY <1>1, Fields, FS_CardinalityType, JobAssumption

\* Who asks, and who has not been told, once the call of who has become c.
LEMMA Others ==
  ASSUME NEW r \in Runs, NEW q, NEW who \in Callers, NEW c,
         q.chat = [r.chat EXCEPT ![who] = c]
  PROVE  /\ Asking(q) = IF c.at = "sent" THEN Asking(r) \cup {who} ELSE Asking(r) \ {who}
         /\ Untold(q) = IF c.at \notin {"idle", "sent"} /\ ~c.err
                          THEN Untold(r) \cup {who} ELSE Untold(r) \ {who}
<1>1. r.chat \in [Callers -> Chats]
  BY Fields
<1>2. q.chat[who] = c /\ \A w \in Callers \ {who} : q.chat[w] = r.chat[w]
  BY <1>1
<1> QED
  BY <1>2 DEF Asking, Untold

\* One more in a finite set, or one less.
LEMMA OneMore ==
  ASSUME NEW S, IsFiniteSet(S), NEW x
  PROVE  /\ IsFiniteSet(S \cup {x}) /\ IsFiniteSet(S \ {x})
         /\ Cardinality(S) \in Nat
         /\ x \in S => S \cup {x} = S /\ Cardinality(S \ {x}) = Cardinality(S) - 1
         /\ x \notin S => S \ {x} = S /\ Cardinality(S \cup {x}) = Cardinality(S) + 1
BY FS_AddElement, FS_RemoveElement, FS_CardinalityType

\* A request is sent, if the run has one left.
LEMMA SendTallies ==
  ASSUME Typed, NEW j \in Jobs, NEW who \in Callers, Counted(run[j]), Tallied(j, run[j]),
         Send(j, who)
  PROVE  Tallied(j, run'[j])
<1> DEFINE r == run[j]
           q == run'[j]
           c == [Idle EXCEPT !.at = "sent"]
           n == r.calls + 1
           t == [r EXCEPT !.calls = n]
<1>1. r \in Runs /\ IsFiniteSet(r.made) /\ run \in [Jobs -> Runs]
  BY DEF Typed, Counted
<1>2. r.calls \in Nat /\ n \in Nat
  BY <1>1, Fields
<1>3. c \in Chats /\ c.at = "sent" /\ ~c.err
  BY DEF Chats, Idle, Stages
<1>4. Continues(j, who, c, t) /\ r.calls < MaxRequests[j] /\ r.chat[who].at = "idle"
  BY DEF Send, MaySend, InFlight
<1> HIDE DEF c, n
<1>5. /\ t \in Runs /\ t.chat = r.chat /\ t.calls = n /\ t.answered = r.answered
      /\ t.sizes = r.sizes /\ t.made = r.made /\ t.steps = r.steps /\ t.turn = r.turn
  BY <1>1, <1>2 DEF Runs
<1> HIDE DEF t
<1>6. /\ q.chat = [r.chat EXCEPT ![who] = c] /\ q.calls = n /\ q.answered = r.answered
      /\ q.sizes = r.sizes /\ q.made = r.made /\ q.steps = r.steps /\ q.turn = r.turn
  BY <1>1, <1>3, <1>4, <1>5, Continued
<1> HIDE DEF q
<1>7. Asking(q) = Asking(r) \cup {who} /\ Untold(q) = Untold(r) \ {who}
  BY <1>1, <1>3, <1>6, Others
<1>8. who \notin Asking(r) /\ who \notin Untold(r)
  BY <1>4 DEF Asking, Untold
<1>9. Tallied(j, r)
  OBVIOUS
<1> HIDE DEF r
<1>10. /\ IsFiniteSet(Asking(q)) /\ Cardinality(Asking(q)) = Cardinality(Asking(r)) + 1
       /\ Untold(q) = Untold(r)
  BY <1>7, <1>8, <1>9, OneMore DEF Tallied
<1>11. /\ Cardinality(Asking(r)) \in Nat /\ r.answered \in Nat /\ MaxRequests[j] \in Nat
  BY <1>1, <1>9, Tallies DEF Tallied
<1>12. q.calls <= MaxRequests[j] /\ q.answered + Cardinality(Asking(q)) <= q.calls
  BY <1>2, <1>4, <1>6, <1>9, <1>10, <1>11 DEF Tallied, n
<1>13. \A w \in Callers : q.chat[w].at = "sent" => ~q.chat[w].err
  BY <1>1, <1>3, <1>6, <1>9, Fields DEF Tallied
<1>14. Tallied(j, q)
  BY <1>6, <1>9, <1>10, <1>12, <1>13 DEF Tallied
<1> QED
  BY <1>14 DEF q

\* The backend answers, and who asked is about to be told.
LEMMA AnsweredTallies ==
  ASSUME Typed, NEW j \in Jobs, NEW who \in Callers, Counted(run[j]), Tallied(j, run[j]),
         Answered(j, who)
  PROVE  Tallied(j, run'[j])
<1> DEFINE r == run[j]
           q == run'[j]
           s == r.chat[who]
<1>1. r \in Runs /\ IsFiniteSet(r.made) /\ run \in [Jobs -> Runs]
  BY DEF Typed, Counted
<1>2. s.at = "sent"
  BY DEF Answered
<1>3. /\ s \in Chats /\ r.answered \in Nat /\ r.calls \in Nat /\ r.steps \in Nat
      /\ r.sizes \in SUBSET Nat
  BY <1>1, Fields
<1>4. Tallied(j, r) /\ ~s.err
  BY <1>2 DEF Tallied
<1>5. who \in Asking(r) /\ who \notin Untold(r)
  BY <1>2 DEF Asking, Untold
<1>6. /\ IsFiniteSet(Asking(r) \ {who}) /\ IsFiniteSet(Untold(r) \cup {who})
      /\ Cardinality(Asking(r) \ {who}) = Cardinality(Asking(r)) - 1
      /\ Untold(r) \ {who} = Untold(r)
      /\ Cardinality(Untold(r) \cup {who}) = Cardinality(Untold(r)) + 1
  BY <1>4, <1>5, OneMore DEF Tallied
<1>7. /\ Cardinality(Asking(r)) \in Nat /\ Cardinality(Untold(r)) \in Nat
      /\ \A k \in Kinds : Cardinality(OfKind(k, r.made)) \in Nat
  BY <1>1, <1>4, Tallies DEF Tallied
<1>8. CASE Continues(j, who, [s EXCEPT !.at = "peak", !.err = TRUE], r)
  <2> DEFINE c == [s EXCEPT !.at = "peak", !.err = TRUE]
  <2>1. c \in Chats /\ c.at = "peak" /\ c.err
    BY <1>3 DEF Chats, Stages
  <2>2. Continues(j, who, c, r)
    BY <1>8
  <2> HIDE DEF c
  <2>3. /\ q.chat = [r.chat EXCEPT ![who] = c] /\ q.calls = r.calls /\ q.answered = r.answered
        /\ q.sizes = r.sizes /\ q.made = r.made /\ q.steps = r.steps /\ q.turn = r.turn
    BY <1>1, <2>1, <2>2, Continued
  <2> HIDE DEF q, s
  <2>4. Asking(q) = Asking(r) \ {who} /\ Untold(q) = Untold(r) \ {who}
    BY <1>1, <2>1, <2>3, Others
  <2>5. \A w \in Callers : q.chat[w].at = "sent" => ~q.chat[w].err
    BY <1>1, <1>4, <2>1, <2>3, Fields DEF Tallied
  <2> HIDE DEF r
  <2>6. q.answered + Cardinality(Asking(q)) <= q.calls
    BY <1>3, <1>4, <1>6, <1>7, <2>3, <2>4 DEF Tallied
  <2>7. Tallied(j, q)
    BY <1>4, <1>6, <2>3, <2>4, <2>5, <2>6 DEF Tallied
  <2> QED
    BY <2>7 DEF q
<1>9. CASE \E got \in Sizes[j] :
             Continues(j, who, [s EXCEPT !.at = "peak", !.got = got],
                       [r EXCEPT !.answered = @ + 1, !.sizes = @ \cup {got}])
  <2>1. PICK got \in Sizes[j] :
             Continues(j, who, [s EXCEPT !.at = "peak", !.got = got],
                       [r EXCEPT !.answered = @ + 1, !.sizes = @ \cup {got}])
    BY <1>9
  <2>2. got \in Nat
    BY JobAssumption
  <2> DEFINE c == [s EXCEPT !.at = "peak", !.got = got]
             n == r.answered + 1
             z == r.sizes \cup {got}
             t == [r EXCEPT !.answered = n, !.sizes = z]
  <2>3. c \in Chats /\ c.at = "peak" /\ ~c.err
    BY <1>3, <1>4, <2>2 DEF Chats, Stages
  <2>4. Continues(j, who, c, t)
    BY <2>1
  <2>5. n \in Nat /\ n = r.answered + 1 /\ z \in SUBSET Nat
    BY <1>3, <2>2
  <2>6. z \subseteq Sizes[j]
    BY <1>4 DEF Tallied
  <2> HIDE DEF c, n, z
  <2>7. /\ t \in Runs /\ t.chat = r.chat /\ t.calls = r.calls /\ t.answered = n
        /\ t.sizes = z /\ t.made = r.made /\ t.steps = r.steps /\ t.turn = r.turn
    BY <1>1, <2>5 DEF Runs
  <2> HIDE DEF t
  <2>8. /\ q.chat = [r.chat EXCEPT ![who] = c] /\ q.calls = r.calls /\ q.answered = n
        /\ q.sizes = z /\ q.made = r.made /\ q.steps = r.steps /\ q.turn = r.turn
    BY <1>1, <2>3, <2>4, <2>7, Continued
  <2> HIDE DEF q, s
  <2>9. Asking(q) = Asking(r) \ {who} /\ Untold(q) = Untold(r) \cup {who}
    BY <1>1, <2>3, <2>8, Others
  <2>10. \A w \in Callers : q.chat[w].at = "sent" => ~q.chat[w].err
    BY <1>1, <1>4, <2>3, <2>8, Fields DEF Tallied
  <2> HIDE DEF r
  <2>11. /\ q.answered + Cardinality(Asking(q)) <= q.calls
         /\ q.steps + Cardinality(Untold(q)) <= q.answered
    BY <1>3, <1>4, <1>6, <1>7, <2>5, <2>8, <2>9 DEF Tallied
  <2>12. ASSUME NEW k \in Kinds
         PROVE  Cardinality(OfKind(k, q.made)) + Cardinality(Untold(q)) <= q.answered
    BY <1>3, <1>4, <1>6, <1>7, <2>5, <2>8, <2>9 DEF Tallied
  <2>13. \A m \in q.made : m[2] \in 1..q.answered
    BY <1>3, <1>4, <2>5, <2>8 DEF Tallied
  <2>14. Tallied(j, q)
    BY <1>4, <1>6, <2>6, <2>8, <2>9, <2>10, <2>11, <2>12, <2>13 DEF Tallied
  <2> QED
    BY <2>14 DEF q
<1> QED
  BY <1>8, <1>9 DEF Answered

\* Nothing is told while the counters are swapped, and a failed call tells nothing.
LEMMA SameTallies ==
  ASSUME Typed, NEW j \in Jobs, NEW who \in Callers, Counted(run[j]), Tallied(j, run[j]),
         NEW c \in Chats, NEW t \in Runs, t.chat = run[j].chat, t.calls = run[j].calls,
         t.answered = run[j].answered, t.sizes = run[j].sizes, t.made = run[j].made,
         t.steps = run[j].steps, t.turn = run[j].turn,
         run[j].chat[who].at \notin {"idle", "sent"}, c.at # "sent",
         \/ c.at # "idle" /\ c.err = run[j].chat[who].err
         \/ run[j].chat[who].err /\ c.at = "idle",
         Continues(j, who, c, t)
  PROVE  Tallied(j, run'[j])
<1> DEFINE r == run[j]
           q == run'[j]
<1>1. r \in Runs /\ run \in [Jobs -> Runs] /\ Tallied(j, r)
  BY DEF Typed
<1>2. /\ q.chat = [r.chat EXCEPT ![who] = c] /\ q.calls = r.calls /\ q.answered = r.answered
      /\ q.sizes = r.sizes /\ q.made = r.made /\ q.steps = r.steps /\ q.turn = r.turn
  BY <1>1, Continued
<1> HIDE DEF q
<1>3. who \notin Asking(r) /\ (who \in Untold(r) <=> ~r.chat[who].err)
  BY DEF Asking, Untold
<1>4. /\ Asking(q) = Asking(r) \ {who}
      /\ Untold(q) = IF c.at # "idle" /\ ~c.err THEN Untold(r) \cup {who} ELSE Untold(r) \ {who}
  BY <1>1, <1>2, Others
<1>5. \A w \in Callers : q.chat[w].at = "sent" => ~q.chat[w].err
  BY <1>1, <1>2, Fields DEF Tallied
<1>6. \/ c.at # "idle" /\ c.err = r.chat[who].err
      \/ c.at = "idle" /\ r.chat[who].err
  OBVIOUS
<1> HIDE DEF r
<1>7. Asking(q) = Asking(r)
  BY <1>3, <1>4
<1>8. Untold(q) = Untold(r)
  <2>1. CASE r.chat[who].err
    <3>1. who \notin Untold(r) /\ Untold(q) = Untold(r) \ {who}
      BY <1>3, <1>4, <1>6, <2>1
    <3> QED
      BY <3>1
  <2>2. CASE ~r.chat[who].err
    <3>1. who \in Untold(r) /\ Untold(q) = Untold(r) \cup {who}
      BY <1>3, <1>4, <1>6, <2>2
    <3> QED
      BY <3>1
  <2> QED
    BY <2>1, <2>2
<1>9. Tallied(j, q)
  BY <1>1, <1>2, <1>5, <1>7, <1>8 DEF Tallied
<1> QED
  BY <1>9 DEF q

\* The counters are swapped.
LEMMA SwapsTally ==
  ASSUME Typed, NEW j \in Jobs, NEW who \in Callers, Counted(run[j]), Tallied(j, run[j]),
         \/ LoadPeak(j, who) \/ SwapPeak(j, who)
         \/ LoadFloor(j, who) \/ SwapFloor(j, who)
  PROVE  Tallied(j, run'[j])
<1> DEFINE r == run[j]
           s == r.chat[who]
           Kept(c) == c \in Chats /\ c.at \notin {"idle", "sent"} /\ c.err = s.err
           Same(t) ==
             /\ t \in Runs /\ t.chat = r.chat /\ t.calls = r.calls /\ t.answered = r.answered
             /\ t.sizes = r.sizes /\ t.made = r.made /\ t.steps = r.steps /\ t.turn = r.turn
<1>1. r \in Runs /\ s \in Chats /\ s.at \in Stages /\ s.got \in Nat
      /\ r.peak \in Nat /\ r.floor \in Nat
  BY Fields DEF Typed
<1>2. s.at \notin {"idle", "sent"}
  BY DEF LoadPeak, SwapPeak, LoadFloor, SwapFloor
<1>3. ASSUME NEW stage \in Stages \ {"idle", "sent"}, NEW saw \in Nat
      PROVE  Kept([s EXCEPT !.at = stage]) /\ Kept([s EXCEPT !.saw = saw, !.at = stage])
  BY <1>1, <1>3 DEF Chats
<1>4. Same(r) /\ Same([r EXCEPT !.peak = s.got]) /\ Same([r EXCEPT !.floor = s.got])
  BY <1>1 DEF Runs
<1>5. \A got \in Nat : AfterPeak(got) \in Stages \ {"idle", "sent"}
  BY DEF AfterPeak, Stages
<1>6. {"done", "peak", "floor", "swap peak", "swap floor"} \subseteq Stages \ {"idle", "sent"}
  BY DEF Stages
<1>7. ASSUME NEW c, NEW t, Kept(c), Same(t), Continues(j, who, c, t)
      PROVE  Tallied(j, run'[j])
  BY <1>2, <1>7, SameTallies
<1> HIDE DEF Kept, Same
<1>8. CASE LoadPeak(j, who)
  <2> DEFINE stage == IF s.got <= r.peak THEN AfterPeak(s.got) ELSE "swap peak"
  <2>1. stage \in Stages \ {"idle", "sent"}
    BY <1>1, <1>5, <1>6
  <2>2. Continues(j, who, [s EXCEPT !.saw = r.peak, !.at = stage], r)
    BY <1>8 DEF LoadPeak
  <2> HIDE DEF stage, s, r
  <2> QED
    BY <1>1, <1>3, <1>4, <1>7, <2>1, <2>2
<1>9. CASE SwapPeak(j, who)
  <2> DEFINE stage == AfterPeak(s.got)
  <2>1. stage \in Stages \ {"idle", "sent"} /\ "peak" \in Stages \ {"idle", "sent"}
    BY <1>1, <1>5, <1>6
  <2>2. \/ Continues(j, who, [s EXCEPT !.at = stage], [r EXCEPT !.peak = s.got])
        \/ Continues(j, who, [s EXCEPT !.at = "peak"], r)
    BY <1>9 DEF SwapPeak
  <2>3. Kept([s EXCEPT !.at = stage]) /\ Kept([s EXCEPT !.at = "peak"])
    BY <1>1, <1>3, <2>1
  <2> HIDE DEF stage
  <2> QED
    BY <1>4, <1>7, <2>2, <2>3
<1>10. CASE LoadFloor(j, who)
  <2> DEFINE stage == IF Settled(r.floor, s.got) THEN "done" ELSE "swap floor"
  <2>1. stage \in Stages \ {"idle", "sent"}
    BY <1>6
  <2>2. Continues(j, who, [s EXCEPT !.saw = r.floor, !.at = stage], r)
    BY <1>10 DEF LoadFloor
  <2> HIDE DEF stage, s, r
  <2> QED
    BY <1>1, <1>3, <1>4, <1>7, <2>1, <2>2
<1>11. CASE SwapFloor(j, who)
  <2>1. \/ Continues(j, who, [s EXCEPT !.at = "done"], [r EXCEPT !.floor = s.got])
        \/ Continues(j, who, [s EXCEPT !.at = "floor"], r)
    BY <1>11 DEF SwapFloor
  <2>2. Kept([s EXCEPT !.at = "done"]) /\ Kept([s EXCEPT !.at = "floor"])
    BY <1>1, <1>3, <1>6
  <2> QED
    BY <1>4, <1>7, <2>1, <2>2
<1> QED
  BY <1>8, <1>9, <1>10, <1>11

\* A recorded step adds at most one call of a kind, with the next number of its kind.
LEMMA Numbers ==
  ASSUME NEW r \in Runs, NEW kinds \in SUBSET Kinds, NEW turn \in Nat, IsFiniteSet(r.made)
  PROVE  LET t == Recorded(r, kinds, turn)
         IN  /\ t.turn = turn /\ t.answered = r.answered
             /\ t.steps = IF turn > r.steps THEN turn ELSE r.steps
             /\ \A c \in t.made :
                  c \in r.made \/ \E k \in Kinds : c[2] = Cardinality(OfKind(k, r.made)) + 1
             /\ \A k \in Kinds :
                  Cardinality(OfKind(k, t.made)) <= Cardinality(OfKind(k, r.made)) + 1
<1> DEFINE Nth(k) == Cardinality(OfKind(k, r.made)) + 1
           made == r.made \cup {<<k, Nth(k)>> : k \in kinds}
           steps == IF turn > r.steps THEN turn ELSE r.steps
           t == Recorded(r, kinds, turn)
<1>1. t = [r EXCEPT !.turn = turn, !.steps = steps, !.made = made]
  BY DEF Recorded, OfKind
<1>2. /\ t.turn = turn /\ t.answered = r.answered /\ t.steps = steps /\ t.made = made
  BY <1>1 DEF Runs
<1> HIDE DEF t
<1>3. \A c \in made : c \in r.made \/ \E k \in Kinds : c[2] = Nth(k)
  OBVIOUS
<1>4. ASSUME NEW k \in Kinds
      PROVE  Cardinality(OfKind(k, made)) <= Cardinality(OfKind(k, r.made)) + 1
  <2> DEFINE S == OfKind(k, r.made)
             x == <<k, Nth(k)>>
  <2>1. IsFiniteSet(S)
    BY FS_Subset DEF OfKind
  <2>2. /\ Cardinality(S) \in Nat
        /\ S \cup {x} = S \/ Cardinality(S \cup {x}) = Cardinality(S) + 1
    <3> HIDE DEF S, x
    <3> QED
      BY <2>1, OneMore
  <2> HIDE DEF Nth
  <2>3. \A c \in made : c \in r.made \/ \E i \in kinds : c = <<i, Nth(i)>>
    OBVIOUS
  <2>4. \A i \in kinds : <<i, Nth(i)>> \in made
    OBVIOUS
  <2>5. r.made \subseteq made
    OBVIOUS
  <2> HIDE DEF made
  <2>6. OfKind(k, made) = S \cup {x} \/ OfKind(k, made) = S
    <3> HIDE DEF Nth
    <3>1. \A c \in S : c \in made /\ c[1] = k
      BY <2>5 DEF OfKind
    <3>2. \A c \in OfKind(k, made) : c \in S \/ (k \in kinds /\ c = x)
      <4>1. SUFFICES ASSUME NEW c \in OfKind(k, made), c \notin S
                     PROVE  k \in kinds /\ c = x
        OBVIOUS
      <4>2. c \in made /\ c[1] = k /\ c \notin r.made
        BY <4>1 DEF OfKind
      <4>3. PICK i \in kinds : c = <<i, Nth(i)>>
        BY <2>3, <4>2
      <4>4. i = k
        BY <4>2, <4>3
      <4> QED
        BY <4>3, <4>4
    <3>3. CASE k \in kinds
      <4>1. x \in made /\ x[1] = k
        BY <2>4, <3>3
      <4>2. x \in OfKind(k, made) /\ S \subseteq OfKind(k, made)
        BY <3>1, <4>1 DEF OfKind
      <4> HIDE DEF S, x
      <4> QED
        BY <3>2, <4>2
    <3>4. CASE k \notin kinds
      <4>1. S \subseteq OfKind(k, made)
        BY <3>1 DEF OfKind
      <4> HIDE DEF S, x
      <4> QED
        BY <3>2, <3>4, <4>1
    <3> QED
      BY <3>3, <3>4
  <2> HIDE DEF S, x
  <2>7. Cardinality(OfKind(k, made)) <= Cardinality(S) + 1
    <3> DEFINE more == S \cup {x}
               n == Cardinality(S)
               these == OfKind(k, made)
    <3>1. n \in Nat /\ (more = S \/ Cardinality(more) = n + 1) /\ (these = more \/ these = S)
      BY <2>2, <2>6
    <3>2. Cardinality(these) = n \/ Cardinality(these) = n + 1
      <4> HIDE DEF more, these
      <4> QED
        BY <3>1
    <3>3. n <= n + 1 /\ n + 1 <= n + 1
      <4> HIDE DEF n
      <4> QED
        BY <3>1
    <3> HIDE DEF n, these
    <3>4. Cardinality(these) <= n + 1
      BY <3>2, <3>3
    <3> QED
      BY <3>4 DEF n, these
  <2> QED
    BY <2>7 DEF S
<1> QED
  BY <1>2, <1>3, <1>4 DEF t

\* The caller is told, and the recorder may note a step.
LEMMA RespondsTallies ==
  ASSUME Typed, NEW j \in Jobs, NEW who \in Callers, Counted(run[j]), Tallied(j, run[j]),
         Responds(j, who)
  PROVE  Tallied(j, run'[j])
<1>1. PICK kinds \in SUBSET Kinds, anew \in BOOLEAN :
        LET r == [run[j] EXCEPT !.used = @ \cup kinds]
        IN  /\ anew => r.turn > 0
            /\ Continues(j, who, Idle, IF who \in Reporting
                 THEN Recorded(r, kinds, IF anew THEN 1 ELSE r.turn + 1) ELSE r)
  BY DEF Responds
<1> DEFINE u == run[j].used \cup kinds
           o == run[j]
           q == run'[j]
           r == [run[j] EXCEPT !.used = u]
           turn == IF anew THEN 1 ELSE r.turn + 1
           t == IF who \in Reporting THEN Recorded(r, kinds, turn) ELSE r
<1>2. o \in Runs /\ o.used \in SUBSET Kinds /\ IsFiniteSet(o.made) /\ run \in [Jobs -> Runs]
  BY Fields DEF Typed, Counted
<1>3. u \in SUBSET Kinds
  BY <1>2
<1>4. Continues(j, who, Idle, t) /\ (anew => r.turn > 0)
  BY <1>1
<1> HIDE DEF u
<1>5. /\ r \in Runs /\ r.chat = o.chat /\ r.calls = o.calls /\ r.sizes = o.sizes
      /\ r.made = o.made /\ r.answered = o.answered /\ r.steps = o.steps /\ r.turn = o.turn
  BY <1>2, <1>3 DEF Runs
<1> HIDE DEF r
<1>6. turn \in Nat /\ o.turn \in Nat /\ o.steps \in Nat /\ o.answered \in Nat
  BY <1>2, <1>5, Fields
<1>7. turn <= o.turn + 1
  BY <1>4, <1>5, <1>6
<1> HIDE DEF turn
<1>8. /\ t \in Runs /\ t.chat = o.chat /\ t.calls = o.calls /\ t.sizes = o.sizes
      /\ t.answered = o.answered
      /\ \A c \in t.made :
           c \in o.made \/ \E k \in Kinds : c[2] = Cardinality(OfKind(k, o.made)) + 1
      /\ \A k \in Kinds : Cardinality(OfKind(k, t.made)) <= Cardinality(OfKind(k, o.made)) + 1
  <2>1. CASE who \in Reporting
    <3>1. t = Recorded(r, kinds, turn) /\ IsFiniteSet(r.made)
      BY <1>2, <1>5, <2>1
    <3> HIDE DEF t
    <3>2. t \in Runs /\ t.chat = r.chat /\ t.calls = r.calls /\ t.sizes = r.sizes
      BY <1>5, <1>6, <3>1, Recording
    <3>3. /\ t.answered = r.answered
          /\ \A c \in t.made :
               c \in r.made \/ \E k \in Kinds : c[2] = Cardinality(OfKind(k, r.made)) + 1
          /\ \A k \in Kinds :
               Cardinality(OfKind(k, t.made)) <= Cardinality(OfKind(k, r.made)) + 1
      BY <1>5, <1>6, <3>1, Numbers
    <3> QED
      BY <1>5, <3>2, <3>3
  <2>2. CASE who \notin Reporting
    <3>1. \A k \in Kinds : Cardinality(OfKind(k, o.made)) \in Nat
      BY <1>2, FS_Subset, FS_CardinalityType DEF OfKind
    <3>2. t = r
      BY <2>2
    <3> QED
      BY <1>5, <3>1, <3>2
  <2> QED
    BY <2>1, <2>2
<1>10. Tallied(j, o)
  OBVIOUS
<1>11. t.turn \in Nat /\ t.steps \in Nat /\ t.turn <= t.steps /\ t.steps <= o.steps + 1
  <2>1. o.turn <= o.steps
    BY <1>10 DEF Tallied
  <2>2. CASE who \in Reporting
    <3>1. t = Recorded(r, kinds, turn) /\ IsFiniteSet(r.made)
      BY <1>2, <1>5, <2>2
    <3> HIDE DEF t
    <3>2. t.turn = turn /\ t.steps = IF turn > r.steps THEN turn ELSE r.steps
      BY <1>5, <1>6, <3>1, Numbers
    <3>3. t.turn = turn /\ t.steps = IF turn > o.steps THEN turn ELSE o.steps
      BY <1>5, <3>2
    <3> QED
      BY <1>6, <1>7, <2>1, <3>3
  <2>3. CASE who \notin Reporting
    BY <1>5, <1>6, <2>1, <2>3
  <2> QED
    BY <2>2, <2>3
<1> HIDE DEF t
<1>12. Idle \in Chats /\ Idle.at = "idle"
  BY DEF Chats, Idle, Stages
<1>13. /\ q.chat = [o.chat EXCEPT ![who] = Idle] /\ q.calls = o.calls
       /\ q.answered = o.answered /\ q.sizes = o.sizes /\ q.made = t.made
       /\ q.steps = t.steps /\ q.turn = t.turn
  BY <1>2, <1>4, <1>8, <1>12, Continued
<1>14. o.chat[who].at = "done" /\ ~o.chat[who].err
  BY DEF Responds
<1> HIDE DEF q
<1>15. Asking(q) = Asking(o) \ {who} /\ Untold(q) = Untold(o) \ {who}
  BY <1>2, <1>12, <1>13, Others
<1>16. who \notin Asking(o) /\ who \in Untold(o)
  BY <1>14 DEF Asking, Untold
<1>17. \A w \in Callers : q.chat[w].at = "sent" => ~q.chat[w].err
  BY <1>2, <1>10, <1>12, <1>13, Fields DEF Tallied
<1> HIDE DEF o
<1>18. /\ Asking(q) = Asking(o) /\ IsFiniteSet(Untold(q))
       /\ Cardinality(Untold(q)) = Cardinality(Untold(o)) - 1
  BY <1>10, <1>15, <1>16, OneMore DEF Tallied
<1>19. /\ Cardinality(Untold(o)) \in Nat
       /\ \A k \in Kinds : Cardinality(OfKind(k, o.made)) \in Nat
  BY <1>2, <1>10, Tallies DEF Tallied
<1>20. q.steps + Cardinality(Untold(q)) <= q.answered
  BY <1>6, <1>10, <1>11, <1>13, <1>18, <1>19 DEF Tallied
<1>21. Cardinality(Untold(o)) > 0
  BY <1>10, <1>16, <1>19, FS_EmptySet DEF Tallied
<1>22. ASSUME NEW k \in Kinds
       PROVE  /\ Cardinality(OfKind(k, q.made)) + Cardinality(Untold(q)) <= q.answered
              /\ Cardinality(OfKind(k, o.made)) + 1 \in 1..q.answered
  <2>1. Cardinality(OfKind(k, o.made)) + Cardinality(Untold(o)) <= o.answered
    BY <1>10 DEF Tallied
  <2>2. Cardinality(OfKind(k, t.made)) <= Cardinality(OfKind(k, o.made)) + 1
    BY <1>8
  <2>3. Cardinality(OfKind(k, t.made)) \in Nat
    <3>1. IsFiniteSet(q.made)
      BY <1>13, RespondsKeeps DEF Counting, Counted, q
    <3> QED
      BY <1>13, <3>1, FS_Subset, FS_CardinalityType DEF OfKind
  <2> QED
    BY <1>6, <1>13, <1>18, <1>19, <1>21, <2>1, <2>2, <2>3
<1>23. \A c \in q.made : c[2] \in 1..q.answered
  BY <1>8, <1>10, <1>13, <1>22 DEF Tallied
<1>24. Tallied(j, q)
  BY <1>10, <1>11, <1>13, <1>17, <1>18, <1>20, <1>22, <1>23 DEF Tallied
<1> QED
  BY <1>24 DEF q

\* A run that ended keeps its tallies with its chat, and so does one with an error.
LEMMA EndedTallies ==
  ASSUME NEW r, NEW q, NEW j, Tallied(j, r), q.chat = r.chat, q.calls = r.calls,
         q.answered = r.answered, q.sizes = r.sizes, q.made = r.made, q.steps = r.steps,
         q.turn = r.turn
  PROVE  Tallied(j, q)
<1>1. Asking(q) = Asking(r) /\ Untold(q) = Untold(r)
  BY DEF Asking, Untold
<1> QED
  BY <1>1 DEF Tallied

\* The score adds nothing to the tallies.
LEMMA ScoreTallies ==
  ASSUME Typed, NEW j \in Jobs, NEW r \in Runs, Tallied(j, r), NEW err \in BOOLEAN,
         Score(j, r, err)
  PROVE  Tallied(j, run'[j]) /\ \A i \in Jobs \ {j} : run'[i] = run[i]
<1>1. PICK verified \in {TRUE, ~ProbeOf[j].verify}, hits \in SUBSET Patterns(ProbeOf[j]) :
        Scores(j, [r EXCEPT !.runError = err, !.verified = verified, !.hits = hits])
  BY DEF Score
<1> DEFINE q == [r EXCEPT !.runError = err, !.verified = verified, !.hits = hits]
<1>2. /\ q.chat = r.chat /\ q.calls = r.calls /\ q.answered = r.answered
      /\ q.sizes = r.sizes /\ q.made = r.made /\ q.steps = r.steps /\ q.turn = r.turn
  BY DEF Runs
<1>3. run' = [run EXCEPT ![j] = q]
  BY <1>1 DEF Scores
<1> HIDE DEF q
<1>4. run'[j] = q /\ \A i \in Jobs \ {j} : run'[i] = run[i]
  BY <1>3 DEF Typed
<1> QED
  BY <1>2, <1>4, EndedTallies

\* An error is told, to the run or to its subagent.
LEMMA ErrsTally ==
  ASSUME Typed, NEW j \in Jobs, NEW who \in Callers, Counted(run[j]), Tallied(j, run[j]),
         Errs(j, who)
  PROVE  Tallied(j, run'[j])
<1>1. run[j].chat[who].at = "done" /\ run[j].chat[who].err
  BY DEF Errs, ErrAbsorbed, ErrEnds, Err
<1>2. run[j] \in Runs
  BY DEF Typed
<1>3. Idle \in Chats /\ Idle.at = "idle"
  BY DEF Chats, Idle, Stages
<1>4. CASE ErrAbsorbed(j, who)
  <2>1. Continues(j, who, Idle, run[j])
    BY <1>4 DEF ErrAbsorbed
  <2> QED
    BY <1>1, <1>2, <1>3, <2>1, SameTallies
<1>5. CASE ErrEnds(j, who)
  <2> DEFINE r == run[j]
             q == [run[j] EXCEPT !.chat[who] = Idle]
  <2>1. Score(j, q, TRUE)
    BY <1>5 DEF ErrEnds
  <2>2. /\ q \in Runs /\ q.chat = [r.chat EXCEPT ![who] = Idle]
        /\ q.calls = r.calls /\ q.answered = r.answered /\ q.sizes = r.sizes
        /\ q.made = r.made /\ q.steps = r.steps /\ q.turn = r.turn
    BY <1>2, <1>3, Replaced
  <2> HIDE DEF q
  <2>3. who \notin Asking(r) /\ who \notin Untold(r)
    BY <1>1 DEF Asking, Untold
  <2>4. Asking(q) = Asking(r) /\ Untold(q) = Untold(r)
    <3>1. Asking(q) = Asking(r) \ {who} /\ Untold(q) = Untold(r) \ {who}
      BY <1>2, <1>3, <2>2, Others
    <3> QED
      BY <2>3, <3>1
  <2>5. \A w \in Callers : q.chat[w].at = "sent" => ~q.chat[w].err
    BY <1>2, <1>3, <2>2, Fields DEF Tallied
  <2>6. Tallied(j, r)
    OBVIOUS
  <2> HIDE DEF r
  <2>7. Tallied(j, q)
    BY <2>2, <2>4, <2>5, <2>6 DEF Tallied
  <2> QED
    BY <2>1, <2>2, <2>7, ScoreTallies
<1> QED
  BY <1>4, <1>5 DEF Errs

\* A run that has not begun has nothing to tally.
LEMMA NothingTallied ==
  ASSUME NEW j \in Jobs
  PROVE  Tallied(j, NewRun)
<1>1. Idle.at = "idle"
  BY DEF Idle
<1>2. /\ NewRun.calls = 0 /\ NewRun.answered = 0 /\ NewRun.sizes = {} /\ NewRun.made = {}
      /\ NewRun.steps = 0 /\ NewRun.turn = 0 /\ \A c \in Callers : NewRun.chat[c] = Idle
  BY DEF NewRun
<1>3. Asking(NewRun) = {} /\ Untold(NewRun) = {} /\ \A k \in Kinds : OfKind(k, {}) = {}
  BY <1>1, <1>2 DEF Asking, Untold, OfKind
<1>4. MaxRequests[j] >= 0
  BY JobAssumption
<1> QED
  BY <1>1, <1>2, <1>3, <1>4, FS_EmptySet DEF Tallied

\* Every step keeps the tallies of every run.
LEMMA StepTallies ==
  ASSUME Inv, [Next]_vars, \A j \in Jobs : Tallied(j, run[j])
  PROVE  \A j \in Jobs : Tallied(j, run'[j])
<1>1. Typed /\ \A j \in Jobs : Job(j) /\ Counted(run[j])
  BY DEF Inv, Job
<1>2. ASSUME NEW j \in Jobs, Tallied(j, run'[j]), \A i \in Jobs \ {j} : run'[i] = run[i]
      PROVE  \A i \in Jobs : Tallied(i, run'[i])
  <2>1. ASSUME NEW i \in Jobs, i # j
        PROVE  Tallied(i, run'[i])
    <3>1. run'[i] = run[i] /\ Tallied(i, run[i])
      BY <1>2, <2>1
    <3> QED
      BY <3>1
  <2> QED
    BY <1>2, <2>1
<1>3. CASE UNCHANGED run
  BY <1>3
<1>4. ASSUME NEW j \in Jobs, NEW who \in Sources(j),
             Counts(j, who) \/ Responds(j, who) \/ Errs(j, who)
      PROVE  \A i \in Jobs : Tallied(i, run'[i])
  <2>1. who \in Callers
    BY DEF Sources, Callers, Reporting
  <2>2. Tallied(j, run'[j])
    <3>1. Counted(run[j]) /\ Tallied(j, run[j])
      BY <1>1
    <3>2. CASE Counts(j, who)
      BY <1>1, <2>1, <3>1, <3>2, SendTallies, AnsweredTallies, SwapsTally DEF Counts
    <3>3. CASE Responds(j, who)
      BY <1>1, <2>1, <3>1, <3>3, RespondsTallies
    <3>4. CASE Errs(j, who)
      BY <1>1, <2>1, <3>1, <3>4, ErrsTally
    <3> QED
      BY <1>4, <3>2, <3>3, <3>4
  <2>3. \A i \in Jobs \ {j} : run'[i] = run[i]
    <3>1. ASSUME NEW c, NEW r, Continues(j, who, c, r)
          PROVE  \A i \in Jobs \ {j} : run'[i] = run[i]
      BY <1>1, <3>1 DEF Typed, Continues
    <3>2. ASSUME NEW r, NEW err, Score(j, r, err)
          PROVE  \A i \in Jobs \ {j} : run'[i] = run[i]
      BY <1>1, <3>2 DEF Typed, Score, Scores
    <3>3. CASE Send(j, who) \/ Answered(j, who)
      BY <3>1, <3>3 DEF Send, Answered
    <3>4. CASE LoadPeak(j, who) \/ SwapPeak(j, who)
      BY <3>1, <3>4 DEF LoadPeak, SwapPeak
    <3>5. CASE LoadFloor(j, who) \/ SwapFloor(j, who)
      BY <3>1, <3>5 DEF LoadFloor, SwapFloor
    <3>6. CASE Responds(j, who)
      BY <3>1, <3>6 DEF Responds
    <3>7. CASE Errs(j, who)
      BY <3>1, <3>2, <3>7 DEF Errs, ErrAbsorbed, ErrEnds
    <3> QED
      BY <1>4, <3>3, <3>4, <3>5, <3>6, <3>7 DEF Counts
  <2> QED
    BY <1>2, <2>2, <2>3
<1>5. ASSUME NEW j \in Jobs, NEW err \in BOOLEAN, Ends(j, err)
      PROVE  \A i \in Jobs : Tallied(i, run'[i])
  <2>1. Score(j, run[j], err) /\ run[j] \in Runs
    BY <1>1, <1>5 DEF Ends, Typed
  <2> QED
    BY <1>1, <1>2, <2>1, ScoreTallies
<1>6. ASSUME NEW j \in Jobs, SetUpFails(j)
      PROVE  \A i \in Jobs : Tallied(i, run'[i])
  <2> DEFINE q == [run[j] EXCEPT !.runError = TRUE]
  <2>1. run[j] \in Runs
    BY <1>1 DEF Typed
  <2>2. /\ q.chat = run[j].chat /\ q.calls = run[j].calls /\ q.answered = run[j].answered
        /\ q.sizes = run[j].sizes /\ q.made = run[j].made /\ q.steps = run[j].steps
        /\ q.turn = run[j].turn
    BY <2>1 DEF Runs
  <2>3. run'[j] = q /\ \A i \in Jobs \ {j} : run'[i] = run[i]
    BY <1>1, <1>6 DEF SetUpFails, Typed
  <2> HIDE DEF q
  <2> QED
    BY <1>2, <2>2, <2>3, EndedTallies
<1>7. ASSUME NEW j \in Jobs, Record(j)
      PROVE  \A i \in Jobs : Tallied(i, run'[i])
  <2>1. run'[j] = NewRun /\ \A i \in Jobs \ {j} : run'[i] = run[i]
    BY <1>1, <1>7 DEF Record, Typed
  <2> QED
    BY <1>2, <2>1, NothingTallied
<1>8. ASSUME NEW j \in Jobs, RunOnce(j)
      PROVE  \A i \in Jobs : Tallied(i, run'[i])
  BY <1>3, <1>4, <1>5, <1>6, <1>7, <1>8 DEF RunOnce, SetUp
<1>9. CASE ExclusiveDone \/ Summarize \/ UNCHANGED vars
  BY <1>3, <1>9 DEF ExclusiveDone, Summarize, vars
<1>10. ASSUME NEW j \in Jobs, StartExclusive(j) \/ StartJob(j)
       PROVE  \A i \in Jobs : Tallied(i, run'[i])
  BY <1>3, <1>10 DEF StartExclusive, StartJob
<1> QED
  BY <1>8, <1>9, <1>10 DEF Next

\* No more jobs are recorded than there are.
LEMMA RecordedOnce ==
  ASSUME Inv
  PROVE  Len(all) <= Cardinality(Jobs)
<1> DEFINE S == 1..Len(all)
           f == [i \in S |-> all[i]]
<1>1. all \in Seq(Jobs) /\ \A i, k \in S : all[i] = all[k] => i = k
  BY DEF Inv, Typed, Covered
<1>2. f \in Injection(S, Jobs)
  BY <1>1 DEF Injection, IsInjective
<1>3. IsFiniteSet(Jobs)
  BY JobAssumption
<1>4. IsFiniteSet(S) /\ Cardinality(S) <= Cardinality(Jobs)
  BY <1>2, <1>3, FS_Injection
<1>5. Len(all) \in Nat
  BY <1>1
<1>6. Cardinality(S) = Len(all)
  <2>1. ASSUME NEW n \in Nat
        PROVE  Cardinality(1..n) = IF 1 > n THEN 0 ELSE n - 1 + 1
    BY FS_Interval
  <2>2. \A n \in Nat : Cardinality(1..n) = n
    BY <2>1
  <2> QED
    BY <1>5, <2>2
<1> QED
  BY <1>4, <1>6

-----------------------------------------------------------------------------
(***************************************************************************)
(* The theorems.                                                           *)
(***************************************************************************)
\* "Exclusive probes first and alone" (main of cmd/eval): while one runs nothing
\* else does, and never more jobs run than -jobs.
THEOREM ExclusiveIsAlone ==
  Spec => []ExclusiveRunsAlone
<1>1. Inv => ExclusiveRunsAlone
  <2> SUFFICES ASSUME Inv PROVE ExclusiveRunsAlone
    OBVIOUS
  <2>1. Scheduled /\ Cardinality(Active) <= JobsN /\ IsFiniteSet(Active)
    BY DEF Inv, Scheduled
  <2>2. ASSUME NEW j \in Active \cap Exclusive
        PROVE  Active = {j}
    <3>1. CASE JobsN > 1
      <4>1. j \in First /\ at[j] # "recorded"
        BY <3>1 DEF First, Active
      <4>2. phase = "exclusive"
        BY <2>1, <4>1 DEF Scheduled
      <4>3. \A i, k \in Active : i = k
        BY <2>1, <4>2 DEF Scheduled
      <4> QED
        BY <4>3
    <3>2. CASE ~(JobsN > 1)
      <4>1. {j} \in SUBSET Active
        OBVIOUS
      <4>2. /\ Cardinality({j}) <= Cardinality(Active) /\ Cardinality({j}) = 1
            /\ (Cardinality(Active) = Cardinality({j}) => Active = {j})
        BY <2>1, <4>1, FS_Subset, FS_Singleton
      <4>3. PICK n \in Nat : n = Cardinality(Active)
        BY <2>1, FS_CardinalityType
      <4>4. PICK most \in Nat : most = JobsN /\ most <= 1
        BY <3>2, JobAssumption
      <4>5. n <= most /\ 1 <= n
        BY <2>1, <4>2, <4>3, <4>4
      <4>6. n = 1
        BY <4>4, <4>5
      <4> QED
        BY <4>2, <4>3, <4>6
    <3> QED
      BY <3>1, <3>2
  <2> QED
    BY <2>1, <2>2 DEF ExclusiveRunsAlone
<1> QED
  BY <1>1, AlwaysInv, PTL

\* When main computes the rate, every job was recorded, each once, and none is
\* still at work.
THEOREM SummaryIsOfAll ==
  Spec => []SummaryCoversAll
<1>1. Inv => SummaryCoversAll
  <2> SUFFICES ASSUME Inv, phase = "summary"
               PROVE  /\ \A j \in Jobs : Cardinality({i \in DOMAIN all : all[i] = j}) = 1
                      /\ Active = {}
    BY DEF SummaryCoversAll
  <2>1. Covered /\ DOMAIN all = 1..Len(all)
    BY DEF Inv, Typed
  <2>2. Active = {}
    BY <2>1 DEF Covered, Active
  <2>3. ASSUME NEW j \in Jobs
        PROVE  Cardinality({i \in DOMAIN all : all[i] = j}) = 1
    <3>1. PICK k \in 1..Len(all) : all[k] = j
      BY <2>1 DEF Covered
    <3>2. {i \in DOMAIN all : all[i] = j} = {k}
      BY <2>1, <3>1 DEF Covered
    <3> QED
      BY <3>2, FS_Singleton
  <2> QED
    BY <2>2, <2>3
<1> QED
  BY <1>1, AlwaysInv, PTL

\* What runOnce says of a run is what the run did: a pass did all its probe asks,
\* a failure has a reason, and what is excluded as errored got no answer.
THEOREM ScoresAreHonest ==
  Spec => []ScoreIsHonest
<1>1. Inv => ScoreIsHonest
  <2> SUFFICES ASSUME Inv, NEW j \in Jobs, at[j] = "scored"
               PROVE  LET r == run[j]
                      IN /\ result[j].passed => /\ r.answered > 0 /\ ~r.runError
                                                /\ r.verified /\ AsAsked(ProbeOf[j], r)
                         /\ result[j].errored => r.answered = 0
                         /\ ~result[j].passed /\ ~result[j].errored =>
                              r.runError \/ ~r.verified \/ ~AsAsked(ProbeOf[j], r)
    BY DEF ScoreIsHonest
  <2>1. Honest(ProbeOf[j], run[j], result[j])
    BY DEF Inv, Job
  <2> QED
    BY <2>1 DEF Honest
<1> QED
  BY <1>1, AlwaysInv, PTL

\* countingClient's counters are exact once the run is over, whatever subagents
\* swapped them at once.
THEOREM PromptRangesAreExact ==
  Spec => []PromptRangeIsExact
<1>1. Inv => PromptRangeIsExact
  <2> SUFFICES ASSUME Inv, NEW j \in Jobs, at[j] = "scored"
               PROVE  /\ run[j].peak = Max(run[j].sizes \cup {0})
                      /\ run[j].floor = IF run[j].sizes \ {0} = {} THEN 0
                                        ELSE Min(run[j].sizes \ {0})
    BY DEF PromptRangeIsExact
  <2> DEFINE r == run[j]
  <2>1. Job(j) /\ r \in Runs
    BY DEF Inv, Typed
  <2>2. Quiet(r) /\ Peaked(r) /\ Floored(r)
    BY <2>1 DEF Job, Counted
  <2>3. \A who \in Callers : r.chat[who].at \notin Peaking \cup Flooring
    BY <2>2 DEF Quiet, Peaking, Flooring
  <2>4. r.sizes \in SUBSET Nat /\ r.peak \in Nat /\ r.floor \in Nat
    BY <2>1, Fields
  <2>5. r.peak \in r.sizes \cup {0} /\ \A x \in r.sizes : x <= r.peak
    BY <2>2, <2>3 DEF Peaked
  <2>6. r.floor \in r.sizes \cup {0} /\ \A x \in r.sizes \ {0} : r.floor # 0 /\ r.floor <= x
    BY <2>2, <2>3 DEF Floored
  <2> HIDE DEF r
  <2>7. \A x \in r.sizes \cup {0} : r.peak >= x
    BY <2>4, <2>5
  <2>8. \A y \in r.sizes \cup {0} : (\A x \in r.sizes \cup {0} : y >= x) => y = r.peak
    BY <2>4, <2>5, <2>7
  <2>9. r.peak = Max(r.sizes \cup {0})
    BY <2>5, <2>7, <2>8 DEF Max
  <2>10. CASE r.sizes \ {0} = {}
    BY <2>6, <2>9, <2>10 DEF r
  <2>11. CASE r.sizes \ {0} # {}
    <3>1. r.floor \in r.sizes \ {0}
      BY <2>6, <2>11
    <3>2. \A x \in r.sizes \ {0} : r.floor <= x
      BY <2>6
    <3>3. \A y \in r.sizes \ {0} : (\A x \in r.sizes \ {0} : y <= x) => y = r.floor
      BY <2>4, <3>1, <3>2
    <3>4. r.floor = Min(r.sizes \ {0})
      BY <3>1, <3>2, <3>3 DEF Min
    <3> QED
      BY <2>9, <2>11, <3>4 DEF r
  <2> QED
    BY <2>10, <2>11
<1> QED
  BY <1>1, AlwaysInv, PTL

\* The variables have their types, with their bounds: what was recorded of a run was
\* answered, what was answered was asked for, and no job is recorded twice.
THEOREM TypeIsOK ==
  Spec => []TypeOK
<1> DEFINE All == Inv /\ \A j \in Jobs : Tallied(j, run[j])
<1>1. Init => All
  BY InitIsRight, NothingTallied DEF Init
<1>2. All /\ [Next]_vars => All'
  BY StepKeeps, StepTallies
<1>3. All => TypeOK
  <2> SUFFICES ASSUME All PROVE TypeOK
    OBVIOUS
  <2>1. Typed /\ Len(all) <= Cardinality(Jobs)
    BY RecordedOnce DEF Inv
  <2>2. ASSUME NEW j \in Jobs
        PROVE  /\ run[j].calls \in 0..MaxRequests[j] /\ run[j].answered \in 0..run[j].calls
               /\ run[j].steps \in 0..run[j].answered /\ run[j].turn \in 0..run[j].steps
               /\ run[j].made \subseteq Kinds \X (1..run[j].answered)
               /\ {run[j].peak, run[j].floor} \cup run[j].sizes \subseteq Sizes[j] \cup {0}
    <3> DEFINE r == run[j]
    <3>1. r \in Runs /\ Counted(r) /\ Tallied(j, r)
      BY <2>1 DEF Typed, Inv, Job
    <3> HIDE DEF r
    <3>2. Cardinality(Asking(r)) \in Nat /\ Cardinality(Untold(r)) \in Nat
          /\ r.calls \in Nat /\ r.answered \in Nat /\ r.turn \in Nat /\ r.steps \in Nat
          /\ MaxRequests[j] \in Nat
      BY <3>1, Tallies DEF Counted, Tallied
    <3>3. /\ r.calls \in 0..MaxRequests[j] /\ r.answered \in 0..r.calls
          /\ r.steps \in 0..r.answered /\ r.turn \in 0..r.steps
      BY <3>1, <3>2 DEF Tallied
    <3>4. r.made \subseteq Kinds \X (1..r.answered)
      <4>1. r.made \in SUBSET (Kinds \X Nat) /\ \A c \in r.made : c[2] \in 1..r.answered
        BY <3>1, Fields DEF Tallied
      <4> QED
        BY <4>1
    <3>5. {r.peak, r.floor} \cup r.sizes \subseteq Sizes[j] \cup {0}
      BY <3>1 DEF Counted, Peaked, Floored, Tallied
    <3> QED
      BY <3>3, <3>4, <3>5 DEF r
  <2> QED
    BY <2>1, <2>2 DEF TypeOK, Typed, Results
<1> QED
  BY <1>1, <1>2, <1>3, PTL DEF Spec
=============================================================================
