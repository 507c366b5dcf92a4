---------------------------- MODULE WavesProofs ----------------------------
(***************************************************************************)
(* Proofs about the agent queue and the wave cycles that fill it, for any  *)
(* number of cases, cycles, workers and waves, any ladders and plans, with *)
(* and without champions and live runs.  What is proved of the queue is    *)
(* proved of it alone, whoever submits, and then carried over to Waves,    *)
(* whose cycles change nothing of it but which cases a session holds.      *)
(***************************************************************************)
EXTENDS Waves, SequenceTheorems, WellFoundedInduction, TLAPS

-----------------------------------------------------------------------------
(* Sequences and numbers.                                                  *)

Less == {ss \in Nat \X Nat : ss[1] < ss[2]}

\* A set of numbers that is not empty has a least one.
LEMMA LeastNumber ==
    ASSUME NEW S, S \subseteq Nat, S # {}
    PROVE  Min(S) \in S
<1>1. IsWellFoundedOn(Less, Nat)
  BY NatLessThanWellFounded DEF OpToRel, Less
<1>2. PICK x \in S : \A y \in S : <<y, x>> \notin Less
  BY <1>1, WFMin
<1>3. ASSUME NEW y \in S PROVE x <= y
  <2>1. x \in Nat /\ y \in Nat /\ ~(y < x)
    BY <1>2 DEF Less
  <2> QED
    BY <2>1
<1> QED
  BY <1>2, <1>3 DEF Min

\* Where a case is in a line, and that it is there once.
OnIt(q, d) == \E i \in DOMAIN q : q[i] = d
Once(q, d) == \A i, j \in DOMAIN q : q[i] = d /\ q[j] = d => i = j

\* The others keep their places behind the last one.
LEMMA AppendPlace ==
    ASSUME NEW S, NEW q \in Seq(S), NEW c \in S
    PROVE  /\ Append(q, c) \in Seq(S) /\ Len(Append(q, c)) = Len(q) + 1
           /\ \A d : OnIt(Append(q, c), d) <=> (d = c \/ OnIt(q, d))
           /\ \A d : Once(q, d) /\ (d = c => ~OnIt(q, d)) => Once(Append(q, c), d)
<1> DEFINE a == Append(q, c)
<1>1. a \in Seq(S) /\ Len(a) = Len(q) + 1 /\ Len(q) \in Nat
  OBVIOUS
<1>2. DOMAIN q = 1..Len(q) /\ DOMAIN a = 1..Len(q) + 1
  BY <1>1
<1>3. a[Len(q) + 1] = c /\ \A i \in 1..Len(q) : a[i] = q[i]
  OBVIOUS
<1> HIDE DEF a
<1>4. \A d : OnIt(a, d) <=> (d = c \/ OnIt(q, d))
  BY <1>1, <1>2, <1>3 DEF OnIt
<1>5. \A d : Once(q, d) /\ (d = c => ~OnIt(q, d)) => Once(a, d)
  BY <1>1, <1>2, <1>3 DEF OnIt, Once
<1> QED
  BY <1>1, <1>4, <1>5 DEF a

\* Who is first leaves, the others stay.
LEMMA TailPlaces ==
    ASSUME NEW S, NEW q \in Seq(S), q # <<>>
    PROVE  /\ Tail(q) \in Seq(S) /\ Len(Tail(q)) = Len(q) - 1
           /\ Head(q) \in S /\ OnIt(q, Head(q))
           /\ \A d : Once(q, d) => Once(Tail(q), d)
           /\ \A d : OnIt(Tail(q), d) => OnIt(q, d)
           /\ \A d : OnIt(q, d) /\ d # Head(q) => OnIt(Tail(q), d)
           /\ Once(q, Head(q)) => ~OnIt(Tail(q), Head(q))
<1>1. /\ Tail(q) \in Seq(S) /\ Len(Tail(q)) = Len(q) - 1 /\ Head(q) \in S
      /\ Head(q) = q[1] /\ Len(q) \in Nat \ {0}
  BY HeadTailProperties, EmptySeq
<1>2. \A i \in 1..Len(q) - 1 : Tail(q)[i] = q[i + 1]
  BY HeadTailProperties
<1>3. DOMAIN q = 1..Len(q) /\ DOMAIN Tail(q) = 1..Len(q) - 1
  BY <1>1
<1>4. \A d : Once(q, d) => Once(Tail(q), d)
  <2>1. ASSUME NEW d, Once(q, d), NEW i \in DOMAIN Tail(q), NEW j \in DOMAIN Tail(q),
               Tail(q)[i] = d, Tail(q)[j] = d
        PROVE  i = j
    <3>1. i + 1 \in DOMAIN q /\ j + 1 \in DOMAIN q /\ q[i + 1] = d /\ q[j + 1] = d
      BY <2>1, <1>1, <1>2, <1>3
    <3>2. i + 1 = j + 1
      BY <3>1, <2>1 DEF Once
    <3> QED
      BY <3>2, <1>1, <1>3
  <2> QED
    BY <2>1 DEF Once
<1>5. ASSUME NEW d, NEW i \in DOMAIN Tail(q), Tail(q)[i] = d PROVE OnIt(q, d)
  <2>1. i + 1 \in DOMAIN q /\ q[i + 1] = d
    BY <1>5, <1>1, <1>2, <1>3
  <2> QED
    BY <2>1 DEF OnIt
<1>6. ASSUME NEW d, NEW i \in DOMAIN q, q[i] = d, d # Head(q)
      PROVE  OnIt(Tail(q), d)
  <2>1. i - 1 \in 1..Len(q) - 1
    BY <1>6, <1>1, <1>3
  <2>2. Tail(q)[i - 1] = d
    BY <2>1, <1>6, <1>1, <1>2, <1>3
  <2> QED
    BY <2>1, <2>2, <1>3 DEF OnIt
<1>7. ASSUME Once(q, Head(q)), NEW i \in DOMAIN Tail(q), Tail(q)[i] = Head(q)
      PROVE  FALSE
  <2>1. i + 1 \in DOMAIN q /\ q[i + 1] = q[1] /\ 1 \in DOMAIN q /\ i + 1 # 1
    BY <1>7, <1>1, <1>2, <1>3
  <2> QED
    BY <2>1, <1>7, <1>1 DEF Once
<1>8. OnIt(q, Head(q))
  BY <1>1, <1>3 DEF OnIt
<1> QED
  BY <1>1, <1>4, <1>5, <1>6, <1>7, <1>8 DEF OnIt

-----------------------------------------------------------------------------
(* The queue.                                                              *)

QueueTypeInv ==
    QueueTypeOK /\ \A s \in Submitters : submit[s].at # "idle" => submit[s].case \in Cases

LEMMA QueueTypeStep ==
    ASSUME QueueTypeInv, QueueNext
    PROVE  QueueTypeInv'
<1> USE DEF QueueTypeInv, QueueTypeOK
<1> USE NoCaseAssumption, DepthAssumption
<1>1. ASSUME NEW s \in Submitters, NEW c \in Cases, Look(s, c) PROVE QueueTypeInv'
  BY <1>1 DEF Look
<1>2. ASSUME NEW s \in Submitters, Put(s) PROVE QueueTypeInv'
  <2>1. CASE Len(line) < Depth
    <3>1. submit[s].case \in Cases /\ line' = Append(line, submit[s].case)
          /\ submit' = [submit EXCEPT ![s].at = "mark"]
          /\ UNCHANGED <<seen, work, session, active, raced>>
      BY <1>2, <2>1 DEF Put, At
    <3>2. line' \in Seq(Cases) /\ Len(line') <= Depth
      BY <3>1, <2>1
    <3>3. /\ submit' \in [Submitters -> [at : {"idle", "put", "mark"},
                                        case : Cases \cup {NoCase}]]
          /\ \A t \in Submitters : submit'[t].at # "idle" => submit'[t].case \in Cases
      BY <3>1
    <3> QED
      BY <3>1, <3>2, <3>3
  <2>2. CASE ~(Len(line) < Depth)
    BY <1>2, <2>2 DEF Put, At, NotSubmitting
  <2> QED
    BY <2>1, <2>2
<1>3. ASSUME NEW s \in Submitters, Mark(s) PROVE QueueTypeInv'
  BY <1>3 DEF Mark, At, NotSubmitting
<1>4. ASSUME NEW w \in Workers, Take(w) PROVE QueueTypeInv'
  <2>1. Head(line) \in Cases /\ Tail(line) \in Seq(Cases) /\ Len(Tail(line)) = Len(line) - 1
        /\ Len(line) \in Nat
    BY <1>4, HeadTailProperties DEF Take
  <2> QED
    BY <1>4, <2>1 DEF Take
<1>5. ASSUME NEW w \in Workers, Begin(w) PROVE QueueTypeInv'
  BY <1>5 DEF Begin
<1>6. ASSUME NEW w \in Workers, PassOver(w) \/ End(w) PROVE QueueTypeInv'
  BY <1>6 DEF PassOver, End, Leave, Overtakes, BeingMarked, At
<1>7. ASSUME NEW c \in Cases, LiveRunBegins(c) \/ LiveRunEnds(c) PROVE QueueTypeInv'
  BY <1>7 DEF LiveRunBegins, LiveRunEnds
<1> QED
  BY <1>1, <1>2, <1>3, <1>4, <1>5, <1>6, <1>7 DEF QueueNext, Worker

\* Of a case whose referrals have not met in a submit: one submit of it is under
\* way at most, none while it has a place that is entered; it has one place at
\* most, and who has one is in `seen` or about to be entered.
Orderly(c) ==
    /\ \A s, t \in Submitters :
           /\ submit[s].at # "idle" /\ submit[s].case = c
           /\ submit[t].at # "idle" /\ submit[t].case = c
           => s = t
    /\ Once(line, c)
    /\ \A v, w \in Workers : work[v] = c /\ work[w] = c => v = w
    /\ ~(OnIt(line, c) /\ InHand(c))
    /\ c \in seen => OnIt(line, c) \/ InHand(c)
    /\ OnIt(line, c) \/ InHand(c) =>
           \/ c \in seen
           \/ \E s \in Submitters : submit[s].at = "mark" /\ submit[s].case = c
    /\ \A s \in Submitters :
           /\ submit[s].at = "put" /\ submit[s].case = c =>
                  c \notin seen /\ ~OnIt(line, c) /\ ~InHand(c)
           /\ submit[s].at = "mark" /\ submit[s].case = c =>
                  OnIt(line, c) \/ InHand(c)

QueueInv == QueueTypeInv /\ \A c \in Cases \ raced : Orderly(c)

LEMMA QueueInit0 == QueueInit => QueueInv
<1> SUFFICES ASSUME QueueInit PROVE QueueInv
  OBVIOUS
<1>1. QueueTypeInv
  BY NoCaseAssumption, DepthAssumption
     DEF QueueInit, QueueTypeInv, QueueTypeOK, NotSubmitting
<1>2. ASSUME NEW c \in Cases PROVE Orderly(c)
  BY NoCaseAssumption DEF QueueInit, Orderly, NotSubmitting, OnIt, Once, InHand
<1> QED
  BY <1>1, <1>2 DEF QueueInv

\* Only what its submits, its places, its workers and `seen` say of it counts.
LEMMA OrderlyFrame ==
    ASSUME NEW d, Orderly(d), UNCHANGED <<line, seen, submit, work>>
    PROVE  Orderly(d)'
BY DEF Orderly, OnIt, Once, InHand

\* No step of anyone breaks it.
LEMMA QueueStep ==
    ASSUME QueueInv, QueueNext
    PROVE  QueueInv'
<1>0. QueueTypeInv' /\ QueueTypeInv /\ \A c \in Cases \ raced : Orderly(c)
  BY QueueTypeStep DEF QueueInv
<1> SUFFICES ASSUME NEW d \in Cases \ raced' PROVE Orderly(d)'
  BY <1>0 DEF QueueInv
<1> USE DEF QueueTypeInv, QueueTypeOK
<1> USE NoCaseAssumption, DepthAssumption
<1>1. ASSUME NEW s \in Submitters, NEW c \in Cases, Look(s, c) PROVE Orderly(d)'
  <2>1. /\ submit[s].at = "idle" /\ c \notin seen
        /\ submit' = [submit EXCEPT ![s] = [at |-> "put", case |-> c]]
        /\ UNCHANGED <<line, seen, work>>
    BY <1>1 DEF Look, At
  <2>2. submit'[s] = [at |-> "put", case |-> c]
        /\ \A t \in Submitters : t # s => submit'[t] = submit[t]
    BY <2>1, <1>0
  <2>3. CASE d = c
    <3>1. \A t \in Submitters : ~(submit[t].at # "idle" /\ submit[t].case = d)
      BY <1>1, <2>3 DEF Look, BeingSubmitted, At
    <3>2. ~OnIt(line, d) /\ ~InHand(d)
      <4>1. CASE d \in raced
        BY <1>1, <2>3, <3>1, <4>1 DEF Look, BeingSubmitted, At, InLine, OnIt
      <4>2. CASE d \notin raced
        BY <4>2, <3>1, <2>1, <2>3, <1>0 DEF Orderly
      <4> QED
        BY <4>1, <4>2
    <3> QED
      BY <2>1, <2>2, <2>3, <3>1, <3>2 DEF Orderly, OnIt, Once, InHand
  <2>4. CASE d # c
    <3>1. Orderly(d)
      BY <1>1, <2>4, <1>0 DEF Look
    <3> QED
      BY <3>1, <2>1, <2>2, <2>4 DEF Orderly, OnIt, Once, InHand
  <2> QED
    BY <2>3, <2>4
<1>2. ASSUME NEW s \in Submitters, Put(s) PROVE Orderly(d)'
  <2>0. Orderly(d) /\ submit[s].at = "put" /\ UNCHANGED <<seen, work>>
    BY <1>2, <1>0 DEF Put, At
  <2>1. CASE Len(line) < Depth
    <3> DEFINE c == submit[s].case
    <3>1. /\ c \in Cases /\ line' = Append(line, c)
          /\ submit' = [submit EXCEPT ![s].at = "mark"]
      BY <1>2, <2>1, <1>0 DEF Put, At
    <3>2. /\ submit'[s].case = c /\ submit'[s].at = "mark"
          /\ \A t \in Submitters : t # s => submit'[t] = submit[t]
      BY <3>1, <1>0
    <3>3. /\ OnIt(line', d) <=> (d = c \/ OnIt(line, d))
          /\ Once(line, d) /\ (d = c => ~OnIt(line, d)) => Once(line', d)
      BY <3>1, <1>0, AppendPlace
    <3>4. InHand(d)' <=> InHand(d)
      BY <2>0 DEF InHand
    <3> HIDE DEF c
    <3>5. CASE d = c
      <4>1. d \notin seen /\ ~OnIt(line, d) /\ ~InHand(d)
        BY <2>0, <3>5 DEF Orderly, c
      <4>2. \A t \in Submitters : t # s => ~(submit[t].at # "idle" /\ submit[t].case = d)
        BY <2>0, <3>5 DEF Orderly, c
      <4> QED
        BY <2>0, <3>2, <3>3, <3>4, <3>5, <4>1, <4>2 DEF Orderly
    <3>6. CASE d # c
      BY <2>0, <3>2, <3>3, <3>4, <3>6 DEF Orderly, c
    <3> QED
      BY <3>5, <3>6
  <2>2. CASE ~(Len(line) < Depth)
    <3>1. submit' = [submit EXCEPT ![s] = NotSubmitting] /\ line' = line
      BY <1>2, <2>2 DEF Put
    <3>2. submit'[s].at = "idle" /\ \A t \in Submitters : t # s => submit'[t] = submit[t]
      BY <3>1, <1>0 DEF NotSubmitting
    <3> QED
      BY <2>0, <3>1, <3>2 DEF Orderly, OnIt, Once, InHand
  <2> QED
    BY <2>1, <2>2
<1>3. ASSUME NEW s \in Submitters, Mark(s) PROVE Orderly(d)'
  <2> DEFINE c == submit[s].case
  <2>1. /\ submit[s].at = "mark" /\ c \in Cases
        /\ seen' = seen \cup {c} /\ submit' = [submit EXCEPT ![s] = NotSubmitting]
        /\ UNCHANGED <<line, work>> /\ Orderly(d)
    BY <1>3, <1>0 DEF Mark, At
  <2>2. submit'[s].at = "idle" /\ \A t \in Submitters : t # s => submit'[t] = submit[t]
    BY <2>1, <1>0 DEF NotSubmitting
  <2>3. d = c => \A t \in Submitters : t # s => ~(submit[t].at # "idle" /\ submit[t].case = d)
    BY <2>1 DEF Orderly
  <2> QED
    BY <2>1, <2>2, <2>3 DEF Orderly, OnIt, Once, InHand
<1>4. ASSUME NEW w \in Workers, Take(w) PROVE Orderly(d)'
  <2> DEFINE c == Head(line)
  <2>1. /\ work[w] = NoCase /\ line # <<>> /\ line' = Tail(line)
        /\ work' = [work EXCEPT ![w] = c] /\ UNCHANGED <<seen, submit>> /\ Orderly(d)
    BY <1>4, <1>0 DEF Take
  <2>2. /\ OnIt(line, c) /\ (Once(line, d) => Once(line', d))
        /\ OnIt(line', d) => OnIt(line, d)
        /\ OnIt(line, d) /\ d # c => OnIt(line', d)
        /\ Once(line, c) => ~OnIt(line', c)
    BY <2>1, <1>0, TailPlaces
  <2>3. work'[w] = c /\ \A v \in Workers : v # w => work'[v] = work[v]
    BY <2>1, <1>0
  <2> HIDE DEF c
  <2>4. d # NoCase
    OBVIOUS
  <2>5. CASE d = c
    <3>1. \A v \in Workers : work[v] # d
      BY <2>1, <2>2, <2>5 DEF Orderly, InHand
    <3>2. InHand(d)'
      BY <2>3, <2>5 DEF InHand
    <3>3. \A v, u \in Workers : work'[v] = d /\ work'[u] = d => v = u
      BY <2>3, <3>1
    <3> QED
      BY <2>1, <2>2, <2>5, <3>2, <3>3 DEF Orderly
  <2>6. CASE d # c
    <3>1. InHand(d)' <=> InHand(d)
      BY <2>1, <2>3, <2>4, <2>6 DEF InHand
    <3>2. \A v, u \in Workers : work'[v] = d /\ work'[u] = d => v = u
      BY <2>1, <2>3, <2>6 DEF Orderly
    <3> QED
      BY <2>1, <2>2, <2>6, <3>1, <3>2 DEF Orderly
  <2> QED
    BY <2>5, <2>6
<1>5. ASSUME NEW w \in Workers, Begin(w) PROVE Orderly(d)'
  BY <1>5, <1>0, OrderlyFrame DEF Begin
<1>6. ASSUME NEW w \in Workers, PassOver(w) \/ End(w) PROVE Orderly(d)'
  <2> DEFINE c == work[w]
  <2>1. /\ seen' = seen \ {c} /\ work' = [work EXCEPT ![w] = NoCase]
        /\ UNCHANGED <<line, submit>>
        /\ raced' = IF BeingMarked(c) THEN raced \cup {c} ELSE raced
    BY <1>6 DEF PassOver, End, Leave, Overtakes
  <2>2. Orderly(d)
    BY <2>1, <1>0
  <2>3. work'[w] = NoCase /\ \A v \in Workers : v # w => work'[v] = work[v]
    BY <2>1, <1>0
  <2>4. d = c => \A s \in Submitters : ~(submit[s].at = "mark" /\ submit[s].case = d)
    BY <2>1 DEF BeingMarked, At
  <2>5. d # NoCase
    OBVIOUS
  <2> HIDE DEF c
  <2>6. CASE d = c
    <3>1. ~InHand(d)'
      BY <2>2, <2>3, <2>5, <2>6 DEF Orderly, InHand, c
    <3>2. ~OnIt(line, d)
      BY <2>2, <2>6 DEF Orderly, InHand, c
    <3> QED
      BY <2>1, <2>2, <2>3, <2>4, <2>5, <2>6, <3>1, <3>2 DEF Orderly, OnIt, Once
  <2>7. CASE d # c
    <3>1. InHand(d)' <=> InHand(d)
      BY <2>1, <2>3, <2>5, <2>7 DEF InHand, c
    <3>2. \A v, u \in Workers : work'[v] = d /\ work'[u] = d => v = u
      BY <2>2, <2>3, <2>5 DEF Orderly
    <3> QED
      BY <2>1, <2>2, <2>7, <3>1, <3>2 DEF Orderly, OnIt, Once
  <2> QED
    BY <2>6, <2>7
<1>7. ASSUME NEW c \in Cases, LiveRunBegins(c) \/ LiveRunEnds(c) PROVE Orderly(d)'
  BY <1>7, <1>0, OrderlyFrame DEF LiveRunBegins, LiveRunEnds
<1> QED
  BY <1>1, <1>2, <1>3, <1>4, <1>5, <1>6, <1>7 DEF QueueNext, Worker

\* Outside the queue only the cases that are held by a session may change.
LEMMA QueueFrame ==
    ASSUME QueueInv, UNCHANGED <<line, seen, submit, work, session, raced>>,
           active' \subseteq Cases
    PROVE  QueueInv'
<1>1. QueueTypeInv'
  BY DEF QueueInv, QueueTypeInv, QueueTypeOK
<1>2. \A c \in Cases \ raced' : Orderly(c)'
  BY OrderlyFrame DEF QueueInv
<1> QED
  BY <1>1, <1>2 DEF QueueInv

LEMMA OrderlyPlaces == QueueInv => SeenHavePlaces
BY DEF QueueInv, Orderly, SeenHavePlaces, OnePlace, HasPlaceIfSeen, InLine, OnIt, Once

\* "One referral per case at a time" (agent_queue.py:67), and none is refused that
\* has no place: whoever submits, however many workers there are and whatever
\* runs hold cases meanwhile, with submits that anyone may race; only a case
\* whose referrals met in the window between submit's two acquisitions
\* (agent_queue.py:70 and 81) may be otherwise.
THEOREM QueueSeenHavePlaces == QueueSpec => []SeenHavePlaces
<1>1. QueueInv /\ [QueueNext]_queueVars => QueueInv'
  <2>1. QueueInv /\ UNCHANGED queueVars => QueueInv'
    BY QueueFrame DEF queueVars, QueueInv, QueueTypeInv, QueueTypeOK
  <2> QED
    BY <2>1, QueueStep
<1> QED
  BY QueueInit0, <1>1, OrderlyPlaces, PTL DEF QueueSpec

-----------------------------------------------------------------------------
(* The cycles.                                                             *)

OneRunning == \A j, k \in Cycles : Running(j) /\ Running(k) => j = k

\* What a cycle has yet to work in its wave: the run's list, the causes it has
\* not come to, and the cause whose champion it waits for.
ToCome(k) ==
    {c \in DOMAIN copies[k] :
        \/ c \in todo[k]
        \/ copies[k][c].cause \in left[k]
        \/ In(k, "champion") /\ copies[k][c].cause = copies[k][champion[k]].cause}

PhaseInv ==
    \A k \in Cycles :
        /\ In(k, "top") => wave[k] < MaxWaves /\ left[k] = {}
        /\ ~Running(k) => wave[k] = 0 /\ left[k] = {}
        /\ todo[k] # {} => at[k] \in {"launch", "run"}
        /\ todo[k] \subseteq DOMAIN copies[k]
        /\ \A c \in todo[k] : copies[k][c].cause \in Causes \ left[k]
        /\ In(k, "champion") =>
              /\ champion[k] \in DOMAIN copies[k]
              /\ copies[k][champion[k]].cause \in Causes \ left[k]

AbortInv ==
    \A k \in Cycles :
        late[k] # 0 => late[k] = 1 /\ k \in aborted /\ at[k] \in {"run", "causes"}

\* A rung that a run has climbed stands in the record of the case, and in the
\* copy a cycle works by for as long as it has the case before it.
RecordsKnow ==
    \A c \in Open, g \in Rungs : reached[c][g] > 0 => g \in record[c].climbed

CopiesKnow ==
    \A k \in Cycles : \A c \in ToCome(k), g \in Rungs :
        reached[c][g] > 0 => g \in copies[k][c].climbed

-----------------------------------------------------------------------------
(* The operators of the cycles.                                            *)

\* The next rung of a case is a rung of a ladder, and one it has not climbed.
LEMMA NextRungIsNew ==
    ASSUME NEW r, r.cause \in Causes \cup {Held}, NextRung(r) # "none"
    PROVE  NextRung(r) \in Rungs \ r.climbed
<1> DEFINE rungs == Ladder[r.cause]
           rest == {i \in DOMAIN rungs : rungs[i] \notin r.climbed}
<1>1. r.cause \in Causes /\ rest # {} /\ NextRung(r) = rungs[Min(rest)]
  BY DEF NextRung
<1>2. rungs \in Seq(Rungs) /\ rest \subseteq Nat
  BY <1>1, LadderAssumption
<1>3. Min(rest) \in rest
  <2> HIDE DEF rest
  <2> QED
    BY <1>1, <1>2, LeastNumber
<1>4. \A i \in DOMAIN rungs : rungs[i] \in Rungs
  <2> HIDE DEF rungs
  <2> QED
    BY <1>2, ElementOfSeq, LenProperties
<1> QED
  BY <1>1, <1>3, <1>4

Copy == [cause : Causes \cup {Held}, climbed : SUBSET Rungs]

LEMMA CopiesOf ==
    ASSUME NEW f \in Copies
    PROVE  DOMAIN f \subseteq Cases /\ \A c \in DOMAIN f : f[c] \in Copy
BY DEF Copies, Copy

LEMMA NoCopies == <<>> \in Copies /\ DOMAIN <<>> = {}
<1>1. <<>> \in [{} -> Copy]
  OBVIOUS
<1> QED
  BY <1>1 DEF Copies, Copy

\* What a wave reads: every open case, with the rungs it has climbed.
LEMMA ReadCopies ==
    ASSUME record \in [Cases -> Records \cup {Paid, Closed}]
    PROVE  /\ Read \in Copies /\ DOMAIN Read = Open
           /\ \A c \in Open : record[c] \in Records /\ Read[c].climbed = record[c].climbed
<1>1. Open \subseteq Cases /\ \A c \in Open : record[c] \in Records
  BY DEF Open
<1>2. \A c \in Open : Sorted(c) \in Copy /\ Sorted(c).climbed = record[c].climbed
  BY <1>1 DEF Sorted, Copy, Records
<1>3. Read \in [Open -> Copy]
  BY <1>2 DEF Read
<1>4. Read \in Copies
  BY <1>1, <1>3 DEF Copies, Copy
<1> QED
  BY <1>1, <1>2, <1>3, <1>4 DEF Read

\* A plan a champion teaches is a plan.
LEMMA DistilledPlans ==
    ASSUME NEW b \in Causes, NEW new \in SUBSET Rungs, NEW p \in Distilled(b, new)
    PROVE  p \in Plans
BY WavesAssumption DEF Distilled, Plans

LEMMA NoPlanIsPlan == NoPlan \in Plans
BY DEF NoPlan, Plans

-----------------------------------------------------------------------------
(* The types.                                                              *)

TypeInv == TypeOK /\ QueueTypeInv /\ PhaseInv

LEMMA TypeInit == Init => TypeInv
<1> SUFFICES ASSUME Init PROVE TypeInv
  OBVIOUS
<1> USE DEF Init, QueueInit
<1>1. QueueTypeInv
  BY DepthAssumption DEF QueueTypeInv, QueueTypeOK, NotSubmitting
<1>2. record \in [Cases -> Records \cup {Paid, Closed}]
  BY WavesAssumption DEF Records
<1>3. reached \in [Cases -> [Rungs -> 0..2]]
  OBVIOUS
<1>4. plan \in [Cycles -> [Causes -> Plans]] /\ copies \in [Cycles -> Copies]
  BY NoPlanIsPlan, NoCopies
<1>5. TypeOK
  BY <1>1, <1>2, <1>3, <1>4, WavesAssumption DEF TypeOK, QueueTypeInv, Cycles
<1>6. PhaseInv
  BY WavesAssumption DEF PhaseInv, In, Running, Cycles
<1> QED
  BY <1>1, <1>5, <1>6 DEF TypeInv

LEMMA QueueMoves ==
    ASSUME TypeInv, [Next]_vars
    PROVE  QueueTypeInv'
<1> USE DEF TypeInv, QueueTypeInv, QueueTypeOK, TypeOK, Cycles, queueVars
<1>1. ASSUME NEW k \in Cycles, Launch(k) PROVE QueueTypeInv'
  BY <1>1 DEF Launch
<1>2. ASSUME NEW k \in Cycles, Abort(k) PROVE QueueTypeInv'
  BY <1>2 DEF Abort
<1>3. ASSUME NEW k \in Cycles, WaveBegins(k) PROVE QueueTypeInv'
  BY <1>3 DEF WaveBegins
<1>4. ASSUME NEW k \in Cycles, NothingToDo(k) PROVE QueueTypeInv'
  BY <1>4 DEF NothingToDo
<1>5. ASSUME NEW k \in Cycles, NextCause(k) PROVE QueueTypeInv'
  BY <1>5, CopiesOf DEF NextCause, Group
<1>6. ASSUME NEW k \in Cycles, ChampionEnds(k) PROVE QueueTypeInv'
  BY <1>6 DEF ChampionEnds
<1>7. ASSUME NEW k \in Cycles, ChampionTimesOut(k) PROVE QueueTypeInv'
  BY <1>7 DEF ChampionTimesOut
<1>8. ASSUME NEW k \in Cycles, RunBegins(k) PROVE QueueTypeInv'
  BY <1>8 DEF RunBegins
<1>9. ASSUME NEW k \in Cycles, Work(k) PROVE QueueTypeInv'
  BY <1>9 DEF Work
<1>10. ASSUME NEW k \in Cycles, RunEnds(k) PROVE QueueTypeInv'
  BY <1>10 DEF RunEnds
<1>11. ASSUME NEW k \in Cycles, CausesDone(k) PROVE QueueTypeInv'
  BY <1>11 DEF CausesDone
<1>12. ASSUME NEW k \in Cycles, WaveEnds(k) PROVE QueueTypeInv'
  BY <1>12 DEF WaveEnds
<1>13. ASSUME NEW k \in Cycles, Dispatch(k) PROVE QueueTypeInv'
  BY <1>13, QueueTypeStep DEF Dispatch, QueueNext
<1>14. ASSUME NEW k \in Cycles, CycleEnds(k) PROVE QueueTypeInv'
  BY <1>14 DEF CycleEnds
<1>15. ASSUME NEW k \in Cycles, Submit(k) PROVE QueueTypeInv'
  BY <1>15, QueueTypeStep DEF Submit, QueueNext
<1>16. ASSUME NEW c \in Cases, AgentClimbs(c) PROVE QueueTypeInv'
  BY <1>16 DEF AgentClimbs
<1>17. ASSUME NEW c \in Cases, Pays(c) PROVE QueueTypeInv'
  BY <1>17 DEF Pays
<1>18. ASSUME NEW c \in Cases, Closes(c) PROVE QueueTypeInv'
  BY <1>18 DEF Closes
<1>19. ASSUME NEW c \in Cases, FailsAgain(c) PROVE QueueTypeInv'
  BY <1>19 DEF FailsAgain
<1>20. ASSUME Sessions PROVE QueueTypeInv'
  BY <1>20, QueueTypeStep DEF Sessions, QueueNext, Worker
<1>21. ASSUME UNCHANGED vars PROVE QueueTypeInv'
  BY <1>21 DEF vars
<1> QED
  BY <1>1, <1>2, <1>3, <1>4, <1>5, <1>6, <1>7, <1>8, <1>9, <1>10, <1>11,
     <1>12, <1>13, <1>14, <1>15, <1>16, <1>17, <1>18, <1>19, <1>20, <1>21 DEF
     Next, Loop

LEMMA BelowTop ==
    ASSUME NEW n \in Nat, NEW m \in 0..n, m # n
    PROVE  m < n
OBVIOUS

LEMMA PhaseStep ==
    ASSUME TypeInv, [Next]_vars
    PROVE  PhaseInv'
<1> USE DEF TypeInv, TypeOK, Cycles, PhaseInv, In, Running, Goto, queueVars, workVars, haltVars
<1>m. MaxWaves \in Nat \ {0}
  BY WavesAssumption
<1>1. ASSUME NEW k \in Cycles, Launch(k) PROVE PhaseInv'
  BY <1>1, <1>m DEF Launch
<1>2. ASSUME NEW k \in Cycles, Abort(k) PROVE PhaseInv'
  BY <1>2 DEF Abort
<1>3. ASSUME NEW k \in Cycles, WaveBegins(k) PROVE PhaseInv'
  BY <1>3, ReadCopies DEF WaveBegins
<1>4. ASSUME NEW k \in Cycles, NothingToDo(k) PROVE PhaseInv'
  BY <1>4, NoCopies DEF NothingToDo, Finish, ForgetWave
<1>5. ASSUME NEW k \in Cycles, NextCause(k) PROVE PhaseInv'
  BY <1>5 DEF NextCause, Planned, Group
<1>6. ASSUME NEW k \in Cycles, ChampionEnds(k) PROVE PhaseInv'
  BY <1>6 DEF ChampionEnds, Planned, Group
<1>7. ASSUME NEW k \in Cycles, ChampionTimesOut(k) PROVE PhaseInv'
  BY <1>7 DEF ChampionTimesOut, Planned, Group
<1>8. ASSUME NEW k \in Cycles, RunBegins(k) PROVE PhaseInv'
  BY <1>8 DEF RunBegins
<1>9. ASSUME NEW k \in Cycles, Work(k) PROVE PhaseInv'
  BY <1>9 DEF Work
<1>10. ASSUME NEW k \in Cycles, RunEnds(k) PROVE PhaseInv'
  BY <1>10 DEF RunEnds
<1>11. ASSUME NEW k \in Cycles, CausesDone(k) PROVE PhaseInv'
  <2>1. /\ at[k] = "causes" /\ UNCHANGED <<todo, champion>>
        /\ \/ Finish(k)
           \/ at' = [at EXCEPT ![k] = "settle"] /\ UNCHANGED <<copies, left, wave>>
    BY <1>11 DEF CausesDone
  <2>2. CASE Finish(k)
    <3>1. /\ at' = [at EXCEPT ![k] = "dispatch"] /\ wave' = [wave EXCEPT ![k] = 0]
          /\ copies' = [copies EXCEPT ![k] = <<>>] /\ left' = [left EXCEPT ![k] = {}]
      BY <2>2 DEF Finish, ForgetWave
    <3>2. todo[k] = {} /\ UNCHANGED <<todo, champion>>
      BY <2>1
    <3> QED
      BY <3>1, <3>2, NoCopies
  <2>3. CASE at' = [at EXCEPT ![k] = "settle"] /\ UNCHANGED <<copies, left, wave>>
    BY <2>1, <2>3
  <2> QED
    BY <2>1, <2>2, <2>3
<1>12. ASSUME NEW k \in Cycles, WaveEnds(k) PROVE PhaseInv'
  <2>1. /\ at[k] = "settle" /\ UNCHANGED <<todo, champion>>
        /\ \/ Finish(k)
           \/ /\ at' = [at EXCEPT ![k] = "top"] /\ ForgetWave(k) /\ UNCHANGED wave
              /\ wave[k] # MaxWaves
    BY <1>12 DEF WaveEnds
  <2>2. CASE Finish(k)
    <3>1. /\ at' = [at EXCEPT ![k] = "dispatch"] /\ wave' = [wave EXCEPT ![k] = 0]
          /\ copies' = [copies EXCEPT ![k] = <<>>] /\ left' = [left EXCEPT ![k] = {}]
      BY <2>2 DEF Finish, ForgetWave
    <3>2. todo[k] = {} /\ UNCHANGED <<todo, champion>>
      BY <2>1
    <3> QED
      BY <3>1, <3>2, NoCopies
  <2>3. CASE /\ at' = [at EXCEPT ![k] = "top"] /\ ForgetWave(k) /\ UNCHANGED wave
             /\ wave[k] # MaxWaves
    <3>1. copies' = [copies EXCEPT ![k] = <<>>] /\ left' = [left EXCEPT ![k] = {}]
      BY <2>3 DEF ForgetWave
    <3>2. todo[k] = {}
      BY <2>1
    <3>3. wave[k] \in 0..MaxWaves /\ wave[k] # MaxWaves
      BY <2>3
    <3>4. wave[k] < MaxWaves
      BY <3>3, <1>m, BelowTop
    <3> QED
      BY <2>1, <2>3, <3>1, <3>2, <3>4, NoCopies
  <2> QED
    BY <2>1, <2>2, <2>3
<1>13. ASSUME NEW k \in Cycles, Dispatch(k) PROVE PhaseInv'
  BY <1>13 DEF Dispatch
<1>14. ASSUME NEW k \in Cycles, CycleEnds(k) PROVE PhaseInv'
  BY <1>14 DEF CycleEnds
<1>15. ASSUME NEW k \in Cycles, Submit(k) PROVE PhaseInv'
  BY <1>15 DEF Submit
<1>16. ASSUME NEW c \in Cases, AgentClimbs(c) PROVE PhaseInv'
  BY <1>16 DEF AgentClimbs
<1>17. ASSUME NEW c \in Cases, Pays(c) PROVE PhaseInv'
  BY <1>17 DEF Pays
<1>18. ASSUME NEW c \in Cases, Closes(c) PROVE PhaseInv'
  BY <1>18 DEF Closes
<1>19. ASSUME NEW c \in Cases, FailsAgain(c) PROVE PhaseInv'
  BY <1>19 DEF FailsAgain
<1>20. ASSUME Sessions PROVE PhaseInv'
  BY <1>20 DEF Sessions
<1>21. ASSUME UNCHANGED vars PROVE PhaseInv'
  BY <1>21 DEF vars
<1> QED
  BY <1>1, <1>2, <1>3, <1>4, <1>5, <1>6, <1>7, <1>8, <1>9, <1>10, <1>11,
     <1>12, <1>13, <1>14, <1>15, <1>16, <1>17, <1>18, <1>19, <1>20, <1>21 DEF
     Next, Loop

\* The types of what a plan, a finished cycle and a finished wave leave behind.
LEMMA PlannedTypes ==
    ASSUME TypeOK, NEW k \in Cycles, NEW b \in Causes, NEW p \in Plans, NEW x,
           Planned(k, b, p, x)
    PROVE  /\ plan' \in [Cycles -> [Causes -> Plans]]
           /\ todo' \in [Cycles -> SUBSET Cases]
           /\ at' = [at EXCEPT ![k] = "launch"]
<1>1. Group(k, b) \ x \subseteq Cases
  BY CopiesOf DEF TypeOK, Group
<1> QED
  BY <1>1 DEF TypeOK, Planned, Goto

LEMMA ForgottenTypes ==
    ASSUME TypeOK, NEW k \in Cycles, ForgetWave(k)
    PROVE  /\ copies' \in [Cycles -> Copies] /\ left' \in [Cycles -> SUBSET Causes]
           /\ acted' \in [Cycles -> BOOLEAN]
BY NoCopies DEF TypeOK, ForgetWave

LEMMA FinishedTypes ==
    ASSUME TypeOK, NEW k \in Cycles, Finish(k)
    PROVE  /\ copies' \in [Cycles -> Copies] /\ left' \in [Cycles -> SUBSET Causes]
           /\ acted' \in [Cycles -> BOOLEAN]
           /\ plan' \in [Cycles -> [Causes -> Plans]]
           /\ wave' \in [Cycles -> 0..MaxWaves] /\ late' \in [Cycles -> 0..2]
           /\ aborted' \subseteq Cycles /\ halted' \subseteq aborted'
           /\ at' = [at EXCEPT ![k] = "dispatch"]
<1>1. MaxWaves \in Nat
  BY WavesAssumption
<1> QED
  BY <1>1, ForgottenTypes, NoPlanIsPlan DEF TypeOK, Finish, Goto

LEMMA ClimbTypes ==
    ASSUME record \in [Cases -> Records \cup {Paid, Closed}],
           NEW c \in Open, NEW g \in Rungs, Climb(c, g)
    PROVE  record' \in [Cases -> Records \cup {Paid, Closed}]
<1>1. record[c] \in Records /\ c \in Cases
  BY DEF Open
<1> QED
  BY <1>1 DEF Climb, Records

LEMMA ActReaches ==
    ASSUME reached \in [Cases -> [Rungs -> 0..2]], NEW k, NEW c \in Cases, Act(k, c)
    PROVE  reached' \in [Cases -> [Rungs -> 0..2]]
<1> DEFINE g == NextRung(copies[k][c])
           more == IF reached[c][g] = 2 THEN 2 ELSE reached[c][g] + 1
<1>1. reached' = [reached EXCEPT ![c][g] = more] \/ UNCHANGED reached
  BY DEF Act
<1>2. g \in Rungs => more \in 0..2
  <2> HIDE DEF g
  <2> QED
    OBVIOUS
<1> HIDE DEF more, g
<1> QED
  BY <1>1, <1>2

LEMMA TypeOKStep ==
    ASSUME TypeInv, [Next]_vars
    PROVE  TypeOK'
<1> USE DEF TypeInv, TypeOK, PhaseInv, In, Goto, queueVars, workVars, haltVars
<1>m. MaxWaves \in Nat \ {0}
  BY WavesAssumption
<1>0. QueueTypeOK'
  BY QueueMoves DEF QueueTypeInv
<1>1. ASSUME NEW k \in Cycles, Launch(k) PROVE TypeOK'
  BY <1>1, <1>0 DEF Launch
<1>2. ASSUME NEW k \in Cycles, Abort(k) PROVE TypeOK'
  BY <1>2, <1>0 DEF Abort
<1>3. ASSUME NEW k \in Cycles, WaveBegins(k) PROVE TypeOK'
  <2>1. /\ copies' = [copies EXCEPT ![k] = Read] /\ wave' = [wave EXCEPT ![k] = @ + 1]
        /\ left' = [left EXCEPT ![k] = {Read[c].cause : c \in DOMAIN Read} \ {Held}]
        /\ at' = [at EXCEPT ![k] = "causes"] /\ acted' = [acted EXCEPT ![k] = FALSE]
        /\ UNCHANGED <<queueVars, record, plan, champion, todo, noted, haltVars, reached,
                       refused>>
        /\ wave[k] < MaxWaves
    BY <1>3 DEF WaveBegins
  <2>2. copies' \in [Cycles -> Copies] /\ left' \in [Cycles -> SUBSET Causes]
    <3>1. Read \in Copies /\ \A c \in DOMAIN Read : Read[c].cause \in Causes \cup {Held}
      BY ReadCopies, CopiesOf DEF Copy
    <3> QED
      BY <2>1, <3>1
  <2>3. wave' \in [Cycles -> 0..MaxWaves]
    BY <2>1, <1>m
  <2> QED
    BY <2>1, <2>2, <2>3, <1>0
<1>4. ASSUME NEW k \in Cycles, NothingToDo(k) PROVE TypeOK'
  <2>1. Finish(k) /\ UNCHANGED <<queueVars, record, champion, todo, noted, reached, refused>>
    BY <1>4 DEF NothingToDo
  <2>2. /\ copies' \in [Cycles -> Copies] /\ left' \in [Cycles -> SUBSET Causes]
        /\ acted' \in [Cycles -> BOOLEAN] /\ plan' \in [Cycles -> [Causes -> Plans]]
        /\ wave' \in [Cycles -> 0..MaxWaves] /\ late' \in [Cycles -> 0..2]
        /\ aborted' \subseteq Cycles /\ halted' \subseteq aborted'
        /\ at' = [at EXCEPT ![k] = "dispatch"]
    BY <2>1, FinishedTypes
  <2> QED
    BY <2>1, <2>2, <1>0
<1>5. ASSUME NEW k \in Cycles, NextCause(k) PROVE TypeOK'
  <2>1. PICK b \in left[k] :
           /\ left' = [left EXCEPT ![k] = @ \ {b}]
           /\ \/ \E p \in {plan[k][b], Default[b]} :
                    Planned(k, b, p, {}) /\ UNCHANGED <<champion, active>>
              \/ /\ \E c \in Group(k, b) : champion' = [champion EXCEPT ![k] = c]
                 /\ at' = [at EXCEPT ![k] = "champion"]
                 /\ UNCHANGED <<plan, todo>>
    BY <1>5 DEF NextCause
  <2>2. UNCHANGED <<record, wave, copies, acted, noted, haltVars, reached, refused>>
    BY <1>5 DEF NextCause
  <2>3. left' \in [Cycles -> SUBSET Causes] /\ b \in Causes
    BY <2>1
  <2>4. plan[k][b] \in Plans /\ Default[b] \in Plans
    BY <2>3, WavesAssumption
  <2>5. CASE \E p \in {plan[k][b], Default[b]} :
                 Planned(k, b, p, {}) /\ UNCHANGED <<champion, active>>
    <3>1. /\ plan' \in [Cycles -> [Causes -> Plans]] /\ todo' \in [Cycles -> SUBSET Cases]
          /\ at' = [at EXCEPT ![k] = "launch"]
      BY <2>3, <2>4, <2>5, PlannedTypes
    <3> QED
      BY <2>2, <2>3, <2>5, <3>1, <1>0
  <2>6. CASE /\ \E c \in Group(k, b) : champion' = [champion EXCEPT ![k] = c]
             /\ at' = [at EXCEPT ![k] = "champion"]
             /\ UNCHANGED <<plan, todo>>
    <3>1. champion' \in [Cycles -> Cases \cup {NoCase}]
      BY <2>6, CopiesOf DEF Group
    <3> QED
      BY <2>2, <2>3, <2>6, <3>1, <1>0
  <2> QED
    BY <2>1, <2>5, <2>6
<1>6. ASSUME NEW k \in Cycles, ChampionEnds(k) PROVE TypeOK'
  <2> DEFINE b == copies[k][champion[k]].cause
  <2>1. b \in Causes /\ champion' = [champion EXCEPT ![k] = NoCase]
        /\ UNCHANGED <<record, wave, copies, left, acted, noted, haltVars, reached, refused>>
    BY <1>6 DEF ChampionEnds
  <2>2. \E p \in Plans : \E x : Planned(k, b, p, x)
    <3>1. Default[b] \in Plans
      BY <2>1, WavesAssumption
    <3>2. \A new \in Learned(k) : new \subseteq Rungs
      BY DEF Learned, Open, Records
    <3>3. \/ \E new \in Learned(k) \ {{}} :
                 \E p \in Distilled(b, new) : Planned(k, b, p, {champion[k]})
          \/ Planned(k, b, Default[b], {})
      BY <1>6 DEF ChampionEnds
    <3> HIDE DEF b
    <3> QED
      BY <2>1, <3>1, <3>2, <3>3, DistilledPlans
  <2> HIDE DEF b
  <2>3. /\ plan' \in [Cycles -> [Causes -> Plans]] /\ todo' \in [Cycles -> SUBSET Cases]
        /\ at' = [at EXCEPT ![k] = "launch"]
    BY <2>1, <2>2, PlannedTypes
  <2> QED
    BY <2>1, <2>3, <1>0
<1>7. ASSUME NEW k \in Cycles, ChampionTimesOut(k) PROVE TypeOK'
  <2> DEFINE b == copies[k][champion[k]].cause
  <2>1. /\ b \in Causes /\ champion' = [champion EXCEPT ![k] = NoCase]
        /\ Planned(k, b, Default[b], {})
        /\ UNCHANGED <<record, wave, copies, left, acted, noted, haltVars, reached, refused>>
    BY <1>7 DEF ChampionTimesOut
  <2> HIDE DEF b
  <2>2. Default[b] \in Plans
    BY <2>1, WavesAssumption
  <2>3. /\ plan' \in [Cycles -> [Causes -> Plans]] /\ todo' \in [Cycles -> SUBSET Cases]
        /\ at' = [at EXCEPT ![k] = "launch"]
    BY <2>1, <2>2, PlannedTypes
  <2> QED
    BY <2>1, <2>3, <1>0
<1>8. ASSUME NEW k \in Cycles, RunBegins(k) PROVE TypeOK'
  <2>1. /\ at' = [at EXCEPT ![k] = "run"]
        /\ UNCHANGED <<queueVars, record, wave, workVars, aborted, halted, reached, refused>>
    BY <1>8 DEF RunBegins
  <2>2. late' \in [Cycles -> 0..2]
    BY <1>8 DEF RunBegins
  <2> QED
    BY <2>1, <2>2, <1>0
<1>9. ASSUME NEW k \in Cycles, Work(k) PROVE TypeOK'
  <2>1. PICK c \in todo[k] :
           /\ todo' = [todo EXCEPT ![k] = @ \ {c}]
           /\ Act(k, c) \/ LeaveToAgent(k, c) \/ Skip
    BY <1>9 DEF Work
  <2>2. UNCHANGED <<queueVars, at, wave, copies, left, plan, champion, haltVars, refused>>
    BY <1>9 DEF Work
  <2>3. todo' \in [Cycles -> SUBSET Cases] /\ c \in Cases
    BY <2>1
  <2>4. CASE Act(k, c)
    <3>1. acted' \in [Cycles -> BOOLEAN] /\ UNCHANGED noted
      BY <2>4 DEF Act
    <3>2. copies[k][c] \in Copy
      BY <2>1, CopiesOf
    <3>3. NextRung(copies[k][c]) \in Rungs
      BY <2>4, <3>2, NextRungIsNew DEF Act, Copy
    <3>4. record' \in [Cases -> Records \cup {Paid, Closed}]
      BY <2>3, <2>4, <3>3, ClimbTypes DEF Act
    <3>5. reached' \in [Cases -> [Rungs -> 0..2]]
      BY <2>3, <2>4, ActReaches
    <3> QED
      BY <2>2, <2>3, <3>1, <3>4, <3>5, <1>0
  <2>5. CASE LeaveToAgent(k, c)
    BY <2>2, <2>3, <2>5, <1>0 DEF LeaveToAgent
  <2>6. CASE Skip
    BY <2>2, <2>3, <2>6, <1>0 DEF Skip
  <2> QED
    BY <2>1, <2>4, <2>5, <2>6
<1>10. ASSUME NEW k \in Cycles, RunEnds(k) PROVE TypeOK'
  BY <1>10, <1>0 DEF RunEnds
<1>11. ASSUME NEW k \in Cycles, CausesDone(k) PROVE TypeOK'
  <2>1. /\ noted' = [noted EXCEPT ![k] = @ \cup Group(k, Held)]
        /\ UNCHANGED <<queueVars, record, champion, todo, reached, refused>>
        /\ \/ Finish(k)
           \/ /\ at' = [at EXCEPT ![k] = "settle"]
              /\ UNCHANGED <<copies, left, plan, acted, wave, haltVars>>
    BY <1>11 DEF CausesDone
  <2>2. noted' \in [Cycles -> SUBSET Cases]
    BY <2>1, CopiesOf DEF Group
  <2>3. CASE Finish(k)
    <3>1. /\ copies' \in [Cycles -> Copies] /\ left' \in [Cycles -> SUBSET Causes]
          /\ acted' \in [Cycles -> BOOLEAN] /\ plan' \in [Cycles -> [Causes -> Plans]]
          /\ wave' \in [Cycles -> 0..MaxWaves] /\ late' \in [Cycles -> 0..2]
          /\ aborted' \subseteq Cycles /\ halted' \subseteq aborted'
          /\ at' = [at EXCEPT ![k] = "dispatch"]
      BY <2>3, FinishedTypes
    <3> QED
      BY <2>1, <2>2, <3>1, <1>0
  <2>4. CASE /\ at' = [at EXCEPT ![k] = "settle"]
             /\ UNCHANGED <<copies, left, plan, acted, wave, haltVars>>
    BY <2>1, <2>2, <2>4, <1>0
  <2> QED
    BY <2>1, <2>3, <2>4
<1>12. ASSUME NEW k \in Cycles, WaveEnds(k) PROVE TypeOK'
  <2>1. /\ UNCHANGED <<queueVars, record, champion, todo, noted, reached, refused>>
        /\ \/ Finish(k)
           \/ /\ at' = [at EXCEPT ![k] = "top"] /\ ForgetWave(k)
              /\ UNCHANGED <<plan, wave, haltVars>>
    BY <1>12 DEF WaveEnds
  <2>2. CASE Finish(k)
    <3>1. /\ copies' \in [Cycles -> Copies] /\ left' \in [Cycles -> SUBSET Causes]
          /\ acted' \in [Cycles -> BOOLEAN] /\ plan' \in [Cycles -> [Causes -> Plans]]
          /\ wave' \in [Cycles -> 0..MaxWaves] /\ late' \in [Cycles -> 0..2]
          /\ aborted' \subseteq Cycles /\ halted' \subseteq aborted'
          /\ at' = [at EXCEPT ![k] = "dispatch"]
      BY <2>2, FinishedTypes
    <3> QED
      BY <2>1, <3>1, <1>0
  <2>3. CASE /\ at' = [at EXCEPT ![k] = "top"] /\ ForgetWave(k)
             /\ UNCHANGED <<plan, wave, haltVars>>
    <3>1. /\ copies' \in [Cycles -> Copies] /\ left' \in [Cycles -> SUBSET Causes]
          /\ acted' \in [Cycles -> BOOLEAN]
      BY <2>3, ForgottenTypes
    <3> QED
      BY <2>1, <2>3, <3>1, <1>0
  <2> QED
    BY <2>1, <2>2, <2>3
<1>13. ASSUME NEW k \in Cycles, Dispatch(k) PROVE TypeOK'
  BY <1>13, <1>0 DEF Dispatch
<1>14. ASSUME NEW k \in Cycles, CycleEnds(k) PROVE TypeOK'
  BY <1>14, <1>0 DEF CycleEnds
<1>15. ASSUME NEW k \in Cycles, Submit(k) PROVE TypeOK'
  <2>1. refused' \subseteq Cases
    <3>1. submit[k].at = "put" => submit[k].case \in Cases
      BY DEF QueueTypeInv, Cycles
    <3> QED
      BY <1>15, <3>1 DEF Submit
  <2>2. UNCHANGED <<record, at, wave, workVars, haltVars, reached>>
    BY <1>15 DEF Submit
  <2> QED
    BY <2>1, <2>2, <1>0
<1>16. ASSUME NEW c \in Cases, AgentClimbs(c) PROVE TypeOK'
  <2>1. c \in Open /\ UNCHANGED <<queueVars, at, wave, workVars, haltVars, reached, refused>>
        /\ \E g : g = NextRung(record[c]) /\ g # "none" /\ Climb(c, g)
    BY <1>16 DEF AgentClimbs
  <2>2. record[c] \in Records
    BY <2>1 DEF Open
  <2>3. record' \in [Cases -> Records \cup {Paid, Closed}]
    BY <2>1, <2>2, NextRungIsNew, ClimbTypes DEF Records
  <2> QED
    BY <2>1, <2>3, <1>0
<1>17. ASSUME NEW c \in Cases, Pays(c) PROVE TypeOK'
  BY <1>17, <1>0 DEF Pays
<1>18. ASSUME NEW c \in Cases, Closes(c) PROVE TypeOK'
  BY <1>18, <1>0 DEF Closes
<1>19. ASSUME NEW c \in Cases, FailsAgain(c) PROVE TypeOK'
  <2>1. /\ c \in Open /\ UNCHANGED <<queueVars, at, wave, workVars, haltVars, reached, refused>>
        /\ \E b \in Causes :
              record' = [record EXCEPT ![c] = [@ EXCEPT !.cause = b, !.pending = FALSE]]
    BY <1>19 DEF FailsAgain
  <2>2. record[c] \in Records
    BY <2>1 DEF Open
  <2>3. record' \in [Cases -> Records \cup {Paid, Closed}]
    <3>1. ASSUME NEW b \in Causes
          PROVE  [record[c] EXCEPT !.cause = b, !.pending = FALSE] \in Records
      BY <2>2 DEF Records
    <3>2. PICK new \in Records : record' = [record EXCEPT ![c] = new]
      BY <2>1, <3>1
    <3> QED
      BY <3>2
  <2> QED
    BY <2>1, <2>3, <1>0
<1>20. ASSUME Sessions PROVE TypeOK'
  BY <1>20, <1>0 DEF Sessions
<1>21. ASSUME UNCHANGED vars PROVE TypeOK'
  BY <1>21, <1>0 DEF vars
<1> QED
  BY <1>1, <1>2, <1>3, <1>4, <1>5, <1>6, <1>7, <1>8, <1>9, <1>10, <1>11,
     <1>12, <1>13, <1>14, <1>15, <1>16, <1>17, <1>18, <1>19, <1>20, <1>21 DEF
     Next, Loop

LEMMA TypeStep == TypeInv /\ [Next]_vars => TypeInv'
BY QueueMoves, PhaseStep, TypeOKStep DEF TypeInv

\* Every variable keeps its type.
THEOREM TypeCorrect == Spec => []TypeOK
<1>1. TypeInv => TypeOK
  BY DEF TypeInv
<1> QED
  BY TypeInit, TypeStep, <1>1, PTL DEF Spec

LEMMA TypesHold == Spec => []TypeInv
BY TypeInit, TypeStep, PTL DEF Spec

-----------------------------------------------------------------------------
(* The queue, as the cycles use it.                                        *)

LEMMA QueueUnderCycles ==
    ASSUME TypeInv, QueueInv, [Next]_vars
    PROVE  QueueInv'
<1>a. active' \subseteq Cases
  BY QueueMoves DEF QueueTypeInv, QueueTypeOK
<1>b. QueueNext => QueueInv'
  BY QueueStep
<1>c. UNCHANGED <<line, seen, submit, work, session, raced>> => QueueInv'
  BY <1>a, QueueFrame
<1> USE DEF queueVars, Cycles
<1>1. ASSUME NEW k \in Cycles, Launch(k) PROVE QueueInv'
  BY <1>1, <1>b, <1>c DEF Launch
<1>2. ASSUME NEW k \in Cycles, Abort(k) PROVE QueueInv'
  BY <1>2, <1>b, <1>c DEF Abort
<1>3. ASSUME NEW k \in Cycles, WaveBegins(k) PROVE QueueInv'
  BY <1>3, <1>b, <1>c DEF WaveBegins
<1>4. ASSUME NEW k \in Cycles, NothingToDo(k) PROVE QueueInv'
  BY <1>4, <1>b, <1>c DEF NothingToDo
<1>5. ASSUME NEW k \in Cycles, NextCause(k) PROVE QueueInv'
  BY <1>5, <1>b, <1>c DEF NextCause
<1>6. ASSUME NEW k \in Cycles, ChampionEnds(k) PROVE QueueInv'
  BY <1>6, <1>b, <1>c DEF ChampionEnds
<1>7. ASSUME NEW k \in Cycles, ChampionTimesOut(k) PROVE QueueInv'
  BY <1>7, <1>b, <1>c DEF ChampionTimesOut
<1>8. ASSUME NEW k \in Cycles, RunBegins(k) PROVE QueueInv'
  BY <1>8, <1>b, <1>c DEF RunBegins
<1>9. ASSUME NEW k \in Cycles, Work(k) PROVE QueueInv'
  BY <1>9, <1>b, <1>c DEF Work
<1>10. ASSUME NEW k \in Cycles, RunEnds(k) PROVE QueueInv'
  BY <1>10, <1>b, <1>c DEF RunEnds
<1>11. ASSUME NEW k \in Cycles, CausesDone(k) PROVE QueueInv'
  BY <1>11, <1>b, <1>c DEF CausesDone
<1>12. ASSUME NEW k \in Cycles, WaveEnds(k) PROVE QueueInv'
  BY <1>12, <1>b, <1>c DEF WaveEnds
<1>13. ASSUME NEW k \in Cycles, Dispatch(k) PROVE QueueInv'
  <2>1. PICK c \in noted[k] : Look(k, c) \/ UNCHANGED queueVars
    BY <1>13 DEF Dispatch
  <2>2. c \in Cases
    BY DEF TypeInv, TypeOK
  <2> QED
    BY <2>1, <2>2, <1>b, <1>c DEF QueueNext
<1>14. ASSUME NEW k \in Cycles, CycleEnds(k) PROVE QueueInv'
  BY <1>14, <1>b, <1>c DEF CycleEnds
<1>15. ASSUME NEW k \in Cycles, Submit(k) PROVE QueueInv'
  BY <1>15, <1>b, <1>c DEF Submit, QueueNext
<1>16. ASSUME NEW c \in Cases, AgentClimbs(c) PROVE QueueInv'
  BY <1>16, <1>b, <1>c DEF AgentClimbs
<1>17. ASSUME NEW c \in Cases, Pays(c) PROVE QueueInv'
  BY <1>17, <1>b, <1>c DEF Pays
<1>18. ASSUME NEW c \in Cases, Closes(c) PROVE QueueInv'
  BY <1>18, <1>b, <1>c DEF Closes
<1>19. ASSUME NEW c \in Cases, FailsAgain(c) PROVE QueueInv'
  BY <1>19, <1>b, <1>c DEF FailsAgain
<1>20. ASSUME Sessions PROVE QueueInv'
  BY <1>20, <1>b, <1>c DEF Sessions, QueueNext
<1>21. ASSUME UNCHANGED vars PROVE QueueInv'
  BY <1>21, <1>b, <1>c DEF vars
<1> QED
  BY <1>1, <1>2, <1>3, <1>4, <1>5, <1>6, <1>7, <1>8, <1>9, <1>10, <1>11,
     <1>12, <1>13, <1>14, <1>15, <1>16, <1>17, <1>18, <1>19, <1>20, <1>21 DEF
     Next, Loop

\* The same of the queue that the wave cycles fill.
THEOREM SeenHaveTheirPlaces == Spec => []SeenHavePlaces
<1>1. Init => QueueInv
  BY QueueInit0 DEF Init
<1>2. TypeInv /\ QueueInv /\ [Next]_vars => QueueInv'
  BY QueueUnderCycles
<1> QED
  BY TypesHold, <1>1, <1>2, OrderlyPlaces, PTL DEF Spec

-----------------------------------------------------------------------------
(* A stopped cycle.                                                        *)

LEMMA AbortStep ==
    ASSUME TypeInv, AbortInv, [Next]_vars
    PROVE  AbortInv'
<1> USE DEF TypeInv, TypeOK, AbortInv, In, Goto, Running, workVars, haltVars
<1>1. ASSUME NEW k \in Cycles, Launch(k) PROVE AbortInv'
  BY <1>1 DEF Launch
<1>2. ASSUME NEW k \in Cycles, Abort(k) PROVE AbortInv'
  BY <1>2 DEF Abort
<1>3. ASSUME NEW k \in Cycles, WaveBegins(k) PROVE AbortInv'
  BY <1>3 DEF WaveBegins
<1>4. ASSUME NEW k \in Cycles, NothingToDo(k) PROVE AbortInv'
  BY <1>4 DEF NothingToDo, Finish, ForgetWave
<1>5. ASSUME NEW k \in Cycles, NextCause(k) PROVE AbortInv'
  BY <1>5 DEF NextCause, Planned, GoesOn
<1>6. ASSUME NEW k \in Cycles, ChampionEnds(k) PROVE AbortInv'
  BY <1>6 DEF ChampionEnds, Planned
<1>7. ASSUME NEW k \in Cycles, ChampionTimesOut(k) PROVE AbortInv'
  BY <1>7 DEF ChampionTimesOut, Planned
<1>8. ASSUME NEW k \in Cycles, RunBegins(k) PROVE AbortInv'
  BY <1>8 DEF RunBegins
<1>9. ASSUME NEW k \in Cycles, Work(k) PROVE AbortInv'
  BY <1>9 DEF Work
<1>10. ASSUME NEW k \in Cycles, RunEnds(k) PROVE AbortInv'
  BY <1>10 DEF RunEnds
<1>11. ASSUME NEW k \in Cycles, CausesDone(k) PROVE AbortInv'
  <2>1. CASE k \in aborted
    <3>1. /\ at' = [at EXCEPT ![k] = "dispatch"]
          /\ late' = [late EXCEPT ![k] = 0] /\ aborted' = aborted \ {k}
      BY <1>11, <2>1 DEF CausesDone, Finish
    <3> QED BY <3>1
  <2>2. CASE k \notin aborted
    <3>1. at' = [at EXCEPT ![k] = "settle"] /\ late' = late /\ aborted' = aborted
      BY <1>11, <2>2 DEF CausesDone
    <3> QED BY <2>2, <3>1
  <2> QED BY <2>1, <2>2
<1>12. ASSUME NEW k \in Cycles, WaveEnds(k) PROVE AbortInv'
  <2>1. /\ at[k] = "settle" /\ \E a : at' = [at EXCEPT ![k] = a]
        /\ \/ /\ late' = [late EXCEPT ![k] = 0] /\ aborted' = aborted \ {k}
           \/ late' = late /\ aborted' = aborted
    BY <1>12 DEF WaveEnds, Finish
  <2>2. late[k] = 0
    BY <2>1
  <2> QED BY <2>1, <2>2
<1>13. ASSUME NEW k \in Cycles, Dispatch(k) PROVE AbortInv'
  BY <1>13 DEF Dispatch
<1>14. ASSUME NEW k \in Cycles, CycleEnds(k) PROVE AbortInv'
  BY <1>14 DEF CycleEnds
<1>15. ASSUME NEW k \in Cycles, Submit(k) PROVE AbortInv'
  BY <1>15 DEF Submit
<1>16. ASSUME NEW c \in Cases, AgentClimbs(c) PROVE AbortInv'
  BY <1>16 DEF AgentClimbs
<1>17. ASSUME NEW c \in Cases, Pays(c) PROVE AbortInv'
  BY <1>17 DEF Pays
<1>18. ASSUME NEW c \in Cases, Closes(c) PROVE AbortInv'
  BY <1>18 DEF Closes
<1>19. ASSUME NEW c \in Cases, FailsAgain(c) PROVE AbortInv'
  BY <1>19 DEF FailsAgain
<1>20. ASSUME Sessions PROVE AbortInv'
  BY <1>20 DEF Sessions
<1>21. ASSUME UNCHANGED vars PROVE AbortInv'
  BY <1>21 DEF vars
<1> QED
  BY <1>1, <1>2, <1>3, <1>4, <1>5, <1>6, <1>7, <1>8, <1>9, <1>10, <1>11,
     <1>12, <1>13, <1>14, <1>15, <1>16, <1>17, <1>18, <1>19, <1>20, <1>21 DEF
     Next, Loop

\* A cycle that a person has stopped begins one more run at most, the one it was
\* about to launch, at whatever moment it was stopped.
THEOREM AbortIsHeard == Spec => []AbortLetsOneThrough
<1>1. Init => AbortInv
  BY DEF Init, AbortInv
<1>2. TypeInv /\ AbortInv /\ [Next]_vars => AbortInv'
  BY AbortStep
<1>3. TypeInv /\ AbortInv => AbortLetsOneThrough
  BY DEF TypeInv, TypeOK, AbortInv, AbortLetsOneThrough
<1> QED
  BY TypesHold, <1>1, <1>2, <1>3, PTL DEF Spec

-----------------------------------------------------------------------------
(* No rung twice.                                                          *)

RepeatInv == OneRunning /\ RecordsKnow /\ CopiesKnow /\ RunsRepeatNothing

LEMMA RunningStep ==
    ASSUME TypeInv, OneRunning, [Next]_vars
    PROVE  OneRunning'
<1> USE DEF TypeInv, TypeOK, OneRunning, In, Goto, Running
<1>1. ASSUME NEW k \in Cycles, Launch(k) PROVE OneRunning'
  BY <1>1 DEF Launch
<1>2. ASSUME NEW k \in Cycles, Abort(k) PROVE OneRunning'
  BY <1>2 DEF Abort
<1>3. ASSUME NEW k \in Cycles, WaveBegins(k) PROVE OneRunning'
  BY <1>3 DEF WaveBegins
<1>4. ASSUME NEW k \in Cycles, NothingToDo(k) PROVE OneRunning'
  BY <1>4 DEF NothingToDo, Finish
<1>5. ASSUME NEW k \in Cycles, NextCause(k) PROVE OneRunning'
  BY <1>5 DEF NextCause, Planned
<1>6. ASSUME NEW k \in Cycles, ChampionEnds(k) PROVE OneRunning'
  BY <1>6 DEF ChampionEnds, Planned
<1>7. ASSUME NEW k \in Cycles, ChampionTimesOut(k) PROVE OneRunning'
  BY <1>7 DEF ChampionTimesOut, Planned
<1>8. ASSUME NEW k \in Cycles, RunBegins(k) PROVE OneRunning'
  BY <1>8 DEF RunBegins
<1>9. ASSUME NEW k \in Cycles, Work(k) PROVE OneRunning'
  BY <1>9 DEF Work
<1>10. ASSUME NEW k \in Cycles, RunEnds(k) PROVE OneRunning'
  BY <1>10 DEF RunEnds
<1>11. ASSUME NEW k \in Cycles, CausesDone(k) PROVE OneRunning'
  BY <1>11 DEF CausesDone, Finish
<1>12. ASSUME NEW k \in Cycles, WaveEnds(k) PROVE OneRunning'
  BY <1>12 DEF WaveEnds, Finish
<1>13. ASSUME NEW k \in Cycles, Dispatch(k) PROVE OneRunning'
  BY <1>13 DEF Dispatch
<1>14. ASSUME NEW k \in Cycles, CycleEnds(k) PROVE OneRunning'
  BY <1>14 DEF CycleEnds
<1>15. ASSUME NEW k \in Cycles, Submit(k) PROVE OneRunning'
  BY <1>15 DEF Submit
<1>16. ASSUME NEW c \in Cases, AgentClimbs(c) PROVE OneRunning'
  BY <1>16 DEF AgentClimbs
<1>17. ASSUME NEW c \in Cases, Pays(c) PROVE OneRunning'
  BY <1>17 DEF Pays
<1>18. ASSUME NEW c \in Cases, Closes(c) PROVE OneRunning'
  BY <1>18 DEF Closes
<1>19. ASSUME NEW c \in Cases, FailsAgain(c) PROVE OneRunning'
  BY <1>19 DEF FailsAgain
<1>20. ASSUME Sessions PROVE OneRunning'
  BY <1>20 DEF Sessions
<1>21. ASSUME UNCHANGED vars PROVE OneRunning'
  BY <1>21 DEF vars
<1> QED
  BY <1>1, <1>2, <1>3, <1>4, <1>5, <1>6, <1>7, <1>8, <1>9, <1>10, <1>11,
     <1>12, <1>13, <1>14, <1>15, <1>16, <1>17, <1>18, <1>19, <1>20, <1>21 DEF
     Next, Loop

\* A step that climbs nothing, and leaves of what a cycle has before it the rest.
LEMMA CopiesFrame ==
    ASSUME CopiesKnow, UNCHANGED reached, NEW k \in Cycles,
           \A j \in Cycles \ {k} :
               /\ at'[j] = at[j] /\ copies'[j] = copies[j] /\ left'[j] = left[j]
               /\ todo'[j] = todo[j] /\ champion'[j] = champion[j],
           \A c \in ToCome(k)' : c \in ToCome(k) /\ copies'[k][c] = copies[k][c]
    PROVE  CopiesKnow'
<1>1. \A j \in Cycles \ {k} : ToCome(j)' = ToCome(j)
  BY DEF ToCome, In
<1> QED
  BY <1>1 DEF CopiesKnow

\* Nor does one that forgets the wave.
LEMMA CopiesForgotten ==
    ASSUME TypeInv, CopiesKnow, UNCHANGED reached, NEW k \in Cycles, ForgetWave(k),
           UNCHANGED <<todo, champion>>, NEW phase, Goto(k, phase)
    PROVE  CopiesKnow'
<1>1. copies' = [copies EXCEPT ![k] = <<>>] /\ left' = [left EXCEPT ![k] = {}]
      /\ at' = [at EXCEPT ![k] = phase]
  BY DEF ForgetWave, Goto
<1>2. copies'[k] = <<>>
  BY <1>1 DEF TypeInv, TypeOK
<1>3. ToCome(k)' = {}
  BY <1>2, NoCopies DEF ToCome
<1> QED
  BY <1>1, <1>3, CopiesFrame DEF TypeInv, TypeOK

\* Once a cause is planned, a cycle has its cases before it as it had before.
LEMMA CopiesPlanned ==
    ASSUME TypeInv, CopiesKnow, UNCHANGED <<reached, copies>>, NEW k \in Cycles,
           NEW b, NEW p, NEW x, Planned(k, b, p, x),
           \A c \in Group(k, b) : c \in ToCome(k),
           left' = left \/ left' = [left EXCEPT ![k] = @ \ {b}],
           champion' = champion \/ champion' = [champion EXCEPT ![k] = NoCase]
    PROVE  CopiesKnow'
<1>1. /\ todo' = [todo EXCEPT ![k] = Group(k, b) \ x] /\ at' = [at EXCEPT ![k] = "launch"]
  BY DEF Planned, Goto
<1>2. at'[k] = "launch" /\ todo'[k] \subseteq Group(k, b) /\ left'[k] \subseteq left[k]
  BY <1>1 DEF TypeInv, TypeOK
<1>3. \A c \in ToCome(k)' : c \in ToCome(k) /\ copies'[k][c] = copies[k][c]
  BY <1>2 DEF ToCome, In
<1>4. \A j \in Cycles \ {k} :
          /\ at'[j] = at[j] /\ copies'[j] = copies[j] /\ left'[j] = left[j]
          /\ todo'[j] = todo[j] /\ champion'[j] = champion[j]
  BY <1>1 DEF TypeInv, TypeOK
<1> QED
  BY <1>3, <1>4, CopiesFrame

LEMMA CopiesSame ==
    ASSUME TypeInv, CopiesKnow, UNCHANGED <<at, copies, left, todo, champion>>,
           \A c \in Cases, g \in Rungs : reached'[c][g] > 0 => reached[c][g] > 0
    PROVE  CopiesKnow'
<1>1. \A k \in Cycles : ToCome(k)' = ToCome(k) /\ ToCome(k) \subseteq Cases
  BY CopiesOf DEF ToCome, In, TypeInv, TypeOK
<1> QED
  BY <1>1 DEF CopiesKnow

LEMMA CopiesStep ==
    ASSUME TypeInv, RepeatInv, [Next]_vars, ~\E k \in Cycles : Work(k)
    PROVE  CopiesKnow'
<1> USE DEF RepeatInv, workVars, haltVars
<1>a. ASSUME NEW k \in Cycles, NEW phase, phase # "champion", Goto(k, phase),
             UNCHANGED <<copies, left, todo, champion, reached>>
      PROVE  CopiesKnow'
  <2>1. at'[k] = phase /\ \A j \in Cycles \ {k} : at'[j] = at[j]
    BY <1>a DEF Goto, TypeInv, TypeOK
  <2>2. \A c \in ToCome(k)' : c \in ToCome(k)
    BY <1>a, <2>1 DEF ToCome, In
  <2> QED
    BY <1>a, <2>1, <2>2, CopiesFrame
<1>b. UNCHANGED <<at, copies, left, todo, champion, reached>> => CopiesKnow'
  BY CopiesSame
<1>1. ASSUME NEW k \in Cycles, Launch(k) \/ RunBegins(k) \/ RunEnds(k) \/ CycleEnds(k)
      PROVE  CopiesKnow'
  BY <1>1, <1>a DEF Launch, RunBegins, RunEnds, CycleEnds
<1>2. ASSUME NEW k \in Cycles, Abort(k) \/ Dispatch(k) \/ Submit(k) PROVE CopiesKnow'
  BY <1>2, <1>b DEF Abort, Dispatch, Submit
<1>3. ASSUME NEW k \in Cycles, WaveBegins(k) PROVE CopiesKnow'
  <2>1. /\ at[k] = "top" /\ at' = [at EXCEPT ![k] = "causes"]
        /\ copies' = [copies EXCEPT ![k] = Read]
        /\ left' = [left EXCEPT ![k] = {Read[c].cause : c \in DOMAIN Read} \ {Held}]
        /\ UNCHANGED <<champion, todo, reached>>
    BY <1>3 DEF WaveBegins, In, Goto
  <2>2. \A j \in Cycles \ {k} : ToCome(j)' = ToCome(j) /\ copies'[j] = copies[j]
    BY <2>1 DEF ToCome, In, TypeInv, TypeOK
  <2>3. copies'[k] = Read /\ ToCome(k)' \subseteq Open
    BY <2>1, ReadCopies DEF ToCome, TypeInv, TypeOK
  <2>4. \A c \in Open, g \in Rungs : reached'[c][g] > 0 => g \in copies'[k][c].climbed
    BY <2>1, <2>3, ReadCopies DEF RecordsKnow, TypeInv, TypeOK
  <2> QED
    BY <2>1, <2>2, <2>3, <2>4 DEF CopiesKnow
<1>4. ASSUME NEW k \in Cycles, NothingToDo(k) PROVE CopiesKnow'
  BY <1>4, CopiesForgotten DEF NothingToDo, Finish
<1>5. ASSUME NEW k \in Cycles, NextCause(k) PROVE CopiesKnow'
  <2>1. PICK b \in left[k] :
           /\ left' = [left EXCEPT ![k] = @ \ {b}]
           /\ \/ \E p : Planned(k, b, p, {}) /\ UNCHANGED champion
              \/ /\ \E c \in Group(k, b) : champion' = [champion EXCEPT ![k] = c]
                 /\ at' = [at EXCEPT ![k] = "champion"]
                 /\ UNCHANGED todo
    BY <1>5 DEF NextCause, Goto
  <2>2. UNCHANGED <<reached, copies>>
    BY <1>5 DEF NextCause
  <2>3. \A c \in Group(k, b) : c \in ToCome(k)
    BY DEF Group, ToCome
  <2>4. CASE \E p : Planned(k, b, p, {}) /\ UNCHANGED champion
    BY <2>1, <2>2, <2>3, <2>4, CopiesPlanned
  <2>5. CASE /\ \E c \in Group(k, b) : champion' = [champion EXCEPT ![k] = c]
             /\ at' = [at EXCEPT ![k] = "champion"]
             /\ UNCHANGED todo
    <3>1. copies'[k][champion'[k]].cause = b /\ left'[k] \subseteq left[k]
      BY <2>1, <2>2, <2>5 DEF Group, TypeInv, TypeOK
    <3>2. \A c \in ToCome(k)' : c \in ToCome(k)
      BY <2>2, <2>3, <2>5, <3>1 DEF ToCome, Group
    <3>3. \A j \in Cycles \ {k} :
              /\ at'[j] = at[j] /\ copies'[j] = copies[j] /\ left'[j] = left[j]
              /\ todo'[j] = todo[j] /\ champion'[j] = champion[j]
      BY <2>1, <2>2, <2>5 DEF TypeInv, TypeOK
    <3> QED
      BY <2>2, <3>2, <3>3, CopiesFrame
  <2> QED
    BY <2>1, <2>4, <2>5
<1>6. ASSUME NEW k \in Cycles, ChampionEnds(k) \/ ChampionTimesOut(k) PROVE CopiesKnow'
  <2> DEFINE b == copies[k][champion[k]].cause
  <2>1. /\ at[k] = "champion" /\ UNCHANGED <<reached, copies, left>>
        /\ champion' = [champion EXCEPT ![k] = NoCase]
        /\ \E p, x : Planned(k, b, p, x)
    BY <1>6 DEF ChampionEnds, ChampionTimesOut, In
  <2>2. \A c \in Group(k, b) : c \in ToCome(k)
    BY <2>1 DEF Group, ToCome, In
  <2> HIDE DEF b
  <2> QED
    BY <2>1, <2>2, CopiesPlanned
<1>7. ASSUME NEW k \in Cycles, CausesDone(k) PROVE CopiesKnow'
  <2>1. \/ Finish(k) /\ UNCHANGED <<champion, todo, reached>>
        \/ Goto(k, "settle") /\ UNCHANGED <<copies, left, todo, champion, reached>>
    BY <1>7 DEF CausesDone
  <2> QED
    BY <2>1, <1>a, CopiesForgotten DEF Finish
<1>8. ASSUME NEW k \in Cycles, WaveEnds(k) PROVE CopiesKnow'
  <2>1. /\ UNCHANGED <<champion, todo, reached>>
        /\ \/ Finish(k)
           \/ Goto(k, "top") /\ ForgetWave(k)
    BY <1>8 DEF WaveEnds
  <2> QED
    BY <2>1, CopiesForgotten DEF Finish
<1>9. ASSUME NEW c \in Cases, AgentClimbs(c) \/ Closes(c) \/ FailsAgain(c) PROVE CopiesKnow'
  BY <1>9, <1>b DEF AgentClimbs, Closes, FailsAgain
<1>10. ASSUME NEW c \in Cases, Pays(c) PROVE CopiesKnow'
  <2>1. UNCHANGED <<at, copies, left, todo, champion>>
    BY <1>10 DEF Pays
  <2>2. \A d \in Cases, g \in Rungs : reached'[d][g] > 0 => reached[d][g] > 0
    BY <1>10 DEF Pays, TypeInv, TypeOK
  <2> QED
    BY <2>1, <2>2, CopiesSame
<1>11. ASSUME Sessions \/ UNCHANGED vars PROVE CopiesKnow'
  BY <1>11, <1>b DEF Sessions, vars
<1> QED
  BY <1>1, <1>2, <1>3, <1>4, <1>5, <1>6, <1>7, <1>8, <1>9, <1>10, <1>11 DEF Next, Loop

\* The records lose nothing that was climbed, and the money ends the counting.
LEMMA RecordsStep ==
    ASSUME TypeInv, RepeatInv, [Next]_vars, ~\E k \in Cycles : Work(k)
    PROVE  RecordsKnow' /\ RunsRepeatNothing'
<1> USE DEF RepeatInv, RecordsKnow, RunsRepeatNothing, workVars, haltVars
<1>a. UNCHANGED <<record, reached>> => RecordsKnow' /\ RunsRepeatNothing'
  BY DEF Open
<1>1. ASSUME NEW c \in Cases, AgentClimbs(c) PROVE RecordsKnow' /\ RunsRepeatNothing'
  <2>1. /\ c \in Open /\ UNCHANGED reached
        /\ \E g : record' = [record EXCEPT ![c].climbed = @ \cup {g},
                                           ![c].pending = @ \/ g = "silent_retry"]
    BY <1>1 DEF AgentClimbs, Climb
  <2>2. record[c] \in Records /\ record \in [Cases -> Records \cup {Paid, Closed}]
    BY <2>1 DEF Open, TypeInv, TypeOK
  <2>3. /\ record[c].climbed \subseteq record'[c].climbed
        /\ \A d \in Cases \ {c} : record'[d] = record[d]
    BY <2>1, <2>2 DEF Records
  <2>4. Open' \subseteq Open
    BY <2>1, <2>3 DEF Open
  <2> QED
    BY <2>1, <2>3, <2>4 DEF Open
<1>2. ASSUME NEW c \in Cases, Pays(c) PROVE RecordsKnow' /\ RunsRepeatNothing'
  <2>1. /\ record' = [record EXCEPT ![c] = Paid]
        /\ reached' = [reached EXCEPT ![c] = [g \in Rungs |-> 0]]
    BY <1>2 DEF Pays
  <2>2. record \in [Cases -> Records \cup {Paid, Closed}] /\ reached \in [Cases -> [Rungs -> 0..2]]
    BY DEF TypeInv, TypeOK
  <2> QED
    BY <2>1, <2>2 DEF Open
<1>3. ASSUME NEW c \in Cases, Closes(c) PROVE RecordsKnow' /\ RunsRepeatNothing'
  <2>1. record' = [record EXCEPT ![c] = Closed] /\ UNCHANGED reached
    BY <1>3 DEF Closes
  <2>2. record \in [Cases -> Records \cup {Paid, Closed}]
    BY DEF TypeInv, TypeOK
  <2> QED
    BY <2>1, <2>2 DEF Open
<1>4. ASSUME NEW c \in Cases, FailsAgain(c) PROVE RecordsKnow' /\ RunsRepeatNothing'
  <2>1. /\ c \in Open /\ UNCHANGED reached
        /\ \E b \in Causes :
              record' = [record EXCEPT ![c] = [@ EXCEPT !.cause = b, !.pending = FALSE]]
    BY <1>4 DEF FailsAgain
  <2>2. record[c] \in Records /\ record \in [Cases -> Records \cup {Paid, Closed}]
    BY <2>1 DEF Open, TypeInv, TypeOK
  <2>3. /\ record[c].climbed = record'[c].climbed
        /\ \A d \in Cases \ {c} : record'[d] = record[d]
    BY <2>1, <2>2 DEF Records
  <2>4. Open' \subseteq Open
    BY <2>1, <2>3 DEF Open
  <2> QED
    BY <2>1, <2>3, <2>4 DEF Open
<1>5. ASSUME NEW k \in Cycles, Launch(k) \/ Abort(k) \/ ChampionEnds(k) \/ Submit(k)
      PROVE  RecordsKnow' /\ RunsRepeatNothing'
  BY <1>5, <1>a DEF Launch, Abort, ChampionEnds, Submit
<1>6. ASSUME NEW k \in Cycles, Loop(k) PROVE RecordsKnow' /\ RunsRepeatNothing'
  <2>1. UNCHANGED <<record, reached>>
    BY <1>6 DEF Loop, WaveBegins, NothingToDo, NextCause, ChampionTimesOut, RunBegins,
                RunEnds, CausesDone, WaveEnds, Dispatch, CycleEnds
  <2> QED
    BY <2>1, <1>a
<1>7. ASSUME Sessions \/ UNCHANGED vars PROVE RecordsKnow' /\ RunsRepeatNothing'
  BY <1>7, <1>a DEF Sessions, vars
<1> QED
  BY <1>1, <1>2, <1>3, <1>4, <1>5, <1>6, <1>7 DEF Next

\* A run climbs a rung that neither the copy of the case nor, therefore, any run
\* before it knows of; and the case is not before the cycle any more.
LEMMA WorkStep ==
    ASSUME TypeInv, RepeatInv, NEW k \in Cycles, Work(k)
    PROVE  RecordsKnow' /\ CopiesKnow' /\ RunsRepeatNothing'
<1> USE DEF RepeatInv
<1>1. PICK c \in todo[k] :
         /\ todo' = [todo EXCEPT ![k] = @ \ {c}]
         /\ Act(k, c) \/ LeaveToAgent(k, c) \/ Skip
  BY DEF Work
<1>2. at[k] = "run" /\ UNCHANGED <<at, copies, left, champion>>
  BY DEF Work, In
<1>3. /\ c \in DOMAIN copies[k] /\ c \in Cases /\ c \in ToCome(k)
      /\ copies[k][c].cause \notin left[k]
  BY DEF TypeInv, TypeOK, PhaseInv, ToCome
<1>4. c \notin ToCome(k)' /\ ToCome(k)' \subseteq ToCome(k) /\ ToCome(k)' \subseteq Cases
  <2>1. todo'[k] = todo[k] \ {c}
    BY <1>1 DEF TypeInv, TypeOK
  <2>2. DOMAIN copies[k] \subseteq Cases
    BY CopiesOf DEF TypeInv, TypeOK
  <2> QED
    BY <1>2, <1>3, <2>1, <2>2 DEF ToCome, In
<1>5. \A j \in Cycles \ {k} : todo'[j] = todo[j] /\ ToCome(j)' = {}
  <2> SUFFICES ASSUME NEW j \in Cycles \ {k} PROVE todo'[j] = todo[j] /\ ToCome(j)' = {}
    OBVIOUS
  <2>1. todo'[j] = todo[j]
    BY <1>1 DEF TypeInv, TypeOK
  <2>2. ~Running(j)
    BY <1>2 DEF OneRunning, Running
  <2>3. todo[j] = {} /\ left[j] = {} /\ at[j] # "champion"
    BY <2>2 DEF TypeInv, PhaseInv, Running
  <2> QED
    BY <1>2, <2>1, <2>3 DEF ToCome, In
<1>6. CASE UNCHANGED <<record, reached>>
  <2>1. RecordsKnow' /\ RunsRepeatNothing'
    BY <1>6 DEF RecordsKnow, RunsRepeatNothing, Open
  <2>2. CopiesKnow'
    BY <1>2, <1>4, <1>5, <1>6 DEF CopiesKnow
  <2> QED
    BY <2>1, <2>2
<1>7. CASE Act(k, c) /\ ~UNCHANGED <<record, reached>>
  <2> DEFINE g == NextRung(copies[k][c])
  <2>1. /\ g # "none"
        /\ reached' = [reached EXCEPT ![c][g] =
                          IF reached[c][g] = 2 THEN 2 ELSE reached[c][g] + 1]
        /\ IF c \in Open THEN Climb(c, g) ELSE UNCHANGED record
    BY <1>7 DEF Act
  <2>2. copies[k][c] \in Copy
    BY <1>3, CopiesOf DEF TypeInv, TypeOK
  <2>3. g \in Rungs /\ g \notin copies[k][c].climbed
    BY <2>1, <2>2, NextRungIsNew DEF Copy
  <2> HIDE DEF g
  <2>4. reached[c][g] = 0
    <3>1. reached[c][g] \in 0..2
      BY <1>3, <2>3 DEF TypeInv, TypeOK
    <3>2. ~(reached[c][g] > 0)
      BY <1>3, <2>3 DEF CopiesKnow
    <3> QED
      BY <3>1, <3>2
  <2>5. /\ reached'[c][g] = 1
        /\ \A h \in Rungs \ {g} : reached'[c][h] = reached[c][h]
        /\ \A d \in Cases \ {c} : reached'[d] = reached[d]
    <3>1. reached \in [Cases -> [Rungs -> 0..2]]
      BY DEF TypeInv, TypeOK
    <3>2. reached' = [reached EXCEPT ![c][g] = 1]
      BY <2>1, <2>4
    <3> QED
      BY <1>3, <2>3, <3>1, <3>2
  <2>6. RunsRepeatNothing'
    BY <2>5 DEF RunsRepeatNothing
  <2>7. CopiesKnow'
    BY <1>2, <1>4, <1>5, <2>5 DEF CopiesKnow
  <2>8. RecordsKnow'
    <3>1. CASE c \in Open
      <4>1. record[c] \in Records /\ record \in [Cases -> Records \cup {Paid, Closed}]
        BY <3>1 DEF Open, TypeInv, TypeOK
      <4>2. record' = [record EXCEPT ![c].climbed = @ \cup {g},
                                     ![c].pending = @ \/ g = "silent_retry"]
        BY <2>1, <3>1 DEF Climb
      <4>3. /\ record[c].climbed \subseteq record'[c].climbed /\ g \in record'[c].climbed
            /\ \A d \in Cases \ {c} : record'[d] = record[d]
        BY <1>3, <4>1, <4>2 DEF Records
      <4>4. Open' \subseteq Open
        BY <3>1, <4>3 DEF Open
      <4> QED
        BY <2>5, <4>3, <4>4 DEF RecordsKnow, Open
    <3>2. CASE c \notin Open
      <4>1. UNCHANGED record /\ Open' = Open
        BY <2>1, <3>2 DEF Open
      <4> QED
        BY <2>5, <3>2, <4>1 DEF RecordsKnow, Open
    <3> QED
      BY <3>1, <3>2
  <2> QED
    BY <2>6, <2>7, <2>8
<1> QED
  BY <1>1, <1>6, <1>7 DEF LeaveToAgent, Skip

\* "The ladder forbids repeating a rung" (waves.py:28): no run climbs a rung of a
\* case that a run has climbed before, in whatever wave or cycle, under whatever
\* cause, whatever the agent, a champion or the customer did in between.
THEOREM RungsAreClimbedOnce == Spec => []RunsRepeatNothing
<1>1. Init => RepeatInv
  BY NoCopies DEF Init, RepeatInv, OneRunning, Running, RecordsKnow, CopiesKnow, ToCome, In,
                  RunsRepeatNothing, Open
<1>2. TypeInv /\ RepeatInv /\ [Next]_vars => RepeatInv'
  BY RunningStep, CopiesStep, RecordsStep, WorkStep DEF RepeatInv
<1>3. RepeatInv => RunsRepeatNothing
  BY DEF RepeatInv
<1> QED
  BY TypesHold, <1>1, <1>2, <1>3, PTL DEF Spec
=============================================================================
