-------------------------- MODULE BatchRunsProofs --------------------------
(***************************************************************************)
(* Proofs about BatchRuns, for any batch, plan, budget, number of workers  *)
(* and number of runs.                                                     *)
(***************************************************************************)
EXTENDS BatchRuns, FiniteSetTheorems, TLAPS

Busy(r, w) == work[r][w].at # "idle"
Acting == {"link", "notify", "retry", "rung", "stamp"}
BeforeSending == {"precheck", "reserve", "link", "notify", "retry"}

Workings == [Runs -> [Workers -> [at : Places, case : Cases \cup {NoCase}]]]

\* A worker is where the plan of its case sends it.
Fits(place, c) ==
    /\ PlanFor[c] # "none"
    /\ place = "link" => PlanFor[c] = "link_and_notify"
    /\ place = "notify" => PlanFor[c] # "retry"
    /\ place = "retry" => PlanFor[c] = "retry"

\* What a worker of r has in hand is a case of its own that is not decided,
\* and whose message is sent when its rung is recorded and not before.
HandOK(r, w) ==
    /\ Live(r) /\ CaseOf(r, w) \in Cases
    /\ outcome[r][CaseOf(r, w)] = "none" /\ CaseOf(r, w) \notin todo[r]
    /\ Fits(work[r][w].at, CaseOf(r, w))
    /\ work[r][w].at \in BeforeSending => CaseOf(r, w) \notin sent[r]
    /\ work[r][w].at = "rung" => CaseOf(r, w) \in sent[r]
    /\ work[r][w].at = "stamp" /\ NeedsEmail(CaseOf(r, w)) = 1
           => CaseOf(r, w) \in sent[r]
    /\ \A v \in Workers : Busy(r, v) /\ CaseOf(r, v) = CaseOf(r, w) => v = w

\* Nothing was done about a case that nobody has picked.
TodoOK(r) == \A c \in todo[r] : outcome[r][c] = "none" /\ c \notin sent[r]
NewOK(r) ==
    status[r] = "new" => sent[r] = {} /\ \A c \in Cases : outcome[r][c] = "none"

HandsInv ==
    \A r \in Runs :
        /\ \A w \in Workers : Busy(r, w) => HandOK(r, w)
        /\ TodoOK(r) /\ NewOK(r)

\* A streak is made of exceptions.
Exceptions(r) == {c \in Cases : outcome[r][c] = "exception"}
StreakCounts == \A r \in Runs : streak[r] <= Cardinality(Exceptions(r))

TypeInv == TypeOK /\ HandsInv /\ StreakCounts

-----------------------------------------------------------------------------
(* What the helpers of the actions do                                      *)

LEMMA Needs ==
    \A c \in Cases : NeedsLink(c) \in 0..1 /\ NeedsEmail(c) \in 0..1
  BY DEF NeedsLink, NeedsEmail

LEMMA GoEffect ==
    ASSUME TypeOK, NEW r \in Runs, NEW w \in Workers, NEW place \in Places,
           Go(r, w, place)
    PROVE  /\ work' \in Workings
           /\ work'[r][w] = [at |-> place, case |-> CaseOf(r, w)]
           /\ \A o \in Runs, v \in Workers : (o # r \/ v # w) => work'[o][v] = work[o][v]
  <1>1. work[r][w] \in [at : Places, case : Cases \cup {NoCase}]
    BY DEF TypeOK
  <1>2. [work[r][w] EXCEPT !.at = place] = [at |-> place, case |-> CaseOf(r, w)]
    BY <1>1 DEF CaseOf
  <1>3. work' = [work EXCEPT ![r][w] = [at |-> place, case |-> CaseOf(r, w)]]
    BY <1>2 DEF Go, TypeOK
  <1>4. CaseOf(r, w) \in Cases \cup {NoCase}
    BY <1>1 DEF CaseOf
  <1> QED
    BY <1>3, <1>4 DEF TypeOK, Workings

LEMMA DecideEffect ==
    ASSUME TypeOK, NEW r \in Runs, NEW w \in Workers, NEW what \in Outcomes,
           Decide(r, w, what)
    PROVE  /\ work' \in Workings
           /\ work'[r][w] = Idle
           /\ \A o \in Runs, v \in Workers : (o # r \/ v # w) => work'[o][v] = work[o][v]
           /\ outcome' \in [Runs -> [Cases -> Outcomes \cup {"none"}]]
           /\ outcome'[r] = [outcome[r] EXCEPT ![CaseOf(r, w)] = what]
           /\ \A o \in Runs \ {r} : outcome'[o] = outcome[o] /\ streak'[o] = streak[o]
           /\ streak' \in [Runs -> Nat]
           /\ streak'[r] = IF what = "acted" THEN 0
                           ELSE IF what = "exception" THEN streak[r] + 1 ELSE streak[r]
  <1>1. Idle \in [at : Places, case : Cases \cup {NoCase}]
    BY DEF Idle, Places
  <1>2. /\ work' \in Workings
        /\ work'[r][w] = Idle
        /\ \A o \in Runs, v \in Workers : (o # r \/ v # w) => work'[o][v] = work[o][v]
    BY <1>1 DEF TypeOK, Decide, Workings
  <1>3. /\ outcome' \in [Runs -> [Cases -> Outcomes \cup {"none"}]]
        /\ outcome'[r] = [outcome[r] EXCEPT ![CaseOf(r, w)] = what]
        /\ \A o \in Runs \ {r} : outcome'[o] = outcome[o]
    BY DEF TypeOK, Decide
  <1>4. streak \in [Runs -> Nat]
    BY FiniteAssumption, FS_CardinalityType DEF TypeOK
  <1>5. /\ \A o \in Runs \ {r} : streak'[o] = streak[o]
        /\ streak' \in [Runs -> Nat]
        /\ streak'[r] = IF what = "acted" THEN 0
                        ELSE IF what = "exception" THEN streak[r] + 1 ELSE streak[r]
    BY <1>4 DEF Decide
  <1> QED
    BY <1>2, <1>3, <1>5

-----------------------------------------------------------------------------
(* Hands                                                                   *)

LEMMA InitHands == Init => HandsInv
  BY DEF Init, HandsInv, Busy, Idle, TodoOK, NewOK

\* Nothing about the work of a run changes; it may be opened or closed.
LEMMA QuietHands ==
    ASSUME TypeOK, HandsInv, UNCHANGED <<todo, work, outcome, sent, status>>
    PROVE  HandsInv'
  BY DEF HandsInv, HandOK, TodoOK, NewOK, Busy, CaseOf, Live

LEMMA OpenHands ==
    ASSUME TypeOK, HandsInv, NEW r \in Runs, Open(r)
    PROVE  HandsInv'
  <1>1. /\ status[r] = "new" /\ UNCHANGED <<work, outcome, sent>>
        /\ status' = [status EXCEPT ![r] = "running"]
        /\ todo' = [todo EXCEPT ![r] = Cases \ paid]
    BY DEF Open, tools
  <1>2. \A w \in Workers : ~Busy(r, w)
    BY <1>1 DEF HandsInv, HandOK, Live
  <1>3. ASSUME NEW o \in Runs
        PROVE  TodoOK(o)' /\ NewOK(o)'
    BY <1>1 DEF TypeOK, HandsInv, TodoOK, NewOK
  <1>4. ASSUME NEW o \in Runs, NEW w \in Workers, Busy(o, w)'
        PROVE  HandOK(o, w)'
    <2>1. Busy(o, w) /\ o # r
      BY <1>1, <1>2, <1>4 DEF Busy
    <2>2. HandOK(o, w) /\ status'[o] = status[o] /\ todo'[o] = todo[o]
      BY <1>1, <2>1 DEF HandsInv, TypeOK
    <2> QED
      BY <1>1, <2>2 DEF HandOK, Busy, CaseOf, Live
  <1> QED
    BY <1>3, <1>4 DEF HandsInv

LEMMA CloseHands ==
    ASSUME TypeOK, HandsInv, NEW r \in Runs, Close(r)
    PROVE  HandsInv'
  <1>1. /\ UNCHANGED <<work, outcome, sent, todo>> /\ status'[r] # "new"
        /\ \A o \in Runs \ {r} : status'[o] = status[o]
        /\ \A w \in Workers : ~Busy(r, w)
    BY DEF Close, tools, TypeOK, Busy, Idle
  <1>2. ASSUME NEW o \in Runs
        PROVE  TodoOK(o)' /\ NewOK(o)'
    BY <1>1 DEF HandsInv, TodoOK, NewOK
  <1>3. ASSUME NEW o \in Runs, NEW w \in Workers, Busy(o, w)'
        PROVE  HandOK(o, w)'
    <2>1. Busy(o, w) /\ o # r
      BY <1>1, <1>3 DEF Busy
    <2>2. HandOK(o, w) /\ status'[o] = status[o]
      BY <1>1, <2>1 DEF HandsInv
    <2> QED
      BY <1>1, <2>2 DEF HandOK, Busy, CaseOf, Live
  <1> QED
    BY <1>2, <1>3 DEF HandsInv

\* A worker leaves its case with a decision.
LEMMA DecideHands ==
    ASSUME TypeOK, HandsInv, NEW r \in Runs, NEW w \in Workers, Busy(r, w),
           NEW what \in Outcomes, Decide(r, w, what), UNCHANGED <<todo, sent, status>>
    PROVE  HandsInv'
  <1> DEFINE c == CaseOf(r, w)
  <1>1. HandOK(r, w)
    BY DEF HandsInv
  <1>2. /\ work'[r][w] = Idle
        /\ \A o \in Runs, v \in Workers : (o # r \/ v # w) => work'[o][v] = work[o][v]
        /\ outcome'[r] = [outcome[r] EXCEPT ![c] = what]
        /\ \A o \in Runs \ {r} : outcome'[o] = outcome[o]
    BY DecideEffect
  <1>3. \A d \in Cases \ {c} : outcome'[r][d] = outcome[r][d]
    BY <1>2 DEF TypeOK
  <1>4. ASSUME NEW o \in Runs
        PROVE  TodoOK(o)' /\ NewOK(o)'
    <2>1. CASE o # r
      BY <1>2, <2>1 DEF HandsInv, TodoOK, NewOK
    <2>2. CASE o = r
      <3>1. todo[r] \subseteq Cases \ {c} /\ TodoOK(r)
        BY <1>1 DEF HandOK, HandsInv, TypeOK
      <3>2. TodoOK(r)'
        BY <1>3, <3>1 DEF TodoOK
      <3>3. status'[r] = "running"
        BY <1>1 DEF HandOK, Live
      <3> QED
        BY <2>2, <3>2, <3>3 DEF NewOK
    <2> QED
      BY <2>1, <2>2
  <1>5. ASSUME NEW o \in Runs, NEW v \in Workers, Busy(o, v)'
        PROVE  HandOK(o, v)'
    <2>1. (o # r \/ v # w) /\ work'[o][v] = work[o][v]
      BY <1>2, <1>5 DEF Busy, Idle
    <2>2. Busy(o, v) /\ HandOK(o, v)
      BY <1>5, <2>1 DEF Busy, HandsInv
    <2>3. outcome'[o][CaseOf(o, v)] = "none"
      <3>1. CASE o # r
        BY <1>2, <2>2, <3>1 DEF HandOK
      <3>2. CASE o = r
        BY <1>1, <1>3, <2>1, <2>2, <3>2 DEF HandOK
      <3> QED
        BY <3>1, <3>2
    <2>4. \A u \in Workers : Busy(o, u)' => work'[o][u] = work[o][u]
      BY <1>2 DEF Busy, Idle
    <2> QED
      BY <2>1, <2>2, <2>3, <2>4 DEF HandOK, Busy, CaseOf, Live
  <1> QED
    BY <1>4, <1>5 DEF HandsInv

\* A worker goes on with its case, and may have sent its message.
LEMMA GoHands ==
    ASSUME TypeOK, HandsInv, NEW r \in Runs, NEW w \in Workers, Busy(r, w),
           NEW place \in Places \ {"idle"}, Go(r, w, place),
           place \in BeforeSending => work[r][w].at \in BeforeSending,
           Fits(place, CaseOf(r, w)),
           \/ sent' = sent
           \/ place = "rung" /\ sent' = [sent EXCEPT ![r] = @ \cup {CaseOf(r, w)}],
           place = "rung" => CaseOf(r, w) \in sent'[r],
           place = "stamp" /\ NeedsEmail(CaseOf(r, w)) = 1 => CaseOf(r, w) \in sent'[r],
           UNCHANGED <<todo, outcome, status>>
    PROVE  HandsInv'
  <1> DEFINE c == CaseOf(r, w)
  <1>1. HandOK(r, w)
    BY DEF HandsInv
  <1>2. /\ work'[r][w] = [at |-> place, case |-> c]
        /\ \A o \in Runs, v \in Workers : (o # r \/ v # w) => work'[o][v] = work[o][v]
    BY GoEffect
  <1>3. /\ \A o \in Runs \ {r} : sent'[o] = sent[o]
        /\ \A d : d # c => (d \in sent'[r] <=> d \in sent[r])
        /\ place # "rung" => sent'[r] = sent[r]
    BY DEF TypeOK
  <1>4. ASSUME NEW o \in Runs
        PROVE  TodoOK(o)' /\ NewOK(o)'
    <2>1. CASE o # r
      BY <1>3, <2>1 DEF HandsInv, TodoOK, NewOK
    <2>2. CASE o = r
      BY <1>1, <1>3, <2>2 DEF HandsInv, TodoOK, NewOK, HandOK, Live
    <2> QED
      BY <2>1, <2>2
  <1>5. \A o \in Runs, v \in Workers : CaseOf(o, v)' = CaseOf(o, v)
                                       /\ (Busy(o, v)' <=> Busy(o, v))
    <2>1. CaseOf(r, w)' = CaseOf(r, w) /\ Busy(r, w)'
      BY <1>2 DEF CaseOf, Busy
    <2> QED
      BY <1>2, <2>1 DEF CaseOf, Busy
  <1>6. HandOK(r, w)'
    <2>1. work'[r][w].at = place
      BY <1>2
    <2>2. place \in BeforeSending => c \notin sent'[r]
      BY <1>1, <1>3 DEF HandOK, BeforeSending
    <2> QED
      BY <1>1, <1>5, <2>1, <2>2 DEF HandOK, Live
  <1>7. ASSUME NEW o \in Runs, NEW v \in Workers, Busy(o, v)', (o # r \/ v # w)
        PROVE  HandOK(o, v)'
    <2>1. HandOK(o, v) /\ work'[o][v] = work[o][v]
      BY <1>2, <1>5, <1>7 DEF HandsInv
    <2>2. CaseOf(o, v) \in sent'[o] <=> CaseOf(o, v) \in sent[o]
      <3>1. CASE o # r
        BY <1>3, <3>1
      <3>2. CASE o = r
        BY <1>1, <1>3, <1>5, <1>7, <3>2 DEF HandOK
      <3> QED
        BY <3>1, <3>2
    <2> QED
      BY <1>5, <2>1, <2>2 DEF HandOK, Live
  <1> QED
    BY <1>4, <1>5, <1>6, <1>7 DEF HandsInv

\* A case is picked: left alone at once, or taken in hand.
LEMMA PickHands ==
    ASSUME TypeOK, HandsInv, NEW r \in Runs, NEW w \in Workers, Pick(r, w)
    PROVE  HandsInv'
  <1>1. PICK c \in todo[r] :
            /\ todo' = [todo EXCEPT ![r] = @ \ {c}]
            /\ \/ /\ outcome' = [outcome EXCEPT ![r][c] = Unworked(c)]
                  /\ UNCHANGED work
               \/ /\ PlanFor[c] # "none"
                  /\ work' = [work EXCEPT ![r][w] = [at |-> "precheck", case |-> c]]
                  /\ UNCHANGED outcome
    BY DEF Pick
  <1>2. /\ c \in Cases /\ Live(r) /\ work[r][w].at = "idle"
        /\ outcome[r][c] = "none" /\ c \notin sent[r] /\ UNCHANGED <<sent, status>>
        /\ todo'[r] = todo[r] \ {c} /\ \A o \in Runs \ {r} : todo'[o] = todo[o]
    BY <1>1 DEF Pick, At, TypeOK, HandsInv, TodoOK, tools, control
  <1>3. \A v \in Workers : Busy(r, v) => CaseOf(r, v) # c
    BY <1>1 DEF HandsInv, HandOK
  <1>4. /\ \A d \in Cases \ {c} : outcome'[r][d] = outcome[r][d]
        /\ \A o \in Runs \ {r} : outcome'[o] = outcome[o]
    BY <1>1 DEF TypeOK
  <1>5. ASSUME NEW o \in Runs
        PROVE  TodoOK(o)' /\ NewOK(o)'
    <2>1. CASE o # r
      BY <1>2, <1>4, <2>1 DEF HandsInv, TodoOK, NewOK
    <2>2. CASE o = r
      BY <1>2, <1>4, <2>2 DEF HandsInv, TodoOK, NewOK, Live, TypeOK
    <2> QED
      BY <2>1, <2>2
  <1>6. CASE UNCHANGED work
    <2>1. ASSUME NEW o \in Runs, NEW v \in Workers, Busy(o, v)'
          PROVE  HandOK(o, v)'
      <3>1. Busy(o, v) /\ HandOK(o, v)
        BY <1>6, <2>1 DEF Busy, HandsInv
      <3>2. outcome'[o][CaseOf(o, v)] = "none" /\ CaseOf(o, v) \notin todo'[o]
        BY <1>2, <1>3, <1>4, <3>1 DEF HandOK
      <3> QED
        BY <1>2, <1>6, <3>1, <3>2 DEF HandOK, Busy, CaseOf, Live
    <2> QED
      BY <1>5, <2>1 DEF HandsInv
  <1>7. CASE /\ PlanFor[c] # "none" /\ UNCHANGED outcome
             /\ work' = [work EXCEPT ![r][w] = [at |-> "precheck", case |-> c]]
    <2>1. /\ work'[r][w] = [at |-> "precheck", case |-> c]
          /\ \A o \in Runs, v \in Workers : (o # r \/ v # w) => work'[o][v] = work[o][v]
      BY <1>7 DEF TypeOK
    <2>2. /\ CaseOf(r, w)' = c /\ work'[r][w].at = "precheck"
          /\ \A o \in Runs, v \in Workers :
                 (o # r \/ v # w) => CaseOf(o, v)' = CaseOf(o, v)
                                        /\ (Busy(o, v)' <=> Busy(o, v))
      BY <2>1 DEF CaseOf, Busy
    <2>3. HandOK(r, w)'
      <3>1. Fits("precheck", c)
        BY <1>7 DEF Fits
      <3>2. \A v \in Workers : Busy(r, v)' /\ CaseOf(r, v)' = c => v = w
        BY <1>3, <2>2
      <3> QED
        BY <1>2, <1>7, <2>2, <3>1, <3>2 DEF HandOK, Live
    <2>4. ASSUME NEW o \in Runs, NEW v \in Workers, Busy(o, v)', (o # r \/ v # w)
          PROVE  HandOK(o, v)'
      <3>1. HandOK(o, v) /\ work'[o][v] = work[o][v]
        BY <2>1, <2>2, <2>4 DEF HandsInv
      <3>2. CaseOf(o, v) \notin todo'[o]
        BY <1>2, <3>1 DEF HandOK
      <3>3. \A u \in Workers : Busy(o, u)' /\ CaseOf(o, u)' = CaseOf(o, v) => u = v
        <4>1. CASE o # r
          BY <2>2, <3>1, <4>1 DEF HandOK
        <4>2. CASE o = r
          BY <1>3, <2>2, <2>4, <3>1, <4>2 DEF HandOK
        <4> QED
          BY <4>1, <4>2
      <3> QED
        BY <1>2, <1>7, <2>2, <2>4, <3>1, <3>2, <3>3 DEF HandOK, Live
    <2> QED
      BY <1>5, <2>3, <2>4 DEF HandsInv
  <1> QED
    BY <1>1, <1>6, <1>7

LEMMA FirstStepFits ==
    ASSUME NEW c \in Cases, PlanFor[c] # "none"
    PROVE  /\ FirstStep(c) \in Acting \ {"rung", "stamp"} /\ Fits(FirstStep(c), c)
           /\ FirstStep(c) \in Places \ {"idle"}
  BY PlanAssumption DEF FirstStep, Acting, Fits, Places

LEMMA FailsDecides ==
    ASSUME NEW r \in Runs, NEW w \in Workers, Fails(r, w)
    PROVE  Decide(r, w, "exception") /\ "exception" \in Outcomes
  BY DEF Fails, Outcomes

LEMMA WorksHands ==
    ASSUME TypeOK, HandsInv, NEW r \in Runs, NEW w \in Workers, Works(r, w)
    PROVE  HandsInv'
  <1> DEFINE c == CaseOf(r, w)
  <1>0. Busy(r, w) => HandOK(r, w) /\ c \in Cases
    BY DEF HandsInv, HandOK
  <1>1. CASE Pick(r, w)
    BY <1>1, PickHands
  <1>2. CASE Precheck(r, w)
    <2>1. Busy(r, w) /\ work[r][w].at = "precheck" /\ UNCHANGED <<todo, sent, status>>
      BY <1>2 DEF Precheck, At, Busy, tools, control
    <2>2. CASE \E what \in Outcomes : Decide(r, w, what)
      BY <2>1, <2>2, DecideHands
    <2>3. CASE Go(r, w, "reserve") /\ UNCHANGED outcome
      <3>1. Fits("reserve", c)
        BY <1>0, <2>1 DEF HandOK, Fits
      <3>2. "precheck" \in BeforeSending /\ "reserve" \in Places \ {"idle"}
        BY DEF BeforeSending, Places
      <3> QED
        BY <2>1, <2>3, <3>1, <3>2, GoHands
    <2>4. {"skipped", "exception", "deferred", "budget"} \subseteq Outcomes
      BY DEF Outcomes
    <2> QED
      BY <1>2, <2>2, <2>3, <2>4 DEF Precheck
  <1>3. CASE Reserve(r, w)
    <2>1. Busy(r, w) /\ work[r][w].at = "reserve" /\ UNCHANGED <<todo, sent, status>>
      BY <1>3 DEF Reserve, At, Busy, tools, control
    <2>2. CASE Decide(r, w, "budget")
      BY <2>1, <2>2, DecideHands DEF Outcomes
    <2>3. CASE Go(r, w, FirstStep(c)) /\ UNCHANGED outcome
      <3>1. FirstStep(c) \in Places \ {"idle"} /\ Fits(FirstStep(c), c)
            /\ FirstStep(c) \notin {"rung", "stamp"}
        BY <1>0, <2>1, FirstStepFits DEF HandOK, Fits
      <3>2. "reserve" \in BeforeSending
        BY DEF BeforeSending
      <3> QED
        BY <2>1, <2>3, <3>1, <3>2, GoHands
    <2> QED
      BY <1>3, <2>2, <2>3 DEF Reserve
  <1>4. CASE CreateLink(r, w)
    <2>1. Busy(r, w) /\ work[r][w].at = "link" /\ UNCHANGED <<todo, sent, status>>
      BY <1>4 DEF CreateLink, At, Busy, tools, control
    <2>2. CASE Fails(r, w)
      BY <2>1, <2>2, FailsDecides, DecideHands
    <2>3. CASE Go(r, w, "notify") /\ UNCHANGED outcome
      <3>1. Fits("notify", c)
        BY <1>0, <2>1 DEF HandOK, Fits
      <3>2. "link" \in BeforeSending /\ "notify" \in Places \ {"idle"}
        BY DEF BeforeSending, Places
      <3> QED
        BY <2>1, <2>3, <3>1, <3>2, GoHands
    <2> QED
      BY <1>4, <2>2, <2>3 DEF CreateLink
  <1>5. CASE Notify(r, w)
    <2>1. Busy(r, w) /\ work[r][w].at = "notify" /\ UNCHANGED <<todo, status>>
      BY <1>5 DEF Notify, At, Busy, control
    <2>2. CASE Fails(r, w) /\ UNCHANGED tools
      BY <2>1, <2>2, FailsDecides, DecideHands DEF tools
    <2>3. CASE /\ sent' = [sent EXCEPT ![r] = @ \cup {c}]
               /\ Go(r, w, "rung") /\ UNCHANGED outcome
      <3>1. Fits("rung", c)
        BY <1>0, <2>1 DEF HandOK, Fits
      <3>2. "rung" \notin BeforeSending /\ "rung" \in Places \ {"idle"}
        BY DEF BeforeSending, Places
      <3>3. c \in sent'[r]
        BY <2>3 DEF TypeOK
      <3> QED
        BY <2>1, <2>3, <3>1, <3>2, <3>3, GoHands
    <2> QED
      BY <1>5, <2>2, <2>3 DEF Notify, Sends
  <1>6. CASE Retry(r, w)
    <2>1. Busy(r, w) /\ work[r][w].at = "retry" /\ UNCHANGED <<todo, outcome, status>>
      BY <1>6 DEF Retry, Sends, At, Busy, control
    <2>2. \/ Go(r, w, "stamp") /\ sent' = sent
          \/ Go(r, w, "rung") /\ sent' = [sent EXCEPT ![r] = @ \cup {c}]
      BY <1>6 DEF Retry, Sends, tools
    <2>3. Fits("stamp", c) /\ Fits("rung", c) /\ NeedsEmail(c) # 1
      BY <1>0, <2>1 DEF HandOK, Fits, NeedsEmail
    <2>4. /\ "stamp" \notin BeforeSending /\ "stamp" \in Places \ {"idle"}
          /\ "rung" \notin BeforeSending /\ "rung" \in Places \ {"idle"}
      BY DEF BeforeSending, Places
    <2>5. CASE Go(r, w, "stamp") /\ sent' = sent
      BY <2>1, <2>3, <2>4, <2>5, GoHands
    <2>6. CASE Go(r, w, "rung") /\ sent' = [sent EXCEPT ![r] = @ \cup {c}]
      <3>1. c \in sent'[r]
        BY <2>6 DEF TypeOK
      <3> QED
        BY <2>1, <2>3, <2>4, <2>6, <3>1, GoHands
    <2> QED
      BY <2>2, <2>5, <2>6
  <1>8. CASE Rung(r, w)
    <2>1. /\ Busy(r, w) /\ work[r][w].at = "rung" /\ Go(r, w, "stamp")
          /\ UNCHANGED <<todo, outcome, status, sent>>
      BY <1>8 DEF Rung, At, Busy, control
    <2>2. Fits("stamp", c) /\ c \in sent[r]
      BY <1>0, <2>1 DEF HandOK, Fits
    <2>3. "stamp" \notin BeforeSending /\ "stamp" \in Places \ {"idle"}
      BY DEF BeforeSending, Places
    <2> QED
      BY <2>1, <2>2, <2>3, GoHands
  <1>7. CASE Stamp(r, w)
    <2>1. Busy(r, w) /\ UNCHANGED <<todo, sent, status>> /\ Decide(r, w, "acted")
      BY <1>7 DEF Stamp, At, Busy, control
    <2> QED
      BY <2>1, DecideHands DEF Outcomes
  <1> QED
    BY <1>1, <1>2, <1>3, <1>4, <1>5, <1>6, <1>7, <1>8 DEF Works

LEMMA NextHands ==
    ASSUME TypeOK, HandsInv, [Next]_vars
    PROVE  HandsInv'
  <1>1. CASE UNCHANGED vars
    BY <1>1, QuietHands DEF vars, tools, control
  <1>2. ASSUME NEW r \in Runs, Abort(r) \/ Expire(r)
        PROVE  HandsInv'
    BY <1>2, QuietHands DEF Abort, Expire, tools
  <1>3. ASSUME NEW c \in Cases, Pay(c) \/ AgentClimbs(c)
        PROVE  HandsInv'
    BY <1>3, QuietHands DEF Pay, AgentClimbs, control
  <1> QED
    BY <1>1, <1>2, <1>3, OpenHands, CloseHands, WorksHands DEF Next

-----------------------------------------------------------------------------
(* Types                                                                   *)

Spends == [Runs -> [links : 0..MaxLinks, emails : 0..MaxEmails, cases : 0..MaxCases]]

LEMMA BudgetsAreNumbers == MaxCases \in Nat /\ MaxLinks \in Nat /\ MaxEmails \in Nat
                           /\ FailLimit \in Nat /\ FailLimit >= 1
  BY BudgetAssumption

LEMMA TakenEffect ==
    ASSUME TypeOK, NEW r \in Runs, NEW c \in Cases, ~Exceeds(r, c), spend' = Taken(r, c)
    PROVE  /\ spend' \in Spends
           /\ spend'[r].links = spend[r].links + NeedsLink(c)
           /\ spend'[r].emails = spend[r].emails + NeedsEmail(c)
           /\ spend'[r].cases = spend[r].cases + 1
           /\ \A o \in Runs \ {r} : spend'[o] = spend[o]
  <1> DEFINE new == [links |-> spend[r].links + NeedsLink(c),
                     emails |-> spend[r].emails + NeedsEmail(c),
                     cases |-> spend[r].cases + 1]
  <1>1. spend \in Spends
    BY DEF TypeOK, Spends
  <1>2. /\ spend[r].links \in Nat /\ spend[r].emails \in Nat /\ spend[r].cases \in Nat
        /\ NeedsLink(c) \in 0..1 /\ NeedsEmail(c) \in 0..1
    BY <1>1, Needs DEF Spends
  <1>3. /\ spend[r].links + NeedsLink(c) \in 0..MaxLinks
        /\ spend[r].emails + NeedsEmail(c) \in 0..MaxEmails
        /\ spend[r].cases + 1 \in 0..MaxCases
    BY <1>2, BudgetsAreNumbers DEF Exceeds
  <1>4. spend' = [spend EXCEPT ![r] = new]
    BY DEF Taken
  <1> HIDE DEF new
  <1>5. spend'[r] = new /\ \A o \in Runs \ {r} : spend'[o] = spend[o]
    BY <1>1, <1>4 DEF Spends
  <1>6. new \in [links : 0..MaxLinks, emails : 0..MaxEmails, cases : 0..MaxCases]
    BY <1>3 DEF new
  <1> QED
    BY <1>1, <1>4, <1>5, <1>6 DEF Spends, new

LEMMA GiveBackEffect ==
    ASSUME TypeOK, NEW r \in Runs, NEW c \in Cases, spend' = GiveBack(r, c)
    PROVE  /\ spend' \in Spends
           /\ spend'[r].links = spend[r].links
           /\ spend[r].emails > 0 => spend'[r].emails = spend[r].emails - 1
           /\ spend[r].cases > 0 => spend'[r].cases = spend[r].cases - 1
           /\ \A o \in Runs \ {r} : spend'[o] = spend[o]
  <1> DEFINE e == IF spend[r].emails = 0 THEN 0 ELSE spend[r].emails - 1
             n == IF spend[r].cases = 0 THEN 0 ELSE spend[r].cases - 1
             new == [links |-> spend[r].links, emails |-> e, cases |-> n]
  <1>1. spend \in Spends /\ spend[r] \in [links : 0..MaxLinks, emails : 0..MaxEmails,
                                          cases : 0..MaxCases]
    BY DEF TypeOK, Spends
  <1>2. e \in 0..MaxEmails /\ n \in 0..MaxCases /\ spend[r].links \in 0..MaxLinks
        /\ (spend[r].emails > 0 => e = spend[r].emails - 1)
        /\ (spend[r].cases > 0 => n = spend[r].cases - 1)
    BY <1>1, BudgetsAreNumbers
  <1>3. spend' = [spend EXCEPT ![r] = new]
    BY <1>1 DEF GiveBack, Spends
  <1> HIDE DEF e, n
  <1>4. new \in [links : 0..MaxLinks, emails : 0..MaxEmails, cases : 0..MaxCases]
    BY <1>2
  <1>5. spend'[r] = new /\ \A o \in Runs \ {r} : spend'[o] = spend[o]
    BY <1>1, <1>3 DEF Spends
  <1> QED
    BY <1>1, <1>2, <1>3, <1>4, <1>5 DEF Spends

\* The parts of the type invariant that the kinds of steps change.
ToolsType ==
    /\ paid \subseteq Cases /\ climbed \subseteq Cases /\ waiting \subseteq Cases
    /\ stamp \in [Cases -> Runs \cup {NoRun}]
    /\ linked \in [Runs -> SUBSET Cases] /\ sent \in [Runs -> SUBSET Cases]
    /\ lost \subseteq Cases /\ unaware \subseteq Runs \X Cases
Copyings == [Runs -> [stamp : [Cases -> Runs \cup {NoRun}], climbed : SUBSET Cases]]
ControlType ==
    /\ copy \in Copyings
    /\ status \in [Runs -> {"new", "running", "finished", "aborted"}]
    /\ abort \subseteq Runs /\ late \subseteq Runs
StreakType == streak \in [Runs -> Nat]
WorkType ==
    /\ todo \in [Runs -> SUBSET Cases] /\ work \in Workings
    /\ outcome \in [Runs -> [Cases -> Outcomes \cup {"none"}]]

LEMMA ExceptionsAreFinite ==
    ASSUME NEW r
    PROVE  /\ IsFiniteSet(Exceptions(r)) /\ Cardinality(Exceptions(r)) \in Nat
           /\ Cardinality(Exceptions(r)) <= Cardinality(Cases)
           /\ Cardinality(Cases) \in Nat
  BY FiniteAssumption, FS_Subset, FS_CardinalityType DEF Exceptions

LEMMA TypeInParts ==
    TypeInv <=> /\ ToolsType /\ ControlType /\ WorkType /\ spend \in Spends
                /\ StreakType /\ HandsInv /\ StreakCounts
  <1>1. ASSUME StreakType, StreakCounts
        PROVE  streak \in [Runs -> 0..Cardinality(Cases)]
    <2>1. \A r \in Runs : streak[r] \in 0..Cardinality(Cases)
      BY <1>1, ExceptionsAreFinite DEF StreakType, StreakCounts
    <2> QED
      BY <1>1, <2>1 DEF StreakType
  <1>2. streak \in [Runs -> 0..Cardinality(Cases)] => StreakType
    BY ExceptionsAreFinite DEF StreakType
  <1> QED
    BY <1>1, <1>2 DEF TypeInv, TypeOK, ToolsType, ControlType, WorkType, Spends,
                      Copyings, Workings

LEMMA TypeInPartsNext ==
    (/\ ToolsType /\ ControlType /\ WorkType /\ spend \in Spends
     /\ StreakType /\ HandsInv /\ StreakCounts)' => TypeInv'
  <1>1. ASSUME StreakType', StreakCounts'
        PROVE  streak' \in [Runs -> 0..Cardinality(Cases)]
    <2>1. \A r \in Runs : /\ Exceptions(r)' \subseteq Cases
                          /\ Cardinality(Exceptions(r)') \in Nat
                          /\ Cardinality(Exceptions(r)') <= Cardinality(Cases)
      BY FiniteAssumption, FS_Subset, FS_CardinalityType DEF Exceptions
    <2>2. \A r \in Runs : streak'[r] \in 0..Cardinality(Cases)
      BY <1>1, <2>1, ExceptionsAreFinite DEF StreakType, StreakCounts
    <2> QED
      BY <1>1, <2>2 DEF StreakType
  <1> QED
    BY <1>1 DEF TypeInv, TypeOK, ToolsType, ControlType, WorkType, Spends,
                Copyings, Workings

LEMMA InitType == Init => TypeInv
  <1> SUFFICES ASSUME Init PROVE TypeInv
    OBVIOUS
  <1>1. ToolsType /\ ControlType
    BY DEF Init, ToolsType, ControlType, Copyings
  <1>2. WorkType
    BY DEF Init, WorkType, Workings, Idle, Places
  <1>3. spend \in Spends
    BY BudgetsAreNumbers DEF Init, Spends, Nothing
  <1>4. StreakType /\ StreakCounts
    BY ExceptionsAreFinite DEF Init, StreakType, StreakCounts
  <1> QED
    BY <1>1, <1>2, <1>3, <1>4, TypeInParts, InitHands

\* Where no case is decided, no streak grows.
LEMMA QuietStreak ==
    ASSUME TypeInv, UNCHANGED streak,
           \A r \in Runs : Exceptions(r) \subseteq Exceptions(r)'
    PROVE  StreakType' /\ StreakCounts'
  <1>1. StreakType /\ StreakCounts
    BY TypeInParts
  <1>2. ASSUME NEW r \in Runs
        PROVE  streak'[r] <= Cardinality(Exceptions(r)')
    <2>1. /\ Exceptions(r)' \subseteq Cases /\ Exceptions(r) \in SUBSET (Exceptions(r)')
      BY DEF Exceptions
    <2>2. IsFiniteSet(Exceptions(r)')
      BY <2>1, FiniteAssumption, FS_Subset
    <2>3. /\ Cardinality(Exceptions(r)) <= Cardinality(Exceptions(r)')
          /\ Cardinality(Exceptions(r)) \in Nat /\ Cardinality(Exceptions(r)') \in Nat
      BY <2>1, <2>2, FS_Subset, FS_CardinalityType
    <2> QED
      BY <1>1, <2>3 DEF StreakType, StreakCounts
  <1> QED
    BY <1>1, <1>2 DEF StreakType, StreakCounts

LEMMA DecideStreak ==
    ASSUME TypeInv, NEW r \in Runs, NEW w \in Workers, Busy(r, w),
           NEW what \in Outcomes, Decide(r, w, what)
    PROVE  StreakType' /\ StreakCounts'
  <1> DEFINE c == CaseOf(r, w)
  <1>1. TypeOK /\ StreakType /\ StreakCounts /\ HandOK(r, w)
    BY TypeInParts DEF TypeInv, HandsInv
  <1>2. /\ c \in Cases /\ outcome[r][c] = "none"
        /\ outcome \in [Runs -> [Cases -> Outcomes \cup {"none"}]]
    BY <1>1 DEF HandOK, TypeOK
  <1>3. /\ outcome'[r] = [outcome[r] EXCEPT ![c] = what]
        /\ \A o \in Runs \ {r} : outcome'[o] = outcome[o] /\ streak'[o] = streak[o]
        /\ streak' \in [Runs -> Nat]
        /\ streak'[r] = IF what = "acted" THEN 0
                        ELSE IF what = "exception" THEN streak[r] + 1 ELSE streak[r]
    BY <1>1, DecideEffect
  <1>4. ASSUME NEW o \in Runs
        PROVE  streak'[o] <= Cardinality(Exceptions(o)')
    <2>1. CASE o # r
      <3>1. Exceptions(o)' = Exceptions(o)
        BY <1>3, <2>1 DEF Exceptions
      <3> QED
        BY <1>1, <1>3, <2>1, <3>1 DEF StreakCounts
    <2>2. CASE o = r /\ what = "exception"
      <3>1. Exceptions(r)' = Exceptions(r) \cup {c} /\ c \notin Exceptions(r)
        BY <1>2, <1>3, <2>2 DEF Exceptions
      <3>2. Cardinality(Exceptions(r)') = Cardinality(Exceptions(r)) + 1
        BY <3>1, ExceptionsAreFinite, FS_AddElement
      <3> QED
        BY <1>1, <1>3, <2>2, <3>2, ExceptionsAreFinite DEF StreakCounts, StreakType
    <2>3. CASE o = r /\ what # "exception"
      <3>1. Exceptions(r)' = Exceptions(r)
        BY <1>2, <1>3, <2>3 DEF Exceptions
      <3> QED
        BY <1>1, <1>3, <2>3, <3>1, ExceptionsAreFinite DEF StreakCounts, StreakType
    <2> QED
      BY <2>1, <2>2, <2>3
  <1> QED
    BY <1>3, <1>4 DEF StreakType, StreakCounts

LEMMA GoTypes ==
    ASSUME TypeInv, NEW r \in Runs, NEW w \in Workers, NEW place \in Places,
           Go(r, w, place), UNCHANGED <<todo, outcome, streak>>
    PROVE  WorkType' /\ StreakType' /\ StreakCounts'
  <1>1. WorkType'
    BY GoEffect, TypeInParts DEF TypeInv, WorkType
  <1>2. \A o \in Runs : Exceptions(o)' = Exceptions(o)
    BY DEF Exceptions
  <1> QED
    BY <1>1, <1>2, QuietStreak

LEMMA DecideTypes ==
    ASSUME TypeInv, NEW r \in Runs, NEW w \in Workers, Busy(r, w),
           NEW what \in Outcomes, Decide(r, w, what), UNCHANGED todo
    PROVE  WorkType' /\ StreakType' /\ StreakCounts'
  <1>1. WorkType'
    BY DecideEffect, TypeInParts DEF TypeInv, WorkType
  <1> QED
    BY <1>1, DecideStreak

LEMMA FailsTypes ==
    ASSUME TypeInv, NEW r \in Runs, NEW w \in Workers, Busy(r, w), Fails(r, w),
           UNCHANGED todo
    PROVE  WorkType' /\ StreakType' /\ StreakCounts' /\ spend' \in Spends
  <1>1. WorkType' /\ StreakType' /\ StreakCounts'
    BY FailsDecides, DecideTypes
  <1>2. CaseOf(r, w) \in Cases /\ TypeOK /\ spend \in Spends
    BY TypeInParts DEF TypeInv, HandsInv, HandOK
  <1>3. spend' = spend \/ spend' = GiveBack(r, CaseOf(r, w))
    BY DEF Fails
  <1> QED
    BY <1>1, <1>2, <1>3, GiveBackEffect

LEMMA PickTypes ==
    ASSUME TypeInv, NEW r \in Runs, NEW w \in Workers, Pick(r, w)
    PROVE  WorkType' /\ StreakType' /\ StreakCounts'
  <1>1. PICK c \in todo[r] :
            /\ todo' = [todo EXCEPT ![r] = @ \ {c}]
            /\ \/ /\ outcome' = [outcome EXCEPT ![r][c] = Unworked(c)]
                  /\ UNCHANGED work
               \/ /\ work' = [work EXCEPT ![r][w] = [at |-> "precheck", case |-> c]]
                  /\ UNCHANGED outcome
    BY DEF Pick
  <1>2. WorkType /\ c \in Cases /\ outcome[r][c] = "none"
    BY <1>1, TypeInParts DEF TypeInv, HandsInv, TodoOK, WorkType
  <1>3. todo' \in [Runs -> SUBSET Cases]
    BY <1>1, <1>2 DEF WorkType
  <1>4. work' \in Workings
    <2> DEFINE hand == [at |-> "precheck", case |-> c]
    <2>1. hand \in [at : Places, case : Cases \cup {NoCase}]
      BY <1>2 DEF Places
    <2>2. work' = work \/ work' = [work EXCEPT ![r][w] = hand]
      BY <1>1
    <2> HIDE DEF hand
    <2>3. work \in Workings
      BY <1>2 DEF WorkType
    <2>4. [work EXCEPT ![r][w] = hand] \in Workings
      BY <2>1, <2>3 DEF Workings
    <2> QED
      BY <2>2, <2>3, <2>4
  <1>5. Unworked(c) \in Outcomes
    BY DEF Unworked, Outcomes
  <1>6. outcome' \in [Runs -> [Cases -> Outcomes \cup {"none"}]]
    BY <1>1, <1>2, <1>5 DEF WorkType
  <1>7. ASSUME NEW o \in Runs
        PROVE  Exceptions(o) \subseteq Exceptions(o)'
    BY <1>1, <1>2 DEF Exceptions, WorkType
  <1>8. UNCHANGED streak
    BY DEF Pick
  <1> QED
    BY <1>3, <1>4, <1>6, <1>7, <1>8, QuietStreak DEF WorkType

LEMMA WorksTypes ==
    ASSUME TypeInv, NEW r \in Runs, NEW w \in Workers, Works(r, w)
    PROVE  TypeInv'
  <1> DEFINE c == CaseOf(r, w)
  <1>0. /\ ToolsType /\ ControlType /\ WorkType /\ spend \in Spends /\ TypeOK
        /\ Busy(r, w) => HandOK(r, w) /\ c \in Cases
    BY TypeInParts DEF TypeInv, HandsInv, HandOK
  <1>1. HandsInv'
    BY WorksHands DEF TypeInv
  <1>2. ControlType'
    BY <1>0 DEF Works, Pick, Precheck, Reserve, CreateLink, Notify, Retry, Rung, Stamp,
                ControlType, control
  <1>3. ToolsType'
    <2>1. CASE UNCHANGED <<tools, unaware>>
      BY <1>0, <2>1 DEF ToolsType, tools
    <2>2. CASE CreateLink(r, w)
      BY <1>0, <2>2 DEF CreateLink, At, Busy, ToolsType, tools
    <2>3. CASE Notify(r, w)
      BY <1>0, <2>3 DEF Notify, Sends, At, Busy, ToolsType, tools
    <2>4. CASE Retry(r, w)
      BY <1>0, <2>4 DEF Retry, Sends, At, Busy, ToolsType, tools
    <2>5. CASE Rung(r, w)
      BY <1>0, <2>5 DEF Rung, At, Busy, ToolsType
    <2>6. CASE Stamp(r, w)
      BY <1>0, <2>6 DEF Stamp, At, Busy, ToolsType, tools
    <2>7. CASE Precheck(r, w)
      <3>1. UNCHANGED tools /\ c \in Cases
        BY <1>0, <2>7 DEF Precheck, At, Busy
      <3>2. unaware' = unaware \/ unaware' = unaware \cup {<<r, c>>}
        BY <2>7 DEF Precheck
      <3> QED
        BY <1>0, <3>1, <3>2 DEF ToolsType, tools
    <2> QED
      BY <2>1, <2>2, <2>3, <2>4, <2>5, <2>6, <2>7 DEF Works, Pick, Reserve
  <1>4. WorkType' /\ StreakType' /\ StreakCounts' /\ spend' \in Spends
    <2>1. CASE Pick(r, w)
      BY <1>0, <2>1, PickTypes DEF Pick
    <2>2. CASE Precheck(r, w)
      <3>1. Busy(r, w) /\ UNCHANGED <<todo, spend>>
        BY <2>2 DEF Precheck, At, Busy
      <3>2. \/ \E what \in {"skipped", "exception", "deferred", "budget"} : Decide(r, w, what)
            \/ Go(r, w, "reserve") /\ UNCHANGED <<outcome, streak>>
        BY <2>2 DEF Precheck
      <3>3. {"skipped", "exception", "deferred", "budget"} \subseteq Outcomes
            /\ "reserve" \in Places
        BY DEF Outcomes, Places
      <3> QED
        BY <1>0, <3>1, <3>2, <3>3, DecideTypes, GoTypes
    <2>3. CASE Reserve(r, w)
      <3>1. Busy(r, w) /\ UNCHANGED todo
        BY <2>3 DEF Reserve, At, Busy
      <3>2. CASE Decide(r, w, "budget") /\ UNCHANGED spend
        BY <1>0, <3>1, <3>2, DecideTypes DEF Outcomes
      <3>3. CASE /\ ~Exceeds(r, c) /\ spend' = Taken(r, c)
                 /\ Go(r, w, FirstStep(c)) /\ UNCHANGED <<outcome, streak>>
        <4>1. c \in Cases /\ PlanFor[c] # "none"
          BY <1>0, <3>1 DEF HandOK, Fits
        <4> QED
          BY <1>0, <3>1, <3>3, <4>1, FirstStepFits, GoTypes, TakenEffect
      <3> QED
        BY <2>3, <3>2, <3>3 DEF Reserve
    <2>4. CASE CreateLink(r, w)
      <3>1. Busy(r, w) /\ UNCHANGED todo /\ "notify" \in Places
        BY <2>4 DEF CreateLink, At, Busy, Places
      <3>2. \/ Fails(r, w)
            \/ Go(r, w, "notify") /\ UNCHANGED <<spend, outcome, streak>>
        BY <2>4 DEF CreateLink
      <3> QED
        BY <1>0, <3>1, <3>2, FailsTypes, GoTypes
    <2>5. CASE Notify(r, w)
      <3>1. Busy(r, w) /\ UNCHANGED todo /\ "rung" \in Places
        BY <2>5 DEF Notify, At, Busy, Places
      <3>2. \/ Fails(r, w)
            \/ Go(r, w, "rung") /\ UNCHANGED <<spend, outcome, streak>>
        BY <2>5 DEF Notify, Sends
      <3> QED
        BY <1>0, <3>1, <3>2, FailsTypes, GoTypes
    <2>6. CASE Retry(r, w)
      BY <1>0, <2>6, GoTypes DEF Retry, Sends, Places
    <2>7. CASE Stamp(r, w)
      <3>1. Busy(r, w) /\ UNCHANGED <<todo, spend>> /\ Decide(r, w, "acted")
            /\ "acted" \in Outcomes
        BY <2>7 DEF Stamp, At, Busy, Outcomes
      <3> QED
        BY <1>0, <3>1, DecideTypes
    <2>8. CASE Rung(r, w)
      BY <1>0, <2>8, GoTypes DEF Rung, Places
    <2> QED
      BY <2>1, <2>2, <2>3, <2>4, <2>5, <2>6, <2>7, <2>8 DEF Works
  <1> QED
    BY <1>1, <1>2, <1>3, <1>4, TypeInPartsNext

LEMMA NextType ==
    ASSUME TypeInv, [Next]_vars
    PROVE  TypeInv'
  <1>0. /\ ToolsType /\ ControlType /\ WorkType /\ spend \in Spends /\ TypeOK
    BY TypeInParts DEF TypeInv
  <1>1. HandsInv'
    BY NextHands DEF TypeInv
  <1>2. CASE \E r \in Runs, w \in Workers : Works(r, w)
    BY <1>2, WorksTypes
  <1>3. ASSUME UNCHANGED <<work, outcome, spend, streak>>,
               ToolsType', ControlType', todo' \in [Runs -> SUBSET Cases]
        PROVE  TypeInv'
    <2>1. \A o \in Runs : Exceptions(o)' = Exceptions(o)
      BY <1>3 DEF Exceptions
    <2>2. StreakType' /\ StreakCounts'
      BY <1>3, <2>1, QuietStreak
    <2>3. WorkType' /\ spend' \in Spends
      BY <1>0, <1>3 DEF WorkType
    <2> QED
      BY <1>1, <1>3, <2>2, <2>3, TypeInPartsNext
  <1>4. CASE UNCHANGED vars
    BY <1>0, <1>3, <1>4 DEF vars, tools, control, ToolsType, ControlType, WorkType
  <1>5. ASSUME NEW r \in Runs, Open(r)
        PROVE  TypeInv'
    <2>1. ToolsType' /\ UNCHANGED <<work, outcome, spend, streak>>
      BY <1>0, <1>5 DEF Open, tools, ToolsType
    <2>2. status' \in [Runs -> {"new", "running", "finished", "aborted"}]
          /\ todo' \in [Runs -> SUBSET Cases] /\ abort' \subseteq Runs /\ late' \subseteq Runs
      BY <1>0, <1>5 DEF Open, ControlType, WorkType
    <2>3. copy' \in Copyings
      <3>1. [stamp |-> stamp, climbed |-> climbed]
                \in [stamp : [Cases -> Runs \cup {NoRun}], climbed : SUBSET Cases]
        BY <1>0 DEF ToolsType
      <3> QED
        BY <1>0, <1>5, <3>1 DEF Open, ControlType, Copyings
    <2> QED
      BY <1>3, <2>1, <2>2, <2>3 DEF ControlType
  <1>6. ASSUME NEW r \in Runs, Abort(r) \/ Expire(r) \/ Close(r)
        PROVE  TypeInv'
    <2>1. /\ ToolsType' /\ UNCHANGED <<work, outcome, spend, streak, copy>>
          /\ todo' \in [Runs -> SUBSET Cases]
      BY <1>0, <1>6 DEF Abort, Expire, Close, tools, ToolsType, WorkType
    <2>2. status' \in [Runs -> {"new", "running", "finished", "aborted"}]
          /\ abort' \subseteq Runs /\ late' \subseteq Runs
      BY <1>0, <1>6 DEF Abort, Expire, Close, ControlType
    <2> QED
      BY <1>0, <1>3, <2>1, <2>2 DEF ControlType
  <1>7. ASSUME NEW c \in Cases, Pay(c) \/ AgentClimbs(c)
        PROVE  TypeInv'
    <2>1. /\ ControlType' /\ UNCHANGED <<work, outcome, spend, streak>>
          /\ todo' \in [Runs -> SUBSET Cases]
      BY <1>0, <1>7 DEF Pay, AgentClimbs, control, ControlType, WorkType
    <2>2. ToolsType'
      BY <1>0, <1>7 DEF Pay, AgentClimbs, ToolsType
    <2> QED
      BY <1>3, <2>1, <2>2
  <1> QED
    BY <1>2, <1>4, <1>5, <1>6, <1>7 DEF Next

\* A run's records stay within their types: a streak is never longer than the
\* batch, and nothing is taken out of a budget that is not in it.
THEOREM TypeCorrect == Spec => []TypeOK
  <1>1. TypeInv => TypeOK
    BY DEF TypeInv
  <1> QED
    BY <1>1, InitType, NextType, PTL DEF Spec

-----------------------------------------------------------------------------
(* Streaks, and cases without a decision                                   *)

\* What a worker does is to pick a case, to leave it, or to go on with it.
LEMMA WorksKinds ==
    ASSUME TypeInv, NEW r \in Runs, NEW w \in Workers, Works(r, w)
    PROVE  /\ UNCHANGED <<paid, control>>
           /\ \/ Pick(r, w)
              \/ /\ Busy(r, w) /\ UNCHANGED todo
                 /\ \/ \E what \in Outcomes : Decide(r, w, what)
                    \/ \E place \in Places \ {"idle"} :
                           Go(r, w, place) /\ UNCHANGED <<outcome, streak>>
  <1> DEFINE c == CaseOf(r, w)
  <1>1. CASE Precheck(r, w)
    <2>1. Busy(r, w) /\ UNCHANGED <<paid, control, todo>>
      BY <1>1 DEF Precheck, At, Busy, tools
    <2>2. \/ \E what \in {"skipped", "exception", "deferred", "budget"} : Decide(r, w, what)
          \/ Go(r, w, "reserve") /\ UNCHANGED <<outcome, streak>>
      BY <1>1 DEF Precheck
    <2> QED
      BY <2>1, <2>2 DEF Outcomes, Places
  <1>2. CASE Reserve(r, w)
    <2>1. Busy(r, w) /\ UNCHANGED <<paid, control, todo>>
      BY <1>2 DEF Reserve, At, Busy, tools
    <2>2. FirstStep(c) \in Places \ {"idle"}
      BY <2>1, FirstStepFits DEF TypeInv, HandsInv, HandOK, Fits
    <2>3. Decide(r, w, "budget")
          \/ (Go(r, w, FirstStep(c)) /\ UNCHANGED <<outcome, streak>>)
      BY <1>2 DEF Reserve
    <2> QED
      BY <2>1, <2>2, <2>3 DEF Outcomes
  <1>3. CASE CreateLink(r, w)
    <2>1. Busy(r, w) /\ UNCHANGED <<paid, control, todo>>
      BY <1>3 DEF CreateLink, At, Busy, tools
    <2>2. Fails(r, w) \/ (Go(r, w, "notify") /\ UNCHANGED <<outcome, streak>>)
      BY <1>3 DEF CreateLink
    <2> QED
      BY <2>1, <2>2, FailsDecides DEF Places
  <1>4. CASE Notify(r, w)
    <2>1. Busy(r, w) /\ UNCHANGED <<paid, control, todo>>
      BY <1>4 DEF Notify, Sends, At, Busy, tools
    <2>2. Fails(r, w) \/ (Go(r, w, "rung") /\ UNCHANGED <<outcome, streak>>)
      BY <1>4 DEF Notify, Sends
    <2> QED
      BY <2>1, <2>2, FailsDecides DEF Places
  <1>5. CASE Retry(r, w)
    <2>1. Busy(r, w) /\ UNCHANGED <<paid, control, todo, outcome, streak>>
      BY <1>5 DEF Retry, Sends, At, Busy, tools
    <2>2. Go(r, w, "rung") \/ Go(r, w, "stamp")
      BY <1>5 DEF Retry, Sends
    <2> QED
      BY <2>1, <2>2 DEF Places
  <1>6. CASE Stamp(r, w)
    BY <1>6 DEF Stamp, At, Busy, Outcomes
  <1>7. CASE Pick(r, w)
    BY <1>7 DEF Pick, tools
  <1>8. CASE Rung(r, w)
    BY <1>8 DEF Rung, At, Busy, Places
  <1> QED
    BY <1>1, <1>2, <1>3, <1>4, <1>5, <1>6, <1>7, <1>8 DEF Works

BusySet(r) == {w \in Workers : Busy(r, w)}

\* A case is picked only while the streak is short, so that what is in flight
\* can lengthen it by no more than the number of workers.
StreakInv ==
    \A r \in Runs :
        streak[r] + Cardinality(BusySet(r)) + 1 <= FailLimit + Cardinality(Workers)

LEMMA BusyCount ==
    /\ Cardinality(Workers) \in Nat
    /\ \A r \in Runs : /\ IsFiniteSet(BusySet(r)) /\ Cardinality(BusySet(r)) \in Nat
                       /\ Cardinality(BusySet(r)) <= Cardinality(Workers)
                       /\ Cardinality(BusySet(r)') <= Cardinality(Workers)
                       /\ Cardinality(BusySet(r)') \in Nat
  <1>1. \A r \in Runs : BusySet(r) \in SUBSET Workers /\ BusySet(r)' \in SUBSET Workers
    BY DEF BusySet
  <1> QED
    BY <1>1, FiniteAssumption, FS_Subset, FS_CardinalityType

LEMMA InitStreak == Init => StreakInv
  <1> SUFFICES ASSUME Init PROVE StreakInv
    OBVIOUS
  <1>1. ASSUME NEW r \in Runs
        PROVE  BusySet(r) = {} /\ streak[r] = 0
    BY <1>1 DEF Init, BusySet, Busy, Idle
  <1> QED
    BY <1>1, FS_EmptySet, BusyCount, BudgetsAreNumbers DEF StreakInv

LEMMA QuietBusy ==
    ASSUME StreakInv, UNCHANGED <<work, streak>>
    PROVE  StreakInv'
  <1>1. \A r \in Runs : BusySet(r)' = BusySet(r)
    BY DEF BusySet, Busy
  <1> QED
    BY <1>1 DEF StreakInv

LEMMA WorksStreak ==
    ASSUME TypeInv, StreakInv, NEW r \in Runs, NEW w \in Workers, Works(r, w)
    PROVE  StreakInv'
  <1>0. TypeOK /\ StreakType /\ WorkType
    BY TypeInParts DEF TypeInv
  <1>1. CASE Pick(r, w)
    <2>1. /\ UNCHANGED streak
          /\ \/ UNCHANGED work
             \/ ~StopNow(r) /\ \E c \in Cases :
                    work' = [work EXCEPT ![r][w] = [at |-> "precheck", case |-> c]]
      BY <1>0, <1>1 DEF Pick, WorkType
    <2>2. CASE UNCHANGED work
      BY <2>1, <2>2, QuietBusy
    <2>3. ASSUME ~StopNow(r), NEW c \in Cases,
                 work' = [work EXCEPT ![r][w] = [at |-> "precheck", case |-> c]]
          PROVE  StreakInv'
      <3>1. \A o \in Runs \ {r} : work'[o] = work[o]
        BY <1>0, <2>3 DEF TypeOK
      <3>2. \A o \in Runs \ {r} : BusySet(o)' = BusySet(o)
        BY <3>1 DEF BusySet, Busy
      <3>3. streak[r] + 1 <= FailLimit /\ streak[r] \in Nat
        BY <1>0, <2>3, BudgetsAreNumbers DEF StopNow, StreakType
      <3>4. streak'[r] + Cardinality(BusySet(r)') + 1 <= FailLimit + Cardinality(Workers)
        BY <2>1, <3>3, BusyCount, BudgetsAreNumbers
      <3> QED
        BY <2>1, <3>2, <3>4 DEF StreakInv
    <2> QED
      BY <2>1, <2>2, <2>3
  <1>2. ASSUME Busy(r, w), NEW what \in Outcomes, Decide(r, w, what)
        PROVE  StreakInv'
    <2>1. /\ work'[r][w] = Idle
          /\ \A o \in Runs, v \in Workers : (o # r \/ v # w) => work'[o][v] = work[o][v]
          /\ \A o \in Runs \ {r} : streak'[o] = streak[o]
          /\ streak'[r] \in Nat /\ streak[r] \in Nat /\ streak'[r] <= streak[r] + 1
      <3>1. streak[r] \in Nat /\ streak' \in [Runs -> Nat]
        BY <1>0, <1>2, DecideEffect DEF StreakType
      <3>2. streak'[r] = IF what = "acted" THEN 0
                         ELSE IF what = "exception" THEN streak[r] + 1 ELSE streak[r]
        BY <1>0, <1>2, DecideEffect
      <3>3. streak'[r] <= streak[r] + 1
        BY <3>1, <3>2
      <3> QED
        BY <1>0, <1>2, <3>1, <3>3, DecideEffect
    <2>2. \A o \in Runs \ {r} : BusySet(o)' = BusySet(o)
      BY <2>1 DEF BusySet, Busy
    <2>3. BusySet(r)' = BusySet(r) \ {w} /\ w \in BusySet(r)
      BY <1>2, <2>1 DEF BusySet, Busy, Idle
    <2>4. Cardinality(BusySet(r)') = Cardinality(BusySet(r)) - 1
      BY <2>3, BusyCount, FS_RemoveElement
    <2>5. streak'[r] + Cardinality(BusySet(r)') + 1 <= FailLimit + Cardinality(Workers)
      BY <2>1, <2>4, BusyCount, BudgetsAreNumbers DEF StreakInv
    <2> QED
      BY <2>1, <2>2, <2>5 DEF StreakInv
  <1>3. ASSUME Busy(r, w), NEW place \in Places \ {"idle"}, Go(r, w, place), UNCHANGED streak
        PROVE  StreakInv'
    <2>0. place \in Places /\ place # "idle"
      BY <1>3
    <2>1. \A o \in Runs, v \in Workers : Busy(o, v)' <=> Busy(o, v)
      <3>1. /\ work'[r][w] = [at |-> place, case |-> CaseOf(r, w)]
            /\ \A o \in Runs, v \in Workers : (o # r \/ v # w) => work'[o][v] = work[o][v]
        BY <1>0, <1>3, <2>0, GoEffect
      <3> QED
        BY <1>3, <2>0, <3>1 DEF Busy
    <2>2. \A o \in Runs : BusySet(o)' = BusySet(o)
      BY <2>1 DEF BusySet
    <2> QED
      BY <1>3, <2>2 DEF StreakInv
  <1> QED
    BY <1>1, <1>2, <1>3, WorksKinds

LEMMA NextStreak ==
    ASSUME TypeInv, StreakInv, [Next]_vars
    PROVE  StreakInv'
  <1>1. CASE UNCHANGED vars
    BY <1>1, QuietBusy DEF vars
  <1>2. ASSUME NEW r \in Runs, Open(r) \/ Abort(r) \/ Expire(r) \/ Close(r)
        PROVE  StreakInv'
    BY <1>2, QuietBusy DEF Open, Abort, Expire, Close
  <1>3. ASSUME NEW c \in Cases, Pay(c) \/ AgentClimbs(c)
        PROVE  StreakInv'
    BY <1>3, QuietBusy DEF Pay, AgentClimbs
  <1> QED
    BY <1>1, <1>2, <1>3, WorksStreak DEF Next

\* However the workers interleave, a run whose actions all fail ends its streak
\* at the limit plus what the other workers had in hand.
THEOREM StreakStops == Spec => []StreakIsBounded
  <1>1. TypeInv /\ StreakInv => StreakIsBounded
    <2> SUFFICES ASSUME TypeInv, StreakInv, NEW r \in Runs
                 PROVE  streak[r] <= FailLimit + Cardinality(Workers) - 1
      BY DEF StreakIsBounded
    <2>1. streak[r] \in Nat
      BY TypeInParts DEF StreakType
    <2> QED
      BY <2>1, BusyCount, BudgetsAreNumbers DEF StreakInv
  <1>2. TypeInv /\ StreakInv /\ [Next]_vars => (TypeInv /\ StreakInv)'
    BY NextType, NextStreak
  <1> QED
    BY <1>1, <1>2, InitType, InitStreak, PTL DEF Spec

\* A case of a run that has begun is paid, or yet to be picked, or in a hand,
\* or decided.
DecidedInv ==
    \A r \in Runs :
        /\ Ended(r) => todo[r] = {}
        /\ status[r] # "new" => \A c \in Cases :
               \/ outcome[r][c] # "none"
               \/ c \in paid \cup todo[r]
               \/ \E w \in Workers : Busy(r, w) /\ CaseOf(r, w) = c

LEMMA QuietDecided ==
    ASSUME DecidedInv, UNCHANGED <<todo, outcome, work, status>>, paid \subseteq paid'
    PROVE  DecidedInv'
  BY DEF DecidedInv, Ended, Busy, CaseOf

LEMMA WorksDecided ==
    ASSUME TypeInv, DecidedInv, NEW r \in Runs, NEW w \in Workers, Works(r, w)
    PROVE  DecidedInv'
  <1> DEFINE Found(o, c) == \/ outcome[o][c] # "none"
                            \/ c \in paid \cup todo[o]
                            \/ \E v \in Workers : Busy(o, v) /\ CaseOf(o, v) = c
  <1>0. TypeOK /\ WorkType /\ UNCHANGED <<paid, status>>
    BY TypeInParts, WorksKinds DEF TypeInv, control
  <1>1. CASE Pick(r, w)
    <2>1. PICK d \in todo[r] :
              /\ todo' = [todo EXCEPT ![r] = @ \ {d}]
              /\ \/ /\ outcome' = [outcome EXCEPT ![r][d] = Unworked(d)]
                    /\ UNCHANGED work
                 \/ /\ work' = [work EXCEPT ![r][w] = [at |-> "precheck", case |-> d]]
                    /\ UNCHANGED outcome
      BY <1>1 DEF Pick
    <2>2. d \in Cases /\ work[r][w].at = "idle" /\ todo'[r] = todo[r] \ {d}
          /\ \A o \in Runs \ {r} : todo'[o] = todo[o]
      BY <1>0, <1>1, <2>1 DEF WorkType, Pick, At
    <2>3. ASSUME NEW o \in Runs, NEW c \in Cases, Found(o, c)
          PROVE  Found(o, c)'
      <3>1. CASE UNCHANGED work /\ outcome' = [outcome EXCEPT ![r][d] = Unworked(d)]
        <4>1. \A e \in Cases : outcome[o][e] # "none" \/ (o = r /\ e = d)
                               => outcome'[o][e] # "none"
          BY <1>0, <2>2, <3>1 DEF WorkType, Unworked
        <4> QED
          BY <1>0, <2>2, <2>3, <3>1, <4>1 DEF Busy, CaseOf
      <3>2. CASE /\ work' = [work EXCEPT ![r][w] = [at |-> "precheck", case |-> d]]
                 /\ UNCHANGED outcome
        <4>1. /\ Busy(r, w)' /\ CaseOf(r, w)' = d
              /\ \A v \in Workers : Busy(o, v) => Busy(o, v)' /\ CaseOf(o, v)' = CaseOf(o, v)
          BY <1>0, <2>2, <3>2 DEF TypeOK, Busy, CaseOf
        <4> QED
          BY <1>0, <2>2, <2>3, <3>2, <4>1
      <3> QED
        BY <2>1, <3>1, <3>2
    <2>4. \A o \in Runs : todo[o] = {} => todo'[o] = {}
      BY <2>2
    <2> QED
      BY <1>0, <2>3, <2>4 DEF DecidedInv, Ended
  <1>2. ASSUME Busy(r, w), UNCHANGED todo, NEW what \in Outcomes, Decide(r, w, what)
        PROVE  DecidedInv'
    <2>1. /\ work'[r][w] = Idle
          /\ \A o \in Runs, v \in Workers : (o # r \/ v # w) => work'[o][v] = work[o][v]
          /\ outcome'[r] = [outcome[r] EXCEPT ![CaseOf(r, w)] = what]
          /\ \A o \in Runs \ {r} : outcome'[o] = outcome[o]
          /\ what # "none" /\ CaseOf(r, w) \in Cases
      <3>1. what # "none" /\ CaseOf(r, w) \in Cases
        BY <1>2 DEF Outcomes, TypeInv, HandsInv, HandOK
      <3> QED
        BY <1>0, <1>2, <3>1, DecideEffect
    <2>2. /\ outcome'[r][CaseOf(r, w)] # "none"
          /\ \A o \in Runs, c \in Cases : outcome[o][c] # "none" => outcome'[o][c] # "none"
      BY <1>0, <2>1 DEF WorkType
    <2>3. \A o \in Runs, c \in Cases : Found(o, c) => Found(o, c)'
      BY <1>0, <1>2, <2>1, <2>2 DEF Busy, CaseOf
    <2> QED
      BY <1>0, <1>2, <2>3 DEF DecidedInv, Ended
  <1>3. ASSUME UNCHANGED <<todo, outcome>>, NEW place \in Places \ {"idle"}, Go(r, w, place),
               Busy(r, w)
        PROVE  DecidedInv'
    <2>0. place \in Places /\ place # "idle"
      BY <1>3
    <2>1. \A o \in Runs, v \in Workers : (Busy(o, v)' <=> Busy(o, v))
                                         /\ CaseOf(o, v)' = CaseOf(o, v)
      <3>1. /\ work'[r][w] = [at |-> place, case |-> CaseOf(r, w)]
            /\ \A o \in Runs, v \in Workers : (o # r \/ v # w) => work'[o][v] = work[o][v]
        BY <1>0, <1>3, <2>0, GoEffect
      <3> QED
        BY <1>3, <2>0, <3>1 DEF Busy, CaseOf
    <2> QED
      BY <1>0, <1>3, <2>1 DEF DecidedInv, Ended
  <1> QED
    BY <1>1, <1>2, <1>3, WorksKinds

LEMMA NextDecided ==
    ASSUME TypeInv, DecidedInv, [Next]_vars
    PROVE  DecidedInv'
  <1>1. CASE UNCHANGED vars
    BY <1>1, QuietDecided DEF vars, tools, control
  <1>2. ASSUME NEW r \in Runs, Abort(r) \/ Expire(r)
        PROVE  DecidedInv'
    BY <1>2, QuietDecided DEF Abort, Expire, tools
  <1>3. ASSUME NEW r \in Runs, Open(r) \/ Close(r)
        PROVE  DecidedInv'
    <2>1. TypeOK /\ UNCHANGED <<paid, work, outcome>>
          /\ \A o \in Runs \ {r} : status'[o] = status[o] /\ todo'[o] = todo[o]
      BY <1>3 DEF Open, Close, tools, TypeInv, TypeOK
    <2>2. \/ status'[r] = "running" /\ todo'[r] = Cases \ paid
          \/ status[r] = "running" /\ todo[r] = {} /\ todo' = todo
      BY <1>3, <2>1 DEF Open, Close, TypeOK, Live
    <2>3. ASSUME NEW o \in Runs
          PROVE  /\ Ended(o)' => todo'[o] = {}
                 /\ status'[o] # "new" => \A c \in Cases :
                        \/ outcome'[o][c] # "none"
                        \/ c \in paid' \cup todo'[o]
                        \/ \E w \in Workers : Busy(o, w)' /\ CaseOf(o, w)' = c
      BY <2>1, <2>2 DEF DecidedInv, Ended, Busy, CaseOf
    <2> QED
      BY <2>3 DEF DecidedInv
  <1>4. ASSUME NEW c \in Cases, Pay(c) \/ AgentClimbs(c)
        PROVE  DecidedInv'
    BY <1>4, QuietDecided DEF Pay, AgentClimbs, control
  <1> QED
    BY <1>1, <1>2, <1>3, <1>4, WorksDecided DEF Next

\* No case of a run that is over was dropped without a decision.
THEOREM NobodyIsDropped == Spec => []EveryCaseIsDecided
  <1>1. Init => DecidedInv
    BY DEF Init, DecidedInv, Ended
  <1>2. TypeInv /\ DecidedInv /\ [Next]_vars => (TypeInv /\ DecidedInv)'
    BY NextType, NextDecided
  <1>3. TypeInv /\ DecidedInv => EveryCaseIsDecided
    BY DEF TypeInv, HandsInv, HandOK, DecidedInv, EveryCaseIsDecided, Ended, Live
  <1> QED
    BY <1>1, <1>2, <1>3, InitType, PTL DEF Spec

-----------------------------------------------------------------------------
(* The books                                                               *)

\* What a run has in hand and has taken from its budget, and the sets its
\* three counters stand for: what was done, and what is about to be.
Held(r) == {c \in Cases : \E w \in Workers : work[r][w].at \in Acting /\ CaseOf(r, w) = c}
LinkSet(r) == linked[r] \cup {c \in Held(r) : NeedsLink(c) = 1}
EmailSet(r) == {c \in sent[r] \cup Held(r) : NeedsEmail(c) = 1}
CaseSet(r) == sent[r] \cup Held(r)
ActedSet(r) == Acted(r) \cup Held(r)

CoverOK(r) ==
    /\ Cardinality(LinkSet(r)) <= spend[r].links
    /\ Cardinality(EmailSet(r)) <= spend[r].emails
    /\ Cardinality(CaseSet(r)) <= spend[r].cases

LeakOK(r) ==
    /\ spend[r].emails = Cardinality(EmailSet(r))
    /\ spend[r].cases = Cardinality(ActedSet(r))

BooksOK(r) == CoverOK(r) /\ (~ToolsRaise => LeakOK(r))
BooksInv == \A r \in Runs : BooksOK(r)

LEMMA SetsAreFinite ==
    ASSUME TypeOK, NEW r \in Runs
    PROVE  /\ IsFiniteSet(LinkSet(r)) /\ Cardinality(LinkSet(r)) \in Nat
           /\ IsFiniteSet(EmailSet(r)) /\ Cardinality(EmailSet(r)) \in Nat
           /\ IsFiniteSet(CaseSet(r)) /\ Cardinality(CaseSet(r)) \in Nat
           /\ IsFiniteSet(ActedSet(r)) /\ Cardinality(ActedSet(r)) \in Nat
           /\ spend[r].links \in Nat /\ spend[r].emails \in Nat /\ spend[r].cases \in Nat
  <1>1. /\ LinkSet(r) \in SUBSET Cases /\ EmailSet(r) \in SUBSET Cases
        /\ CaseSet(r) \in SUBSET Cases /\ ActedSet(r) \in SUBSET Cases
    BY DEF TypeOK, LinkSet, EmailSet, CaseSet, ActedSet, Held, Acted
  <1>2. spend[r] \in [links : 0..MaxLinks, emails : 0..MaxEmails, cases : 0..MaxCases]
    BY DEF TypeOK
  <1>3. spend[r].links \in Nat /\ spend[r].emails \in Nat /\ spend[r].cases \in Nat
    BY <1>2, BudgetsAreNumbers
  <1> QED
    BY <1>1, <1>3, FiniteAssumption, FS_Subset, FS_CardinalityType

LEMMA InitBooks == Init => BooksInv
  <1> SUFFICES ASSUME Init, NEW r \in Runs PROVE BooksOK(r)
    BY DEF BooksInv
  <1>1. Held(r) = {} /\ Acted(r) = {}
    BY DEF Init, Held, Acted, Idle, Acting
  <1>2. /\ LinkSet(r) = {} /\ EmailSet(r) = {} /\ CaseSet(r) = {} /\ ActedSet(r) = {}
    BY <1>1 DEF Init, LinkSet, EmailSet, CaseSet, ActedSet
  <1>3. spend[r] = [links |-> 0, emails |-> 0, cases |-> 0]
    BY DEF Init, Nothing
  <1> QED
    BY <1>2, <1>3, FS_EmptySet DEF BooksOK, CoverOK, LeakOK

\* The books of a run that did nothing.
LEMMA OtherBooks ==
    ASSUME NEW o \in Runs, BooksOK(o), work'[o] = work[o], sent'[o] = sent[o],
           linked'[o] = linked[o], Acted(o)' = Acted(o), spend'[o] = spend[o]
    PROVE  BooksOK(o)'
  <1>1. Held(o)' = Held(o)
    BY DEF Held, CaseOf
  <1>2. /\ LinkSet(o)' = LinkSet(o) /\ EmailSet(o)' = EmailSet(o)
        /\ CaseSet(o)' = CaseSet(o) /\ ActedSet(o)' = ActedSet(o)
    BY <1>1 DEF LinkSet, EmailSet, CaseSet, ActedSet, NeedsLink, NeedsEmail
  <1> QED
    BY <1>2 DEF BooksOK, CoverOK, LeakOK

LEMMA QuietBooks ==
    ASSUME BooksInv, UNCHANGED <<work, outcome, sent, linked, spend>>
    PROVE  BooksInv'
  BY OtherBooks DEF BooksInv, Acted

\* The other runs, whatever a worker of r does.
LEMMA WorksOthers ==
    ASSUME TypeInv, NEW r \in Runs, NEW w \in Workers, Works(r, w), NEW o \in Runs \ {r}
    PROVE  /\ work'[o] = work[o] /\ sent'[o] = sent[o] /\ linked'[o] = linked[o]
           /\ outcome'[o] = outcome[o] /\ spend'[o] = spend[o]
  <1>0. TypeOK
    BY DEF TypeInv
  <1>1. work'[o] = work[o] /\ outcome'[o] = outcome[o]
    <2>1. CASE Pick(r, w)
      BY <1>0, <2>1 DEF Pick, TypeOK
    <2>2. ASSUME NEW what \in Outcomes, Decide(r, w, what)
          PROVE  work'[o] = work[o] /\ outcome'[o] = outcome[o]
      BY <1>0, <2>2 DEF Decide, TypeOK
    <2>3. ASSUME NEW place \in Places \ {"idle"}, Go(r, w, place), UNCHANGED outcome
          PROVE  work'[o] = work[o] /\ outcome'[o] = outcome[o]
      BY <1>0, <2>3 DEF Go, TypeOK
    <2> QED
      BY <2>1, <2>2, <2>3, WorksKinds
  <1>2. spend'[o] = spend[o]
    <2>1. CASE spend' = Taken(r, CaseOf(r, w))
      BY <1>0, <2>1 DEF Taken, TypeOK
    <2>2. CASE Fails(r, w)
      BY <1>0, <2>2 DEF Fails, GiveBack, TypeOK
    <2> QED
      BY <2>1, <2>2 DEF Works, Pick, Precheck, Reserve, CreateLink, Notify, Retry, Sends,
                        Rung, Stamp
  <1>3. sent'[o] = sent[o] /\ linked'[o] = linked[o]
    BY <1>0 DEF Works, Pick, Precheck, Reserve, CreateLink, Notify, Retry, Sends, Rung,
                Stamp, tools, TypeOK
  <1> QED
    BY <1>1, <1>2, <1>3

\* A case that was decided is in hand no more.
LEMMA DecideSets ==
    ASSUME TypeInv, NEW r \in Runs, NEW w \in Workers, Busy(r, w),
           NEW what \in Outcomes, Decide(r, w, what)
    PROVE  /\ Held(r)' = Held(r) \ {CaseOf(r, w)}
           /\ CaseOf(r, w) \in Held(r) <=> work[r][w].at \in Acting
           /\ Acted(r)' = IF what = "acted" THEN Acted(r) \cup {CaseOf(r, w)} ELSE Acted(r)
           /\ CaseOf(r, w) \notin Acted(r)
  <1> DEFINE c == CaseOf(r, w)
  <1>1. TypeOK /\ HandOK(r, w) /\ c \in Cases
    BY DEF TypeInv, HandsInv, HandOK
  <1>2. /\ work'[r][w] = Idle /\ "idle" \notin Acting
        /\ \A v \in Workers : v # w => work'[r][v] = work[r][v]
        /\ outcome'[r] = [outcome[r] EXCEPT ![c] = what]
    BY <1>1, DecideEffect DEF Acting
  <1>3. \A v \in Workers : work[r][v].at \in Acting => Busy(r, v)
    BY DEF Acting, Busy
  <1>4. \A v \in Workers : work[r][v].at \in Acting /\ CaseOf(r, v) = c => v = w
    BY <1>1, <1>3 DEF HandOK
  <1>5. Held(r)' = Held(r) \ {c}
    BY <1>2, <1>4 DEF Held, Idle, CaseOf
  <1>6. c \in Held(r) <=> work[r][w].at \in Acting
    BY <1>1, <1>4 DEF Held
  <1>7. outcome[r][c] = "none" /\ outcome[r] \in [Cases -> Outcomes \cup {"none"}]
    BY <1>1 DEF HandOK, TypeOK
  <1>8. /\ Acted(r)' = IF what = "acted" THEN Acted(r) \cup {c} ELSE Acted(r)
        /\ c \notin Acted(r)
    BY <1>1, <1>2, <1>7 DEF Acted
  <1> QED
    BY <1>5, <1>6, <1>8

LEMMA GoSets ==
    ASSUME TypeInv, NEW r \in Runs, NEW w \in Workers, Busy(r, w),
           NEW place \in Places, Go(r, w, place), UNCHANGED outcome
    PROVE  /\ place \in Acting => Held(r)' = Held(r) \cup {CaseOf(r, w)}
           /\ place \notin Acting /\ work[r][w].at \notin Acting => Held(r)' = Held(r)
           /\ CaseOf(r, w) \in Held(r) <=> work[r][w].at \in Acting
           /\ Acted(r)' = Acted(r) /\ CaseOf(r, w) \notin Acted(r)
  <1> DEFINE c == CaseOf(r, w)
  <1>1. TypeOK /\ HandOK(r, w) /\ c \in Cases
    BY DEF TypeInv, HandsInv, HandOK
  <1>2. /\ work'[r][w] = [at |-> place, case |-> c]
        /\ \A v \in Workers : v # w => work'[r][v] = work[r][v]
    BY <1>1, GoEffect
  <1>3. \A v \in Workers : work[r][v].at \in Acting => Busy(r, v)
    BY DEF Acting, Busy
  <1>4. \A v \in Workers : work[r][v].at \in Acting /\ CaseOf(r, v) = c => v = w
    BY <1>1, <1>3 DEF HandOK
  <1>5. /\ CaseOf(r, w)' = c /\ work'[r][w].at = place
        /\ \A v \in Workers : CaseOf(r, v)' = CaseOf(r, v)
    BY <1>2 DEF CaseOf
  <1>6. place \in Acting => Held(r)' = Held(r) \cup {c}
    BY <1>1, <1>2, <1>5 DEF Held
  <1>7. place \notin Acting /\ work[r][w].at \notin Acting => Held(r)' = Held(r)
    BY <1>2, <1>5 DEF Held
  <1>8. c \in Held(r) <=> work[r][w].at \in Acting
    BY <1>1, <1>4 DEF Held
  <1>9. Acted(r)' = Acted(r) /\ c \notin Acted(r)
    BY <1>1 DEF Acted, HandOK
  <1> QED
    BY <1>6, <1>7, <1>8, <1>9

LEMMA SetsAreFiniteNext ==
    ASSUME TypeInv', NEW r \in Runs
    PROVE  /\ IsFiniteSet(LinkSet(r)') /\ Cardinality(LinkSet(r)') \in Nat
           /\ Cardinality(EmailSet(r)') \in Nat /\ Cardinality(CaseSet(r)') \in Nat
  <1>1. /\ LinkSet(r)' \in SUBSET Cases /\ EmailSet(r)' \in SUBSET Cases
        /\ CaseSet(r)' \in SUBSET Cases
    BY DEF TypeInv, TypeOK, LinkSet, EmailSet, CaseSet, Held
  <1> QED
    BY <1>1, FiniteAssumption, FS_Subset, FS_CardinalityType

\* Nothing is added to what a run has done or has in hand.
LEMMA SameBooks ==
    ASSUME TypeInv, NEW r \in Runs, BooksOK(r), spend'[r] = spend[r],
           LinkSet(r)' \subseteq LinkSet(r), CaseSet(r)' \subseteq CaseSet(r),
           EmailSet(r)' = EmailSet(r), ActedSet(r)' = ActedSet(r)
    PROVE  BooksOK(r)'
  <1>1. TypeOK
    BY DEF TypeInv
  <1>2. /\ Cardinality(LinkSet(r)') <= Cardinality(LinkSet(r))
        /\ Cardinality(LinkSet(r)') \in Nat
    BY <1>1, SetsAreFinite, FS_Subset, FS_CardinalityType
  <1>3. /\ Cardinality(CaseSet(r)') <= Cardinality(CaseSet(r))
        /\ Cardinality(CaseSet(r)') \in Nat
    BY <1>1, SetsAreFinite, FS_Subset, FS_CardinalityType
  <1> QED
    BY <1>1, <1>2, <1>3, SetsAreFinite DEF BooksOK, CoverOK, LeakOK

\* A case that comes into hand is paid for.
LEMMA EnterBooks ==
    ASSUME TypeInv, NEW r \in Runs, NEW w \in Workers, BooksOK(r),
           work[r][w].at = "reserve", ~Exceeds(r, CaseOf(r, w)),
           spend' = Taken(r, CaseOf(r, w)), Go(r, w, FirstStep(CaseOf(r, w))),
           UNCHANGED <<outcome, sent, linked>>
    PROVE  BooksOK(r)'
  <1> DEFINE c == CaseOf(r, w)
  <1>1. TypeOK /\ Busy(r, w) /\ HandOK(r, w) /\ c \in Cases
    BY DEF TypeInv, HandsInv, HandOK, Busy
  <1>2. c \notin sent[r] /\ PlanFor[c] # "none"
    BY <1>1 DEF HandOK, BeforeSending, Fits
  <1>3. FirstStep(c) \in Acting /\ FirstStep(c) \in Places
    BY <1>1, <1>2, FirstStepFits
  <1>4. "reserve" \notin Acting
    BY DEF Acting
  <1>5. /\ Held(r)' = Held(r) \cup {c} /\ c \notin Held(r)
        /\ Acted(r)' = Acted(r) /\ c \notin Acted(r)
    BY <1>1, <1>3, <1>4, GoSets
  <1>6. /\ spend'[r].links = spend[r].links + NeedsLink(c)
        /\ spend'[r].emails = spend[r].emails + NeedsEmail(c)
        /\ spend'[r].cases = spend[r].cases + 1
    BY <1>1, TakenEffect
  <1>7. Cardinality(CaseSet(r)') = Cardinality(CaseSet(r)) + 1
    <2>1. CaseSet(r)' = CaseSet(r) \cup {c} /\ c \notin CaseSet(r)
      BY <1>2, <1>5 DEF CaseSet
    <2> QED
      BY <1>1, <2>1, SetsAreFinite, FS_AddElement
  <1>8. Cardinality(ActedSet(r)') = Cardinality(ActedSet(r)) + 1
    <2>1. ActedSet(r)' = ActedSet(r) \cup {c} /\ c \notin ActedSet(r)
      BY <1>5 DEF ActedSet
    <2> QED
      BY <1>1, <2>1, SetsAreFinite, FS_AddElement
  <1>9. Cardinality(EmailSet(r)') = Cardinality(EmailSet(r)) + NeedsEmail(c)
    <2>1. CASE NeedsEmail(c) = 1
      <3>1. EmailSet(r)' = EmailSet(r) \cup {c} /\ c \notin EmailSet(r)
        BY <1>2, <1>5, <2>1 DEF EmailSet, NeedsEmail
      <3> QED
        BY <1>1, <2>1, <3>1, SetsAreFinite, FS_AddElement
    <2>2. CASE NeedsEmail(c) = 0
      <3>1. EmailSet(r)' = EmailSet(r)
        BY <1>2, <1>5, <2>2 DEF EmailSet, NeedsEmail
      <3> QED
        BY <1>1, <2>2, <3>1, SetsAreFinite
    <2> QED
      BY <2>1, <2>2 DEF NeedsEmail
  <1>10. /\ Cardinality(LinkSet(r)') <= Cardinality(LinkSet(r)) + NeedsLink(c)
         /\ Cardinality(LinkSet(r)') \in Nat
    <2>1. CASE NeedsLink(c) = 1
      <3>1. LinkSet(r)' = LinkSet(r) \cup {c}
        BY <1>5, <2>1 DEF LinkSet, NeedsLink
      <3>2. Cardinality(LinkSet(r)') = Cardinality(LinkSet(r))
            \/ Cardinality(LinkSet(r)') = Cardinality(LinkSet(r)) + 1
        BY <1>1, <3>1, SetsAreFinite, FS_AddElement
      <3> QED
        BY <1>1, <2>1, <3>2, SetsAreFinite
    <2>2. CASE NeedsLink(c) = 0
      <3>1. LinkSet(r)' = LinkSet(r)
        BY <1>5, <2>2 DEF LinkSet, NeedsLink
      <3> QED
        BY <1>1, <2>2, <3>1, SetsAreFinite
    <2> QED
      BY <2>1, <2>2 DEF NeedsLink
  <1>11. NeedsLink(c) \in 0..1 /\ NeedsEmail(c) \in 0..1
    BY <1>1, Needs
  <1>12. CoverOK(r)'
    BY <1>1, <1>6, <1>7, <1>9, <1>10, <1>11, SetsAreFinite DEF BooksOK, CoverOK
  <1>13. ~ToolsRaise => LeakOK(r)'
    BY <1>6, <1>8, <1>9 DEF BooksOK, LeakOK
  <1> QED
    BY <1>12, <1>13 DEF BooksOK

\* A case that failed is paid back.
LEMMA FailsBooks ==
    ASSUME TypeInv, NEW r \in Runs, NEW w \in Workers, BooksOK(r),
           work[r][w].at \in {"link", "notify"}, Fails(r, w), UNCHANGED sent,
           \/ linked'[r] = linked[r]
           \/ work[r][w].at = "link" /\ linked'[r] = linked[r] \cup {CaseOf(r, w)}
    PROVE  BooksOK(r)'
  <1> DEFINE c == CaseOf(r, w)
  <1>1. TypeOK /\ Busy(r, w) /\ HandOK(r, w) /\ c \in Cases
    BY DEF TypeInv, HandsInv, HandOK, Busy
  <1>2. /\ c \notin sent[r] /\ NeedsEmail(c) = 1
        /\ work[r][w].at = "link" => NeedsLink(c) = 1
    BY <1>1 DEF HandOK, BeforeSending, Fits, NeedsEmail, NeedsLink
  <1>3. /\ Held(r)' = Held(r) \ {c} /\ c \in Held(r)
        /\ Acted(r)' = Acted(r) /\ c \notin Acted(r)
    BY <1>1, FailsDecides, DecideSets DEF Acting
  <1>4. Cardinality(CaseSet(r)') = Cardinality(CaseSet(r)) - 1
    <2>1. CaseSet(r)' = CaseSet(r) \ {c} /\ c \in CaseSet(r)
      BY <1>2, <1>3 DEF CaseSet
    <2> QED
      BY <1>1, <2>1, SetsAreFinite, FS_RemoveElement
  <1>5. Cardinality(ActedSet(r)') = Cardinality(ActedSet(r)) - 1
    <2>1. ActedSet(r)' = ActedSet(r) \ {c} /\ c \in ActedSet(r)
      BY <1>3 DEF ActedSet
    <2> QED
      BY <1>1, <2>1, SetsAreFinite, FS_RemoveElement
  <1>6. Cardinality(EmailSet(r)') = Cardinality(EmailSet(r)) - 1
    <2>1. EmailSet(r)' = EmailSet(r) \ {c} /\ c \in EmailSet(r)
      BY <1>2, <1>3 DEF EmailSet, NeedsEmail
    <2> QED
      BY <1>1, <2>1, SetsAreFinite, FS_RemoveElement
  <1>7. /\ Cardinality(LinkSet(r)') <= Cardinality(LinkSet(r))
        /\ Cardinality(LinkSet(r)') \in Nat
    <2>1. LinkSet(r)' \in SUBSET LinkSet(r)
      BY <1>2, <1>3 DEF LinkSet, NeedsLink
    <2> QED
      BY <1>1, <2>1, SetsAreFinite, FS_Subset, FS_CardinalityType
  <1>8. CaseSet(r) # {} /\ EmailSet(r) # {}
    BY <1>2, <1>3 DEF CaseSet, EmailSet
  <1>9. Cardinality(CaseSet(r)) > 0 /\ Cardinality(EmailSet(r)) > 0
    BY <1>1, <1>8, SetsAreFinite, FS_EmptySet
  <1>10. spend[r].cases > 0 /\ spend[r].emails > 0
    BY <1>1, <1>9, SetsAreFinite DEF BooksOK, CoverOK
  <1>11. CASE spend' = GiveBack(r, c)
    <2>1. /\ spend'[r].links = spend[r].links
          /\ spend'[r].emails = spend[r].emails - 1
          /\ spend'[r].cases = spend[r].cases - 1
      BY <1>1, <1>10, <1>11, GiveBackEffect
    <2>2. CoverOK(r)'
      BY <1>1, <1>4, <1>6, <1>7, <2>1, SetsAreFinite DEF BooksOK, CoverOK
    <2>3. ~ToolsRaise => LeakOK(r)'
      BY <1>5, <1>6, <2>1 DEF BooksOK, LeakOK
    <2> QED
      BY <2>2, <2>3 DEF BooksOK
  <1>12. CASE ToolsRaise /\ spend' = spend
    <2>1. CoverOK(r)'
      BY <1>1, <1>4, <1>6, <1>7, <1>12, SetsAreFinite DEF BooksOK, CoverOK
    <2> QED
      BY <1>12, <2>1 DEF BooksOK
  <1> QED
    BY <1>11, <1>12 DEF Fails

\* A decision of a worker that had nothing in hand yet.
LEMMA EarlyBooks ==
    ASSUME TypeInv, NEW r \in Runs, NEW w \in Workers, BooksOK(r), Busy(r, w),
           work[r][w].at \in {"precheck", "reserve"},
           NEW what \in Outcomes \ {"acted"}, Decide(r, w, what),
           UNCHANGED <<sent, linked, spend>>
    PROVE  BooksOK(r)'
  <1>1. what \in Outcomes /\ what # "acted" /\ work[r][w].at \notin Acting
    BY DEF Acting
  <1>2. Held(r)' = Held(r) \ {CaseOf(r, w)} /\ CaseOf(r, w) \notin Held(r)
        /\ Acted(r)' = Acted(r)
    BY <1>1, DecideSets
  <1>3. Held(r)' = Held(r)
    BY <1>2
  <1>4. /\ LinkSet(r)' = LinkSet(r) /\ EmailSet(r)' = EmailSet(r)
        /\ CaseSet(r)' = CaseSet(r) /\ ActedSet(r)' = ActedSet(r)
    BY <1>2, <1>3 DEF LinkSet, EmailSet, CaseSet, ActedSet, NeedsLink, NeedsEmail
  <1> QED
    BY <1>4, SameBooks

\* A worker that goes on from one tool to the next with its case in hand.
LEMMA OnwardBooks ==
    ASSUME TypeInv, NEW r \in Runs, NEW w \in Workers, BooksOK(r),
           work[r][w].at \in Acting, NEW place \in Acting, Go(r, w, place),
           UNCHANGED <<outcome, spend>>,
           sent'[r] = sent[r] \/ sent'[r] = sent[r] \cup {CaseOf(r, w)},
           \/ linked'[r] = linked[r]
           \/ work[r][w].at = "link" /\ linked'[r] = linked[r] \cup {CaseOf(r, w)}
    PROVE  BooksOK(r)'
  <1> DEFINE c == CaseOf(r, w)
  <1>1. Busy(r, w) /\ place \in Places
    BY DEF Busy, Acting, Places
  <1>2. HandOK(r, w)
    BY <1>1 DEF TypeInv, HandsInv
  <1>3. work[r][w].at = "link" => NeedsLink(c) = 1
    BY <1>2 DEF HandOK, Fits, NeedsLink
  <1>4. Held(r)' = Held(r) \cup {c} /\ c \in Held(r) /\ Acted(r)' = Acted(r)
    BY <1>1, GoSets
  <1>5. Held(r)' = Held(r)
    BY <1>4
  <1>6. /\ EmailSet(r)' = EmailSet(r)
        /\ CaseSet(r)' = CaseSet(r) /\ ActedSet(r)' = ActedSet(r)
    BY <1>4, <1>5 DEF EmailSet, CaseSet, ActedSet, NeedsEmail
  <1>7. LinkSet(r)' \subseteq LinkSet(r)
    BY <1>3, <1>4, <1>5 DEF LinkSet, NeedsLink
  <1> QED
    BY <1>6, <1>7, SameBooks

LEMMA StampBooks ==
    ASSUME TypeInv, NEW r \in Runs, NEW w \in Workers, BooksOK(r), Stamp(r, w)
    PROVE  BooksOK(r)'
  <1> DEFINE c == CaseOf(r, w)
  <1>1. /\ Busy(r, w) /\ work[r][w].at = "stamp" /\ Decide(r, w, "acted")
        /\ "acted" \in Outcomes /\ "stamp" \in Acting
        /\ UNCHANGED <<sent, linked, spend>>
    BY DEF Stamp, At, Busy, Outcomes, Acting
  <1>2. NeedsEmail(c) = 1 => c \in sent[r]
    BY <1>1 DEF TypeInv, HandsInv, HandOK
  <1>3. Held(r)' = Held(r) \ {c} /\ c \in Held(r) /\ Acted(r)' = Acted(r) \cup {c}
    BY <1>1, DecideSets
  <1>4. EmailSet(r)' = EmailSet(r)
    BY <1>1, <1>2, <1>3 DEF EmailSet, NeedsEmail
  <1>5. ActedSet(r)' = ActedSet(r)
    BY <1>3 DEF ActedSet
  <1>6. LinkSet(r)' \subseteq LinkSet(r) /\ CaseSet(r)' \subseteq CaseSet(r)
    BY <1>1, <1>3 DEF LinkSet, CaseSet, NeedsLink
  <1> QED
    BY <1>1, <1>4, <1>5, <1>6, SameBooks

LEMMA PickBooks ==
    ASSUME TypeInv, NEW r \in Runs, NEW w \in Workers, BooksOK(r), Pick(r, w)
    PROVE  BooksOK(r)'
  <1>1. PICK c \in todo[r] :
            \/ outcome' = [outcome EXCEPT ![r][c] = Unworked(c)] /\ UNCHANGED work
            \/ /\ work' = [work EXCEPT ![r][w] = [at |-> "precheck", case |-> c]]
               /\ UNCHANGED outcome
    BY DEF Pick
  <1>2. /\ c \in Cases /\ outcome[r][c] = "none" /\ work[r][w].at = "idle"
        /\ UNCHANGED <<sent, linked, spend>>
    BY DEF Pick, At, tools, TypeInv, TypeOK, HandsInv, TodoOK
  <1>3. Held(r)' = Held(r)
    <2>1. CASE UNCHANGED work
      BY <2>1 DEF Held, CaseOf
    <2>2. CASE work' = [work EXCEPT ![r][w] = [at |-> "precheck", case |-> c]]
      <3>1. /\ work'[r][w].at = "precheck"
            /\ \A v \in Workers : v # w => work'[r][v] = work[r][v]
        BY <2>2 DEF TypeInv, TypeOK
      <3> QED
        BY <1>2, <3>1 DEF Held, CaseOf, Acting
    <2> QED
      BY <1>1, <2>1, <2>2
  <1>4. Acted(r)' = Acted(r)
    BY <1>1, <1>2 DEF Acted, Unworked, TypeInv, TypeOK
  <1>5. /\ LinkSet(r)' = LinkSet(r) /\ EmailSet(r)' = EmailSet(r)
        /\ CaseSet(r)' = CaseSet(r) /\ ActedSet(r)' = ActedSet(r)
    BY <1>2, <1>3, <1>4 DEF LinkSet, EmailSet, CaseSet, ActedSet, NeedsLink, NeedsEmail
  <1> QED
    BY <1>2, <1>5, SameBooks

LEMMA WorksBooks ==
    ASSUME TypeInv, NEW r \in Runs, NEW w \in Workers, BooksOK(r), Works(r, w)
    PROVE  BooksOK(r)'
  <1>0. TypeOK
    BY DEF TypeInv
  <1>1. CASE Pick(r, w)
    BY <1>1, PickBooks
  <1>2. CASE Precheck(r, w)
    <2>1. Busy(r, w) /\ work[r][w].at = "precheck" /\ UNCHANGED <<sent, linked, spend>>
      BY <1>2 DEF Precheck, At, Busy, tools
    <2>2. \/ \E what \in {"skipped", "exception", "deferred", "budget"} : Decide(r, w, what)
          \/ Go(r, w, "reserve") /\ UNCHANGED outcome
      BY <1>2 DEF Precheck
    <2>3. {"skipped", "exception", "deferred", "budget"} \subseteq Outcomes \ {"acted"}
      BY DEF Outcomes
    <2>4. CASE Go(r, w, "reserve") /\ UNCHANGED outcome
      <3>1. "reserve" \in Places /\ "reserve" \notin Acting /\ "precheck" \notin Acting
        BY DEF Places, Acting
      <3>2. Held(r)' = Held(r) /\ Acted(r)' = Acted(r)
        BY <2>1, <2>4, <3>1, GoSets
      <3>3. /\ LinkSet(r)' = LinkSet(r) /\ EmailSet(r)' = EmailSet(r)
            /\ CaseSet(r)' = CaseSet(r) /\ ActedSet(r)' = ActedSet(r)
        BY <2>1, <3>2 DEF LinkSet, EmailSet, CaseSet, ActedSet, NeedsLink, NeedsEmail
      <3> QED
        BY <2>1, <3>3, SameBooks
    <2> QED
      BY <2>1, <2>2, <2>3, <2>4, EarlyBooks
  <1>3. CASE Reserve(r, w)
    <2>1. Busy(r, w) /\ work[r][w].at = "reserve" /\ UNCHANGED <<sent, linked>>
      BY <1>3 DEF Reserve, At, Busy, tools
    <2>2. CASE Decide(r, w, "budget") /\ UNCHANGED spend
      BY <2>1, <2>2, EarlyBooks DEF Outcomes
    <2>3. CASE /\ ~Exceeds(r, CaseOf(r, w)) /\ spend' = Taken(r, CaseOf(r, w))
               /\ Go(r, w, FirstStep(CaseOf(r, w))) /\ UNCHANGED outcome
      BY <2>1, <2>3, EnterBooks
    <2> QED
      BY <1>3, <2>2, <2>3 DEF Reserve
  <1>4. CASE CreateLink(r, w)
    <2>1. /\ work[r][w].at = "link" /\ UNCHANGED sent
          /\ linked'[r] = linked[r] \/ linked'[r] = linked[r] \cup {CaseOf(r, w)}
      BY <1>0, <1>4 DEF CreateLink, At, tools, TypeOK
    <2>2. CASE Fails(r, w)
      BY <2>1, <2>2, FailsBooks
    <2>3. CASE Go(r, w, "notify") /\ UNCHANGED <<spend, outcome>>
      BY <2>1, <2>3, OnwardBooks DEF Acting
    <2> QED
      BY <1>4, <2>2, <2>3 DEF CreateLink
  <1>5. CASE Notify(r, w)
    <2>1. /\ work[r][w].at = "notify" /\ UNCHANGED linked
          /\ sent'[r] = sent[r] \/ sent'[r] = sent[r] \cup {CaseOf(r, w)}
      BY <1>0, <1>5 DEF Notify, Sends, At, tools, TypeOK
    <2>2. CASE Fails(r, w) /\ UNCHANGED tools
      BY <2>1, <2>2, FailsBooks DEF tools
    <2>3. CASE Go(r, w, "rung") /\ UNCHANGED <<spend, outcome>>
      BY <2>1, <2>3, OnwardBooks DEF Acting
    <2> QED
      BY <1>5, <2>2, <2>3 DEF Notify, Sends
  <1>6. CASE Retry(r, w)
    <2>1. /\ work[r][w].at = "retry" /\ UNCHANGED <<linked, spend, outcome>>
          /\ sent'[r] = sent[r] \/ sent'[r] = sent[r] \cup {CaseOf(r, w)}
          /\ Go(r, w, "rung") \/ Go(r, w, "stamp")
      BY <1>0, <1>6 DEF Retry, Sends, At, TypeOK, tools
    <2> QED
      BY <2>1, OnwardBooks DEF Acting
  <1>7. CASE Stamp(r, w)
    BY <1>7, StampBooks
  <1>8. CASE Rung(r, w)
    <2>1. /\ work[r][w].at = "rung" /\ UNCHANGED <<linked, sent, spend, outcome>>
          /\ Go(r, w, "stamp")
      BY <1>8 DEF Rung, At
    <2> QED
      BY <2>1, OnwardBooks DEF Acting
  <1> QED
    BY <1>1, <1>2, <1>3, <1>4, <1>5, <1>6, <1>7, <1>8 DEF Works

LEMMA NextBooks ==
    ASSUME TypeInv, BooksInv, [Next]_vars
    PROVE  BooksInv'
  <1>1. CASE UNCHANGED vars
    BY <1>1, QuietBooks DEF vars, tools
  <1>2. ASSUME NEW r \in Runs, Open(r) \/ Abort(r) \/ Expire(r) \/ Close(r)
        PROVE  BooksInv'
    BY <1>2, QuietBooks DEF Open, Abort, Expire, Close, tools
  <1>3. ASSUME NEW c \in Cases, Pay(c) \/ AgentClimbs(c)
        PROVE  BooksInv'
    BY <1>3, QuietBooks DEF Pay, AgentClimbs
  <1>4. ASSUME NEW r \in Runs, NEW w \in Workers, Works(r, w), NEW o \in Runs
        PROVE  BooksOK(o)'
    <2>1. CASE o = r
      BY <1>4, <2>1, WorksBooks DEF BooksInv
    <2>2. CASE o # r
      <3>1. /\ work'[o] = work[o] /\ sent'[o] = sent[o] /\ linked'[o] = linked[o]
            /\ outcome'[o] = outcome[o] /\ spend'[o] = spend[o]
        BY <1>4, <2>2, WorksOthers
      <3> QED
        BY <3>1, OtherBooks DEF BooksInv, Acted
    <2> QED
      BY <2>1, <2>2
  <1> QED
    BY <1>1, <1>2, <1>3, <1>4 DEF Next, BooksInv

\* No run overspends, even with tools that raise: whatever it did was taken
\* out of its budget before and is still taken.
THEOREM BudgetIsKept == Spec => []BudgetCovers
  <1>1. TypeInv /\ BooksInv => BudgetCovers
    <2> SUFFICES ASSUME TypeInv, BooksInv, NEW r \in Runs
                 PROVE  /\ Cardinality(linked[r]) <= spend[r].links
                        /\ Cardinality(Messaged(r)) <= spend[r].emails
                        /\ Cardinality(sent[r]) <= spend[r].cases
      BY DEF BudgetCovers
    <2>1. TypeOK /\ CoverOK(r)
      BY DEF TypeInv, BooksInv, BooksOK
    <2>2. /\ linked[r] \in SUBSET LinkSet(r) /\ Messaged(r) \in SUBSET EmailSet(r)
          /\ sent[r] \in SUBSET CaseSet(r)
      BY DEF LinkSet, EmailSet, CaseSet, Messaged
    <2>3. /\ Cardinality(linked[r]) \in Nat
          /\ Cardinality(linked[r]) <= Cardinality(LinkSet(r))
      BY <2>1, <2>2, SetsAreFinite, FS_Subset, FS_CardinalityType
    <2>4. /\ Cardinality(Messaged(r)) \in Nat
          /\ Cardinality(Messaged(r)) <= Cardinality(EmailSet(r))
      BY <2>1, <2>2, SetsAreFinite, FS_Subset, FS_CardinalityType
    <2>5. /\ Cardinality(sent[r]) \in Nat
          /\ Cardinality(sent[r]) <= Cardinality(CaseSet(r))
      BY <2>1, <2>2, SetsAreFinite, FS_Subset, FS_CardinalityType
    <2> QED
      BY <2>1, <2>3, <2>4, <2>5, SetsAreFinite DEF CoverOK
  <1>2. TypeInv /\ BooksInv /\ [Next]_vars => (TypeInv /\ BooksInv)'
    BY NextType, NextBooks
  <1> QED
    BY <1>1, <1>2, InitType, InitBooks, PTL DEF Spec

\* A rung is climbed by a message or a retry, unless the live agent climbed it.
LEMMA NextClimbed ==
    ASSUME TypeInv, ClimbedIsSent, [Next]_vars
    PROVE  ClimbedIsSent'
  <1>1. ASSUME UNCHANGED <<sent, climbed>>
        PROVE  ClimbedIsSent'
    BY <1>1 DEF ClimbedIsSent
  <1>2. CASE UNCHANGED vars
    BY <1>1, <1>2 DEF vars, tools
  <1>3. ASSUME NEW r \in Runs, Open(r) \/ Abort(r) \/ Expire(r) \/ Close(r)
        PROVE  ClimbedIsSent'
    BY <1>1, <1>3 DEF Open, Abort, Expire, Close, tools
  <1>4. ASSUME NEW c \in Cases, Pay(c) \/ AgentClimbs(c)
        PROVE  ClimbedIsSent'
    BY <1>4 DEF Pay, AgentClimbs, ClimbedIsSent
  <1>5. ASSUME NEW r \in Runs, NEW w \in Workers, Works(r, w)
        PROVE  ClimbedIsSent'
    <2>1. /\ TypeOK
          /\ \/ sent' = sent
             \/ sent' = [sent EXCEPT ![r] = @ \cup {CaseOf(r, w)}]
      BY <1>5 DEF Works, Pick, Precheck, Reserve, CreateLink, Notify, Retry, Sends, Rung,
                  Stamp, tools, TypeInv
    <2>2. \A o \in Runs : sent[o] \subseteq sent'[o]
      BY <2>1 DEF TypeOK
    <2>3. climbed' = climbed \/ (climbed' = climbed \cup {CaseOf(r, w)} /\ Rung(r, w))
      BY <1>5 DEF Works, Pick, Precheck, Reserve, CreateLink, Notify, Retry, Sends, Rung,
                  Stamp, tools
    <2>4. Rung(r, w) => CaseOf(r, w) \in sent[r]
      BY DEF Rung, At, Busy, TypeInv, HandsInv, HandOK
    <2> QED
      BY <2>2, <2>3, <2>4 DEF ClimbedIsSent
  <1> QED
    BY <1>2, <1>3, <1>4, <1>5 DEF Next

\* With tools that report their errors rather than raise, what a run says it
\* spent and climbed is what was done.
THEOREM BooksMatch == ~ToolsRaise => (Spec => []BooksAreTrue)
  <1> SUFFICES ASSUME ~ToolsRaise PROVE Spec => []BooksAreTrue
    OBVIOUS
  <1>1. TypeInv /\ BooksInv => NothingLeaks
    <2> SUFFICES ASSUME TypeInv, BooksInv, NEW r \in Runs, Ended(r)
                 PROVE  /\ spend[r].emails = Cardinality(Messaged(r))
                        /\ spend[r].cases = Cardinality(Acted(r))
      BY DEF NothingLeaks
    <2>1. \A w \in Workers : ~Busy(r, w)
      BY DEF TypeInv, HandsInv, HandOK, Live, Ended
    <2>2. Held(r) = {}
      BY <2>1 DEF Held, Busy, Acting
    <2>3. EmailSet(r) = Messaged(r) /\ ActedSet(r) = Acted(r)
      BY <2>2 DEF EmailSet, ActedSet, Messaged
    <2> QED
      BY <2>3 DEF BooksInv, BooksOK, LeakOK
  <1>2. Init => ClimbedIsSent
    BY DEF Init, ClimbedIsSent
  <1>3. TypeInv /\ BooksInv /\ ClimbedIsSent /\ [Next]_vars
            => (TypeInv /\ BooksInv /\ ClimbedIsSent)'
    BY NextType, NextBooks, NextClimbed
  <1>4. Spec => [](NothingLeaks /\ ClimbedIsSent)
    BY <1>1, <1>2, <1>3, InitType, InitBooks, PTL DEF Spec
  <1> QED
    BY <1>4, BudgetIsKept, PTL DEF BooksAreTrue

-----------------------------------------------------------------------------
(* Second messages                                                         *)

\* A run has sent to a case, or its worker is about to.
Engaged(r, c) == c \in sent[r] \/ InHand(r, c)

Blind(r, o, c) == c \in lost \/ <<r, c>> \in unaware \/ <<o, c>> \in unaware
Recording(r, c) == \E w \in Workers : work[r][w].at = "rung" /\ CaseOf(r, w) = c

\* Two runs have to do with one case only if one of them could not see the
\* other, and what was sent has climbed its rung, unless that is being recorded
\* or was lost.
SentInv ==
    /\ \A r, o \in Runs, c \in Cases :
           r # o /\ Engaged(r, c) /\ Engaged(o, c) => Blind(r, o, c)
    /\ \A r \in Runs : \A c \in sent[r] : c \in climbed \cup lost \/ Recording(r, c)

LEMMA InitSent == Init => SentInv
  BY DEF Init, SentInv, Engaged, InHand, Idle, Chosen

\* Nobody newly engages a case.
LEMMA KeptSent ==
    ASSUME SentInv, lost \subseteq lost', unaware \subseteq unaware',
           \A r \in Runs, c \in Cases : Engaged(r, c)' => Engaged(r, c),
           \A r \in Runs : \A c \in sent'[r] : c \in climbed' \cup lost' \/ Recording(r, c)'
    PROVE  SentInv'
  BY DEF SentInv, Blind

LEMMA QuietSent ==
    ASSUME SentInv, UNCHANGED <<work, sent, lost, unaware>>, climbed \subseteq climbed'
    PROVE  SentInv'
  BY DEF SentInv, Engaged, InHand, Blind, Recording, CaseOf

\* A worker leaves its case before it has sent anything, or after its rung.
LEMMA LeaveSent ==
    ASSUME TypeInv, SentInv, NEW r \in Runs, NEW w \in Workers,
           NEW what \in Outcomes, Decide(r, w, what), work[r][w].at # "rung",
           UNCHANGED <<sent, climbed, lost, unaware>>
    PROVE  SentInv'
  <1>1. /\ work'[r][w] = Idle
        /\ \A o \in Runs, v \in Workers : (o # r \/ v # w) => work'[o][v] = work[o][v]
    BY DecideEffect DEF TypeInv
  <1>2. \A o \in Runs, v \in Workers :
            work'[o][v].at \in Chosen => work'[o][v] = work[o][v]
    BY <1>1 DEF Idle, Chosen
  <1>3. \A o \in Runs, c \in Cases : Engaged(o, c)' => Engaged(o, c)
    BY <1>2 DEF Engaged, InHand, CaseOf
  <1>4. \A o \in Runs, c \in Cases : Recording(o, c) => Recording(o, c)'
    BY <1>1 DEF Recording, CaseOf
  <1>5. \A o \in Runs : sent[o] \subseteq Cases
    BY DEF TypeInv, TypeOK
  <1> QED
    BY <1>3, <1>4, <1>5, KeptSent DEF SentInv

\* A worker that has chosen its case goes on with it.
LEMMA OnwardSent ==
    ASSUME TypeInv, SentInv, NEW r \in Runs, NEW w \in Workers, NEW place \in Places,
           Go(r, w, place), work[r][w].at \in Chosen, work[r][w].at # "rung",
           \/ sent' = sent
           \/ place = "rung" /\ sent' = [sent EXCEPT ![r] = @ \cup {CaseOf(r, w)}],
           UNCHANGED <<climbed, lost, unaware>>
    PROVE  SentInv'
  <1> DEFINE d == CaseOf(r, w)
  <1>1. /\ work'[r][w] = [at |-> place, case |-> d]
        /\ \A o \in Runs, v \in Workers : (o # r \/ v # w) => work'[o][v] = work[o][v]
    BY GoEffect DEF TypeInv
  <1>2. InHand(r, d)
    BY DEF InHand
  <1>3. \A o \in Runs, v \in Workers : CaseOf(o, v)' = CaseOf(o, v)
    BY <1>1 DEF CaseOf
  <1>4. \A o \in Runs, c \in Cases : InHand(o, c)' => InHand(o, c)
    BY <1>1, <1>2, <1>3 DEF InHand
  <1>5. \A o \in Runs, c \in Cases : Recording(o, c) => Recording(o, c)'
    BY <1>1, <1>3 DEF Recording
  <1>6. /\ \A o \in Runs \ {r} : sent'[o] = sent[o]
        /\ sent'[r] = sent[r] \/ (place = "rung" /\ sent'[r] = sent[r] \cup {d})
    BY DEF TypeInv, TypeOK
  <1>7. \A o \in Runs, c \in Cases : Engaged(o, c)' => Engaged(o, c)
    BY <1>2, <1>4, <1>6 DEF Engaged
  <1>8. ASSUME NEW o \in Runs, NEW c \in sent'[o]
        PROVE  c \in climbed' \cup lost' \/ Recording(o, c)'
    <2>1. CASE c \in sent[o]
      BY <1>5, <2>1 DEF SentInv, TypeInv, TypeOK
    <2>2. CASE c \notin sent[o]
      <3>1. o = r /\ c = d /\ place = "rung"
        BY <1>6, <1>8, <2>2
      <3>2. work'[r][w].at = "rung" /\ CaseOf(r, w)' = d
        BY <1>1, <1>3, <3>1
      <3> QED
        BY <3>1, <3>2 DEF Recording
    <2> QED
      BY <2>1, <2>2
  <1> QED
    BY <1>7, <1>8, KeptSent

\* The rung is recorded, or lost.
LEMMA RungSent ==
    ASSUME TypeInv, SentInv, NEW r \in Runs, NEW w \in Workers, Rung(r, w)
    PROVE  SentInv'
  <1> DEFINE d == CaseOf(r, w)
  <1>1. /\ work'[r][w] = [at |-> "stamp", case |-> d]
        /\ \A o \in Runs, v \in Workers : (o # r \/ v # w) => work'[o][v] = work[o][v]
        /\ UNCHANGED <<sent, unaware>> /\ climbed \subseteq climbed' /\ lost \subseteq lost'
        /\ d \in climbed' \cup lost'
    <2>1. "stamp" \in Places /\ Go(r, w, "stamp") /\ TypeOK
      BY DEF Rung, Places, TypeInv
    <2>2. /\ UNCHANGED <<sent, unaware>> /\ climbed \subseteq climbed' /\ lost \subseteq lost'
          /\ d \in climbed' \cup lost'
      BY DEF Rung
    <2> QED
      BY <2>1, <2>2, GoEffect
  <1>2. \A o \in Runs, c \in Cases : Engaged(o, c)' => Engaged(o, c)
    BY <1>1 DEF Engaged, InHand, CaseOf, Chosen
  <1>3. \A o \in Runs, c \in Cases : Recording(o, c) => c = d \/ Recording(o, c)'
    BY <1>1 DEF Recording, CaseOf
  <1>4. \A o \in Runs : sent[o] \subseteq Cases
    BY DEF TypeInv, TypeOK
  <1> QED
    BY <1>1, <1>2, <1>3, <1>4, KeptSent DEF SentInv

\* A case is chosen: its rung looked free.  What another run had to do with it
\* was then hidden, or is lost.
LEMMA ChooseSent ==
    ASSUME TypeInv, SentInv, NEW r \in Runs, NEW w \in Workers, Precheck(r, w),
           ~OffPlan(r, CaseOf(r, w)), Go(r, w, "reserve"),
           unaware' = IF Hidden(r, CaseOf(r, w)) THEN unaware \cup {<<r, CaseOf(r, w)>>}
                      ELSE unaware
    PROVE  SentInv'
  <1> DEFINE d == CaseOf(r, w)
  <1>1. /\ work'[r][w] = [at |-> "reserve", case |-> d]
        /\ \A o \in Runs, v \in Workers : (o # r \/ v # w) => work'[o][v] = work[o][v]
    BY GoEffect DEF TypeInv, Places
  <1>2. UNCHANGED <<sent, climbed, lost>> /\ work[r][w].at = "precheck"
    BY DEF Precheck, tools, At
  <1>3. \A o \in Runs, v \in Workers : CaseOf(o, v)' = CaseOf(o, v)
    BY <1>1 DEF CaseOf
  <1>4. /\ \A o \in Runs \ {r}, c \in Cases : InHand(o, c)' => InHand(o, c)
        /\ \A c \in Cases : InHand(r, c)' => InHand(r, c) \/ c = d
    BY <1>1, <1>3 DEF InHand
  <1>5. \A o \in Runs, c \in Cases : Recording(o, c) => Recording(o, c)'
    BY <1>1, <1>2, <1>3 DEF Recording
  <1>6. /\ unaware \subseteq unaware'
        /\ Hidden(r, d) => <<r, d>> \in unaware'
    OBVIOUS
  <1>7. ASSUME NEW o \in Runs \ {r}, Engaged(o, d)
        PROVE  d \in lost \/ Hidden(r, d)
    <2>1. CASE InHand(o, d)
      BY <2>1 DEF Hidden
    <2>2. CASE d \in sent[o] /\ ~InHand(o, d)
      <3>1. ~Recording(o, d)
        BY <2>2 DEF Recording, InHand, Chosen
      <3>2. d \in climbed \cup lost
        BY <2>2, <3>1 DEF SentInv
      <3>3. d \notin View(r).climbed
        BY DEF OffPlan
      <3> QED
        BY <3>2, <3>3 DEF Hidden
    <2> QED
      BY <1>7, <2>1, <2>2 DEF Engaged
  <1>8. /\ \A o \in Runs \ {r}, c \in Cases : Engaged(o, c)' => Engaged(o, c)
        /\ \A c \in Cases : Engaged(r, c)' => Engaged(r, c) \/ c = d
    BY <1>2, <1>4 DEF Engaged
  <1>9. ASSUME NEW o \in Runs \ {r}, Engaged(o, d)
        PROVE  d \in lost' \/ <<r, d>> \in unaware'
    BY <1>2, <1>6, <1>7, <1>9
  <1>10. ASSUME NEW p \in Runs, NEW o \in Runs, NEW c \in Cases, p # o,
                Engaged(p, c)', Engaged(o, c)'
         PROVE  c \in lost' \/ <<p, c>> \in unaware' \/ <<o, c>> \in unaware'
    <2>1. CASE Engaged(p, c) /\ Engaged(o, c)
      BY <1>2, <1>6, <1>10, <2>1 DEF SentInv, Blind
    <2>2. CASE ~Engaged(p, c)
      BY <1>8, <1>9, <1>10, <2>2
    <2>3. CASE ~Engaged(o, c)
      BY <1>8, <1>9, <1>10, <2>3
    <2> QED
      BY <2>1, <2>2, <2>3
  <1>11. \A o \in Runs : \A c \in sent'[o] : c \in climbed' \cup lost' \/ Recording(o, c)'
    BY <1>2, <1>5 DEF SentInv, TypeInv, TypeOK
  <1> QED
    BY <1>10, <1>11 DEF SentInv, Blind

LEMMA WorksSent ==
    ASSUME TypeInv, SentInv, NEW r \in Runs, NEW w \in Workers, Works(r, w)
    PROVE  SentInv'
  <1> DEFINE c == CaseOf(r, w)
  <1>0. TypeOK
    BY DEF TypeInv
  <1>1. CASE Pick(r, w)
    <2>1. /\ UNCHANGED <<sent, climbed, lost, unaware>> /\ work[r][w].at = "idle"
          /\ \/ UNCHANGED work
             \/ \E d \in todo[r] :
                    work' = [work EXCEPT ![r][w] = [at |-> "precheck", case |-> d]]
      BY <1>1 DEF Pick, At, tools
    <2>2. CASE UNCHANGED work
      BY <2>1, <2>2, QuietSent
    <2>3. ASSUME NEW d \in todo[r],
                 work' = [work EXCEPT ![r][w] = [at |-> "precheck", case |-> d]]
          PROVE  SentInv'
      <3>1. /\ work'[r][w].at = "precheck"
            /\ \A o \in Runs, v \in Workers :
                   (o # r \/ v # w) => work'[o][v] = work[o][v]
        BY <1>0, <2>3 DEF TypeOK
      <3>2. \A o \in Runs, e \in Cases : Engaged(o, e)' => Engaged(o, e)
        BY <2>1, <3>1 DEF Engaged, InHand, CaseOf, Chosen
      <3>3. \A o \in Runs, e \in Cases : Recording(o, e) => Recording(o, e)'
        BY <2>1, <3>1 DEF Recording, CaseOf
      <3> QED
        BY <1>0, <2>1, <3>2, <3>3, KeptSent DEF SentInv, TypeOK
    <2> QED
      BY <2>1, <2>2, <2>3
  <1>2. CASE Precheck(r, w)
    <2>1. UNCHANGED <<sent, climbed, lost>> /\ work[r][w].at = "precheck"
      BY <1>2 DEF Precheck, tools, At
    <2>2. \/ /\ UNCHANGED unaware
             /\ \E what \in {"skipped", "exception", "deferred", "budget"} : Decide(r, w, what)
          \/ /\ ~OffPlan(r, c) /\ Go(r, w, "reserve")
             /\ unaware' = IF Hidden(r, c) THEN unaware \cup {<<r, c>>} ELSE unaware
      BY <1>2 DEF Precheck
    <2>3. {"skipped", "exception", "deferred", "budget"} \subseteq Outcomes
      BY DEF Outcomes
    <2> QED
      BY <1>2, <2>1, <2>2, <2>3, LeaveSent, ChooseSent
  <1>3. CASE Reserve(r, w)
    <2>1. /\ UNCHANGED <<sent, climbed, lost, unaware>> /\ work[r][w].at = "reserve"
          /\ Decide(r, w, "budget") \/ Go(r, w, FirstStep(c))
      BY <1>3 DEF Reserve, At, tools
    <2>2. FirstStep(c) \in Places
      BY <2>1, FirstStepFits DEF Busy, TypeInv, HandsInv, HandOK, Fits
    <2>3. work[r][w].at \in Chosen /\ "budget" \in Outcomes
      BY <2>1 DEF Chosen, Outcomes
    <2> QED
      BY <2>1, <2>2, <2>3, LeaveSent, OnwardSent
  <1>4. CASE CreateLink(r, w)
    <2>1. /\ UNCHANGED <<sent, climbed, lost, unaware>> /\ work[r][w].at = "link"
          /\ Fails(r, w) \/ Go(r, w, "notify")
      BY <1>4 DEF CreateLink, At, tools
    <2>2. work[r][w].at \in Chosen /\ "notify" \in Places
      BY <2>1 DEF Chosen, Places
    <2> QED
      BY <2>1, <2>2, LeaveSent, OnwardSent, FailsDecides
  <1>5. CASE Notify(r, w)
    <2>1. /\ UNCHANGED <<climbed, lost, unaware>> /\ work[r][w].at = "notify"
          /\ \/ Fails(r, w) /\ sent' = sent
             \/ Go(r, w, "rung") /\ sent' = [sent EXCEPT ![r] = @ \cup {c}]
      BY <1>5 DEF Notify, Sends, At, tools
    <2>2. work[r][w].at \in Chosen /\ "rung" \in Places
      BY <2>1 DEF Chosen, Places
    <2> QED
      BY <2>1, <2>2, LeaveSent, OnwardSent, FailsDecides
  <1>6. CASE Retry(r, w)
    <2>1. /\ UNCHANGED <<climbed, lost, unaware>> /\ work[r][w].at = "retry"
          /\ \/ Go(r, w, "stamp") /\ sent' = sent
             \/ Go(r, w, "rung") /\ sent' = [sent EXCEPT ![r] = @ \cup {c}]
      BY <1>6 DEF Retry, Sends, At, tools
    <2>2. work[r][w].at \in Chosen /\ "rung" \in Places /\ "stamp" \in Places
      BY <2>1 DEF Chosen, Places
    <2> QED
      BY <2>1, <2>2, OnwardSent
  <1>7. CASE Rung(r, w)
    BY <1>7, RungSent
  <1>8. CASE Stamp(r, w)
    <2>1. /\ UNCHANGED <<sent, climbed, lost, unaware>> /\ work[r][w].at = "stamp"
          /\ Decide(r, w, "acted") /\ "acted" \in Outcomes
      BY <1>8 DEF Stamp, At, Outcomes
    <2> QED
      BY <2>1, LeaveSent
  <1> QED
    BY <1>1, <1>2, <1>3, <1>4, <1>5, <1>6, <1>7, <1>8 DEF Works

LEMMA NextSent ==
    ASSUME TypeInv, SentInv, [Next]_vars
    PROVE  SentInv'
  <1>1. CASE UNCHANGED vars
    BY <1>1, QuietSent DEF vars, tools
  <1>2. ASSUME NEW r \in Runs, Open(r) \/ Abort(r) \/ Expire(r) \/ Close(r)
        PROVE  SentInv'
    BY <1>2, QuietSent DEF Open, Abort, Expire, Close, tools
  <1>3. ASSUME NEW c \in Cases, Pay(c) \/ AgentClimbs(c)
        PROVE  SentInv'
    BY <1>3, QuietSent DEF Pay, AgentClimbs
  <1> QED
    BY <1>1, <1>2, <1>3, WorksSent DEF Next

\* However many runs overlap, on copies or on the records themselves, and
\* whatever fails, raises or is worked by the live agent: two of them send to
\* one case only if one of them could not see that the other had climbed or was
\* about to climb its rung, or the rung was lost.  A rung that is on the record
\* a run reads has stopped it.
THEOREM SecondSendsAreBlind == Spec => []SentTwiceUnseen
  <1>1. TypeInv /\ SentInv /\ [Next]_vars => (TypeInv /\ SentInv)'
    BY NextType, NextSent
  <1>2. SentInv => SentTwiceUnseen
    BY DEF SentInv, SentTwiceUnseen, Engaged, Blind
  <1> QED
    BY <1>1, <1>2, InitType, InitSent, PTL DEF Spec
=============================================================================
