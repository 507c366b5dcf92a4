------------------------------- MODULE Waves -------------------------------
(***************************************************************************)
(* Wave cycles (batch/waves.py) and the dispatch of what they leave over   *)
(* (frontend.py): a cycle reads the open cases, sorts them by cause, gives *)
(* every cause a plan, works each case by the plan of its cause, waits for *)
(* money and begins again.  A cause without a fitting plan may get a       *)
(* champion: one case that the live agent works, whose steps the others    *)
(* then follow.  At the end the exceptions go to the agent queue.          *)
(*                                                                         *)
(* A cycle is a submitter of AgentQueue.  A run's work on a case, which    *)
(* BatchRuns has step by step, is one step here.  A cause has one band.    *)
(***************************************************************************)
EXTENDS AgentQueue, FiniteSets

CONSTANTS Ladder,         \* the rungs of each cause, in order; causes by key
          Default,        \* the planner's plan for each cause
          MaxWaves,
          First,          \* the causes the cases may begin with
          Turns,          \* what a failure may turn into at the next attempt
          Champions       \* champion_mode is "live"

Causes == DOMAIN Ladder
Rungs == UNION {ToSet(Ladder[b]) : b \in Causes}

\* What a plan says of a rung: act, leave it to the agent, or nothing.
Plans == [Rungs -> {"act", "exception", "none"}]
NoPlan == [r \in Rungs |-> "none"]

\* What a case is sorted under that no plan may work: it waits for a retry, or
\* the agent has it.
Held == 0

ASSUME LadderAssumption == \A b \in Causes : Ladder[b] \in Seq(Rungs)
ASSUME WavesAssumption ==
    /\ Default \in [Causes -> Plans]
    /\ First \subseteq [Cases -> Causes]
    /\ MaxWaves \in Nat \ {0} /\ Turns \subseteq Causes \X Causes /\ Champions \in BOOLEAN

\* An open case: why the last attempt failed, the rungs it has climbed, and
\* whether a retry of it is scheduled.
Records == [cause : Causes, climbed : SUBSET Rungs, pending : BOOLEAN]
\* One that the wave cycle does not read: its money is in, or it is closed or
\* with a person.
Paid == [over |-> "paid"]
Closed == [over |-> "closed"]

VARIABLES record,   \* the store's record of each case
          at,       \* where each cycle is
          wave,     \* the number of its wave
          copies,   \* the records the wave works on
          left,     \* the causes the wave has not come to
          plan,     \* the plans of the cycle
          champion, \* the case whose session the cycle waits for
          todo,     \* the cases of a run that it has not come to
          acted,    \* has the wave acted on a case?
          noted,    \* the exceptions of the cycle
          aborted,  \* cycles a person has stopped
          halted,   \* cycles whose run was stopped with them
          reached,  \* history: how often runs have climbed a rung of a case (0..2)
          late,     \* history: runs a cycle has begun after it was stopped (0..2)
          refused   \* history: cases the full queue has refused

workVars == <<copies, left, plan, champion, todo, acted, noted>>
haltVars == <<aborted, halted, late>>
vars == <<queueVars, record, at, wave, workVars, haltVars, reached, refused>>

Cycles == Submitters
Copies == UNION {[S -> [cause : Causes \cup {Held}, climbed : SUBSET Rungs]] :
                     S \in SUBSET Cases}

TypeOK ==
    /\ QueueTypeOK
    /\ record \in [Cases -> Records \cup {Paid, Closed}]
    /\ reached \in [Cases -> [Rungs -> 0..2]]
    /\ refused \subseteq Cases
    /\ at \in [Cycles -> {"new", "top", "causes", "champion", "launch", "run",
                          "settle", "dispatch", "over"}]
    /\ wave \in [Cycles -> 0..MaxWaves] /\ late \in [Cycles -> 0..2]
    /\ copies \in [Cycles -> Copies]
    /\ left \in [Cycles -> SUBSET Causes]
    /\ plan \in [Cycles -> [Causes -> Plans]]
    /\ champion \in [Cycles -> Cases \cup {NoCase}]
    /\ todo \in [Cycles -> SUBSET Cases] /\ noted \in [Cycles -> SUBSET Cases]
    /\ acted \in [Cycles -> BOOLEAN]
    /\ aborted \subseteq Cycles /\ halted \subseteq aborted

Init ==
    /\ QueueInit
    /\ \E f \in First :
          record = [c \in Cases |-> [cause |-> f[c], climbed |-> {}, pending |-> FALSE]]
    /\ reached = [c \in Cases |-> [g \in Rungs |-> 0]]
    /\ refused = {}
    /\ at = [k \in Cycles |-> "new"]
    /\ wave = [k \in Cycles |-> 0] /\ late = [k \in Cycles |-> 0]
    /\ copies = [k \in Cycles |-> <<>>]
    /\ left = [k \in Cycles |-> {}]
    /\ plan = [k \in Cycles |-> [b \in Causes |-> NoPlan]]
    /\ champion = [k \in Cycles |-> NoCase]
    /\ todo = [k \in Cycles |-> {}] /\ noted = [k \in Cycles |-> {}]
    /\ acted = [k \in Cycles |-> FALSE]
    /\ aborted = {} /\ halted = {}

-----------------------------------------------------------------------------
\* ladder.next_rung, of a record or a copy of one.
NextRung(r) ==
    LET rungs == Ladder[r.cause]
        rest == {i \in DOMAIN rungs : rungs[i] \notin r.climbed}
    IN IF r.cause = Held \/ rest = {} THEN "none" ELSE rungs[Min(rest)]

\* What classify makes of a case.
Sorted(c) ==
    [cause |-> IF record[c].pending \/ c \in active THEN Held ELSE record[c].cause,
     climbed |-> record[c].climbed]

\* Defect: the rung is not recorded.
ClimbUnmarked(c, g) ==
    record' = [record EXCEPT ![c].pending = @ \/ g = "silent_retry"]

\* A retry is scheduled by climbing its rung.
Climb(c, g) ==
    record' = [record EXCEPT ![c].climbed = @ \cup {g},
                             ![c].pending = @ \/ g = "silent_retry"]

In(k, phase) == at[k] = phase
Goto(k, phase) == at' = [at EXCEPT ![k] = phase]
Running(k) == at[k] \notin {"new", "dispatch", "over"}

Open == {c \in Cases : record[c] \notin {Paid, Closed}}
Group(k, b) == {c \in DOMAIN copies[k] : copies[k][c].cause = b}

-----------------------------------------------------------------------------
\* The loop of a cycle.

\* What a wave, and what a cycle, knows is local to it.
ForgetWave(k) ==
    /\ copies' = [copies EXCEPT ![k] = <<>>]
    /\ left' = [left EXCEPT ![k] = {}]
    /\ acted' = [acted EXCEPT ![k] = FALSE]

Finish(k) ==
    /\ Goto(k, "dispatch")
    /\ ForgetWave(k)
    /\ plan' = [plan EXCEPT ![k] = [b \in Causes |-> NoPlan]]
    /\ wave' = [wave EXCEPT ![k] = 0] /\ late' = [late EXCEPT ![k] = 0]
    /\ aborted' = aborted \ {k} /\ halted' = halted \ {k}

\* _launch_wave_cycle: one cycle at a time.
Launch(k) ==
    /\ In(k, "new") /\ ~\E j \in Cycles : Running(j)
    /\ Goto(k, "top")
    /\ UNCHANGED <<queueVars, record, wave, workVars, haltVars, reached, refused>>

\* A person stops the cycle, and with it the run it has on its list.
Abort(k) ==
    /\ Running(k) /\ k \notin aborted
    /\ aborted' = aborted \cup {k}
    /\ halted' = IF In(k, "run") THEN halted \cup {k} ELSE halted
    /\ UNCHANGED <<queueVars, record, at, wave, workVars, late, reached, refused>>

\* _open_records: what a wave knows of the cases.
Read == [c \in Open |-> Sorted(c)]

WaveBegins(k) ==
    /\ In(k, "top") /\ k \notin aborted /\ Open # {}
    /\ Goto(k, "causes")
    /\ wave' = [wave EXCEPT ![k] = @ + 1]
    /\ copies' = [copies EXCEPT ![k] = Read]
    /\ left' = [left EXCEPT ![k] = {Read[c].cause : c \in DOMAIN Read} \ {Held}]
    /\ acted' = [acted EXCEPT ![k] = FALSE]
    /\ UNCHANGED <<queueVars, record, plan, champion, todo, noted, haltVars, reached,
                   refused>>

NothingToDo(k) ==
    /\ In(k, "top") /\ (k \in aborted \/ Open = {})
    /\ Finish(k)
    /\ UNCHANGED <<queueVars, record, champion, todo, noted, reached, refused>>

\* Defect: the loop over the causes does not ask.
GoesOnRegardless(k) == TRUE

\* Asked before every cause.
GoesOn(k) == k \notin aborted

\* Does the plan of a cause have a step for the rung most of its cases are on?
Covered(k, b) ==
    LET rung(c) == NextRung(copies[k][c])
        on(g) == Cardinality({c \in Group(k, b) : rung(c) = g})
    IN \E g \in Rungs : /\ plan[k][b][g] # "none" /\ on(g) > 0
                        /\ \A h \in Rungs : on(h) <= on(g)

\* A plan is made or found, and the cause can be worked.
Planned(k, b, p, excluded) ==
    /\ plan' = [plan EXCEPT ![k][b] = p]
    /\ todo' = [todo EXCEPT ![k] = Group(k, b) \ excluded]
    /\ Goto(k, "launch")

\* The next cause: the plan it has, a champion's session, or the planner's.
NextCause(k) ==
    /\ In(k, "causes") /\ GoesOn(k)
    /\ \E b \in left[k] :
          /\ \A later \in left[k] : b <= later
          /\ left' = [left EXCEPT ![k] = @ \ {b}]
          /\ \/ /\ Covered(k, b)
                /\ Planned(k, b, plan[k][b], {})
                /\ UNCHANGED <<champion, active>>
             \/ /\ ~Covered(k, b)
                /\ ~Champions \/ Group(k, b) \subseteq active
                /\ Planned(k, b, Default[b], {})
                /\ UNCHANGED <<champion, active>>
             \/ /\ ~Covered(k, b) /\ Champions
                /\ \E c \in Group(k, b) \ active :
                       /\ champion' = [champion EXCEPT ![k] = c]
                       /\ active' = active \cup {c}
                /\ Goto(k, "champion")
                /\ UNCHANGED <<plan, todo>>
    /\ UNCHANGED <<line, seen, submit, work, session, raced, record, wave, copies, acted,
                   noted, haltVars, reached, refused>>

\* The rungs a champion has climbed since the wave read its record.
Learned(k) ==
    LET c == champion[k] IN
    IF c \in Open THEN {record[c].climbed \ copies[k][c].climbed}
                  ELSE SUBSET (Rungs \ copies[k][c].climbed)

\* distill: a rung the champion climbed is acted on, if what it did there suits
\* others, and the planner's plan is kept for the rest.
Distilled(b, new) ==
    {[g \in Rungs |-> IF g \in new THEN f[g] ELSE Default[b][g]] :
         f \in {f \in [new -> {"act", "exception"}] :
                  "silent_retry" \in new => f["silent_retry"] = "act"}}

\* The session ends, and teaches a plan or none (it climbed nothing, the case is
\* with a person now, it raised).  A champion that taught one is not worked
\* again in this wave.
ChampionEnds(k) ==
    /\ In(k, "champion")
    /\ LET c == champion[k]
           b == copies[k][c].cause
       IN /\ active' = active \ {c}
          /\ \/ \E new \in Learned(k) \ {{}} :
                    \E p \in Distilled(b, new) : Planned(k, b, p, {c})
             \/ Planned(k, b, Default[b], {})
    /\ champion' = [champion EXCEPT ![k] = NoCase]
    /\ UNCHANGED <<line, seen, submit, work, session, raced, record, wave, copies, left,
                   acted, noted, haltVars, reached, refused>>

\* Defect: the cycle waits for the session without a limit.
ChampionHangs(k) == FALSE /\ UNCHANGED vars

\* After five minutes nobody waits for it any more; it goes on.
ChampionTimesOut(k) ==
    /\ In(k, "champion")
    /\ LET b == copies[k][champion[k]].cause IN Planned(k, b, Default[b], {})
    /\ champion' = [champion EXCEPT ![k] = NoCase]
    /\ UNCHANGED <<queueVars, record, wave, copies, left, acted, noted, haltVars,
                   reached, refused>>

\* The run is registered and begins, whatever has happened to the cycle.
RunBegins(k) ==
    /\ In(k, "launch")
    /\ Goto(k, "run")
    /\ late' = IF k \in aborted /\ late[k] < 2 THEN [late EXCEPT ![k] = @ + 1] ELSE late
    /\ UNCHANGED <<queueVars, record, wave, workVars, aborted, halted, reached, refused>>

\* What a run makes of a case, by its copy: it acts, it leaves the case to the
\* agent, or neither (skipped, deferred, out of budget).  Only the money is
\* looked up again.  A retry that is refused counts as an action all the same.
Act(k, c) ==
    /\ k \notin halted /\ record[c] # Paid
    /\ LET r == copies[k][c]
           g == NextRung(r)
       IN /\ g # "none" /\ plan[k][r.cause][g] = "act"
          /\ \/ /\ IF c \in Open THEN Climb(c, g) ELSE UNCHANGED record
                /\ reached' = [reached EXCEPT ![c][g] =
                                  IF reached[c][g] = 2 THEN 2 ELSE reached[c][g] + 1]
             \/ g = "silent_retry" /\ UNCHANGED <<record, reached>>
    /\ acted' = [acted EXCEPT ![k] = TRUE]
    /\ UNCHANGED noted

LeaveToAgent(k, c) ==
    /\ k \notin halted
    /\ noted' = [noted EXCEPT ![k] = @ \cup {c}]
    /\ UNCHANGED <<record, reached, acted>>

Skip == UNCHANGED <<record, reached, acted, noted>>

Work(k) ==
    /\ In(k, "run")
    /\ \E c \in todo[k] :
          /\ todo' = [todo EXCEPT ![k] = @ \ {c}]
          /\ Act(k, c) \/ LeaveToAgent(k, c) \/ Skip
    /\ UNCHANGED <<queueVars, at, wave, copies, left, plan, champion, haltVars, refused>>

RunEnds(k) ==
    /\ In(k, "run") /\ todo[k] = {}
    /\ Goto(k, "causes")
    /\ UNCHANGED <<queueVars, record, wave, workVars, haltVars, reached, refused>>

\* The cases that were held are exceptions too; a stopped cycle is over.
CausesDone(k) ==
    /\ In(k, "causes") /\ (left[k] = {} \/ ~GoesOn(k))
    /\ noted' = [noted EXCEPT ![k] = @ \cup Group(k, Held)]
    /\ IF k \in aborted
       THEN Finish(k)
       ELSE Goto(k, "settle") /\ UNCHANGED <<copies, left, plan, acted, wave, haltVars>>
    /\ UNCHANGED <<queueVars, record, champion, todo, reached, refused>>

Shape(r) == <<r.cause, NextRung(r)>>

\* Nothing was done, nobody paid and nobody moved.
Dry(k) ==
    /\ ~acted[k] /\ Open = DOMAIN copies[k]
    /\ \A c \in Open : Shape(Sorted(c)) = Shape(copies[k][c])

\* The customers have had their turn.
WaveEnds(k) ==
    /\ In(k, "settle")
    /\ IF Open = {} \/ Dry(k) \/ wave[k] = MaxWaves
       THEN Finish(k)
       ELSE Goto(k, "top") /\ ForgetWave(k) /\ UNCHANGED <<plan, wave, haltVars>>
    /\ UNCHANGED <<queueVars, record, champion, todo, noted, reached, refused>>

\* dispatch_exceptions: each leftover is submitted to the queue.
Dispatch(k) ==
    /\ In(k, "dispatch") /\ submit[k].at = "idle"
    /\ \E c \in noted[k] :
          /\ noted' = [noted EXCEPT ![k] = @ \ {c}]
          /\ \/ Look(k, c)
             \/ c \in seen /\ UNCHANGED queueVars
    /\ UNCHANGED <<record, at, wave, copies, left, plan, champion, todo, acted,
                   haltVars, reached, refused>>

Submit(k) ==
    /\ Put(k) \/ Mark(k)
    /\ refused' = IF submit[k].at = "put" /\ submit'[k].at = "idle"
                  THEN refused \cup {submit[k].case} ELSE refused
    /\ UNCHANGED <<record, at, wave, workVars, haltVars, reached>>

CycleEnds(k) ==
    /\ In(k, "dispatch") /\ noted[k] = {} /\ submit[k].at = "idle"
    /\ Goto(k, "over")
    /\ UNCHANGED <<queueVars, record, wave, workVars, haltVars, reached, refused>>

-----------------------------------------------------------------------------
\* The agent and the customer.

\* What happens to the cases is followed as long as a cycle reads them.
Followed == \E k \in Cycles : Running(k)

Awaited(c) == \E k \in Cycles : champion[k] = c

\* A session, of the queue, a champion or any other, climbs the next rung.
AgentClimbs(c) ==
    /\ Followed /\ c \in active /\ c \in Open
    /\ LET g == NextRung(record[c]) IN g # "none" /\ Climb(c, g)
    /\ UNCHANGED <<queueVars, at, wave, workVars, haltVars, reached, refused>>

\* The customer pays, or the case is closed or handed to a person; the rest of
\* its record is read no more.
Pays(c) ==
    /\ Followed /\ record[c] # Paid
    /\ record' = [record EXCEPT ![c] = Paid]
    /\ reached' = [reached EXCEPT ![c] = [g \in Rungs |-> 0]]
    /\ UNCHANGED <<queueVars, at, wave, workVars, haltVars, refused>>

Closes(c) ==
    /\ Followed /\ c \in Open
    /\ record' = [record EXCEPT ![c] = Closed]
    /\ UNCHANGED <<queueVars, at, wave, workVars, haltVars, reached, refused>>

\* The retry fires, or a customer who has heard of it tries again; the payment
\* may fail for another reason.
FailsAgain(c) ==
    /\ Followed /\ c \in Open
    /\ record[c].climbed # {}
    /\ \E b \in Causes :
          /\ b = record[c].cause \/ <<record[c].cause, b>> \in Turns
          /\ record' = [record EXCEPT ![c] = [@ EXCEPT !.cause = b, !.pending = FALSE]]
    /\ UNCHANGED <<queueVars, at, wave, workVars, haltVars, reached, refused>>

Sessions ==
    /\ \/ \E w \in Workers : Worker(w)
       \/ \E c \in Cases : ~Awaited(c) /\ LiveRunEnds(c)
    /\ UNCHANGED <<record, at, wave, workVars, haltVars, reached, refused>>

-----------------------------------------------------------------------------
Loop(k) ==
    \/ WaveBegins(k) \/ NothingToDo(k) \/ NextCause(k) \/ ChampionTimesOut(k)
    \/ RunBegins(k) \/ Work(k) \/ RunEnds(k) \/ CausesDone(k) \/ WaveEnds(k)
    \/ Dispatch(k) \/ CycleEnds(k)

Next ==
    \/ \E k \in Cycles : Launch(k) \/ Abort(k) \/ Loop(k) \/ ChampionEnds(k) \/ Submit(k)
    \/ \E c \in Cases : AgentClimbs(c) \/ Pays(c) \/ Closes(c) \/ FailsAgain(c)
    \/ Sessions

\* A cycle's thread goes on, submits return, and a session of the queue ends
\* (AgentQueue); a champion's need not.
Spec ==
    /\ Init /\ [][Next]_vars
    /\ \A k \in Cycles : WF_vars(Loop(k) \/ Submit(k))
    /\ \A w \in Workers : WF_vars(Sessions /\ Worker(w))

-----------------------------------------------------------------------------
\* "The ladder forbids repeating a rung" (waves.py:28): whatever wave a case
\* is in, under whatever cause, and whatever the agent did in between, no run
\* climbs a rung of it that a run has climbed before.
RunsRepeatNothing == \A c \in Cases, g \in Rungs : reached[c][g] <= 1

\* A cycle that a person has stopped begins one more run at most.
AbortLetsOneThrough == \A k \in Cycles : late[k] <= 1

\* "A promise ... until this module, an unkept one" (agent_queue.py:3): every
\* exception a cycle notes is taken up by a worker, unless the queue was full,
\* in whichever way the cycle ends and though a champion's session may hang.
\* (A cycle dispatches its exceptions when its request asks for it.  A case of
\* which two submits met may be refused with no place in line.)
ExceptionIsHeard ==
    \A k \in Cycles, c \in Cases :
        c \in noted[k] ~> InHand(c) \/ c \in refused \cup raced
-----------------------------------------------------------------------------
(* What the code says and does not keep (README, "Divergences").           *)

\* "The session still happened and still counts as this case's treatment"
\* (waves.py:350): no run climbs for a champion, or for any other case, a rung
\* that the agent has climbed since the wave read the records.
TreatedOnce ==
    [][\A c \in Open : reached'[c] # reached[c] => record'[c] # record[c]]_vars

\* "Re-checked at execution time rather than trusted from planning time"
\* (executor.py:8): a case that is closed or with a person is not acted on.
EndedIsLeftAlone ==
    [][\A c \in Cases : record[c] = Closed /\ record'[c] = Closed
           => reached'[c] = reached[c]]_vars

\* "Nothing to do until it fires" (classify.py:214): a case with a retry under
\* way is not left to the agent.
RetryIsWaitedFor ==
    [][\A k \in Cycles : \A c \in noted'[k] \ noted[k] :
          c \in Open => ~record[c].pending]_vars
=============================================================================
