------------------------------ MODULE BatchRuns ------------------------------
(***************************************************************************)
(* Batch runs (batch/run.py, batch/executor.py): a run applies one plan to *)
(* every case of a batch, a few workers at a time.  A worker asks whether  *)
(* the run must stop, runs the prechecks, takes what the action will cost  *)
(* out of the run's budget, and acts through the agent's own tools: it     *)
(* creates a payment link, sends the message, or schedules a retry.        *)
(*                                                                         *)
(* A plan of the planner acts on one rung of the ladder (planner.py); once *)
(* that rung is climbed, the plan no longer fits the case.  A wave works   *)
(* on copies of the records taken when it started, a run started from the  *)
(* dashboard on the records themselves.  The steps of one worker are       *)
(* interleaved with those of the others, of another run, and of the        *)
(* customers who pay.  Bands are worked in any order, where the code       *)
(* works them one after the other.                                         *)
(***************************************************************************)
EXTENDS Naturals, FiniteSets

CONSTANTS Cases, Runs, Workers,
          NoRun, NoCase,
          PlanFor,         \* what the plan does for a case's rung
          MaxCases, MaxLinks, MaxEmails,  \* BatchBudget
          FailLimit,       \* abort_after_consecutive_failures
          Copies,          \* the runs that work on copies (waves)
          ToolsRaise,      \* may a tool raise, rather than report an error?
          LiveAgent        \* may the agent work a case of the batch meanwhile?

ASSUME PlanAssumption ==
    PlanFor \in [Cases -> {"link_and_notify", "notify_only", "retry", "none"}]
ASSUME BudgetAssumption ==
    /\ {MaxCases, MaxLinks, MaxEmails} \subseteq Nat
    /\ FailLimit \in Nat \ {0}
ASSUME NamesAssumption ==
    NoRun \notin Runs /\ NoCase \notin Cases /\ Copies \subseteq Runs
ASSUME FiniteAssumption ==      \* a batch is a list, a pool has a size
    IsFiniteSet(Cases) /\ IsFiniteSet(Workers)
ASSUME FlagsAssumption == {ToolsRaise, LiveAgent} \subseteq BOOLEAN

VARIABLES paid,      \* the cases whose money is in
          stamp,     \* the run that last acted on a case
          climbed,   \* the cases whose rung has been climbed
          waiting,   \* cases whose link has not reached the customer
          copy,      \* copy[r] : stamp and climbed when wave r was started
          status,    \* new, running, finished or aborted
          spend,     \* spend[r] : what r has taken from its budget
          streak,    \* consecutive failures of a run
          abort,     \* the runs that were told to stop
          late,      \* the runs whose deadline has passed
          todo,      \* the cases no worker has picked yet
          work,      \* where each worker is, and its case
          outcome,   \* the decisions of a run
          linked,    \* history: the cases a run created a link for
          sent,      \* history: the cases a run sent a message or a retry for
          lost,      \* history: the cases with a rung that was not recorded
          unaware    \* history: <<r, c>>, if r chose c and could not see that
                     \* another run had or was about to climb the rung

tools == <<paid, stamp, climbed, waiting, linked, sent, lost>>
control == <<copy, status, abort, late>>
vars == <<tools, control, spend, streak, todo, work, outcome, unaware>>

Outcomes == {"acted", "skipped", "exception", "deferred", "budget"}
Places == {"idle", "precheck", "reserve", "link", "notify", "retry", "rung", "stamp"}

TypeOK ==
    /\ paid \subseteq Cases /\ climbed \subseteq Cases /\ waiting \subseteq Cases
    /\ stamp \in [Cases -> Runs \cup {NoRun}]
    /\ copy \in [Runs -> [stamp : [Cases -> Runs \cup {NoRun}],
                          climbed : SUBSET Cases]]
    /\ status \in [Runs -> {"new", "running", "finished", "aborted"}]
    /\ spend \in [Runs -> [links : 0..MaxLinks, emails : 0..MaxEmails,
                           cases : 0..MaxCases]]
    /\ streak \in [Runs -> 0..Cardinality(Cases)]
    /\ abort \subseteq Runs /\ late \subseteq Runs
    /\ todo \in [Runs -> SUBSET Cases]
    /\ work \in [Runs -> [Workers -> [at : Places, case : Cases \cup {NoCase}]]]
    /\ outcome \in [Runs -> [Cases -> Outcomes \cup {"none"}]]
    /\ linked \in [Runs -> SUBSET Cases] /\ sent \in [Runs -> SUBSET Cases]
    /\ lost \subseteq Cases /\ unaware \subseteq Runs \X Cases

Idle == [at |-> "idle", case |-> NoCase]
Nothing == [links |-> 0, emails |-> 0, cases |-> 0]

Init ==
    /\ paid = {} /\ climbed = {} /\ waiting = {}
    /\ stamp = [c \in Cases |-> NoRun]
    /\ copy = [r \in Runs |-> [stamp |-> stamp, climbed |-> climbed]]
    /\ status = [r \in Runs |-> "new"]
    /\ spend = [r \in Runs |-> Nothing]
    /\ streak = [r \in Runs |-> 0]
    /\ abort = {} /\ late = {}
    /\ todo = [r \in Runs |-> {}]
    /\ work = [r \in Runs |-> [w \in Workers |-> Idle]]
    /\ outcome = [r \in Runs |-> [c \in Cases |-> "none"]]
    /\ linked = [r \in Runs |-> {}]
    /\ sent = [r \in Runs |-> {}]
    /\ lost = {} /\ unaware = {}

-----------------------------------------------------------------------------
(* A run and its end                                                       *)

Live(r) == status[r] = "running"

\* A run is live from the moment it is registered.
Open(r) ==
    /\ status[r] = "new"
    /\ status' = [status EXCEPT ![r] = "running"]
    /\ copy' = IF r \in Copies
               THEN [copy EXCEPT ![r] = [stamp |-> stamp, climbed |-> climbed]]
               ELSE copy
    /\ todo' = [todo EXCEPT ![r] = Cases \ paid]
    /\ UNCHANGED <<tools, abort, late, spend, streak, work, outcome, unaware>>

\* A request from the dashboard: it may come before the first case is picked.
Abort(r) ==
    /\ Live(r) /\ r \notin abort
    /\ abort' = abort \cup {r}
    /\ UNCHANGED <<tools, copy, status, late, spend, streak, todo, work, outcome, unaware>>

Expire(r) ==
    /\ Live(r) /\ r \notin late
    /\ late' = late \cup {r}
    /\ UNCHANGED <<tools, copy, status, abort, spend, streak, todo, work, outcome, unaware>>

Close(r) ==
    /\ Live(r) /\ todo[r] = {}
    /\ \A w \in Workers : work[r][w] = Idle
    /\ status' = [status EXCEPT ![r] = IF r \in abort THEN "aborted" ELSE "finished"]
    /\ UNCHANGED <<tools, copy, abort, late, spend, streak, todo, work, outcome, unaware>>

\* The customer pays, by whatever way.
Pay(c) ==
    /\ c \notin paid
    /\ paid' = paid \cup {c}
    /\ UNCHANGED <<stamp, climbed, waiting, linked, sent, lost, control, spend,
                   streak, todo, work, outcome, unaware>>

\* A session of the live agent, which no run looks for, climbs the rung.
AgentClimbs(c) ==
    /\ LiveAgent
    /\ c \notin climbed \cup paid
    /\ climbed' = climbed \cup {c}
    /\ waiting' = waiting \ {c}
    /\ UNCHANGED <<paid, stamp, linked, sent, lost, control, spend, streak, todo,
                   work, outcome, unaware>>

-----------------------------------------------------------------------------
(* One worker                                                              *)

\* Defect: the rule fires one failure late.
StopNowLate(r) == r \in abort \/ r \in late \/ streak[r] > FailLimit

StopNow(r) == r \in abort \/ r \in late \/ streak[r] >= FailLimit

At(r, w, place) == Live(r) /\ work[r][w].at = place
CaseOf(r, w) == work[r][w].case

Go(r, w, place) == work' = [work EXCEPT ![r][w].at = place]

\* The worker's decision, counted in the worker itself: an action ends the
\* streak of failures, an exception lengthens it.
Decide(r, w, what) ==
    /\ outcome' = [outcome EXCEPT ![r][CaseOf(r, w)] = what]
    /\ work' = [work EXCEPT ![r][w] = Idle]
    /\ streak' = [streak EXCEPT ![r] = CASE what = "acted" -> 0
                                         [] what = "exception" -> @ + 1
                                         [] OTHER -> @]

\* A case of a band with no plan is an exception; a case met after the run
\* must stop is left alone, which is reported as out of budget.
Unworked(c) == IF PlanFor[c] = "none" THEN "exception" ELSE "budget"

Pick(r, w) ==
    /\ At(r, w, "idle")
    /\ \E c \in todo[r] :
          /\ todo' = [todo EXCEPT ![r] = @ \ {c}]
          /\ \/ /\ PlanFor[c] = "none" \/ StopNow(r)
                /\ outcome' = [outcome EXCEPT ![r][c] = Unworked(c)]
                /\ UNCHANGED work
             \/ /\ PlanFor[c] # "none" /\ ~StopNow(r)
                /\ work' = [work EXCEPT ![r][w] = [at |-> "precheck", case |-> c]]
                /\ UNCHANGED outcome
    /\ UNCHANGED <<tools, control, spend, streak, unaware>>

NeedsLink(c) == IF PlanFor[c] = "link_and_notify" THEN 1 ELSE 0
NeedsEmail(c) == IF PlanFor[c] = "retry" THEN 0 ELSE 1

\* would_exceed and reserve: what an action on c would overspend.
Exceeds(r, c) ==
    \/ spend[r].cases + 1 > MaxCases
    \/ spend[r].links + NeedsLink(c) > MaxLinks
    \/ spend[r].emails + NeedsEmail(c) > MaxEmails

View(r) == IF r \in Copies THEN copy[r] ELSE [stamp |-> stamp, climbed |-> climbed]

\* already_in_a_run: the case was last acted on by another run that is live.
InOtherRun(r, c) ==
    View(r).stamp[c] \notin {NoRun, r} /\ Live(View(r).stamp[c])

\* Defect: the rung of the plan is used whatever rung the case is on.
OffPlanNever(r, c) == FALSE

\* ladder_advanced: the case is not on the rung the plan is for.
OffPlan(r, c) == c \in View(r).climbed

\* A worker of r has c in hand, beyond the prechecks and before its rung.
Chosen == {"reserve", "link", "notify", "retry", "rung"}
InHand(r, c) == \E w \in Workers : work[r][w].at \in Chosen /\ CaseOf(r, w) = c

\* What r cannot see: a rung that its copy of the record lacks, or one that a
\* worker of another run is about to climb.
Hidden(r, c) ==
    \/ c \in climbed \ View(r).climbed
    \/ \E o \in Runs \ {r} : InHand(o, c)

\* The gate.  Left open: whether the case is still of its batch and band, may
\* be chased and has an address (if not, it is skipped), whether the action
\* needs an approval or a link that cannot be had (an exception), and whether
\* the merchant's hours allow a message (if not, it is deferred).
Precheck(r, w) ==
    /\ At(r, w, "precheck")
    /\ LET c == CaseOf(r, w) IN
       \/ Decide(r, w, "skipped") /\ UNCHANGED unaware
       \/ /\ c \notin paid /\ ~InOtherRun(r, c)
          /\ \/ Decide(r, w, "exception")
             \/ ~OffPlan(r, c) /\ NeedsEmail(c) = 1 /\ Decide(r, w, "deferred")
             \/ ~OffPlan(r, c) /\ Exceeds(r, c) /\ Decide(r, w, "budget")
          /\ UNCHANGED unaware
       \/ /\ c \notin paid /\ ~InOtherRun(r, c)
          /\ ~OffPlan(r, c) /\ ~Exceeds(r, c)
          /\ Go(r, w, "reserve")
          /\ unaware' = IF Hidden(r, c) THEN unaware \cup {<<r, c>>} ELSE unaware
          /\ UNCHANGED <<outcome, streak>>
    /\ UNCHANGED <<tools, control, spend, todo>>

Taken(r, c) ==
    [spend EXCEPT ![r] = [links |-> @.links + NeedsLink(c),
                          emails |-> @.emails + NeedsEmail(c),
                          cases |-> @.cases + 1]]

\* The first tool an action calls.
FirstStep(c) == CASE PlanFor[c] = "link_and_notify" -> "link"
                  [] PlanFor[c] = "notify_only" -> "notify"
                  [] OTHER -> "retry"

\* Defect: what the precheck found is not asked again.
ReserveUnchecked(r, w) ==
    /\ At(r, w, "reserve")
    /\ spend' = Taken(r, CaseOf(r, w))
    /\ Go(r, w, FirstStep(CaseOf(r, w)))
    /\ UNCHANGED <<tools, control, todo, outcome, streak, unaware>>

\* Defect: a worker whose action does not fit waits for others to give back.
ReserveOrWait(r, w) ==
    /\ At(r, w, "reserve")
    /\ ~Exceeds(r, CaseOf(r, w))
    /\ spend' = Taken(r, CaseOf(r, w))
    /\ Go(r, w, FirstStep(CaseOf(r, w)))
    /\ UNCHANGED <<tools, control, todo, outcome, streak, unaware>>

\* Check and take under one lock.
Reserve(r, w) ==
    /\ At(r, w, "reserve")
    /\ LET c == CaseOf(r, w) IN
       \/ Exceeds(r, c) /\ Decide(r, w, "budget") /\ UNCHANGED spend
       \/ /\ ~Exceeds(r, c)
          /\ spend' = Taken(r, c)
          /\ Go(r, w, FirstStep(c))
          /\ UNCHANGED <<outcome, streak>>
    /\ UNCHANGED <<tools, control, todo, unaware>>

\* The email and the case are given back; the link never is.
GiveBack(r, c) ==
    [spend EXCEPT ![r] = [links |-> @.links,
                          emails |-> IF @.emails = 0 THEN 0 ELSE @.emails - 1,
                          cases |-> IF @.cases = 0 THEN 0 ELSE @.cases - 1]]

\* Defect: what was taken for an action that failed stays taken.
FailsKeeping(r, w) == UNCHANGED spend /\ Decide(r, w, "exception")

\* A tool that reports an error ends the case; one that raises does so too,
\* and nothing is given back.
Fails(r, w) ==
    /\ spend' \in {GiveBack(r, CaseOf(r, w))} \cup (IF ToolsRaise THEN {spend} ELSE {})
    /\ Decide(r, w, "exception")

\* generate_recovery_payment_link refuses a settled case and one whose link
\* still waits to be delivered.  The gateway may refuse, or fail after it has
\* made a link that nobody records.
CreateLink(r, w) ==
    /\ At(r, w, "link")
    /\ LET c == CaseOf(r, w) IN
       \/ Fails(r, w) /\ UNCHANGED tools
       \/ /\ c \notin paid /\ c \notin waiting
          /\ linked' = [linked EXCEPT ![r] = @ \cup {c}]
          /\ \/ Fails(r, w) /\ UNCHANGED waiting
             \/ /\ waiting' = waiting \cup {c}
                /\ Go(r, w, "notify")
                /\ UNCHANGED <<spend, outcome, streak>>
          /\ UNCHANGED <<paid, stamp, climbed, sent, lost>>
    /\ UNCHANGED <<control, todo, unaware>>

\* Something reached the customer, or will.
Sends(r, w) ==
    /\ sent' = [sent EXCEPT ![r] = @ \cup {CaseOf(r, w)}]
    /\ Go(r, w, "rung")
    /\ UNCHANGED <<paid, stamp, climbed, waiting, linked, lost, spend, outcome, streak>>

\* send_recovery_notification, until a channel delivered.
Notify(r, w) ==
    /\ At(r, w, "notify")
    /\ \/ Fails(r, w) /\ UNCHANGED tools
       \/ CaseOf(r, w) \notin paid /\ Sends(r, w)
    /\ UNCHANGED <<control, todo, unaware>>

\* retry_in_hours; execute() does not look at whether it reports an error.
Retry(r, w) ==
    /\ At(r, w, "retry")
    /\ \/ Sends(r, w)
       \/ Go(r, w, "stamp") /\ UNCHANGED <<tools, spend, outcome, streak>>
    /\ UNCHANGED <<control, todo, unaware>>

\* The rung and the mark on the link are recorded after that, each by a
\* function that swallows its errors.
Rung(r, w) ==
    /\ At(r, w, "rung")
    /\ LET c == CaseOf(r, w) IN
       /\ \/ climbed' = climbed \cup {c} /\ UNCHANGED lost
          \/ c \notin climbed /\ lost' = lost \cup {c} /\ UNCHANGED climbed
       /\ \/ UNCHANGED waiting
          \/ NeedsEmail(c) = 1 /\ waiting' = waiting \ {c}
    /\ Go(r, w, "stamp")
    /\ UNCHANGED <<paid, stamp, linked, sent, control, spend, streak, todo, outcome,
                   unaware>>

Stamp(r, w) ==
    /\ At(r, w, "stamp")
    /\ stamp' = [stamp EXCEPT ![CaseOf(r, w)] = r]
    /\ Decide(r, w, "acted")
    /\ UNCHANGED <<paid, climbed, waiting, linked, sent, lost, control, spend, todo,
                   unaware>>

-----------------------------------------------------------------------------
Works(r, w) ==
    \/ Pick(r, w) \/ Precheck(r, w) \/ Reserve(r, w)
    \/ CreateLink(r, w) \/ Notify(r, w) \/ Retry(r, w) \/ Rung(r, w) \/ Stamp(r, w)

Next ==
    \/ \E r \in Runs : \/ Open(r) \/ Abort(r) \/ Expire(r) \/ Close(r)
                       \/ \E w \in Workers : Works(r, w)
    \/ \E c \in Cases : Pay(c) \/ AgentClimbs(c)

Spec == Init /\ [][Next]_vars

\* The threads of the pool run, and every tool returns or raises.
FairSpec ==
    /\ Spec
    /\ \A r \in Runs : WF_vars(Close(r))
    /\ \A r \in Runs, w \in Workers : WF_vars(Works(r, w))

-----------------------------------------------------------------------------
(* Properties                                                              *)

Messaged(r) == {c \in sent[r] : NeedsEmail(c) = 1}
Acted(r) == {c \in Cases : outcome[r][c] = "acted"}
Ended(r) == status[r] \in {"finished", "aborted"}

\* "A run creates four payment links against a cap of two" (executor.py:104)
\* cannot happen: every link, message and retry of a run was taken out of its
\* budget and is still taken, whichever workers checked at the same time and
\* whatever failed since.
BudgetCovers ==
    \A r \in Runs :
        /\ Cardinality(linked[r]) <= spend[r].links
        /\ Cardinality(Messaged(r)) <= spend[r].emails
        /\ Cardinality(sent[r]) <= spend[r].cases

\* And only what was used stays taken (release, executor.py:123): when a run
\* whose tools report their errors is over, it has paid for the messages it
\* sent and for the cases it acted on, so its report does not overstate.
NothingLeaks ==
    \A r \in Runs :
        Ended(r) => /\ spend[r].emails = Cardinality(Messaged(r))
                    /\ spend[r].cases = Cardinality(Acted(r))

\* "Discovering that once is diagnosis" (test_batch_run.py:160): with every
\* action failing, a run stops at its limit plus what was already in flight.
StreakIsBounded ==
    \A r \in Runs : streak[r] <= FailLimit + Cardinality(Workers) - 1

\* "A finished run releases the case ... what stops a repeat contact then is
\* the ladder" (executor.py:243): two runs send to one case only if, when one of
\* them looked, the other's rung was hidden from it -- about to be climbed, or
\* climbed since its copy was taken -- or was lost.
SentTwiceUnseen ==
    \A r, o \in Runs, c \in Cases :
        c \in sent[r] \cap sent[o] /\ r # o
            => c \in lost \/ {<<r, c>>, <<o, c>>} \cap unaware # {}

\* "A rung is a claim that the customer was reached" (tools.py:1742): no rung
\* is climbed by a message that failed, so the case can be tried again.
ClimbedIsSent ==
    \A c \in climbed : LiveAgent \/ \E r \in Runs : c \in sent[r]

\* What a run believes it spent and climbed is what was done, so that neither
\* its report nor its next decision rests on something that never happened.
BooksAreTrue == BudgetCovers /\ NothingLeaks /\ ClimbedIsSent

\* A run ends: no worker waits for what another one holds, whatever fails and
\* whoever stops the run, so the batch can be run again.
RunEnds == \A r \in Runs : Live(r) ~> Ended(r)

\* "Not silently dropped" (run.py:141): when a run is over, every case it was
\* given has a decision, whether its band had no plan, its run was stopped or
\* its budget was spent.
EveryCaseIsDecided ==
    \A r \in Runs, c \in Cases :
        Ended(r) /\ outcome[r][c] = "none" => c \in paid

-----------------------------------------------------------------------------
(* What the code says and does not keep                                    *)

\* "No customer was messaged twice" (test_batch_run.py:194).
SentOnce ==
    \A r, o \in Runs, c \in Cases : c \in sent[r] \cap sent[o] => r = o

\* Eligibility is "re-checked at execution time rather than trusted from
\* planning time" (executor.py:9): an action is not begun on a case that had
\* left the plan's rung when its prechecks ran.
PlanFitsWhenChecked ==
    [][\A r \in Runs, w \in Workers :
          At(r, w, "precheck") /\ CaseOf(r, w) \in climbed
              => work'[r][w].at # "reserve"]_vars

\* "Stop before the next case, and before any side effect in flight"
\* (run.py:81): once a run is aborted, no worker goes on to act.
AbortedBeginsNothing ==
    [][\A r \in abort, w \in Workers :
          At(r, w, "reserve") => work'[r][w].at \in {"reserve", "idle"}]_vars

\* "ACTED: a side effect happened" (executor.py:45): a case counts as acted
\* only if a message was sent or a retry scheduled for it.
ActedHadEffect == \A r \in Runs : Acted(r) \subseteq sent[r]
=============================================================================
