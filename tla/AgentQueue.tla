----------------------------- MODULE AgentQueue -----------------------------
(***************************************************************************)
(* The exception queue of the batch (batch/agent_queue.py): wave cycles    *)
(* submit the cases their plans do not fit, and a few workers give each of *)
(* them a full agent session, through the frontend's runner.               *)
(*                                                                         *)
(* submit() looks at `seen` under the queue's lock, puts the referral in   *)
(* line with no lock held, and takes the lock again to enter it into       *)
(* `seen`; a worker that is done takes it out of `seen`.  In between       *)
(* another submit may look, and a worker may be done with the referral     *)
(* before it is entered: `raced` says to which cases that has happened.    *)
(***************************************************************************)
EXTENDS Naturals, Sequences, SequencesExt

CONSTANTS Cases, Submitters, Workers,   \* a submitter is a wave cycle
          Depth,        \* MAX_DEPTH
          NoCase,
          LiveRuns      \* may a live agent run hold a case that is referred?

ASSUME DepthAssumption == Depth \in Nat \ {0}
ASSUME NoCaseAssumption == NoCase \notin Cases
ASSUME LiveRunsAssumption == LiveRuns \in BOOLEAN

VARIABLES line,     \* the queue
          seen,     \* _seen
          submit,   \* where each submit is: idle, put or mark; and its case
          work,     \* the case each worker has in hand
          session,  \* the workers whose runner has started a session
          active,   \* cases that a live run holds (active_agent_payments)
          raced     \* history: cases whose last referrals met in a submit

queueVars == <<line, seen, submit, work, session, active, raced>>

QueueTypeOK ==
    /\ line \in Seq(Cases) /\ Len(line) <= Depth
    /\ seen \subseteq Cases
    /\ submit \in [Submitters -> [at : {"idle", "put", "mark"},
                                  case : Cases \cup {NoCase}]]
    /\ work \in [Workers -> Cases \cup {NoCase}]
    /\ session \subseteq Workers
    /\ active \subseteq Cases /\ raced \subseteq Cases

NotSubmitting == [at |-> "idle", case |-> NoCase]

QueueInit ==
    /\ line = <<>>
    /\ seen = {}
    /\ submit = [s \in Submitters |-> NotSubmitting]
    /\ work = [w \in Workers |-> NoCase]
    /\ session = {}
    /\ active = {}
    /\ raced = {}

-----------------------------------------------------------------------------
At(s, place) == submit[s].at = place

InLine(c) == \E i \in DOMAIN line : line[i] = c
InHand(c) == \E w \in Workers : work[w] = c

\* A submit of a case is under way, or about to enter it into `seen`.
BeingSubmitted(c) == \E s \in Submitters : ~At(s, "idle") /\ submit[s].case = c
BeingMarked(c) == \E s \in Submitters : At(s, "mark") /\ submit[s].case = c

\* "already_queued", or go on to put it in line.  Nobody else's submit of the
\* case shows yet; a case that has no place at all is referred afresh.
Look(s, c) ==
    /\ At(s, "idle")
    /\ c \notin seen
    /\ submit' = [submit EXCEPT ![s] = [at |-> "put", case |-> c]]
    /\ raced' = IF BeingSubmitted(c) THEN raced \cup {c}
                ELSE IF InLine(c) \/ InHand(c) THEN raced ELSE raced \ {c}
    /\ UNCHANGED <<line, seen, work, session, active>>

\* Defect: a queue that is full takes one more.
PutAnyway(s) ==
    /\ At(s, "put")
    /\ line' = Append(line, submit[s].case)
    /\ submit' = [submit EXCEPT ![s].at = "mark"]
    /\ UNCHANGED <<seen, work, session, active, raced>>

\* put_nowait refuses when the queue is full.
Put(s) ==
    /\ At(s, "put")
    /\ IF Len(line) < Depth
       THEN /\ line' = Append(line, submit[s].case)
            /\ submit' = [submit EXCEPT ![s].at = "mark"]
       ELSE /\ submit' = [submit EXCEPT ![s] = NotSubmitting]
            /\ UNCHANGED line
    /\ UNCHANGED <<seen, work, session, active, raced>>

Mark(s) ==
    /\ At(s, "mark")
    /\ seen' = seen \cup {submit[s].case}
    /\ submit' = [submit EXCEPT ![s] = NotSubmitting]
    /\ UNCHANGED <<line, work, session, active, raced>>

\* A worker takes the referral that has waited longest.
Take(w) ==
    /\ work[w] = NoCase
    /\ line # <<>>
    /\ work' = [work EXCEPT ![w] = Head(line)]
    /\ line' = Tail(line)
    /\ UNCHANGED <<seen, submit, session, active, raced>>

\* The runner calls run_agent_for_payment without asking it to queue, so a
\* case that a live run holds is passed over.
Begin(w) ==
    /\ work[w] # NoCase /\ w \notin session
    /\ work[w] \notin active
    /\ session' = session \cup {w}
    /\ active' = active \cup {work[w]}
    /\ UNCHANGED <<line, seen, submit, work, raced>>

\* The worker may be done before the referral is entered into `seen`.
Overtakes(w) ==
    raced' = IF BeingMarked(work[w]) THEN raced \cup {work[w]} ELSE raced

\* The worker is done: with a session, with one that raised, or at once when
\* the case was passed over, which counts as worked all the same.
Leave(w) ==
    /\ seen' = seen \ {work[w]}
    /\ work' = [work EXCEPT ![w] = NoCase]
    /\ Overtakes(w)

PassOver(w) ==
    /\ work[w] # NoCase /\ w \notin session
    /\ work[w] \in active
    /\ Leave(w)
    /\ UNCHANGED <<line, submit, session, active>>

\* Defect: a session that raises leaves its case in `seen`.
EndOrRaise(w) ==
    /\ w \in session
    /\ session' = session \ {w}
    /\ active' = active \ {work[w]}
    /\ work' = [work EXCEPT ![w] = NoCase]
    /\ seen' \in {seen, seen \ {work[w]}}
    /\ Overtakes(w)
    /\ UNCHANGED <<line, submit>>

End(w) ==
    /\ w \in session
    /\ session' = session \ {w}
    /\ active' = active \ {work[w]}
    /\ Leave(w)
    /\ UNCHANGED <<line, submit>>

\* Runs that do not come from the queue.
LiveRunBegins(c) ==
    /\ LiveRuns
    /\ c \notin active
    /\ active' = active \cup {c}
    /\ UNCHANGED <<line, seen, submit, work, session, raced>>

LiveRunEnds(c) ==
    /\ c \in active
    /\ \A w \in session : work[w] # c
    /\ active' = active \ {c}
    /\ UNCHANGED <<line, seen, submit, work, session, raced>>

-----------------------------------------------------------------------------
Worker(w) == Take(w) \/ Begin(w) \/ PassOver(w) \/ End(w)

QueueNext ==
    \/ \E s \in Submitters : (\E c \in Cases : Look(s, c)) \/ Put(s) \/ Mark(s)
    \/ \E w \in Workers : Worker(w)
    \/ \E c \in Cases : LiveRunBegins(c) \/ LiveRunEnds(c)

QueueSpec == QueueInit /\ [][QueueNext]_queueVars

\* The threads run, submits return, and a session ends sooner or later.
QueueFairSpec ==
    /\ QueueSpec
    /\ \A s \in Submitters : WF_queueVars(Put(s) \/ Mark(s))
    /\ \A w \in Workers : WF_queueVars(Worker(w))

-----------------------------------------------------------------------------
(* Properties                                                              *)

\* The case has one place in line, and none while a worker has it in hand.
OnePlace(c) ==
    /\ \A i, j \in DOMAIN line : line[i] = c /\ line[j] = c => i = j
    /\ \A v, w \in Workers : work[v] = c /\ work[w] = c => v = w
    /\ ~(InLine(c) /\ InHand(c))

\* A case is refused as "already queued" only while it is: who is in `seen`
\* is in line or in hand.  Otherwise no later wave could refer it again.
HasPlaceIfSeen(c) == c \in seen => InLine(c) \/ InHand(c)

\* "One referral per case at a time" (agent_queue.py:67): a case has one place,
\* and is refused only while it has it.  The one way out is the window between
\* the two times submit takes the lock: another submit of the case looks in it,
\* or a worker is done with the referral before it is entered.
SeenHavePlaces == \A c \in Cases \ raced : OnePlace(c) /\ HasPlaceIfSeen(c)

\* Everyone in line is taken up, however often others are referred.
ReferredIsWorked == \A c \in Cases : InLine(c) ~> InHand(c)

-----------------------------------------------------------------------------
(* What the code says and does not keep (README, "Divergences").           *)

OnePlaceInLine == \A c \in Cases : OnePlace(c)

\* A case that is refused with no place is refused for good.
NotLockedOut == \A c \in Cases : HasPlaceIfSeen(c)

\* "A promise ... until this module, an unkept one" (agent_queue.py:3): a
\* referral that leaves the line gets a session.
ReferralIsKept ==
    [][\A w \in Workers :
          work[w] # NoCase /\ work'[w] = NoCase => w \in session]_queueVars
=============================================================================
