---------------------------- MODULE DaemonJobs ----------------------------
(***************************************************************************)
(* The timers of the recovery system: the jobs table of the state store,   *)
(* the daemon that polls it (daemon_worker.py), and the endpoints of the   *)
(* frontend that schedule and cancel jobs and hear of their execution.     *)
(*                                                                         *)
(* A job is a wake-up the agent asked for (wait_for_customer) or a retry   *)
(* of the payment (retry_in_hours).  The two processes share only the      *)
(* files; each reads its own copy and writes the keys it changed, so a     *)
(* handler of the frontend decides on its copy (known) and then writes.    *)
(* Besides polling, the daemon parks open cases when it starts, by a copy  *)
(* of their records that the frontend may overtake, and on every round it  *)
(* releases the cases that wait for a customer to say why they stopped.    *)
(***************************************************************************)
EXTENDS Naturals

CONSTANTS Cases,
          WakeJobs, RetryJobs,
          CaseOf,        \* the case a job belongs to
          NoJob,
          LossyPosts,    \* may a POST of the daemon fail?
          MaxCrashes     \* how often the daemon may die

Jobs == WakeJobs \cup RetryJobs

ASSUME JobsAssumption ==
    /\ CaseOf \in [Jobs -> Cases]
    /\ NoJob \notin Jobs
    /\ WakeJobs \cap RetryJobs = {}
ASSUME BoundsAssumption ==
    LossyPosts \in BOOLEAN /\ MaxCrashes \in Nat

VARIABLES job,      \* live_jobs.json: the status of every job
          known,    \* the frontend's copy of it
          due,      \* the jobs whose time has come
          stage,    \* where a case stands
          hold,     \* drop_reason_pending: none, fresh, or older than the grace
          live,     \* the cases an agent run is working on
          adopting, \* retries a tool scheduled in a run that has not ended
          at,       \* where the daemon is
          todo,     \* the due jobs it read
          cur,      \* the job it is executing
          stale,    \* the old holds it read
          copy,     \* the holds of the cases it is about to park
          backlog,  \* their pending jobs
          told,     \* history: jobs whose execution the frontend heard of
          fired,    \* history: how often a wake-up was executed
          shelved,  \* history: jobs the daemon cancelled when it parked
          crashes   \* how often the daemon died

parking == <<copy, backlog>>
history == <<told, fired, shelved>>
daemon == <<at, todo, cur, stale, parking>>
vars == <<job, known, due, stage, hold, live, adopting, daemon, history, crashes>>

Holds == {"none", "fresh", "old"}
Nothing == [c \in {} |-> "none"]
Settled == {"escalated", "closed", "recovered"}
JobStates == {"none", "pending", "completed", "failed", "cancelled"}

TypeOK ==
    /\ job \in [Jobs -> JobStates]
    /\ known \in [Jobs -> JobStates]
    /\ due \subseteq Jobs
    /\ stage \in [Cases -> {"open", "parked"} \cup Settled]
    /\ hold \in [Cases -> Holds]
    /\ live \subseteq Cases
    /\ adopting \subseteq RetryJobs
    /\ at \in {"boot", "park", "idle", "work", "record", "notify", "sweep"}
    /\ todo \subseteq Jobs
    /\ cur \in Jobs \cup {NoJob}
    /\ stale \subseteq Cases
    /\ copy \in UNION {[C -> Holds] : C \in SUBSET Cases}
    /\ backlog \subseteq Jobs
    /\ told \subseteq Jobs
    /\ fired \in [WakeJobs -> Nat]
    /\ shelved \subseteq Jobs
    /\ crashes \in 0..MaxCrashes

Init ==
    /\ job = [j \in Jobs |-> "none"]
    /\ known = job
    /\ due = {}
    /\ stage = [c \in Cases |-> "open"]
    /\ hold = [c \in Cases |-> "none"]
    /\ live = {}
    /\ adopting = {}
    /\ at = "boot"
    /\ todo = {}
    /\ cur = NoJob
    /\ stale = {}
    /\ copy = Nothing
    /\ backlog = {}
    /\ told = {}
    /\ fired = [j \in WakeJobs |-> 0]
    /\ shelved = {}
    /\ crashes = 0

-----------------------------------------------------------------------------
(* The frontend                                                            *)

JobsOf(c) == {j \in Jobs : CaseOf[j] = c}

\* Defect: its copy does not learn what it wrote.
WriteAside(J, status) ==
    /\ job' = [j \in Jobs |-> IF j \in J THEN status ELSE job[j]]
    /\ known' = known

\* The frontend changes the status of the jobs in J and flushes: what it
\* changed overrides the file, and its copy is the file again.
Write(J, status) ==
    /\ job' = [j \in Jobs |-> IF j \in J THEN status ELSE job[j]]
    /\ known' = job'

\* Any other flush only brings the copy up to date.
Learn ==
    /\ known # job
    /\ known' = job
    /\ UNCHANGED <<job, due, stage, hold, live, adopting, daemon, history, crashes>>

\* A run starts: an event, an operator or the customer's new failure.  Only
\* a failure makes a parked case `recovering` again, and nothing asks whether
\* the case still waits for the customer to say why.
Begin(c) ==
    /\ stage[c] \notin Settled
    /\ c \notin live
    /\ \E s \in {stage[c], "open"} : stage' = [stage EXCEPT ![c] = s]
    /\ live' = live \cup {c}
    /\ UNCHANGED <<job, known, due, hold, adopting, daemon, history, crashes>>

\* Or it is deferred, until the customer says why or two minutes pass.
Defer(c) ==
    /\ stage[c] \notin Settled
    /\ hold[c] = "none" /\ c \notin live
    /\ stage' = [stage EXCEPT ![c] = "open"]
    /\ hold' = [hold EXCEPT ![c] = "fresh"]
    /\ UNCHANGED <<job, known, due, live, adopting, daemon, history, crashes>>

Ages(c) ==
    /\ hold[c] = "fresh"
    /\ hold' = [hold EXCEPT ![c] = "old"]
    /\ UNCHANGED <<job, known, due, stage, live, adopting, daemon, history, crashes>>

\* The customer answers or skips in the browser.
Answer(c) ==
    /\ hold[c] # "none" /\ stage[c] \notin Settled
    /\ hold' = [hold EXCEPT ![c] = "none"]
    /\ live' = live \cup {c}
    /\ UNCHANGED <<job, known, due, stage, adopting, daemon, history, crashes>>

\* A tool of the run schedules a job, also when the case has settled while the
\* turn was under way; a retry is registered once more, with the same id, when
\* the run ends.
Schedule(j) ==
    /\ CaseOf[j] \in live
    /\ job[j] = "none"
    /\ Write({j}, "pending")
    /\ adopting' = adopting \cup ({j} \cap RetryJobs)
    /\ UNCHANGED <<due, stage, hold, live, daemon, history, crashes>>

\* What the end of a run may write over the status of a case: money and a
\* closure stay, an escalation that nobody closed does not.
Ends(s) == IF s \in {"closed", "recovered"} THEN {s}
                                            ELSE {s, "open", "escalated"}

\* The run ends: it registers the retry it scheduled and writes its final
\* status.  An escalation leaves the timers alone.
EndRun(c) ==
    /\ c \in live
    /\ live' = live \ {c}
    /\ Write(adopting \cap JobsOf(c), "pending")
    /\ adopting' = adopting \ JobsOf(c)
    /\ \E s \in Ends(stage[c]) : stage' = [stage EXCEPT ![c] = s]
    /\ UNCHANGED <<due, hold, daemon, history, crashes>>

Pending(c) == {j \in JobsOf(c) : known[j] = "pending"}

\* Defect: what the case ended as is written over the status of its jobs.
RecoverMislabels(c) ==
    /\ stage[c] # "recovered"
    /\ stage' = [stage EXCEPT ![c] = "recovered"]
    /\ Write(Pending(c), "recovered")
    /\ UNCHANGED <<due, hold, live, adopting, daemon, history, crashes>>

\* The money arrives on a road that goes through _mark_recovered: the pending
\* jobs are cancelled.
Recover(c) ==
    /\ stage[c] # "recovered"
    /\ stage' = [stage EXCEPT ![c] = "recovered"]
    /\ Write(Pending(c), "cancelled")
    /\ UNCHANGED <<due, hold, live, adopting, daemon, history, crashes>>

\* The customer says so, and the order is paid: the status is all that changes.
Responds(c) ==
    /\ stage[c] # "recovered"
    /\ stage' = [stage EXCEPT ![c] = "recovered"]
    /\ known' = job
    /\ UNCHANGED <<job, due, hold, live, adopting, daemon, history, crashes>>

\* The agent closes the case, or the operator settles it.
Close(c) ==
    /\ stage[c] # "closed"
    /\ stage' = [stage EXCEPT ![c] = IF @ = "recovered" THEN @ ELSE "closed"]
    /\ Write(Pending(c), "cancelled")
    /\ UNCHANGED <<due, hold, live, adopting, daemon, history, crashes>>

Elapse(j) ==
    /\ job[j] = "pending"
    /\ j \notin due
    /\ due' = due \cup {j}
    /\ UNCHANGED <<job, known, stage, hold, live, adopting, daemon, history, crashes>>

-----------------------------------------------------------------------------
(* The daemon                                                              *)

\* park_open_cases_on_boot reads the files and goes through the open cases
\* whose status is one it parks.
ParkRead ==
    /\ at = "boot"
    /\ at' = "park"
    /\ \E C \in SUBSET {c \in Cases : stage[c] = "open"} :
          /\ copy' = [c \in C |-> hold[c]]
          /\ backlog' = {j \in Jobs : CaseOf[j] \in C /\ job[j] = "pending"}
    /\ UNCHANGED <<job, known, due, stage, hold, live, adopting, todo, cur, stale,
                   history, crashes>>

\* The records it read go back as parked: its copy overrides what the frontend
\* has written since, except that money in the bank stays.
ParkCases ==
    /\ stage' = [c \in Cases |->
                    IF c \in DOMAIN copy /\ stage[c] # "recovered" THEN "parked"
                                                                   ELSE stage[c]]
    /\ hold' = [c \in Cases |-> IF c \in DOMAIN copy THEN copy[c] ELSE hold[c]]

\* Defect: the daemon polls before it parks.
ParkLate ==
    /\ at = "park"
    /\ at' = "work"
    /\ ParkCases
    /\ job' = [j \in Jobs |-> IF j \in backlog THEN "cancelled" ELSE job[j]]
    /\ shelved' = shelved \cup backlog
    /\ todo' = {j \in due : job[j] = "pending"}
    /\ copy' = Nothing /\ backlog' = {}
    /\ UNCHANGED <<known, due, live, adopting, cur, stale, told, fired, crashes>>

\* The flush: the cases, then the jobs.
Park ==
    /\ at = "park"
    /\ at' = "idle"
    /\ ParkCases
    /\ job' = [j \in Jobs |-> IF j \in backlog THEN "cancelled" ELSE job[j]]
    /\ shelved' = shelved \cup backlog
    /\ copy' = Nothing /\ backlog' = {}
    /\ UNCHANGED <<known, due, live, adopting, todo, cur, stale, told, fired, crashes>>

\* Defect: the jobs of settled cases are passed over rather than finished.
PollOpenCases ==
    /\ at = "idle"
    /\ at' = "work"
    /\ todo' = {j \in due : job[j] = "pending" /\ stage[CaseOf[j]] \notin Settled}
    /\ UNCHANGED <<job, known, due, stage, hold, live, adopting, cur, stale,
                   parking, history, crashes>>

\* _process_due_jobs reads the files once and then works through the list.
Poll ==
    /\ at = "idle"
    /\ at' = "work"
    /\ todo' = {j \in due : job[j] = "pending"}
    /\ UNCHANGED <<job, known, due, stage, hold, live, adopting, cur, stale,
                   parking, history, crashes>>

Execute(j) ==
    /\ at = "work" /\ j \in todo
    /\ at' = "record"
    /\ cur' = j
    /\ todo' = todo \ {j}
    /\ fired' = [i \in WakeJobs |-> IF i = j THEN fired[i] + 1 ELSE fired[i]]
    /\ UNCHANGED <<job, known, due, stage, hold, live, adopting, stale, parking,
                   told, shelved, crashes>>

\* Defect: the outcome stays in the daemon's own copy.
RecordUnsaved ==
    /\ at = "record"
    /\ at' = "notify"
    /\ UNCHANGED <<job, known, due, stage, hold, live, adopting, todo, cur, stale,
                   parking, history, crashes>>

\* The outcome is written whatever the file says by now.  A wake-up cannot
\* fail; the gateway may refuse a retry, which nobody is told.
Record ==
    /\ at = "record"
    /\ \/ job' = [job EXCEPT ![cur] = "completed"] /\ at' = "notify"
          /\ UNCHANGED cur
       \/ cur \in RetryJobs /\ job' = [job EXCEPT ![cur] = "failed"]
          /\ at' = "work" /\ cur' = NoJob
    /\ UNCHANGED <<known, due, stage, hold, live, adopting, todo, stale,
                   parking, history, crashes>>

\* POST /api/daemon-retry-complete.  A wake-up hands the case to the agent
\* unless it is settled; a retry is watched.
Notify ==
    /\ at = "notify"
    /\ at' = "work" /\ cur' = NoJob
    /\ \/ /\ told' = told \cup {cur}
          /\ live' = IF cur \in WakeJobs /\ stage[CaseOf[cur]] \notin Settled
                     THEN live \cup {CaseOf[cur]} ELSE live
       \/ LossyPosts /\ UNCHANGED <<told, live>>
    /\ UNCHANGED <<job, known, due, stage, hold, adopting, todo, stale,
                   parking, fired, shelved, crashes>>

\* Defect: holds that are not old enough yet are forgotten for good.
ReadHoldsNever ==
    /\ at = "work" /\ todo = {}
    /\ at' = "sweep"
    /\ stale' = {}
    /\ UNCHANGED <<job, known, due, stage, hold, live, adopting, todo, cur,
                   parking, history, crashes>>

\* _release_stranded_holds reads the holds that are older than the grace.
ReadHolds ==
    /\ at = "work" /\ todo = {}
    /\ at' = "sweep"
    /\ stale' = {c \in Cases : hold[c] = "old"}
    /\ UNCHANGED <<job, known, due, stage, hold, live, adopting, todo, cur,
                   parking, history, crashes>>

\* POST /api/drop-reason/skip, which starts the agent if the case is neither
\* settled nor already released.
Release(c) ==
    /\ at = "sweep" /\ c \in stale
    /\ stale' = stale \ {c}
    /\ IF hold[c] # "none" /\ stage[c] \notin Settled
       THEN /\ hold' = [hold EXCEPT ![c] = "none"]
            /\ live' = live \cup {c}
       ELSE UNCHANGED <<hold, live>>
    /\ UNCHANGED <<job, known, due, stage, adopting, at, todo, cur,
                   parking, history, crashes>>

ReleaseLost(c) ==
    /\ LossyPosts
    /\ at = "sweep" /\ c \in stale
    /\ stale' = stale \ {c}
    /\ UNCHANGED <<job, known, due, stage, hold, live, adopting, at, todo, cur,
                   parking, history, crashes>>

Sleep ==
    /\ at = "sweep" /\ stale = {}
    /\ at' = "idle"
    /\ UNCHANGED <<job, known, due, stage, hold, live, adopting, todo, cur, stale,
                   parking, history, crashes>>

Dies ==
    /\ crashes < MaxCrashes
    /\ crashes' = crashes + 1
    /\ at' = "boot" /\ todo' = {} /\ cur' = NoJob /\ stale' = {}
    /\ copy' = Nothing /\ backlog' = {}

\* The daemon dies and is started again; what it had read is gone.
Crash ==
    /\ Dies
    /\ UNCHANGED <<job, known, due, stage, hold, live, adopting, history>>

\* It dies while it parks, between the file of the cases and that of the jobs.
ParkBreaks ==
    /\ at = "park"
    /\ Dies
    /\ ParkCases
    /\ UNCHANGED <<job, known, due, live, adopting, history>>

-----------------------------------------------------------------------------
Round == \/ ParkRead \/ Park \/ Poll \/ Record \/ Notify \/ ReadHolds \/ Sleep
         \/ \E j \in Jobs : Execute(j)
         \/ \E c \in Cases : Release(c) \/ ReleaseLost(c)

Frontend ==
    \/ Learn
    \/ \E c \in Cases : \/ Begin(c) \/ Defer(c) \/ Ages(c) \/ Answer(c)
                        \/ EndRun(c) \/ Recover(c) \/ Responds(c) \/ Close(c)
    \/ \E j \in Jobs : Schedule(j) \/ Elapse(j)

Next == Frontend \/ Round \/ Crash \/ ParkBreaks

Spec == Init /\ [][Next]_vars

\* The daemon's loop never stops for long (every error in it is caught), and
\* a frontend that is asked again and again answers at last.
FairSpec == Spec /\ WF_vars(Round) /\ \A c \in Cases : SF_vars(Release(c))

-----------------------------------------------------------------------------
(* Properties                                                              *)

\* "THE WAIT IS A PROMISE, NOT A NOTE" (tools.py:889): a wake-up or a retry
\* that was executed has been reported to the frontend, which hands the case
\* back to the agent, or is about to be, unless the daemon died in between.
ExecutedIsTold ==
    \A j \in Jobs :
        job[j] = "completed" => j \in told \/ cur = j \/ crashes > 0

\* "An ended case keeps no timers" (tools.py:1128).
SettledKeepsNoTimers ==
    \A j \in Jobs : stage[CaseOf[j]] \in Settled => job[j] # "pending"

\* What holds of it: a closure, and a recovery that goes through
\* _mark_recovered, leave no timer of the case behind, however old the copy of
\* the table is by which they look for them.
EndingCancelsTimers ==
    [][\A c \in Cases : Recover(c) \/ Close(c) =>
          \A j \in JobsOf(c) : job'[j] # "pending"]_vars

\* A wake-up is executed once in a life of the daemon, whatever is written over
\* its status meanwhile; only a daemon that dies before it has recorded the
\* execution repeats it.
WakesFireOnce == \A j \in WakeJobs : fired[j] <= 1 + crashes

\* "Before the FIRST poll, so no backlogged wake can beat us to it"
\* (daemon_worker.py:350): a wake-up that the daemon shelved when it came up
\* is never executed, although the frontend writes the table by an older copy.
ShelvedWakesAreOver ==
    \A j \in WakeJobs :
        j \in shelved => job[j] = "cancelled" /\ j \notin todo /\ j # cur

\* Parked cases "will not wake into the live view" (daemon_worker.py:342):
\* the daemon starts no run on one.
ParkedIsNotWoken ==
    [][\A c \in Cases :
          stage[c] = "parked" /\ c \notin live /\ c \in live'
              => UNCHANGED daemon]_vars

\* No timer is forgotten: a job whose time has come is executed or cancelled,
\* however often the daemon dies.
DueIsServed ==
    \A j \in Jobs : j \in due /\ job[j] = "pending" ~> job[j] # "pending"

\* Waiting for an answer ends: a hold whose customer is gone is released by
\* the sweep, even if single requests are lost, unless the case is settled.
HoldIsReleased ==
    \A c \in Cases : hold[c] = "old" ~> hold[c] # "old" \/ stage[c] \in Settled
=============================================================================
