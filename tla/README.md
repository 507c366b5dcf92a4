# AutoRecover: TLA+ models, checks and proofs

AutoRecover recovers failed and abandoned payments. A checkout or a gateway
webhook reports a failure; an agent (a language model with tools) sends links
and messages, waits, retries and closes the case; batch runs apply one plan to
many similar cases. This directory holds TLA+ modules for the parts of it that
run concurrently or survive failures, the TLC configurations that check them
and the theorems that the TLA+ proof system checks. Paths below are relative to
`src/recovery_agent/` in the repository.

## 1. Inventory of the system

Four kinds of process share one directory of JSON files: the **frontend**
(Flask and Socket.IO, `async_mode="threading"`: every request handler and
background task is a thread), the **webhook receiver**, the **daemon**, and
offline scripts. They also talk over HTTP: the webhook and the daemon post to
the frontend.

| Component | State it keeps | Operations | Hard behaviour | What makes it correct |
|---|---|---|---|---|
| State store (`state_store.py`) | four JSON files; per process a copy and a shadow of them; a lock file | save, update, mutate in place, remove, schedule/complete/cancel/fail a job, flush, refresh | several processes with old copies; threads that mutate during a flush; failing writes; lock timeout; crash between files | recovered is absorbing; only own edits are written; edits are never overlooked |
| Hand-off (`frontend.py` 575-637, 1732-1793) | `handoff_*` flags on the record; `active_agent_payments` | observe a signal, flag it, wait for a busy case, run, give up | unlocked check-then-act; runs that hang; a timeout of 180 s | one run per case; one run per occurrence; no signal swallowed |
| Case handlers (`frontend.py`) | the payment record: status, closed, holds, push outcome | payment_failed, payment_succeeded, customer_responded, webhook_forward, drop_reason, watchers, label, close | pollers, webhook and browser race on one payment; a record replaced under a handler; end-of-run status | a settled case is not reopened; a recovery is counted once, and money that comes is counted |
| Daemon (`daemon_worker.py`) | the jobs table, the list it polled | park on boot, poll, execute, record, notify, sweep stranded holds | crash between execute and record; lost posts; jobs cancelled after the poll | waits are kept; an ending cancels the timers; a wake-up fires once; what was parked is not woken; holds end |
| Webhook receiver (`webhook.py`) | recent event ids | verify, deduplicate, forward in the background, purge | at-least-once delivery; an event is marked as seen before it is forwarded; restarts forget | an event that is accepted is processed, and processed once |
| Agent graph and gates (`agent/graph.py`, `policy_gate.py`, `guardrails.py`, `stopping.py`) | the conversation of one run | think, gate, call tools, critique, stop | turn limits, withheld tools, refused calls, model outage; one session over many runs | a run ends; nothing is done twice in it; what a cut run leaves does no harm |
| Tools (`agent/tools.py`) | the record, jobs, undelivered link | link, notify, retry, wait, close, escalate | a tool of a run that began before the case settled; a cap read before a message and counted after it | no contact after the money is in; the cap on messages |
| Ladder (`agent/ladder.py`, `classify.py`, `batch/tiers.py`) | rungs climbed | next rung, record rung | the kind of failure changes in mid-course | no rung repeats; the ladder ends |
| Agent queue (`batch/agent_queue.py`) | a bounded queue, the set of queued cases | submit, drain, work | submit races with workers | one place in line; nobody locked out; everyone is worked |
| Batch runs (`batch/run.py`, `executor.py`, `plan.py`, `planner.py`) | budget, spend, streak, decisions, abort flag; stamps on records | precheck, reserve, act, release, stamp, abort, close | workers share a budget; tools fail after a side effect; two runs meet | budget is never exceeded; no double contact; every case decided; the run ends |
| Wave cycles (`batch/waves.py`) | plans, runs, copies of records, exceptions | launch, work a wave by cause, champion, settle, abort, dispatch | decisions on copies; a champion's session that fails or hangs; abort while a run starts | no rung twice over all waves; every exception is taken up |
| Quotas (`ratelimit.py`, `email_quota.py`) | tokens; a daily count | take, refill, count | several processes, midnight | the limit holds |
| Escalation queue, presence, push, notifications | tickets, page presence, pushes | file, resolve, deliver | push answered after its timeout | an outcome is recorded once |
| Audit, costs, economics, evals, dashboard, clients, retrieval, memory | append-only files, statistics, I/O | - | - | not a protocol; not modelled |

The interactions that matter most: a handler or watcher *hands off* to the
agent (shared set and flags, section HandOff); a run *schedules jobs* that the
daemon executes and reports back, which is again a hand-off (DaemonJobs); a
batch run calls the agent's own tools and is one step of a wave cycle, which
refers what is left to the agent queue, whose runner enters the same set of
active cases (BatchRuns, Waves, AgentQueue); the webhook posts to the handlers
that book a recovery (Webhook, Settlement, Books); and everything goes through
the store (StateStore).

## 2. Modules

| Module | Models | Proved about in |
|---|---|---|
| `StoreValues` | what a key of the files may hold; the absorbing rule of a merge | |
| `StateStore` | `state_store.py`: copies, shadows, lock, flush step by step | `StateStoreProofs` |
| `EditLedger` | the abstract promise of the store: one ledger, processes publish their own edits | refined by `StateStore` |
| `HandOff` | flags, the active set and the threads of the frontend | `HandOffProofs` |
| `DaemonJobs` | jobs, daemon rounds, holds, and the frontend's side of them | `DaemonJobsProofs` |
| `AgentQueue` | `submit`, the workers, the depth of the queue | `WavesProofs` |
| `Waves` | wave cycles: causes, plans, champions, waves, abort, dispatch; EXTENDS `AgentQueue` | `WavesProofs` |
| `BatchRuns` | runs, workers, prechecks, budget, tools, stamps | `BatchRunsProofs` |
| `Ladder` | the ladders, what remains of them, what the tools record (`agent/ladder.py`, `classify.py`, the policy of offers); no state of its own | its lemmas in `CaseRunProofs` |
| `CaseRun` | one case from its failure to its end, run after run: the agent's tools, the judgement of a run, the net under it, the customer, the operator | `CaseRunProofs` |
| `AgentRun` | the graph of one agent: the runs of a session, the chain of models, the guard, the policy gate and approval, masking, the end | `AgentRunProofs` |
| `Webhook` | the receiver between the gateway and the frontend | |
| `Settlement` | how one case learns of money and failures and books a recovery; EXTENDS `Webhook` | `SettlementProofs` |
| `Books` | the abstract promise of the booking: one payment, credited once, of money that was taken | refined by `Settlement` |
| `MC...` | the small instances of each for TLC | |

Each module's first comment says which code it stands for. Operators whose
comment starts with "Defect:" are not part of any specification: each is the
operator after it with one plausible bug, and serves to see that the properties
notice.

### StateStore

One action per operation of the store; `flush` is five steps, because threads
that mutate a record take no lock and because the process can die anywhere:
`FlushBegin` (lock file), then for each file `FlushMerge`, `FlushWrite`
(`os.replace`) and `FlushShadow`. `mem`, `shadow`, `disk` and `lock` are the
code's `_payments` and its siblings, `_shadow`, the files and `.store.lock`.
`edited` and `seen` are history variables: what threads of the process changed
since the last write, and what the files held when the process last read or
wrote them. A payment is its status, whether the capture fields are there, and
an opaque note for everything else; the three other tables are opaque entries.

Three assumptions are constants: `RacyThreads` (in-place mutation during a
flush, which the code allows), `LockTimeouts` and `WriteErrors`.

### HandOff

A thread is at one of six places of `_handoff_to_agent` and
`run_agent_for_payment`: `flag` and `add` are inside a check-then-act window,
`enter` and `retest` are the two looks at the active set, `wait` is the loop
that ends when the case is free or after 180 seconds (so it may end at any
time), `run` is a run in progress. `Start` is a start without hand-off. The
first run of a signal that says the money is in (`Closing`) is allowed on a
recovered case, as in the code. Threads move freely inside the windows, as they
do in the code; `crowded` and `doubled` are history and say for which cases and
occurrences two threads have met in one.

### DaemonJobs

`Round` is `daemon_loop`: `ParkRead` and `Park` on boot, `Poll`, then `Execute`,
`Record` and `Notify` for each job, then the sweep of holds. Parking reads the
records and writes them back later, the cases first and then the jobs
(`ParkBreaks` dies between the two files), so that the frontend may overtake it.
The frontend has its own copy of the jobs (`known`), learns of the daemon's
writes when it flushes, and overwrites what it changed. Its side is `Begin`,
`Defer`, `Answer`, `Schedule`, `EndRun` (which registers a run's retry once more
and may write a status of its own, `Ends`), and the endings: `Recover`
(`_mark_recovered`) and `Close` (`close_case` and the operator) cancel the jobs
of the case, `Responds` (`customer_responded`) and an escalation cancel none. A
tool of a run that is under way may schedule a job on a case that has just
settled. `fired` and `shelved` are history. Constants: `LossyPosts`, `MaxCrashes`.

### AgentQueue

`submit` is three steps (`Look`, `Put`, `Mark`), as its lock is released in
between; a worker takes, begins a session or passes over a case that a live run
holds, and leaves. Others move in between; `raced` is history and says for which
cases somebody got into the window of their submit.

### Waves

A cycle is a submitter of `AgentQueue`, so that the queue's own actions are
those of the composition. It goes through its launch (`Launch`), the top of each
wave (`WaveBegins`, which copies the open cases), its causes one by one
(`NextCause`: a fitting plan, the planner's default, or a champion), a champion's
session (`ChampionEnds`, `ChampionTimesOut`), a run (`RunBegins`, one `Work` per
case, `RunEnds`), the wait for money (`WaveEnds`) and the dispatch of the
exceptions (`Dispatch`, `Submit`). `Abort` may come at any time and stops the
runs that are listed; `late` counts the runs begun after it. `reached` is what
runs have climbed, over all waves, `refused` what a full queue has turned away.
`AgentClimbs`, `Pays`, `Closes` and `FailsAgain` happen to a record while a cycle
reads the cases (`Followed`); a failure for another reason moves the case to
another cause (`Turns`), whose plan knows nothing of it. A run's work on one case
is one step, `BatchRuns` has it step by step; a cause has one band; the labels
an operator may give to a case are left out, and `Launch` tests for a live cycle and
registers its own in one step. `LiveRunBegins` of the queue is not part
of the composition, since champions hold their cases as live runs do.

### AgentRun

A run is a walk through the nodes of the graph: `agent` (one model of the
fallback chain after the other), `guard` (cycles, repeated calls, the limit of
turns, blocked rounds), `policy` (frequency cap, gap, amounts, declines),
`approval`, `tools`, `mask`, `stopping`, `critique`. What the model proposes is
arbitrary (`Proposes`), and so are its failures. A session outlives its runs:
`names`, `dangling` and `plain` are what later runs find in its
messages, everything else begins `Afresh`. `asked` and `count` are the code's
`tool_call_history`; `done` is what was executed. A message goes out (`Sends`) and
is counted in the customer's profile afterwards (`Counts`), by code that swallows its
errors, so that a crash or an error in between loses the count; a later restart may
lose it too (`Forgotten`). `own` has the session's messages of the day: `counted`,
let through `unread` (`Policy` with a profile that could not be loaded), or `lost` to
the profile. `others` are the messages of other cases of the customer, any number of
which may be past their look at the cap at once, and of batch runs, whose look is at
an empty store. Which tools are offered and what they do to the case: `CaseRun`.

### Webhook, Settlement and Books

The receiver answers the gateway, marks the event and forwards it in a thread of
its own (`Receive`, `Arrive`, `ForwardFails`); the gateway delivers up to
`MaxDeliveries` times in any order, and ids are forgotten after 24 hours or with the
process (`Restarts`).

A watcher and handlers are threads: `watch` polls, `mark` is between the test
and the write of `_mark_recovered`, `count` between its write and the audit log,
`clean` inside the handler of a clean sale. Five roads lead to the record: the poll,
the browser's report and the webhook, which end there, the customer's click
(`Claims`), which sets the status by itself or, if the order is not paid, leaves an
entry in the trail, and the failure report of the page. The gateway may capture the
payment that failed before the frontend has heard of the failure; `unknown` keeps the
captures that found no case. A run may end with a status of its own, or raise, which
writes `failed` in place (`RunRaises`) until its flush has merged it with the file
(`RunRaisedFlush`; `fault` is what the file has). `touched` says whether the case has
a failure code, a ladder or a trail, as `_never_entered_recovery` asks. The record is
without a lock: `RacyThreads` lets threads move inside the windows, `Detached` lets a
flush replace the record under `mark`. `origin` says whose name the case has. `booked`
and `entries` are the recovery entries of the audit log. `Settlement` implements
`Books` with `taken` being what the gateway has captured.

### BatchRuns

A worker goes through `Pick`, `Precheck`, `Reserve`, then `CreateLink` and
`Notify`, or `Notify`, or `Retry`, then `Rung` and `Stamp`. A tool may report an error
after the gateway has acted, and with `ToolsRaise` it may raise. A message is out
before its rung is recorded, by a function that swallows its errors, so that the rung
may be `lost`. `linked` and `sent` are what was really done, `spend` what the run
believes. Runs may be live together and some work on copies (`Copies`); `unaware` says
where a run chose a case and could not see what another was doing to it. What a
precheck decides on grounds that are not modelled (contact missing, quiet hours, an
approval) is left open, in the order of the code. Bands are worked in any
order, a generalisation of the code's order. The plan of a case is a constant;
that it fits only the rung it was made for is `climbed`.

### Ladder and CaseRun

`Ladder` is pure: operators on a case record. A failure's kind is where the
codes and texts lead (`failure_kind`); the model starts with the kind and keeps
the precedence of label over answer over codes. A link is its price and an
opaque set of rails (`FullRoutes`, `LessRoutes`).

In `CaseRun` the language model proposes a tool (`Choose`) and the tool runs in
a later step, since whatever the customer does in between is what
`_still_worth_doing` is for. Any tool that is bound may be proposed in any
order; guards, policy and approval gate may refuse any call (`Refuse`), which
is more than they do. A refusal still counts as an attempt, and a refused wait
or closure still ends the turn, as in the code. `sess` is what the conversation,
which lasts over all runs of a case, holds of attempts; `run.seen` is what the
case object of this run knows of it, as it learns of attempts only when a tool
has run. `EndRun` is the whole end of a run: the stopping rules (`Stops`,
`CaseStatus`), `_select_primary_action` (`Primary`), the status written
(`FinalStatus`, `Judged`), the harness's closing of a paid case (`EndSettled`)
or the net (`CastNet`): the next rung handed over, or a ticket. `WithStatus` is
`update_payment`: nothing is written over `recovered`.

`due` is what will be heard of the case: a wake-up, a watch of a link or order,
the answer to a push. `queue` holds hand-offs that were accepted; one run at a
time, as `HandOff` has the rest. All statuses that mean the same to the code
(`recovering`, `scheduled`, `awaiting_customer`, `completed`) are `working`.
Constants say which customer and deployment it is (`Email`, `Phone`, `VoiceOn`,
`RetryAllowed`, `CallPays`, `Causes`, `Walks`, `Lives`, `Said`, `Marked`), and
`Known`, `MaxTurns`, `MaxRuns` bound the agent.

## 3. Checks

| Run | What it shows |
|---|---|
| `store` | every interleaving of two processes: recovered stays recovered and keeps its capture fields, only own edits reach the disk, the store implements `EditLedger` |
| `store_disturbed` | with failing writes and unmerged flushes after a lock timeout, a local change is still never mistaken for what is on disk |
| `handoff` | threads move inside the unlocked windows and runs may hang: two runs meet, or an occurrence is heard twice, through such a window and in no other way; no signal is swallowed, every hand-off is answered |
| `daemon` | one case with two wake-ups and a retry, every ending, parking by an old copy, a crash, lost requests: a wake-up is executed once in a life of the daemon, one that was shelved when it came up never, and a closure or a booked recovery leaves no timer |
| `daemon_live` | lost requests, holds, a retry and a wake-up, a crash: due jobs are served, stranded holds are released |
| `waves` | a cycle of two waves over two cases and two causes, champions, customers, a person who stops it and a queue of one place: who is in `seen` has a place, no run repeats a rung, a stopped cycle begins one run more at most, every exception is taken up |
| `batch` | two workers, four cases, one link in the budget, which two of them want: the books cover what was done, the failure streak is bounded, the run ends |
| `batch_again` | two runs that may overlap, one of them on copies, beside the live agent, tools that raise: both send to a case only if a rung was lost or hidden when one of them looked |
| `case` | an abandoned checkout over two runs, with a push, banners at full and lower price, links, mails and a call: whenever the customer pays, nothing that was already proposed reaches them, and once the agent is at rest the case is closed |
| `case_retry` | an empty account or a risk flag, with retries, answers, labels, a tab that opens and closes and runs that raise: only a case with nothing left to try gets a ticket, from the agent or from the net; `recovered` is read exactly of paid cases, and closures are backed by money or a ticket |
| `settle` | news of money on five roads, twice, late, lost or ahead of the failure, with restarts of frontend and receiver and runs that raise: the refinement of `Books`; what is booked was in danger, belongs to one who has bought before or clicked too early; the case then reads recovered but for one flush; and money through a link is booked at last unless its capture found no case |
| `agent_run` | any number of runs of a session: no run executes a call again, the session keeps to the cap but for messages let through unread or missing from the profile, every run ends |

**Bounds.** Two processes are enough for the store, since every hazard is
between one process and the state another left on disk; one payment key with
two notes separates own from foreign edits, and a flush walks two files. TLC
treats the two processes as symmetric there, which all of its properties are.
(That other keys and more files change nothing is proved, section 5.) One case
and three threads let a run be under way while two hand-offs meet; more cases
only multiply, as a thread has one case. The daemon's cases meet nowhere but in its
list, so one case with several jobs is enough. In `waves` one cycle suffices, as cycles meet only in the
queue; two cases of one cause need a champion and somebody who follows it, a
failure that turns into the other cause meets a plan made before, two waves
meet the rungs of the first, and a queue of one place with one worker is full
with the second exception. (`MCAgentQueue.cfg`, kept beside the runs, has two
submitters, two workers, two places and three cases, and also checks
`ReferredIsWorked`; there two submits of one case meet, in `waves` only a worker can
outrun a submit. It takes three minutes with four workers.) For `settle` an order, a link and the failed
payment itself are three pieces of money; a watcher and two handlers
let the news of any of them meet, and two deliveries make a duplicate after
the receiver has forgotten. `agent_run` takes limits smaller than the code's
(`MaxTurns` 4, `CycleSpan` 2, `DoomLimit` 2, `ErrorLimit` 1, `MaxContacts` 1, two
models): each is met within a few turns and nothing depends on its
value. In `batch` two cases contend for the one link while a third is retried
and a fourth has no plan (a plan that only sends a message differs from one with a
link in its first step); the caps on emails and cases are kept by the same check. A case is followed over two runs and three or four proposed
tools: each hazard is between one proposal and what happens before it is
carried out, or between the end of a run and the start of the next, and four
proposals reach the third attempt, at which the stopping rules begin to bite.
`Known` leaves to each of the two runs the tools its question is about; between
them every tool is proposed and carried out. Counters that grow are bounded by name:
`MaxTurns`, `MaxRuns`, `MaxCrashes`, `MaxWaves`, `MaxDeliveries`, histories that count
to two (`heard`, `reached`, `late`, `entries`), `MaxExtra` (messages of others, or
missing from the profile, in a day), and the budget's caps.

**Fairness.** `HandOff` assumes that the operating system runs threads (weak
fairness of each), and nothing of a run: it may never finish. `DaemonJobs` assumes
that the daemon's loop goes on (each error in it is caught, `daemon_worker.py`
346-379) and that a request that is made again and again is answered at last
(strong fairness of `Release`). `AgentQueue` and `Waves` assume that submits and
cycles go on and that sessions of the queue end; a champion's may hang, as
the cycle stops waiting for it. `Settlement` assumes that the gateway delivers,
that a capture that arrives again and again is handled (strong fairness of
`HookCaptured`, since windows are undisturbed there), and that a handler's thread and
a run that has raised get to their end; nothing is assumed of the customer, the agent or the
watcher, whose window may close. `AgentRun` assumes that the thread of a run
runs, and nothing of when one begins.
`BatchRuns` assumes that the pool's threads run and that every tool returns or
raises, as the clients have timeouts.

`CaseRun` assumes no fairness: its properties are of safety, and states
with nothing under way (`Idle`) stand for what a liveness property would ask.

**Deadlock** is checked for the store, the hand-off, the daemon, the queue and the
graph of the agent. In `BatchRuns`, `CaseRun`, `Settlement` and `Waves` a fixed set of
runs, a case, a payment or a cycle comes to an end, and the model then stops, as it
should; the liveness properties say where it may stop.

## 4. Where the code and its own words differ

Each of these is a configuration that TLC answers with a counterexample, or a
change to one: `tlc -config <cfg> <module>` with the property, and where it says
so the constant, written into the cfg (of a configuration with several
properties, that property alone). They are kept beside the runs.

| Configuration | Property violated | In short |
|---|---|---|
| `MCCaseRun_silent` | `EscalatedHasTicket` | a refused escalation counts as one for the stopping rules |
| `MCCaseRun_dropped` | `FailedIsPickedUp` | a run handed back after `failed` has bookkeeping tools only on its first turn, and its rung is handed over once |
| `MCCaseRun_written_off` | `PaidIsNotWrittenOff` | closing as unrecoverable does not look at the money |
| `MCCaseRun_overwritten` | `ClosedKeepsOutcome` | the end of a run writes over the status its own closure set |
| `MCCaseRun_retry`, checking | `NoTimersOnceClosed` | a closing run sets a wake-up on a closed case |
| `MCStateStore_racy_absorbing` | `RecoveredIsAbsorbing` | an in-place `failed` inside a flush undoes a recovery |
| `MCStateStore_racy_seen` | `EditsAreSeen` | a change between write and shadow is never written |
| `MCStateStore` with `WriteErrors = TRUE` | `OnlyEditsAreWritten` | after a failed write, merged foreign values count as own edits and are written back later |
| `MCHandOff_two_runs` | `OneRunAtATime` | unlocked test and add of the active set |
| `MCHandOff`, checking | `HeardOnce` | unlocked test and set of an occurrence's flag |
| `MCHandOff_closed` | `ClosedStartsNoRun` | a queued hand-off does not ask again whether the case was closed |
| `MCDaemonJobs_lost_wake` | `ExecutedIsTold` | a job is completed before the frontend is told |
| `MCDaemonJobs`, checking | `ParkedIsNotWoken` | parking leaves the hold, which the sweep releases, and a job set between its read and its flush |
| `MCDaemonJobs`, checking | `SettledKeepsNoTimers` | the customer's click, an escalation and the end of a run cancel no jobs; a wait is set on a case that has just settled; a cancelled retry is registered again |
| `MCAgentQueue_twice` | `OnePlaceInLine` | two submits of one case at once |
| `MCAgentQueue_twice`, checking | `NotLockedOut` | the case is done before it is marked as queued |
| `MCAgentQueue`, checking | `ReferralIsKept` | a referral is dropped while a live run holds the case |
| `MCBatchRuns_overlap` | `SentOnce` | the stamp comes after the action |
| `MCBatchRuns_stale_copy` | `PlanFitsWhenChecked` | a wave decides on copies |
| `MCBatchRuns_abort` | `AbortedBeginsNothing` | abort is asked for once, before the prechecks |
| `MCBatchRuns_again` with `Cases = {c4}` | `ActedHadEffect` | a refused retry counts as acted |
| `MCWaves`, checking | `TreatedOnce` | a champion whose session teaches nothing is worked again by the run |
| `MCWaves`, checking | `EndedIsLeftAlone` | a case closed or escalated since the wave began is still contacted |
| `MCWaves`, checking | `RetryIsWaitedFor` | a case whose retry is scheduled is referred to the agent |
| `MCSettlement` with `RacyThreads = TRUE` | `BookedOnce` | test and write of `_mark_recovered` without a lock |
| `MCSettlement` with `Detached = TRUE` | `BookedOnce` | `recovered` is written to a record a flush has replaced |
| `MCSettlement`, checking | `RecoveredIsBooked` | the customer's click sets `recovered` past the books |
| `MCSettlement`, checking | `RecoveredStartsNoRun` | a late `payment.failed` starts a run of a recovered case |
| `MCSettlement`, checking | `SalesAreNotBooked` | a late failure report takes up a sold checkout, whose watcher then finds the order paid |
| `MCSettlement`, checking | `SalesAreNoRescues` | a click before the order is paid leaves a trail, and the sale is booked as a recovery |
| `MCSettlement`, checking | `EveryCaptureFindsItsCase` | a capture that overtakes its failure is answered `unknown_case` and not sent again |
| `MCSettlement`, checking | `RecoveredIsAbsorbing` | a run that raises writes `failed` over a recovery until its flush |
| `MCSettlement` with `Orders = {"o1", "o2"}`, `Claims = FALSE` | `OnlyFailuresAreRescued` | a customer's second purchase is booked as a recovery |
| `MCSettlement` with `Orders = {"o1", "o2"}` | `PaidOrderIsKnown` | a new order replaces one that was paid |
| `MCAgentRun`, checking | `HistoryIsWellFormed` | a call without an answer stays amid the session |
| `MCAgentRun`, checking | `CutForItsOwnCalls` | cycles are looked for in the calls of earlier runs too |
| `MCAgentRun`, checking | `ErrorsStopTheRun` | masked errors no longer parse, so none is counted |
| `MCAgentRun`, checking | `OutageIsAnswered` | the last model's outage is not answered |
| `MCAgentRun`, checking | `CapIsACap` | other cases pass their look together, and a batch run looks at an empty store |
| `MCAgentRun`, checking | `SessionKeepsTheCap` | a message is counted after it is out, with errors swallowed; a profile that cannot be loaded passes |

Where the code does keep a part of what it says, a passing run has that part: that
two runs meet *only* through the unlocked window (`RunsMeetByRace`), that an
occurrence is heard twice only so (`HeardTwiceByRace`), which endings cancel their
timers (`EndingCancelsTimers`), what is never woken (`ShelvedWakesAreOver`), when a
case can be in line twice or locked out (`SeenHavePlaces`), when two runs send to one
case (`SentTwiceUnseen`), what besides rescues is booked (`BookedIsRescued`), which
money is not (`MoneyIsBooked`), and by how much a session misses the cap
(`CapHolds`).

## 5. Proofs

`StateStoreProofs` is about any set of keys, any number of files and any
processes. Assumptions on the constants: every key belongs to a file, `Absent`,
`Free` and `Unedited` are distinguishable from entries and processes.

- `TypeCorrect`: the types, whatever disturbs a flush.
- `FlushAbsorbs`: if threads do not race inside flush and the lock is waited
  for, then `LockInv`. The disk can only be protected if what a flush is about
  to write has absorbed the disk *as it is now*; that needs the lock (nobody
  else writes meanwhile) and the control state (between merge and write). The
  three conjuncts of `LockInv` say exactly this for each place of a flush.
- `StoreInvariant`: if in addition writes succeed, `StoreInv`, which adds that
  what differs from a process's view was edited by it. It is not true after a
  failed write, as `MCStateStore` with `WriteErrors = TRUE` shows.
- `RecoveredAbsorbs`, `OnlyEdits`: the two safety properties as action
  properties, from those invariants. `RecoveredAbsorbs` holds with failing
  writes too.
- `StoreImplementsLedger`: every step of the store is a step of the ledger or
  a stutter. A process's pending edits are what differs from its *view*: the
  file itself under its lock between merge and shadow, its shadow otherwise.
- `EditsSeen`: `EditsAreSeen`, unless threads race inside flush; flushes may
  give up on the lock, writes may raise and processes die. `SeenInv`: the
  shadow *is* the disk as the process last saw it, except between the write of
  a file and its shadow, when what it saw is what it wrote.
- `CaptureStays`: `CaptureIsKept`, under the conditions of `RecoveredAbsorbs`.
  What is recovered carries its capture, on disk and in every copy
  (`CaptureInv`), and what is recovered stays so.

`HandOffProofs` is about any cases, signals and threads, and assumes
nothing of the threads.

- `TypeCorrect` and `NothingIsSwallowed`: `NotSwallowed` is inductive together
  with the types.
- `RunsMeetOnlyByRace`: `RunsMeetByRace`. Of a case that is not `crowded` one thread
  at most is about to add it or at its run, and from the moment the run begins the
  case is in the active set (`RunInv`). What has to be seen is that a case is
  cleared only when nobody holds it, so that a hung run, a wait that timed out or a
  reopened case cannot leave the guard broken behind them.
- `HeardTwiceOnlyByRace`: `HeardTwiceByRace`. An occurrence that is not `doubled` is
  carried by one thread and unheard until its run starts, and from then on its flag,
  or the fact that its event has passed, keeps it from coming again (`HeardInv`).

`CaseRunProofs` is about any ladder, customer, operator and number of runs.

- `ClaimsBacked`: `ClaimsAreBacked`, whatever tools are proposed, whether runs
  raise or not. It is not inductive as it stands: a run copies the status of
  its case when it begins and may end the case with it. `SoundInv` adds that a
  run which carries *recovered* works on a case that was paid. The tools that
  climb the ladder, record contacts and set timers touch no field an ending is
  read from (`Same`), so that one lemma covers them all; what is left is the
  payment, the label, the closures, the net and the end of a run.
- `PaidIsLeftAlone`: `PaidNotContacted`. The invariant needed is only that no
  step drops a field of the record (`ShapeInv`); the rest is one lemma for the
  tools, one for the end of a run and one for everybody else.
- `TicketIsLast`: `TicketComesLast`. The net asks of the record with the status
  it has just written, the property of the one before: `LadderOfFields` shows
  that the answer depends on the fields of the ladder alone.
- `TypeCorrect`: the types. Everything but one field follows step by step; that a
  hand-off of the net is one the harness knows needs `NextRungIsRung`, and so
  lemmas on `Ladder`: every kind, label and answer leads to a ladder of rungs,
  from whatever rung the answer enters it, and the first that is open is one.
- `PaidIsClosed`: `PaidGetsClosed`, of a customer with an address or a number
  and of runs that do not raise (`RunFails` drops the hand-off of the payment).
  `PaidInv`: only a payment is handed on as *recovered*, so that this hand-off is
  never refused as seen before; and while a paid case is open its hand-off
  waits, or the run it began is under way. That the net never uses up that
  hand-off is where the types come in.

`SettlementProofs` is about any orders, links, watchers, handlers and numbers of
deliveries.

- `TypeCorrect`: whatever races and whatever is lost. The number of forwards
  under way is bounded only because no more are than deliveries were made.
- `BooksAreRight`: with the window of `_mark_recovered` undisturbed and no record
  replaced under it, news is true on every road (`NewsIsTrue`: what is reported was
  paid), and `BookInv`: whoever is before the write finds the case open and is
  alone there, whoever is after it is alone and nothing is booked yet.
- `SettlementKeepsBooks`: from these, every step is a step of `Books` or a stutter.
- `RescuesAreBooked`: the two parts of `BookedIsRescued`. `OnlyRescuesAreBooked` holds
  whatever races: a payment is booked by one of three roads, and each begins with
  something that is there only after a failure, a sale or an early click (`RescueInv`:
  a status, a trail, a run, a held case, a watcher). `BookedReadsRecovered` needs the
  window of `_mark_recovered` undisturbed; while a run that has raised flushes, the
  file still has the status.

`DaemonJobsProofs` is about any cases, jobs and owners of them, any number of
crashes, and a copy of the frontend that is as old as you like.

- `TypeCorrect`: the types; the daemon has a job in hand while it records and
  notifies.
- `EndingsCancel`: `EndingCancelsTimers`. A case is ended on the frontend's copy of
  the jobs, which may be old; the invariant says why that is enough: only the
  frontend makes a job pending, so its copy never lacks one (`PendingIsKnown`).
- `WakesFireOncePerLife`: `WakesFireOnce`. A wake-up that was executed and recorded
  cannot become pending again, whichever table is written over it, and one that was
  executed and not recorded is in hand, or was lost to a crash.
- `ShelvedStaysShelved`: `ShelvedWakesAreOver`. The daemon parks before it polls, so
  its hands are empty then (`EmptyAtBoot`), and no writer makes a wake-up that was
  cancelled pending.
- `ExecutedIsHeard`: if requests are not lost, the frontend hears of every job
  that was executed and written down, but for a crash in between.

`BatchRunsProofs` is about any batch, plan, caps, pool and runs. Beyond the types of the
constants it assumes that batch and pool are finite (a batch is a list, a pool has a size).

- `TypeCorrect`: the types say that no cap is exceeded. The subtractions of a
  release are safe because what a worker has in hand is an undecided case of its
  own, which nobody else has (`HandsInv`), and a streak is no longer than the
  number of exceptions.
- `StreakStops`: `StreakIsBounded`; a case is picked only below the limit, so
  streak plus hands in flight stay under limit plus workers (`StreakInv`).
- `NobodyIsDropped`: `EveryCaseIsDecided`, which is proved and in no run; a case of a run that has begun is paid,
  to be picked, in a hand, or decided, and a run is over only with an empty
  list and idle hands.
- `BudgetIsKept`: even with tools that raise, what was done is covered by what
  was taken. `BooksInv` counts sets: what was done joined with what is in hand is
  at most what the three counters say, and equal to it as long as nothing raises;
  each step moves a case from one of these sets to another. `BooksMatch` is
  `BooksAreTrue`, of tools that report their errors.
- `SecondSendsAreBlind`: `SentTwiceUnseen`, of any runs, overlapping or not, on
  records or copies. What a run sent has climbed its rung, has lost it, or is still
  in a worker's hand before it; so whoever sends later chose the case without having
  seen that. (`SentOnce` itself is false, section 4.)

`AgentRunProofs` is about any calls over the tools the graph knows, any chain of
models and any limits.

- `TypeCorrect`: the types, with the fact that behind the guard there is a call.
- `CapIsKept`: `CapHolds`. The counted messages of the session never exceed the cap:
  a look is passed only while the profile, which has at least these and may have
  others' too, is below it, and between look and count nobody else counts for this
  session. What is not counted is what the property allows for.
- `LoopsEnd`: `LoopsAreCut`, both parts. The guard records a call before it runs, so
  that what was executed is recorded, and of a tool behind the guard the
  count is one ahead of what was executed (`LoopInv`).

`WavesProofs` is about any cases, cycles, workers, waves, ladders and plans, with and
without champions. Ladders are assumed to be sequences of rungs.

- `QueueSeenHavePlaces`, `SeenHaveTheirPlaces`: `SeenHavePlaces` of the queue alone and
  under the cycles, with any submits under way. Of a case that was not `raced`, one
  submit is under way at most, what it is about to put in line is not in `seen`, and
  what it has put there is not entered yet (`QueueInv`). The second theorem uses that
  no step of a cycle touches the queue except as a submitter.
- `TypeCorrect`: the types of cycles, records and copies, whatever the queue does.
- `AbortIsHeard`: `AbortLetsOneThrough`; the run that slips through was launched
  from the causes of a wave, and only while none had (`AbortInv`).
- `RungsAreClimbedOnce`: `RunsRepeatNothing`. One cycle runs at a time; a rung that a
  run has climbed stands in the record, and also in the copy by which the cycle
  works, for as long as the case is still before it in that wave. The copies are
  as old as the wave, so `CopiesKnow` is about the cases to come only, and
  `ToCome` says which these are: of a run's list, of the causes that are left,
  and those that follow a champion.

Only model-checked: liveness (`HandOffIsAnswered`, `DueIsServed`, `HoldIsReleased`,
`ExceptionIsHeard`, `ReferredIsWorked`, `RunEnds`, `MoneyIsBooked`), which is outside what
the installed provers can do, like `ENABLED`. Every invariant and every action property
a run checks is the conclusion of a theorem. Some have a condition the run makes too:
no write into a flush of the own process, writes that succeed, the window of
`_mark_recovered` undisturbed, tools that report, runs that do not raise. Most of these conditions cannot be dropped: section 4 has counterexamples, and
`MCCaseRun` with `MayFail = TRUE` violates `PaidGetsClosed`, as `MCBatchRuns` with
`ToolsRaise = TRUE` violates `BooksAreTrue`.

## 6. Not modelled

Readers that see an empty table during a merge need records with identity. So
do handlers that hold a record the store has replaced, which `Settlement` has for
the one write it matters to most (`Detached`). Two cases of one payment, the
page's and the twin the webhook opens under the gateway's name, are not yet
modelled together. Of wave cycles the operator's labels and several bands of a cause
are left out. The content of messages, prompts, the reading of failure codes, retrieval,
economics, audit and the clients of the gateway, mail and voice services are
data or I/O: the models above let their calls succeed, refuse or raise.
Signature checking and authentication are not modelled.

Some steps are coarser than the code. `Waves.Launch` tests for a live cycle and
registers its own at once (`frontend.py` 1269 and 1303): two requests within that
window would run two cycles, which `RunsRepeatNothing` does not survive. In
`BatchRuns` an error between the dispatch of a message and the tool's answer
(`tools.py` 1742-1791, where only conversions can raise) is left out; `AgentRun` has it. `AgentRun` has one call in a message, as the model
is bound without parallel calls, so that the guard's path for a message some of whose
calls are blocked does not occur. `Ladder.PursuitBarred` and `KindOf` start from what
the words of a failure mean, not from the words.

`PaidNotContacted` leaves out the push, the retry and the recording of a
route: `send_page_push` and `retry_in_hours` do not call `_still_worth_doing`,
so that a paid customer may still see a push or have a retry scheduled.

## 7. Plan

Done, in this order: the store with its abstract ledger and its proofs, the
hand-off with its proofs, the daemon's jobs, the agent queue, batch runs, the
ladder and the life of a case under the agent with its proofs; then the receiver and
the booking of recoveries with its abstract books and its proofs, the graph of the agent, and
the wave cycles over the queue; then the proofs of the jobs, the runs, the graph, the queue
and the cycles, and of the types and the closing of a case.

Next:

1. Proofs: `Books` and `EditLedger` keep what they promise, as
   theorems of their own.
2. Lemmas on `Ladder`: climbing a rung other than the call never adds to what
   remains; a vetoed offer never remains; an exhausted case stays exhausted.
3. Two cases of one payment in `Settlement`: the case of the page and its twin.
4. An abstract specification of a case (open, with a person, closed, paid) that
   `CaseRun` implements, and customers worth an instance of their own: a phone
   only, calls switched on for an amount too small for one, links spent after
   the call: in each a rung stays in `Remaining` that can never be climbed.
5. Small modules: the token bucket of the gateway client, the daily email quota
   over several processes, the escalation queue.

The number of runs that is worth keeping small is shared by all of these; where
the code and its words differ, section 4 has the configuration, which stays
documented there.
