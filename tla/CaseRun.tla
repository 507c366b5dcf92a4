------------------------------ MODULE CaseRun ------------------------------
(***************************************************************************)
(* One case from its failure to its end, run after run of the agent        *)
(* (frontend.py, agent/graph.py, agent/stopping.py, agent/tools.py).       *)
(*                                                                         *)
(* The agent is a language model: it may propose any tool that is bound,   *)
(* in any order.  What the code decides is which tools are bound, what a   *)
(* tool does or refuses, how a run is judged when it ends, and what starts *)
(* the next one.  A call is proposed in one step and carried out in a      *)
(* later one, so that the customer may act in between.                     *)
(*                                                                         *)
(* Two hand-offs that meet are HandOff's subject, the timers of the daemon *)
(* are DaemonJobs'; here a hand-off waits until the run before it is over. *)
(***************************************************************************)
EXTENDS Ladder

CONSTANTS RetryAllowed,  \* the policy lets this failure be charged again
          CallPays,      \* the amount is worth a call
          Causes,        \* the kinds of failure the case may start with
          Walks,         \* may the customer have seen the methods and left?
          Lives,         \* may the customer be on the page, and off it?
          Said,          \* answers the customer may give
          Marked,        \* labels the operator may give
          MayFail,       \* may a run raise an error?
          Known,         \* bound: the tools the agent proposes
          MaxTurns,      \* bound: proposals of the case, in all its runs
          MaxRuns        \* bound: runs of the case

ASSUME RunAssumption ==
    /\ {RetryAllowed, CallPays, MayFail} \subseteq BOOLEAN
    /\ Causes \subseteq Kinds /\ Walks \cup Lives \subseteq BOOLEAN
    /\ Said \subseteq Answers /\ Marked \subseteq Labels
    /\ MaxTurns \in Nat /\ MaxRuns \in Nat

VARIABLES rec,     \* the case record, on the store
          ticket,  \* is there a ticket for a person?
          sess,    \* what the session, over all runs, holds of attempts
          run,     \* the run in progress
          due,     \* what will be heard of the case later
          queue,   \* hand-offs accepted, their run not begun
          runs,    \* how many runs were begun
          turns    \* how many tools were proposed

vars == <<rec, ticket, sess, run, due, queue, runs, turns>>

Attempts == {"push", "notify", "voice", "retry", "escalate"}
Contacting == {"push", "notify", "voice"}
Tools == Attempts \cup {"link", "banner", "quote", "wait", "close", "look"}

\* What starts a run; a rung stands for the hand-off ladder_<rung>.
Once == {"followup", "answer", "recovered"} \cup Rungs
Scenarios == Once \cup {"start", "push", "wake", "failed"}

MaxAttempts == 3
NoAttempts == [n |-> 0, last |-> "none", ok |-> FALSE, esc |-> FALSE]
Session == [n : 0..MaxAttempts, last : Attempts \cup {"none"},
            ok : BOOLEAN, esc : BOOLEAN]

Statuses == {"working", "failed", "escalated", "recovered", "unrecoverable",
             "settled_outside"}
Outcomes == {"recovered", "escalated", "unrecoverable", "settled_outside"}

NoRun == [on |-> FALSE, was |-> "working", acted |-> FALSE, active |-> FALSE,
          tool |-> "none", link |-> "none", quoted |-> FALSE,
          did |-> {}, over |-> FALSE, seen |-> NoAttempts]

Run == [on : BOOLEAN, was : Statuses, acted : BOOLEAN, active : BOOLEAN,
        tool : Tools \cup {"none"},
        link : {"none", "full", "less"}, quoted : BOOLEAN,
        did : SUBSET {"push", "link", "notify", "retry", "escalate", "close"},
        over : BOOLEAN, seen : Session]

CaseRecord ==
    [cause : Kinds, label : Labels \cup {"none"},
     answer : Answers \cup {"none"}, walked : BOOLEAN,
     climbed : SUBSET Rungs,
     tried : SUBSET (FullRoutes \cup LessRoutes \cup {"contact"}),
     spent : BOOLEAN, optedOut : BOOLEAN, live : BOOLEAN, retry : BOOLEAN,
     status : Statuses, paid : BOOLEAN, closed : Outcomes \cup {"no"},
     awaiting : BOOLEAN, handed : SUBSET Once]

TypeOK ==
    /\ rec \in CaseRecord
    /\ ticket \in BOOLEAN
    /\ sess \in Session
    /\ run \in Run
    /\ due \subseteq {"wake", "watch", "push"}
    /\ queue \subseteq Scenarios
    /\ runs \in 0..MaxRuns /\ turns \in 0..MaxTurns

Init ==
    /\ rec \in [cause : Causes, label : {"none"}, answer : {"none"},
                walked : Walks, climbed : {{}}, tried : {{}},
                spent : {FALSE}, optedOut : {FALSE}, live : Lives,
                retry : {FALSE}, status : {"working"}, paid : {FALSE},
                closed : {"no"}, awaiting : {FALSE}, handed : {{}}]
    /\ ticket = FALSE
    /\ sess = NoAttempts
    /\ run = NoRun
    /\ due = {}
    /\ queue = {"start"}
    /\ runs = 0
    /\ turns = 0

-----------------------------------------------------------------------------
\* What starts a run: _handoff_to_agent and _run_agent_for_payment_inner.

Closed(r) == r.closed # "no"

Refused(r, s) ==
    \/ s # "recovered" /\ r.status \in {"recovered", "escalated"}
    \/ Closed(r)
    \/ s \in r.handed

\* The record and the queue once s was handed to the agent on record r.
HandOff(r, s) ==
    IF Refused(r, s)
    THEN rec' = r /\ UNCHANGED queue
    ELSE /\ rec' = [r EXCEPT !.handed = @ \cup ({s} \cap Once)]
         /\ queue' = IF Email \/ Phone THEN queue \cup {s} ELSE queue

Begin(s) ==
    /\ ~run.on /\ s \in queue /\ runs < MaxRuns
    /\ queue' = queue \ {s}
    /\ runs' = runs + 1
    /\ run' = [NoRun EXCEPT !.on = TRUE, !.was = rec.status,
                            !.active = s = "followup"]
    /\ UNCHANGED <<rec, ticket, sess, due, turns>>

-----------------------------------------------------------------------------
\* The customer, the clock and the operator.

Presence ==
    /\ (~rec.live) \in Lives
    /\ rec' = [rec EXCEPT !.live = ~@]
    /\ UNCHANGED <<ticket, sess, run, due, queue, runs, turns>>

\* cancel_jobs_for: the timers of the case, and the retry on the record.
Disarmed(r) == [r EXCEPT !.retry = FALSE]
Timers == {"wake"}

\* update_payment: nothing is written over a recovered status.
WithStatus(r, st) == [r EXCEPT !.status = IF @ = "recovered" THEN @ ELSE st]

Pays ==
    /\ ~rec.paid /\ rec.status # "recovered"
    /\ due' = due \ Timers
    /\ HandOff([Disarmed(rec) EXCEPT !.status = "recovered", !.paid = TRUE],
               "recovered")
    /\ UNCHANGED <<ticket, sess, run, runs, turns>>

PushAnswered(a) ==
    /\ "push" \in due
    /\ IF a = "acted"
       THEN due' = (due \ {"push"}) \cup {"watch"} /\ UNCHANGED <<rec, queue>>
       ELSE due' = due \ {"push"} /\ HandOff(rec, "push")
    /\ UNCHANGED <<ticket, sess, run, runs, turns>>

WatchEnds ==
    /\ "watch" \in due
    /\ due' = due \ {"watch"}
    /\ HandOff(rec, "followup")
    /\ UNCHANGED <<ticket, sess, run, runs, turns>>

WatchSeesFailure ==
    /\ "watch" \in due /\ Phone
    /\ HandOff(rec, "failed")
    /\ UNCHANGED <<ticket, sess, run, due, runs, turns>>

WakeFires ==
    /\ "wake" \in due
    /\ due' = due \ {"wake"}
    /\ HandOff(rec, "wake")
    /\ UNCHANGED <<ticket, sess, run, runs, turns>>

\* The daemon makes a link of the retry, and it is watched.
RetryFires ==
    /\ rec.retry
    /\ rec' = [rec EXCEPT !.retry = FALSE]
    /\ due' = due \cup {"watch"}
    /\ UNCHANGED <<ticket, sess, run, queue, runs, turns>>

\* /api/drop-reason; a case is asked once.
Says(a) ==
    /\ rec.answer = "none" /\ rec.status # "recovered" /\ ~rec.paid
    /\ HandOff([rec EXCEPT !.answer = a], "answer")
    /\ ticket' = (ticket \/ a = "other")
    /\ UNCHANGED <<sess, run, due, runs, turns>>

\* /api/cases/<id>/label; a case is labelled once.
Marks(l) ==
    /\ rec.label = "none"
    /\ LET marked == [rec EXCEPT !.label = l,
                                 !.optedOut = @ \/ l = "do_not_contact"]
       IN  IF l = "paid_outside"
           THEN /\ rec' = [WithStatus(Disarmed(marked), "settled_outside")
                             EXCEPT !.closed = "settled_outside"]
                /\ due' = due \ Timers
           ELSE rec' = marked /\ UNCHANGED due
    /\ UNCHANGED <<ticket, sess, run, queue, runs, turns>>

-----------------------------------------------------------------------------
\* What the agent may propose, and how a call ends that does nothing.

\* agent_node: the case object is fresh in each run and starts from the
\* status of the record; the first call of any tool sets it to acting.
Withheld ==
    \/ ~run.acted /\ run.was \in {"failed", "escalated", "recovered"}
    \/ rec.status \in {"recovered", "escalated"} \/ rec.paid

Bound ==
    IF Withheld THEN {"wait", "close", "look"}
    ELSE Tools \ (IF run.active THEN {} ELSE {"voice"})

Choose(t) ==
    /\ run.on /\ ~run.over /\ run.tool = "none" /\ turns < MaxTurns
    /\ t \in Bound \cap Known
    /\ run' = [run EXCEPT !.tool = t, !.acted = TRUE]
    /\ turns' = turns + 1
    /\ UNCHANGED <<rec, ticket, sess, due, queue, runs>>

\* The session with one more attempt.
Counted(t, ok) ==
    IF t \notin Attempts THEN sess
    ELSE [n |-> IF sess.n < MaxAttempts THEN sess.n + 1 ELSE sess.n,
          last |-> t, ok |-> ok, esc |-> sess.esc \/ t = "escalate"]

\* The proposed call was carried out, as tool t: attempts are written to the
\* case object whenever a tool has run, for the whole session.
Carried(t, ok, r) ==
    /\ run.tool = t
    /\ sess' = Counted(t, ok)
    /\ run' = [r EXCEPT !.tool = "none", !.seen = sess']
    /\ UNCHANGED <<runs, turns>>

\* A guard, the policy or the approval gate refuses the call, or the tool
\* itself does.  Asking to wait or to close ends the turn even when refused.
Refuse ==
    /\ run.tool # "none"
    /\ sess' = Counted(run.tool, FALSE)
    /\ \E ran \in BOOLEAN :
           run' = [run EXCEPT !.tool = "none",
                              !.seen = IF ran THEN sess' ELSE @,
                              !.over = ran /\ run.tool \in {"wait", "close"}]
    /\ UNCHANGED <<rec, ticket, due, queue, runs, turns>>

\* The tools that only look.
Look ==
    /\ Carried("look", TRUE, run)
    /\ UNCHANGED <<rec, ticket, due, queue>>

-----------------------------------------------------------------------------
\* The tools that act.  _still_worth_doing stops the ones that cost money.

Settled == rec.paid \/ rec.status = "recovered"

Undelivered ==
    /\ rec.awaiting /\ ~Settled /\ ~Closed(rec)
    /\ rec.status \notin {"escalated", "unrecoverable"}

\* Defect: whether the money has come meanwhile is not asked.
MintLinkAnyway(r) ==
    /\ ~Undelivered /\ ~rec.spent
    /\ Carried("link", TRUE,
               [run EXCEPT !.link = IF r \in FullRoutes THEN "full" ELSE "less",
                           !.did = @ \cup {"link"}])
    /\ rec' = [RecordRoute(rec, r) EXCEPT !.awaiting = TRUE]
    /\ UNCHANGED <<ticket, due, queue>>

MintLink(r) ==
    /\ ~Settled /\ ~Undelivered /\ ~rec.spent
    /\ Carried("link", TRUE,
               [run EXCEPT !.link = IF r \in FullRoutes THEN "full" ELSE "less",
                           !.did = @ \cup {"link"}])
    /\ rec' = [RecordRoute(rec, r) EXCEPT !.awaiting = TRUE]
    /\ UNCHANGED <<ticket, due, queue>>

\* The account has used up its payment links; it is given no more, ever.
LinksSpent ==
    /\ ~Settled /\ ~Undelivered
    /\ Carried("link", FALSE, run)
    /\ rec' = [rec EXCEPT !.spent = TRUE]
    /\ UNCHANGED <<ticket, due, queue>>

Reached(r, k) == [RecordContact(Climb(r, k)) EXCEPT !.awaiting = FALSE]

\* show_page_offer, with or without a discount on the banner.
Banner(discount) ==
    /\ ~Settled /\ rec.live
    /\ run.link = "full" => ~discount
    /\ Carried("banner", TRUE, run)
    /\ rec' = Reached(rec, IF /\ ~discount /\ KindOf(rec) = "method"
                              /\ HasRung(rec, "rail_switch")
                           THEN "rail_switch" ELSE "offer")
    /\ due' = due \cup {"push"}
    /\ UNCHANGED <<ticket, queue>>

Quote ==
    /\ QuoteAllowed(rec)
    /\ Carried("quote", TRUE, [run EXCEPT !.quoted = TRUE])
    /\ UNCHANGED <<rec, ticket, due, queue>>

\* send_page_push: once per case, and a delivered one ends the turn.
Push ==
    /\ "page_push" \notin rec.climbed /\ rec.live
    /\ Carried("push", TRUE, [run EXCEPT !.over = TRUE, !.did = @ \cup {"push"}])
    /\ rec' = RecordContact(Climb(rec, "page_push"))
    /\ due' = due \cup {"push"}
    /\ UNCHANGED <<ticket, queue>>

\* Defect: the rung is recorded under a name no ladder has.
EmailRungMisnamed(r) ==
    IF "voice_call" \in r.climbed THEN "post_call_email" ELSE "email"

\* send_recovery_notification; the link is this run's, or one it was passed.
EmailRung(r) ==
    IF "voice_call" \in r.climbed THEN "post_call_email"
    ELSE IF run.link = "full" /\ HasRung(r, "rail_switch") THEN "rail_switch"
    ELSE "offer"

Notify ==
    /\ ~Settled /\ Email
    /\ rec.tried \cap (FullRoutes \cup LessRoutes) # {}
    /\ ~(run.quoted /\ run.link = "full")
    /\ Carried("notify", TRUE, [run EXCEPT !.did = @ \cup {"notify"}])
    /\ rec' = Reached(rec, EmailRung(rec))
    /\ UNCHANGED <<ticket, due, queue>>

\* A call that went out reads call_initiated, which no attempt counts as ok.
Call ==
    /\ ~Settled /\ VoiceOn /\ Phone /\ CallPays
    /\ Carried("voice", FALSE, run)
    /\ rec' = RecordContact(Climb(rec, "voice_call"))
    /\ UNCHANGED <<ticket, due, queue>>

Retry ==
    /\ RetryAllowed
    /\ Carried("retry", TRUE, [run EXCEPT !.did = @ \cup {"retry"}])
    /\ rec' = RecordContact(Climb([rec EXCEPT !.retry = TRUE],
                                  RetryRung([rec EXCEPT !.retry = TRUE])))
    /\ UNCHANGED <<ticket, due, queue>>

Wait ==
    /\ ~Undelivered
    /\ Carried("wait", TRUE, [run EXCEPT !.over = TRUE])
    /\ due' = due \cup {"wake"}
    /\ UNCHANGED <<rec, ticket, queue>>

Escalate ==
    /\ MayEscalate(rec)
    /\ Carried("escalate", TRUE, [run EXCEPT !.did = @ \cup {"escalate"}])
    /\ ticket' = TRUE
    /\ UNCHANGED <<rec, due, queue>>

\* Defect: that a person has the case is taken on trust.
MayCloseOnTrust(r, o) ==
    CASE o = "recovered" -> r.paid \/ r.status = "recovered"
      [] o = "escalated" -> TRUE
      [] o = "unrecoverable" -> Exhausted(r) \/ PursuitBarred(r)

MayClose(r, o) ==
    CASE o = "recovered" -> r.paid \/ r.status = "recovered"
      [] o = "escalated" -> ticket
      [] o = "unrecoverable" -> Exhausted(r) \/ PursuitBarred(r)

CloseAs(r, o) == [WithStatus(Disarmed(r), o) EXCEPT !.closed = o]

Close(o) ==
    /\ MayClose(rec, o)
    /\ Carried("close", TRUE, [run EXCEPT !.over = TRUE, !.did = @ \cup {"close"}])
    /\ rec' = CloseAs(rec, o)
    /\ due' = due \ Timers
    /\ UNCHANGED <<ticket, queue>>

-----------------------------------------------------------------------------
\* How a run is judged: stopping_check, then _select_primary_action, then
\* the status of the case.

Stops ==
    \/ run.seen.last = "escalate"
    \/ /\ run.seen.n >= MaxAttempts
       /\ ~(~run.active /\ run.seen.last = "retry" /\ ~run.seen.ok)

CaseStatus ==
    IF run.was = "recovered" THEN "recovered"
    ELSE IF Stops THEN IF run.seen.esc THEN "escalated" ELSE "stopped"
    ELSE IF run.seen.last \in Contacting /\ run.seen.ok THEN "awaiting"
    ELSE IF run.acted \/ run.was \notin {"failed", "escalated"} THEN "acting"
    ELSE IF run.was = "failed" THEN "stopped" ELSE "escalated"

Primary ==
    CASE "close" \in run.did -> "close"
      [] "close" \notin run.did /\ "escalate" \in run.did -> "escalate"
      [] run.did \cap {"close", "escalate"} = {}
         /\ run.did \cap {"link", "notify", "push"} # {} -> "contact"
      [] run.did = {"retry"} -> "retry"
      [] run.did = {} -> "none"

FinalStatus ==
    CASE CaseStatus \in {"recovered", "escalated"} -> CaseStatus
      [] CaseStatus = "stopped" -> IF Primary = "retry" THEN "working" ELSE "failed"
      [] CaseStatus = "awaiting" -> "working"
      [] CaseStatus = "acting" ->
             CASE Primary = "none" -> rec.status
               [] Primary = "escalate" -> "escalated"
               [] OTHER -> "working"

\* A recovered case keeps its status whatever the run reports.
Judged == WithStatus(rec, FinalStatus)

\* Defect: closing is left to the agent.
EndSettledOnly(r) == rec' = r /\ UNCHANGED <<ticket, due, queue>>

\* The money is in: the harness closes a case the agent left open.
EndSettled(r) ==
    /\ IF Closed(r) THEN rec' = r /\ UNCHANGED due
       ELSE rec' = CloseAs(r, "recovered") /\ due' = due \ Timers
    /\ UNCHANGED <<ticket, queue>>

\* The net under a run that ended without the money: the next rung goes back
\* to the agent, and with none left a person gets the case.  A retry on the
\* clock with no rung left makes the net fail, and the case is failed.
NetNeeded == FinalStatus \in {"escalated", "failed"} /\ "escalate" \notin run.did

\* Defect: the net does not ask whether the ladder is finished.
CastNetEarly(r) == rec' = r /\ ticket' = TRUE /\ UNCHANGED queue

CastNet(r) ==
    CASE MayEscalate(r) -> rec' = r /\ ticket' = TRUE /\ UNCHANGED queue
      [] ~MayEscalate(r) /\ Remaining(r) # {} ->
             HandOff(r, NextRung(r)) /\ UNCHANGED ticket
      [] ~MayEscalate(r) /\ Remaining(r) = {} ->
             rec' = WithStatus(r, "failed") /\ UNCHANGED <<ticket, queue>>

EndRun ==
    /\ run.on
    /\ run' = NoRun
    /\ LET watched == Primary = "contact" /\ "link" \in run.did IN
       IF Judged.paid \/ Judged.status = "recovered" THEN EndSettled(Judged)
       ELSE /\ due' = IF watched THEN due \cup {"watch"} ELSE due
            /\ IF NetNeeded THEN CastNet(Judged)
               ELSE rec' = Judged /\ UNCHANGED <<ticket, queue>>
    /\ UNCHANGED <<sess, runs, turns>>

\* An error ends the run, and no net is cast: what the graph raises is caught
\* and leaves a ticket's case alone; what is raised outside of it does not.
\* The flush that follows takes the recovered status from the disk.
RunFails ==
    /\ MayFail /\ run.on
    /\ run' = NoRun
    /\ \E caught \in BOOLEAN :
           rec' = IF caught /\ rec.status = "escalated" THEN rec
                  ELSE WithStatus(rec, "failed")
    /\ UNCHANGED <<ticket, sess, due, queue, runs, turns>>

-----------------------------------------------------------------------------
Acts ==
    \/ Look \/ LinksSpent \/ Quote \/ Push \/ Notify \/ Call \/ Retry \/ Wait
    \/ Escalate
    \/ \E r \in FullRoutes \cup LessRoutes : MintLink(r)
    \/ \E discount \in BOOLEAN : Banner(discount)
    \/ \E o \in Outcomes \ {"settled_outside"} : Close(o)

World ==
    \/ Presence \/ Pays \/ WatchEnds \/ WatchSeesFailure \/ WakeFires \/ RetryFires
    \/ \E a \in {"acted", "dismissed"} : PushAnswered(a)
    \/ \E a \in Said : Says(a)
    \/ \E l \in Marked : Marks(l)

Next ==
    \/ \E s \in Scenarios : Begin(s)
    \/ \E t \in Tools : Choose(t)
    \/ Refuse \/ Acts \/ EndRun \/ RunFails \/ World

Spec == Init /\ [][Next]_vars

-----------------------------------------------------------------------------
Idle == ~run.on /\ queue = {}

\* A customer who has paid is contacted no more, even by a call that was
\* proposed before the money came: of the steps of the ladder only those are
\* climbed then that make no link and write to nobody.
PaidNotContacted ==
    [][rec.paid => /\ rec'.climbed \ rec.climbed \subseteq
                          {"page_push", "silent_retry", "alternate_path"}
                   /\ rec'.tried \subseteq rec.tried \cup {"contact"}]_vars

\* Once the money is in and the agent is at rest, the case has been closed.
PaidGetsClosed == rec.paid /\ Idle => Closed(rec)

\* A ticket is filed only of a case that has nothing left to be tried, and
\* no retry on the clock, whoever files it; an answer the agent cannot act on
\* goes to a person at once.
TicketComesLast ==
    [][~ticket /\ ticket' => MayEscalate(rec) \/ rec'.answer = "other"]_vars

\* No ending is only claimed, and none is forgotten: a case reads recovered
\* when it was paid and from then on, is closed as recovered only then, and is
\* closed as escalated only when a person has it.
ClaimsAreBacked ==
    /\ rec.status = "recovered" <=> rec.paid
    /\ rec.closed = "recovered" => rec.paid
    /\ rec.closed = "escalated" => ticket

-----------------------------------------------------------------------------
\* What the repository says of the cases, and the code does not keep.

\* "The case died silently, which is the one outcome the ladder exists to
\* prevent.  A refusal is not an action" (_select_primary_action): a case that
\* reads escalated is with a person.
EscalatedHasTicket == Idle /\ rec.status = "escalated" => ticket

\* "Unrecoverable" is for a case where "nothing further is worth trying"
\* (close_case): one that was paid is not closed as that.
PaidIsNotWrittenOff ==
    [][rec.paid /\ ~Closed(rec) => rec'.closed # "unrecoverable"]_vars

\* "Anything that finishes without the money coming back is a person's problem
\* now" (the end of a run): a failed case that is at rest is picked up again.
FailedIsPickedUp ==
    Idle /\ rec.status = "failed" => \/ rec.paid \/ Closed(rec) \/ ticket
                                    \/ due # {} \/ rec.retry

\* "An ended case keeps no timers" (close_case).
NoTimersOnceClosed == Closed(rec) /\ Idle => ~rec.retry /\ "wake" \notin due

\* What a case was closed as is what its status says (close_case).
ClosedKeepsOutcome == Closed(rec) /\ ~rec.paid => rec.status = rec.closed
=============================================================================
