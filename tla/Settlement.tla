----------------------------- MODULE Settlement -----------------------------
(***************************************************************************)
(* How one case learns of money and of failures, and what it then records  *)
(* (frontend.py).  Five roads lead to the record: the watcher that polls   *)
(* the gateway, the browser's report, the webhook, the customer's click    *)
(* and the page's failure report.  Each is a thread; the record is shared  *)
(* and has no lock.                                                        *)
(*                                                                         *)
(* A case is filed under a name the checkout page made up, or under the    *)
(* gateway's own payment id when the webhook reported the failure first.   *)
(* The gateway is configured; without it the code takes payments on trust. *)
(***************************************************************************)
EXTENDS Webhook

CONSTANTS Orders, Links,
          Origins,        \* who may open the case: the page, the gateway
          Watchers, Handlers,
          Claims,         \* may the customer click "complete"?
          RacyThreads,    \* may threads move between a test and its write?
          Detached        \* may a flush have replaced the record in between?

\* The payment that failed may be captured after all.
Objects == Orders \cup Links \cup {"self"}
Captures == Links \cup {"self"}      \* captures whose event names the case

ASSUME SettlementAssumption ==
    /\ Orders \cap Links = {} /\ {"self", "failed", "none"} \cap (Orders \cup Links) = {}
    /\ Events = Captures \cup {"failed"}
    /\ Origins \subseteq {"page", "gateway"}
    /\ Watchers \cap Handlers = {}
    /\ {Claims, RacyThreads, Detached} \subseteq BOOLEAN

VARIABLES origin,   \* whose name the case has
          made,     \* orders made at the gateway, replaced ones too
          paid,     \* what the gateway has captured
          hints,    \* orders whose payment the browser is about to report
          rec,      \* the record of the case
          run,      \* is the agent working the case?
          thread,   \* where each thread is
          booked,   \* MONEY_RECOVERED entries of the audit log, as a set,
          entries,  \* and how many there are (0..2)
          fault,    \* a run has raised: the status its record has on disk
          failing,  \* history: a failure was reported,
          clicked,  \* all that has happened to it is an early "complete",
          unknown   \* captures that came before there was a case

news == <<failing, clicked, unknown>>
caseVars == <<origin, made, paid, hints, rec, run, thread, booked, entries,
              fault, news>>
vars == <<hookVars, caseVars>>

Threads == Watchers \cup Handlers
Statuses == {"none", "pending", "recovering", "working", "failed", "escalated",
             "recovered", "paid"}

\* pending is the record of a checkout that has not failed, paid that of a
\* clean sale; working stands for every status of a case under way, escalated
\* for every ending the agent declares.  A case that has a failure code, a
\* ladder or a trail is touched.
RecordType ==
    [status : Statuses, order : Orders \cup {"none"}, links : SUBSET Links,
     orderId : Orders \cup Links \cup {"none"}, held : BOOLEAN,
     sale : Objects \cup {"none"}, touched : BOOLEAN]

Idle == [at |-> "idle", obj |-> "none"]
Places == [at : {"watch"}, obj : {"none"}]
          \cup [at : {"mark", "count", "clean"}, obj : Objects]

TypeOK ==
    /\ HookTypeOK
    /\ origin \in Origins
    /\ made \subseteq Orders /\ paid \subseteq Objects /\ hints \subseteq Orders
    /\ rec \in RecordType
    /\ {run, failing, clicked} \subseteq BOOLEAN
    /\ fault \in Statuses /\ unknown \subseteq Captures
    /\ thread \in [Threads -> Places \cup {Idle}]
    /\ booked \subseteq Objects /\ entries \in 0..2

Init ==
    /\ HookInit
    /\ origin \in Origins
    /\ made = {} /\ paid = {} /\ hints = {}
    /\ rec = [status |-> "none", order |-> "none", links |-> {},
              orderId |-> "none", held |-> FALSE, sale |-> "none",
              touched |-> FALSE]
    /\ run = FALSE
    /\ thread = [t \in Threads |-> Idle]
    /\ booked = {} /\ entries = 0
    /\ fault = "none" /\ failing = FALSE /\ clicked = FALSE /\ unknown = {}

-----------------------------------------------------------------------------
At(t, place) == thread[t].at = place
Goto(t, place, o) == thread' = [thread EXCEPT ![t] = [at |-> place, obj |-> o]]
Ends(t) == thread' = [thread EXCEPT ![t] = Idle]

\* Unless threads may race: no thread is between a test and its write.
Undisturbed ==
    \/ RacyThreads
    \/ fault = "none" /\ \A u \in Threads : thread[u].at \notin {"mark", "clean"}

Exists == rec.status # "none"
Settled == rec.status \in {"recovered", "escalated"}
NeverEntered == rec.status = "pending" /\ ~rec.touched

\* Defect: any status may be written over a recovery.
WithStatusAnyway(r, st) == [r EXCEPT !.status = st]

\* update_payment: nothing is written over a recovered status.
WithStatus(r, st) == [r EXCEPT !.status = IF @ = "recovered" THEN @ ELSE st]

\* Defect: a payment that is recorded already is recorded again.
RecordTwice(t, o) == Goto(t, "mark", o)

\* _mark_recovered, up to its test; it goes on in MarkWrite.
Record(t, o) ==
    IF rec.status = "recovered" THEN Ends(t) ELSE Goto(t, "mark", o)

-----------------------------------------------------------------------------
\* The customer.

\* /api/create-order: a new order takes the place of the one before.
CreateOrder(o) ==
    /\ Undisturbed /\ origin = "page"
    /\ o \notin made
    /\ made' = made \cup {o}
    /\ rec' = [rec EXCEPT !.order = o, !.orderId = o,
                          !.status = IF Exists THEN @ ELSE "pending"]
    /\ UNCHANGED <<hookVars, origin, paid, hints, run, thread, booked, entries, fault,
                   news>>

\* An order that was made, even one that has been replaced, a link that was
\* sent, or the payment that failed and is captured late, perhaps before the
\* failure is heard of.
Payable(o) ==
    \/ o \in made
    \/ o \in rec.links
    \/ o = "self" /\ origin = "gateway" /\ "failed" \in raised

CustomerPays(o) ==
    /\ o \notin paid /\ Payable(o)
    /\ paid' = paid \cup {o}
    /\ hints' = hints \cup ({o} \cap Orders)
    /\ raised' = raised \cup ({o} \cap Captures)
    /\ UNCHANGED <<sends, processed, flight, dropped, origin, made, rec, run,
                   thread, booked, entries, fault,
                   news>>

\* The gateway refuses the payment whose id the case will have.
GatewayDeclines ==
    /\ origin = "gateway"
    /\ raised' = raised \cup {"failed"}
    /\ UNCHANGED <<sends, processed, flight, dropped, caseVars>>

\* /api/payment-failed, from the checkout page: a settled case is left alone,
\* one under way learns of the failure without a second run, and any other is
\* held until the customer says why, or worked at once.
PageFails ==
    /\ Undisturbed /\ origin = "page" /\ ~Settled
    /\ failing' = TRUE /\ clicked' = FALSE /\ UNCHANGED <<fault, unknown>>
    /\ \E defer \in BOOLEAN :
           LET working == rec.status = "recovering" IN
           /\ rec' = [WithStatus(rec, "recovering") EXCEPT
                         !.held = @ \/ (defer /\ ~working), !.touched = TRUE]
           /\ run' = (run \/ (~defer /\ ~working))
    /\ UNCHANGED <<hookVars, origin, made, paid, hints, thread, booked, entries>>

\* The question is answered, skipped or given up.
Release ==
    /\ Undisturbed /\ rec.held /\ ~Settled
    /\ rec' = [rec EXCEPT !.held = FALSE]
    /\ run' = TRUE
    /\ UNCHANGED <<hookVars, origin, made, paid, hints, thread, booked, entries, fault,
                   news>>

\* /api/payment-succeeded: the gateway confirms the capture; an order that is
\* not the record's is refused, and a checkout that never failed is a sale.
BrowserReports(t, o) ==
    /\ Undisturbed /\ At(t, "idle") /\ o \in hints
    /\ hints' = hints \ {o}
    /\ CASE ~Exists \/ o # rec.order -> UNCHANGED thread
         [] Exists /\ o = rec.order /\ NeverEntered -> Goto(t, "clean", o)
         [] OTHER -> Record(t, o)
    /\ UNCHANGED <<hookVars, origin, made, paid, rec, run, booked, entries, fault,
                   news>>

\* The report is never made: the tab is closed first.
BrowserLeaves(o) ==
    /\ o \in hints
    /\ hints' = hints \ {o}
    /\ UNCHANGED <<hookVars, origin, made, paid, rec, run, thread, booked, entries, fault,
                   news>>

\* /api/customer-responded: sets the status by itself, if the order it finds
\* on the record was paid, and else leaves no more than an entry in the trail.
CustomerResponds ==
    /\ Claims /\ Undisturbed /\ Exists
    /\ LET found == rec.orderId \in Orders \cap paid IN
       /\ rec' = [rec EXCEPT !.status = IF found THEN "recovered" ELSE @,
                             !.touched = TRUE]
       /\ clicked' = (clicked \/ (NeverEntered /\ ~found))
    /\ UNCHANGED <<hookVars, origin, made, paid, hints, run, thread, booked,
                   entries, fault, failing, unknown>>

-----------------------------------------------------------------------------
\* /api/webhook-forward.

\* payment.failed opens the case, or takes it up again whatever it has become.
HookFailed ==
    /\ Undisturbed /\ Arrive("failed")
    /\ failing' = TRUE /\ clicked' = FALSE /\ UNCHANGED <<fault, unknown>>
    /\ IF rec.status = "recovering" THEN UNCHANGED <<rec, run>>
       ELSE /\ rec' = [WithStatus(rec, "recovering") EXCEPT !.touched = TRUE]
            /\ run' = TRUE
    /\ UNCHANGED <<origin, made, paid, hints, thread, booked, entries>>

\* Defect: a capture counts only for the object under order_id.
HookCapturedByOrder(t, o) ==
    /\ Undisturbed /\ At(t, "idle") /\ Arrive(o)
    /\ CASE ~Exists \/ o # rec.orderId -> UNCHANGED thread
         [] Exists /\ o = rec.orderId /\ NeverEntered -> Goto(t, "clean", o)
         [] OTHER -> Record(t, o)
    /\ unknown' = IF Exists THEN unknown ELSE unknown \cup {o}
    /\ UNCHANGED <<origin, made, paid, hints, rec, run, booked, entries, fault,
                   failing, clicked>>

\* payment.captured names the case, a link's in its notes.  If the frontend has
\* no such case yet it answers unknown_case and keeps nothing.
HookCaptured(t, o) ==
    /\ Undisturbed /\ At(t, "idle") /\ Arrive(o)
    /\ CASE ~Exists -> UNCHANGED thread
         [] Exists /\ NeverEntered -> Goto(t, "clean", o)
         [] OTHER -> Record(t, o)
    /\ unknown' = IF Exists THEN unknown ELSE unknown \cup {o}
    /\ UNCHANGED <<origin, made, paid, hints, rec, run, booked, entries, fault,
                   failing, clicked>>

-----------------------------------------------------------------------------
\* The agent, and the watcher that looks after what it sent.

\* A link of the agent; the record keeps every link, and order_id the last.
Mint(l) ==
    /\ Undisturbed /\ run /\ Exists /\ rec.status # "recovered" /\ l \notin rec.links
    /\ rec' = [rec EXCEPT !.links = @ \cup {l}, !.orderId = l]
    /\ UNCHANGED <<hookVars, origin, made, paid, hints, run, thread, booked, entries, fault,
                   news>>

\* A run ends with a status of its own, and what it has sent is watched.
EndRun ==
    /\ Undisturbed /\ run
    /\ run' = FALSE
    /\ \E st \in {"working", "failed", "escalated"} : rec' = WithStatus(rec, st)
    /\ \/ UNCHANGED thread
       \/ \E w \in Watchers : At(w, "idle") /\ Goto(w, "watch", "none")
    /\ UNCHANGED <<hookVars, origin, made, paid, hints, booked, entries, fault,
                   news>>

\* A run raises (run_agent_for_payment): failed is written in place, over a
\* recovery too.  The file still has the status from before.
RunRaises ==
    /\ Undisturbed /\ run /\ Exists /\ fault = "none"
    /\ fault' = rec.status
    /\ rec' = [rec EXCEPT !.status = "failed", !.touched = TRUE]
    /\ UNCHANGED <<hookVars, origin, made, paid, hints, run, thread, booked,
                   entries, news>>

\* Its flush merges with the file, where a recovered status absorbs.
RunRaisedFlush ==
    /\ fault # "none"
    /\ rec' = [rec EXCEPT !.status = IF fault = "recovered" THEN fault ELSE @]
    /\ fault' = "none" /\ run' = FALSE
    /\ UNCHANGED <<hookVars, origin, made, paid, hints, thread, booked, entries,
                   news>>

\* What _watch_for_recovery asks the gateway about: every link of the case,
\* its order, and the payment itself under the name of the case.
Watched ==
    rec.links \cup ({rec.order} \cap Orders)
    \cup (IF origin = "gateway" THEN {"self"} ELSE {})

Poll(w) ==
    /\ Undisturbed /\ At(w, "watch")
    /\ \/ rec.status = "recovered" /\ Ends(w)
       \/ /\ rec.status # "recovered"
          /\ \E o \in Watched \cap paid : Record(w, o)
    /\ UNCHANGED <<hookVars, origin, made, paid, hints, rec, run, booked, entries, fault,
                   news>>

\* A declined attempt that a watcher sees, the outcome of a push, or a wake-up:
\* the case goes back to the agent, unless the hand-off is refused (HandOff).
HandedBack ==
    /\ Undisturbed /\ rec.status \in {"recovering", "working", "failed"}
    /\ run' = TRUE
    /\ UNCHANGED <<hookVars, origin, made, paid, hints, rec, thread, booked, entries, fault,
                   news>>

\* The window is over and the case goes back to the agent.
WatchEnds(w) ==
    /\ Undisturbed /\ At(w, "watch")
    /\ Ends(w)
    /\ run' \in {run, run \/ ~Settled}
    /\ UNCHANGED <<hookVars, origin, made, paid, hints, rec, booked, entries, fault,
                   news>>

-----------------------------------------------------------------------------
\* Defect: the capture is not handed on to the entry.
MarkWriteForgetful(t) ==
    /\ At(t, "mark")
    /\ rec' = [rec EXCEPT !.status = "recovered"]
    /\ Goto(t, "count", "none")
    /\ UNCHANGED <<hookVars, origin, made, paid, hints, run, booked, entries, fault,
                   news>>

\* The rest of _mark_recovered.  It writes through the reference it read: if a
\* flush has replaced the record in the meantime, nobody sees what it writes.
MarkWrite(t) ==
    /\ At(t, "mark")
    /\ \E seen \in (IF Detached THEN BOOLEAN ELSE {TRUE}) :
           rec' = IF seen THEN [rec EXCEPT !.status = "recovered"] ELSE rec
    /\ Goto(t, "count", thread[t].obj)
    /\ UNCHANGED <<hookVars, origin, made, paid, hints, run, booked, entries, fault,
                   news>>

\* The audit log gets its entry, and the agent is told.
MarkCount(t) ==
    /\ Undisturbed /\ At(t, "count")
    /\ booked' = booked \cup {thread[t].obj}
    /\ entries' = IF entries < 2 THEN entries + 1 ELSE entries
    /\ run' \in {run, TRUE}
    /\ Ends(t)
    /\ UNCHANGED <<hookVars, origin, made, paid, hints, rec, fault,
                   news>>

\* A clean sale is recorded and nobody is told.
CleanWrite(t) ==
    /\ At(t, "clean")
    /\ rec' = [WithStatus(rec, "paid") EXCEPT !.sale = thread[t].obj]
    /\ Ends(t)
    /\ UNCHANGED <<hookVars, origin, made, paid, hints, run, booked, entries, fault,
                   news>>

\* The frontend dies: its threads, its runs and the requests it was serving
\* are gone, and nothing starts the watchers again.  What
\* was not flushed is lost.
FrontendRestarts ==
    /\ Restarts
    /\ thread' = [t \in Threads |-> Idle]
    /\ run' = FALSE
    /\ dropped' = dropped \cup ({thread[t].obj : t \in Handlers} \cap Captures)
    /\ rec' = [rec EXCEPT !.status = IF fault = "none" THEN @ ELSE fault]
    /\ fault' = "none"
    /\ UNCHANGED <<raised, sends, processed, flight, origin, made, paid, hints,
                   booked, entries, news>>

-----------------------------------------------------------------------------
Receiver ==
    /\ \/ ReceiverRestarts
       \/ \E e \in Events : Receive(e) \/ ForwardFails(e) \/ Expire(e)
    /\ UNCHANGED caseVars

Steps(t) == MarkWrite(t) \/ MarkCount(t) \/ CleanWrite(t)

Next ==
    \/ Receiver
    \/ GatewayDeclines \/ PageFails \/ Release \/ CustomerResponds
    \/ HookFailed \/ EndRun \/ RunRaises \/ RunRaisedFlush \/ HandedBack \/ FrontendRestarts
    \/ \E o \in Orders : CreateOrder(o) \/ BrowserLeaves(o)
    \/ \E o \in Objects : CustomerPays(o)
    \/ \E l \in Links : Mint(l)
    \/ \E t \in Handlers : \/ \E o \in Orders : BrowserReports(t, o)
                           \/ \E o \in Captures : HookCaptured(t, o)
    \/ \E w \in Watchers : Poll(w) \/ WatchEnds(w)
    \/ \E t \in Threads : Steps(t)

\* The gateway delivers, the receiver's threads post, and a handler's thread
\* and a run that has raised get to their end.  Nothing is assumed of the
\* customer, the agent and the watcher's window.
Fairness ==
    /\ \A e \in Events : WF_vars(Receive(e) /\ UNCHANGED caseVars)
    /\ \A o \in Captures : SF_vars(\E t \in Handlers : HookCaptured(t, o))
    /\ \A t \in Threads : WF_vars(Steps(t))
    /\ WF_vars(RunRaisedFlush)

Spec == Init /\ [][Next]_vars /\ Fairness

-----------------------------------------------------------------------------
Account == INSTANCE Books WITH taken <- paid

\* Whichever road the news of a payment takes, and however often, the case is
\* credited with one payment at most, once, and with none the gateway has not
\* taken.
ImplementsBooks == Account!Spec

\* What is credited to the agent was in danger: a failure was reported.  Two
\* ways lead past that, and no third: the customer of a clean sale buys again,
\* or clicks "complete" before the payment is through, which leaves a trail.
OnlyRescuesAreBooked ==
    booked # {} => failing \/ clicked \/ rec.sale # "none"

\* A case whose money is in the books reads recovered from then on, whatever
\* runs end, failures arrive late or customers click; a run that raises breaks
\* this in memory for as long as its flush takes, and in no longer.
BookedReadsRecovered ==
    entries > 0 => "recovered" \in {rec.status, fault}

\* Between them: what is in the books was rescued, and reads so.
BookedIsRescued == OnlyRescuesAreBooked /\ BookedReadsRecovered

\* Money that came through a link of the agent, or late through the payment
\* itself, is credited, watched or not and with no browser to report it,
\* unless a forward came to nothing, the case already reads recovered, or the
\* frontend heard of the money before it heard of the case.
MoneyIsBooked ==
    \A o \in Captures :
        o \in paid ~> \/ booked # {} \/ rec.status = "recovered"
                     \/ o \in dropped \cup unknown

-----------------------------------------------------------------------------
\* What the code says and does not keep.

\* "a poller and a browser callback racing on the same payment cannot
\* double-count it" (_mark_recovered).
BookedOnce == entries <= 1

\* "Single place where a case becomes RECOVERED" (_mark_recovered).
RecoveredIsBooked ==
    rec.status = "recovered" =>
        booked # {} \/ \E t \in Threads : At(t, "count")

\* "A case the agent has already SETTLED must not be reopened by a late
\* failure signal" (payment_failed): a recovered case has the run that closes
\* it and no other.
RecoveredStartsNoRun ==
    [][rec.status = "recovered" /\ ~run /\ run' => entries' # entries]_vars

\* "no revenue credited to a rescue that never happened"
\* (_never_entered_recovery): nor is it when the customer of a clean sale pays
\* a second order,
OnlyFailuresAreRescued == booked # {} => failing

\* when the customer clicks "complete" before the sale is captured,
SalesAreNoRescues == booked # {} => failing \/ rec.sale # "none"

\* or when the same sale is reported again.
SalesAreNotBooked == rec.sale \notin booked

\* "A customer who has paid must never be asked to pay again"
\* (_watch_for_recovery): the record knows the order that was paid.
PaidOrderIsKnown == \A o \in Orders \cap paid : o = rec.order

\* "the agent was never told it worked" is what the webhook's road is there to
\* mend (webhook_forward): but a capture that overtakes the failure is answered
\* unknown_case and, the receiver having seen it, is not delivered again.
EveryCaptureFindsItsCase == unknown = {}

\* "a recovered case stays recovered" in memory too (update_payment).
RecoveredIsAbsorbing ==
    [][rec.status = "recovered" => rec'.status = "recovered"]_vars
=============================================================================
