------------------------------ MODULE AgentRun ------------------------------
(***************************************************************************)
(* The graph that runs the agent on a case (agent/graph.py), with the      *)
(* policy gate before its tools (agent/policy_gate.py, guardrails.py).     *)
(* A case has one session: the messages of all its runs, of which this     *)
(* module keeps what the graph reads.  A run is a walk through the nodes;  *)
(* the model proposes one call at a time, and three gates may refuse it.   *)
(* What the model chooses is arbitrary.  Which tools it is offered, what   *)
(* the tools do to the case and the status it ends with: module CaseRun.   *)
(***************************************************************************)
EXTENDS Naturals, FiniteSets, Sequences

CONSTANTS Calls,         \* proposals, <<tool, arguments>>
          Models,        \* how many models the fallback chain has
          MaxTurns,      \* 12
          CycleSpan,     \* 3
          DoomLimit,     \* 3
          BlockedLimit,  \* 2
          ErrorLimit,    \* 5
          MaxContacts,   \* 5, or what the operator sets
          MaxExtra,      \* bound: stray messages and those of others in a day
          RetryBarred    \* a hard decline, or an amount over the retry cap

Tools == {c[1] : c \in Calls}

\* The tools the graph tells apart; "look" is any other.
Finishing == {"notify", "banner", "push", "retry", "ticket", "close", "wait", "link"}
Recheckable == {"check"}
Messages == {"notify", "call"}
Communicating == {"notify", "link", "call"}     \* _COMMUNICATION_ACTIONS
KnownTools == Finishing \cup Recheckable \cup {"call", "look"}

ASSUME AgentRunAssumption ==
    /\ Tools \subseteq KnownTools /\ RetryBarred \in BOOLEAN
    /\ {Models, MaxTurns, CycleSpan, DoomLimit, BlockedLimit, ErrorLimit, MaxContacts}
           \subseteq Nat \ {0}
    /\ MaxExtra \in Nat

VARIABLES
    node,      \* where the run is, or "idle" between runs
    model,     \* the place in the fallback chain
    call,      \* the call the last message asks for, until it is answered
    asked,     \* tool_call_history, as a set
    count,     \* and how often each tool is in it
    turns,     \* messages with a call since the run began
    blocked,   \* blocked_rounds
    done,      \* history: calls this run has executed
    closed,    \* has close_case succeeded in this run?
    outcome,   \* how the last run came to its end
    names,     \* the last tools of the session, this run's and those before
    dangling,  \* is there a call without an answer amid the session?
    plain,     \* failures in the session the guard can read
    unread,    \* was the call let through without a look at the profile?
    own,       \* the session's messages of the last 24 hours, by kind,
    others,    \* and those of other cases and of batch runs
    fresh      \* was the last that was counted less than the gap ago?

tallies == <<asked, count, turns, blocked, done, closed>>
runVars == <<model, call, unread, tallies>>
talkVars == <<names, dangling, plain>>
customerVars == <<own, others, fresh>>
vars == <<node, runVars, outcome, talkVars, customerVars>>

None == <<"none", "none">>
Nodes == {"idle", "agent", "guard", "policy", "approval", "tools",
          "count", "mask", "lastMask", "stopping", "critique"}

\* A message is counted in the customer's profile; or is, after it was let
\* through unread; or it is not in the profile at all.
Kinds == {"counted", "unread", "lost"}
Stray == own["unread"] + own["lost"]
Flag(b) == IF b THEN 1 ELSE 0
Extra == Stray + others + Flag(unread)
Bounded == Extra < MaxExtra

TypeOK ==
    /\ node \in Nodes
    /\ model \in 1..Models
    /\ call \in Calls \cup {None}
    /\ asked \subseteq Calls /\ done \subseteq Calls
    /\ count \in [Tools -> 0..DoomLimit]
    /\ turns \in 0..MaxTurns + 1 /\ blocked \in 0..BlockedLimit
    /\ closed \in BOOLEAN
    /\ outcome \in {"none", "ended", "raised", "crashed"}
    /\ names \in Seq(Tools) /\ Len(names) <= 2 * CycleSpan
    /\ dangling \in BOOLEAN
    /\ plain \in 0..ErrorLimit
    /\ unread \in BOOLEAN /\ fresh \in BOOLEAN
    /\ own \in [Kinds -> Nat] /\ others \in Nat /\ Extra <= MaxExtra

Init ==
    /\ node = "idle" /\ model = 1 /\ call = None
    /\ asked = {} /\ count = [t \in Tools |-> 0] /\ turns = 0 /\ blocked = 0
    /\ done = {} /\ closed = FALSE /\ outcome = "none"
    /\ names = <<>> /\ dangling = FALSE /\ plain = 0
    /\ unread = FALSE /\ own = [k \in Kinds |-> 0] /\ others = 0 /\ fresh = FALSE

Capped(n, max) == IF n > max THEN max ELSE n

\* What a run begins with; what the session holds stays (build_initial_state).
Afresh ==
    /\ model' = 1 /\ call' = None /\ unread' = FALSE
    /\ asked' = {} /\ count' = [t \in Tools |-> 0] /\ turns' = 0 /\ blocked' = 0
    /\ done' = {} /\ closed' = FALSE

Start ==
    /\ node = "idle"
    /\ node' = "agent" /\ outcome' = "none"
    /\ UNCHANGED <<runVars, talkVars, customerVars>>

\* A call nobody answered is no longer the last message once the next run has
\* begun: _sanitize_messages_for_gemini takes away trailing calls only, and
\* _pair_tool_calls, which would mend it, is applied to the critique alone.
LeftDangling == dangling \/ call # None

\* A run is over.
Over(how) ==
    /\ node' = "idle" /\ outcome' = how
    /\ dangling' = LeftDangling
    /\ Afresh
    /\ UNCHANGED <<names, plain, customerVars>>

-----------------------------------------------------------------------------
\* agent_node: one invocation of one model of the chain.

\* Defect: after the last model comes the first again.
UnavailableRound ==
    /\ node = "agent"
    /\ model' = (model % Models) + 1
    /\ UNCHANGED <<node, call, unread, tallies, outcome, talkVars, customerVars>>

\* The model cannot serve anybody.
Unavailable ==
    /\ node = "agent" /\ model < Models
    /\ model' = model + 1
    /\ UNCHANGED <<node, call, unread, tallies, outcome, talkVars, customerVars>>

\* The request is refused (400): the next model is tried, and after the last
\* there is an apology for an answer.
BadRequest ==
    /\ node = "agent"
    /\ IF model < Models THEN model' = model + 1 /\ UNCHANGED node
       ELSE node' = "stopping" /\ model' = 1
    /\ UNCHANGED <<call, unread, tallies, outcome, talkVars, customerVars>>

\* The last model is unavailable, or any model fails in another way.
Raises == node = "agent" /\ Over("raised")

\* The model answers in words.
Concludes ==
    /\ node = "agent"
    /\ node' = "stopping" /\ model' = 1
    /\ UNCHANGED <<call, unread, tallies, outcome, talkVars, customerVars>>

Cycling(s) ==
    /\ Len(s) = 2 * CycleSpan
    /\ SubSeq(s, 1, CycleSpan) = SubSeq(s, CycleSpan + 1, 2 * CycleSpan)

\* should_continue: at the cap one call that finishes something may pass;
\* below it a run is cut that goes in circles.
MayGoOn(n, s, t) ==
    IF n >= MaxTurns THEN n = MaxTurns /\ t \in Finishing ELSE ~Cycling(s)

\* The model asks for a call.
Proposes(c) ==
    /\ node = "agent"
    /\ turns' = Capped(turns + 1, MaxTurns + 1)
    /\ LET all == Append(names, c[1])
           s == IF Len(all) > 2 * CycleSpan THEN Tail(all) ELSE all
       IN /\ names' = s
          /\ node' = IF MayGoOn(turns', s, c[1]) THEN "guard" ELSE "stopping"
    /\ call' = c /\ model' = 1
    /\ UNCHANGED <<unread, asked, count, blocked, done, closed, outcome, dangling,
                   plain, customerVars>>

-----------------------------------------------------------------------------
\* tool_repetition_guard.

\* Defect: only the number of calls is looked at.
RepeatedOften(c) == c[1] \notin Recheckable /\ count[c[1]] >= DoomLimit

Repeated(c) ==
    /\ c[1] \notin Recheckable
    /\ c \in asked \/ count[c[1]] >= DoomLimit

Recorded ==
    /\ asked' = asked \cup {call}
    /\ count' = [count EXCEPT ![call[1]] = Capped(@ + 1, DoomLimit)]

\* The pending call is answered by a refusal and the model is asked again.
Refused == node' = "agent" /\ call' = None

GuardStops ==
    /\ node = "guard" /\ plain >= ErrorLimit
    /\ node' = "stopping" /\ call' = None
    /\ UNCHANGED <<model, unread, tallies, outcome, talkVars, customerVars>>

\* Defect: one blocked round too many.
GuardBlocksLonger ==
    /\ node = "guard" /\ plain < ErrorLimit /\ Repeated(call)
    /\ Recorded
    /\ blocked' = blocked + 1
    /\ node' = IF blocked < BlockedLimit THEN "agent" ELSE "stopping"
    /\ call' = None
    /\ UNCHANGED <<model, unread, turns, done, closed, outcome, talkVars,
                   customerVars>>

GuardBlocks ==
    /\ node = "guard" /\ plain < ErrorLimit /\ Repeated(call)
    /\ Recorded
    /\ blocked' = blocked + 1
    /\ node' = IF blocked + 1 < BlockedLimit THEN "agent" ELSE "stopping"
    /\ call' = None
    /\ UNCHANGED <<model, unread, turns, done, closed, outcome, talkVars,
                   customerVars>>

GuardPasses ==
    /\ node = "guard" /\ plain < ErrorLimit /\ ~Repeated(call)
    /\ Recorded
    /\ blocked' = 0
    /\ node' = "policy"
    /\ UNCHANGED <<model, call, unread, turns, done, closed, outcome, talkVars,
                   customerVars>>

-----------------------------------------------------------------------------
\* policy_gate, human_approval_gate.

\* Defect: the day's count is forgotten.
MayContactByGap(entries) == ~fresh

\* FrequencyCapGuardrail: the day's count, then the gap.
MayContact(entries) == entries < MaxContacts /\ ~fresh

\* The other checks of evaluate_tool_call.  The hour and the email allowance
\* are read as they are; nothing in the code sets the opt-out of a profile, and
\* no attempt is ever recorded as the retry the double-debit lock looks for.
OutOfEmails(t, allowance) == t = "notify" /\ ~allowance
QuietHours(t, night) == t = "call" /\ night
OverCap(t, entries) == t \in Communicating /\ ~MayContact(entries)
Barred(t) == t = "retry" /\ RetryBarred

\* The profile has one entry for each channel a counted message went out on.
\* If it cannot be loaded, or the case's customer cannot, the cap is passed.
Window == own["counted"] + own["unread"] + others

Policy ==
    /\ node = "policy"
    /\ \E night, allowance, loaded \in BOOLEAN, entries \in Window..2 * Window :
           /\ ~loaded => Bounded
           /\ IF \/ OutOfEmails(call[1], allowance) \/ QuietHours(call[1], night)
                 \/ (loaded /\ OverCap(call[1], entries)) \/ Barred(call[1])
              THEN Refused /\ UNCHANGED unread
              ELSE /\ node' = "approval" /\ UNCHANGED call
                   /\ unread' = (~loaded /\ call[1] \in Messages)
    /\ UNCHANGED <<model, tallies, outcome, talkVars, customerVars>>

\* A link that gives away more than the ceiling is refused.
Approval ==
    /\ node = "approval"
    /\ \/ node' = "tools" /\ UNCHANGED call
       \/ call[1] = "link" /\ Refused
    /\ UNCHANGED <<model, unread, tallies, outcome, talkVars, customerVars>>

-----------------------------------------------------------------------------
\* The tools, and mask_tool_outputs_node.

\* Does the run end with this result (_route_after_tools)?
Wraps(t, delivered) == t \in {"wait", "close"} \/ (t = "push" /\ delivered)

Answered == call' = None /\ unread' = FALSE

\* If the answer is an error the guard may be able to read it, or not.
ErrorAnswered == plain' \in {plain, Capped(plain + 1, ErrorLimit)}

Works ==
    /\ node = "tools" /\ call[1] \notin Messages
    /\ \E delivered \in BOOLEAN :
           /\ node' = IF Wraps(call[1], delivered) THEN "lastMask" ELSE "mask"
           /\ closed' = (closed \/ (call[1] = "close" /\ delivered))
    /\ done' = done \cup {call} /\ Answered
    /\ UNCHANGED <<model, asked, count, turns, blocked, outcome, talkVars, customerVars>>

\* The tool answers with an error, or raises and the node answers for it.
Fails ==
    /\ node = "tools"
    /\ ErrorAnswered
    /\ node' = IF Wraps(call[1], FALSE) THEN "lastMask" ELSE "mask"
    /\ done' = done \cup {call} /\ Answered
    /\ UNCHANGED <<model, asked, count, turns, blocked, closed, outcome, names, dangling,
                   customerVars>>

\* A message is out; nothing of it is written down yet.
Sends ==
    /\ node = "tools" /\ call[1] \in Messages
    /\ node' = "count"
    /\ done' = done \cup {call}
    /\ UNCHANGED <<model, call, unread, asked, count, turns, blocked, closed, outcome,
                   talkVars, customerVars>>

\* _record_contact, which swallows its errors, amid steps whose errors are the
\* tool's answer.
Counts ==
    /\ node = "count"
    /\ \E kind \in {"lost", IF unread THEN "unread" ELSE "counted"} :
           /\ kind = "lost" => unread \/ Bounded
           /\ own' = [own EXCEPT ![kind] = @ + 1]
           /\ fresh' = (fresh \/ kind # "lost")
    /\ ErrorAnswered
    /\ node' = "mask" /\ Answered
    /\ UNCHANGED <<model, tallies, outcome, names, dangling, others>>

\* Every failure in the session is marked, and then is no longer what the
\* guard looks for.
Mask ==
    /\ node \in {"mask", "lastMask"}
    /\ node' = IF node = "mask" THEN "agent" ELSE "stopping"
    /\ plain' = 0
    /\ UNCHANGED <<runVars, outcome, names, dangling, customerVars>>

-----------------------------------------------------------------------------
\* stopping_check and self_critique: a case that came to an end which the
\* agent did not declare is reflected on.
Stops ==
    /\ node = "stopping"
    /\ \/ /\ ~closed
          /\ node' = "critique"
          /\ UNCHANGED <<runVars, outcome, talkVars, customerVars>>
       \/ Over("ended")

Critique == node = "critique" /\ Over("ended")

\* The process dies.  The session is kept in a file, node by node; what the
\* tools have done may not be in it yet, and a message that is out is not
\* counted.
Crash ==
    /\ node # "idle"
    /\ node' = "idle" /\ outcome' = "crashed"
    /\ dangling' \in {LeftDangling} \cup
                     (IF node \in {"mask", "lastMask"} THEN {TRUE} ELSE {})
    /\ IF node = "count" THEN (unread \/ Bounded) /\ own' = [own EXCEPT !["lost"] = @ + 1]
       ELSE UNCHANGED own
    /\ Afresh
    /\ UNCHANGED <<names, plain, others, fresh>>

-----------------------------------------------------------------------------
\* The customer and their other cases.

GapPasses == fresh /\ fresh' = FALSE /\ UNCHANGED <<own, others>>

\* A message is a day old.
Ages ==
    /\ ~fresh
    /\ \/ \E k \in Kinds : own[k] > 0 /\ own' = [own EXCEPT ![k] = @ - 1]
          /\ UNCHANGED others
       \/ others > 0 /\ others' = others - 1 /\ UNCHANGED own
    /\ UNCHANGED fresh

\* The run of another case was let through, perhaps together with this one; or
\* a batch run, which looks at a store of profiles it has just made, empty.
OthersSend ==
    /\ Bounded
    /\ others' = others + 1 /\ fresh' = TRUE
    /\ UNCHANGED own

\* The process starts again and a contact is gone, of which only memory knew:
\* an error in writing the profiles is printed and no more.
Forgotten ==
    /\ node = "idle" /\ own["counted"] > 0 /\ Bounded
    /\ own' = [own EXCEPT !["counted"] = @ - 1, !["lost"] = @ + 1]
    /\ fresh' \in {fresh, FALSE}
    /\ UNCHANGED others

Customer ==
    /\ GapPasses \/ Ages \/ OthersSend \/ Forgotten
    /\ UNCHANGED <<node, runVars, outcome, talkVars>>

-----------------------------------------------------------------------------
Turn ==
    \/ Unavailable \/ BadRequest \/ Raises \/ Concludes
    \/ \E c \in Calls : Proposes(c)

Gates == GuardStops \/ GuardBlocks \/ GuardPasses \/ Policy \/ Approval

Step == Turn \/ Gates \/ Works \/ Fails \/ Sends \/ Counts \/ Mask \/ Stops \/ Critique

Next == Start \/ Step \/ Crash \/ Customer

\* A run's thread is scheduled; when a run begins nobody promises.
Spec == Init /\ [][Next]_vars /\ WF_vars(Step)

-----------------------------------------------------------------------------
Executes == node = "tools" /\ node' \in {"count", "mask", "lastMask"}

\* No run executes the same call twice, or a tool more often than the limit,
\* unless asking again is the point: not after a refusal, a failure or a
\* blocked round in between.
LoopsAreCut ==
    /\ [][Executes /\ call[1] \notin Recheckable => call \notin done]_vars
    /\ [](\A t \in Tools \ Recheckable : Cardinality({c \in done : c[1] = t}) <= DoomLimit)

Sent == own["counted"] + Stray

\* A session keeps to the cap on messages, on whatever channels they go out,
\* however its runs end and whoever else writes to the customer: it exceeds it
\* by no more messages than were let through with no profile to read or are not
\* in the profile.
CapHolds == Sent <= MaxContacts + Stray

\* A run comes to an end, whatever the model proposes, with any model of the
\* chain failing in any way.
RunEnds == node # "idle" ~> node = "idle"

-----------------------------------------------------------------------------
\* What the code says and does not keep.

\* "Every blocked call still needs a tool_result, or the next LLM call fails"
\* and "Repair it in one place so every caller is safe" (_pair_tool_calls).
HistoryIsWellFormed == ~dangling

Dropped == node = "agent" /\ node' = "stopping" /\ call' # None

\* "Turns are counted PER RUN, not per session": a run is cut for its own
\* calls only.
CutForItsOwnCalls ==
    [][Dropped => turns' >= MaxTurns \/ turns' >= 2 * CycleSpan]_vars

\* "Error limit: 5+ tool errors -> force stop": an error that has been counted
\* once goes on counting.
ErrorsStopTheRun == [][plain' >= plain]_vars

\* "All fallback models exhausted - return error response instead of crashing".
OutageIsAnswered == outcome # "raised"

\* "Maximum 2 communications per customer per 24-hour window".
CapIsACap == Sent + others <= MaxContacts

\* Nor does one session alone keep to it.
SessionKeepsTheCap == Sent <= MaxContacts
=============================================================================
