------------------------------ MODULE HandOff ------------------------------
(***************************************************************************)
(* How a signal about a case reaches the agent (frontend.py).  Handlers    *)
(* and background tasks are threads.  A thread that observes something --  *)
(* a push outcome, an elapsed wait, a payment -- calls _handoff_to_agent,  *)
(* which flags the occurrence on the record and starts                     *)
(* run_agent_for_payment; that admits one run per case through the set     *)
(* active_agent_payments, and a hand-off that finds the case busy waits    *)
(* up to 180 seconds, then clears its flag and gives up.                   *)
(*                                                                         *)
(* The two check-then-act windows -- flag not set, then set it; case not   *)
(* active, then add it -- have no lock around them: other threads move     *)
(* while one is inside, and two may be.                                    *)
(***************************************************************************)
EXTENDS Naturals

CONSTANTS Cases,
          Signals,       \* occurrences that are handed to the agent
          Closing,       \* the signals that say the money is in
          ScenarioOf,    \* the name the flag of a signal starts with
          OneShot,       \* signals whose event is observed only once, such
                         \* as a push outcome; a watcher's is observed again
          Direct,        \* a start that is no hand-off (failure, skip, simulate)
          Threads,
          DirectStarts   \* may the endpoints start runs directly?

ASSUME SignalsAssumption ==
    /\ Direct \notin Signals
    /\ Closing \subseteq Signals
    /\ OneShot \subseteq Signals
    /\ DOMAIN ScenarioOf = Signals
    /\ \A s, r \in Signals :      \* only push outcomes share a scenario
           ScenarioOf[s] = ScenarioOf[r] => s = r \/ s \in OneShot
ASSUME FlagsAssumption == DirectStarts \in BOOLEAN

VARIABLES ending,   \* ending[c] : is the case open, recovered, escalated, closed
          contact,  \* the cases with an email address or a phone on file
          flags,    \* the handoff_ keys that are set, as <<case, signal>>
          active,   \* active_agent_payments
          thread,   \* where each thread is, and what it carries
          emitted,  \* history: the one-shot signals that were observed
          heard,    \* history: how many runs were started for a signal (0..2)
          muted,    \* history: flagged, but there was nobody to contact
          crowded,  \* history: the cases two threads were about to add at
                    \* once, until the last of their runs is over
          doubled   \* history: the pairs two threads were about to flag

races == <<crowded, doubled>>
vars == <<ending, contact, flags, active, thread, emitted, heard, muted, races>>

Endings == {"open", "recovered", "escalated", "closed"}
Pairs == Cases \X Signals

\* "flag" and "add" are inside a check-then-act window; "retest" is the second
\* look at the active set after the wait.
Places == {"flag", "enter", "wait", "retest", "add", "run"}
Idle == [at |-> "idle"]
Busy == {b \in [at : Places, case : Cases, sig : Signals \cup {Direct}] :
            b.at \in {"flag", "wait", "retest"} => b.sig # Direct}

TypeOK ==
    /\ ending \in [Cases -> Endings]
    /\ contact \subseteq Cases
    /\ flags \subseteq Pairs
    /\ active \subseteq Cases
    /\ thread \in [Threads -> Busy \cup {Idle}]
    /\ emitted \subseteq Pairs
    /\ heard \in [Pairs -> 0..2]
    /\ muted \subseteq Pairs
    /\ crowded \subseteq Cases /\ doubled \subseteq Pairs

Init ==
    /\ ending = [c \in Cases |-> "open"]
    /\ contact \in SUBSET Cases
    /\ flags = {}
    /\ active = {}
    /\ thread = [t \in Threads |-> Idle]
    /\ emitted = {}
    /\ heard = [p \in Pairs |-> 0]
    /\ muted = {}
    /\ crowded = {} /\ doubled = {}

-----------------------------------------------------------------------------
At(t, place) == thread[t].at = place
On(t, c) == thread[t].at # "idle" /\ thread[t].case = c
Pair(t) == <<thread[t].case, thread[t].sig>>

Goto(t, place) == thread' = [thread EXCEPT ![t].at = place]

\* Defect: a thread that ends keeps what it carried.
StopLoaded(t) == thread' = [thread EXCEPT ![t].at = "idle"]

Stop(t) == thread' = [thread EXCEPT ![t] = Idle]

\* Another thread is at this place for the case, or for the pair.
Others(t, place, c) == \E u \in Threads \ {t} : At(u, place) /\ On(u, c)
OthersFlag(t, p) == \E u \in Threads \ {t} : At(u, "flag") /\ Pair(u) = p

\* A thread has found the case free and is about to add it.
Admit(t) ==
    /\ thread[t].case \notin active
    /\ Goto(t, "add")
    /\ crowded' = crowded \cup
                    {c \in {thread[t].case} : Others(t, "add", c)}

\* An endpoint starts run_agent_for_payment without a hand-off; the webhook's
\* payment.failed makes an escalated case `recovering` on the way.
Reopened(c) == [ending EXCEPT ![c] = IF @ = "escalated" THEN "open" ELSE @]

Start(t, c) ==
    /\ DirectStarts
    /\ At(t, "idle")
    /\ thread' = [thread EXCEPT ![t] =
                    [at |-> "enter", case |-> c, sig |-> Direct]]
    /\ ending' \in {ending, Reopened(c)}
    /\ UNCHANGED <<contact, flags, active, emitted, heard, muted, races>>

\* Defect: the flag of the occurrence is not looked at.
RefusedIfSettled(c, s) ==
    \/ ending[c] \in {"recovered", "escalated"} /\ s \notin Closing
    \/ ending[c] = "closed"

\* _handoff_to_agent refuses a settled case, except for the run that closes a
\* recovered one, and an occurrence whose flag is set.
Refused(c, s) ==
    \/ ending[c] \in {"recovered", "escalated"} /\ s \notin Closing
    \/ ending[c] = "closed"
    \/ <<c, s>> \in flags

Observe(t, c, s) ==
    /\ At(t, "idle")
    /\ s \in OneShot => <<c, s>> \notin emitted
    /\ s \in Closing => ending[c] \in {"recovered", "closed"}
    /\ emitted' = emitted \cup {<<c, s>>}
    /\ IF Refused(c, s)
       THEN UNCHANGED <<thread, doubled>>
       ELSE /\ thread' = [thread EXCEPT ![t] =
                            [at |-> "flag", case |-> c, sig |-> s]]
            /\ doubled' = doubled \cup {p \in {<<c, s>>} : OthersFlag(t, p)}
    /\ UNCHANGED <<ending, contact, flags, active, heard, muted, crowded>>

\* The flag is written before the look for somebody to contact.
Flag(t) ==
    /\ At(t, "flag")
    /\ flags' = flags \cup {Pair(t)}
    /\ IF thread[t].case \in contact
       THEN Goto(t, "enter") /\ UNCHANGED muted
       ELSE Stop(t) /\ muted' = muted \cup {Pair(t)}
    /\ UNCHANGED <<ending, contact, active, emitted, heard, races>>

\* The first look at the active set: a repeated start is dropped, a hand-off
\* queues.
Enter(t) ==
    /\ At(t, "enter")
    /\ \/ Admit(t)
       \/ /\ thread[t].case \in active
          /\ IF thread[t].sig = Direct THEN Stop(t) ELSE Goto(t, "wait")
          /\ UNCHANGED crowded
    /\ UNCHANGED <<ending, contact, flags, active, emitted, heard, muted, doubled>>

\* Defect: the loop has no time limit.
LeaveWaitWhenFree(t) ==
    /\ At(t, "wait")
    /\ thread[t].case \notin active
    /\ Goto(t, "retest")
    /\ UNCHANGED <<ending, contact, flags, active, emitted, heard, muted, races>>

\* The loop is left when the case is free or after 180 seconds, whichever
\* comes first, so it may be left at any time.
LeaveWait(t) ==
    /\ At(t, "wait")
    /\ Goto(t, "retest")
    /\ UNCHANGED <<ending, contact, flags, active, emitted, heard, muted, races>>

\* Every key that starts with the scenario's name is cleared: all push
\* outcomes at once, the other signals one by one.
Released(t) ==
    {p \in flags : /\ p[1] = thread[t].case
                   /\ ScenarioOf[p[2]] = ScenarioOf[thread[t].sig]}

\* Defect: a hand-off that waited in vain leaves its flag set.
RetestKeepsFlag(t) ==
    /\ At(t, "retest")
    /\ \/ Admit(t)
       \/ thread[t].case \in active /\ Stop(t) /\ UNCHANGED crowded
    /\ UNCHANGED <<flags, ending, contact, active, emitted, heard, muted, doubled>>

\* Defect: after the wait the second look at the active set is skipped.
RetestSkipped(t) ==
    /\ At(t, "retest")
    /\ Goto(t, "add")
    /\ UNCHANGED <<flags, ending, contact, active, emitted, heard, muted, races>>

Retest(t) ==
    /\ At(t, "retest")
    /\ \/ Admit(t) /\ UNCHANGED flags
       \/ /\ thread[t].case \in active
          /\ flags' = flags \ Released(t)
          /\ Stop(t) /\ UNCHANGED crowded
    /\ UNCHANGED <<ending, contact, active, emitted, heard, muted, doubled>>

Add(t) ==
    /\ At(t, "add")
    /\ active' = active \cup {thread[t].case}
    /\ Goto(t, "run")
    /\ heard' = IF thread[t].sig = Direct \/ heard[Pair(t)] = 2 THEN heard
                ELSE [heard EXCEPT ![Pair(t)] = @ + 1]
    /\ UNCHANGED <<ending, contact, flags, emitted, muted, races>>

\* The last run of a case, with nobody about to begin another.
LeftAlone(t, c) == ~ (Others(t, "add", c) \/ Others(t, "run", c))
Cleared(t) == crowded' = crowded \ {c \in {thread[t].case} : LeftAlone(t, c)}

\* However the run ends, `finally` discards the case.
Finish(t) ==
    /\ At(t, "run")
    /\ active' = active \ {thread[t].case}
    /\ Stop(t) /\ Cleared(t)
    /\ UNCHANGED <<ending, contact, flags, emitted, heard, muted, doubled>>

\* The money arrives, a ticket is filed, or the case is closed, by a run, an
\* operator, a poller or the gateway.
Settle(c) ==
    /\ \/ ending[c] \in {"open", "escalated"}
          /\ ending' = [ending EXCEPT ![c] = "recovered"]
       \/ ending[c] = "open" /\ ending' = [ending EXCEPT ![c] = "escalated"]
       \/ ending[c] # "closed" /\ ending' = [ending EXCEPT ![c] = "closed"]
    /\ UNCHANGED <<contact, flags, active, thread, emitted, heard, muted, races>>

\* A later failure or run brings the customer's contact.
LearnContact(c) ==
    /\ c \notin contact
    /\ contact' = contact \cup {c}
    /\ UNCHANGED <<ending, flags, active, thread, emitted, heard, muted, races>>

-----------------------------------------------------------------------------
Steps(t) == Flag(t) \/ Enter(t) \/ LeaveWait(t) \/ Retest(t) \/ Add(t)

Next ==
    \/ \E t \in Threads :
          \/ \E c \in Cases : Start(t, c) \/ \E s \in Signals : Observe(t, c, s)
          \/ Steps(t)
          \/ Finish(t)
    \/ \E c \in Cases : Settle(c) \/ LearnContact(c)

Spec == Init /\ [][Next]_vars

\* Threads are scheduled by the operating system.  Nothing is assumed of a
\* run: the model, a gateway or a tool may keep it from ever finishing.
FairSpec == Spec /\ \A t \in Threads : WF_vars(Steps(t))

-----------------------------------------------------------------------------
(* Properties                                                              *)

\* On its way to a run: flagged or about to be, started, or queued.
Carries(t, p) == thread[t].at \notin {"idle", "run"} /\ Pair(t) = p

\* "Never silently swallow it" (frontend.py:1754): a hand-off whose flag is
\* set was given to a run, is on its way to one, or had nobody to contact;
\* the flag of one that gave up is cleared, so that a later signal can act.
NotSwallowed ==
    \A p \in flags : \/ heard[p] > 0
                     \/ p \in muted
                     \/ \E t \in Threads : Carries(t, p)

Together(c) ==
    \E t \in Threads : At(t, "run") /\ On(t, c) /\ Others(t, "run", c)

\* "only one may hold a payment" (frontend.py:1734): two agent runs on one
\* case would interleave on the same conversation thread.  They meet only if,
\* since the case was last left alone, two threads had tested the active set
\* before either had added the case: no wait, retry, reopened or hung run lets
\* a second one in, and once the runs that met are over the guard is whole.
RunsMeetByRace == \A c \in Cases : Together(c) => c \in crowded

\* The flag "stops a single event firing twice" (frontend.py:604): however
\* often an occurrence is observed, and however often a hand-off gives up and
\* is observed again, it gets a second run only if two threads had looked at
\* its flag before either had set it.
HeardTwiceByRace == \A p \in Pairs : heard[p] > 1 => p \in doubled

\* Even if the run it waits for never ends, a hand-off is answered: it gets a
\* run, or its flag is cleared for a later signal.
HandOffIsAnswered ==
    \A c \in Cases, s \in Signals :
        <<c, s>> \in flags
            ~> heard[<<c, s>>] > 0 \/ <<c, s>> \in muted \/ <<c, s>> \notin flags

-----------------------------------------------------------------------------
(* What the code says and does not keep.                                   *)

\* Only one run may hold a payment.
OneRunAtATime == \A c \in Cases : ~ Together(c)

\* An event never fires twice.
HeardOnce == \A p \in Pairs : heard[p] <= 1

\* "A closure it declared explicitly is a decision ... a late timer or a stray
\* push outcome must not restart it" (frontend.py:582): no run begins on a
\* case that is closed.
ClosedStartsNoRun ==
    [][\A t \in Threads :
          At(t, "add") /\ thread'[t].at = "run"
              => ending[thread[t].case] # "closed"]_vars

-----------------------------------------------------------------------------
(* The inductive invariants.                                               *)

\* About to take the case, or at it.
Holds(t, c) == On(t, c) /\ thread[t].at \in {"add", "run"}

\* A case that is not crowded is held by one thread, and is in the active set
\* from the moment that thread's run begins.
RunInv ==
    \A c \in Cases \ crowded : \A t \in Threads :
        /\ At(t, "run") /\ On(t, c) => c \in active
        /\ Holds(t, c) => \A u \in Threads \ {t} : ~ Holds(u, c)

CarriedOnce ==
    \A p \in Pairs \ doubled, t, u \in Threads :
        Carries(t, p) /\ Carries(u, p) => t = u

CarriedIsUnheard ==
    \A p \in Pairs \ doubled, t \in Threads : Carries(t, p) => heard[p] = 0

OneShotIsEmitted ==
    \A p \in Pairs :
        /\ p[2] \in OneShot
        /\ heard[p] > 0 \/ \E t \in Threads : Carries(t, p)
        => p \in emitted

OthersAreFlagged ==
    \A p \in Pairs \ doubled :
        /\ p[2] \notin OneShot
        /\ heard[p] > 0 \/ \E t \in Threads : Carries(t, p) /\ ~At(t, "flag")
        => p \in flags

\* Unless its flag was raced for, an occurrence is carried by one thread and
\* unheard until its run starts; from then on its flag, or the end of its
\* event, keeps it from coming again.
HeardInv ==
    CarriedOnce /\ CarriedIsUnheard /\ OneShotIsEmitted /\ OthersAreFlagged
        /\ HeardTwiceByRace
=============================================================================
