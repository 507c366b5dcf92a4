---------------------------- MODULE CaseRunProofs ----------------------------
(***************************************************************************)
(* What is proved of CaseRun, for any customer, deployment and number of   *)
(* runs: the endings a case shows are true, one that was paid is left      *)
(* alone, a ticket comes last, the record keeps its form, and of a         *)
(* customer who can be reached a payment gets its case closed.             *)
(***************************************************************************)
EXTENDS CaseRun, SequenceTheorems, WellFoundedInduction, TLAPS

\* A record whose endings are true, t saying whether there is a ticket.
Sound(r, t) ==
    /\ {"status", "paid", "closed"} \subseteq DOMAIN r
    /\ r.status = "recovered" <=> r.paid
    /\ r.closed = "recovered" => r.paid
    /\ r.closed = "escalated" => t

\* The inductive invariant.  A run carries the status its case had when it
\* began into the status it ends with: of a case that was not paid it must not
\* carry recovered.
SoundInv ==
    /\ Sound(rec, ticket)
    /\ "was" \in DOMAIN run
    /\ run.was = "recovered" => rec.paid

\* A record that differs in no field an ending is read from.
Same(r, q) ==
    /\ DOMAIN r = DOMAIN q
    /\ r.status = q.status /\ r.paid = q.paid /\ r.closed = q.closed

\* Fields that no ending is read from do not matter (the writes of the tools
\* to the ladder), and a ticket stays.
LEMMA SameIsSound ==
    ASSUME NEW r, NEW q, NEW t, NEW u, Sound(q, t), Same(r, q), t => u
    PROVE  Sound(r, u) /\ (r.paid <=> q.paid)
BY DEF Sound, Same

\* update_payment with a status: only that field changes, and recovered stays.
LEMMA WithStatusSound ==
    ASSUME NEW r, NEW t, NEW st, Sound(r, t), st = "recovered" => r.paid
    PROVE  Sound(WithStatus(r, st), t) /\ (WithStatus(r, st).paid <=> r.paid)
BY DEF Sound, WithStatus

\* A closure is as true as what it claims (close_case).
LEMMA CloseSound ==
    ASSUME NEW r, NEW t, NEW o, Sound(r, t),
           o = "recovered" => r.paid, o = "escalated" => t
    PROVE  Sound(CloseAs(r, o), t) /\ (CloseAs(r, o).paid <=> r.paid)
<1> DEFINE d == Disarmed(r)
           w == WithStatus(d, o)
<1>1. Sound(d, t) /\ (d.paid <=> r.paid)
  <2>1. Same(d, r)
    BY DEF Same, Disarmed, Sound
  <2> QED BY <2>1, SameIsSound
<1>2. Sound(w, t) /\ (w.paid <=> r.paid)
  <2>1. o = "recovered" => d.paid
    BY <1>1
  <2> HIDE DEF d
  <2> QED BY <1>1, <2>1, WithStatusSound
<1>3. CloseAs(r, o) = [w EXCEPT !.closed = o]
  BY DEF CloseAs
<1> HIDE DEF d, w
<1> QED BY <1>2, <1>3 DEF Sound

\* A hand-off sets a flag and nothing else (_handoff_to_agent).
LEMMA HandOffSound ==
    ASSUME NEW r, NEW t, NEW s, Sound(r, t), HandOff(r, s)
    PROVE  Sound(rec', t) /\ (rec'.paid <=> r.paid)
<1>1. Same(rec', r)
  BY DEF HandOff, Same, Sound
<1> QED BY <1>1, SameIsSound

\* A run reports recovered only of a case that was paid when it began.
LEMMA FinalRecovered ==
    ASSUME SoundInv, FinalStatus = "recovered"
    PROVE  rec.paid
<1>1. CaseStatus \in {"recovered", "escalated", "stopped", "awaiting", "acting"}
  BY DEF CaseStatus
<1>2. CASE CaseStatus = "recovered"
  <2>1. run.was = "recovered"
    BY <1>2 DEF CaseStatus
  <2> QED BY <2>1 DEF SoundInv
<1>3. CASE CaseStatus \in {"escalated", "stopped", "awaiting"}
  BY <1>3 DEF FinalStatus
<1>4. CASE CaseStatus = "acting"
  <2>1. rec.status = "recovered"
    BY <1>4 DEF FinalStatus
  <2> QED BY <2>1 DEF SoundInv, Sound
<1> QED BY <1>1, <1>2, <1>3, <1>4

LEMMA JudgedSound ==
    ASSUME SoundInv
    PROVE  Sound(Judged, ticket) /\ (Judged.paid <=> rec.paid)
<1>1. FinalStatus = "recovered" => rec.paid
  BY FinalRecovered
<1>2. Sound(rec, ticket)
  BY DEF SoundInv
<1> QED BY <1>1, <1>2, WithStatusSound DEF Judged

-----------------------------------------------------------------------------
\* A step that leaves the endings of the record, or what they rest on, alone.
LEMMA QuietStep ==
    ASSUME SoundInv, Same(rec', rec), ticket => ticket',
           "was" \in DOMAIN run', run'.was = "recovered" => rec.paid
    PROVE  SoundInv'
<1>1. Sound(rec', ticket') /\ (rec'.paid <=> rec.paid)
  BY SameIsSound DEF SoundInv
<1> QED BY <1>1 DEF SoundInv

\* What the customer, the clock and the operator do.
LEMMA WorldSound ==
    ASSUME SoundInv, World
    PROVE  SoundInv'
<1>0. Sound(rec, ticket) /\ "was" \in DOMAIN run
       /\ (run.was = "recovered" => rec.paid)
  BY DEF SoundInv
<1>1. CASE Presence
  BY <1>0, <1>1, QuietStep DEF Presence, Same, Sound
<1>2. CASE Pays
  <2> DEFINE r == [Disarmed(rec) EXCEPT !.status = "recovered", !.paid = TRUE]
  <2>1. Sound(r, ticket) /\ r.paid
    BY <1>0 DEF Sound, Disarmed
  <2>2. HandOff(r, "recovered") /\ UNCHANGED <<ticket, run>>
    BY <1>2 DEF Pays
  <2> HIDE DEF r
  <2>3. Sound(rec', ticket) /\ rec'.paid
    BY <2>1, <2>2, HandOffSound
  <2> QED BY <1>0, <2>2, <2>3 DEF SoundInv
<1>3. CASE \E a \in {"acted", "dismissed"} : PushAnswered(a)
  <2>1. rec' = rec \/ HandOff(rec, "push")
    BY <1>3 DEF PushAnswered
  <2>2. UNCHANGED <<ticket, run>>
    BY <1>3 DEF PushAnswered
  <2>3. Sound(rec', ticket) /\ (rec'.paid <=> rec.paid)
    BY <1>0, <2>1, HandOffSound
  <2> QED BY <1>0, <2>2, <2>3 DEF SoundInv
<1>4. CASE WatchEnds \/ WatchSeesFailure \/ WakeFires
  <2>1. PICK s : HandOff(rec, s)
    BY <1>4 DEF WatchEnds, WatchSeesFailure, WakeFires
  <2>2. UNCHANGED <<ticket, run>>
    BY <1>4 DEF WatchEnds, WatchSeesFailure, WakeFires
  <2>3. Sound(rec', ticket) /\ (rec'.paid <=> rec.paid)
    BY <1>0, <2>1, HandOffSound
  <2> QED BY <1>0, <2>2, <2>3 DEF SoundInv
<1>5. CASE RetryFires
  BY <1>0, <1>5, QuietStep DEF RetryFires, Same, Sound
<1>6. CASE \E a \in Said : Says(a)
  <2>1. PICK a \in Said : Says(a)
    BY <1>6
  <2> DEFINE r == [rec EXCEPT !.answer = a]
  <2>2. HandOff(r, "answer") /\ UNCHANGED run /\ (ticket => ticket')
    BY <2>1 DEF Says
  <2>3. Same(r, rec)
    BY <1>0 DEF Same, Sound
  <2> HIDE DEF r
  <2>4. Sound(r, ticket') /\ (r.paid <=> rec.paid)
    BY <1>0, <2>2, <2>3, SameIsSound
  <2>5. Sound(rec', ticket') /\ (rec'.paid <=> rec.paid)
    BY <2>2, <2>4, HandOffSound
  <2> QED BY <1>0, <2>2, <2>5 DEF SoundInv
<1>7. CASE \E l \in Marked : Marks(l)
  <2>1. PICK l \in Marked : Marks(l)
    BY <1>7
  <2> DEFINE q == [rec EXCEPT !.label = l,
                              !.optedOut = @ \/ l = "do_not_contact"]
             d == Disarmed(q)
             w == WithStatus(d, "settled_outside")
  <2>2. rec' = q \/ rec' = [w EXCEPT !.closed = "settled_outside"]
    BY <2>1 DEF Marks
  <2>3. UNCHANGED <<ticket, run>>
    BY <2>1 DEF Marks
  <2>4. Same(q, rec) /\ Same(d, q)
    BY <1>0 DEF Same, Sound, Disarmed
  <2> HIDE DEF q, d
  <2>5. Sound(q, ticket) /\ (q.paid <=> rec.paid)
    BY <1>0, <2>4, SameIsSound
  <2>6. Sound(d, ticket) /\ (d.paid <=> rec.paid)
    BY <2>4, <2>5, SameIsSound
  <2>7. Sound(w, ticket) /\ (w.paid <=> rec.paid)
    BY <2>6, WithStatusSound
  <2> HIDE DEF w
  <2>8. Sound(rec', ticket) /\ (rec'.paid <=> rec.paid)
    BY <2>2, <2>5, <2>7 DEF Sound
  <2> QED BY <1>0, <2>3, <2>8 DEF SoundInv
<1> QED BY <1>1, <1>2, <1>3, <1>4, <1>5, <1>6, <1>7 DEF World

-----------------------------------------------------------------------------
\* Starting a run, choosing a tool and having it refused.
LEMMA TurnSound ==
    ASSUME SoundInv,
           \/ \E s \in Scenarios : Begin(s)
           \/ \E t \in Tools : Choose(t)
           \/ Refuse
    PROVE  SoundInv'
<1>1. CASE \E s \in Scenarios : Begin(s)
  <2>1. UNCHANGED <<rec, ticket>> /\ "was" \in DOMAIN run' /\ run'.was = rec.status
    BY <1>1 DEF Begin, NoRun
  <2> QED BY <2>1 DEF SoundInv, Sound
<1>2. CASE \E t \in Tools : Choose(t)
  <2>1. UNCHANGED <<rec, ticket>> /\ DOMAIN run' = DOMAIN run
        /\ run'.was = run.was
    BY <1>2 DEF Choose, SoundInv
  <2> QED BY <2>1 DEF SoundInv
<1>3. CASE Refuse
  <2>1. UNCHANGED <<rec, ticket>> /\ DOMAIN run' = DOMAIN run
        /\ run'.was = run.was
    BY <1>3 DEF Refuse, SoundInv
  <2> QED BY <2>1 DEF SoundInv
<1> QED BY <1>1, <1>2, <1>3

\* The tools.  Only close_case touches what an ending is read from.
LEMMA ActsSound ==
    ASSUME SoundInv, Acts
    PROVE  SoundInv'
<1>0. Sound(rec, ticket) /\ "was" \in DOMAIN run
      /\ (run.was = "recovered" => rec.paid)
  BY DEF SoundInv
<1>1. CASE Look \/ LinksSpent \/ Quote \/ Push \/ Notify \/ Call \/ Retry \/ Wait
           \/ (\E r \in FullRoutes \cup LessRoutes : MintLink(r))
           \/ (\E discount \in BOOLEAN : Banner(discount))
  <2>1. Same(rec', rec) /\ UNCHANGED ticket
    <3>1. CASE Look \/ Quote \/ Wait
      BY <3>1 DEF Look, Quote, Wait, Same
    <3>2. CASE LinksSpent
      BY <1>0, <3>2 DEF LinksSpent, Same, Sound
    <3>3. CASE Push \/ Notify \/ Call
      BY <1>0, <3>3 DEF Push, Notify, Call, Reached, RecordContact, Climb, Same, Sound
    <3>4. CASE Retry
      BY <1>0, <3>4 DEF Retry, RecordContact, Climb, Same, Sound
    <3>5. CASE \E r \in FullRoutes \cup LessRoutes : MintLink(r)
      <4>1. PICK r \in FullRoutes \cup LessRoutes : MintLink(r)
        BY <3>5
      <4> DEFINE n == [rec EXCEPT !.tried = @ \cup {r}]
                 q == RecordRoute(rec, r)
      <4>2. Same(n, rec)
        BY <1>0 DEF Same, Sound
      <4>3. q = n \/ q = Climb(n, "alternate_path")
        BY DEF RecordRoute
      <4> HIDE DEF n
      <4>4. Same(q, rec)
        <5>1. CASE q = n
          BY <4>2, <5>1
        <5>2. CASE q = Climb(n, "alternate_path")
          BY <1>0, <4>2, <5>2 DEF Climb, Same, Sound
        <5> QED BY <4>3, <5>1, <5>2
      <4>5. rec' = [q EXCEPT !.awaiting = TRUE] /\ UNCHANGED ticket
        BY <4>1 DEF MintLink
      <4> HIDE DEF q
      <4> QED BY <1>0, <4>4, <4>5 DEF Same, Sound
    <3>6. CASE \E discount \in BOOLEAN : Banner(discount)
      <4>1. PICK k : rec' = Reached(rec, k) /\ UNCHANGED ticket
        BY <3>6 DEF Banner
      <4> QED BY <1>0, <4>1 DEF Reached, RecordContact, Climb, Same, Sound
    <3> QED BY <1>1, <3>1, <3>2, <3>3, <3>4, <3>5, <3>6
  <2>2. DOMAIN run' = DOMAIN run /\ run'.was = run.was
    <3>1. CASE Look \/ LinksSpent \/ Call
      BY <1>0, <3>1 DEF Look, LinksSpent, Call, Carried
    <3>2. CASE Quote \/ Wait
      BY <1>0, <3>2 DEF Quote, Wait, Carried
    <3>3. CASE Push \/ Notify \/ Retry
      BY <1>0, <3>3 DEF Push, Notify, Retry, Carried
    <3>4. CASE \E r \in FullRoutes \cup LessRoutes : MintLink(r)
      BY <1>0, <3>4 DEF MintLink, Carried
    <3>5. CASE \E discount \in BOOLEAN : Banner(discount)
      BY <1>0, <3>5 DEF Banner, Carried
    <3> QED BY <1>1, <3>1, <3>2, <3>3, <3>4, <3>5
  <2> QED BY <1>0, <2>1, <2>2, QuietStep
<1>2. CASE Escalate
  <2>1. rec' = rec /\ ticket' = TRUE
    BY <1>2 DEF Escalate
  <2>2. DOMAIN run' = DOMAIN run /\ run'.was = run.was
    BY <1>0, <1>2 DEF Escalate, Carried
  <2> QED BY <1>0, <2>1, <2>2, QuietStep DEF Same
<1>3. CASE \E o \in Outcomes \ {"settled_outside"} : Close(o)
  <2>1. PICK o \in Outcomes \ {"settled_outside"} : Close(o)
    BY <1>3
  <2>2. rec' = CloseAs(rec, o) /\ UNCHANGED ticket
    BY <2>1 DEF Close
  <2>3. (o = "recovered" => rec.paid) /\ (o = "escalated" => ticket)
    BY <1>0, <2>1 DEF Close, MayClose, Sound
  <2>4. Sound(rec', ticket) /\ (rec'.paid <=> rec.paid)
    BY <1>0, <2>2, <2>3, CloseSound
  <2>5. DOMAIN run' = DOMAIN run /\ run'.was = run.was
    BY <1>0, <2>1 DEF Close, Carried
  <2> QED BY <1>0, <2>2, <2>4, <2>5 DEF SoundInv
<1> QED BY <1>1, <1>2, <1>3 DEF Acts

-----------------------------------------------------------------------------
\* The net under a run closes nothing; it files a ticket, hands the next rung
\* on or fails the case.
LEMMA NetSound ==
    ASSUME NEW r, Sound(r, ticket), CastNet(r)
    PROVE  Sound(rec', ticket')
<1>1. CASE MayEscalate(r)
  <2>1. rec' = r /\ ticket'
    BY <1>1 DEF CastNet
  <2> QED BY <2>1 DEF Sound
<1>2. CASE ~MayEscalate(r) /\ Remaining(r) # {}
  <2>1. HandOff(r, NextRung(r)) /\ UNCHANGED ticket
    BY <1>2 DEF CastNet
  <2> QED BY <2>1, HandOffSound
<1>3. CASE ~MayEscalate(r) /\ Remaining(r) = {}
  <2>1. rec' = WithStatus(r, "failed") /\ UNCHANGED ticket
    BY <1>3 DEF CastNet
  <2> QED BY <2>1, WithStatusSound
<1> QED BY <1>1, <1>2, <1>3

\* A run that ends: the harness closes a case as recovered only when it was
\* paid, whatever the agent left behind.
LEMMA EndRunSound ==
    ASSUME SoundInv, EndRun
    PROVE  SoundInv'
<1> DEFINE r == Judged
<1>1. Sound(r, ticket)
  BY JudgedSound
<1>2. "was" \in DOMAIN run' /\ run'.was # "recovered"
  BY DEF EndRun, NoRun
<1>3. Sound(rec', ticket')
  <2>1. CASE r.paid \/ r.status = "recovered"
    <3>1. EndSettled(r)
      BY <2>1 DEF EndRun
    <3> HIDE DEF r
    <3>2. rec' = r \/ rec' = CloseAs(r, "recovered")
      BY <3>1 DEF EndSettled
    <3>3. UNCHANGED ticket
      BY <3>1 DEF EndSettled
    <3>4. r.paid
      BY <1>1, <2>1 DEF Sound
    <3> QED BY <1>1, <3>2, <3>3, <3>4, CloseSound
  <2>2. CASE ~(r.paid \/ r.status = "recovered")
    <3>1. CastNet(r) \/ (rec' = r /\ UNCHANGED ticket)
      BY <2>2 DEF EndRun
    <3> HIDE DEF r
    <3> QED BY <1>1, <3>1, NetSound
  <2> QED BY <2>1, <2>2
<1> QED BY <1>2, <1>3 DEF SoundInv

\* A run that raises fails the case at most, which no ending rests on.
LEMMA RunFailsSound ==
    ASSUME SoundInv, RunFails
    PROVE  SoundInv'
<1>1. "was" \in DOMAIN run' /\ run'.was # "recovered"
  BY DEF RunFails, NoRun
<1>2. rec' = rec \/ rec' = WithStatus(rec, "failed")
  BY DEF RunFails
<1>3. UNCHANGED ticket
  BY DEF RunFails
<1>4. Sound(rec', ticket')
  BY <1>2, <1>3, WithStatusSound DEF SoundInv
<1> QED BY <1>1, <1>4 DEF SoundInv

\* Every step, of the agent, the customer, the clock or the operator.
LEMMA StepSound ==
    ASSUME SoundInv, [Next]_vars
    PROVE  SoundInv'
<1>1. CASE Next
  BY <1>1, TurnSound, ActsSound, EndRunSound, RunFailsSound, WorldSound DEF Next
<1>2. CASE UNCHANGED vars
  BY <1>2 DEF vars, SoundInv, Sound
<1> QED BY <1>1, <1>2

\* No ending is only claimed, and none is forgotten, for any ladder, customer,
\* operator and number of runs, whatever the agent proposes and whether runs
\* raise or not.
THEOREM ClaimsBacked == Spec => []ClaimsAreBacked
<1>1. Init => SoundInv
  <2> SUFFICES ASSUME Init PROVE SoundInv
    OBVIOUS
  <2>1. rec.status = "working" /\ rec.paid = FALSE /\ rec.closed = "no"
    BY DEF Init
  <2>2. {"status", "paid", "closed"} \subseteq DOMAIN rec
    BY DEF Init
  <2>3. "was" \in DOMAIN run /\ run.was = "working"
    BY DEF Init, NoRun
  <2> QED BY <2>1, <2>2, <2>3 DEF SoundInv, Sound
<1>2. SoundInv /\ [Next]_vars => SoundInv'
  BY StepSound
<1>3. SoundInv => ClaimsAreBacked
  BY DEF SoundInv, Sound, ClaimsAreBacked
<1> QED BY <1>1, <1>2, <1>3, PTL DEF Spec
-----------------------------------------------------------------------------
\* The fields of a record that the ladder is read from.
LadderFields == {"cause", "label", "answer", "walked", "climbed", "spent",
                 "optedOut", "live", "retry"}

\* The inductive invariant of the ladder's properties: no step drops a field.
ShapeInv == LadderFields \cup {"status", "paid", "closed", "tried"} \subseteq DOMAIN rec

\* Whether a person may have the case depends on nothing else: not on the
\* status, which a run that ends has just written.
LEMMA LadderOfFields ==
    ASSUME NEW r, NEW q, \A f \in LadderFields : r[f] = q[f]
    PROVE  MayEscalate(r) <=> MayEscalate(q)
<1>1. /\ r.cause = q.cause /\ r.label = q.label /\ r.answer = q.answer
      /\ r.walked = q.walked /\ r.climbed = q.climbed /\ r.spent = q.spent
      /\ r.optedOut = q.optedOut /\ r.live = q.live /\ r.retry = q.retry
  BY DEF LadderFields
<1>2. KindOf(r) = KindOf(q)
  BY <1>1 DEF KindOf
<1>3. WholeLadder(r) = WholeLadder(q)
  BY <1>1, <1>2 DEF WholeLadder
<1>4. EntryRung(r) = EntryRung(q)
  BY <1>1 DEF EntryRung
<1>5. LadderOf(r) = LadderOf(q)
  <2> DEFINE Entry(w, e) == {i \in 1..Len(w) : w[i] = e}
             From(w, e) == IF Entry(w, e) = {} THEN w
                           ELSE SubSeq(w, CHOOSE i \in Entry(w, e) : TRUE, Len(w))
  <2>1. LadderOf(r) = From(WholeLadder(r), EntryRung(r))
    BY DEF LadderOf
  <2>2. LadderOf(q) = From(WholeLadder(q), EntryRung(q))
    BY DEF LadderOf
  <2> HIDE DEF From
  <2> QED BY <1>3, <1>4, <2>1, <2>2
<1>6. OnLadder(r) = OnLadder(q)
  BY <1>5, Zenon DEF OnLadder
<1>7. ASSUME NEW k PROVE Open(r, k) <=> Open(q, k)
  <2>1. Possible(r, k) <=> Possible(q, k)
    BY <1>1 DEF Possible, Vetoed
  <2> QED BY <1>1, <2>1 DEF Open
<1>8. Remaining(r) = Remaining(q)
  BY <1>6, <1>7, Zenon DEF Remaining
<1> QED BY <1>1, <1>8, Zenon DEF MayEscalate, Exhausted, PursuitBarred

\* A hand-off changes the field handed, if any.
LEMMA HandOffShape ==
    ASSUME NEW r, NEW s, HandOff(r, s)
    PROVE  /\ DOMAIN rec' = DOMAIN r
           /\ \A f \in DOMAIN r \ {"handed"} : rec'[f] = r[f]
BY DEF HandOff

LEMMA CloseShape ==
    ASSUME NEW r, NEW o
    PROVE  DOMAIN CloseAs(r, o) = DOMAIN r
BY DEF CloseAs, WithStatus, Disarmed

\* What the end of a run, or an error, does to the record.
LEMMA EndShape ==
    ASSUME ShapeInv, EndRun \/ RunFails
    PROVE  /\ DOMAIN rec' = DOMAIN rec
           /\ rec'.climbed = rec.climbed /\ rec'.tried = rec.tried
<1> DEFINE As(r) == /\ DOMAIN r = DOMAIN rec
                    /\ r.climbed = rec.climbed /\ r.tried = rec.tried
<1>1. ASSUME NEW r, As(r), NEW st PROVE As(WithStatus(r, st))
  BY <1>1 DEF WithStatus, ShapeInv, LadderFields
<1>2. ASSUME NEW r, As(r) PROVE As(CloseAs(r, "recovered"))
  BY <1>2 DEF CloseAs, WithStatus, Disarmed, ShapeInv, LadderFields
<1>3. ASSUME NEW r, As(r), CastNet(r) PROVE As(rec')
  <2>1. \/ rec' = r
        \/ HandOff(r, NextRung(r))
        \/ rec' = WithStatus(r, "failed")
    <3>1. CASE MayEscalate(r)
      BY <1>3, <3>1 DEF CastNet
    <3>2. CASE ~MayEscalate(r) /\ Remaining(r) # {}
      BY <1>3, <3>2 DEF CastNet
    <3>3. CASE ~MayEscalate(r) /\ Remaining(r) = {}
      BY <1>3, <3>3 DEF CastNet
    <3> QED BY <3>1, <3>2, <3>3
  <2>2. CASE HandOff(r, NextRung(r))
    BY <1>3, <2>2, HandOffShape DEF ShapeInv, LadderFields
  <2> QED BY <1>1, <1>3, <2>1, <2>2
<1>4. As(rec) /\ As(Judged)
  <2>1. As(rec)
    OBVIOUS
  <2> QED BY <1>1, <2>1 DEF Judged
<1> HIDE DEF As
<1>5. CASE EndRun
  <2> DEFINE r == Judged
  <2>1. rec' = r \/ rec' = CloseAs(r, "recovered") \/ CastNet(r)
    BY <1>5 DEF EndRun, EndSettled
  <2> HIDE DEF r
  <2>2. As(r)
    BY <1>4 DEF r
  <2> QED BY <1>2, <1>3, <2>1, <2>2 DEF As
<1>6. CASE RunFails
  <2>1. rec' = rec \/ rec' = WithStatus(rec, "failed")
    BY <1>6 DEF RunFails
  <2> QED BY <1>1, <1>4, <2>1 DEF As
<1> QED BY <1>5, <1>6

\* What the customer, the clock and the operator do leaves the ladder alone.
LEMMA WorldShape ==
    ASSUME ShapeInv, World
    PROVE  /\ DOMAIN rec' = DOMAIN rec
           /\ rec'.climbed = rec.climbed /\ rec'.tried = rec.tried
<1> DEFINE As(r) == /\ DOMAIN r = DOMAIN rec
                    /\ r.climbed = rec.climbed /\ r.tried = rec.tried
<1>1. ASSUME NEW r, NEW s, As(r), HandOff(r, s) PROVE As(rec')
  BY <1>1, HandOffShape DEF ShapeInv, LadderFields
<1>2. CASE Presence \/ RetryFires
  BY <1>2 DEF Presence, RetryFires, ShapeInv, LadderFields
<1>3. CASE Pays
  <2> DEFINE r == [Disarmed(rec) EXCEPT !.status = "recovered", !.paid = TRUE]
  <2>1. As(r)
    BY DEF Disarmed, ShapeInv, LadderFields
  <2>2. HandOff(r, "recovered")
    BY <1>3 DEF Pays
  <2> HIDE DEF r, As
  <2>3. As(rec')
    BY <1>1, <2>1, <2>2
  <2> QED BY <2>3 DEF As
<1>4. CASE \/ \E a \in {"acted", "dismissed"} : PushAnswered(a)
           \/ WatchEnds \/ WatchSeesFailure \/ WakeFires
  <2>1. rec' = rec \/ \E s : HandOff(rec, s)
    BY <1>4 DEF PushAnswered, WatchEnds, WatchSeesFailure, WakeFires
  <2> QED BY <1>1, <2>1
<1>5. CASE \E a \in Said : Says(a)
  <2>1. PICK a \in Said : Says(a)
    BY <1>5
  <2> DEFINE r == [rec EXCEPT !.answer = a]
  <2>2. As(r)
    BY DEF ShapeInv, LadderFields
  <2>3. HandOff(r, "answer")
    BY <2>1 DEF Says
  <2> HIDE DEF r, As
  <2>4. As(rec')
    BY <1>1, <2>2, <2>3
  <2> QED BY <2>4 DEF As
<1>6. CASE \E l \in Marked : Marks(l)
  BY <1>6 DEF Marks, WithStatus, Disarmed, ShapeInv, LadderFields
<1> QED BY <1>2, <1>3, <1>4, <1>5, <1>6 DEF World

\* A tool drops no field, and of a case that was paid it climbs no step that
\* makes a link or writes to anyone.
LEMMA ActsShape ==
    ASSUME ShapeInv, Acts
    PROVE  /\ DOMAIN rec' = DOMAIN rec
           /\ rec.paid =>
                /\ rec'.climbed \ rec.climbed \subseteq
                      {"page_push", "silent_retry", "alternate_path"}
                /\ rec'.tried \subseteq rec.tried \cup {"contact"}
<1>0. {"climbed", "tried", "paid"} \subseteq DOMAIN rec
  BY DEF ShapeInv, LadderFields
<1>1. CASE Look \/ Quote \/ Wait \/ Escalate
  BY <1>1 DEF Look, Quote, Wait, Escalate
<1>2. CASE LinksSpent
  BY <1>0, <1>2 DEF LinksSpent
<1>3. CASE Push
  BY <1>0, <1>3 DEF Push, RecordContact, Climb
<1>4. CASE Notify \/ Call
  BY <1>0, <1>4 DEF Notify, Call, Settled, Reached, RecordContact, Climb
<1>5. CASE Retry
  <2> DEFINE q == [rec EXCEPT !.retry = TRUE]
  <2>1. PICK k \in {"alternate_path", "silent_retry"} :
            rec' = RecordContact(Climb(q, k))
    BY <1>5 DEF Retry, RetryRung
  <2>2. rec'.climbed = rec.climbed \cup {k} /\ DOMAIN rec' = DOMAIN rec
        /\ rec'.tried = rec.tried \cup {"contact"}
    BY <1>0, <2>1 DEF RecordContact, Climb
  <2> QED BY <2>2
<1>6. CASE \E r \in FullRoutes \cup LessRoutes : MintLink(r)
  <2>1. PICK r \in FullRoutes \cup LessRoutes : MintLink(r)
    BY <1>6
  <2>2. ~rec.paid
    BY <2>1 DEF MintLink, Settled
  <2>3. DOMAIN rec' = DOMAIN RecordRoute(rec, r)
    BY <2>1 DEF MintLink
  <2>4. DOMAIN RecordRoute(rec, r) = DOMAIN rec
    BY DEF RecordRoute, Climb
  <2> QED BY <2>2, <2>3, <2>4
<1>7. CASE \E discount \in BOOLEAN : Banner(discount)
  <2>1. PICK k : rec' = Reached(rec, k) /\ ~Settled
    BY <1>7 DEF Banner
  <2> QED BY <2>1 DEF Settled, Reached, RecordContact, Climb
<1>8. CASE \E o \in Outcomes \ {"settled_outside"} : Close(o)
  <2>1. PICK o : rec' = CloseAs(rec, o)
    BY <1>8 DEF Close
  <2> QED BY <1>0, <2>1 DEF CloseAs, WithStatus, Disarmed
<1> QED BY <1>1, <1>2, <1>3, <1>4, <1>5, <1>6, <1>7, <1>8 DEF Acts

LEMMA StepShape ==
    ASSUME ShapeInv, [Next]_vars
    PROVE  ShapeInv'
<1>1. DOMAIN rec' = DOMAIN rec
  <2>1. CASE \/ \E s \in Scenarios : Begin(s)
             \/ \E t \in Tools : Choose(t)
             \/ Refuse \/ UNCHANGED vars
    BY <2>1 DEF Begin, Choose, Refuse, vars
  <2> QED BY <2>1, ActsShape, EndShape, WorldShape DEF Next
<1> QED BY <1>1 DEF ShapeInv

\* A customer who has paid is contacted no more, for any ladder and links and
\* any number of runs: _still_worth_doing is asked when a call is carried out,
\* not when it is proposed.
THEOREM PaidIsLeftAlone == Spec => PaidNotContacted
<1>1. Init => ShapeInv
  BY DEF Init, ShapeInv, LadderFields
<1>2. ShapeInv /\ [Next]_vars => ShapeInv'
  BY StepShape
<1>3. ShapeInv /\ [Next]_vars =>
        [rec.paid => /\ rec'.climbed \ rec.climbed \subseteq
                            {"page_push", "silent_retry", "alternate_path"}
                     /\ rec'.tried \subseteq rec.tried \cup {"contact"}]_vars
  <2> SUFFICES ASSUME ShapeInv, Next, rec.paid
               PROVE  /\ rec'.climbed \ rec.climbed \subseteq
                            {"page_push", "silent_retry", "alternate_path"}
                      /\ rec'.tried \subseteq rec.tried \cup {"contact"}
    OBVIOUS
  <2>1. CASE \/ \E s \in Scenarios : Begin(s)
             \/ \E t \in Tools : Choose(t)
             \/ Refuse
    BY <2>1 DEF Begin, Choose, Refuse
  <2>2. CASE Acts
    BY <2>2, ActsShape
  <2>3. CASE EndRun \/ RunFails \/ World
    BY <2>3, EndShape, WorldShape
  <2> QED BY <2>1, <2>2, <2>3 DEF Next
<1> QED BY <1>1, <1>2, <1>3, PTL DEF Spec, PaidNotContacted

\* A ticket comes last: whoever files it, the agent or the net under a run,
\* nothing is left to be tried, or the customer's answer asks for a person.
THEOREM TicketIsLast == Spec => TicketComesLast
<1>1. Init => ShapeInv
  BY DEF Init, ShapeInv, LadderFields
<1>2. ShapeInv /\ [Next]_vars => ShapeInv'
  BY StepShape
<1>3. ShapeInv /\ [Next]_vars =>
        [~ticket /\ ticket' => MayEscalate(rec) \/ rec'.answer = "other"]_vars
  <2> SUFFICES ASSUME ShapeInv, Next, ~ticket, ticket'
               PROVE  MayEscalate(rec) \/ rec'.answer = "other"
    OBVIOUS
  <2>1. CASE \/ \E s \in Scenarios : Begin(s)
             \/ \E t \in Tools : Choose(t)
             \/ Refuse \/ RunFails
    BY <2>1 DEF Begin, Choose, Refuse, RunFails
  <2>2. CASE Acts
    <3>1. Escalate
      BY <2>2 DEF Acts, Look, LinksSpent, Quote, Push, Notify, Call, Retry,
                  Wait, MintLink, Banner, Close
    <3> QED BY <3>1 DEF Escalate
  <2>3. CASE World
    <3>1. PICK a \in Said : Says(a)
      BY <2>3 DEF World, Presence, Pays, WatchEnds, WatchSeesFailure,
                  WakeFires, RetryFires, PushAnswered, Marks
    <3>2. a = "other" /\ HandOff([rec EXCEPT !.answer = a], "answer")
      BY <3>1 DEF Says
    <3> QED BY <3>2, HandOffShape DEF ShapeInv, LadderFields
  <2>4. CASE EndRun
    <3> DEFINE r == Judged
    <3>1. CastNet(r)
      BY <2>4 DEF EndRun, EndSettled
    <3>2. MayEscalate(r)
      <4>1. CASE ~MayEscalate(r) /\ Remaining(r) # {}
        BY <3>1, <4>1 DEF CastNet
      <4>2. CASE ~MayEscalate(r) /\ Remaining(r) = {}
        BY <3>1, <4>2 DEF CastNet
      <4> QED BY <4>1, <4>2
    <3>3. \A f \in LadderFields : r[f] = rec[f]
      BY DEF Judged, WithStatus, LadderFields, ShapeInv
    <3> HIDE DEF r
    <3> QED BY <3>2, <3>3, LadderOfFields
  <2> QED BY <2>1, <2>2, <2>3, <2>4 DEF Next
<1> QED BY <1>1, <1>2, <1>3, PTL DEF Spec, TicketComesLast

-----------------------------------------------------------------------------
\* A set of numbers that is not empty has a least one.
LEMMA LeastNumber ==
    ASSUME NEW S, S \subseteq Nat, S # {}
    PROVE  \E i \in S : \A j \in S : i <= j
<1> DEFINE Less == {p \in Nat \X Nat : p[1] < p[2]}
<1>1. IsWellFoundedOn(Less, Nat)
  BY NatLessThanWellFounded DEF OpToRel
<1>2. PICK x \in S : \A y \in S : <<y, x>> \notin Less
  <2> HIDE DEF Less
  <2> QED BY <1>1, WFMin
<1>3. ASSUME NEW y \in S PROVE x <= y
  <2>1. x \in Nat /\ y \in Nat /\ ~(y < x)
    BY <1>2
  <2> QED BY <2>1
<1> QED BY <1>3

\* Every ladder, entered wherever an answer says, is a ladder of rungs.
LEMMA KindIsKind ==
    ASSUME NEW c \in CaseRecord
    PROVE  KindOf(c) \in Kinds
<1>0. c.label \in Labels \cup {"none"} /\ c.answer \in Answers \cup {"none"}
      /\ c.cause \in Kinds
  BY DEF CaseRecord
<1>1. ASSUME NEW l \in Labels, LabelKind[l] # ""
      PROVE  LabelKind[l] \in Kinds
  <2>1. /\ LabelKind["promised_later"] = "funds"
        /\ LabelKind["instrument_broken"] = "method"
        /\ LabelKind["checkout_glitch"] = "transient"
        /\ LabelKind["too_expensive"] = "dropoff"
        /\ LabelKind["do_not_contact"] = ""
        /\ LabelKind["dispute"] = "risk"
        /\ LabelKind["paid_outside"] = ""
        /\ LabelKind["other"] = "unknown"
    BY DEF LabelKind
  <2> QED BY <1>1, <2>1 DEF Labels, Kinds
<1>2. ASSUME NEW a \in Answers, Meaning[a].kind # ""
      PROVE  Meaning[a].kind \in Kinds
  <2>1. /\ Meaning["no_balance"].kind = "funds"
        /\ Meaning["better_price"].kind = "dropoff"
        /\ Meaning["payment_kept_failing"].kind = "method"
        /\ Meaning["just_browsing"].kind = "dropoff"
        /\ Meaning["will_pay_later"].kind = "dropoff"
        /\ Meaning["other"].kind = ""
    BY DEF Meaning
  <2> QED BY <1>2, <2>1 DEF Answers, Kinds
<1> QED BY <1>0, <1>1, <1>2 DEF KindOf

LEMMA LadderOfRungs ==
    ASSUME NEW c \in CaseRecord
    PROVE  LadderOf(c) \in Seq(Rungs)
<1>1. WholeLadder(c) \in Seq(Rungs)
  <2>1. \A k \in Kinds : RungsByKind[k] \in Seq(Rungs)
    <3>1. /\ RungsByKind.dropoff \in Seq(Rungs)
          /\ RungsByKind.method \in Seq(Rungs)
          /\ RungsByKind.funds \in Seq(Rungs)
          /\ RungsByKind.transient \in Seq(Rungs)
          /\ RungsByKind.risk \in Seq(Rungs)
          /\ RungsByKind.unknown \in Seq(Rungs)
      BY DEF RungsByKind, Rungs
    <3> QED BY <3>1 DEF Kinds
  <2>2. Hesitant \in Seq(Rungs)
    BY DEF Hesitant, Rungs
  <2> QED BY <2>1, <2>2, KindIsKind DEF WholeLadder
<1> DEFINE w == WholeLadder(c)
           named == {i \in 1..Len(w) : w[i] = EntryRung(c)}
           from == CHOOSE i \in named : TRUE
<1>2. LadderOf(c) = IF named = {} THEN w ELSE SubSeq(w, from, Len(w))
  BY DEF LadderOf
<1>3. CASE named # {}
  <2>1. from \in 1..Len(w)
    BY <1>3
  <2> HIDE DEF named, from, w
  <2>2. w \in Seq(Rungs) /\ Len(w) \in Nat
    BY <1>1, LenProperties DEF w
  <2>3. SubSeq(w, from, Len(w)) \in Seq(Rungs)
    BY <2>1, <2>2, SubSeqProperties
  <2> QED BY <1>2, <1>3, <2>3
<1> QED BY <1>1, <1>2, <1>3

\* The rung the net hands on is one of them.
LEMMA NextRungIsRung ==
    ASSUME NEW c \in CaseRecord, Remaining(c) # {}
    PROVE  NextRung(c) \in Rungs
<1> DEFINE w == LadderOf(c)
           open == {i \in 1..Len(w) : Open(c, w[i])}
           i == CHOOSE x \in open : \A y \in open : x <= y
<1>1. w \in Seq(Rungs) /\ Len(w) \in Nat
  BY LadderOfRungs, LenProperties
<1>2. open # {} /\ open \subseteq Nat
  <2>1. PICK k : k \in OnLadder(c) /\ Open(c, k)
    BY DEF Remaining
  <2>2. PICK x \in 1..Len(w) : w[x] = k
    BY <2>1 DEF OnLadder
  <2> QED BY <1>1, <2>1, <2>2
<1>3. NextRung(c) = w[i]
  BY DEF NextRung
<1> HIDE DEF w
<1>4. i \in 1..Len(w)
  <2> HIDE DEF open
  <2>1. i \in open
    BY <1>2, LeastNumber
  <2> QED BY <2>1 DEF open
<1> HIDE DEF i
<1> QED BY <1>1, <1>3, <1>4, ElementOfSeq

-----------------------------------------------------------------------------
\* What the helpers make of a case record is a case record.
LEMMA RecordIsRecord ==
    ASSUME NEW r \in CaseRecord
    PROVE  /\ \A st \in Statuses : WithStatus(r, st) \in CaseRecord
           /\ Disarmed(r) \in CaseRecord
           /\ \A k \in Rungs : Climb(r, k) \in CaseRecord
           /\ RecordContact(r) \in CaseRecord
           /\ \A t \in FullRoutes \cup LessRoutes : RecordRoute(r, t) \in CaseRecord
<1>1. ASSUME NEW st \in Statuses PROVE WithStatus(r, st) \in CaseRecord
  BY DEF WithStatus, CaseRecord
<1>2. Disarmed(r) \in CaseRecord
  BY DEF Disarmed, CaseRecord
<1>3. ASSUME NEW q \in CaseRecord, NEW k \in Rungs
      PROVE  Climb(q, k) \in CaseRecord
  BY DEF Climb, CaseRecord
<1>4. RecordContact(r) \in CaseRecord
  BY DEF RecordContact, CaseRecord
<1>5. ASSUME NEW t \in FullRoutes \cup LessRoutes
      PROVE  RecordRoute(r, t) \in CaseRecord
  <2> DEFINE n == [r EXCEPT !.tried = @ \cup {t}]
  <2>1. n \in CaseRecord
    BY DEF CaseRecord
  <2>2. RecordRoute(r, t) = n \/ RecordRoute(r, t) = Climb(n, "alternate_path")
    BY DEF RecordRoute
  <2> HIDE DEF n
  <2> QED BY <1>3, <2>1, <2>2 DEF Rungs
<1> QED BY <1>1, <1>2, <1>3, <1>4, <1>5

LEMMA CloseIsRecord ==
    ASSUME NEW r \in CaseRecord, NEW o \in Outcomes
    PROVE  CloseAs(r, o) \in CaseRecord
<1> DEFINE w == WithStatus(Disarmed(r), o)
<1>1. w \in CaseRecord
  BY RecordIsRecord DEF Outcomes, Statuses
<1>2. CloseAs(r, o) = [w EXCEPT !.closed = o]
  BY DEF CloseAs
<1> HIDE DEF w
<1> QED BY <1>1, <1>2 DEF CaseRecord

LEMMA HandOffIsRecord ==
    ASSUME NEW r \in CaseRecord, NEW s \in Scenarios, HandOff(r, s),
           queue \subseteq Scenarios
    PROVE  rec' \in CaseRecord /\ queue' \subseteq Scenarios
<1>1. [r EXCEPT !.handed = @ \cup ({s} \cap Once)] \in CaseRecord
  BY DEF CaseRecord
<1>2. queue' \subseteq Scenarios
  BY DEF HandOff
<1>3. rec' = r \/ rec' = [r EXCEPT !.handed = @ \cup ({s} \cap Once)]
  BY DEF HandOff
<1> QED BY <1>1, <1>2, <1>3

\* What one more attempt makes of the session.
LEMMA CountedIsSession ==
    ASSUME sess \in Session, NEW t \in Tools, NEW ok \in BOOLEAN
    PROVE  Counted(t, ok) \in Session
BY DEF Counted, Session, MaxAttempts, Tools

\* A call that was carried out ends with the run r and the session of it.
LEMMA CarriedIsRun ==
    ASSUME TypeOK, NEW t \in Tools, NEW ok \in BOOLEAN, NEW r \in Run,
           Carried(t, ok, r)
    PROVE  /\ sess' \in Session /\ run' \in Run
           /\ UNCHANGED <<runs, turns>>
<1>1. sess' \in Session
  BY CountedIsSession DEF Carried, TypeOK
<1>2. run' = [r EXCEPT !.tool = "none", !.seen = sess']
  BY DEF Carried
<1>3. run' \in Run
  BY <1>1, <1>2 DEF Run
<1> QED BY <1>1, <1>3 DEF Carried

\* The statuses a run may report.
LEMMA FinalIsStatus ==
    ASSUME TypeOK
    PROVE  FinalStatus \in Statuses
<1>1. CaseStatus \in {"recovered", "escalated", "stopped", "awaiting", "acting"}
  BY DEF CaseStatus
<1>2. rec.status \in Statuses
  BY DEF TypeOK, CaseRecord
<1>3. CASE CaseStatus \in {"recovered", "escalated"}
  BY <1>3 DEF FinalStatus, Statuses
<1>4. CASE CaseStatus = "stopped"
  BY <1>4 DEF FinalStatus, Statuses
<1>5. CASE CaseStatus = "awaiting"
  BY <1>5 DEF FinalStatus, Statuses
<1>6. CASE CaseStatus = "acting"
  BY <1>2, <1>6, Zenon DEF FinalStatus, Statuses
<1> QED BY <1>1, <1>3, <1>4, <1>5, <1>6

LEMMA OneMore ==
    ASSUME NEW m \in Nat, NEW n \in 0..m, n < m
    PROVE  n + 1 \in 0..m
OBVIOUS

LEMMA NumbersOfRuns ==
    MaxTurns \in Nat /\ MaxRuns \in Nat
BY RunAssumption

-----------------------------------------------------------------------------
\* Beginning a run, choosing a tool and having it refused.
LEMMA TurnTypes ==
    ASSUME TypeOK,
           \/ \E s \in Scenarios : Begin(s)
           \/ \E t \in Tools : Choose(t)
           \/ Refuse
    PROVE  TypeOK'
<1>0. /\ rec \in CaseRecord /\ rec.status \in Statuses
      /\ run \in Run /\ run.tool \in Tools \cup {"none"}
      /\ sess \in Session /\ queue \subseteq Scenarios
      /\ runs \in 0..MaxRuns /\ turns \in 0..MaxTurns
  BY DEF TypeOK, CaseRecord, Run
<1>1. CASE \E s \in Scenarios : Begin(s)
  <2>1. PICK s \in Scenarios : Begin(s)
    BY <1>1
  <2>2. run' = [NoRun EXCEPT !.on = TRUE, !.was = rec.status,
                             !.active = s = "followup"]
    BY <2>1 DEF Begin
  <2>3. NoAttempts \in Session
    BY DEF NoAttempts, Session, MaxAttempts
  <2>4. NoRun \in Run
    BY <2>3 DEF NoRun, Run, Statuses
  <2>5. run' \in Run
    BY <1>0, <2>2, <2>4 DEF Run
  <2>6. UNCHANGED <<rec, ticket, sess, due, turns>> /\ queue' \subseteq queue
    BY <2>1 DEF Begin
  <2>7. runs' \in 0..MaxRuns
    <3>1. runs < MaxRuns /\ runs' = runs + 1
      BY <2>1 DEF Begin
    <3> QED BY <1>0, <3>1, OneMore, NumbersOfRuns
  <2> QED BY <2>5, <2>6, <2>7 DEF TypeOK
<1>2. CASE \E t \in Tools : Choose(t)
  <2>1. PICK t \in Tools : Choose(t)
    BY <1>2
  <2>2. run' = [run EXCEPT !.tool = t, !.acted = TRUE]
    BY <2>1 DEF Choose
  <2>3. run' \in Run
    BY <1>0, <2>2 DEF Run
  <2>4. turns' \in 0..MaxTurns
    <3>1. turns < MaxTurns /\ turns' = turns + 1
      BY <2>1 DEF Choose
    <3> QED BY <1>0, <3>1, OneMore, NumbersOfRuns
  <2>5. UNCHANGED <<rec, ticket, sess, due, queue, runs>>
    BY <2>1 DEF Choose
  <2> QED BY <2>3, <2>4, <2>5 DEF TypeOK
<1>3. CASE Refuse
  <2>1. PICK ran \in BOOLEAN :
            run' = [run EXCEPT !.tool = "none",
                               !.seen = IF ran THEN sess' ELSE @,
                               !.over = ran /\ run.tool \in {"wait", "close"}]
    BY <1>3 DEF Refuse
  <2>2. sess' \in Session
    BY <1>0, <1>3, CountedIsSession DEF Refuse
  <2>3. run' \in Run
    BY <1>0, <2>1, <2>2 DEF Run
  <2>4. UNCHANGED <<rec, ticket, due, queue, runs, turns>>
    BY <1>3 DEF Refuse
  <2> QED BY <2>2, <2>3, <2>4 DEF TypeOK
<1> QED BY <1>1, <1>2, <1>3

\* The tools.
LEMMA ActsTypes ==
    ASSUME TypeOK, Acts
    PROVE  TypeOK'
<1>0. /\ rec \in CaseRecord /\ ticket \in BOOLEAN /\ run \in Run
      /\ due \subseteq {"wake", "watch", "push"} /\ queue \subseteq Scenarios
      /\ runs \in 0..MaxRuns /\ turns \in 0..MaxTurns
  BY DEF TypeOK
<1> DEFINE Typed == /\ rec' \in CaseRecord /\ ticket' \in BOOLEAN
                    /\ due' \subseteq {"wake", "watch", "push"}
                    /\ queue' \subseteq Scenarios
<1>a. ASSUME NEW r \in CaseRecord, NEW k \in Rungs
      PROVE  RecordContact(Climb(r, k)) \in CaseRecord /\ Reached(r, k) \in CaseRecord
  <2>1. RecordContact(Climb(r, k)) \in CaseRecord
    BY RecordIsRecord
  <2> DEFINE q == RecordContact(Climb(r, k))
  <2>2. Reached(r, k) = [q EXCEPT !.awaiting = FALSE]
    BY DEF Reached
  <2> HIDE DEF q
  <2>3. q \in CaseRecord
    BY <2>1 DEF q
  <2>4. [q EXCEPT !.awaiting = FALSE] \in CaseRecord
    BY <2>3 DEF CaseRecord
  <2> QED BY <2>1, <2>2, <2>4
<1>b. ASSUME NEW x \in {"push", "link", "notify", "retry", "escalate", "close"},
             NEW r \in Run
      PROVE  /\ [r EXCEPT !.did = @ \cup {x}] \in Run
             /\ [r EXCEPT !.over = TRUE] \in Run
             /\ [r EXCEPT !.over = TRUE, !.did = @ \cup {x}] \in Run
             /\ [r EXCEPT !.quoted = TRUE] \in Run
  BY DEF Run
<1>c. ASSUME NEW t \in Tools, NEW ok \in BOOLEAN, NEW r \in Run,
             Carried(t, ok, r), Typed
      PROVE  TypeOK'
  <2>1. sess' \in Session /\ run' \in Run /\ UNCHANGED <<runs, turns>>
    BY <1>c, CarriedIsRun
  <2> QED BY <1>0, <1>c, <2>1 DEF TypeOK
<1>t. \A t \in {"look", "link", "banner", "quote", "push", "notify", "voice",
                "retry", "wait", "escalate", "close"} : t \in Tools
  BY DEF Tools, Attempts
<1>1. CASE Look
  <2>1. Typed
    BY <1>0, <1>1 DEF Look
  <2> HIDE DEF Typed
  <2> QED BY <1>0, <1>1, <1>c, <1>t, <2>1 DEF Look
<1>2. CASE LinksSpent
  <2>1. Typed
    BY <1>0, <1>2 DEF LinksSpent, CaseRecord
  <2> HIDE DEF Typed
  <2> QED BY <1>0, <1>2, <1>c, <1>t, <2>1 DEF LinksSpent
<1>3. CASE Quote
  <2>1. Typed
    BY <1>0, <1>3 DEF Quote
  <2> HIDE DEF Typed
  <2> QED BY <1>0, <1>3, <1>b, <1>c, <1>t, <2>1 DEF Quote
<1>4. CASE Push
  <2>1. Typed
    BY <1>0, <1>4, <1>a DEF Push, Rungs
  <2> HIDE DEF Typed
  <2> QED BY <1>0, <1>4, <1>b, <1>c, <1>t, <2>1 DEF Push
<1>5. CASE Notify
  <2>1. EmailRung(rec) \in Rungs
    BY DEF EmailRung, Rungs
  <2>2. Typed
    BY <1>0, <1>5, <1>a, <2>1 DEF Notify
  <2> HIDE DEF Typed
  <2> QED BY <1>0, <1>5, <1>b, <1>c, <1>t, <2>2 DEF Notify
<1>6. CASE Call
  <2>1. Typed
    BY <1>0, <1>6, <1>a DEF Call, Rungs
  <2> HIDE DEF Typed
  <2> QED BY <1>0, <1>6, <1>c, <1>t, <2>1 DEF Call
<1>7. CASE Retry
  <2> DEFINE q == [rec EXCEPT !.retry = TRUE]
  <2>1. q \in CaseRecord
    BY <1>0 DEF CaseRecord
  <2>2. RetryRung(q) \in Rungs
    BY DEF RetryRung, Rungs
  <2>3. rec' = RecordContact(Climb(q, RetryRung(q))) /\ UNCHANGED <<ticket, due, queue>>
    BY <1>7 DEF Retry
  <2> HIDE DEF q
  <2>4. Typed
    BY <1>0, <1>a, <2>1, <2>2, <2>3
  <2> HIDE DEF Typed
  <2> QED BY <1>0, <1>7, <1>b, <1>c, <1>t, <2>4 DEF Retry
<1>8. CASE Wait
  <2>1. Typed
    BY <1>0, <1>8 DEF Wait
  <2> HIDE DEF Typed
  <2> QED BY <1>0, <1>8, <1>b, <1>c, <1>t, <2>1 DEF Wait
<1>9. CASE Escalate
  <2>1. Typed
    BY <1>0, <1>9 DEF Escalate
  <2> HIDE DEF Typed
  <2> QED BY <1>0, <1>9, <1>b, <1>c, <1>t, <2>1 DEF Escalate
<1>10. CASE \E r \in FullRoutes \cup LessRoutes : MintLink(r)
  <2>1. PICK r \in FullRoutes \cup LessRoutes : MintLink(r)
    BY <1>10
  <2> DEFINE q == RecordRoute(rec, r)
             u == [run EXCEPT !.link = IF r \in FullRoutes THEN "full" ELSE "less",
                              !.did = @ \cup {"link"}]
  <2>2. q \in CaseRecord
    BY <1>0, RecordIsRecord
  <2>3. u \in Run
    BY <1>0 DEF Run
  <2>4. /\ Carried("link", TRUE, u)
        /\ rec' = [q EXCEPT !.awaiting = TRUE] /\ UNCHANGED <<ticket, due, queue>>
    BY <2>1 DEF MintLink
  <2> HIDE DEF q, u
  <2>5. Typed
    BY <1>0, <2>2, <2>4 DEF CaseRecord
  <2> HIDE DEF Typed
  <2> QED BY <1>c, <1>t, <2>3, <2>4, <2>5
<1>11. CASE \E discount \in BOOLEAN : Banner(discount)
  <2>1. PICK k \in {"rail_switch", "offer"} :
            /\ rec' = Reached(rec, k) /\ due' = due \cup {"push"}
            /\ Carried("banner", TRUE, run) /\ UNCHANGED <<ticket, queue>>
    BY <1>11 DEF Banner
  <2>2. Typed
    BY <1>0, <1>a, <2>1 DEF Rungs
  <2> HIDE DEF Typed
  <2> QED BY <1>0, <1>c, <1>t, <2>1, <2>2
<1>12. CASE \E o \in Outcomes \ {"settled_outside"} : Close(o)
  <2>1. PICK o \in Outcomes \ {"settled_outside"} : Close(o)
    BY <1>12
  <2>2. Typed
    BY <1>0, <2>1, CloseIsRecord DEF Close
  <2> HIDE DEF Typed
  <2> QED BY <1>0, <1>b, <1>c, <1>t, <2>1, <2>2 DEF Close
<1> QED BY <1>1, <1>2, <1>3, <1>4, <1>5, <1>6, <1>7, <1>8, <1>9, <1>10, <1>11, <1>12
        DEF Acts

\* The end of a run, and an error in it.
LEMMA EndTypes ==
    ASSUME TypeOK, EndRun \/ RunFails
    PROVE  TypeOK'
<1>0. /\ rec \in CaseRecord /\ ticket \in BOOLEAN /\ sess \in Session
      /\ due \subseteq {"wake", "watch", "push"} /\ queue \subseteq Scenarios
      /\ runs \in 0..MaxRuns /\ turns \in 0..MaxTurns
  BY DEF TypeOK
<1>1. run' \in Run /\ UNCHANGED <<sess, runs, turns>>
  <2>1. run' = NoRun /\ UNCHANGED <<sess, runs, turns>>
    BY DEF EndRun, RunFails
  <2>2. NoAttempts \in Session
    BY DEF NoAttempts, Session, MaxAttempts
  <2> QED BY <2>1, <2>2 DEF NoRun, Run, Statuses
<1> DEFINE Typed == /\ rec' \in CaseRecord /\ ticket' \in BOOLEAN
                    /\ queue' \subseteq Scenarios
<1>2. ASSUME NEW r \in CaseRecord, CastNet(r)
      PROVE  Typed
  <2>1. CASE MayEscalate(r)
    BY <1>0, <1>2, <2>1 DEF CastNet
  <2>2. CASE ~MayEscalate(r) /\ Remaining(r) # {}
    <3>1. HandOff(r, NextRung(r)) /\ UNCHANGED ticket
      BY <1>2, <2>2 DEF CastNet
    <3>2. NextRung(r) \in Scenarios
      BY <2>2, NextRungIsRung DEF Scenarios, Once
    <3> QED BY <1>0, <3>1, <3>2, HandOffIsRecord
  <2>3. CASE ~MayEscalate(r) /\ Remaining(r) = {}
    <3>1. rec' = WithStatus(r, "failed") /\ UNCHANGED <<ticket, queue>>
      BY <1>2, <2>3 DEF CastNet
    <3> QED BY <1>0, <3>1, RecordIsRecord DEF Statuses
  <2> QED BY <2>1, <2>2, <2>3
<1>3. CASE EndRun
  <2> DEFINE r == Judged
  <2>1. r \in CaseRecord
    BY <1>0, FinalIsStatus, RecordIsRecord DEF Judged
  <2>2. \/ EndSettled(r)
        \/ /\ due' \subseteq due \cup {"watch"}
           /\ CastNet(r) \/ (rec' = r /\ UNCHANGED <<ticket, queue>>)
    BY <1>3 DEF EndRun
  <2> HIDE DEF r
  <2>3. CASE EndSettled(r)
    <3>1. Typed /\ due' \subseteq due
      BY <1>0, <2>1, <2>3, CloseIsRecord DEF EndSettled, Outcomes
    <3> QED BY <1>0, <1>1, <3>1 DEF TypeOK
  <2>4. CASE /\ due' \subseteq due \cup {"watch"}
             /\ CastNet(r) \/ (rec' = r /\ UNCHANGED <<ticket, queue>>)
    <3>1. Typed
      BY <1>0, <1>2, <2>1, <2>4
    <3> QED BY <1>0, <1>1, <2>4, <3>1 DEF TypeOK
  <2> QED BY <2>2, <2>3, <2>4
<1>4. CASE RunFails
  <2>1. rec' = rec \/ rec' = WithStatus(rec, "failed")
    BY <1>4 DEF RunFails
  <2>2. rec' \in CaseRecord
    BY <1>0, <2>1, RecordIsRecord DEF Statuses
  <2>3. UNCHANGED <<ticket, due, queue>>
    BY <1>4 DEF RunFails
  <2> QED BY <1>0, <1>1, <2>2, <2>3 DEF TypeOK
<1> QED BY <1>3, <1>4

\* The customer, the clock and the operator.
LEMMA WorldTypes ==
    ASSUME TypeOK, World
    PROVE  TypeOK'
<1>0. /\ rec \in CaseRecord /\ ticket \in BOOLEAN /\ sess \in Session /\ run \in Run
      /\ due \subseteq {"wake", "watch", "push"} /\ queue \subseteq Scenarios
      /\ runs \in 0..MaxRuns /\ turns \in 0..MaxTurns
  BY DEF TypeOK
<1> DEFINE Typed == rec' \in CaseRecord /\ queue' \subseteq Scenarios
<1>1. UNCHANGED <<sess, run, runs, turns>>
  BY DEF World, Presence, Pays, PushAnswered, WatchEnds, WatchSeesFailure,
         WakeFires, RetryFires, Says, Marks
<1>2. ASSUME NEW r \in CaseRecord,
             NEW s \in {"recovered", "push", "followup", "failed", "wake", "answer"},
             HandOff(r, s)
      PROVE  Typed
  <2>1. s \in Scenarios
    BY DEF Scenarios, Once
  <2> QED BY <1>0, <1>2, <2>1, HandOffIsRecord
<1>3. Typed
  <2>1. CASE Presence
    BY <1>0, <2>1 DEF Presence, CaseRecord
  <2>2. CASE Pays
    <3> DEFINE d == Disarmed(rec)
               r == [d EXCEPT !.status = "recovered", !.paid = TRUE]
    <3>1. d \in CaseRecord
      BY <1>0, RecordIsRecord
    <3>2. HandOff(r, "recovered")
      BY <2>2 DEF Pays
    <3> HIDE DEF d
    <3>3. r \in CaseRecord
      BY <3>1 DEF CaseRecord, Statuses
    <3> HIDE DEF r
    <3> QED BY <1>2, <3>2, <3>3
  <2>3. CASE \E a \in {"acted", "dismissed"} : PushAnswered(a)
    <3>1. UNCHANGED <<rec, queue>> \/ HandOff(rec, "push")
      BY <2>3 DEF PushAnswered
    <3> QED BY <1>0, <1>2, <3>1
  <2>4. CASE WatchEnds \/ WatchSeesFailure \/ WakeFires
    <3>1. \/ HandOff(rec, "followup") \/ HandOff(rec, "failed")
          \/ HandOff(rec, "wake")
      BY <2>4 DEF WatchEnds, WatchSeesFailure, WakeFires
    <3> QED BY <1>0, <1>2, <3>1
  <2>5. CASE RetryFires
    BY <1>0, <2>5 DEF RetryFires, CaseRecord
  <2>6. CASE \E a \in Said : Says(a)
    <3>1. PICK a \in Said : HandOff([rec EXCEPT !.answer = a], "answer")
      BY <2>6 DEF Says
    <3> DEFINE r == [rec EXCEPT !.answer = a]
    <3>2. a \in Answers
      BY RunAssumption
    <3>3. r \in CaseRecord
      BY <1>0, <3>2 DEF CaseRecord
    <3>4. HandOff(r, "answer")
      BY <3>1
    <3> HIDE DEF r
    <3> QED BY <1>2, <3>3, <3>4
  <2>7. CASE \E l \in Marked : Marks(l)
    <3>1. PICK l \in Marked : Marks(l)
      BY <2>7
    <3> DEFINE q == [rec EXCEPT !.label = l,
                                !.optedOut = @ \/ l = "do_not_contact"]
               w == WithStatus(Disarmed(q), "settled_outside")
    <3>2. l \in Labels
      BY RunAssumption
    <3>3. q \in CaseRecord
      BY <1>0, <3>2 DEF CaseRecord
    <3>4. (rec' = q \/ rec' = [w EXCEPT !.closed = "settled_outside"])
          /\ UNCHANGED queue
      BY <3>1 DEF Marks
    <3> HIDE DEF q
    <3>5. w \in CaseRecord
      BY <3>3, RecordIsRecord DEF Statuses
    <3> HIDE DEF w
    <3>6. [w EXCEPT !.closed = "settled_outside"] \in CaseRecord
      BY <3>5 DEF CaseRecord, Outcomes
    <3> QED BY <1>0, <3>3, <3>4, <3>6
  <2> QED BY <2>1, <2>2, <2>3, <2>4, <2>5, <2>6, <2>7 DEF World
<1>4. ticket' \in BOOLEAN
  BY <1>0 DEF World, Presence, Pays, PushAnswered, WatchEnds, WatchSeesFailure,
         WakeFires, RetryFires, Says, Marks
<1>5. due' \subseteq {"wake", "watch", "push"}
  BY <1>0 DEF World, Presence, Pays, PushAnswered, WatchEnds, WatchSeesFailure,
         WakeFires, RetryFires, Says, Marks
<1> QED BY <1>0, <1>1, <1>3, <1>4, <1>5 DEF TypeOK

LEMMA InitTypes == Init => TypeOK
<1> SUFFICES ASSUME Init PROVE TypeOK
  OBVIOUS
<1>1. rec \in CaseRecord
  <2>1. Causes \subseteq Kinds /\ Walks \subseteq BOOLEAN /\ Lives \subseteq BOOLEAN
    BY RunAssumption
  <2> QED BY <2>1 DEF Init, CaseRecord, Statuses
<1>2. NoAttempts \in Session
  BY DEF NoAttempts, Session, MaxAttempts
<1>3. NoRun \in Run
  BY <1>2 DEF NoRun, Run, Statuses
<1>4. 0 \in 0..MaxRuns /\ 0 \in 0..MaxTurns
  BY NumbersOfRuns
<1> QED BY <1>1, <1>2, <1>3, <1>4 DEF Init, TypeOK, Scenarios

LEMMA StepTypes ==
    ASSUME TypeOK, [Next]_vars
    PROVE  TypeOK'
<1>1. CASE UNCHANGED vars
  BY <1>1 DEF vars, TypeOK
<1> QED BY <1>1, TurnTypes, ActsTypes, EndTypes, WorldTypes DEF Next

\* The case record, the session, the run and what will be heard of the case
\* keep their form, for any ladder and any number of runs; so a hand-off of
\* the net always names a rung.
THEOREM TypeCorrect == Spec => []TypeOK
BY InitTypes, StepTypes, PTL DEF Spec

-----------------------------------------------------------------------------
\* The inductive invariant of a case that is closed in the end.  A payment is
\* handed to the agent once, and only Pays hands it: while the case is open
\* the hand-off waits, or the run it began goes on.
PaidInv ==
    /\ "recovered" \in rec.handed => rec.paid
    /\ rec.paid /\ ~Closed(rec) => run.on \/ queue # {}

\* A record that is as paid, as closed and as handed on as another.
Alike(r, q) ==
    /\ r.paid = q.paid /\ r.closed = q.closed /\ r.handed = q.handed

LEMMA HelpersAlike ==
    ASSUME NEW r \in CaseRecord
    PROVE  /\ \A st : Alike(WithStatus(r, st), r)
           /\ Alike(Disarmed(r), r)
           /\ \A k : Alike(Climb(r, k), r)
           /\ Alike(RecordContact(r), r)
           /\ \A t : Alike(RecordRoute(r, t), r)
           /\ \A k : Alike(Reached(r, k), r)
<1>1. \A st : Alike(WithStatus(r, st), r)
  BY DEF WithStatus, CaseRecord, Alike
<1>2. Alike(Disarmed(r), r)
  BY DEF Disarmed, CaseRecord, Alike
<1>3. \A k : Alike(Climb(r, k), r)
  BY DEF Climb, CaseRecord, Alike
<1>4. Alike(RecordContact(r), r)
  BY DEF RecordContact, CaseRecord, Alike
<1>5. \A t : Alike(RecordRoute(r, t), r)
  BY DEF RecordRoute, Climb, CaseRecord, Alike
<1>6. \A k : Alike(Reached(r, k), r)
  BY DEF Reached, RecordContact, Climb, CaseRecord, Alike
<1> QED BY <1>1, <1>2, <1>3, <1>4, <1>5, <1>6

\* Any hand-off but that of a payment.
LEMMA HandOffKeeps ==
    ASSUME NEW r \in CaseRecord, NEW s, HandOff(r, s), s # "recovered",
           PaidInv, r.paid = rec.paid, r.closed = rec.closed,
           r.handed = rec.handed, run' = run
    PROVE  PaidInv'
<1>1. rec'.paid = r.paid /\ rec'.closed = r.closed
      /\ rec'.handed \subseteq r.handed \cup {s} /\ queue \subseteq queue'
  BY DEF HandOff, CaseRecord
<1> QED BY <1>1 DEF PaidInv, Closed

\* A step that leaves the record as paid, as closed and as handed on, and
\* drops neither the run nor what waits.
LEMMA AlikeKeeps ==
    ASSUME PaidInv, Alike(rec', rec), run.on => run'.on,
           queue # {} => run'.on \/ queue' # {}
    PROVE  PaidInv'
BY DEF PaidInv, Alike, Closed

LEMMA TurnPaid ==
    ASSUME TypeOK, PaidInv,
           \/ \E s \in Scenarios : Begin(s)
           \/ \E t \in Tools : Choose(t)
           \/ Refuse
    PROVE  PaidInv'
<1>0. run \in Run
  BY DEF TypeOK
<1>1. CASE \E s \in Scenarios : Begin(s)
  <2>1. rec' = rec /\ run'.on
    BY <1>1 DEF Begin, NoRun
  <2> QED BY <2>1, AlikeKeeps DEF Alike
<1>2. CASE \/ \E t \in Tools : Choose(t)
           \/ Refuse
  <2>1. rec' = rec /\ queue' = queue /\ run'.on = run.on
    BY <1>0, <1>2 DEF Choose, Refuse, Run
  <2> QED BY <2>1, AlikeKeeps DEF Alike
<1> QED BY <1>1, <1>2

LEMMA ActsPaid ==
    ASSUME TypeOK, PaidInv, Acts
    PROVE  PaidInv'
<1>0. rec \in CaseRecord /\ run \in Run
  BY DEF TypeOK
<1>1. queue' = queue
  BY DEF Acts, Look, LinksSpent, Quote, Push, Notify, Call, Retry, Wait,
         Escalate, MintLink, Banner, Close
<1>2. run'.on = run.on
  <2>1. CASE Look \/ LinksSpent \/ Call
    BY <1>0, <2>1 DEF Look, LinksSpent, Call, Carried, Run
  <2>2. CASE Quote \/ Wait
    BY <1>0, <2>2 DEF Quote, Wait, Carried, Run
  <2>3. CASE Push \/ Notify
    BY <1>0, <2>3 DEF Push, Notify, Carried, Run
  <2>4. CASE Retry \/ Escalate
    BY <1>0, <2>4 DEF Retry, Escalate, Carried, Run
  <2>5. CASE \E r \in FullRoutes \cup LessRoutes : MintLink(r)
    BY <1>0, <2>5 DEF MintLink, Carried, Run
  <2>6. CASE \E discount \in BOOLEAN : Banner(discount)
    BY <1>0, <2>6 DEF Banner, Carried, Run
  <2>7. CASE \E o \in Outcomes \ {"settled_outside"} : Close(o)
    BY <1>0, <2>7 DEF Close, Carried, Run
  <2> QED BY <2>1, <2>2, <2>3, <2>4, <2>5, <2>6, <2>7 DEF Acts
<1> DEFINE As == rec'.handed = rec.handed /\ rec'.paid = rec.paid
<1>3. CASE \E o \in Outcomes \ {"settled_outside"} : Close(o)
  <2>1. PICK o \in Outcomes \ {"settled_outside"} : rec' = CloseAs(rec, o)
    BY <1>3 DEF Close
  <2>2. As /\ rec'.closed = o /\ o # "no"
    BY <1>0, <2>1 DEF CloseAs, WithStatus, Disarmed, CaseRecord, Outcomes
  <2> QED BY <2>2 DEF PaidInv, Closed
<1>4. CASE ~\E o \in Outcomes \ {"settled_outside"} : Close(o)
  <2>1. Alike(rec', rec)
    <3>1. CASE Look \/ Quote \/ Wait \/ Escalate
      BY <3>1 DEF Look, Quote, Wait, Escalate, Alike
    <3>2. CASE LinksSpent
      BY <1>0, <3>2 DEF LinksSpent, Alike, CaseRecord
    <3>3. CASE Push \/ Call
      BY <1>0, <3>3 DEF Push, Call, RecordContact, Climb, Alike, CaseRecord
    <3>4. CASE Notify
      BY <1>0, <3>4, HelpersAlike DEF Notify
    <3>5. CASE Retry
      BY <1>0, <3>5 DEF Retry, RecordContact, Climb, Alike, CaseRecord
    <3>6. CASE \E r \in FullRoutes \cup LessRoutes : MintLink(r)
      <4>1. PICK r \in FullRoutes \cup LessRoutes : MintLink(r)
        BY <3>6
      <4> DEFINE q == RecordRoute(rec, r)
      <4>2. q \in CaseRecord /\ Alike(q, rec)
        BY <1>0, RecordIsRecord, HelpersAlike
      <4>3. rec' = [q EXCEPT !.awaiting = TRUE]
        BY <4>1 DEF MintLink
      <4> HIDE DEF q
      <4> QED BY <4>2, <4>3 DEF Alike, CaseRecord
    <3>7. CASE \E discount \in BOOLEAN : Banner(discount)
      <4>1. PICK k : rec' = Reached(rec, k)
        BY <3>7 DEF Banner
      <4> QED BY <1>0, <4>1, HelpersAlike
    <3> QED BY <1>4, <3>1, <3>2, <3>3, <3>4, <3>5, <3>6, <3>7 DEF Acts
  <2> QED BY <1>1, <1>2, <2>1, AlikeKeeps
<1> QED BY <1>3, <1>4

\* Only here does a case become paid, and it is handed to the agent at once.
LEMMA WorldPaid ==
    ASSUME TypeOK, PaidInv, World, Email \/ Phone
    PROVE  PaidInv'
<1>0. rec \in CaseRecord
  BY DEF TypeOK
<1>1. CASE Presence \/ RetryFires
  <2>1. Alike(rec', rec) /\ UNCHANGED <<run, queue>>
    BY <1>0, <1>1 DEF Presence, RetryFires, Alike, CaseRecord
  <2> QED BY <2>1, AlikeKeeps
<1>2. CASE Pays
  <2> DEFINE r == [Disarmed(rec) EXCEPT !.status = "recovered", !.paid = TRUE]
  <2>1. r.paid /\ r.closed = rec.closed /\ r.handed = rec.handed
    BY <1>0 DEF Disarmed, CaseRecord
  <2>2. HandOff(r, "recovered") /\ ~rec.paid /\ run' = run
    BY <1>2 DEF Pays
  <2>3. \A h : [r EXCEPT !.handed = h].paid = r.paid
    BY <1>0 DEF Disarmed, CaseRecord
  <2> HIDE DEF r
  <2>4. CASE Closed(r)
    <3>1. rec' = r
      BY <2>2, <2>4 DEF HandOff, Refused
    <3> QED BY <2>1, <2>4, <3>1 DEF PaidInv, Closed
  <2>5. CASE ~Closed(r)
    <3>1. ~Refused(r, "recovered")
      BY <2>1, <2>2, <2>5 DEF Refused, PaidInv
    <3>2. rec'.paid = r.paid /\ queue' = queue \cup {"recovered"}
      BY <2>2, <2>3, <3>1 DEF HandOff
    <3> QED BY <2>1, <3>2 DEF PaidInv
  <2> QED BY <2>4, <2>5
<1>3. CASE \E a \in {"acted", "dismissed"} : PushAnswered(a)
  <2>1. UNCHANGED <<rec, queue, run>> \/ (HandOff(rec, "push") /\ run' = run)
    BY <1>3 DEF PushAnswered
  <2> QED BY <1>0, <2>1, HandOffKeeps, AlikeKeeps DEF Alike
<1>4. CASE WatchEnds \/ WatchSeesFailure \/ WakeFires
  <2>1. PICK s \in {"followup", "failed", "wake"} : HandOff(rec, s) /\ run' = run
    BY <1>4 DEF WatchEnds, WatchSeesFailure, WakeFires
  <2> QED BY <1>0, <2>1, HandOffKeeps
<1>5. CASE \E a \in Said : Says(a)
  <2>1. PICK a \in Said : HandOff([rec EXCEPT !.answer = a], "answer") /\ run' = run
    BY <1>5 DEF Says
  <2> DEFINE r == [rec EXCEPT !.answer = a]
  <2>2. a \in Answers
    BY RunAssumption
  <2>3. r \in CaseRecord /\ r.paid = rec.paid /\ r.closed = rec.closed
        /\ r.handed = rec.handed
    BY <1>0, <2>2 DEF CaseRecord
  <2>4. HandOff(r, "answer") /\ run' = run
    BY <2>1
  <2> HIDE DEF r
  <2> QED BY <2>3, <2>4, HandOffKeeps
<1>6. CASE \E l \in Marked : Marks(l)
  <2>1. PICK l \in Marked : Marks(l)
    BY <1>6
  <2>2. UNCHANGED <<run, queue>>
    BY <2>1 DEF Marks
  <2>3. /\ rec'.paid = rec.paid /\ rec'.handed = rec.handed
        /\ Closed(rec) => Closed(rec')
    BY <1>0, <2>1 DEF Marks, WithStatus, Disarmed, CaseRecord, Closed
  <2> QED BY <2>2, <2>3 DEF PaidInv
<1> QED BY <1>1, <1>2, <1>3, <1>4, <1>5, <1>6 DEF World

\* A run that ends with the money in closes the case; the net of any other
\* hands on a rung, and so never uses up the hand-off of a payment.
LEMMA EndRunPaid ==
    ASSUME TypeOK, PaidInv, EndRun
    PROVE  PaidInv'
<1> DEFINE r == Judged
<1>0. rec \in CaseRecord
  BY DEF TypeOK
<1>1. r \in CaseRecord /\ Alike(r, rec)
  BY <1>0, FinalIsStatus, RecordIsRecord, HelpersAlike DEF Judged
<1>2. CASE r.paid \/ r.status = "recovered"
  <2>1. EndSettled(r)
    BY <1>2 DEF EndRun
  <2> HIDE DEF r
  <2>2. /\ rec'.paid = rec.paid /\ rec'.handed = rec.handed /\ Closed(rec')
    BY <1>1, <2>1 DEF EndSettled, CloseAs, WithStatus, Disarmed, CaseRecord,
                      Closed, Alike
  <2> QED BY <2>2 DEF PaidInv
<1>3. CASE ~(r.paid \/ r.status = "recovered")
  <2>1. CastNet(r) \/ rec' = r
    BY <1>3 DEF EndRun
  <2> HIDE DEF r
  <2>2. ~rec'.paid /\ rec'.handed \subseteq rec.handed \cup Rungs
    <3>1. CASE rec' = r \/ rec' = WithStatus(r, "failed")
      BY <1>1, <1>3, <3>1, HelpersAlike DEF Alike
    <3>2. CASE Remaining(r) # {} /\ HandOff(r, NextRung(r))
      <4>1. NextRung(r) \in Rungs
        BY <1>1, <3>2, NextRungIsRung
      <4>2. rec'.paid = r.paid /\ rec'.handed \subseteq r.handed \cup {NextRung(r)}
        BY <1>1, <3>2 DEF HandOff, CaseRecord
      <4> QED BY <1>1, <1>3, <4>1, <4>2 DEF Alike
    <3>3. CASE CastNet(r)
      <4>1. CASE MayEscalate(r)
        BY <3>1, <3>3, <4>1 DEF CastNet
      <4>2. CASE ~MayEscalate(r) /\ Remaining(r) # {}
        BY <3>2, <3>3, <4>2 DEF CastNet
      <4>3. CASE ~MayEscalate(r) /\ Remaining(r) = {}
        BY <3>1, <3>3, <4>3 DEF CastNet
      <4> QED BY <4>1, <4>2, <4>3
    <3> QED BY <2>1, <3>1, <3>3
  <2>3. "recovered" \in rec'.handed => "recovered" \in rec.handed
    BY <2>2 DEF Rungs
  <2>4. ~rec.paid
    BY <1>1, <1>3 DEF Alike
  <2> QED BY <2>2, <2>3, <2>4 DEF PaidInv
<1> QED BY <1>2, <1>3

\* Of a customer who can be reached, no payment is left lying: once the money
\* is in and the agent is at rest the case has been closed, for any ladder and
\* any number of runs, while no run raises.  One that does drops the
\* hand-off of the payment with it (RunFails), and nothing closes the case.
THEOREM PaidIsClosed ==
    ~MayFail /\ (Email \/ Phone) => (Spec => []PaidGetsClosed)
<1> SUFFICES ASSUME ~MayFail, Email \/ Phone
             PROVE  Spec => []PaidGetsClosed
  OBVIOUS
<1>1. Init => TypeOK /\ PaidInv
  <2>1. Init => PaidInv
    BY DEF Init, PaidInv
  <2> QED BY <2>1, InitTypes
<1>2. TypeOK /\ PaidInv /\ [Next]_vars => (TypeOK /\ PaidInv)'
  <2> SUFFICES ASSUME TypeOK, PaidInv, [Next]_vars
               PROVE  (TypeOK /\ PaidInv)'
    OBVIOUS
  <2>1. TypeOK'
    BY StepTypes
  <2>2. ~RunFails
    BY DEF RunFails
  <2>3. UNCHANGED vars => PaidInv'
    BY AlikeKeeps DEF vars, Alike
  <2>4. PaidInv'
    BY <2>2, <2>3, TurnPaid, ActsPaid, EndRunPaid, WorldPaid DEF Next
  <2> QED BY <2>1, <2>4
<1>3. PaidInv => PaidGetsClosed
  BY DEF PaidInv, PaidGetsClosed, Idle
<1> QED BY <1>1, <1>2, <1>3, PTL DEF Spec

=============================================================================
