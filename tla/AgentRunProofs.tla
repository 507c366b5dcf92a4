--------------------------- MODULE AgentRunProofs ---------------------------
(***************************************************************************)
(* Proofs about AgentRun, for any set of calls over the tools the graph    *)
(* knows, any chain of models and any limits: the caps of the guard and of *)
(* the gate hold whatever the model of a run proposes.                     *)
(***************************************************************************)
EXTENDS AgentRun, FiniteSetTheorems, TLAPS

\* The nodes with a call that waits, and those the guard has let it through to.
Pending == {"guard", "policy", "approval", "tools"}
Cleared == Pending \ {"guard"}

\* Behind the guard there is a call; a run that goes on may still be blocked
\* once more.
TypeInv ==
    /\ TypeOK
    /\ node \in Pending => call \in Calls
    /\ node \notin {"stopping", "critique"} => blocked < BlockedLimit

LEMMA CallsHaveTools == \A c \in Calls : c[1] \in Tools
  BY DEF Tools

LEMMA LimitsArePositive ==
    /\ Models \in Nat /\ Models >= 1
    /\ MaxTurns \in Nat /\ CycleSpan \in Nat /\ CycleSpan >= 1
    /\ DoomLimit \in Nat /\ DoomLimit >= 1
    /\ BlockedLimit \in Nat /\ BlockedLimit >= 1
    /\ ErrorLimit \in Nat /\ ErrorLimit >= 1
    /\ MaxContacts \in Nat /\ MaxContacts >= 1
    /\ MaxExtra \in Nat
  BY AgentRunAssumption

LEMMA CappedType ==
    ASSUME NEW n \in Nat, NEW max \in Nat
    PROVE  Capped(n, max) \in 0..max
  BY DEF Capped

-----------------------------------------------------------------------------
(* Types                                                                   *)

\* The messages, with the place kept for one that was let through unread.
MessagesInv ==
    /\ unread \in BOOLEAN /\ fresh \in BOOLEAN
    /\ own \in [Kinds -> Nat] /\ others \in Nat /\ Extra <= MaxExtra

LEMMA MessagesAreTyped == TypeInv => MessagesInv
  BY DEF TypeInv, TypeOK, MessagesInv

LEMMA FlagValue ==
    /\ Flag(TRUE) = 1 /\ Flag(FALSE) = 0
    /\ \A b \in BOOLEAN : Flag(b) \in 0..1
  BY DEF Flag

\* There is no more beyond the session's counted messages than there was.
LEMMA FewerMessages ==
    ASSUME MessagesInv, fresh' \in BOOLEAN, unread' \in BOOLEAN,
           own' \in [Kinds -> Nat], others' \in Nat,
           Stray' + others' + Flag(unread') <= Stray + others + Flag(unread)
    PROVE  MessagesInv'
  <1>1. Extra' = Stray' + others' + Flag(unread') /\ Extra = Stray + others + Flag(unread)
    BY DEF Extra
  <1>2. /\ Stray \in Nat /\ Stray' \in Nat /\ others \in Nat
        /\ Flag(unread) \in 0..1 /\ Flag(unread') \in 0..1
    BY FlagValue DEF MessagesInv, Stray, Kinds
  <1>3. Extra' <= Extra /\ Extra <= MaxExtra /\ Extra' \in Nat /\ Extra \in Nat
    BY <1>1, <1>2 DEF MessagesInv
  <1>4. Extra' <= MaxExtra
    BY <1>3, LimitsArePositive
  <1> QED
    BY <1>4 DEF MessagesInv

\* There is one more, where the bound leaves room for it.
LEMMA OneMoreMessage ==
    ASSUME MessagesInv, Bounded, fresh' \in BOOLEAN, unread' \in BOOLEAN,
           own' \in [Kinds -> Nat], others' \in Nat,
           Stray' + others' + Flag(unread') <= Stray + others + Flag(unread) + 1
    PROVE  MessagesInv'
  <1>1. Extra' = Stray' + others' + Flag(unread') /\ Extra = Stray + others + Flag(unread)
    BY DEF Extra
  <1>2. /\ Stray \in Nat /\ Stray' \in Nat /\ others \in Nat
        /\ Flag(unread) \in 0..1 /\ Flag(unread') \in 0..1
    BY FlagValue DEF MessagesInv, Stray, Kinds
  <1>3. Extra' <= Extra + 1 /\ Extra < MaxExtra /\ Extra' \in Nat /\ Extra \in Nat
    BY <1>1, <1>2 DEF Bounded
  <1>4. Extra' <= MaxExtra
    BY <1>3, LimitsArePositive
  <1> QED
    BY <1>4 DEF MessagesInv

\* Nothing is sent, and what was kept for a message is kept or given up.
LEMMA SameMessages ==
    ASSUME MessagesInv, UNCHANGED <<own, others>>, fresh' \in BOOLEAN,
           unread' \in {unread, FALSE}
    PROVE  MessagesInv'
  <1>1. Flag(unread') <= Flag(unread) /\ Flag(unread') \in 0..1 /\ Flag(unread) \in 0..1
    <2>1. CASE unread' = unread
      BY <2>1, FlagValue DEF MessagesInv
    <2>2. CASE unread' = FALSE
      <3>1. Flag(unread') = 0
        BY <2>2, FlagValue, Zenon
      <3> QED
        BY <3>1, FlagValue DEF MessagesInv
    <2> QED
      BY <2>1, <2>2
  <1>2. Stray' = Stray /\ others' = others /\ Stray \in Nat /\ others \in Nat
    BY DEF MessagesInv, Stray, Kinds
  <1>3. Stray' + others' + Flag(unread') <= Stray + others + Flag(unread)
    BY <1>1, <1>2
  <1> QED
    BY <1>3, FewerMessages DEF MessagesInv

LEMMA InitType == Init => TypeInv
  <1> SUFFICES ASSUME Init PROVE TypeInv
    OBVIOUS
  <1> USE LimitsArePositive DEF Init
  <1>1. count \in [Tools -> 0..DoomLimit] /\ names \in Seq(Tools)
    OBVIOUS
  <1>2. Len(names) <= 2 * CycleSpan
    OBVIOUS
  <1>3. /\ model \in 1..Models /\ turns \in 0..MaxTurns + 1
        /\ blocked \in 0..BlockedLimit /\ blocked < BlockedLimit
        /\ plain \in 0..ErrorLimit
    OBVIOUS
  <1>4. MessagesInv
    <2>1. Stray = 0 /\ others = 0
      BY DEF Stray, Kinds
    <2>2. Flag(unread) = 0
      BY FlagValue, Zenon
    <2>3. Extra = 0
      BY <2>1, <2>2 DEF Extra
    <2>4. Extra <= MaxExtra
      BY <2>3, LimitsArePositive
    <2>5. unread \in BOOLEAN /\ fresh \in BOOLEAN /\ own \in [Kinds -> Nat] /\ others \in Nat
      BY DEF Init
    <2> HIDE DEF Init
    <2> QED
      BY <2>4, <2>5 DEF MessagesInv
  <1> QED
    BY <1>1, <1>2, <1>3, <1>4 DEF TypeInv, TypeOK, MessagesInv, Nodes, Pending

\* A run that is over leaves the state every run starts from.
LEMMA OverType ==
    ASSUME TypeInv, NEW how \in {"ended", "raised", "crashed"},
           node' = "idle", outcome' = how, dangling' \in BOOLEAN, Afresh,
           UNCHANGED <<names, plain>>, MessagesInv'
    PROVE  TypeInv'
  <1> USE LimitsArePositive DEF TypeInv, TypeOK, Afresh, MessagesInv
  <1>1. count' \in [Tools -> 0..DoomLimit]
    OBVIOUS
  <1>2. /\ model' \in 1..Models /\ turns' \in 0..MaxTurns + 1
        /\ blocked' \in 0..BlockedLimit /\ blocked' < BlockedLimit
    OBVIOUS
  <1>3. /\ names' \in Seq(Tools) /\ Len(names') <= 2 * CycleSpan
        /\ plain' \in 0..ErrorLimit
    OBVIOUS
  <1> QED
    BY <1>1, <1>2, <1>3 DEF Nodes, Pending

LEMMA OverKeepsType ==
    ASSUME TypeInv, NEW how \in {"ended", "raised"}, Over(how)
    PROVE  TypeInv'
  <1>1. dangling' \in BOOLEAN
    BY DEF TypeInv, TypeOK, Over, LeftDangling
  <1>2. MessagesInv'
    <2>1. own' = own /\ others' = others /\ fresh' = fresh /\ unread' = FALSE
      BY DEF Over, Afresh, customerVars
    <2> QED
      BY <2>1, MessagesAreTyped, SameMessages DEF MessagesInv
  <1> QED
    BY <1>1, <1>2, OverType DEF Over

LEMMA ProposesType ==
    ASSUME TypeInv, NEW c \in Calls, Proposes(c)
    PROVE  TypeInv'
  <1> DEFINE all == Append(names, c[1])
             s == IF Len(all) > 2 * CycleSpan THEN Tail(all) ELSE all
  <1>1. c[1] \in Tools /\ names \in Seq(Tools) /\ Len(names) <= 2 * CycleSpan
    BY CallsHaveTools DEF TypeInv, TypeOK
  <1>2. all \in Seq(Tools) /\ Len(all) = Len(names) + 1 /\ all # <<>>
    BY <1>1
  <1>3. s \in Seq(Tools) /\ Len(s) <= 2 * CycleSpan
    BY <1>1, <1>2, LimitsArePositive
  <1>4. names' \in Seq(Tools) /\ Len(names') <= 2 * CycleSpan
    BY <1>3 DEF Proposes
  <1>5. turns' \in 0..MaxTurns + 1
    BY CappedType, LimitsArePositive DEF Proposes, TypeInv, TypeOK
  <1>6. node' \in {"guard", "stopping"} /\ node = "agent"
    BY DEF Proposes
  <1>7. MessagesInv'
    BY MessagesAreTyped, SameMessages DEF Proposes, customerVars, MessagesInv
  <1> QED
    BY <1>4, <1>5, <1>6, <1>7, LimitsArePositive
       DEF Proposes, TypeInv, TypeOK, MessagesInv, Nodes, Pending

LEMMA TurnType ==
    ASSUME TypeInv, Turn
    PROVE  TypeInv'
  <1> USE LimitsArePositive
          DEF TypeInv, TypeOK, Nodes, Pending, tallies, talkVars, customerVars,
              Extra, Stray
  <1>1. CASE Unavailable
    BY <1>1 DEF Unavailable
  <1>2. CASE BadRequest
    BY <1>2 DEF BadRequest
  <1>3. CASE Raises
    BY <1>3, OverKeepsType DEF Raises
  <1>4. CASE Concludes
    BY <1>4 DEF Concludes
  <1>5. CASE \E c \in Calls : Proposes(c)
    BY <1>5, ProposesType
  <1> QED
    BY <1>1, <1>2, <1>3, <1>4, <1>5 DEF Turn

LEMMA RecordedType ==
    ASSUME TypeInv, call \in Calls, Recorded
    PROVE  asked' \subseteq Calls /\ count' \in [Tools -> 0..DoomLimit]
  <1>1. call[1] \in Tools /\ count[call[1]] \in 0..DoomLimit
    BY CallsHaveTools DEF TypeInv, TypeOK
  <1>2. Capped(count[call[1]] + 1, DoomLimit) \in 0..DoomLimit
    BY <1>1, LimitsArePositive DEF Capped
  <1> QED
    BY <1>1, <1>2 DEF TypeInv, TypeOK, Recorded

LEMMA PolicyMessages ==
    ASSUME TypeInv, Policy
    PROVE  MessagesInv'
  <1>1. own' = own /\ others' = others /\ fresh' = fresh
    BY DEF Policy, customerVars
  <1>2. unread' = unread \/ unread' = FALSE \/ (unread' = TRUE /\ Bounded)
    BY DEF Policy, Refused
  <1>3. CASE unread' \in {unread, FALSE}
    BY <1>1, <1>3, MessagesAreTyped, SameMessages DEF MessagesInv
  <1>4. CASE unread' = TRUE /\ Bounded
    <2>1. Flag(unread) \in 0..1 /\ Flag(unread') \in 0..1
      BY <1>4, MessagesAreTyped, FlagValue DEF MessagesInv
    <2>2. Stray' = Stray /\ others' = others /\ Stray \in Nat /\ others \in Nat
      BY <1>1, MessagesAreTyped DEF MessagesInv, Stray, Kinds
    <2>3. Stray' + others' + Flag(unread') <= Stray + others + Flag(unread) + 1
      BY <2>1, <2>2
    <2> QED
      BY <1>1, <1>4, <2>3, MessagesAreTyped, OneMoreMessage DEF MessagesInv
  <1> QED
    BY <1>2, <1>3, <1>4

LEMMA GatesType ==
    ASSUME TypeInv, Gates
    PROVE  TypeInv'
  <1> USE LimitsArePositive
          DEF TypeInv, TypeOK, Nodes, Pending, tallies, talkVars, customerVars,
              Extra, Stray
  <1>1. CASE GuardStops
    BY <1>1 DEF GuardStops
  <1>2. CASE GuardBlocks
    BY <1>2, RecordedType DEF GuardBlocks
  <1>3. CASE GuardPasses
    BY <1>3, RecordedType DEF GuardPasses
  <1>4. CASE Policy
    BY <1>4, PolicyMessages DEF Policy, Refused, MessagesInv
  <1>5. CASE Approval
    BY <1>5 DEF Approval, Refused
  <1> QED
    BY <1>1, <1>2, <1>3, <1>4, <1>5 DEF Gates

\* A call that is answered leaves the messages as they are.
LEMMA AnsweredMessages ==
    ASSUME TypeInv, Answered, UNCHANGED customerVars
    PROVE  MessagesInv'
  BY MessagesAreTyped, SameMessages DEF MessagesInv, Answered, customerVars

LEMMA WorksType ==
    ASSUME TypeInv, Works
    PROVE  TypeInv'
  <1>1. node = "tools" /\ call \in Calls /\ done' \subseteq Calls /\ call' = None
    BY DEF TypeInv, TypeOK, Pending, Works, Answered
  <1>2. node' \in {"mask", "lastMask"} /\ closed' \in BOOLEAN
    BY DEF TypeInv, TypeOK, Works
  <1>3. MessagesInv'
    BY AnsweredMessages DEF Works
  <1> QED
    BY <1>1, <1>2, <1>3 DEF TypeInv, TypeOK, MessagesInv, Nodes, Pending, Works, talkVars

LEMMA FailsType ==
    ASSUME TypeInv, Fails
    PROVE  TypeInv'
  <1>1. node = "tools" /\ call \in Calls /\ done' \subseteq Calls /\ call' = None
    BY DEF TypeInv, TypeOK, Pending, Fails, Answered
  <1>2. plain' \in 0..ErrorLimit
    BY LimitsArePositive DEF TypeInv, TypeOK, Fails, ErrorAnswered, Capped
  <1>3. node' \in {"mask", "lastMask"}
    BY DEF Fails
  <1>4. MessagesInv'
    BY AnsweredMessages DEF Fails
  <1> QED
    BY <1>1, <1>2, <1>3, <1>4 DEF TypeInv, TypeOK, MessagesInv, Nodes, Pending, Fails

LEMMA SendsType ==
    ASSUME TypeInv, Sends
    PROVE  TypeInv'
  <1>1. node = "tools" /\ call \in Calls /\ done' \subseteq Calls /\ node' = "count"
    BY DEF TypeInv, TypeOK, Pending, Sends
  <1>2. MessagesInv'
    BY MessagesAreTyped, SameMessages DEF MessagesInv, Sends, customerVars
  <1> QED
    BY <1>1, <1>2 DEF TypeInv, TypeOK, MessagesInv, Nodes, Pending, Sends, talkVars

\* A message takes the place that was kept for it, if it strays.
LEMMA CountsMessages ==
    ASSUME TypeInv, Counts
    PROVE  MessagesInv'
  <1>1. PICK kind \in {"lost", IF unread THEN "unread" ELSE "counted"} :
            /\ kind = "lost" => unread \/ Bounded
            /\ own' = [own EXCEPT ![kind] = @ + 1]
            /\ fresh' = (fresh \/ kind # "lost")
    BY DEF Counts
  <1>2. MessagesInv /\ unread' = FALSE /\ others' = others
    BY MessagesAreTyped DEF Counts, Answered
  <1>3. kind \in Kinds
    BY DEF Kinds
  <1>4. own' \in [Kinds -> Nat] /\ fresh' \in BOOLEAN
    BY <1>1, <1>2, <1>3 DEF MessagesInv
  <1>5. /\ own'["unread"] = own["unread"] + (IF kind = "unread" THEN 1 ELSE 0)
        /\ own'["lost"] = own["lost"] + (IF kind = "lost" THEN 1 ELSE 0)
    BY <1>1, <1>2 DEF MessagesInv, Kinds
  <1>6. Flag(unread') = 0 /\ Flag(unread) \in 0..1
    <2>1. Flag(unread') = 0
      BY <1>2, FlagValue, Zenon
    <2> QED
      BY <1>2, <2>1, FlagValue DEF MessagesInv
  <1>7. unread => Flag(unread) = 1
    BY FlagValue DEF Flag
  <1>8. /\ Stray' = Stray + (IF kind = "counted" THEN 0 ELSE 1)
        /\ Stray \in Nat /\ others \in Nat
    BY <1>1, <1>2, <1>3, <1>5 DEF MessagesInv, Stray, Kinds
  <1>9. others' \in Nat /\ unread' \in BOOLEAN
    BY <1>2, <1>8
  <1>10. CASE unread \/ kind = "counted"
    <2>1. Stray' + others' + Flag(unread') <= Stray + others + Flag(unread)
      BY <1>2, <1>6, <1>7, <1>8, <1>10
    <2> QED
      BY <1>2, <1>4, <1>9, <2>1, FewerMessages
  <1>11. CASE Bounded
    <2>1. Stray' + others' + Flag(unread') <= Stray + others + Flag(unread) + 1
      BY <1>2, <1>6, <1>8
    <2> QED
      BY <1>2, <1>4, <1>9, <1>11, <2>1, OneMoreMessage
  <1> QED
    BY <1>1, <1>10, <1>11

LEMMA CountsType ==
    ASSUME TypeInv, Counts
    PROVE  TypeInv'
  <1>1. plain' \in 0..ErrorLimit
    BY LimitsArePositive DEF TypeInv, TypeOK, Counts, ErrorAnswered, Capped
  <1> QED
    BY <1>1, CountsMessages
       DEF TypeInv, TypeOK, MessagesInv, Nodes, Pending, Counts, Answered, tallies

LEMMA CrashMessages ==
    ASSUME TypeInv, Crash
    PROVE  MessagesInv'
  <1>1. MessagesInv /\ unread' = FALSE /\ others' = others /\ fresh' = fresh
    BY MessagesAreTyped DEF Crash, Afresh
  <1>2. CASE own' = own
    BY <1>1, <1>2, SameMessages DEF MessagesInv
  <1>3. CASE (unread \/ Bounded) /\ own' = [own EXCEPT !["lost"] = @ + 1]
    <2>1. own' \in [Kinds -> Nat] /\ Stray' = Stray + 1 /\ Stray \in Nat /\ others \in Nat
      BY <1>1, <1>3 DEF MessagesInv, Stray, Kinds
    <2>2. Flag(unread') = 0
      BY <1>1, FlagValue, Zenon
    <2>3. Flag(unread) \in 0..1 /\ (unread => Flag(unread) = 1)
      BY <1>1, FlagValue DEF MessagesInv, Flag
    <2>4. others' \in Nat /\ unread' \in BOOLEAN /\ fresh' \in BOOLEAN
      BY <1>1, <2>1 DEF MessagesInv
    <2>5. CASE unread
      <3>1. Flag(unread) = 1
        BY <2>3, <2>5
      <3>2. others' = others /\ Stray' = Stray + 1 /\ Stray \in Nat /\ others \in Nat
        BY <1>1, <2>1
      <3>3. Stray' + others' + Flag(unread') <= Stray + others + Flag(unread)
        BY <2>2, <3>1, <3>2
      <3> QED
        BY <1>1, <2>1, <2>4, <3>3, FewerMessages
    <2>6. CASE Bounded
      <3>1. Stray' + others' + Flag(unread') <= Stray + others + Flag(unread) + 1
        BY <1>1, <2>1, <2>2, <2>3
      <3> QED
        BY <1>1, <2>1, <2>4, <2>6, <3>1, OneMoreMessage
    <2> QED
      BY <1>3, <2>5, <2>6
  <1> QED
    BY <1>2, <1>3 DEF Crash

LEMMA CustomerMessages ==
    ASSUME TypeInv, Customer
    PROVE  MessagesInv'
  <1>1. MessagesInv /\ unread' = unread /\ Flag(unread) \in 0..1
    BY MessagesAreTyped, FlagValue DEF Customer, runVars, MessagesInv
  <1>2. Stray \in Nat /\ others \in Nat
    BY <1>1 DEF MessagesInv, Stray, Kinds
  <1>3. CASE GapPasses
    BY <1>1, <1>3, SameMessages DEF GapPasses
  <1>4. ASSUME NEW k \in Kinds, own[k] > 0, own' = [own EXCEPT ![k] = @ - 1],
               UNCHANGED <<others, fresh>>
        PROVE  MessagesInv'
    <2>1. own' \in [Kinds -> Nat]
      BY <1>1, <1>4 DEF MessagesInv
    <2>2. own'["unread"] <= own["unread"] /\ own'["lost"] <= own["lost"]
      BY <1>1, <1>4 DEF MessagesInv, Kinds
    <2>3. Stray' \in Nat /\ Stray' <= Stray
      BY <1>1, <2>1, <2>2 DEF MessagesInv, Stray, Kinds
    <2> QED
      BY <1>1, <1>2, <1>4, <2>1, <2>3, FewerMessages DEF MessagesInv
  <1>5. CASE others > 0 /\ others' = others - 1 /\ UNCHANGED <<own, fresh>>
    BY <1>1, <1>2, <1>5, FewerMessages DEF MessagesInv, Stray
  <1>6. CASE OthersSend
    BY <1>1, <1>2, <1>6, OneMoreMessage DEF OthersSend, MessagesInv, Stray
  <1>7. CASE Forgotten
    <2>1. own' \in [Kinds -> Nat]
      BY <1>1, <1>7 DEF Forgotten, MessagesInv, Kinds
    <2>2. own'["unread"] = own["unread"] /\ own'["lost"] = own["lost"] + 1
      BY <1>1, <1>7 DEF Forgotten, MessagesInv, Kinds
    <2>3. Stray' = Stray + 1
      BY <1>1, <2>2 DEF MessagesInv, Stray, Kinds
    <2>4. fresh' \in BOOLEAN
      BY <1>1, <1>7 DEF Forgotten, MessagesInv
    <2> QED
      BY <1>1, <1>2, <1>7, <2>1, <2>3, <2>4, OneMoreMessage DEF Forgotten, MessagesInv
  <1> QED
    BY <1>3, <1>4, <1>5, <1>6, <1>7 DEF Customer, Ages

LEMMA CustomerType ==
    ASSUME TypeInv, Customer
    PROVE  TypeInv'
  BY CustomerMessages
     DEF TypeInv, TypeOK, MessagesInv, Customer, runVars, tallies, talkVars

LEMMA NextType ==
    ASSUME TypeInv, [Next]_vars
    PROVE  TypeInv'
  <1> USE DEF Extra, Stray
  <1>0. CASE UNCHANGED vars
    BY <1>0 DEF TypeInv, TypeOK, vars, runVars, tallies, talkVars, customerVars
  <1>1. CASE Start
    BY <1>1 DEF Start, TypeInv, TypeOK, Nodes, Pending, runVars, tallies,
                talkVars, customerVars
  <1>2. CASE Mask
    BY <1>2, LimitsArePositive
       DEF Mask, TypeInv, TypeOK, Nodes, Pending, runVars, tallies, talkVars,
           customerVars
  <1>3. CASE Stops
    <2>1. CASE Over("ended")
      BY <2>1, OverKeepsType
    <2>2. CASE node = "stopping" /\ node' = "critique"
               /\ UNCHANGED <<runVars, outcome, talkVars, customerVars>>
      BY <2>2 DEF TypeInv, TypeOK, Nodes, Pending, runVars, tallies, talkVars,
                  customerVars
    <2> QED
      BY <1>3, <2>1, <2>2 DEF Stops
  <1>4. CASE Critique
    BY <1>4, OverKeepsType DEF Critique
  <1>5. CASE Crash
    <2>1. dangling' \in BOOLEAN
      BY <1>5 DEF Crash, LeftDangling, TypeInv, TypeOK
    <2> QED
      BY <1>5, <2>1, CrashMessages, OverType DEF Crash
  <1> QED
    BY <1>0, <1>1, <1>2, <1>3, <1>4, <1>5, TurnType, GatesType, WorksType,
       FailsType, SendsType, CountsType, CustomerType
    DEF Next, Step

\* Whatever the session goes through, its state stays within its types.
THEOREM TypeCorrect == Spec => []TypeOK
  <1>1. TypeInv /\ [Next]_vars => TypeInv'
    BY NextType
  <1>2. TypeInv => TypeOK
    BY DEF TypeInv
  <1> QED
    BY <1>1, <1>2, InitType, PTL DEF Spec

-----------------------------------------------------------------------------
(* The cap on messages                                                     *)

\* A message that was let through on a look at the profile has its place
\* beneath the cap until it is counted, whatever others send in between.
Looked ==
    /\ ~unread
    /\ node = "count" \/ (node \in {"approval", "tools"} /\ call[1] \in Messages)
CapInv == own["counted"] + Flag(Looked) <= MaxContacts

LEMMA CountedType == TypeInv => own["counted"] \in Nat
  BY DEF TypeInv, TypeOK, Kinds

LEMMA InitCap == Init => CapInv
  BY LimitsArePositive DEF Init, CapInv, Flag, Looked, Kinds

\* Where no message is let through and none is counted, nothing is gained.
LEMMA QuietCap ==
    ASSUME TypeInv, CapInv, own'["counted"] \in Nat,
           own'["counted"] <= own["counted"], Looked' => Looked
    PROVE  CapInv'
  BY CountedType, LimitsArePositive DEF CapInv, Flag

LEMMA PolicyCap ==
    ASSUME TypeInv, CapInv, Policy
    PROVE  CapInv'
  <1>1. own' = own /\ node = "policy"
    BY DEF Policy, customerVars
  <1>2. CASE ~Looked'
    BY <1>1, <1>2, CountedType, QuietCap
  <1>3. CASE Looked'
    <2>1. call[1] \in Messages /\ ~unread' /\ node' = "approval"
      BY <1>1, <1>3 DEF Policy, Looked, Refused
    <2>2. PICK entries \in Window..2 * Window : ~OverCap(call[1], entries)
      BY <2>1 DEF Policy, Refused
    <2>3. Window \in Nat /\ own["counted"] <= Window
      BY DEF Window, TypeInv, TypeOK, Kinds
    <2>4. own["counted"] < MaxContacts
      BY <2>1, <2>2, <2>3, CountedType, LimitsArePositive
         DEF OverCap, MayContact, Communicating, Messages
    <2> QED
      BY <1>1, <2>4, CountedType, LimitsArePositive DEF CapInv, Flag
  <1> QED
    BY <1>2, <1>3

LEMMA CountsCap ==
    ASSUME TypeInv, CapInv, Counts
    PROVE  CapInv'
  <1>1. node = "count" /\ ~Looked'
    BY DEF Counts, Looked
  <1>2. PICK kind \in {"lost", IF unread THEN "unread" ELSE "counted"} :
            own' = [own EXCEPT ![kind] = @ + 1]
    BY DEF Counts
  <1>3. own'["counted"] = own["counted"] + Flag(kind = "counted")
    BY <1>2 DEF TypeInv, TypeOK, Kinds, Flag
  <1>4. kind = "counted" => Looked
    BY <1>1 DEF Looked
  <1> QED
    BY <1>1, <1>3, <1>4, CountedType, LimitsArePositive DEF CapInv, Flag

LEMMA CustomerCap ==
    ASSUME TypeInv, CapInv, Customer
    PROVE  CapInv'
  <1>1. Looked' <=> Looked
    BY DEF Customer, Looked, runVars
  <1>2. own'["counted"] <= own["counted"] /\ own'["counted"] \in Nat
    <2>1. own \in [Kinds -> Nat] /\ "counted" \in Kinds
      BY DEF TypeInv, TypeOK, Kinds
    <2>2. CASE own' = own
      BY <2>1, <2>2
    <2>3. ASSUME NEW k \in Kinds, own[k] > 0, own' = [own EXCEPT ![k] = @ - 1]
          PROVE  own'["counted"] <= own["counted"] /\ own'["counted"] \in Nat
      BY <2>1, <2>3
    <2>4. CASE Forgotten
      BY <2>1, <2>4 DEF Forgotten, Kinds
    <2> QED
      BY <2>2, <2>3, <2>4 DEF Customer, GapPasses, Ages, OthersSend
  <1> QED
    BY <1>1, <1>2, QuietCap

LEMMA NextCap ==
    ASSUME TypeInv, CapInv, [Next]_vars
    PROVE  CapInv'
  <1>1. CASE UNCHANGED vars
    BY <1>1, QuietCap, CountedType DEF vars, runVars, customerVars, Looked
  <1>2. CASE Start \/ Turn \/ GuardStops \/ GuardBlocks \/ GuardPasses \/ Works
             \/ Fails \/ Mask \/ Stops \/ Critique
    <2>1. UNCHANGED own
      BY <1>2 DEF Start, Turn, Unavailable, BadRequest, Raises, Concludes, Proposes,
           GuardStops, GuardBlocks, GuardPasses, Works, Fails, Mask, Stops, Critique,
           Over, customerVars
    <2>2. ~Looked'
      BY <1>2 DEF Start, Turn, Unavailable, BadRequest, Raises, Concludes, Proposes,
           GuardStops, GuardBlocks, GuardPasses, Works, Fails, Mask, Stops, Critique,
           Over, Looked
    <2> QED
      BY <2>1, <2>2, QuietCap, CountedType
  <1>3. CASE Policy
    BY <1>3, PolicyCap
  <1>4. CASE Approval \/ Sends
    BY <1>4, QuietCap, CountedType
       DEF Approval, Refused, Sends, Looked, customerVars, None
  <1>5. CASE Crash
    <2>1. own'["counted"] = own["counted"]
      BY <1>5 DEF Crash, TypeInv, TypeOK, Kinds
    <2> QED
      BY <1>5, <2>1, QuietCap, CountedType DEF Crash, Looked
  <1>6. CASE Counts
    BY <1>6, CountsCap
  <1>7. CASE Customer
    BY <1>7, CustomerCap
  <1> QED
    BY <1>1, <1>2, <1>3, <1>4, <1>5, <1>6, <1>7 DEF Next, Step, Gates

\* However the runs of a session end and whoever else writes to the customer,
\* its messages exceed the cap by no more than went out unread or are not in the
\* profile.
THEOREM CapIsKept == Spec => []CapHolds
  <1>1. Init => TypeInv /\ CapInv
    BY InitType, InitCap
  <1>2. TypeInv /\ CapInv /\ [Next]_vars => (TypeInv /\ CapInv)'
    BY NextType, NextCap
  <1>3. TypeInv /\ CapInv => CapHolds
    BY CountedType, LimitsArePositive
       DEF TypeInv, TypeOK, CapInv, Flag, CapHolds, Sent, Stray, Kinds
  <1> QED
    BY <1>1, <1>2, <1>3, PTL DEF Spec

-----------------------------------------------------------------------------
(* Loops                                                                   *)

DoneBy(t) == {c \in done : c[1] = t}
Limited == Tools \ Recheckable

\* What has been executed was recorded by the guard first; behind the guard
\* the record is one ahead of what was executed, the pending call of a limited
\* tool being recorded and not executed yet.
LoopInv ==
    /\ done \subseteq asked /\ IsFiniteSet(done)
    /\ \A t \in Limited : Cardinality(DoneBy(t)) <= count[t]
    /\ node \in Cleared => call \in asked
    /\ node \in Cleared /\ call[1] \in Limited =>
           /\ call \notin done
           /\ Cardinality(DoneBy(call[1])) + 1 <= count[call[1]]

LEMMA DoneByIsFinite ==
    ASSUME IsFiniteSet(done), NEW t
    PROVE  IsFiniteSet(DoneBy(t)) /\ Cardinality(DoneBy(t)) \in Nat
  BY FS_Subset, FS_CardinalityType DEF DoneBy

LEMMA EmptyLoop ==
    ASSUME done = {}, count = [t \in Tools |-> 0], node \notin Cleared
    PROVE  LoopInv
  <1>1. \A t \in Limited : DoneBy(t) = {}
    BY DEF DoneBy
  <1> QED
    BY <1>1, FS_EmptySet DEF LoopInv, Limited

LEMMA InitLoop == Init => LoopInv
  BY EmptyLoop DEF Init, Cleared, Pending

LEMMA EmptyLoopNext ==
    ASSUME done' = {}, count' = [t \in Tools |-> 0], node' \notin Cleared
    PROVE  LoopInv'
  <1>1. \A t \in Limited : DoneBy(t)' = {}
    BY DEF DoneBy
  <1> QED
    BY <1>1, FS_EmptySet DEF LoopInv, Limited

LEMMA OverLoop ==
    ASSUME Afresh, node' = "idle"
    PROVE  LoopInv'
  BY EmptyLoopNext DEF Afresh, Cleared, Pending

\* Steps that execute nothing and let nothing through.
LEMMA QuietLoop ==
    ASSUME TypeInv, LoopInv, UNCHANGED <<asked, count, done>>,
           node' \in Cleared => node \in Cleared /\ call' = call
    PROVE  LoopInv'
  <1>1. \A t : DoneBy(t)' = DoneBy(t)
    BY DEF DoneBy
  <1> QED
    BY <1>1 DEF LoopInv

LEMMA RecordedCounts ==
    ASSUME TypeInv, call \in Calls, Recorded
    PROVE  /\ asked' = asked \cup {call}
           /\ \A t \in Tools : count[t] <= count'[t]
           /\ count[call[1]] < DoomLimit => count'[call[1]] = count[call[1]] + 1
           /\ count' \in [Tools -> 0..DoomLimit]
  <1>1. call[1] \in Tools /\ \A t \in Tools : count[t] \in 0..DoomLimit
    BY CallsHaveTools DEF TypeInv, TypeOK
  <1>2. /\ \A t \in Tools \ {call[1]} : count'[t] = count[t]
        /\ count'[call[1]] = Capped(count[call[1]] + 1, DoomLimit)
    BY <1>1 DEF Recorded, TypeInv, TypeOK
  <1>3. /\ count[call[1]] <= count'[call[1]]
        /\ count[call[1]] < DoomLimit => count'[call[1]] = count[call[1]] + 1
    BY <1>1, <1>2, LimitsArePositive DEF Capped
  <1> QED
    BY <1>1, <1>2, <1>3, RecordedType DEF Recorded

LEMMA GuardBlocksLoop ==
    ASSUME TypeInv, LoopInv, GuardBlocks
    PROVE  LoopInv'
  <1>1. call \in Calls /\ done' = done /\ node' \notin Cleared
    BY DEF GuardBlocks, TypeInv, Pending, Cleared
  <1>2. \A t : DoneBy(t)' = DoneBy(t)
    BY <1>1 DEF DoneBy
  <1>3. \A t \in Limited : Cardinality(DoneBy(t)) \in Nat
    BY DoneByIsFinite DEF LoopInv
  <1>4. \A t \in Limited : count[t] \in Nat /\ count'[t] \in Nat /\ count[t] <= count'[t]
    BY <1>1, RecordedCounts DEF GuardBlocks, Limited, TypeInv, TypeOK
  <1>5. \A t \in Limited : Cardinality(DoneBy(t)') <= count'[t]
    BY <1>2, <1>3, <1>4 DEF LoopInv
  <1>6. asked' = asked \cup {call}
    BY DEF GuardBlocks, Recorded
  <1> QED
    BY <1>1, <1>5, <1>6 DEF LoopInv

LEMMA GuardPassesLoop ==
    ASSUME TypeInv, LoopInv, GuardPasses
    PROVE  LoopInv'
  <1>1. call \in Calls /\ done' = done /\ call' = call /\ asked' = asked \cup {call}
    BY DEF GuardPasses, Recorded, TypeInv, Pending
  <1>2. \A t : DoneBy(t)' = DoneBy(t)
    BY <1>1 DEF DoneBy
  <1>3. \A t \in Limited : Cardinality(DoneBy(t)) \in Nat
    BY DoneByIsFinite DEF LoopInv
  <1>4. \A t \in Limited : count[t] \in Nat /\ count'[t] \in Nat /\ count[t] <= count'[t]
    BY <1>1, RecordedCounts DEF GuardPasses, Limited, TypeInv, TypeOK
  <1>5. \A t \in Limited : Cardinality(DoneBy(t)') <= count'[t]
    BY <1>2, <1>3, <1>4 DEF LoopInv
  <1>6. ASSUME call[1] \in Limited
        PROVE  call \notin done' /\ Cardinality(DoneBy(call[1])') + 1 <= count'[call[1]]
    <2>1. call \notin asked /\ count[call[1]] < DoomLimit
      BY <1>4, <1>6, LimitsArePositive DEF GuardPasses, Repeated, Limited
    <2>2. count'[call[1]] = count[call[1]] + 1
      BY <1>1, <2>1, RecordedCounts DEF GuardPasses
    <2> QED
      BY <1>1, <1>2, <1>3, <1>4, <1>6, <2>1, <2>2 DEF LoopInv
  <1> QED
    BY <1>1, <1>5, <1>6 DEF LoopInv

\* A tool that ran takes the place the guard kept for it.
LEMMA AnsweredLoop ==
    ASSUME TypeInv, LoopInv, node = "tools", done' = done \cup {call},
           node' \notin Cleared,
           UNCHANGED <<asked, count>>
    PROVE  LoopInv'
  <1>1. call \in asked /\ done' = done \cup {call}
    BY DEF LoopInv, Cleared, Pending
  <1>2. IsFiniteSet(done') /\ done' \subseteq asked'
    BY <1>1, FS_AddElement DEF LoopInv
  <1>3. ASSUME NEW t \in Limited
        PROVE  Cardinality(DoneBy(t)') <= count'[t]
    <2>1. CASE call[1] = t
      <3>1. call \notin done /\ Cardinality(DoneBy(t)) + 1 <= count[t]
        BY <2>1, <1>3 DEF LoopInv, Cleared, Pending
      <3>2. DoneBy(t)' = DoneBy(t) \cup {call} /\ call \notin DoneBy(t)
        BY <1>1, <2>1, <3>1 DEF DoneBy
      <3>3. IsFiniteSet(DoneBy(t))
        BY DoneByIsFinite DEF LoopInv
      <3> QED
        BY <3>1, <3>2, <3>3, FS_AddElement
    <2>2. CASE call[1] # t
      <3>1. DoneBy(t)' = DoneBy(t)
        BY <1>1, <2>2 DEF DoneBy
      <3> QED
        BY <3>1 DEF LoopInv
    <2> QED
      BY <2>1, <2>2
  <1> QED
    BY <1>2, <1>3 DEF LoopInv

LEMMA NextLoop ==
    ASSUME TypeInv, LoopInv, [Next]_vars
    PROVE  LoopInv'
  <1> USE DEF Cleared, Pending
  <1>1. CASE UNCHANGED vars
    BY <1>1, QuietLoop DEF vars, runVars, tallies
  <1>2. CASE Start \/ Unavailable \/ BadRequest \/ Concludes \/ GuardStops
             \/ Policy \/ Approval \/ Mask \/ Customer
             \/ \E c \in Calls : Proposes(c)
    BY <1>2, QuietLoop
       DEF Start, Unavailable, BadRequest, Concludes, GuardStops, Policy, Refused,
           Approval, Mask, Customer, Proposes, runVars, tallies
  <1>3. CASE Raises \/ Critique \/ Crash
    BY <1>3, OverLoop DEF Raises, Critique, Crash, Over
  <1>4. CASE Stops
    BY <1>4, OverLoop, QuietLoop DEF Stops, Over, runVars, tallies
  <1>5. CASE GuardBlocks
    BY <1>5, GuardBlocksLoop
  <1>6. CASE GuardPasses
    BY <1>6, GuardPassesLoop
  <1>7. CASE Works \/ Fails \/ Sends
    BY <1>7, AnsweredLoop DEF Works, Fails, Sends
  <1>8. CASE Counts
    BY <1>8, QuietLoop DEF Counts, tallies
  <1> QED
    BY <1>1, <1>2, <1>3, <1>4, <1>5, <1>6, <1>7, <1>8 DEF Next, Step, Turn, Gates

LEMMA LoopStep ==
    ASSUME TypeInv, LoopInv, Executes, call[1] \notin Recheckable
    PROVE  call \notin done
  BY CallsHaveTools
     DEF Executes, LoopInv, Limited, TypeInv, Cleared, Pending

LEMMA LoopBound ==
    ASSUME TypeInv, LoopInv
    PROVE  \A t \in Tools \ Recheckable : Cardinality({c \in done : c[1] = t}) <= DoomLimit
  <1> SUFFICES ASSUME NEW t \in Limited
               PROVE  Cardinality(DoneBy(t)) <= DoomLimit
    BY DEF Limited, DoneBy
  <1>1. Cardinality(DoneBy(t)) \in Nat /\ Cardinality(DoneBy(t)) <= count[t]
    BY DoneByIsFinite DEF LoopInv
  <1>2. count[t] \in 0..DoomLimit
    BY DEF Limited, TypeInv, TypeOK
  <1> QED
    BY <1>1, <1>2, LimitsArePositive

\* No run executes a call twice, or a tool more often than the limit.
THEOREM LoopsEnd == Spec => LoopsAreCut
  <1> DEFINE Inv == TypeInv /\ LoopInv
             NoRepeat == Executes /\ call[1] \notin Recheckable => call \notin done
             Bound == \A t \in Tools \ Recheckable :
                          Cardinality({c \in done : c[1] = t}) <= DoomLimit
  <1>1. Init => Inv
    BY InitType, InitLoop
  <1>2. Inv /\ [Next]_vars => Inv'
    BY NextType, NextLoop
  <1>3. Inv /\ [Next]_vars => [NoRepeat]_vars
    BY LoopStep
  <1>4. Inv => Bound
    BY LoopBound
  <1> QED
    BY <1>1, <1>2, <1>3, <1>4, PTL DEF Spec, LoopsAreCut
=============================================================================
