------------------------- MODULE DaemonJobsProofs -------------------------
(***************************************************************************)
(* Proofs about DaemonJobs, for any cases, jobs and owners of them.  None  *)
(* of them assumes anything about the daemon's crashes, the order of its   *)
(* round, how long the frontend's copy lags behind the file or the         *)
(* daemon's behind the records it parks.                                   *)
(***************************************************************************)
EXTENDS DaemonJobs, TLAPS

USE JobsAssumption, BoundsAssumption

-----------------------------------------------------------------------------
(* The types.  The daemon indexes the table by the job in its hand, so     *)
(* there has to be one while it records and notifies.                      *)

InHand == at \in {"record", "notify"} => cur \in Jobs

TypeInv == TypeOK /\ InHand

LEMMA NothingHeld == Nothing \in UNION {[C -> Holds] : C \in SUBSET Cases}
<1>1. Nothing \in [{} -> Holds]
  BY DEF Nothing
<1> QED
  BY <1>1

LEMMA TypeInit == Init => TypeInv
BY NothingHeld DEF Init, TypeInv, TypeOK, InHand, JobStates, Holds

LEMMA TypeStep == TypeInv /\ [Next]_vars => TypeInv'
<1> SUFFICES ASSUME TypeInv, [Next]_vars PROVE TypeInv'
  OBVIOUS
<1>0. Nothing \in UNION {[C -> Holds] : C \in SUBSET Cases}
  BY NothingHeld
<1> USE DEF TypeInv, TypeOK, InHand, daemon, parking, history, JobStates, Holds, Settled
<1>1. CASE Learn
  BY <1>1 DEF Learn
<1>2. CASE \E c \in Cases : Begin(c)
  BY <1>2 DEF Begin
<1>3. CASE \E c \in Cases : Defer(c)
  BY <1>3 DEF Defer
<1>4. CASE \E c \in Cases : Ages(c)
  BY <1>4 DEF Ages
<1>5. CASE \E c \in Cases : Answer(c)
  BY <1>5 DEF Answer
<1>6. CASE \E c \in Cases : EndRun(c)
  BY <1>6 DEF EndRun, Write, JobsOf, Ends
<1>7. CASE \E c \in Cases : Recover(c)
  BY <1>7 DEF Recover, Write
<1>8. CASE \E c \in Cases : Responds(c)
  BY <1>8 DEF Responds
<1>9. CASE \E c \in Cases : Close(c)
  BY <1>9 DEF Close, Write
<1>10. CASE \E j \in Jobs : Schedule(j)
  BY <1>10 DEF Schedule, Write
<1>11. CASE \E j \in Jobs : Elapse(j)
  BY <1>11 DEF Elapse
<1>12. CASE ParkRead
  BY <1>12 DEF ParkRead
<1>13. CASE Park
  BY <1>0, <1>13 DEF Park, ParkCases
<1>14. CASE Poll
  BY <1>14 DEF Poll
<1>15. CASE Record
  BY <1>15 DEF Record
<1>16. CASE Notify
  BY <1>16 DEF Notify
<1>17. CASE ReadHolds
  BY <1>17 DEF ReadHolds
<1>18. CASE Sleep
  BY <1>18 DEF Sleep
<1>19. CASE \E j \in Jobs : Execute(j)
  BY <1>19 DEF Execute
<1>20. CASE \E c \in Cases : Release(c)
  BY <1>20 DEF Release
<1>21. CASE \E c \in Cases : ReleaseLost(c)
  BY <1>21 DEF ReleaseLost
<1>22. CASE Crash
  BY <1>0, <1>22 DEF Crash, Dies
<1>23. CASE ParkBreaks
  BY <1>0, <1>23 DEF ParkBreaks, Dies, ParkCases
<1>24. CASE UNCHANGED vars
  BY <1>24 DEF vars
<1> QED
  BY <1>1, <1>2, <1>3, <1>4, <1>5, <1>6, <1>7, <1>8, <1>9, <1>10, <1>11,
     <1>12, <1>13, <1>14, <1>15, <1>16, <1>17, <1>18, <1>19, <1>20, <1>21,
     <1>22, <1>23, <1>24 DEF Next, Frontend, Round

\* Every variable keeps its type.
THEOREM TypeCorrect == Spec => []TypeOK
<1>1. TypeInv => TypeOK
  BY DEF TypeInv
<1> QED
  BY TypeInit, TypeStep, <1>1, PTL DEF Spec

LEMMA TypesHold == Spec => []TypeInv
BY TypeInit, TypeStep, PTL DEF Spec

-----------------------------------------------------------------------------
(* An ending cancels what is pending by the frontend's own copy of the     *)
(* table, which may be old; it is never too old for this: only the         *)
(* frontend makes a job pending, and its copy knows at once.               *)

PendingIsKnown == \A j \in Jobs : job[j] = "pending" => known[j] = "pending"

LEMMA KnownStep ==
    ASSUME TypeInv, PendingIsKnown, [Next]_vars
    PROVE  PendingIsKnown'
<1> USE DEF PendingIsKnown, TypeInv, TypeOK, InHand, daemon, parking, history
<1>1. CASE Learn
  BY <1>1 DEF Learn
<1>2. CASE \E c \in Cases : Begin(c)
  BY <1>2 DEF Begin
<1>3. CASE \E c \in Cases : Defer(c)
  BY <1>3 DEF Defer
<1>4. CASE \E c \in Cases : Ages(c)
  BY <1>4 DEF Ages
<1>5. CASE \E c \in Cases : Answer(c)
  BY <1>5 DEF Answer
<1>6. CASE \E c \in Cases : EndRun(c)
  BY <1>6 DEF EndRun, Write
<1>7. CASE \E c \in Cases : Recover(c)
  BY <1>7 DEF Recover, Write
<1>8. CASE \E c \in Cases : Responds(c)
  BY <1>8 DEF Responds
<1>9. CASE \E c \in Cases : Close(c)
  BY <1>9 DEF Close, Write
<1>10. CASE \E j \in Jobs : Schedule(j)
  BY <1>10 DEF Schedule, Write
<1>11. CASE \E j \in Jobs : Elapse(j)
  BY <1>11 DEF Elapse
<1>12. CASE ParkRead
  BY <1>12 DEF ParkRead
<1>13. CASE Park
  BY <1>13 DEF Park, ParkCases
<1>14. CASE Poll
  BY <1>14 DEF Poll
<1>15. CASE Record
  BY <1>15 DEF Record
<1>16. CASE Notify
  BY <1>16 DEF Notify
<1>17. CASE ReadHolds
  BY <1>17 DEF ReadHolds
<1>18. CASE Sleep
  BY <1>18 DEF Sleep
<1>19. CASE \E j \in Jobs : Execute(j)
  BY <1>19 DEF Execute
<1>20. CASE \E c \in Cases : Release(c)
  BY <1>20 DEF Release
<1>21. CASE \E c \in Cases : ReleaseLost(c)
  BY <1>21 DEF ReleaseLost
<1>22. CASE Crash
  BY <1>22 DEF Crash, Dies
<1>23. CASE ParkBreaks
  BY <1>23 DEF ParkBreaks, Dies, ParkCases
<1>24. CASE UNCHANGED vars
  BY <1>24 DEF vars
<1> QED
  BY <1>1, <1>2, <1>3, <1>4, <1>5, <1>6, <1>7, <1>8, <1>9, <1>10, <1>11,
     <1>12, <1>13, <1>14, <1>15, <1>16, <1>17, <1>18, <1>19, <1>20, <1>21,
     <1>22, <1>23, <1>24 DEF Next, Frontend, Round

\* A closure, and a recovery that goes through _mark_recovered, leave no timer
\* of the case pending, however old the copy of the table is by which they look
\* for them.  (Other endings cancel nothing, and tools of a late run set timers
\* for a case that has ended.)
THEOREM EndingsCancel == Spec => EndingCancelsTimers
<1>1. Init => PendingIsKnown
  BY DEF Init, PendingIsKnown
<1>2. TypeInv /\ PendingIsKnown /\ [Next]_vars => PendingIsKnown'
  BY KnownStep
<1>3. TypeInv /\ PendingIsKnown =>
         [\A c \in Cases : Recover(c) \/ Close(c) =>
             \A j \in JobsOf(c) : job'[j] # "pending"]_vars
  BY DEF TypeInv, TypeOK, PendingIsKnown, Recover, Close, Write, Pending, JobsOf
<1> QED
  BY TypesHold, <1>1, <1>2, <1>3, PTL DEF Spec, EndingCancelsTimers

-----------------------------------------------------------------------------
(* Executions.  A wake-up that can still be taken up, because it is        *)
(* pending or on the daemon's list, has been executed by an earlier life   *)
(* of the daemon only; that it is pending no longer when the daemon lays   *)
(* it down is what recording is for, and nothing makes it pending again.   *)

Untouched(j) == fired[j] <= crashes

FiredInv ==
    \A j \in WakeJobs :
        /\ fired[j] <= 1 + crashes
        /\ job[j] = "none" => Untouched(j) /\ cur # j
        /\ job[j] = "pending" => Untouched(j) \/ (cur = j /\ at = "record")
        /\ j \in todo => Untouched(j) /\ job[j] # "none"
        /\ cur = j => at \in {"record", "notify"} /\ j \notin todo
        /\ j \notin adopting

LEMMA FiredStep ==
    ASSUME TypeInv, FiredInv, [Next]_vars
    PROVE  FiredInv'
<1> USE DEF FiredInv, Untouched, TypeInv, TypeOK, InHand, daemon, parking, history,
            Jobs, JobStates
<1>1. CASE Learn
  BY <1>1 DEF Learn
<1>2. CASE \E c \in Cases : Begin(c)
  BY <1>2 DEF Begin
<1>3. CASE \E c \in Cases : Defer(c)
  BY <1>3 DEF Defer
<1>4. CASE \E c \in Cases : Ages(c)
  BY <1>4 DEF Ages
<1>5. CASE \E c \in Cases : Answer(c)
  BY <1>5 DEF Answer
<1>6. CASE \E c \in Cases : EndRun(c)
  BY <1>6 DEF EndRun, Write
<1>7. CASE \E c \in Cases : Recover(c)
  BY <1>7 DEF Recover, Write, Pending, JobsOf
<1>8. CASE \E c \in Cases : Responds(c)
  BY <1>8 DEF Responds
<1>9. CASE \E c \in Cases : Close(c)
  BY <1>9 DEF Close, Write, Pending, JobsOf
<1>10. CASE \E j \in Jobs : Schedule(j)
  BY <1>10 DEF Schedule, Write
<1>11. CASE \E j \in Jobs : Elapse(j)
  BY <1>11 DEF Elapse
<1>12. CASE ParkRead
  BY <1>12 DEF ParkRead
<1>13. CASE Park
  BY <1>13 DEF Park, ParkCases
<1>14. CASE Poll
  BY <1>14 DEF Poll
<1>15. CASE Record
  BY <1>15 DEF Record
<1>16. CASE Notify
  BY <1>16 DEF Notify
<1>17. CASE ReadHolds
  BY <1>17 DEF ReadHolds
<1>18. CASE Sleep
  BY <1>18 DEF Sleep
<1>19. CASE \E j \in Jobs : Execute(j)
  BY <1>19 DEF Execute
<1>20. CASE \E c \in Cases : Release(c)
  BY <1>20 DEF Release
<1>21. CASE \E c \in Cases : ReleaseLost(c)
  BY <1>21 DEF ReleaseLost
<1>22. CASE Crash
  BY <1>22 DEF Crash, Dies
<1>23. CASE ParkBreaks
  BY <1>23 DEF ParkBreaks, Dies, ParkCases
<1>24. CASE UNCHANGED vars
  BY <1>24 DEF vars
<1> QED
  BY <1>1, <1>2, <1>3, <1>4, <1>5, <1>6, <1>7, <1>8, <1>9, <1>10, <1>11,
     <1>12, <1>13, <1>14, <1>15, <1>16, <1>17, <1>18, <1>19, <1>20, <1>21,
     <1>22, <1>23, <1>24 DEF Next, Frontend, Round

\* A wake-up is executed once in a life of the daemon, whatever the frontend and
\* the daemon write over each other's entries of the table.
THEOREM WakesFireOncePerLife == Spec => []WakesFireOnce
<1>1. Init => FiredInv
  BY DEF Init, FiredInv, Untouched, Jobs
<1>2. TypeInv /\ FiredInv /\ [Next]_vars => FiredInv'
  BY FiredStep
<1>3. FiredInv => WakesFireOnce
  BY DEF FiredInv, WakesFireOnce
<1> QED
  BY TypesHold, <1>1, <1>2, <1>3, PTL DEF Spec

-----------------------------------------------------------------------------
(* Shelved wake-ups.  The daemon parks before it polls: what it shelves it *)
(* cannot hold.  The frontend never makes a wake-up pending twice, and     *)
(* writes no entry but those it decided on.                                *)

EmptyAtBoot == at \in {"boot", "park"} => todo = {} /\ cur = NoJob

ShelvedInv ==
    /\ EmptyAtBoot
    /\ WakeJobs \cap adopting = {}
    /\ backlog \subseteq {j \in Jobs : job[j] # "none"}
    /\ ShelvedWakesAreOver

LEMMA ShelvedStep ==
    ASSUME TypeInv, ShelvedInv, [Next]_vars
    PROVE  ShelvedInv'
<1> USE DEF ShelvedInv, EmptyAtBoot, ShelvedWakesAreOver, TypeInv, TypeOK, InHand,
            daemon, parking, history, Jobs, JobStates
<1>1. CASE Learn
  BY <1>1 DEF Learn
<1>2. CASE \E c \in Cases : Begin(c)
  BY <1>2 DEF Begin
<1>3. CASE \E c \in Cases : Defer(c)
  BY <1>3 DEF Defer
<1>4. CASE \E c \in Cases : Ages(c)
  BY <1>4 DEF Ages
<1>5. CASE \E c \in Cases : Answer(c)
  BY <1>5 DEF Answer
<1>6. CASE \E c \in Cases : EndRun(c)
  BY <1>6 DEF EndRun, Write
<1>7. CASE \E c \in Cases : Recover(c)
  BY <1>7 DEF Recover, Write
<1>8. CASE \E c \in Cases : Responds(c)
  BY <1>8 DEF Responds
<1>9. CASE \E c \in Cases : Close(c)
  BY <1>9 DEF Close, Write
<1>10. CASE \E j \in Jobs : Schedule(j)
  BY <1>10 DEF Schedule, Write
<1>11. CASE \E j \in Jobs : Elapse(j)
  BY <1>11 DEF Elapse
<1>12. CASE ParkRead
  BY <1>12 DEF ParkRead
<1>13. CASE Park
  BY <1>13 DEF Park, ParkCases
<1>14. CASE Poll
  BY <1>14 DEF Poll
<1>15. CASE Record
  BY <1>15 DEF Record
<1>16. CASE Notify
  BY <1>16 DEF Notify
<1>17. CASE ReadHolds
  BY <1>17 DEF ReadHolds
<1>18. CASE Sleep
  BY <1>18 DEF Sleep
<1>19. CASE \E j \in Jobs : Execute(j)
  BY <1>19 DEF Execute
<1>20. CASE \E c \in Cases : Release(c)
  BY <1>20 DEF Release
<1>21. CASE \E c \in Cases : ReleaseLost(c)
  BY <1>21 DEF ReleaseLost
<1>22. CASE Crash
  BY <1>22 DEF Crash, Dies
<1>23. CASE ParkBreaks
  BY <1>23 DEF ParkBreaks, Dies, ParkCases
<1>24. CASE UNCHANGED vars
  BY <1>24 DEF vars
<1> QED
  BY <1>1, <1>2, <1>3, <1>4, <1>5, <1>6, <1>7, <1>8, <1>9, <1>10, <1>11,
     <1>12, <1>13, <1>14, <1>15, <1>16, <1>17, <1>18, <1>19, <1>20, <1>21,
     <1>22, <1>23, <1>24 DEF Next, Frontend, Round

\* "Before the FIRST poll, so no backlogged wake can beat us to it"
\* (daemon_worker.py:350): what the daemon shelved when it came up is never
\* executed.
THEOREM ShelvedStaysShelved == Spec => []ShelvedWakesAreOver
<1>1. Init => ShelvedInv
  BY DEF Init, ShelvedInv, EmptyAtBoot, ShelvedWakesAreOver
<1>2. TypeInv /\ ShelvedInv /\ [Next]_vars => ShelvedInv'
  BY ShelvedStep
<1>3. ShelvedInv => ShelvedWakesAreOver
  BY DEF ShelvedInv
<1> QED
  BY TypesHold, <1>1, <1>2, <1>3, PTL DEF Spec

-----------------------------------------------------------------------------
(* An executed job is heard of.                                            *)

\* An execution that is written down has been told, or is about to be.
HeardInv ==
    \A j \in Jobs :
        job[j] = "completed" =>
            \/ j \in told
            \/ cur = j /\ at = "notify"
            \/ crashes > 0

LEMMA HeardStep ==
    ASSUME ~LossyPosts, TypeInv, HeardInv, [Next]_vars
    PROVE  HeardInv'
<1> USE DEF HeardInv, TypeInv, TypeOK, InHand, daemon, parking, history
<1>1. CASE Learn
  BY <1>1 DEF Learn
<1>2. CASE \E c \in Cases : Begin(c)
  BY <1>2 DEF Begin
<1>3. CASE \E c \in Cases : Defer(c)
  BY <1>3 DEF Defer
<1>4. CASE \E c \in Cases : Ages(c)
  BY <1>4 DEF Ages
<1>5. CASE \E c \in Cases : Answer(c)
  BY <1>5 DEF Answer
<1>6. CASE \E c \in Cases : EndRun(c)
  BY <1>6 DEF EndRun, Write
<1>7. CASE \E c \in Cases : Recover(c)
  BY <1>7 DEF Recover, Write
<1>8. CASE \E c \in Cases : Responds(c)
  BY <1>8 DEF Responds
<1>9. CASE \E c \in Cases : Close(c)
  BY <1>9 DEF Close, Write
<1>10. CASE \E j \in Jobs : Schedule(j)
  BY <1>10 DEF Schedule, Write
<1>11. CASE \E j \in Jobs : Elapse(j)
  BY <1>11 DEF Elapse
<1>12. CASE ParkRead
  BY <1>12 DEF ParkRead
<1>13. CASE Park
  BY <1>13 DEF Park, ParkCases
<1>14. CASE Poll
  BY <1>14 DEF Poll
<1>15. CASE Record
  BY <1>15 DEF Record
<1>16. CASE Notify
  BY <1>16 DEF Notify
<1>17. CASE ReadHolds
  BY <1>17 DEF ReadHolds
<1>18. CASE Sleep
  BY <1>18 DEF Sleep
<1>19. CASE \E j \in Jobs : Execute(j)
  BY <1>19 DEF Execute
<1>20. CASE \E c \in Cases : Release(c)
  BY <1>20 DEF Release
<1>21. CASE \E c \in Cases : ReleaseLost(c)
  BY <1>21 DEF ReleaseLost
<1>22. CASE Crash
  BY <1>22 DEF Crash, Dies
<1>23. CASE ParkBreaks
  BY <1>23 DEF ParkBreaks, Dies, ParkCases
<1>24. CASE UNCHANGED vars
  BY <1>24 DEF vars
<1> QED
  BY <1>1, <1>2, <1>3, <1>4, <1>5, <1>6, <1>7, <1>8, <1>9, <1>10, <1>11,
     <1>12, <1>13, <1>14, <1>15, <1>16, <1>17, <1>18, <1>19, <1>20, <1>21,
     <1>22, <1>23, <1>24 DEF Next, Frontend, Round

\* "THE WAIT IS A PROMISE, NOT A NOTE" (tools.py:889): if requests are not lost,
\* the frontend hears of every job the daemon has executed, unless the daemon
\* died between the two.
THEOREM ExecutedIsHeard == ~LossyPosts => (Spec => []ExecutedIsTold)
<1> SUFFICES ASSUME ~LossyPosts PROVE Spec => []ExecutedIsTold
  OBVIOUS
<1>1. Init => HeardInv
  BY DEF Init, HeardInv
<1>2. TypeInv /\ HeardInv /\ [Next]_vars => HeardInv'
  BY HeardStep
<1>3. HeardInv => ExecutedIsTold
  BY DEF HeardInv, ExecutedIsTold
<1> QED
  BY TypesHold, <1>1, <1>2, <1>3, PTL DEF Spec
=============================================================================
