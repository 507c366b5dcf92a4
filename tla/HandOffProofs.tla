--------------------------- MODULE HandOffProofs ---------------------------
(***************************************************************************)
(* Proofs about HandOff, for any cases, signals and threads, however they  *)
(* race: no hand-off is swallowed, and the two unlocked windows are the    *)
(* only way by which two runs meet on a case or an occurrence gets two.    *)
(***************************************************************************)
EXTENDS HandOff, TLAPS

\* A thread is idle or carries a case and a signal to one of the places.
LEMMA ThreadShape ==
    ASSUME TypeOK, NEW t \in Threads
    PROVE  /\ thread[t].at \in Places \cup {"idle"}
           /\ thread[t].at = "idle" => thread[t] = Idle
           /\ thread[t].at # "idle" =>
                  /\ thread[t] \in Busy
                  /\ thread[t].case \in Cases
                  /\ thread[t].sig \in Signals \cup {Direct}
                  /\ thread[t].at \in {"flag", "wait", "retest"}
                         => thread[t].sig \in Signals
  BY DEF TypeOK, Busy, Idle, Places

\* Moving a busy thread to another place keeps the type of the threads.
LEMMA GotoType ==
    ASSUME TypeOK, NEW t \in Threads, NEW place \in Places,
           thread[t].at # "idle", Goto(t, place),
           place \in {"flag", "wait", "retest"} => thread[t].sig # Direct
    PROVE  /\ thread' \in [Threads -> Busy \cup {Idle}]
           /\ thread'[t].at = place
           /\ thread'[t].case = thread[t].case
           /\ thread'[t].sig = thread[t].sig
           /\ \A u \in Threads : u # t => thread'[u] = thread[u]
  <1>1. thread[t] \in Busy
    BY ThreadShape
  <1>2. [thread[t] EXCEPT !.at = place] \in Busy
    BY <1>1 DEF Busy
  <1> QED
    BY <1>1, <1>2 DEF Goto, TypeOK, Busy

\* So does stopping it.
LEMMA StopType ==
    ASSUME TypeOK, NEW t \in Threads, Stop(t)
    PROVE  /\ thread' \in [Threads -> Busy \cup {Idle}]
           /\ thread'[t].at = "idle"
           /\ \A u \in Threads : u # t => thread'[u] = thread[u]
  BY DEF Stop, TypeOK, Idle

\* And so does sending an idle one off with a signal.
LEMMA StartType ==
    ASSUME TypeOK, NEW t \in Threads, NEW c \in Cases,
           NEW s \in Signals \cup {Direct}, NEW place \in Places,
           place \in {"flag", "wait", "retest"} => s # Direct,
           thread' = [thread EXCEPT ![t] =
                        [at |-> place, case |-> c, sig |-> s]]
    PROVE  /\ thread' \in [Threads -> Busy \cup {Idle}]
           /\ thread'[t].at = place
           /\ thread'[t].case = c
           /\ thread'[t].sig = s
           /\ \A u \in Threads : u # t => thread'[u] = thread[u]
  <1>1. [at |-> place, case |-> c, sig |-> s] \in Busy
    BY DEF Busy
  <1> QED
    BY <1>1 DEF TypeOK

-----------------------------------------------------------------------------
\* A pair a thread carries to a run is a pair of the record's flags.
LEMMA PairType ==
    ASSUME TypeOK, NEW t \in Threads, thread[t].at # "idle",
           thread[t].sig # Direct
    PROVE  Pair(t) \in Pairs
  BY ThreadShape DEF Pair, Pairs

\* Every step keeps the types.
LEMMA NextType ==
    ASSUME TypeOK, [Next]_vars
    PROVE  TypeOK'
  <1> USE SignalsAssumption
  <1>1. ASSUME NEW t \in Threads, NEW c \in Cases, Start(t, c)
        PROVE  TypeOK'
    <2>1. thread' \in [Threads -> Busy \cup {Idle}]
      BY <1>1, StartType DEF Start, Places
    <2>2. ending' \in [Cases -> Endings]
      BY <1>1 DEF Start, Reopened, TypeOK, Endings
    <2> QED
      BY <1>1, <2>1, <2>2 DEF Start, TypeOK, races
  <1>2. ASSUME NEW t \in Threads, NEW c \in Cases, NEW s \in Signals,
               Observe(t, c, s)
        PROVE  TypeOK'
    <2>1. thread' \in [Threads -> Busy \cup {Idle}]
      <3>1. CASE UNCHANGED thread
        BY <3>1 DEF TypeOK
      <3>2. CASE thread' = [thread EXCEPT ![t] =
                              [at |-> "flag", case |-> c, sig |-> s]]
        BY <3>2, StartType DEF Places
      <3> QED
        BY <1>2, <3>1, <3>2 DEF Observe
    <2>2. <<c, s>> \in Pairs
      BY DEF Pairs
    <2>3. emitted' \subseteq Pairs /\ doubled' \subseteq Pairs
      BY <1>2, <2>2 DEF Observe, TypeOK, races
    <2> QED
      BY <1>2, <2>1, <2>3 DEF Observe, TypeOK, races
  <1>3. ASSUME NEW t \in Threads, Flag(t)
        PROVE  TypeOK'
    <2>1. thread[t].at # "idle" /\ Pair(t) \in Pairs
      BY <1>3, PairType, ThreadShape DEF Flag, At
    <2>2. thread' \in [Threads -> Busy \cup {Idle}]
      BY <1>3, <2>1, GotoType, StopType DEF Flag, Places, At
    <2> QED
      BY <1>3, <2>1, <2>2 DEF Flag, TypeOK, races
  <1>4. ASSUME NEW t \in Threads, Enter(t)
        PROVE  TypeOK'
    <2>1. thread' \in [Threads -> Busy \cup {Idle}]
      BY <1>4, GotoType, StopType, ThreadShape DEF Enter, Admit, Places, At
    <2>2. crowded' \subseteq Cases
      BY <1>4, ThreadShape DEF Enter, Admit, At, TypeOK
    <2> QED
      BY <1>4, <2>1, <2>2 DEF Enter, TypeOK
  <1>5. ASSUME NEW t \in Threads, LeaveWait(t)
        PROVE  TypeOK'
    <2>1. thread' \in [Threads -> Busy \cup {Idle}]
      BY <1>5, GotoType, ThreadShape DEF LeaveWait, Places, At
    <2> QED
      BY <1>5, <2>1 DEF LeaveWait, TypeOK, races
  <1>6. ASSUME NEW t \in Threads, Retest(t)
        PROVE  TypeOK'
    <2>1. thread' \in [Threads -> Busy \cup {Idle}]
      BY <1>6, GotoType, StopType, ThreadShape DEF Retest, Admit, Places, At
    <2>2. flags' \subseteq Pairs
      BY <1>6 DEF Retest, Released, TypeOK
    <2>3. crowded' \subseteq Cases
      BY <1>6, ThreadShape DEF Retest, Admit, At, TypeOK
    <2> QED
      BY <1>6, <2>1, <2>2, <2>3 DEF Retest, TypeOK
  <1>7. ASSUME NEW t \in Threads, Add(t)
        PROVE  TypeOK'
    <2>1. thread[t].at # "idle"
      BY <1>7 DEF Add, At
    <2>2. thread' \in [Threads -> Busy \cup {Idle}]
      BY <1>7, <2>1, GotoType DEF Add, Places
    <2>3. active' \subseteq Cases
      BY <1>7, <2>1, ThreadShape DEF Add, TypeOK, races
    <2>4. heard' \in [Pairs -> 0..2]
      <3>1. CASE heard' = heard
        BY <3>1 DEF TypeOK
      <3>2. CASE /\ thread[t].sig # Direct /\ heard[Pair(t)] # 2
                 /\ heard' = [heard EXCEPT ![Pair(t)] = @ + 1]
        <4>1. Pair(t) \in Pairs
          BY <2>1, <3>2, PairType
        <4>2. heard[Pair(t)] + 1 \in 0..2
          BY <3>2, <4>1 DEF TypeOK
        <4> QED
          BY <3>2, <4>1, <4>2 DEF TypeOK
      <3> QED
        BY <1>7, <3>1, <3>2 DEF Add
    <2> QED
      BY <1>7, <2>2, <2>3, <2>4 DEF Add, TypeOK, races
  <1>8. ASSUME NEW t \in Threads, Finish(t)
        PROVE  TypeOK'
    BY <1>8, StopType DEF Finish, Cleared, TypeOK
  <1>9. ASSUME NEW c \in Cases, Settle(c)
        PROVE  TypeOK'
    BY <1>9 DEF Settle, TypeOK, Endings, races
  <1>10. ASSUME NEW c \in Cases, LearnContact(c)
         PROVE  TypeOK'
    BY <1>10 DEF LearnContact, TypeOK, races
  <1>11. CASE UNCHANGED vars
    BY <1>11 DEF vars, races, TypeOK
  <1> QED
    BY <1>1, <1>2, <1>3, <1>4, <1>5, <1>6, <1>7, <1>8, <1>9, <1>10, <1>11
       DEF Next, Steps

\* The initial states have the types.
LEMMA InitType == ASSUME Init PROVE TypeOK
  BY DEF Init, TypeOK, Endings

\* Type correctness of the hand-off protocol.
THEOREM TypeCorrect == Spec => []TypeOK
  BY InitType, NextType, PTL DEF Spec
-----------------------------------------------------------------------------
(* No hand-off is swallowed.  A step can disturb this for a pair in three  *)
(* ways: it sets the flag, it clears it, or the thread that carries the    *)
(* pair stops or starts its run.                                           *)

\* No step leaves a flag behind whose signal nobody carries, has heard, or
\* could not be sent to anybody.
LEMMA NextNotSwallowed ==
    ASSUME TypeOK, NotSwallowed, [Next]_vars
    PROVE  NotSwallowed'
  <1> USE SignalsAssumption
  <1>1. ASSUME NEW t \in Threads, thread[t].at = "idle", flags' = flags,
               heard' = heard, muted' = muted,
               \A u \in Threads : u # t => thread'[u] = thread[u]
        PROVE  NotSwallowed'
    <2>1. \A p \in flags, u \in Threads : Carries(u, p) => Carries(u, p)'
      BY <1>1 DEF Carries, At, Pair
    <2> QED
      BY <1>1, <2>1 DEF NotSwallowed
  <1>2. ASSUME NEW t \in Threads, NEW c \in Cases, Start(t, c)
        PROVE  NotSwallowed'
    <2>1. \A u \in Threads : u # t => thread'[u] = thread[u]
      BY <1>2, StartType DEF Start, Places
    <2> QED
      BY <1>1, <1>2, <2>1 DEF Start, At
  <1>3. ASSUME NEW t \in Threads, NEW c \in Cases, NEW s \in Signals,
               Observe(t, c, s)
        PROVE  NotSwallowed'
    <2>1. \A u \in Threads : u # t => thread'[u] = thread[u]
      BY <1>3, StartType DEF Observe, Places, TypeOK
    <2> QED
      BY <1>1, <1>3, <2>1 DEF Observe, At
  <1>4. ASSUME NEW t \in Threads, thread[t].at # "idle",
               NEW place \in Places \ {"run"}, Goto(t, place),
               heard' = heard, muted' = muted,
               place \in {"flag", "wait", "retest"} => thread[t].sig # Direct,
               flags' \subseteq flags \cup {Pair(t)}
        PROVE  NotSwallowed'
    <2>1. \A p \in flags \cup {Pair(t)}, u \in Threads :
             Carries(u, p) => Carries(u, p)'
      BY <1>4, GotoType DEF Carries, At, Pair, Places
    <2>2. \A p \in {Pair(t)} : Carries(t, p)'
      BY <1>4, GotoType DEF Carries, At, Pair, Places
    <2> QED
      BY <1>4, <2>1, <2>2 DEF NotSwallowed
  <1>5. ASSUME NEW t \in Threads, Flag(t)
        PROVE  NotSwallowed'
    <2>1. CASE thread[t].case \in contact
      BY <1>4, <1>5, <2>1 DEF Flag, At, Places
    <2>2. CASE thread[t].case \notin contact
      <3>1. \A u \in Threads : u # t => thread'[u] = thread[u]
        BY <1>5, <2>2, StopType DEF Flag
      <3>2. ASSUME NEW p \in flags, p # Pair(t)
            PROVE  \A u \in Threads : Carries(u, p) => Carries(u, p)'
        BY <3>1, <3>2 DEF Carries, At, Pair
      <3> QED
        BY <1>5, <2>2, <3>2 DEF Flag, NotSwallowed
    <2> QED
      BY <2>1, <2>2
  <1>6. ASSUME NEW t \in Threads, Enter(t)
        PROVE  NotSwallowed'
    <2>1. CASE Goto(t, "add") \/ (thread[t].sig # Direct /\ Goto(t, "wait"))
      BY <1>4, <1>6, <2>1 DEF Enter, At, Places
    <2>2. CASE thread[t].sig = Direct /\ Stop(t)
      <3>1. \A u \in Threads : u # t => thread'[u] = thread[u]
        BY <2>2, StopType
      <3>2. \A p \in flags : ~ Carries(t, p)
        BY <2>2 DEF Carries, Pair, TypeOK, Pairs
      <3>3. \A p \in flags, u \in Threads : Carries(u, p) => Carries(u, p)'
        BY <3>1, <3>2 DEF Carries, At, Pair
      <3> QED
        BY <1>6, <3>3 DEF Enter, NotSwallowed
    <2> QED
      BY <1>6, <2>1, <2>2 DEF Enter, Admit
  <1>7. ASSUME NEW t \in Threads, LeaveWait(t)
        PROVE  NotSwallowed'
    BY <1>4, <1>7, ThreadShape DEF LeaveWait, At, Places
  <1>8. ASSUME NEW t \in Threads, Retest(t)
        PROVE  NotSwallowed'
    <2>1. CASE Goto(t, "add") /\ UNCHANGED flags
      BY <1>4, <1>8, <2>1 DEF Retest, At, Places
    <2>2. CASE flags' = flags \ Released(t) /\ Stop(t)
      <3>1. \A u \in Threads : u # t => thread'[u] = thread[u]
        BY <2>2, StopType
      <3>2. Pair(t) \notin flags'
        BY <2>2 DEF Released, Pair
      <3>3. \A p \in flags', u \in Threads : Carries(u, p) => Carries(u, p)'
        BY <3>1, <3>2 DEF Carries, At, Pair
      <3> QED
        BY <1>8, <2>2, <3>3 DEF Retest, NotSwallowed
    <2> QED
      BY <1>8, <2>1, <2>2 DEF Retest, Admit
  <1>9. ASSUME NEW t \in Threads, Add(t)
        PROVE  NotSwallowed'
    <2>1. \A p \in flags, u \in Threads :
             Carries(u, p) /\ u # t => Carries(u, p)'
      BY <1>9, GotoType DEF Add, Carries, At, Pair, Places
    <2>2. \A p \in Pairs : heard[p] > 0 => heard'[p] > 0
      BY <1>9 DEF Add, TypeOK, races
    <2>3. ASSUME NEW p \in flags, Carries(t, p)
          PROVE  heard'[p] > 0
      <3>1. thread[t].sig # Direct /\ p = Pair(t) /\ p \in Pairs
        BY <2>3 DEF Carries, Pair, TypeOK, Pairs
      <3>2. CASE heard[p] = 2
        BY <1>9, <3>1, <3>2 DEF Add
      <3>3. CASE heard[p] # 2
        BY <1>9, <3>1, <3>3 DEF Add, TypeOK, races
      <3> QED
        BY <3>2, <3>3
    <2> QED
      BY <1>9, <2>1, <2>2, <2>3 DEF Add, NotSwallowed, TypeOK
  <1>10. ASSUME NEW t \in Threads, Finish(t)
         PROVE  NotSwallowed'
    <2>1. \A p \in flags, u \in Threads : Carries(u, p) => Carries(u, p)'
      BY <1>10, StopType DEF Finish, Carries, At, Pair
    <2> QED
      BY <1>10, <2>1 DEF Finish, NotSwallowed
  <1>11. ASSUME NEW c \in Cases, Settle(c) \/ LearnContact(c)
         PROVE  NotSwallowed'
    BY <1>11 DEF Settle, LearnContact, NotSwallowed, Carries, Pair
  <1>12. CASE UNCHANGED vars
    BY <1>12 DEF vars, NotSwallowed, Carries, Pair
  <1> QED
    BY <1>2, <1>3, <1>5, <1>6, <1>7, <1>8, <1>9, <1>10, <1>11, <1>12
       DEF Next, Steps

\* "Never silently swallow it", for any cases, signals and threads, however
\* the threads race and whatever the runs do.
THEOREM NothingIsSwallowed == Spec => []NotSwallowed
  <1>1. Init => NotSwallowed
    BY DEF Init, NotSwallowed
  <1>2. TypeOK /\ NotSwallowed /\ [Next]_vars => NotSwallowed'
    BY NextNotSwallowed
  <1> QED
    BY <1>1, <1>2, TypeCorrect, PTL DEF Spec

-----------------------------------------------------------------------------
(* Runs of one case.                                                       *)

\* A step by which no thread comes nearer to a case, and the case keeps its
\* place in the active set.
LEMMA RunKept ==
    ASSUME TypeOK, RunInv, NEW c \in Cases, c \notin crowded,
           c \in active => c \in active',
           \A u \in Threads : /\ Holds(u, c)' => Holds(u, c)
                              /\ At(u, "run")' /\ On(u, c)' => At(u, "run") /\ On(u, c)
    PROVE  \A t \in Threads :
               /\ At(t, "run")' /\ On(t, c)' => c \in active'
               /\ Holds(t, c)' => \A u \in Threads \ {t} : ~ Holds(u, c)'
  BY DEF RunInv

\* A thread finds its case free.
LEMMA AdmitRun ==
    ASSUME TypeOK, RunInv, NEW t \in Threads, thread[t].at # "idle",
           Admit(t), active' = active
    PROVE  RunInv'
  <1>0. PICK c \in Cases : c = thread[t].case
    BY ThreadShape
  <1>1. /\ c \in Cases /\ c \notin active /\ crowded \subseteq crowded'
        /\ thread'[t].at = "add" /\ thread'[t].case = c
        /\ \A u \in Threads : u # t => thread'[u] = thread[u]
    BY <1>0, GotoType, ThreadShape DEF Admit, Places
  <1>2. ASSUME NEW d \in Cases \ crowded', d # c
        PROVE  \A u \in Threads :
                   /\ Holds(u, d)' => Holds(u, d)
                   /\ At(u, "run")' /\ On(u, d)' => At(u, "run") /\ On(u, d)
    BY <1>1, <1>2 DEF Holds, At, On
  <1>3. ASSUME c \notin crowded', NEW u \in Threads \ {t}
        PROVE  ~ Holds(u, c)'
    <2>1. ~ (At(u, "add") /\ On(u, c))
      BY <1>0, <1>3 DEF Admit, Others
    <2>2. ~ (At(u, "run") /\ On(u, c))
      BY <1>1, <1>3 DEF RunInv
    <2> QED
      BY <1>1, <1>3, <2>1, <2>2 DEF Holds, At, On
  <1>4. ~ At(t, "run")'
    BY <1>1 DEF At
  <1>5. ASSUME c \notin crowded', NEW v \in Threads
        PROVE  /\ At(v, "run")' /\ On(v, c)' => c \in active'
               /\ Holds(v, c)' => \A u \in Threads \ {v} : ~ Holds(u, c)'
    <2>1. At(v, "run")' /\ On(v, c)' => v # t /\ Holds(v, c)'
      BY <1>4 DEF Holds, At
    <2> QED
      BY <1>3, <1>5, <2>1
  <1>6. ASSUME NEW d \in Cases \ crowded', d # c
        PROVE  \A v \in Threads :
                   /\ At(v, "run")' /\ On(v, d)' => d \in active'
                   /\ Holds(v, d)' => \A u \in Threads \ {v} : ~ Holds(u, d)'
    <2>1. d \in Cases /\ d \notin crowded
      BY <1>1
    <2> QED
      BY <1>2, <1>6, <2>1, RunKept
  <1>7. ASSUME NEW d \in (Cases \ crowded)', NEW v \in Threads
        PROVE  /\ At(v, "run")' /\ On(v, d)' => d \in active'
               /\ Holds(v, d)' => \A u \in Threads \ {v} : ~ Holds(u, d)'
    <2>1. CASE d = c
      BY <1>5, <1>7, <2>1
    <2>2. CASE d # c
      BY <1>6, <1>7, <2>2
    <2> QED
      BY <2>1, <2>2
  <1> QED
    BY <1>7 DEF RunInv

\* A thread goes to a place away from the cases, or stays there.
LEMMA AwayRun ==
    ASSUME TypeOK, RunInv, NEW t \in Threads,
           thread'[t].at \notin {"add", "run"},
           \A u \in Threads : u # t => thread'[u] = thread[u],
           active' = active, crowded' = crowded
    PROVE  RunInv'
  <1>1. \A d \in Cases, u \in Threads :
            /\ Holds(u, d)' => Holds(u, d)
            /\ At(u, "run")' /\ On(u, d)' => At(u, "run") /\ On(u, d)
    BY DEF Holds, At, On
  <1> QED
    BY <1>1, RunKept DEF RunInv

\* Every step keeps the invariant.
LEMMA NextRun ==
    ASSUME TypeOK, RunInv, [Next]_vars
    PROVE  RunInv'
  <1> USE SignalsAssumption
  <1>2. ASSUME NEW t \in Threads, NEW c \in Cases, Start(t, c)
        PROVE  RunInv'
    <2>1. /\ thread'[t].at = "enter"
          /\ \A u \in Threads : u # t => thread'[u] = thread[u]
      BY <1>2, StartType DEF Start, Places
    <2> QED
      BY <1>2, <2>1, AwayRun DEF Start, races
  <1>3. ASSUME NEW t \in Threads, NEW c \in Cases, NEW s \in Signals,
               Observe(t, c, s)
        PROVE  RunInv'
    <2>1. /\ thread'[t].at \in {"idle", "flag"}
          /\ \A u \in Threads : u # t => thread'[u] = thread[u]
      BY <1>3, StartType DEF Observe, Places, TypeOK, At
    <2> QED
      BY <1>3, <2>1, AwayRun DEF Observe
  <1>4. ASSUME NEW t \in Threads, Flag(t)
        PROVE  RunInv'
    <2>1. /\ thread'[t].at \in {"idle", "enter"}
          /\ \A u \in Threads : u # t => thread'[u] = thread[u]
      BY <1>4, GotoType, StopType DEF Flag, Places, At
    <2> QED
      BY <1>4, <2>1, AwayRun DEF Flag, races
  <1>5. ASSUME NEW t \in Threads, Enter(t) \/ Retest(t)
        PROVE  RunInv'
    <2>1. thread[t].at \in {"enter", "retest"} /\ active' = active
      BY <1>5 DEF Enter, Retest, At
    <2>2. CASE Admit(t)
      BY <2>1, <2>2, AdmitRun
    <2>3. CASE Stop(t) /\ crowded' = crowded
      BY <2>1, <2>3, StopType, AwayRun
    <2>4. CASE thread[t].sig # Direct /\ Goto(t, "wait") /\ crowded' = crowded
      <3>1. /\ thread'[t].at = "wait"
            /\ \A u \in Threads : u # t => thread'[u] = thread[u]
        BY <2>1, <2>4, GotoType DEF Places
      <3> QED
        BY <2>1, <2>4, <3>1, AwayRun
    <2> QED
      BY <1>5, <2>2, <2>3, <2>4 DEF Enter, Retest
  <1>6. ASSUME NEW t \in Threads, LeaveWait(t)
        PROVE  RunInv'
    <2>1. /\ thread'[t].at = "retest"
          /\ \A u \in Threads : u # t => thread'[u] = thread[u]
      BY <1>6, GotoType, ThreadShape DEF LeaveWait, Places, At
    <2> QED
      BY <1>6, <2>1, AwayRun DEF LeaveWait, races
  <1>7. ASSUME NEW t \in Threads, Add(t)
        PROVE  RunInv'
    <2> DEFINE c == thread[t].case
    <2>1. /\ thread[t].at = "add" /\ c \in Cases /\ active' = active \cup {c}
          /\ thread'[t].at = "run" /\ thread'[t].case = c /\ crowded' = crowded
          /\ \A u \in Threads : u # t => thread'[u] = thread[u]
      BY <1>7, GotoType, ThreadShape DEF Add, At, Places, races
    <2>2. \A d \in Cases, u \in Threads : Holds(u, d)' => Holds(u, d)
      BY <2>1 DEF Holds, At, On
    <2>3. \A d \in Cases, u \in Threads :
              At(u, "run")' /\ On(u, d)' =>
                  d \in active' \/ (At(u, "run") /\ On(u, d))
      BY <2>1 DEF At, On
    <2> QED
      BY <2>1, <2>2, <2>3 DEF RunInv
  <1>8. ASSUME NEW t \in Threads, Finish(t)
        PROVE  RunInv'
    <2>0. PICK c \in Cases : c = thread[t].case
      BY <1>8, ThreadShape DEF Finish, At
    <2>1. /\ thread[t].at = "run" /\ active' = active \ {c} /\ c \in Cases
          /\ thread'[t].at = "idle"
          /\ \A u \in Threads : u # t => thread'[u] = thread[u]
      BY <1>8, <2>0, StopType, ThreadShape DEF Finish, At
    <2>2. ~ LeftAlone(t, c) => \E u \in Threads \ {t} : Holds(u, c)
      BY DEF LeftAlone, Others, Holds, At
    <2>3. LeftAlone(t, c) => \A u \in Threads \ {t} : ~ Holds(u, c)
      BY DEF LeftAlone, Others, Holds, At
    <2>4. Holds(t, c)
      BY <2>0, <2>1 DEF Holds, On
    <2>5. c \notin crowded' => LeftAlone(t, c)
      BY <1>8, <2>0, <2>1, <2>2, <2>4 DEF Finish, Cleared, RunInv
    <2>6. ASSUME c \notin crowded', NEW u \in Threads
          PROVE  ~ Holds(u, c)' /\ ~ (At(u, "run")' /\ On(u, c)')
      <3>1. CASE u = t
        BY <2>1, <3>1 DEF Holds, At, On
      <3>2. CASE u # t
        <4>1. ~ Holds(u, c)
          BY <2>3, <2>5, <2>6, <3>2
        <4>2. thread'[u] = thread[u]
          BY <2>1, <3>2
        <4> QED
          BY <4>1, <4>2 DEF Holds, At, On
      <3> QED
        BY <3>1, <3>2
    <2>7. ASSUME NEW d \in Cases \ crowded', d # c
          PROVE  \A v \in Threads :
                     /\ At(v, "run")' /\ On(v, d)' => d \in active'
                     /\ Holds(v, d)' => \A u \in Threads \ {v} : ~ Holds(u, d)'
      <3>1. \A u \in Threads :
                /\ Holds(u, d)' => Holds(u, d)
                /\ At(u, "run")' /\ On(u, d)' => At(u, "run") /\ On(u, d)
        BY <2>1 DEF Holds, At, On
      <3>2. d \in Cases /\ d \notin crowded /\ (d \in active => d \in active')
        BY <1>8, <2>0, <2>1, <2>7 DEF Finish, Cleared
      <3> QED
        BY <3>1, <3>2, RunKept
    <2>8. ASSUME NEW d \in (Cases \ crowded)', NEW v \in Threads
          PROVE  /\ At(v, "run")' /\ On(v, d)' => d \in active'
                 /\ Holds(v, d)' => \A u \in Threads \ {v} : ~ Holds(u, d)'
      <3>1. CASE d = c
        BY <2>6, <2>8, <3>1
      <3>2. CASE d # c
        BY <2>7, <2>8, <3>2
      <3> QED
        BY <3>1, <3>2
    <2> QED
      BY <2>8 DEF RunInv
  <1>9. CASE thread' = thread /\ active' = active /\ crowded' = crowded
    BY <1>9 DEF RunInv, Holds, At, On
  <1> QED
    BY <1>2, <1>3, <1>4, <1>5, <1>6, <1>7, <1>8, <1>9
       DEF Next, Steps, Settle, LearnContact, vars, races

\* "only one may hold a payment": for any cases, signals and threads, however
\* they race, two runs meet on a case only if two threads had tested the
\* active set before either added the case, since it was last left alone.
THEOREM RunsMeetOnlyByRace == Spec => []RunsMeetByRace
  <1>1. Init => RunInv
    BY DEF Init, RunInv, Holds, At, On, Idle
  <1>2. TypeOK /\ RunInv /\ [Next]_vars => RunInv'
    BY NextRun
  <1>3. RunInv => RunsMeetByRace
    BY DEF RunInv, RunsMeetByRace, Together, Others, Holds, At
  <1> QED
    BY <1>1, <1>2, <1>3, TypeCorrect, PTL DEF Spec

-----------------------------------------------------------------------------
(* Runs for one occurrence.                                                *)

\* A step that neither starts a run nor lets a thread pick up an occurrence
\* keeps the invariant, if the flags it clears are those of signals that come
\* only once or that no thread carries and no run has heard.
LEMMA HeardKept ==
    ASSUME HeardInv, heard' = heard, emitted \subseteq emitted',
           doubled' = doubled,
           \A u \in Threads, p \in Pairs :
               Carries(u, p)' => /\ Carries(u, p)
                                 /\ ~At(u, "flag")' => ~At(u, "flag") \/ p \in flags',
           \A p \in Pairs \ doubled : p[2] \notin OneShot /\ p \in flags \ flags'
               => heard[p] = 0 /\ \A u \in Threads : ~Carries(u, p)'
    PROVE  HeardInv'
  <1>1. CarriedOnce' /\ CarriedIsUnheard' /\ HeardTwiceByRace'
    BY DEF HeardInv, CarriedOnce, CarriedIsUnheard, HeardTwiceByRace
  <1>2. OneShotIsEmitted'
    BY DEF HeardInv, OneShotIsEmitted
  <1>3. OthersAreFlagged'
    BY DEF HeardInv, OthersAreFlagged
  <1> QED
    BY <1>1, <1>2, <1>3 DEF HeardInv

\* Every step keeps the invariant.
LEMMA NextHeard ==
    ASSUME TypeOK, HeardInv, [Next]_vars
    PROVE  HeardInv'
  <1> USE SignalsAssumption
  <1>1. ASSUME NEW t \in Threads, NEW c \in Cases, Start(t, c)
        PROVE  HeardInv'
    <2>1. /\ thread'[t].sig = Direct
          /\ \A u \in Threads : u # t => thread'[u] = thread[u]
      BY <1>1, StartType DEF Start, Places
    <2>2. \A u \in Threads, p \in Pairs :
             Carries(u, p)' => Carries(u, p) /\ (~At(u, "flag")' => ~At(u, "flag"))
      BY <2>1 DEF Carries, Pair, Pairs, At
    <2> QED
      BY <1>1, <2>2, HeardKept DEF Start, races
  <1>2. ASSUME NEW t \in Threads, NEW c \in Cases, NEW s \in Signals,
               Observe(t, c, s)
        PROVE  HeardInv'
    <2> DEFINE p0 == <<c, s>>
    <2>1. /\ p0 \in Pairs /\ p0[2] = s
          /\ thread[t].at = "idle" /\ flags' = flags /\ heard' = heard
          /\ emitted' = emitted \cup {p0}
      BY <1>2 DEF Observe, At, Pairs
    <2>2. CASE UNCHANGED <<thread, doubled>>
      <3>1. \A u \in Threads, p \in Pairs :
               Carries(u, p)' => Carries(u, p) /\ (~At(u, "flag")' => ~At(u, "flag"))
        BY <2>1, <2>2 DEF Carries, Pair, At
      <3> QED
        BY <2>1, <2>2, <3>1, HeardKept
    <2>3. CASE /\ ~ Refused(c, s)
               /\ thread' = [thread EXCEPT ![t] =
                               [at |-> "flag", case |-> c, sig |-> s]]
               /\ doubled' = doubled \cup {p \in {p0} : OthersFlag(t, p)}
      <3>1. /\ thread'[t].at = "flag" /\ thread'[t].case = c
            /\ thread'[t].sig = s
            /\ \A u \in Threads : u # t => thread'[u] = thread[u]
        BY <2>3, StartType DEF Places
      <3>2. s \in OneShot =>
               (\A u \in Threads : ~ Carries(u, p0)) /\ ~ heard[p0] > 0
        BY <1>2, <2>1 DEF Observe, HeardInv, OneShotIsEmitted
      <3>3. ASSUME p0 \notin doubled'
            PROVE  /\ \A u \in Threads : u # t => ~ Carries(u, p0)
                   /\ ~ heard[p0] > 0
        <4>1. p0 \notin flags /\ p0 \notin doubled
          BY <2>3, <3>3 DEF Refused
        <4>2. \A u \in Threads : u # t => ~ (At(u, "flag") /\ Pair(u) = p0)
          BY <2>3, <3>3 DEF OthersFlag
        <4>3. s \notin OneShot =>
                 /\ \A u \in Threads : ~ (Carries(u, p0) /\ ~ At(u, "flag"))
                 /\ ~ heard[p0] > 0
          BY <2>1, <4>1 DEF HeardInv, OthersAreFlagged
        <4> QED
          BY <3>2, <4>2, <4>3 DEF Carries
      <3>4. \A p \in Pairs, u \in Threads :
               Carries(u, p)' => IF u = t THEN p = p0 ELSE Carries(u, p)
        BY <3>1 DEF Carries, Pair
      <3>5. p0 \notin doubled' => heard[p0] = 0
        BY <2>1, <3>3 DEF TypeOK
      <3>6. CarriedOnce' /\ CarriedIsUnheard' /\ HeardTwiceByRace'
        BY <2>1, <2>3, <3>3, <3>4, <3>5
           DEF HeardInv, CarriedOnce, CarriedIsUnheard, HeardTwiceByRace
      <3>7. OneShotIsEmitted'
        BY <2>1, <3>4 DEF HeardInv, OneShotIsEmitted
      <3>8. \A p \in Pairs, u \in Threads :
               Carries(u, p)' /\ ~At(u, "flag")' => Carries(u, p) /\ ~At(u, "flag")
        BY <3>1, <3>4 DEF At
      <3>9. OthersAreFlagged'
        BY <2>1, <2>3, <3>8 DEF HeardInv, OthersAreFlagged
      <3> QED
        BY <3>6, <3>7, <3>9 DEF HeardInv
    <2> QED
      BY <1>2, <2>2, <2>3 DEF Observe
  <1>3. ASSUME NEW t \in Threads, Flag(t)
        PROVE  HeardInv'
    <2>1. /\ thread[t].at = "flag" /\ heard' = heard /\ emitted' = emitted
          /\ flags' = flags \cup {Pair(t)} /\ doubled' = doubled
      BY <1>3 DEF Flag, At, races
    <2>2. Goto(t, "enter") \/ Stop(t)
      BY <1>3 DEF Flag
    <2>3. \A u \in Threads : u # t => thread'[u] = thread[u]
      BY <2>1, <2>2, GotoType, StopType DEF Places
    <2>4. \A p \in Pairs, u \in Threads :
             Carries(u, p)' => Carries(u, p) /\ (u = t => p = Pair(t))
      <3>1. \A p \in Pairs : Carries(t, p)' => p = Pair(t)
        BY <2>1, <2>2, GotoType, StopType DEF Carries, Pair, Places
      <3> QED
        BY <2>1, <2>3, <3>1 DEF Carries, Pair
    <2>5. \A u \in Threads, p \in Pairs :
             Carries(u, p)' => /\ Carries(u, p)
                               /\ ~At(u, "flag")' => ~At(u, "flag") \/ p \in flags'
      BY <2>1, <2>3, <2>4 DEF At
    <2> QED
      BY <2>1, <2>5, HeardKept
  <1>4. ASSUME NEW t \in Threads, Enter(t) \/ LeaveWait(t) \/ Retest(t)
                                  \/ Finish(t)
        PROVE  HeardInv'
    <2>1. /\ thread[t].at \in {"enter", "wait", "retest", "run"}
          /\ heard' = heard /\ emitted' = emitted /\ doubled' = doubled
      BY <1>4 DEF Enter, LeaveWait, Retest, Finish, At, races
    <2>2. /\ thread[t].at # "run"
          /\ \E place \in Places \ {"run", "flag"} :
                /\ Goto(t, place)
                /\ place \in {"wait", "retest"} => thread[t].sig # Direct
          \/ Stop(t)
      BY <1>4, ThreadShape DEF Enter, LeaveWait, Retest, Finish, Admit, Places, At
    <2>3. \A u \in Threads : u # t => thread'[u] = thread[u]
      BY <2>1, <2>2, GotoType, StopType
    <2>4. \A p \in Pairs : Carries(t, p)' => Carries(t, p)
      <3>1. CASE Stop(t)
        BY <3>1, StopType DEF Carries
      <3>2. ASSUME NEW place \in Places \ {"run", "flag"}, Goto(t, place),
                   thread[t].at # "run",
                   place \in {"wait", "retest"} => thread[t].sig # Direct
            PROVE  \A p \in Pairs : Carries(t, p)' => Carries(t, p)
        BY <2>1, <3>2, GotoType DEF Carries, Pair
      <3> QED
        BY <2>2, <3>1, <3>2
    <2>5. \A u \in Threads, p \in Pairs :
             Carries(u, p)' => Carries(u, p) /\ (~At(u, "flag")' => ~At(u, "flag"))
      BY <2>1, <2>3, <2>4 DEF Carries, Pair, At
    <2>6. ASSUME NEW p \in Pairs \ doubled, p[2] \notin OneShot,
                 p \in flags \ flags'
          PROVE  heard[p] = 0 /\ \A u \in Threads : ~Carries(u, p)'
      <3>1. Retest(t) /\ p \in Released(t) /\ Stop(t)
        BY <1>4, <2>6 DEF Enter, LeaveWait, Retest, Finish
      <3>2. thread[t].sig \in Signals /\ thread[t].at = "retest"
        BY <3>1, ThreadShape DEF Retest, At
      <3>3. p = Pair(t)
        BY <2>6, <3>1, <3>2 DEF Released, Pair, Pairs
      <3>4. Carries(t, p)
        BY <3>2, <3>3 DEF Carries
      <3>5. ~ Carries(t, p)'
        BY <3>1, StopType DEF Carries
      <3> QED
        BY <2>5, <3>4, <3>5 DEF HeardInv, CarriedOnce, CarriedIsUnheard
    <2> QED
      BY <2>1, <2>5, <2>6, HeardKept
  <1>5. ASSUME NEW t \in Threads, Add(t)
        PROVE  HeardInv'
    <2>1. /\ thread[t].at = "add" /\ flags' = flags /\ emitted' = emitted
          /\ doubled' = doubled /\ thread'[t].at = "run"
          /\ \A u \in Threads : u # t => thread'[u] = thread[u]
      BY <1>5, GotoType DEF Add, At, Places, races
    <2>2. \A p \in Pairs, u \in Threads :
             Carries(u, p)' => /\ u # t /\ Carries(u, p)
                               /\ ~At(u, "flag")' => ~At(u, "flag")
      BY <2>1 DEF Carries, Pair, At
    <2>3. CASE thread[t].sig = Direct
      <3>1. heard' = heard
        BY <1>5, <2>3 DEF Add
      <3> QED
        BY <2>1, <2>2, <3>1, HeardKept
    <2>4. CASE thread[t].sig # Direct
      <3> DEFINE p0 == Pair(t)
      <3>1. p0 \in Pairs /\ Carries(t, p0) /\ ~At(t, "flag")
        BY <2>1, <2>4, PairType DEF Carries, At
      <3>2. p0 \notin doubled => /\ heard[p0] = 0
                                 /\ \A u \in Threads : Carries(u, p0) => u = t
        BY <3>1 DEF HeardInv, CarriedIsUnheard, CarriedOnce
      <3>3. /\ \A p \in Pairs \ {p0} : heard'[p] = heard[p]
            /\ p0 \notin doubled => heard'[p0] = 1
        BY <1>5, <2>4, <3>1, <3>2 DEF Add, TypeOK
      <3>4. CarriedOnce'
        BY <2>1, <2>2 DEF HeardInv, CarriedOnce
      <3>5. CarriedIsUnheard'
        BY <2>1, <2>2, <3>2, <3>3 DEF HeardInv, CarriedIsUnheard
      <3>6. HeardTwiceByRace'
        BY <2>1, <3>3 DEF HeardInv, HeardTwiceByRace
      <3>7. p0[2] \in OneShot => p0 \in emitted
        BY <3>1 DEF HeardInv, OneShotIsEmitted
      <3>8. OneShotIsEmitted'
        BY <2>1, <2>2, <3>3, <3>7 DEF HeardInv, OneShotIsEmitted
      <3>9. p0[2] \notin OneShot /\ p0 \notin doubled => p0 \in flags
        BY <3>1 DEF HeardInv, OthersAreFlagged
      <3>10. OthersAreFlagged'
        BY <2>1, <2>2, <3>3, <3>9 DEF HeardInv, OthersAreFlagged
      <3> QED
        BY <3>4, <3>5, <3>6, <3>8, <3>10 DEF HeardInv
    <2> QED
      BY <2>3, <2>4
  <1>6. CASE thread' = thread /\ flags' = flags /\ heard' = heard
             /\ emitted' = emitted /\ doubled' = doubled
    BY <1>6 DEF HeardInv, CarriedOnce, CarriedIsUnheard, OneShotIsEmitted,
                OthersAreFlagged, HeardTwiceByRace, Carries, Pair, At
  <1> QED
    BY <1>1, <1>2, <1>3, <1>4, <1>5, <1>6
       DEF Next, Steps, Settle, LearnContact, vars, races

\* The flag "stops a single event firing twice": for any cases, signals and
\* threads, however often an occurrence is observed and however often its
\* hand-off gives up, it gets a second run only if two threads had looked at
\* its flag before either had set it.
THEOREM HeardTwiceOnlyByRace == Spec => []HeardTwiceByRace
  <1>1. Init => HeardInv
    BY DEF Init, HeardInv, CarriedOnce, CarriedIsUnheard, OneShotIsEmitted,
           OthersAreFlagged, HeardTwiceByRace, Carries, Idle, At
  <1>2. TypeOK /\ HeardInv /\ [Next]_vars => HeardInv'
    BY NextHeard
  <1>3. HeardInv => HeardTwiceByRace
    BY DEF HeardInv
  <1> QED
    BY <1>1, <1>2, <1>3, TypeCorrect, PTL DEF Spec
=============================================================================
