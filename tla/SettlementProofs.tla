-------------------------- MODULE SettlementProofs --------------------------
(***************************************************************************)
(* Proofs about Settlement, for any orders, links, threads and number of   *)
(* deliveries: what is written down is right however the roads meet, as    *)
(* long as threads do not move between the test and the write of           *)
(* _mark_recovered and the record it holds is the store's.                 *)
(***************************************************************************)
EXTENDS Settlement, TLAPS

\* A tuple of variables, in most of the UNCHANGEDs.
USE DEF news

\* No more forwards are under way than the gateway has made deliveries, so
\* that their number stays within the bound.
TypeInv == TypeOK /\ \A e \in Events : flight[e] <= sends[e]

LEMMA ObjectsAreNamed ==
    /\ "none" \notin Objects /\ Captures \subseteq Objects
    /\ "failed" \in Events /\ Captures \subseteq Events
    /\ "failed" \notin Captures
  BY SettlementAssumption DEF Objects, Captures

\* What a thread carries from one place to the next.
LEMMA GotoType ==
    ASSUME TypeOK, NEW t \in Threads, NEW o \in Objects,
           NEW place \in {"mark", "count", "clean"}, Goto(t, place, o)
    PROVE  thread' \in [Threads -> Places \cup {Idle}]
  BY DEF TypeOK, Goto, Places

LEMMA EndsType ==
    ASSUME TypeOK, NEW t \in Threads, Ends(t)
    PROVE  thread' \in [Threads -> Places \cup {Idle}]
  BY DEF TypeOK, Ends

LEMMA RecordingType ==
    ASSUME TypeOK, NEW t \in Threads, NEW o \in Objects, Record(t, o)
    PROVE  thread' \in [Threads -> Places \cup {Idle}]
  BY GotoType, EndsType DEF Record

LEMMA StatusType ==
    ASSUME TypeOK, NEW st \in Statuses
    PROVE  WithStatus(rec, st) \in RecordType
  BY DEF TypeOK, WithStatus, RecordType

\* The receiver's own steps keep its types; what the frontend does of an event
\* that arrives is separate.
LEMMA ReceiverType ==
    ASSUME TypeInv, Receiver
    PROVE  TypeInv'
  <1> USE WebhookAssumption DEF TypeInv, TypeOK, HookTypeOK
  <1>1. CASE ReceiverRestarts /\ UNCHANGED caseVars
    BY <1>1 DEF ReceiverRestarts, caseVars
  <1>2. CASE \E e \in Events : Receive(e) /\ UNCHANGED caseVars
    BY <1>2 DEF Receive, caseVars
  <1>3. CASE \E e \in Events : ForwardFails(e) /\ UNCHANGED caseVars
    BY <1>3 DEF ForwardFails, caseVars
  <1>4. CASE \E e \in Events : Expire(e) /\ UNCHANGED caseVars
    BY <1>4 DEF Expire, caseVars
  <1> QED
    BY <1>1, <1>2, <1>3, <1>4 DEF Receiver

LEMMA ArriveType ==
    ASSUME TypeInv, NEW e \in Events, Arrive(e)
    PROVE  HookTypeOK' /\ \A f \in Events : flight'[f] <= sends'[f]
  BY WebhookAssumption DEF TypeInv, TypeOK, HookTypeOK, Arrive

LEMMA NextType ==
    ASSUME TypeInv, [Next]_vars
    PROVE  TypeInv'
  <1> USE ObjectsAreNamed DEF TypeInv
  <1> DEFINE SameHook == UNCHANGED <<raised, sends, processed, flight, dropped>>
  <1>0. SameHook => HookTypeOK' /\ \A e \in Events : flight'[e] <= sends'[e]
    BY DEF TypeOK, HookTypeOK
  <1>1. CASE Receiver
    BY <1>1, ReceiverType
  <1>2. CASE GatewayDeclines
    BY <1>2 DEF GatewayDeclines, TypeOK, HookTypeOK, caseVars
  <1>3. CASE PageFails
    <2>1. WithStatus(rec, "recovering") \in RecordType
      BY StatusType DEF Statuses
    <2>2. rec' \in RecordType /\ run' \in BOOLEAN
      BY <1>3, <2>1 DEF PageFails, RecordType, TypeOK
    <2> QED
      BY <1>0, <1>3, <2>2 DEF PageFails, TypeOK, hookVars
  <1>4. CASE Release
    BY <1>0, <1>4 DEF Release, TypeOK, RecordType, hookVars
  <1>5. CASE CustomerResponds
    BY <1>0, <1>5 DEF CustomerResponds, NeverEntered, TypeOK, RecordType, Statuses,
                      hookVars
  <1>6. CASE HookFailed
    <2>1. HookTypeOK' /\ \A e \in Events : flight'[e] <= sends'[e]
      BY <1>6, ArriveType DEF HookFailed
    <2>2. WithStatus(rec, "recovering") \in RecordType
      BY StatusType DEF Statuses
    <2>3. \A r \in RecordType : [r EXCEPT !.touched = TRUE] \in RecordType
      BY DEF RecordType
    <2>5. rec \in RecordType
      BY DEF TypeOK
    <2>6. rec' = rec \/ rec' = [WithStatus(rec, "recovering") EXCEPT !.touched = TRUE]
      BY <1>6 DEF HookFailed
    <2>7. rec' \in RecordType
      BY <2>2, <2>3, <2>5, <2>6
    <2>4. run' \in BOOLEAN
      BY <1>6 DEF HookFailed, TypeOK
    <2> QED
      BY <1>6, <2>1, <2>4, <2>7 DEF HookFailed, TypeOK
  <1>7. CASE EndRun
    <2>1. PICK st \in {"working", "failed", "escalated"} : rec' = WithStatus(rec, st)
      BY <1>7 DEF EndRun
    <2>2. rec' \in RecordType
      BY <2>1, StatusType DEF Statuses
    <2>3. thread' \in [Threads -> Places \cup {Idle}]
      BY <1>7 DEF EndRun, Goto, TypeOK, Places, Threads
    <2> QED
      BY <1>0, <1>7, <2>2, <2>3 DEF EndRun, TypeOK, hookVars
  <1>8. CASE HandedBack
    BY <1>0, <1>8 DEF HandedBack, TypeOK, hookVars
  <1>9. CASE FrontendRestarts
    <2>1. rec' \in RecordType
      BY <1>9 DEF FrontendRestarts, TypeOK, RecordType
    <2>2. fault' \in Statuses
      BY <1>9 DEF FrontendRestarts, Statuses
    <2> QED
      BY <1>9, <2>1, <2>2 DEF FrontendRestarts, TypeOK, HookTypeOK
  <1>10. ASSUME NEW o \in Orders, CreateOrder(o) PROVE TypeInv'
    <2>1. rec' \in RecordType
      BY <1>10 DEF CreateOrder, TypeOK, RecordType, Statuses
    <2> QED
      BY <1>0, <1>10, <2>1 DEF CreateOrder, TypeOK, hookVars
  <1>11. ASSUME NEW o \in Orders, BrowserLeaves(o) PROVE TypeInv'
    BY <1>0, <1>11 DEF BrowserLeaves, TypeOK, hookVars
  <1>12. ASSUME NEW o \in Objects, CustomerPays(o) PROVE TypeInv'
    <2>1. HookTypeOK' /\ \A e \in Events : flight'[e] <= sends'[e]
      BY <1>12 DEF CustomerPays, TypeOK, HookTypeOK
    <2> QED
      BY <1>12, <2>1 DEF CustomerPays, TypeOK
  <1>13. ASSUME NEW l \in Links, Mint(l) PROVE TypeInv'
    <2>1. rec' \in RecordType
      BY <1>13 DEF Mint, TypeOK, RecordType
    <2> QED
      BY <1>0, <1>13, <2>1 DEF Mint, TypeOK, hookVars
  <1>14. ASSUME NEW t \in Handlers, NEW o \in Orders, BrowserReports(t, o) PROVE TypeInv'
    <2>1. thread' \in [Threads -> Places \cup {Idle}]
      BY <1>14, GotoType, RecordingType DEF BrowserReports, TypeOK, Threads, Objects
    <2> QED
      BY <1>0, <1>14, <2>1 DEF BrowserReports, TypeOK, hookVars
  <1>15. ASSUME NEW t \in Handlers, NEW o \in Captures, HookCaptured(t, o) PROVE TypeInv'
    <2>1. HookTypeOK' /\ \A e \in Events : flight'[e] <= sends'[e]
      BY <1>15, ArriveType DEF HookCaptured
    <2>2. thread' \in [Threads -> Places \cup {Idle}]
      BY <1>15, GotoType, RecordingType DEF HookCaptured, TypeOK, Threads
    <2> QED
      BY <1>15, <2>1, <2>2 DEF HookCaptured, TypeOK
  <1>16. ASSUME NEW w \in Watchers, Poll(w) PROVE TypeInv'
    <2>1. thread' \in [Threads -> Places \cup {Idle}]
      BY <1>16, EndsType, RecordingType DEF Poll, TypeOK, Threads
    <2> QED
      BY <1>0, <1>16, <2>1 DEF Poll, TypeOK, hookVars
  <1>17. ASSUME NEW w \in Watchers, WatchEnds(w) PROVE TypeInv'
    <2>1. thread' \in [Threads -> Places \cup {Idle}]
      BY <1>17, EndsType DEF WatchEnds, Threads
    <2> QED
      BY <1>0, <1>17, <2>1 DEF WatchEnds, TypeOK, hookVars, Settled
  <1>18. ASSUME NEW t \in Threads, MarkWrite(t) PROVE TypeInv'
    <2>1. thread[t].obj \in Objects
      BY <1>18 DEF MarkWrite, At, TypeOK, Places, Idle
    <2>2. thread' \in [Threads -> Places \cup {Idle}]
      BY <1>18, <2>1, GotoType DEF MarkWrite
    <2>3. rec' \in RecordType
      BY <1>18 DEF MarkWrite, TypeOK, RecordType, Statuses
    <2> QED
      BY <1>0, <1>18, <2>2, <2>3 DEF MarkWrite, TypeOK, hookVars
  <1>19. ASSUME NEW t \in Threads, MarkCount(t) PROVE TypeInv'
    <2>1. thread[t].obj \in Objects
      BY <1>19 DEF MarkCount, At, TypeOK, Places, Idle
    <2>2. thread' \in [Threads -> Places \cup {Idle}]
      BY <1>19, EndsType DEF MarkCount
    <2>3. entries' \in 0..2
      BY <1>19 DEF MarkCount, TypeOK
    <2>4. booked' \subseteq Objects
      BY <1>19, <2>1 DEF MarkCount, TypeOK
    <2>5. run' \in BOOLEAN
      BY <1>19, Zenon DEF MarkCount, TypeOK
    <2> QED
      BY <1>0, <1>19, <2>2, <2>3, <2>4, <2>5 DEF MarkCount, TypeOK, hookVars
  <1>20. ASSUME NEW t \in Threads, CleanWrite(t) PROVE TypeInv'
    <2>1. thread[t].obj \in Objects
      BY <1>20 DEF CleanWrite, At, TypeOK, Places, Idle
    <2>2. WithStatus(rec, "paid") \in RecordType
      BY StatusType DEF Statuses
    <2>3. rec' \in RecordType
      BY <1>20, <2>1, <2>2 DEF CleanWrite, RecordType
    <2>4. thread' \in [Threads -> Places \cup {Idle}]
      BY <1>20, EndsType DEF CleanWrite
    <2> QED
      BY <1>0, <1>20, <2>3, <2>4 DEF CleanWrite, TypeOK, hookVars
  <1>21. CASE RunRaises \/ RunRaisedFlush
    <2>1. rec' \in RecordType /\ fault' \in Statuses
      BY <1>21 DEF RunRaises, RunRaisedFlush, TypeOK, RecordType, Statuses
    <2> QED
      BY <1>0, <1>21, <2>1 DEF RunRaises, RunRaisedFlush, TypeOK, hookVars
  <1>22. CASE UNCHANGED vars
    BY <1>0, <1>22 DEF vars, hookVars, caseVars, TypeOK
  <1> QED
    BY <1>1, <1>2, <1>3, <1>4, <1>5, <1>6, <1>7, <1>8, <1>9, <1>10, <1>11, <1>12,
       <1>13, <1>14, <1>15, <1>16, <1>17, <1>18, <1>19, <1>20, <1>21,
       <1>22 DEF Next, Steps

LEMMA TypesHold == Spec => []TypeInv
  <1>1. Init => TypeInv
    <2> SUFFICES ASSUME Init PROVE TypeInv
      OBVIOUS
    <2>1. HookTypeOK /\ \A e \in Events : flight[e] <= sends[e]
      BY WebhookAssumption DEF Init, HookInit, HookTypeOK
    <2>2. rec \in RecordType
      BY DEF Init, RecordType, Statuses
    <2>3. thread \in [Threads -> Places \cup {Idle}]
      BY DEF Init
    <2>4. made \subseteq Orders /\ paid \subseteq Objects /\ hints \subseteq Orders
      BY DEF Init
    <2>5. booked \subseteq Objects /\ entries \in 0..2
      BY DEF Init
    <2>6. origin \in Origins /\ {run, failing, clicked} \subseteq BOOLEAN
      BY DEF Init
    <2>7. fault \in Statuses /\ unknown \subseteq Captures
      BY DEF Init, Statuses
    <2> QED
      BY <2>1, <2>2, <2>3, <2>4, <2>5, <2>6, <2>7 DEF TypeInv, TypeOK
  <1>2. TypeInv /\ [Next]_vars => TypeInv'
    BY NextType
  <1> QED
    BY <1>1, <1>2, PTL DEF Spec

\* The record, the threads, the receiver and the books keep their types,
\* whatever races and whatever is lost.
THEOREM TypeCorrect == Spec => []TypeOK
  <1>1. TypeInv => TypeOK
    BY DEF TypeInv
  <1> QED
    BY <1>1, TypesHold, PTL

-----------------------------------------------------------------------------
\* What is reported was paid: the news under way, on every road.
NewsIsTrue ==
    /\ raised \cap Captures \subseteq paid
    /\ \A o \in Captures : flight[o] > 0 => o \in paid
    /\ hints \subseteq paid

\* One thread at most is before the write of _mark_recovered, and it finds the
\* case open; one at most is after it, and nothing is booked yet; what is
\* booked is read off the record; and a run that has raised reads failed.
BookInv ==
    /\ \A t \in Threads : thread[t].at \in {"mark", "count"} => thread[t].obj \in paid
    /\ \A t, u \in Threads : At(t, "mark") /\ At(u, "mark") => t = u
    /\ \A t, u \in Threads : At(t, "count") /\ At(u, "count") => t = u
    /\ \A t \in Threads : At(t, "mark") => rec.status # "recovered" /\ fault = "none"
    /\ \A t \in Threads : At(t, "count") => /\ "recovered" \in {rec.status, fault}
                                           /\ entries = 0
    /\ fault # "none" => rec.status # "recovered"
    /\ entries = 0 => booked = {}
    /\ BookedReadsRecovered

LEMMA NewsStaysTrue ==
    ASSUME TypeInv, NewsIsTrue, [Next]_vars
    PROVE  NewsIsTrue'
  <1> USE ObjectsAreNamed DEF TypeInv, NewsIsTrue
  <1>1. CASE Receiver
    BY <1>1 DEF Receiver, ReceiverRestarts, Receive, ForwardFails, Expire, caseVars,
                TypeOK, HookTypeOK
  <1>2. CASE GatewayDeclines
    BY <1>2 DEF GatewayDeclines, caseVars
  <1>3. CASE HookFailed
    BY <1>3 DEF HookFailed, Arrive, TypeOK, HookTypeOK
  <1>4. ASSUME NEW o \in Objects, CustomerPays(o) PROVE NewsIsTrue'
    BY <1>4 DEF CustomerPays
  <1>5. ASSUME NEW o \in Captures, NEW t \in Handlers, HookCaptured(t, o)
        PROVE  NewsIsTrue'
    BY <1>5 DEF HookCaptured, Arrive, TypeOK, HookTypeOK
  <1>6. CASE UNCHANGED <<raised, flight, paid>> /\ hints' \subseteq hints
    BY <1>6
  <1>7. ASSUME NEW o \in Orders, CreateOrder(o) \/ BrowserLeaves(o) PROVE NewsIsTrue'
    BY <1>6, <1>7 DEF CreateOrder, BrowserLeaves, hookVars
  <1>8. ASSUME NEW t \in Handlers, NEW o \in Orders, BrowserReports(t, o)
        PROVE  NewsIsTrue'
    BY <1>6, <1>8 DEF BrowserReports, hookVars
  <1>9. CASE \/ PageFails \/ Release \/ CustomerResponds \/ EndRun \/ HandedBack
             \/ RunRaises \/ RunRaisedFlush \/ FrontendRestarts
    BY <1>6, <1>9 DEF PageFails, Release, CustomerResponds, EndRun, HandedBack,
                      RunRaises, RunRaisedFlush, FrontendRestarts, hookVars
  <1>10. ASSUME NEW l \in Links, Mint(l) PROVE NewsIsTrue'
    BY <1>6, <1>10 DEF Mint, hookVars
  <1>11. ASSUME NEW w \in Watchers, Poll(w) \/ WatchEnds(w) PROVE NewsIsTrue'
    BY <1>6, <1>11 DEF Poll, WatchEnds, hookVars
  <1>12. ASSUME NEW t \in Threads, Steps(t) PROVE NewsIsTrue'
    BY <1>6, <1>12 DEF Steps, MarkWrite, MarkCount, CleanWrite, hookVars
  <1>13. CASE UNCHANGED vars
    BY <1>6, <1>13 DEF vars, hookVars, caseVars
  <1> QED
    BY <1>1, <1>2, <1>3, <1>4, <1>5, <1>7, <1>8, <1>9, <1>10, <1>11, <1>12, <1>13
       DEF Next

\* A status other than recovered is written over any but recovered.
LEMMA StatusKept ==
    ASSUME TypeOK, NEW st \in Statuses \ {"recovered"}
    PROVE  WithStatus(rec, st).status = "recovered" <=> rec.status = "recovered"
  BY DEF TypeOK, RecordType, WithStatus

\* Steps that move no thread and settle nothing.
LEMMA QuietStep ==
    ASSUME BookInv, paid \subseteq paid',
           UNCHANGED <<thread, booked, entries, fault>>,
           rec'.status = "recovered" <=> rec.status = "recovered"
    PROVE  BookInv'
  BY DEF BookInv, BookedReadsRecovered, At

\* A thread that goes elsewhere than to the books.
LEMMA AsideStep ==
    ASSUME TypeOK, BookInv, NEW t \in Threads,
           \/ Ends(t)
           \/ \E place \in {"watch", "clean"}, o \in Objects \cup {"none"} :
                  Goto(t, place, o),
           UNCHANGED <<paid, booked, entries, fault>>,
           rec'.status = "recovered" <=> rec.status = "recovered"
    PROVE  BookInv'
  <1>1. thread'[t].at \in {"idle", "watch", "clean"}
    BY DEF TypeOK, Ends, Goto, Idle
  <1>2. \A u \in Threads \ {t} : thread'[u] = thread[u]
    BY DEF TypeOK, Ends, Goto
  <1> QED
    BY <1>1, <1>2 DEF BookInv, BookedReadsRecovered, At

\* A thread that has learnt of money and finds the case open, when no other
\* is between its test and its write.
LEMMA RecordStep ==
    ASSUME ~RacyThreads, TypeOK, BookInv, Undisturbed,
           NEW t \in Threads, NEW o \in Objects, o \in paid, Record(t, o),
           UNCHANGED <<paid, booked, entries, fault, rec>>
    PROVE  BookInv'
  <1>1. CASE rec.status = "recovered"
    BY <1>1, AsideStep DEF Record
  <1>2. CASE rec.status # "recovered"
    <2>1. thread'[t] = [at |-> "mark", obj |-> o]
      BY <1>2 DEF Record, Goto, TypeOK
    <2>2. \A u \in Threads \ {t} : thread'[u] = thread[u] /\ thread[u].at # "mark"
      BY <1>2 DEF Record, Goto, TypeOK, Undisturbed
    <2>3. fault = "none" \/ RacyThreads
      BY DEF Undisturbed
    <2> QED
      BY <1>2, <2>1, <2>2, <2>3 DEF BookInv, BookedReadsRecovered, At
  <1> QED
    BY <1>1, <1>2

LEMMA NextBook ==
    ASSUME ~RacyThreads, ~Detached, TypeInv, NewsIsTrue, BookInv, [Next]_vars
    PROVE  BookInv'
  <1> USE ObjectsAreNamed DEF TypeInv
  <1>1. CASE Receiver
    BY <1>1, QuietStep DEF Receiver, caseVars
  <1>2. CASE GatewayDeclines
    BY <1>2, QuietStep DEF GatewayDeclines, caseVars
  <1>3. CASE PageFails
    <2>1. rec'.status = WithStatus(rec, "recovering").status
      BY <1>3, StatusType DEF PageFails, Statuses, RecordType
    <2> QED
      BY <1>3, <2>1, StatusKept, QuietStep DEF PageFails, Statuses
  <1>4. CASE Release
    BY <1>4, QuietStep DEF Release, TypeOK, RecordType
  <1>5. CASE CustomerResponds
    <2>1. \A t \in Threads : thread[t].at # "mark"
      BY <1>5 DEF CustomerResponds, Undisturbed
    <2>2. rec'.status \in {"recovered", rec.status}
      BY <1>5 DEF CustomerResponds, TypeOK, RecordType
    <2>3. fault = "none" /\ fault' = fault
      BY <1>5, <2>2 DEF CustomerResponds, Undisturbed
    <2> QED
      BY <1>5, <2>1, <2>2, <2>3 DEF CustomerResponds, BookInv, BookedReadsRecovered, At
  <1>6. CASE HookFailed
    <2>1. rec'.status = rec.status \/ rec'.status = WithStatus(rec, "recovering").status
      BY <1>6, StatusType DEF HookFailed, Statuses, RecordType
    <2> QED
      BY <1>6, <2>1, StatusKept, QuietStep DEF HookFailed, Statuses
  <1>7. CASE EndRun
    <2>1. PICK st \in {"working", "failed", "escalated"} : rec' = WithStatus(rec, st)
      BY <1>7 DEF EndRun
    <2>2. rec'.status = "recovered" <=> rec.status = "recovered"
      BY <2>1, StatusKept DEF Statuses
    <2>3. CASE UNCHANGED thread
      BY <1>7, <2>2, <2>3, QuietStep DEF EndRun
    <2>4. ASSUME NEW w \in Watchers, Goto(w, "watch", "none") PROVE BookInv'
      BY <1>7, <2>2, <2>4, AsideStep DEF EndRun, Threads
    <2> QED
      BY <1>7, <2>3, <2>4 DEF EndRun
  <1>8. CASE HandedBack
    BY <1>8, QuietStep DEF HandedBack
  <1>9. CASE FrontendRestarts
    <2>1. rec'.status = IF fault = "none" THEN rec.status ELSE fault
      BY <1>9 DEF FrontendRestarts, TypeOK, RecordType
    <2>2. \A t \in Threads : thread'[t].at = "idle"
      BY <1>9 DEF FrontendRestarts, Idle
    <2> QED
      BY <1>9, <2>1, <2>2 DEF FrontendRestarts, BookInv, BookedReadsRecovered, At
  <1>10. ASSUME NEW o \in Orders, CreateOrder(o) PROVE BookInv'
    <2>1. rec'.status = "recovered" <=> rec.status = "recovered"
      BY <1>10 DEF CreateOrder, TypeOK, RecordType, Exists
    <2> QED
      BY <1>10, <2>1, QuietStep DEF CreateOrder
  <1>11. ASSUME NEW o \in Orders, BrowserLeaves(o) PROVE BookInv'
    BY <1>11, QuietStep DEF BrowserLeaves
  <1>12. ASSUME NEW o \in Objects, CustomerPays(o) PROVE BookInv'
    BY <1>12, QuietStep DEF CustomerPays
  <1>13. ASSUME NEW l \in Links, Mint(l) PROVE BookInv'
    BY <1>13, QuietStep DEF Mint, TypeOK, RecordType
  <1>14. ASSUME NEW t \in Handlers, NEW o \in Orders, BrowserReports(t, o) PROVE BookInv'
    <2>1. o \in paid /\ o \in Objects /\ t \in Threads
      BY <1>14 DEF BrowserReports, NewsIsTrue, Objects, Threads
    <2>2. CASE UNCHANGED thread
      BY <1>14, <2>2, QuietStep DEF BrowserReports
    <2>3. CASE Goto(t, "clean", o)
      BY <1>14, <2>1, <2>3, AsideStep DEF BrowserReports
    <2>4. CASE Record(t, o)
      BY <1>14, <2>1, <2>4, RecordStep DEF BrowserReports
    <2> QED
      BY <1>14, <2>2, <2>3, <2>4 DEF BrowserReports
  <1>15. ASSUME NEW t \in Handlers, NEW o \in Captures, HookCaptured(t, o) PROVE BookInv'
    <2>1. o \in paid /\ o \in Objects /\ t \in Threads
      BY <1>15 DEF HookCaptured, Arrive, NewsIsTrue, Threads
    <2>2. CASE UNCHANGED thread
      BY <1>15, <2>2, QuietStep DEF HookCaptured
    <2>3. CASE Goto(t, "clean", o)
      BY <1>15, <2>1, <2>3, AsideStep DEF HookCaptured
    <2>4. CASE Record(t, o)
      BY <1>15, <2>1, <2>4, RecordStep DEF HookCaptured
    <2> QED
      BY <1>15, <2>2, <2>3, <2>4 DEF HookCaptured
  <1>16. ASSUME NEW w \in Watchers, Poll(w) PROVE BookInv'
    <2>1. CASE Ends(w)
      BY <1>16, <2>1, AsideStep DEF Poll, Threads
    <2>2. ASSUME NEW o \in Watched \cap paid, Record(w, o) PROVE BookInv'
      BY <1>16, <2>2, RecordStep DEF Poll, Threads, TypeOK
    <2> QED
      BY <1>16, <2>1, <2>2 DEF Poll
  <1>17. ASSUME NEW w \in Watchers, WatchEnds(w) PROVE BookInv'
    BY <1>17, AsideStep DEF WatchEnds, Threads
  <1>18. ASSUME NEW t \in Threads, MarkWrite(t) PROVE BookInv'
    <2>1. rec'.status = "recovered"
      BY <1>18 DEF MarkWrite, TypeOK, RecordType
    <2>2. thread'[t] = [at |-> "count", obj |-> thread[t].obj]
          /\ \A u \in Threads \ {t} : thread'[u] = thread[u]
      BY <1>18 DEF MarkWrite, Goto, TypeOK
    <2>3. rec.status # "recovered" /\ fault = "none" /\ thread[t].obj \in paid
      BY <1>18 DEF MarkWrite, BookInv, At
    <2>4. entries = 0 /\ \A u \in Threads : thread[u].at # "count"
      BY <2>3 DEF BookInv, BookedReadsRecovered, At, TypeOK
    <2>5. \A u \in Threads \ {t} : thread[u].at # "mark"
      BY <1>18 DEF MarkWrite, BookInv, At
    <2> QED
      BY <1>18, <2>1, <2>2, <2>3, <2>4, <2>5
         DEF MarkWrite, BookInv, BookedReadsRecovered, At
  <1>19. ASSUME NEW t \in Threads, MarkCount(t) PROVE BookInv'
    <2>1. "recovered" \in {rec.status, fault} /\ entries = 0
      BY <1>19 DEF MarkCount, BookInv
    <2>2. thread'[t].at = "idle" /\ \A u \in Threads \ {t} : thread'[u] = thread[u]
      BY <1>19 DEF MarkCount, Ends, Idle, TypeOK
    <2>3. \A u \in Threads \ {t} : thread[u].at \notin {"mark", "count"}
      BY <1>19 DEF MarkCount, Undisturbed, BookInv, At
    <2>4. entries' = 1
      BY <1>19, <2>1 DEF MarkCount
    <2> QED
      BY <1>19, <2>1, <2>2, <2>3, <2>4 DEF MarkCount, BookInv, BookedReadsRecovered, At
  <1>20. ASSUME NEW t \in Threads, CleanWrite(t) PROVE BookInv'
    <2>1. rec'.status = WithStatus(rec, "paid").status
      BY <1>20, StatusType DEF CleanWrite, Statuses, RecordType
    <2> QED
      BY <1>20, <2>1, StatusKept, AsideStep DEF CleanWrite, Statuses
  <1>21. CASE RunRaises
    <2>1. rec'.status = "failed" /\ fault' = rec.status /\ fault = "none"
      BY <1>21 DEF RunRaises, TypeOK, RecordType
    <2>2. \A t \in Threads : thread[t].at # "mark"
      BY <1>21 DEF RunRaises, Undisturbed
    <2> QED
      BY <1>21, <2>1, <2>2 DEF RunRaises, BookInv, BookedReadsRecovered, At
  <1>22. CASE RunRaisedFlush
    <2>1. /\ rec'.status = IF fault = "recovered" THEN fault ELSE rec.status
          /\ fault # "none" /\ fault' = "none"
      BY <1>22 DEF RunRaisedFlush, TypeOK, RecordType
    <2> QED
      BY <1>22, <2>1 DEF RunRaisedFlush, BookInv, BookedReadsRecovered, At
  <1>23. CASE UNCHANGED vars
    BY <1>23, QuietStep DEF vars, caseVars
  <1> QED
    BY <1>1, <1>2, <1>3, <1>4, <1>5, <1>6, <1>7, <1>8, <1>9, <1>10, <1>11, <1>12,
       <1>13, <1>14, <1>15, <1>16, <1>17, <1>18, <1>19, <1>20, <1>21,
       <1>22, <1>23 DEF Next, Steps

\* Nothing is reported that was not paid, and the books and the record agree,
\* when nobody moves between the test and the write of _mark_recovered.
THEOREM BooksAreRight ==
    ~RacyThreads /\ ~Detached => (Spec => [](NewsIsTrue /\ BookInv))
  <1> SUFFICES ASSUME ~RacyThreads, ~Detached
               PROVE  Spec => [](NewsIsTrue /\ BookInv)
    OBVIOUS
  <1>1. Init => NewsIsTrue /\ BookInv
    <2> SUFFICES ASSUME Init PROVE NewsIsTrue /\ BookInv
      OBVIOUS
    <2>1. NewsIsTrue
      BY ObjectsAreNamed DEF Init, HookInit, NewsIsTrue
    <2>2. BookInv
      BY DEF Init, BookInv, BookedReadsRecovered, At, Idle
    <2> QED
      BY <2>1, <2>2
  <1>2. TypeInv /\ NewsIsTrue /\ BookInv /\ [Next]_vars => NewsIsTrue' /\ BookInv'
    BY NewsStaysTrue, NextBook
  <1> QED
    BY <1>1, <1>2, TypesHold, PTL DEF Spec

\* A payment that is booked is in the ledger of what the gateway has taken, and
\* is the first: every step is a step of the books or does not concern them.
LEMMA StepsKeepBooks ==
    ASSUME TypeInv, BookInv, [Next]_vars
    PROVE  [Account!Next]_(Account!vars)
  <1> USE DEF Account!Next, Account!vars, Account!Take, Account!Book
  <1>1. ASSUME NEW o \in Objects, CustomerPays(o) PROVE Account!Take(o)
    BY <1>1 DEF CustomerPays
  <1>2. ASSUME NEW t \in Threads, MarkCount(t) PROVE Account!Book(thread[t].obj)
    <2>1. entries = 0 /\ booked = {} /\ thread[t].obj \in paid
      BY <1>2 DEF MarkCount, BookInv, At
    <2> QED
      BY <1>2, <2>1 DEF MarkCount
  <1>3. ASSUME NEW t \in Threads, MarkCount(t) PROVE thread[t].obj \in Objects
    BY <1>3 DEF MarkCount, At, TypeInv, TypeOK, Places, Idle
  <1>4. CASE UNCHANGED <<paid, booked, entries>>
    BY <1>4
  <1>5. CASE Receiver \/ GatewayDeclines \/ PageFails \/ Release \/ CustomerResponds
             \/ HookFailed \/ EndRun \/ RunRaises \/ RunRaisedFlush \/ HandedBack
             \/ FrontendRestarts
    BY <1>4, <1>5 DEF Receiver, GatewayDeclines, PageFails, Release, CustomerResponds,
                      HookFailed, EndRun, RunRaises, RunRaisedFlush, HandedBack,
                      FrontendRestarts, caseVars
  <1>6. CASE \/ \E o \in Orders : CreateOrder(o) \/ BrowserLeaves(o)
             \/ \E l \in Links : Mint(l)
             \/ \E t \in Handlers : \/ \E o \in Orders : BrowserReports(t, o)
                                    \/ \E o \in Captures : HookCaptured(t, o)
             \/ \E w \in Watchers : Poll(w) \/ WatchEnds(w)
             \/ \E t \in Threads : MarkWrite(t) \/ CleanWrite(t)
    BY <1>4, <1>6 DEF CreateOrder, BrowserLeaves, Mint, BrowserReports, HookCaptured,
                      Poll, WatchEnds, MarkWrite, CleanWrite
  <1>7. CASE UNCHANGED vars
    BY <1>4, <1>7 DEF vars, caseVars
  <1> QED
    BY <1>1, <1>2, <1>3, <1>5, <1>6, <1>7 DEF Next, Steps

\* Whatever the roads and their order, and whatever is lost, repeated or
\* restarted: the case is credited with one payment at most, once, and with
\* none the gateway has not taken.
THEOREM SettlementKeepsBooks ==
    ~RacyThreads /\ ~Detached => (Spec => ImplementsBooks)
  <1> SUFFICES ASSUME ~RacyThreads, ~Detached PROVE Spec => ImplementsBooks
    OBVIOUS
  <1>1. Init => Account!Init
    BY DEF Init, Account!Init
  <1>2. TypeInv /\ BookInv /\ [Next]_vars => [Account!Next]_(Account!vars)
    BY StepsKeepBooks
  <1>3. Spec => []BookInv
    BY BooksAreRight, PTL
  <1> QED
    BY <1>1, <1>2, <1>3, TypesHold, PTL DEF Spec, ImplementsBooks, Account!Spec

-----------------------------------------------------------------------------
\* The case was in danger, the customer has bought before, or has clicked.
Endangered == failing \/ clicked \/ rec.sale # "none"

\* Whatever leads to the books began with a failure, after a sale or with a
\* click: a status that is neither that of a new checkout nor the customer's
\* own claim, a trail, a run, a held case, a watcher, and a thread that is about
\* to book.
RescueInv ==
    /\ rec.status \in {"none", "pending", "recovered"} \/ Endangered
    /\ rec.touched => Endangered \/ rec.status = "recovered"
    /\ run => Endangered
    /\ rec.held => Endangered
    /\ fault # "none" => Endangered
    /\ \A t \in Threads : At(t, "watch") => Endangered
    /\ \A t \in Threads : At(t, "mark") \/ At(t, "count") => Endangered
    /\ OnlyRescuesAreBooked

LEMMA RecordingRescues ==
    ASSUME TypeOK, RescueInv, NEW t \in Threads, NEW o \in Objects, Record(t, o),
           rec.status # "recovered" => Endangered,
           UNCHANGED <<rec, run, booked, fault, failing, clicked>>
    PROVE  RescueInv'
  <1>1. \A u \in Threads \ {t} : thread'[u] = thread[u]
    BY DEF Record, Ends, Goto, TypeOK
  <1>2. thread'[t].at \in {"idle", "mark"}
    BY DEF Record, Ends, Goto, TypeOK, Idle
  <1>3. thread'[t].at = "mark" => Endangered
    BY DEF Record, Ends, Goto, TypeOK, Idle
  <1> QED
    BY <1>1, <1>2, <1>3 DEF RescueInv, Endangered, OnlyRescuesAreBooked, At

LEMMA NextRescue ==
    ASSUME TypeInv, RescueInv, [Next]_vars
    PROVE  RescueInv'
  <1> USE ObjectsAreNamed DEF TypeInv
  <1>0. CASE UNCHANGED <<rec, run, booked, fault, failing, clicked, thread>>
    BY <1>0 DEF RescueInv, Endangered, OnlyRescuesAreBooked, At
  <1>1. CASE Receiver \/ GatewayDeclines \/ UNCHANGED vars
    BY <1>0, <1>1 DEF Receiver, GatewayDeclines, vars, caseVars
  <1>2. ASSUME NEW o \in Objects, BrowserLeaves(o) \/ CustomerPays(o) PROVE RescueInv'
    BY <1>0, <1>2 DEF BrowserLeaves, CustomerPays
  <1>3. CASE PageFails
    BY <1>3 DEF PageFails, RescueInv, Endangered, OnlyRescuesAreBooked
  <1>4. CASE HookFailed
    BY <1>4 DEF HookFailed, RescueInv, Endangered, OnlyRescuesAreBooked
  <1>5. CASE Release
    BY <1>5 DEF Release, RescueInv, Endangered, OnlyRescuesAreBooked, TypeOK,
                RecordType, At
  <1>6. CASE CustomerResponds
    <2>1. /\ rec'.status \in {"recovered", rec.status}
          /\ rec'.sale = rec.sale /\ rec'.held = rec.held
          /\ rec'.status # "recovered" => clicked' \/ ~NeverEntered
          /\ clicked => clicked'
      BY <1>6 DEF CustomerResponds, TypeOK, RecordType
    <2>2. Endangered => Endangered'
      BY <1>6, <2>1 DEF CustomerResponds, Endangered
    <2>3. rec'.status # "recovered" => Endangered'
      BY <1>6, <2>1, <2>2 DEF CustomerResponds, Exists, NeverEntered, RescueInv, Endangered
    <2> QED
      BY <1>6, <2>1, <2>2, <2>3 DEF CustomerResponds, RescueInv, OnlyRescuesAreBooked,
                                    Endangered, At
  <1>7. CASE EndRun
    <2>1. PICK st \in {"working", "failed", "escalated"} : rec' = WithStatus(rec, st)
      BY <1>7 DEF EndRun
    <2>2. /\ rec'.status = (IF rec.status = "recovered" THEN "recovered" ELSE st)
          /\ rec'.sale = rec.sale /\ rec'.held = rec.held
      BY <2>1 DEF WithStatus, TypeOK, RecordType
    <2>3. Endangered \/ rec.status = "recovered"
      BY <1>7 DEF EndRun, RescueInv
    <2>4. \A t \in Threads : thread'[t] = thread[t] \/ thread'[t].at = "watch"
      BY <1>7 DEF EndRun, Goto, TypeOK
    <2> QED
      BY <1>7, <2>2, <2>3, <2>4 DEF EndRun, RescueInv, Endangered, OnlyRescuesAreBooked, At
  <1>8. CASE HandedBack
    BY <1>8 DEF HandedBack, RescueInv, Endangered, OnlyRescuesAreBooked, At
  <1>9. CASE FrontendRestarts
    BY <1>9 DEF FrontendRestarts, RescueInv, Endangered, OnlyRescuesAreBooked, At, Idle
  <1>10. ASSUME NEW o \in Orders, CreateOrder(o) PROVE RescueInv'
    <2>1. /\ rec'.status = (IF Exists THEN rec.status ELSE "pending")
          /\ rec'.sale = rec.sale /\ rec'.held = rec.held
      BY <1>10 DEF CreateOrder, TypeOK, RecordType
    <2> QED
      BY <1>10, <2>1 DEF CreateOrder, RescueInv, Endangered, OnlyRescuesAreBooked, At, Exists
  <1>11. ASSUME NEW l \in Links, Mint(l) PROVE RescueInv'
    <2>1. UNCHANGED <<rec.status, rec.sale, rec.held>>
      BY <1>11 DEF Mint, TypeOK, RecordType
    <2> QED
      BY <1>11, <2>1 DEF Mint, RescueInv, Endangered, OnlyRescuesAreBooked, At
  <1>12. ASSUME NEW t \in Threads, NEW o \in Objects, Goto(t, "clean", o) \/ Ends(t),
                UNCHANGED <<rec, run, booked, fault, failing, clicked>>
         PROVE  RescueInv'
    <2>1. \A u \in Threads : thread'[u] = thread[u] \/ thread'[u].at \in {"clean", "idle"}
      BY <1>12 DEF Goto, Ends, Idle, TypeOK
    <2> QED
      BY <1>12, <2>1 DEF RescueInv, Endangered, OnlyRescuesAreBooked, At
  <1>13. ASSUME Exists, ~NeverEntered, rec.status # "recovered" PROVE Endangered
    BY <1>13 DEF RescueInv, Exists, NeverEntered
  <1>14. ASSUME NEW t \in Handlers, NEW o \in Orders, BrowserReports(t, o) PROVE RescueInv'
    <2>1. CASE UNCHANGED thread
      BY <1>0, <1>14, <2>1 DEF BrowserReports
    <2>2. CASE Goto(t, "clean", o)
      BY <1>12, <1>14, <2>2 DEF BrowserReports, Threads, Objects
    <2>3. CASE Exists /\ ~NeverEntered /\ Record(t, o)
      BY <1>13, <1>14, <2>3, RecordingRescues DEF BrowserReports, Threads, Objects
    <2> QED
      BY <1>14, <2>1, <2>2, <2>3 DEF BrowserReports
  <1>15. ASSUME NEW t \in Handlers, NEW o \in Captures, HookCaptured(t, o) PROVE RescueInv'
    <2>1. CASE UNCHANGED thread
      BY <1>0, <1>15, <2>1 DEF HookCaptured
    <2>2. CASE Goto(t, "clean", o)
      BY <1>12, <1>15, <2>2 DEF HookCaptured, Threads
    <2>3. CASE Exists /\ ~NeverEntered /\ Record(t, o)
      BY <1>13, <1>15, <2>3, RecordingRescues DEF HookCaptured, Threads
    <2> QED
      BY <1>15, <2>1, <2>2, <2>3 DEF HookCaptured
  <1>16. ASSUME NEW w \in Watchers, Poll(w) PROVE RescueInv'
    <2>1. rec.status = "recovered" \/ Endangered
      BY <1>16 DEF Poll, RescueInv, Threads
    <2>2. CASE Ends(w)
      <3>1. \A u \in Threads : thread'[u] = thread[u] \/ thread'[u].at = "idle"
        BY <2>2 DEF Ends, Idle, TypeOK
      <3> QED
        BY <1>16, <3>1 DEF Poll, RescueInv, Endangered, OnlyRescuesAreBooked, At
    <2>3. ASSUME NEW o \in Watched \cap paid, Record(w, o) PROVE RescueInv'
      BY <1>16, <2>1, <2>3, RecordingRescues DEF Poll, Threads, TypeOK
    <2> QED
      BY <1>16, <2>2, <2>3 DEF Poll
  <1>17. ASSUME NEW w \in Watchers, WatchEnds(w) PROVE RescueInv'
    <2>1. Endangered
      BY <1>17 DEF WatchEnds, RescueInv, Threads
    <2>2. \A u \in Threads : thread'[u] = thread[u] \/ thread'[u].at = "idle"
      BY <1>17 DEF WatchEnds, Ends, Idle, TypeOK
    <2> QED
      BY <1>17, <2>1, <2>2 DEF WatchEnds, RescueInv, Endangered, OnlyRescuesAreBooked, At
  <1>18. ASSUME NEW t \in Threads, MarkWrite(t) PROVE RescueInv'
    <2>1. Endangered
      BY <1>18 DEF MarkWrite, RescueInv
    <2>2. rec'.sale = rec.sale /\ rec'.held = rec.held
      BY <1>18 DEF MarkWrite, TypeOK, RecordType
    <2>3. Endangered'
      BY <1>18, <2>1, <2>2 DEF MarkWrite, Endangered
    <2> QED
      BY <2>3 DEF RescueInv, OnlyRescuesAreBooked, Endangered
  <1>19. ASSUME NEW t \in Threads, MarkCount(t) PROVE RescueInv'
    <2>1. Endangered /\ Endangered'
      BY <1>19 DEF MarkCount, RescueInv, Endangered
    <2> QED
      BY <2>1 DEF RescueInv, OnlyRescuesAreBooked, Endangered
  <1>20. ASSUME NEW t \in Threads, CleanWrite(t) PROVE RescueInv'
    <2>1. thread[t].obj \in Objects
      BY <1>20 DEF CleanWrite, At, TypeOK, Places, Idle
    <2>2. rec'.sale # "none"
      BY <1>20, <2>1, StatusType DEF CleanWrite, Statuses, RecordType
    <2> QED
      BY <2>2 DEF RescueInv, OnlyRescuesAreBooked, Endangered
  <1>21. CASE RunRaises \/ RunRaisedFlush
    <2>1. rec'.sale = rec.sale /\ Endangered
      BY <1>21 DEF RunRaises, RunRaisedFlush, RescueInv, TypeOK, RecordType
    <2> QED
      BY <1>21, <2>1 DEF RunRaises, RunRaisedFlush, RescueInv, OnlyRescuesAreBooked,
                         Endangered
  <1> QED
    BY <1>1, <1>2, <1>3, <1>4, <1>5, <1>6, <1>7, <1>8, <1>9, <1>10, <1>11,
       <1>14, <1>15, <1>16, <1>17, <1>18, <1>19, <1>20, <1>21
       DEF Next, Steps, Objects

\* "No revenue credited to a rescue that never happened": of a checkout that
\* has known no failure, no sale and no early click nothing is ever booked,
\* whatever races; and a case whose money is booked reads recovered, when nobody
\* moves between the test and the write of _mark_recovered.
THEOREM RescuesAreBooked ==
    /\ Spec => []OnlyRescuesAreBooked
    /\ ~RacyThreads /\ ~Detached => (Spec => []BookedIsRescued)
  <1>1. Init => RescueInv
    BY DEF Init, RescueInv, OnlyRescuesAreBooked, At, Idle
  <1>2. TypeInv /\ RescueInv /\ [Next]_vars => RescueInv'
    BY NextRescue
  <1>3. RescueInv => OnlyRescuesAreBooked
    BY DEF RescueInv
  <1>4. Spec => []OnlyRescuesAreBooked
    BY <1>1, <1>2, <1>3, TypesHold, PTL DEF Spec
  <1>5. ASSUME ~RacyThreads, ~Detached PROVE Spec => []BookedIsRescued
    <2>1. BookInv /\ OnlyRescuesAreBooked => BookedIsRescued
      BY DEF BookInv, BookedIsRescued
    <2>2. Spec => []BookInv
      BY <1>5, BooksAreRight, PTL
    <2> QED
      BY <1>4, <2>1, <2>2, PTL
  <1> QED
    BY <1>4, <1>5
=============================================================================
