-------------------------- MODULE StateStoreProofs --------------------------
(***************************************************************************)
(* What StateStore guarantees for any processes, keys, files and values.   *)
(* Type correctness and "recovered is absorbing" rest on one inductive     *)
(* invariant, StoreInv; so does the refinement of EditLedger.              *)
(***************************************************************************)
EXTENDS StateStore, TLAPS

\* A store nobody disturbs: no thread writes into a running flush, no flush
\* gives up on the lock.
Undisturbed == ~RacyThreads /\ ~LockTimeouts

-----------------------------------------------------------------------------
(* Lemmas about the merge rule                                             *)

\* Absorbing twice is absorbing once.
LEMMA AbsorbIdempotent ==
    ASSUME NEW k, NEW a, NEW b
    PROVE  Absorb(k, Absorb(k, a, b), b) = Absorb(k, a, b)
<1>1. CASE /\ k \in Cases /\ a \in CaseRec /\ ~Recovered(a) /\ Recovered(b)
  <2> DEFINE r == [a EXCEPT !.status = "recovered",
                            !.captured = b.captured \/ a.captured]
  <2>1. Absorb(k, a, b) = r
    BY <1>1 DEF Absorb
  <2>2. Recovered(r)
    BY <1>1 DEF Recovered, CaseRec, Statuses
  <2>3. Absorb(k, r, b) = r
    BY <2>2 DEF Absorb
  <2> QED BY <2>1, <2>3
<1>2. CASE ~(k \in Cases /\ a \in CaseRec /\ ~Recovered(a) /\ Recovered(b))
  BY <1>2 DEF Absorb
<1> QED BY <1>1, <1>2

\* Meeting oneself changes nothing.
LEMMA AbsorbSame ==
    ASSUME NEW k, NEW a
    PROVE  Absorb(k, a, a) = a
BY DEF Absorb

\* The merge of two entries of a key is an entry of that key.
LEMMA AbsorbType ==
    ASSUME NEW k \in Keys,
           NEW a \in EntriesOf(k) \cup {Absent},
           NEW b \in EntriesOf(k) \cup {Absent}
    PROVE  Absorb(k, a, b) \in EntriesOf(k) \cup {Absent}
BY DEF Absorb, EntriesOf, CaseRec, Statuses, Recovered

\* A version that has absorbed a recovered payment is recovered, or is the
\* deletion of the record.
LEMMA AbsorbRecovered ==
    ASSUME NEW k \in Cases,
           NEW a \in EntriesOf(k) \cup {Absent},
           NEW b, Recovered(b), Absorb(k, a, b) = a
    PROVE  a = Absent \/ Recovered(a)
BY DEF Absorb, EntriesOf, CaseRec, Statuses, Recovered

\* Entries of one key make a table, and so does a table spliced with another.
LEMMA TableUpdate ==
    ASSUME NEW t \in Table, NEW k \in Keys, NEW e \in EntriesOf(k) \cup {Absent}
    PROVE  [t EXCEPT ![k] = e] \in Table
BY DEF Table, Entries, EntriesOf

\* A table spliced with another one is a table.
LEMMA SpliceType ==
    ASSUME NEW s, NEW t \in Table, NEW u \in Table
    PROVE  Splice(s, t, u) \in Table
BY DEF Table, Splice

-----------------------------------------------------------------------------
(* Type correctness                                                        *)

\* What a flush merges of a key is an entry of that key, and the merge of
\* all keys is a table.
LEMMA MergedType ==
    ASSUME TypeOK, NEW p \in Procs
    PROVE  [k \in Keys |-> Merged(p, k)] \in Table
<1>1. ASSUME NEW k \in Keys
      PROVE  Merged(p, k) \in EntriesOf(k) \cup {Absent}
  <2>1. mem[p][k] \in EntriesOf(k) \cup {Absent}
    BY DEF TypeOK, Table
  <2>2. disk[k] \in EntriesOf(k) \cup {Absent}
    BY DEF TypeOK, Table
  <2> QED BY <2>1, <2>2, AbsorbType DEF Merged
<1>2. \A k \in Keys : EntriesOf(k) \cup {Absent} \subseteq Entries
  BY DEF EntriesOf, Entries
<1> QED BY <1>1, <1>2 DEF Table

\* A local change of one entry keeps every type.
LEMMA ChangeType ==
    ASSUME TypeOK, NEW p \in Procs, NEW k \in Keys,
           NEW e \in EntriesOf(k) \cup {Absent}, Change(p, k, e)
    PROVE  TypeOK'
<1>1. mem' \in [Procs -> Table]
  <2>1. mem[p] \in Table
    BY DEF TypeOK
  <2>2. [mem[p] EXCEPT ![k] = e] \in Table
    BY <2>1, TableUpdate
  <2> QED BY <2>2 DEF TypeOK, Change
<1>2. edited' \in [Procs -> SUBSET Keys]
  BY DEF TypeOK, Change
<1> QED BY <1>1, <1>2 DEF TypeOK, Change, flushing

\* A record that a process finds under a case is the record of a case.
LEMMA RecordType ==
    ASSUME TypeOK, NEW p \in Procs, NEW c \in Cases, mem[p][c] # Absent
    PROVE  /\ c \in Keys
           /\ mem[p][c] \in CaseRec
           /\ EntriesOf(c) = CaseRec
BY DEF TypeOK, Table, EntriesOf, Cases

\* The operations that change the copy in memory.
LEMMA EditChanges ==
    ASSUME TypeOK, NEW p \in Procs,
           \/ \E k \in Keys : Save(p, k) \/ Remove(p, k)
           \/ \E c \in Cases :
                 Update(p, c) \/ MutateInPlace(p, c) \/ MarkRecovered(p, c)
    PROVE  \E k \in Keys : \E e \in EntriesOf(k) \cup {Absent} :
               Change(p, k, e) /\ MayMutate(p)
<1>1. ASSUME NEW k \in Keys, Save(p, k)
      PROVE  \E e \in EntriesOf(k) \cup {Absent} : Change(p, k, e) /\ MayMutate(p)
  BY <1>1 DEF Save, NewEntries, EntriesOf, MayMutate
<1>2. ASSUME NEW k \in Keys, Remove(p, k)
      PROVE  \E e \in EntriesOf(k) \cup {Absent} : Change(p, k, e) /\ MayMutate(p)
  BY <1>2 DEF Remove, MayMutate
<1>3. ASSUME NEW c \in Cases, Update(p, c)
      PROVE  \E e \in EntriesOf(c) \cup {Absent} : Change(p, c, e) /\ MayMutate(p)
  <2>1. PICK st \in {"recovering", "failed"}, n \in Notes :
            Change(p, c, Updated(mem[p][c], st, n))
    BY <1>3 DEF Update
  <2>2. mem[p][c] \in CaseRec /\ EntriesOf(c) = CaseRec
    BY <1>3, RecordType DEF Update
  <2>3. Updated(mem[p][c], st, n) \in CaseRec
    BY <2>2 DEF Updated, CaseRec, Statuses
  <2> QED BY <1>3, <2>1, <2>2, <2>3 DEF Update, MayMutate
<1>4. ASSUME NEW c \in Cases, MutateInPlace(p, c)
      PROVE  \E e \in EntriesOf(c) \cup {Absent} : Change(p, c, e) /\ MayMutate(p)
  <2>1. PICK n \in Notes :
            Change(p, c, [mem[p][c] EXCEPT !.status = "failed", !.note = n])
    BY <1>4 DEF MutateInPlace
  <2>2. mem[p][c] \in CaseRec /\ EntriesOf(c) = CaseRec
    BY <1>4, RecordType DEF MutateInPlace
  <2>3. [mem[p][c] EXCEPT !.status = "failed", !.note = n] \in CaseRec
    BY <2>2 DEF CaseRec, Statuses
  <2> QED BY <1>4, <2>1, <2>2, <2>3 DEF MutateInPlace
<1>5. ASSUME NEW c \in Cases, MarkRecovered(p, c)
      PROVE  \E e \in EntriesOf(c) \cup {Absent} : Change(p, c, e) /\ MayMutate(p)
  <2>1. Change(p, c, [mem[p][c] EXCEPT !.status = "recovered", !.captured = TRUE])
    BY <1>5 DEF MarkRecovered
  <2>2. mem[p][c] \in CaseRec /\ EntriesOf(c) = CaseRec
    BY <1>5, RecordType DEF MarkRecovered
  <2>3. [mem[p][c] EXCEPT !.status = "recovered", !.captured = TRUE] \in CaseRec
    BY <2>2 DEF CaseRec, Statuses
  <2> QED BY <1>5, <2>1, <2>2, <2>3 DEF MarkRecovered
<1>6. Cases \subseteq Keys
  BY DEF Cases
<1> QED BY <1>1, <1>2, <1>3, <1>4, <1>5, <1>6

\* The initial states have the types.
LEMMA InitType == Init => TypeOK
<1> SUFFICES ASSUME Init PROVE TypeOK
  OBVIOUS
<1>1. disk \in Table
  BY DEF Init, Table, Entries
<1>2. 1 \in Sections
  BY SectionAssumption DEF Sections
<1> QED BY <1>1, <1>2 DEF Init, TypeOK

\* Every step keeps the types.
LEMMA NextType == TypeOK /\ [Next]_vars => TypeOK'
<1> SUFFICES ASSUME TypeOK, [Next]_vars PROVE TypeOK'
  OBVIOUS
<1>1. CASE UNCHANGED vars
  BY <1>1 DEF TypeOK, vars
<1>2. CASE Next
  <2> PICK p \in Procs :
        \/ \E k \in Keys : Save(p, k) \/ Remove(p, k)
        \/ \E c \in Cases :
              Update(p, c) \/ MutateInPlace(p, c) \/ MarkRecovered(p, c)
        \/ FlushBegin(p) \/ FlushMerge(p) \/ FlushWrite(p) \/ FlushShadow(p)
        \/ FlushFails(p) \/ FlushUnmerged(p) \/ Refresh(p) \/ Restart(p)
    BY <1>2 DEF Next
  <2> DEFINE merged == [k \in Keys |-> Merged(p, k)]
  <2>0. /\ disk \in Table /\ mem[p] \in Table /\ shadow[p] \in Table
        /\ seen[p] \in Table /\ merged \in Table /\ sec[p] \in Sections
    BY MergedType DEF TypeOK
  <2>1. CASE \/ \E k \in Keys : Save(p, k) \/ Remove(p, k)
             \/ \E c \in Cases : Update(p, c) \/ MutateInPlace(p, c)
                                  \/ MarkRecovered(p, c)
    BY <2>1, EditChanges, ChangeType
  <2>2. CASE FlushBegin(p)
    <3>1. 1 \in Sections
      BY SectionAssumption DEF Sections
    <3> QED BY <2>2, <3>1 DEF FlushBegin, TypeOK
  <2>3. CASE FlushMerge(p)
    <3>1. Splice(sec[p], merged, mem[p]) \in Table
      BY <2>0, SpliceType
    <3>2. mem' \in [Procs -> Table]
      BY <2>3, <3>1 DEF FlushMerge, TypeOK
    <3> QED BY <2>3, <3>2 DEF FlushMerge, TypeOK
  <2>4. CASE FlushWrite(p)
    <3>1. /\ Splice(sec[p], mem[p], disk) \in Table
          /\ Splice(sec[p], mem[p], seen[p]) \in Table
      BY <2>0, SpliceType
    <3>2. disk' \in Table /\ seen' \in [Procs -> Table]
      BY <2>4, <3>1 DEF FlushWrite, TypeOK
    <3> QED BY <2>4, <3>2 DEF FlushWrite, TypeOK
  <2>5. CASE FlushShadow(p)
    <3>1. Splice(sec[p], mem[p], shadow[p]) \in Table
      BY <2>0, SpliceType
    <3>2. shadow' \in [Procs -> Table]
      BY <2>5, <3>1 DEF FlushShadow, TypeOK
    <3>3. sec[p] < NumSections => sec[p] + 1 \in Sections
      BY <2>0, SectionAssumption DEF Sections
    <3> QED BY <2>5, <3>2, <3>3 DEF FlushShadow, TypeOK
  <2>6. CASE FlushFails(p)
    BY <2>6 DEF FlushFails, TypeOK
  <2>7. CASE FlushUnmerged(p)
    BY <2>7, <2>0 DEF FlushUnmerged, TypeOK, flushing
  <2>8. CASE Refresh(p)
    BY <2>8, <2>0 DEF Refresh, TypeOK, flushing
  <2>9. CASE Restart(p)
    BY <2>9, <2>0 DEF Restart, TypeOK
  <2> QED BY <2>1, <2>2, <2>3, <2>4, <2>5, <2>6, <2>7, <2>8, <2>9
<1> QED BY <1>1, <1>2 DEF Next

\* Every reachable state of the store is well typed, whatever threads, lock
\* timeouts, write errors and restarts do.
THEOREM TypeCorrect == Spec => []TypeOK
BY InitType, NextType, PTL DEF Spec

-----------------------------------------------------------------------------
(* The inductive invariant                                                 *)

\* The store starts with nothing edited and the lock free.
LEMMA InitInv == Init => StoreInv
<1> SUFFICES ASSUME Init PROVE StoreInv
  OBVIOUS
<1>1. \A p \in Procs : pc[p] = "idle"
  BY DEF Init
<1>2. \A p \in Procs, k \in Keys : mem[p][k] = shadow[p][k]
  BY DEF Init
<1> QED BY <1>1, <1>2 DEF StoreInv, LockInv, FlushHoldsLock, PendingIsEdited,
                          MergeHasAbsorbed, WrittenIsOnDisk, View, InMerge

\* What a local change leaves alone.
LEMMA ChangeEffect ==
    ASSUME TypeOK, NEW p \in Procs, NEW k \in Keys, NEW e, Change(p, k, e)
    PROVE  /\ UNCHANGED <<disk, shadow, lock, pc, sec>>
           /\ \A q \in Procs, j \in Keys :
                /\ mem'[q][j] = IF q = p /\ j = k THEN e ELSE mem[q][j]
                /\ j \in edited'[q] <=> (j \in edited[q] \/ (q = p /\ j = k))
                /\ View(q, j)' = View(q, j)
BY DEF Change, flushing, TypeOK, Table, View, InMerge

\* The merge of a key, seen from inside the flush that made it.
LEMMA MergeEffect ==
    ASSUME TypeOK, NEW p \in Procs, FlushMerge(p)
    PROVE  /\ UNCHANGED <<disk, shadow, lock, sec, edited>>
           /\ \A q \in Procs : q # p => pc'[q] = pc[q]
           /\ pc'[p] = "write"
           /\ \A q \in Procs, j \in Keys :
                mem'[q][j] = IF q = p /\ SectionOf[j] = sec[p]
                             THEN Merged(p, j) ELSE mem[q][j]
BY DEF FlushMerge, TypeOK, Table, Splice

\* What the write of a flush changes: the files it writes, and its own place.
LEMMA WriteEffect ==
    ASSUME TypeOK, NEW p \in Procs, FlushWrite(p)
    PROVE  /\ UNCHANGED <<mem, shadow, lock, sec>>
           /\ \A q \in Procs : q # p => pc'[q] = pc[q] /\ edited'[q] = edited[q]
           /\ pc'[p] = "shadow"
           /\ \A j \in Keys :
                /\ disk'[j] = IF SectionOf[j] = sec[p] THEN mem[p][j] ELSE disk[j]
                /\ j \in edited'[p] <=> (j \in edited[p] /\ SectionOf[j] # sec[p])
BY DEF FlushWrite, TypeOK, Table, Splice

\* What the end of a section of a flush changes: the shadow of that section,
\* and the lock if it was the last one.
LEMMA ShadowEffect ==
    ASSUME TypeOK, NEW p \in Procs, FlushShadow(p)
    PROVE  /\ UNCHANGED <<disk, mem, edited>>
           /\ \A q \in Procs : q # p => pc'[q] = pc[q] /\ sec'[q] = sec[q]
           /\ \/ pc'[p] = "merge" /\ lock' = lock
              \/ pc'[p] = "idle" /\ lock' = Free
           /\ \A q \in Procs, j \in Keys :
                shadow'[q][j] = IF q = p /\ SectionOf[j] = sec[p]
                                THEN mem[p][j] ELSE shadow[q][j]
BY DEF FlushShadow, TypeOK, Table, Splice

\* What a refresh changes: the copy and the shadow of the reader alone.
LEMMA RefreshEffect ==
    ASSUME TypeOK, NEW p \in Procs, Refresh(p)
    PROVE  /\ UNCHANGED <<disk, lock, pc, sec, edited>>
           /\ \A q \in Procs, j \in Keys :
                /\ mem'[q][j] = IF q = p THEN Merged(p, j) ELSE mem[q][j]
                /\ shadow'[q][j] = IF q = p THEN disk[j] ELSE shadow[q][j]
BY DEF Refresh, TypeOK, Table, flushing

\* What a restart changes: the process reads the files again, what it had not
\* written is lost, and it holds the lock no more.
LEMMA RestartEffect ==
    ASSUME TypeOK, NEW p \in Procs, Restart(p)
    PROVE  /\ UNCHANGED <<disk, sec>>
           /\ lock' = IF lock = p THEN Free ELSE lock
           /\ \A q \in Procs :
                /\ pc'[q] = IF q = p THEN "idle" ELSE pc[q]
                /\ edited'[q] = IF q = p THEN {} ELSE edited[q]
           /\ \A q \in Procs, j \in Keys :
                /\ mem'[q][j] = IF q = p THEN disk[j] ELSE mem[q][j]
                /\ shadow'[q][j] = IF q = p THEN disk[j] ELSE shadow[q][j]
BY DEF Restart, TypeOK, Table

\* What a failed write changes: the flush is over and the files stay.
LEMMA FailEffect ==
    ASSUME TypeOK, NEW p \in Procs, FlushFails(p)
    PROVE  /\ UNCHANGED <<disk, mem, shadow, sec, edited>>
           /\ lock' = Free
           /\ \A q \in Procs : pc'[q] = IF q = p THEN "idle" ELSE pc[q]
BY DEF FlushFails, TypeOK

\* LockInv survives every step of a store that is not disturbed, even one
\* whose writes fail.
LEMMA NextLockInv ==
    ASSUME Undisturbed, TypeOK, LockInv, [Next]_vars
    PROVE  LockInv'
<1> USE DEF LockInv, FlushHoldsLock, MergeHasAbsorbed, WrittenIsOnDisk, InMerge
<1>1. CASE UNCHANGED vars
  BY <1>1 DEF vars
<1>2. CASE Next
  <2> PICK p \in Procs :
        \/ \E k \in Keys : Save(p, k) \/ Remove(p, k)
        \/ \E c \in Cases :
              Update(p, c) \/ MutateInPlace(p, c) \/ MarkRecovered(p, c)
        \/ FlushBegin(p) \/ FlushMerge(p) \/ FlushWrite(p) \/ FlushShadow(p)
        \/ FlushFails(p) \/ FlushUnmerged(p) \/ Refresh(p) \/ Restart(p)
    BY <1>2 DEF Next
  <2>1. CASE \/ \E k \in Keys : Save(p, k) \/ Remove(p, k)
             \/ \E c \in Cases : Update(p, c) \/ MutateInPlace(p, c)
                                  \/ MarkRecovered(p, c)
    <3>1. PICK k \in Keys : \E e \in EntriesOf(k) \cup {Absent} :
                               Change(p, k, e) /\ MayMutate(p)
      BY <2>1, EditChanges
    <3>2. PICK e \in EntriesOf(k) \cup {Absent} : Change(p, k, e) /\ MayMutate(p)
      BY <3>1
    <3>3. pc[p] = "idle"
      BY <3>2 DEF MayMutate, Undisturbed
    <3> QED BY <3>2, <3>3, ChangeEffect
  <2>2. CASE FlushBegin(p)
    BY <2>2, ProcsAssumption DEF FlushBegin, TypeOK
  <2>3. CASE FlushMerge(p)
    <3>1. \A j \in Keys : Absorb(j, Merged(p, j), disk[j]) = Merged(p, j)
      BY AbsorbIdempotent, AbsorbSame DEF Merged
    <3>2. pc[p] = "merge"
      BY <2>3 DEF FlushMerge
    <3> QED BY <2>3, <3>1, <3>2, MergeEffect
  <2>4. CASE FlushWrite(p)
    <3>1. pc[p] = "write" /\ lock = p
      BY <2>4 DEF FlushWrite
    <3>2. \A q \in Procs : q # p => pc[q] = "idle"
      BY <3>1
    <3> QED BY <2>4, <3>1, <3>2, WriteEffect
  <2>5. CASE FlushShadow(p)
    <3>1. pc[p] = "shadow" /\ lock = p
      BY <2>5 DEF FlushShadow
    <3>2. \A q \in Procs : q # p => pc[q] = "idle"
      BY <3>1
    <3> QED BY <2>5, <3>1, <3>2, ShadowEffect
  <2>6. CASE FlushFails(p)
    <3>1. pc[p] = "write" /\ lock = p
      BY <2>6 DEF FlushFails
    <3> QED BY <2>6, <3>1, FailEffect
  <2>7. CASE FlushUnmerged(p)
    BY <2>7 DEF FlushUnmerged, Undisturbed
  <2>8. CASE Refresh(p)
    <3>1. lock = Free
      BY <2>8 DEF Refresh
    <3>2. \A q \in Procs : pc[q] = "idle"
      BY <3>1, ProcsAssumption
    <3> QED BY <2>8, <3>2, RefreshEffect
  <2>9. CASE Restart(p)
    BY <2>9, RestartEffect
  <2> QED BY <2>1, <2>2, <2>3, <2>4, <2>5, <2>6, <2>7, <2>8, <2>9
<1> QED BY <1>1, <1>2

\* Only edits are pending, when no write fails half way through a flush.
LEMMA NextPending ==
    ASSUME Undisturbed, ~WriteErrors, TypeOK, StoreInv, [Next]_vars
    PROVE  PendingIsEdited'
<1> USE DEF StoreInv, PendingIsEdited
<1>0. LockInv
  OBVIOUS
<1>1. CASE UNCHANGED vars
  BY <1>1 DEF vars, View, InMerge
<1>2. CASE Next
  <2> PICK p \in Procs :
        \/ \E k \in Keys : Save(p, k) \/ Remove(p, k)
        \/ \E c \in Cases :
              Update(p, c) \/ MutateInPlace(p, c) \/ MarkRecovered(p, c)
        \/ FlushBegin(p) \/ FlushMerge(p) \/ FlushWrite(p) \/ FlushShadow(p)
        \/ FlushFails(p) \/ FlushUnmerged(p) \/ Refresh(p) \/ Restart(p)
    BY <1>2 DEF Next
  <2>1. CASE \/ \E k \in Keys : Save(p, k) \/ Remove(p, k)
             \/ \E c \in Cases : Update(p, c) \/ MutateInPlace(p, c)
                                  \/ MarkRecovered(p, c)
    <3>1. PICK k \in Keys : \E e \in EntriesOf(k) \cup {Absent} :
                               Change(p, k, e) /\ MayMutate(p)
      BY <2>1, EditChanges
    <3>2. PICK e \in EntriesOf(k) \cup {Absent} : Change(p, k, e) /\ MayMutate(p)
      BY <3>1
    <3> QED BY <3>2, ChangeEffect
  <2>2. CASE FlushBegin(p)
    BY <2>2 DEF FlushBegin, TypeOK, View, InMerge
  <2>3. CASE FlushMerge(p)
    <3>1. pc[p] = "merge"
      BY <2>3 DEF FlushMerge
    <3>2. ASSUME NEW j \in Keys, Merged(p, j) # disk[j]
          PROVE  j \in edited[p]
      BY <3>1, <3>2 DEF Merged, Dirty, View, InMerge
    <3> QED BY <2>3, <3>1, <3>2, MergeEffect DEF View, InMerge
  <2>4. CASE FlushWrite(p)
    <3>1. pc[p] = "write" /\ lock = p
      BY <2>4, <1>0 DEF FlushWrite, LockInv, FlushHoldsLock
    <3>2. \A q \in Procs : q # p => pc[q] = "idle"
      BY <3>1, <1>0 DEF LockInv, FlushHoldsLock
    <3> QED BY <2>4, <3>1, <3>2, WriteEffect DEF View, InMerge
  <2>5. CASE FlushShadow(p)
    <3>1. pc[p] = "shadow"
      BY <2>5 DEF FlushShadow
    <3>2. \A j \in Keys : SectionOf[j] = sec[p] => mem[p][j] = disk[j]
      BY <3>1, <1>0 DEF LockInv, WrittenIsOnDisk, InMerge
    <3> QED BY <2>5, <3>1, <3>2, ShadowEffect DEF View, InMerge
  <2>6. CASE FlushFails(p)
    BY <2>6 DEF FlushFails
  <2>7. CASE FlushUnmerged(p)
    BY <2>7 DEF FlushUnmerged, Undisturbed
  <2>8. CASE Refresh(p)
    <3>1. \A q \in Procs : pc[q] = "idle"
      BY <2>8, <1>0, ProcsAssumption DEF Refresh, LockInv, FlushHoldsLock
    <3>2. ASSUME NEW j \in Keys, Merged(p, j) # disk[j]
          PROVE  j \in edited[p]
      BY <3>1, <3>2 DEF Merged, Dirty, View, InMerge
    <3> QED BY <2>8, <3>1, <3>2, RefreshEffect DEF View, InMerge
  <2>9. CASE Restart(p)
    BY <2>9, RestartEffect DEF View, InMerge
  <2> QED BY <2>1, <2>2, <2>3, <2>4, <2>5, <2>6, <2>7, <2>8, <2>9
<1> QED BY <1>1, <1>2

\* No flush writes over a version it has not absorbed.
THEOREM FlushAbsorbs == Undisturbed => (Spec => [](TypeOK /\ LockInv))
<1>1. ASSUME Undisturbed, TypeOK /\ LockInv, [Next]_vars
      PROVE  (TypeOK /\ LockInv)'
  BY <1>1, NextType, NextLockInv
<1>2. Init => TypeOK /\ LockInv
  BY InitType, InitInv DEF StoreInv
<1>3. Undisturbed => (TypeOK /\ LockInv /\ [Next]_vars => (TypeOK /\ LockInv)')
  BY <1>1
<1>4. CASE Undisturbed
  <2>1. TypeOK /\ LockInv /\ [Next]_vars => (TypeOK /\ LockInv)'
    BY <1>3, <1>4
  <2> QED BY <1>2, <2>1, PTL DEF Spec
<1> QED BY <1>4

\* The full invariant: between flushes and inside them, what a process has
\* pending are edits some thread of its own made.
THEOREM StoreInvariant ==
    Undisturbed /\ ~WriteErrors => (Spec => [](TypeOK /\ StoreInv))
<1>1. ASSUME Undisturbed, ~WriteErrors, TypeOK, StoreInv, [Next]_vars
      PROVE  TypeOK' /\ StoreInv'
  <2>1. LockInv' /\ PendingIsEdited' /\ TypeOK'
    BY <1>1, NextType, NextLockInv, NextPending DEF StoreInv
  <2> QED BY <2>1 DEF StoreInv
<1>2. Init => TypeOK /\ StoreInv
  BY InitType, InitInv
<1>3. CASE Undisturbed /\ ~WriteErrors
  <2>1. TypeOK /\ StoreInv /\ [Next]_vars => (TypeOK /\ StoreInv)'
    BY <1>1, <1>3
  <2> QED BY <1>2, <2>1, PTL DEF Spec
<1> QED BY <1>3

-----------------------------------------------------------------------------
(* Recovered is absorbing                                                  *)

\* The only step that writes the files is the write of the flush that holds
\* the lock.
LEMMA OnlyFlushWrites ==
    ASSUME Undisturbed, TypeOK, LockInv, [Next]_vars, NEW k \in Keys,
           disk'[k] # disk[k]
    PROVE  \E p \in Procs : /\ FlushWrite(p)
                            /\ pc[p] = "write" /\ lock = p
                            /\ InMerge(p, k)
                            /\ disk'[k] = mem[p][k]
<1>1. CASE UNCHANGED vars
  BY <1>1 DEF vars
<1>2. CASE Next
  <2> PICK p \in Procs :
        \/ \E j \in Keys : Save(p, j) \/ Remove(p, j)
        \/ \E c \in Cases :
              Update(p, c) \/ MutateInPlace(p, c) \/ MarkRecovered(p, c)
        \/ FlushBegin(p) \/ FlushMerge(p) \/ FlushWrite(p) \/ FlushShadow(p)
        \/ FlushFails(p) \/ FlushUnmerged(p) \/ Refresh(p) \/ Restart(p)
    BY <1>2 DEF Next
  <2>1. CASE \/ \E j \in Keys : Save(p, j) \/ Remove(p, j)
             \/ \E c \in Cases : Update(p, c) \/ MutateInPlace(p, c)
                                  \/ MarkRecovered(p, c)
    <3>1. PICK j \in Keys : \E e \in EntriesOf(j) \cup {Absent} :
                               Change(p, j, e) /\ MayMutate(p)
      BY <2>1, EditChanges
    <3>2. PICK e \in EntriesOf(j) \cup {Absent} : Change(p, j, e) /\ MayMutate(p)
      BY <3>1
    <3> QED BY <3>2, ChangeEffect
  <2>2. CASE FlushWrite(p)
    <3>1. pc[p] = "write" /\ lock = p
      BY <2>2 DEF FlushWrite, LockInv, FlushHoldsLock
    <3>2. SectionOf[k] = sec[p] /\ disk'[k] = mem[p][k]
      BY <2>2, WriteEffect
    <3> QED BY <2>2, <3>1, <3>2 DEF InMerge
  <2>3. CASE ~FlushWrite(p) /\ disk' # disk
    BY <2>1, <2>3, ChangeEffect DEF FlushBegin, FlushMerge, FlushShadow, FlushFails,
       FlushUnmerged, Refresh, Restart, Undisturbed, flushing
  <2> QED BY <2>1, <2>2, <2>3
<1> QED BY <1>1, <1>2

\* A payment that is recovered on disk stays recovered until its record is
\* removed: whatever older copies the other processes hold, and even when
\* writes fail and processes restart.
THEOREM RecoveredAbsorbs == Undisturbed => (Spec => RecoveredIsAbsorbing)
<1> DEFINE Absorbing ==
        \A c \in Cases : Recovered(disk[c])
                           => disk'[c] = Absent \/ Recovered(disk'[c])
<1>1. ASSUME Undisturbed, TypeOK /\ LockInv, [Next]_vars
      PROVE  Absorbing
  <2> SUFFICES ASSUME NEW c \in Cases, Recovered(disk[c]), disk'[c] # disk[c]
               PROVE  disk'[c] = Absent \/ Recovered(disk'[c])
    OBVIOUS
  <2>1. c \in Keys
    BY DEF Cases
  <2>2. PICK p \in Procs : /\ pc[p] = "write" /\ InMerge(p, c)
                           /\ disk'[c] = mem[p][c]
    BY <1>1, <2>1, OnlyFlushWrites
  <2>3. Absorb(c, mem[p][c], disk[c]) = mem[p][c]
    BY <1>1, <2>1, <2>2 DEF LockInv, MergeHasAbsorbed
  <2>4. mem[p][c] \in EntriesOf(c) \cup {Absent}
    BY <1>1, <2>1 DEF TypeOK, Table
  <2> QED BY <2>2, <2>3, <2>4, AbsorbRecovered
<1>2. CASE Undisturbed
  <2>1. TypeOK /\ LockInv /\ [Next]_vars => Absorbing
    BY <1>1, <1>2
  <2>2. Spec => [](TypeOK /\ LockInv)
    BY <1>2, FlushAbsorbs
  <2>3. TypeOK /\ LockInv /\ [Next]_vars => [Absorbing]_vars
    BY <2>1
  <2> QED BY <2>2, <2>3, PTL DEF Spec, RecoveredIsAbsorbing
<1> QED BY <1>2

\* What a flush changes on disk, the flushing process itself had edited: no
\* stale copy of another process's key is ever written back.
THEOREM OnlyEdits ==
    Undisturbed /\ ~WriteErrors => (Spec => OnlyEditsAreWritten)
<1> DEFINE OwnEdits ==
        \A k \in Keys : disk'[k] # disk[k]
                          => \E p \in Procs : lock = p /\ k \in edited[p]
<1>1. ASSUME Undisturbed, TypeOK, StoreInv, [Next]_vars
      PROVE  OwnEdits
  <2> SUFFICES ASSUME NEW k \in Keys, disk'[k] # disk[k]
               PROVE  \E p \in Procs : lock = p /\ k \in edited[p]
    OBVIOUS
  <2>1. PICK p \in Procs : /\ pc[p] = "write" /\ lock = p /\ InMerge(p, k)
                           /\ disk'[k] = mem[p][k]
    BY <1>1, OnlyFlushWrites DEF StoreInv
  <2>2. mem[p][k] # View(p, k)
    BY <2>1 DEF View
  <2> QED BY <1>1, <2>1, <2>2 DEF StoreInv, PendingIsEdited
<1>2. CASE Undisturbed /\ ~WriteErrors
  <2>1. TypeOK /\ StoreInv /\ [Next]_vars => [OwnEdits]_vars
    BY <1>1, <1>2
  <2>2. Spec => [](TypeOK /\ StoreInv)
    BY <1>2, StoreInvariant
  <2> QED BY <2>1, <2>2, PTL DEF Spec, OnlyEditsAreWritten
<1> QED BY <1>2

-----------------------------------------------------------------------------
(* The refinement of EditLedger                                            *)

\* The ledger reads the records of the store by the same definitions.
LEMMA SameValues ==
    /\ Ledger!Sections = Sections
    /\ \A k : Ledger!EntriesOf(k) = EntriesOf(k)
    /\ \A k, a, b : Ledger!Absorb(k, a, b) = Absorb(k, a, b)
BY DEF Ledger!Sections, Sections, Ledger!EntriesOf, EntriesOf, Ledger!Absorb,
   Absorb, Ledger!Cases, Cases, Ledger!CaseRec, CaseRec, Ledger!Statuses,
   Statuses, Ledger!Recovered, Recovered

\* The initial states of the store are initial states of the ledger.
LEMMA InitLedger == Init => Ledger!Init
<1> SUFFICES ASSUME Init PROVE Ledger!Init
  OBVIOUS
<1>1. PendingEdits = [p \in Procs |-> [k \in Keys |-> Unedited]]
  BY DEF Init, PendingEdits, View, InMerge
<1> QED BY <1>1 DEF Ledger!Init, Init

\* What the ledger sees pending, before and after a step.
LEMMA EditsOf ==
    ASSUME NEW q \in Procs, NEW j \in Keys
    PROVE  /\ PendingEdits[q][j] =
                IF mem[q][j] = View(q, j) THEN Unedited ELSE mem[q][j]
           /\ PendingEdits'[q][j] =
                IF mem'[q][j] = View(q, j)' THEN Unedited ELSE mem'[q][j]
BY DEF PendingEdits

\* Entries are never the mark for "no edit".
LEMMA EntryIsPending ==
    ASSUME TypeOK, NEW q \in Procs, NEW j \in Keys
    PROVE  mem[q][j] # Unedited
BY UneditedAssumption DEF TypeOK, Table, EntriesOf

\* A key that p merges is what the ledger calls a rebased edit.
LEMMA MergeIsRebase ==
    ASSUME TypeOK, NEW p \in Procs, NEW j \in Keys, ~InMerge(p, j)
    PROVE  Ledger!RebasedEdit(p, j) =
             IF Merged(p, j) = disk[j] THEN Unedited ELSE Merged(p, j)
<1>1. CASE Dirty(p, j)
  <2>1. PendingEdits[p][j] = mem[p][j]
    BY <1>1, EditsOf DEF Dirty, View
  <2>2. PendingEdits[p][j] # Unedited
    BY <2>1, EntryIsPending
  <2> QED BY <1>1, <2>1, <2>2, SameValues
          DEF Ledger!RebasedEdit, Ledger!Pending, Ledger!Rebased, Merged
<1>2. CASE ~Dirty(p, j)
  <2>1. PendingEdits[p][j] = Unedited
    BY <1>2, EditsOf DEF Dirty, View
  <2> QED BY <1>2, <2>1 DEF Ledger!RebasedEdit, Ledger!Pending, Merged
<1> QED BY <1>1, <1>2

\* Every step of the store is a step of the ledger or none.
LEMMA NextLedger ==
    ASSUME Undisturbed, ~WriteErrors, TypeOK, LockInv, [Next]_vars
    PROVE  [Ledger!Next]_(Ledger!vars)
<1> USE DEF FlushHoldsLock
<1>a. ASSUME disk' = disk,
             \A q \in Procs, j \in Keys :
                 PendingEdits'[q][j] = PendingEdits[q][j]
      PROVE  UNCHANGED Ledger!vars
  <2>1. PendingEdits' = PendingEdits
    BY <1>a DEF PendingEdits
  <2> QED BY <1>a, <2>1 DEF Ledger!vars
<1>1. CASE UNCHANGED vars
  BY <1>1, <1>a, EditsOf DEF vars, View, InMerge
<1>2. CASE Next
  <2> PICK p \in Procs :
        \/ \E k \in Keys : Save(p, k) \/ Remove(p, k)
        \/ \E c \in Cases :
              Update(p, c) \/ MutateInPlace(p, c) \/ MarkRecovered(p, c)
        \/ FlushBegin(p) \/ FlushMerge(p) \/ FlushWrite(p) \/ FlushShadow(p)
        \/ FlushFails(p) \/ FlushUnmerged(p) \/ Refresh(p) \/ Restart(p)
    BY <1>2 DEF Next
  <2>1. CASE \/ \E k \in Keys : Save(p, k) \/ Remove(p, k)
             \/ \E c \in Cases : Update(p, c) \/ MutateInPlace(p, c)
                                  \/ MarkRecovered(p, c)
    <3>1. PICK k \in Keys : \E e \in EntriesOf(k) \cup {Absent} :
                               Change(p, k, e) /\ MayMutate(p)
      BY <2>1, EditChanges
    <3>2. PICK e \in EntriesOf(k) \cup {Absent} : Change(p, k, e) /\ MayMutate(p)
      BY <3>1
    <3>3. pc[p] = "idle"
      BY <3>2 DEF MayMutate, Undisturbed
    <3> DEFINE n == IF e = View(p, k) THEN Unedited ELSE e
    <3>4. \A q \in Procs, j \in Keys :
             PendingEdits'[q][j] = [PendingEdits EXCEPT ![p][k] = n][q][j]
      BY <3>2, ChangeEffect, EditsOf DEF PendingEdits
    <3>5. PendingEdits' = [PendingEdits EXCEPT ![p][k] = n]
      BY <3>4 DEF PendingEdits
    <3>6. disk' = disk /\ n \in EntriesOf(k) \cup {Absent, Unedited}
      BY <3>2, ChangeEffect
    <3>7. Ledger!Edit(p, k)
      BY <3>5, <3>6, SameValues DEF Ledger!Edit
    <3> QED BY <3>7 DEF Ledger!Next
  <2>2. CASE FlushBegin(p)
    BY <2>2, <1>a, EditsOf DEF FlushBegin, TypeOK, View, InMerge
  <2>3. CASE FlushMerge(p)
    <3> DEFINE E == [PendingEdits EXCEPT ![p] =
                       [j \in Keys |-> IF SectionOf[j] \in {sec[p]}
                                       THEN Ledger!RebasedEdit(p, j)
                                       ELSE PendingEdits[p][j]]]
    <3>1. pc[p] = "merge" /\ sec[p] \in Sections
      BY <2>3 DEF FlushMerge, TypeOK
    <3>2. \A q \in Procs, j \in Keys : PendingEdits'[q][j] = E[q][j]
      BY <2>3, <3>1, MergeEffect, EditsOf, MergeIsRebase
         DEF PendingEdits, View, InMerge
    <3>3. PendingEdits' = E
      BY <3>2 DEF PendingEdits
    <3>4. Ledger!Rebase(p, {sec[p]})
      BY <2>3, <3>3, MergeEffect DEF Ledger!Rebase
    <3> QED BY <3>1, <3>4, SameValues DEF Ledger!Next
  <2>4. CASE FlushWrite(p)
    <3> DEFINE E == [PendingEdits EXCEPT ![p] =
                       [j \in Keys |-> IF SectionOf[j] = sec[p] THEN Unedited
                                       ELSE PendingEdits[p][j]]]
    <3>1. pc[p] = "write" /\ lock = p /\ sec[p] \in Sections
      BY <2>4 DEF FlushWrite, LockInv, TypeOK
    <3>2. \A q \in Procs : q # p => pc[q] = "idle"
      BY <3>1 DEF LockInv
    <3>3. \A q \in Procs, j \in Keys : PendingEdits'[q][j] = E[q][j]
      BY <2>4, <3>1, <3>2, WriteEffect, EditsOf DEF PendingEdits, View, InMerge
    <3>4. PendingEdits' = E
      BY <3>3 DEF PendingEdits
    <3>5. ASSUME NEW j \in Keys
          PROVE  disk'[j] = IF SectionOf[j] = sec[p] /\ Ledger!Pending(p, j)
                            THEN Ledger!Rebased(p, j) ELSE disk[j]
      <4>1. SectionOf[j] = sec[p] => Absorb(j, mem[p][j], disk[j]) = mem[p][j]
        BY <3>1 DEF LockInv, MergeHasAbsorbed, InMerge
      <4>2. SectionOf[j] = sec[p]
              => (Ledger!Pending(p, j) <=> mem[p][j] # disk[j])
        BY <3>1, EditsOf, EntryIsPending DEF Ledger!Pending, View, InMerge
      <4>3. SectionOf[j] = sec[p] /\ Ledger!Pending(p, j)
              => Ledger!Rebased(p, j) = mem[p][j]
        BY <4>1, EditsOf, SameValues DEF Ledger!Pending, Ledger!Rebased
      <4> QED BY <2>4, <4>2, <4>3, WriteEffect
    <3>6. disk' \in Table
      BY NextType DEF TypeOK
    <3>7. disk' = [j \in Keys |-> disk'[j]]
      BY <3>6 DEF Table
    <3>8. disk' = [j \in Keys |->
                     IF SectionOf[j] = sec[p] /\ Ledger!Pending(p, j)
                     THEN Ledger!Rebased(p, j) ELSE disk[j]]
      BY <3>5, <3>7
    <3>9. Ledger!Publish(p, sec[p])
      BY <3>4, <3>8 DEF Ledger!Publish
    <3> QED BY <3>1, <3>9, SameValues DEF Ledger!Next
  <2>5. CASE FlushShadow(p)
    <3>1. pc[p] = "shadow"
      BY <2>5 DEF FlushShadow
    <3>2. \A j \in Keys : SectionOf[j] = sec[p] => mem[p][j] = disk[j]
      BY <3>1 DEF LockInv, WrittenIsOnDisk, InMerge
    <3> QED BY <2>5, <1>a, <3>1, <3>2, ShadowEffect, EditsOf DEF View, InMerge
  <2>6. CASE FlushFails(p)
    BY <2>6 DEF FlushFails
  <2>7. CASE FlushUnmerged(p)
    BY <2>7 DEF FlushUnmerged, Undisturbed
  <2>8. CASE Refresh(p)
    <3> DEFINE E == [PendingEdits EXCEPT ![p] =
                       [j \in Keys |-> IF SectionOf[j] \in Sections
                                       THEN Ledger!RebasedEdit(p, j)
                                       ELSE PendingEdits[p][j]]]
    <3>1. \A j \in Keys : SectionOf[j] \in Sections
      BY SectionAssumption DEF Sections
    <3>2. \A q \in Procs : pc[q] = "idle"
      BY <2>8, ProcsAssumption DEF Refresh, LockInv
    <3>3. \A q \in Procs, j \in Keys : PendingEdits'[q][j] = E[q][j]
      BY <2>8, <3>1, <3>2, RefreshEffect, EditsOf, MergeIsRebase
         DEF PendingEdits, View, InMerge
    <3>4. PendingEdits' = E
      BY <3>3 DEF PendingEdits
    <3>5. Ledger!Rebase(p, Sections)
      BY <2>8, <3>4, RefreshEffect, SameValues DEF Ledger!Rebase
    <3> QED BY <3>5, SameValues DEF Ledger!Next
  <2>9. CASE Restart(p)
    <3> DEFINE E == [PendingEdits EXCEPT ![p] = [j \in Keys |-> Unedited]]
    <3>1. \A q \in Procs, j \in Keys : PendingEdits'[q][j] = E[q][j]
      BY <2>9, RestartEffect, EditsOf DEF PendingEdits, View, InMerge
    <3>2. PendingEdits' = E
      BY <3>1 DEF PendingEdits
    <3>3. Ledger!Forget(p)
      BY <2>9, <3>2, RestartEffect DEF Ledger!Forget
    <3> QED BY <3>3 DEF Ledger!Next
  <2> QED BY <2>1, <2>2, <2>3, <2>4, <2>5, <2>6, <2>7, <2>8, <2>9
<1> QED BY <1>1, <1>2

\* The store implements the ledger: copies, shadows, merges and the lock file
\* add up to processes that publish their own edits onto one shared state.
THEOREM StoreImplementsLedger ==
    Undisturbed /\ ~WriteErrors => (Spec => ImplementsLedger)
<1>1. CASE Undisturbed /\ ~WriteErrors
  <2>1. TypeOK /\ LockInv /\ [Next]_vars => [Ledger!Next]_(Ledger!vars)
    BY <1>1, NextLedger
  <2>2. Spec => [](TypeOK /\ LockInv)
    BY <1>1, FlushAbsorbs
  <2> QED BY <2>1, <2>2, InitLedger, PTL DEF Spec, ImplementsLedger, Ledger!Spec
<1> QED BY <1>1

-----------------------------------------------------------------------------
\* What a process sees as changed: its shadow is the disk as it last saw it,
\* except between the write of a file and the shadow of it, when what it saw
\* is what it wrote.
WrittenUnshadowed(p, k) == pc[p] = "shadow" /\ SectionOf[k] = sec[p]

SeenInv ==
    \A p \in Procs, k \in Keys :
        seen[p][k] = IF WrittenUnshadowed(p, k) THEN mem[p][k] ELSE shadow[p][k]

\* While no thread writes into a running flush, every step keeps it: the lock
\* may be given up on, a write may raise and a process may die anywhere.
LEMMA NextSeen ==
    ASSUME ~RacyThreads, TypeOK, SeenInv, [Next]_vars
    PROVE  SeenInv'
<1> USE DEF SeenInv, WrittenUnshadowed
<1>1. CASE UNCHANGED vars
  BY <1>1 DEF vars
<1>2. CASE Next
  <2> PICK p \in Procs :
        \/ \E k \in Keys : Save(p, k) \/ Remove(p, k)
        \/ \E c \in Cases :
              Update(p, c) \/ MutateInPlace(p, c) \/ MarkRecovered(p, c)
        \/ FlushBegin(p) \/ FlushMerge(p) \/ FlushWrite(p) \/ FlushShadow(p)
        \/ FlushFails(p) \/ FlushUnmerged(p) \/ Refresh(p) \/ Restart(p)
    BY <1>2 DEF Next
  <2>1. CASE \/ \E k \in Keys : Save(p, k) \/ Remove(p, k)
             \/ \E c \in Cases :
                   Update(p, c) \/ MutateInPlace(p, c) \/ MarkRecovered(p, c)
    <3>1. PICK k \in Keys : \E e \in EntriesOf(k) \cup {Absent} :
              Change(p, k, e) /\ MayMutate(p)
      BY <2>1, EditChanges
    <3>2. PICK e \in EntriesOf(k) \cup {Absent} : Change(p, k, e) /\ MayMutate(p)
      BY <3>1
    <3>3. pc[p] = "idle" /\ UNCHANGED seen
      BY <3>2 DEF MayMutate, Change
    <3> QED BY <3>2, <3>3, ChangeEffect
  <2>2. CASE FlushBegin(p)
    <3>1. UNCHANGED <<mem, shadow, seen>> /\ pc[p] = "idle"
      BY <2>2 DEF FlushBegin
    <3>2. \A q \in Procs : q # p => pc'[q] = pc[q] /\ sec'[q] = sec[q]
      BY <2>2 DEF FlushBegin, TypeOK
    <3>3. pc'[p] = "merge"
      BY <2>2 DEF FlushBegin, TypeOK
    <3> QED BY <3>1, <3>2, <3>3
  <2>3. CASE FlushMerge(p)
    <3>1. pc[p] = "merge" /\ UNCHANGED seen
      BY <2>3 DEF FlushMerge
    <3> QED BY <2>3, <3>1, MergeEffect
  <2>4. CASE FlushWrite(p)
    <3>1. pc[p] = "write"
      BY <2>4 DEF FlushWrite
    <3>2. \A q \in Procs, j \in Keys :
              seen'[q][j] = IF q = p /\ SectionOf[j] = sec[p]
                            THEN mem[p][j] ELSE seen[q][j]
      BY <2>4 DEF FlushWrite, TypeOK, Table, Splice
    <3> QED BY <2>4, <3>1, <3>2, WriteEffect
  <2>5. CASE FlushShadow(p)
    <3>1. pc[p] = "shadow" /\ UNCHANGED seen
      BY <2>5 DEF FlushShadow
    <3> QED BY <2>5, <3>1, ShadowEffect
  <2>6. CASE FlushFails(p)
    <3>1. pc[p] = "write" /\ UNCHANGED seen
      BY <2>6 DEF FlushFails
    <3> QED BY <2>6, <3>1, FailEffect
  <2>7. CASE FlushUnmerged(p)
    <3>1. pc[p] = "idle" /\ UNCHANGED <<mem, pc, sec>>
      BY <2>7 DEF FlushUnmerged, flushing
    <3>2. \A q \in Procs, j \in Keys :
              /\ seen'[q][j] = IF q = p THEN mem[p][j] ELSE seen[q][j]
              /\ shadow'[q][j] = IF q = p THEN mem[p][j] ELSE shadow[q][j]
      BY <2>7 DEF FlushUnmerged, TypeOK, Table
    <3> QED BY <3>1, <3>2
  <2>8. CASE Refresh(p)
    <3>1. pc[p] = "idle"
      BY <2>8 DEF Refresh
    <3>2. \A q \in Procs, j \in Keys :
              seen'[q][j] = IF q = p THEN disk[j] ELSE seen[q][j]
      BY <2>8 DEF Refresh, TypeOK, Table
    <3> QED BY <2>8, <3>1, <3>2, RefreshEffect
  <2>9. CASE Restart(p)
    <3>1. \A q \in Procs, j \in Keys :
              seen'[q][j] = IF q = p THEN disk[j] ELSE seen[q][j]
      BY <2>9 DEF Restart, TypeOK, Table
    <3> QED BY <2>9, <3>1, RestartEffect
  <2> QED BY <2>1, <2>2, <2>3, <2>4, <2>5, <2>6, <2>7, <2>8, <2>9
<1> QED BY <1>1, <1>2

\* Even a record mutated in place is taken for an edit by the next flush, for
\* any processes and files, whether flushes give up on the lock, writes raise
\* or processes die; only a thread that writes into a flush of its own process
\* can lose an edit.
THEOREM EditsSeen == ~RacyThreads => (Spec => []EditsAreSeen)
<1> SUFFICES ASSUME ~RacyThreads PROVE Spec => []EditsAreSeen
  OBVIOUS
<1>1. Init => TypeOK /\ SeenInv
  <2>1. ASSUME Init PROVE SeenInv
    BY <2>1 DEF Init, SeenInv, WrittenUnshadowed
  <2> QED BY <2>1, InitType
<1>2. TypeOK /\ SeenInv /\ [Next]_vars => (TypeOK /\ SeenInv)'
  BY NextType, NextSeen
<1>3. SeenInv => EditsAreSeen
  BY DEF SeenInv, WrittenUnshadowed, EditsAreSeen, Dirty
<1> QED BY <1>1, <1>2, <1>3, PTL DEF Spec

-----------------------------------------------------------------------------
\* What is recovered carries its capture, on disk and in every copy: both are
\* written together, and a merge that takes over the one takes over the other.
Kept(k, e) == k \in Cases /\ Recovered(e) => e.captured

CaptureInv ==
    /\ \A k \in Keys : Kept(k, disk[k])
    /\ \A p \in Procs, k \in Keys : Kept(k, mem[p][k])

LEMMA EditKeeps ==
    ASSUME TypeOK, CaptureInv, NEW p \in Procs,
           \/ \E k \in Keys : Save(p, k) \/ Remove(p, k)
           \/ \E c \in Cases :
                 Update(p, c) \/ MutateInPlace(p, c) \/ MarkRecovered(p, c)
    PROVE  \E k \in Keys : \E e : Change(p, k, e) /\ Kept(k, e)
<1>0. \A c \in Cases : c \in Keys /\ Kept(c, mem[p][c])
  BY DEF CaptureInv, Cases
<1>1. ASSUME NEW k \in Keys, Save(p, k)
      PROVE  \E e : Change(p, k, e) /\ Kept(k, e)
  BY <1>1 DEF Save, NewEntries, Kept, Recovered
<1>2. ASSUME NEW k \in Keys, Remove(p, k)
      PROVE  \E e : Change(p, k, e) /\ Kept(k, e)
  <2>1. Change(p, k, Absent)
    BY <1>2 DEF Remove
  <2>2. ~Recovered(Absent)
    BY AbsentAssumption DEF Recovered, Entries
  <2> QED BY <2>1, <2>2 DEF Kept
<1>3. ASSUME NEW c \in Cases, Update(p, c)
      PROVE  \E e : Change(p, c, e) /\ Kept(c, e)
  <2>1. PICK st \in {"recovering", "failed"}, n \in Notes :
            Change(p, c, Updated(mem[p][c], st, n))
    BY <1>3 DEF Update
  <2>2. mem[p][c] \in CaseRec
    BY <1>3, RecordType DEF Update
  <2>3. Kept(c, Updated(mem[p][c], st, n))
    BY <1>0, <2>2 DEF Updated, CaseRec, Kept, Recovered
  <2> QED BY <2>1, <2>3
<1>4. ASSUME NEW c \in Cases, MutateInPlace(p, c)
      PROVE  \E e : Change(p, c, e) /\ Kept(c, e)
  <2>1. PICK n \in Notes :
            Change(p, c, [mem[p][c] EXCEPT !.status = "failed", !.note = n])
    BY <1>4 DEF MutateInPlace
  <2>2. mem[p][c] \in CaseRec
    BY <1>4, RecordType DEF MutateInPlace
  <2>3. Kept(c, [mem[p][c] EXCEPT !.status = "failed", !.note = n])
    BY <2>2 DEF CaseRec, Kept, Recovered
  <2> QED BY <2>1, <2>3
<1>5. ASSUME NEW c \in Cases, MarkRecovered(p, c)
      PROVE  \E e : Change(p, c, e) /\ Kept(c, e)
  <2>1. Change(p, c, [mem[p][c] EXCEPT !.status = "recovered", !.captured = TRUE])
    BY <1>5 DEF MarkRecovered
  <2>2. mem[p][c] \in CaseRec
    BY <1>5, RecordType DEF MarkRecovered
  <2>3. Kept(c, [mem[p][c] EXCEPT !.status = "recovered", !.captured = TRUE])
    BY <2>2 DEF CaseRec, Kept
  <2> QED BY <2>1, <2>3
<1> QED BY <1>0, <1>1, <1>2, <1>3, <1>4, <1>5

LEMMA AbsorbKeeps ==
    ASSUME NEW k, NEW a, NEW b, Kept(k, a), Kept(k, b)
    PROVE  Kept(k, Absorb(k, a, b))
BY DEF Absorb, Kept, Recovered, CaseRec

LEMMA NextCapture ==
    ASSUME TypeOK, CaptureInv, [Next]_vars
    PROVE  CaptureInv'
<1> USE DEF CaptureInv
<1>m. ASSUME NEW p \in Procs, NEW k \in Keys PROVE Kept(k, Merged(p, k))
  BY AbsorbKeeps DEF Merged
<1>1. CASE UNCHANGED vars
  BY <1>1 DEF vars
<1>2. CASE Next
  <2> PICK p \in Procs :
        \/ \E k \in Keys : Save(p, k) \/ Remove(p, k)
        \/ \E c \in Cases :
              Update(p, c) \/ MutateInPlace(p, c) \/ MarkRecovered(p, c)
        \/ FlushBegin(p) \/ FlushMerge(p) \/ FlushWrite(p) \/ FlushShadow(p)
        \/ FlushFails(p) \/ FlushUnmerged(p) \/ Refresh(p) \/ Restart(p)
    BY <1>2 DEF Next
  <2>1. CASE \/ \E k \in Keys : Save(p, k) \/ Remove(p, k)
             \/ \E c \in Cases :
                   Update(p, c) \/ MutateInPlace(p, c) \/ MarkRecovered(p, c)
    <3>1. PICK k \in Keys : \E e : Change(p, k, e) /\ Kept(k, e)
      BY <2>1, EditKeeps
    <3>2. PICK e : Change(p, k, e) /\ Kept(k, e)
      BY <3>1
    <3> QED BY <3>2, ChangeEffect
  <2>2. CASE FlushBegin(p) \/ FlushShadow(p) \/ FlushFails(p)
    BY <2>2 DEF FlushBegin, FlushShadow, FlushFails
  <2>3. CASE FlushMerge(p)
    BY <1>m, <2>3, MergeEffect
  <2>4. CASE FlushWrite(p)
    BY <2>4, WriteEffect
  <2>5. CASE FlushUnmerged(p)
    BY <2>5 DEF FlushUnmerged
  <2>6. CASE Refresh(p)
    BY <1>m, <2>6, RefreshEffect
  <2>7. CASE Restart(p)
    BY <2>7, RestartEffect
  <2> QED BY <2>1, <2>2, <2>3, <2>4, <2>5, <2>6, <2>7
<1> QED BY <1>1, <1>2

\* A payment recovered on disk keeps its capture fields until its record is
\* removed, even if writes fail and processes die.
THEOREM CaptureStays == Undisturbed => (Spec => CaptureIsKept)
<1> SUFFICES ASSUME Undisturbed PROVE Spec => CaptureIsKept
  OBVIOUS
<1>1. Init => TypeOK /\ CaptureInv
  <2>1. ~Recovered(Absent)
    BY AbsentAssumption DEF Recovered, Entries
  <2>2. ASSUME Init PROVE CaptureInv
    BY <2>1, <2>2 DEF Init, CaptureInv, Kept
  <2> QED BY <2>2, InitType
<1>2. TypeOK /\ CaptureInv /\ [Next]_vars => (TypeOK /\ CaptureInv)'
  BY NextType, NextCapture
<1> DEFINE Absorbing ==
        \A c \in Cases : Recovered(disk[c])
                           => disk'[c] = Absent \/ Recovered(disk'[c])
           Keeps ==
        \A c \in Cases : Recovered(disk[c]) /\ disk[c].captured
                           => \/ disk'[c] = Absent
                              \/ disk'[c].captured
<1>3. CaptureInv' /\ [Absorbing]_vars => [Keeps]_vars
  <2>1. Cases \subseteq Keys
    BY DEF Cases
  <2> QED BY <2>1 DEF CaptureInv, Kept
<1>4. Spec => [][Absorbing]_vars
  BY RecoveredAbsorbs DEF RecoveredIsAbsorbing
<1>5. Spec => [][Keeps]_vars
  <2> HIDE DEF Absorbing, Keeps
  <2> QED BY <1>1, <1>2, <1>3, <1>4, PTL DEF Spec
<1> QED BY <1>5 DEF CaptureIsKept
=============================================================================
