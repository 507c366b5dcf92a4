----------------------------- MODULE StateStore -----------------------------
(***************************************************************************)
(* The file-backed store shared by the frontend, the webhook receiver and  *)
(* the daemon (state_store.py).  Every process keeps a copy of the four    *)
(* JSON files in memory (mem) and a shadow of what it last saw on disk.    *)
(* flush() takes a lock file and, one file after the other, merges its     *)
(* changed keys onto the file, writes the file and takes a new shadow;     *)
(* each of these is a step here, because the other threads of the same     *)
(* process mutate records in place without taking the store's lock, and    *)
(* because a process can die between two of them.                          *)
(*                                                                         *)
(* Three assumptions about the environment are constants, so that a run    *)
(* can make them or drop them:                                             *)
(*   RacyThreads   a thread may mutate a record in place while another     *)
(*                 thread of its process is inside flush()                 *)
(*   LockTimeouts  a flush may give up on the lock file after five seconds *)
(*   WriteErrors   writing a file may raise (disk full, a dict resized     *)
(*                 while json.dump walks it)                               *)
(***************************************************************************)
EXTENDS StoreValues

CONSTANTS Procs, Free, Unedited,
          RacyThreads, LockTimeouts, WriteErrors

ASSUME ProcsAssumption == Free \notin Procs
ASSUME FlagsAssumption ==
    {RacyThreads, LockTimeouts, WriteErrors} \subseteq BOOLEAN
ASSUME UneditedAssumption == Unedited \notin Entries

VARIABLES disk,    \* the four files
          mem,     \* mem[p] : p's copy of them
          shadow,  \* shadow[p] : the disk as p believes it last saw it
          lock,    \* who holds .store.lock
          pc,      \* where p's flush is: idle, merge, write or shadow
          sec,     \* the file p's flush is at
          edited,  \* history: the keys p changed and has not written since
          seen     \* history: the disk as p really last saw it

vars == <<disk, mem, shadow, lock, pc, sec, edited, seen>>
flushing == <<lock, pc, sec>>

Table == {t \in [Keys -> Entries] :
              \A k \in Keys : t[k] \in EntriesOf(k) \cup {Absent}}

TypeOK ==
    /\ disk \in Table
    /\ mem \in [Procs -> Table]
    /\ shadow \in [Procs -> Table]
    /\ lock \in Procs \cup {Free}
    /\ pc \in [Procs -> {"idle", "merge", "write", "shadow"}]
    /\ sec \in [Procs -> Sections]
    /\ edited \in [Procs -> SUBSET Keys]
    /\ seen \in [Procs -> Table]

Init ==
    /\ disk = [k \in Keys |-> Absent]
    /\ mem = [p \in Procs |-> disk]
    /\ shadow = [p \in Procs |-> disk]
    /\ lock = Free
    /\ pc = [p \in Procs |-> "idle"]
    /\ sec = [p \in Procs |-> 1]
    /\ edited = [p \in Procs |-> {}]
    /\ seen = [p \in Procs |-> disk]

-----------------------------------------------------------------------------
(* Changing the copy in memory                                             *)

Change(p, k, e) ==
    /\ mem' = [mem EXCEPT ![p][k] = e]
    /\ edited' = [edited EXCEPT ![p] = @ \cup {k}]
    /\ UNCHANGED <<disk, shadow, seen, flushing>>

\* A record enters the store unpaid; set_trail, save_pending and schedule_job
\* write whatever entry they are given.
NewEntries(k) == IF k \in Cases
                 THEN {e \in CaseRec : e.status # "recovered" /\ ~e.captured}
                 ELSE Payloads

\* save_payment replaces a record; every caller saves a payment only when the
\* store has none under that id.
Save(p, k) ==
    /\ pc[p] = "idle"
    /\ k \in Cases => mem[p][k] = Absent
    /\ \E e \in NewEntries(k) : Change(p, k, e)

\* update_payment(status=...) : a record that is recovered keeps its status,
\* the other fields are written.
Updated(e, st, n) ==
    [e EXCEPT !.status = IF @ = "recovered" THEN @ ELSE st, !.note = n]

Update(p, c) ==
    /\ pc[p] = "idle"
    /\ mem[p][c] # Absent
    /\ \E st \in {"recovering", "failed"}, n \in Notes :
           Change(p, c, Updated(mem[p][c], st, n))

\* remove_pending, remove_payment
Remove(p, k) == pc[p] = "idle" /\ mem[p][k] # Absent /\ Change(p, k, Absent)

\* The records are handed out by reference, and call sites write to them
\* without the store's lock: a run that raises sets status `failed`, and the
\* ending of a case sets status and capture together.
MayMutate(p) == pc[p] = "idle" \/ RacyThreads

MutateInPlace(p, c) ==
    /\ MayMutate(p)
    /\ mem[p][c] # Absent
    /\ \E n \in Notes :
           Change(p, c, [mem[p][c] EXCEPT !.status = "failed", !.note = n])

\* _mark_recovered writes the three fields in place, close_case all at once.
MarkRecovered(p, c) ==
    /\ MayMutate(p)
    /\ mem[p][c] # Absent
    /\ ~Recovered(mem[p][c])
    /\ Change(p, c, [mem[p][c] EXCEPT !.status = "recovered",
                                      !.captured = TRUE])

-----------------------------------------------------------------------------
(* flush() and refresh()                                                   *)

\* What differs from the shadow is what this process changed.
Dirty(p, k) == mem[p][k] # shadow[p][k]

\* Defect: the copy in memory always wins (a flush with no merge).
MergedBlindly(p, k) == mem[p][k]

Merged(p, k) == IF Dirty(p, k) THEN Absorb(k, mem[p][k], disk[k]) ELSE disk[k]

\* A table whose section s comes from `new` and the rest from `old`.
Splice(s, new, old) ==
    [k \in Keys |-> IF SectionOf[k] = s THEN new[k] ELSE old[k]]

\* Defect: flush() does not wait for the lock file.
FlushBeginUnlocked(p) ==
    /\ pc[p] = "idle"
    /\ lock' = p
    /\ pc' = [pc EXCEPT ![p] = "merge"]
    /\ sec' = [sec EXCEPT ![p] = 1]
    /\ UNCHANGED <<disk, mem, shadow, edited, seen>>

FlushBegin(p) ==
    /\ pc[p] = "idle"
    /\ lock = Free
    /\ lock' = p
    /\ pc' = [pc EXCEPT ![p] = "merge"]
    /\ sec' = [sec EXCEPT ![p] = 1]
    /\ UNCHANGED <<disk, mem, shadow, edited, seen>>

FlushMerge(p) ==
    /\ pc[p] = "merge"
    /\ mem' = [mem EXCEPT ![p] =
                 Splice(sec[p], [k \in Keys |-> Merged(p, k)], mem[p])]
    /\ pc' = [pc EXCEPT ![p] = "write"]
    /\ UNCHANGED <<disk, shadow, lock, sec, edited, seen>>

\* os.replace puts the whole file in place at once.
FlushWrite(p) ==
    /\ pc[p] = "write"
    /\ disk' = Splice(sec[p], mem[p], disk)
    /\ seen' = [seen EXCEPT ![p] = Splice(sec[p], mem[p], @)]
    /\ edited' = [edited EXCEPT ![p] = {k \in @ : SectionOf[k] # sec[p]}]
    /\ pc' = [pc EXCEPT ![p] = "shadow"]
    /\ UNCHANGED <<mem, shadow, lock, sec>>

\* Defect: the loop over the files runs once too often.
FlushShadowTooFar(p) ==
    /\ pc[p] = "shadow"
    /\ shadow' = [shadow EXCEPT ![p] = Splice(sec[p], mem[p], @)]
    /\ IF sec[p] <= NumSections
       THEN /\ sec' = [sec EXCEPT ![p] = @ + 1]
            /\ pc' = [pc EXCEPT ![p] = "merge"]
            /\ UNCHANGED lock
       ELSE /\ lock' = Free
            /\ pc' = [pc EXCEPT ![p] = "idle"]
            /\ UNCHANGED sec
    /\ UNCHANGED <<disk, mem, edited, seen>>

FlushShadow(p) ==
    /\ pc[p] = "shadow"
    /\ shadow' = [shadow EXCEPT ![p] = Splice(sec[p], mem[p], @)]
    /\ IF sec[p] < NumSections
       THEN /\ sec' = [sec EXCEPT ![p] = @ + 1]
            /\ pc' = [pc EXCEPT ![p] = "merge"]
            /\ UNCHANGED lock
       ELSE /\ lock' = Free
            /\ pc' = [pc EXCEPT ![p] = "idle"]
            /\ UNCHANGED sec
    /\ UNCHANGED <<disk, mem, edited, seen>>

\* Defect: the shadow is taken although nothing reached the disk.
FlushFailsShadowed(p) ==
    /\ WriteErrors
    /\ pc[p] = "write"
    /\ shadow' = [shadow EXCEPT ![p] = Splice(sec[p], mem[p], @)]
    /\ lock' = Free
    /\ pc' = [pc EXCEPT ![p] = "idle"]
    /\ UNCHANGED <<disk, mem, sec, edited, seen>>

\* The write raised: the temporary file is removed, the lock file released,
\* and the merge that is already in memory stays there.
FlushFails(p) ==
    /\ WriteErrors
    /\ pc[p] = "write"
    /\ lock' = Free
    /\ pc' = [pc EXCEPT ![p] = "idle"]
    /\ UNCHANGED <<disk, mem, shadow, sec, edited, seen>>

\* Another process kept the lock file for five seconds: every file is written
\* from memory without a merge.  (One step: no property of the run that has
\* lock timeouts relates two files.)
FlushUnmerged(p) ==
    /\ LockTimeouts
    /\ pc[p] = "idle"
    /\ lock \notin {p, Free}
    /\ disk' = mem[p]
    /\ shadow' = [shadow EXCEPT ![p] = mem[p]]
    /\ seen' = [seen EXCEPT ![p] = mem[p]]
    /\ edited' = [edited EXCEPT ![p] = {}]
    /\ UNCHANGED <<mem, flushing>>

\* refresh() merges into memory and writes nothing; the new shadow is the
\* disk, so that what this process changed is still dirty.
Refresh(p) ==
    /\ pc[p] = "idle"
    /\ lock = Free
    /\ mem' = [mem EXCEPT ![p] = [k \in Keys |-> Merged(p, k)]]
    /\ shadow' = [shadow EXCEPT ![p] = disk]
    /\ seen' = [seen EXCEPT ![p] = disk]
    /\ UNCHANGED <<disk, flushing, edited>>

\* The process dies wherever it is, and loads the files when it starts again;
\* the operating system releases its lock.
Restart(p) ==
    /\ mem' = [mem EXCEPT ![p] = disk]
    /\ shadow' = [shadow EXCEPT ![p] = disk]
    /\ seen' = [seen EXCEPT ![p] = disk]
    /\ edited' = [edited EXCEPT ![p] = {}]
    /\ lock' = IF lock = p THEN Free ELSE lock
    /\ pc' = [pc EXCEPT ![p] = "idle"]
    /\ UNCHANGED <<disk, sec>>

-----------------------------------------------------------------------------
Next ==
    \E p \in Procs :
        \/ \E k \in Keys : Save(p, k) \/ Remove(p, k)
        \/ \E c \in Cases :
              Update(p, c) \/ MutateInPlace(p, c) \/ MarkRecovered(p, c)
        \/ FlushBegin(p) \/ FlushMerge(p) \/ FlushWrite(p) \/ FlushShadow(p)
        \/ FlushFails(p) \/ FlushUnmerged(p) \/ Refresh(p) \/ Restart(p)

Spec == Init /\ [][Next]_vars

-----------------------------------------------------------------------------
(* Properties                                                              *)

\* Money in the bank is a fact (state_store.py:247): a payment that is
\* recovered on disk stays recovered, whatever a process with an older copy,
\* a failed run or a restart writes, until the record is removed.
RecoveredIsAbsorbing ==
    [][\A c \in Cases : Recovered(disk[c])
                           => disk'[c] = Absent \/ Recovered(disk'[c])]_vars

\* A recovered payment that carries its capture fields on disk does not lose
\* them to a later write (state_store.py:156-159).
CaptureIsKept ==
    [][\A c \in Cases : Recovered(disk[c]) /\ disk[c].captured
                           => \/ disk'[c] = Absent
                              \/ disk'[c].captured]_vars

\* Only the keys a process changed override what is on disk
\* (state_store.py:11-13): whatever a flush changes in the files, the
\* flushing process itself edited.  A stale copy is never written back.
OnlyEditsAreWritten ==
    [][\A k \in Keys : disk'[k] # disk[k]
                          => \E p \in Procs : lock = p /\ k \in edited[p]]_vars

\* Even a record mutated in place is seen as changed (state_store.py:13-15):
\* between flushes, what differs from the disk as the process last saw it
\* differs from its shadow, so the next flush takes it for an edit.
EditsAreSeen ==
    \A p \in Procs, k \in Keys :
        pc[p] = "idle" /\ mem[p][k] # seen[p][k] => Dirty(p, k)

-----------------------------------------------------------------------------
(* Under its lock, between the merge of a file and its shadow, p sees the  *)
(* file itself; otherwise it sees what its shadow says.                    *)

InMerge(p, k) == pc[p] \in {"write", "shadow"} /\ SectionOf[k] = sec[p]

View(p, k) == IF InMerge(p, k) THEN disk[k] ELSE shadow[p][k]

(* The inductive invariant of a store whose flushes are not disturbed.     *)

FlushHoldsLock == \A p \in Procs : pc[p] # "idle" => lock = p

MergeHasAbsorbed ==
    \A p \in Procs, k \in Keys :
        pc[p] = "write" /\ InMerge(p, k)
            => Absorb(k, mem[p][k], disk[k]) = mem[p][k]

WrittenIsOnDisk ==
    \A p \in Procs, k \in Keys :
        pc[p] = "shadow" /\ InMerge(p, k) => mem[p][k] = disk[k]

PendingIsEdited ==
    \A p \in Procs, k \in Keys : mem[p][k] # View(p, k) => k \in edited[p]

\* Whatever step of whichever flush is under way, what a process is about to
\* write has absorbed the disk (LockInv), and the edits it has pending are
\* edits some thread of its own made (PendingIsEdited).
LockInv == FlushHoldsLock /\ MergeHasAbsorbed /\ WrittenIsOnDisk
StoreInv == LockInv /\ PendingIsEdited

-----------------------------------------------------------------------------
(* The promise                                                             *)

PendingEdits ==
    [p \in Procs |-> [k \in Keys |->
        IF mem[p][k] = View(p, k) THEN Unedited ELSE mem[p][k]]]

Ledger == INSTANCE EditLedger WITH ledger <- disk, edits <- PendingEdits

\* The store behaves as a ledger to which every process publishes only its
\* own pending edits, with recovered payments absorbing.
ImplementsLedger == Ledger!Spec
=============================================================================
