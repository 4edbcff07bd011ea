--------------------------- MODULE JobTableProofs ---------------------------
(***************************************************************************)
(* Proofs about the job table for any number of slots and any set of       *)
(* groups.  TypeOK and TableConsistent together are inductive: free_job    *)
(* trusts the index stored in the job, so the type of the table cannot be  *)
(* separated from IndexIsSlot, and add_job keeps NothingAboveTop only      *)
(* because nothing sits at next_job when it stores there.                  *)
(***************************************************************************)
EXTENDS JobTable, TLAPS

IInv == TypeOK /\ TableConsistent

\* A slot that holds a job is told apart from a NULL one.
LEMMA JobIsNotNull == NoJob \notin Job
BY TableAssumption DEF Job, Slots

\* The initial table is empty, typed and consistent.
LEMMA InitIInv == Init => IInv
<1> SUFFICES ASSUME Init PROVE IInv
  OBVIOUS
<1>1. MaxJobs \in Nat /\ 0 \in 0 .. MaxJobs + 1
  BY TableAssumption
<1>2. TypeOK
  BY <1>1 DEF Init, TypeOK
<1>3. TableConsistent
  BY TableAssumption
     DEF Init, TableConsistent, IndexIsSlot, NothingAboveTop,
         OneSlotPerGroup, TopWithinArray
<1> QED BY <1>2, <1>3 DEF IInv

\* Storing a new job at next_job keeps the table consistent: the slot was
\* free, and the group had none.
LEMMA AddKeepsIInv ==
  ASSUME IInv, NEW g \in Groups, NEW background \in BOOLEAN,
         add_job(g, background)
  PROVE  IInv'
<1> USE TableAssumption
    DEF IInv, TypeOK, TableConsistent, IndexIsSlot, NothingAboveTop,
        OneSlotPerGroup, TopWithinArray
<1>1. CASE next_job \in Slots
  <2> DEFINE new == [pgid |-> g, status |-> 1, bg |-> background,
                     index |-> next_job]
  <2>1. /\ job_table' = [job_table EXCEPT ![next_job] = new]
        /\ next_job' = next_job + 1
        /\ UNCHANGED <<overrun, ordered>>
    BY <1>1 DEF add_job
  <2>2. new \in Job
    BY <1>1 DEF Job
  <2>3. new # NoJob
    BY <2>2, JobIsNotNull
  <2>4. \A i \in Slots : job_table[i] # NoJob => job_table[i].pgid # g
    BY DEF add_job, Listed, Holds, Used, InUse
  <2>5. TypeOK' /\ TopWithinArray'
    BY <1>1, <2>1, <2>2 DEF Slots
  <2>6. IndexIsSlot' /\ NothingAboveTop'
    BY <1>1, <2>1, <2>3 DEF Slots
  <2>7. OneSlotPerGroup'
    BY <1>1, <2>1, <2>3, <2>4
  <2> QED BY <2>5, <2>6, <2>7
<1>2. CASE next_job \notin Slots
  <2>1. /\ job_table' = job_table
        /\ next_job' = next_job + 1
        /\ overrun' = TRUE
        /\ ordered' = ordered
    BY <1>2 DEF add_job
  <2>2. next_job = MaxJobs
    BY <1>2 DEF add_job, Slots
  <2>3. TypeOK' /\ TopWithinArray'
    BY <2>1, <2>2
  <2>4. IndexIsSlot' /\ NothingAboveTop' /\ OneSlotPerGroup'
    BY <2>1, <2>2 DEF Slots
  <2> QED BY <2>3, <2>4
<1> QED BY <1>1, <1>2

\* Clearing a job's slot, and lowering next_job when the job was on top,
\* leaves every other job below next_job.
LEMMA FreeKeepsIInv ==
  ASSUME IInv, NEW i \in Slots, InUse(i), ~overrun, free_job(i)
  PROVE  IInv'
<1> USE TableAssumption
    DEF IInv, TypeOK, TableConsistent, IndexIsSlot, NothingAboveTop,
        OneSlotPerGroup, TopWithinArray
<1>1. job_table[i].index = i /\ i < next_job
  BY DEF InUse
<1>2. job_table' = [job_table EXCEPT ![i] = NoJob]
  BY <1>1 DEF free_job
<1>3. next_job' = IF next_job - 1 = i THEN next_job - 1 ELSE next_job
  BY <1>1 DEF free_job
<1>4. ordered' \in BOOLEAN /\ overrun' = overrun
  BY DEF free_job
<1>5. TypeOK' /\ TopWithinArray'
  BY <1>1, <1>2, <1>3, <1>4 DEF Slots
<1>6. IndexIsSlot' /\ NothingAboveTop' /\ OneSlotPerGroup'
  BY <1>1, <1>2, <1>3 DEF Slots
<1> QED BY <1>5, <1>6

\* Changing the status or the background flag of one job keeps its group and
\* its index, and so everything else.
LEMMA UpdateKeepsIInv ==
  ASSUME IInv, NEW i \in Slots, job_table[i] # NoJob,
         NEW status \in {0, 1}, NEW bg \in BOOLEAN,
         job_table' = [job_table EXCEPT
                         ![i] = [@ EXCEPT !.status = status, !.bg = bg]],
         UNCHANGED <<next_job, overrun, ordered>>
  PROVE  IInv'
<1> USE TableAssumption
    DEF IInv, TypeOK, TableConsistent, IndexIsSlot, NothingAboveTop,
        OneSlotPerGroup, TopWithinArray
<1> DEFINE new == [job_table[i] EXCEPT !.status = status, !.bg = bg]
<1>1. job_table[i] \in Job
  OBVIOUS
<1>2. /\ new \in Job
      /\ new.pgid = job_table[i].pgid
      /\ new.index = job_table[i].index
  BY <1>1 DEF Job
<1>3. new # NoJob
  BY <1>2, JobIsNotNull
<1>4. job_table' = [job_table EXCEPT ![i] = new]
  OBVIOUS
<1> HIDE DEF new
<1>5. TypeOK' /\ TopWithinArray'
  BY <1>2, <1>4
<1>6. IndexIsSlot' /\ NothingAboveTop' /\ OneSlotPerGroup'
  BY <1>2, <1>3, <1>4
<1> QED BY <1>5, <1>6

\* A change of the status alone is one of those.
LEMMA StatusKeepsIInv ==
  ASSUME IInv, NEW i \in Slots, job_table[i] # NoJob,
         NEW status \in {0, 1},
         job_table' = [job_table EXCEPT ![i].status = status],
         UNCHANGED <<next_job, overrun, ordered>>
  PROVE  IInv'
<1>1. job_table[i] \in Job
  BY DEF IInv, TypeOK
<1>2. /\ job_table[i].bg \in BOOLEAN
      /\ job_table' = [job_table EXCEPT
            ![i] = [@ EXCEPT !.status = status, !.bg = job_table[i].bg]]
  BY <1>1 DEF Job
<1> QED BY <1>2, UpdateKeepsIInv

\* No operation of job.c leaves the table inconsistent.
LEMMA NextKeepsIInv == IInv /\ [Next]_tableVars => IInv'
<1> SUFFICES ASSUME IInv, [Next]_tableVars PROVE IInv'
  OBVIOUS
<1>1. ASSUME NEW g \in Groups, NEW background \in BOOLEAN,
             add_job(g, background)
      PROVE  IInv'
  BY <1>1, AddKeepsIInv
<1>2. ASSUME NEW g \in Groups, NEW status \in WaitStatuses,
             update_status(g, status)
      PROVE  IInv'
  <2>1. ~overrun
    BY <1>2 DEF update_status
  <2>2. CASE UNCHANGED tableVars
    BY <2>2 DEF tableVars, IInv, TypeOK, TableConsistent, IndexIsSlot,
                NothingAboveTop, OneSlotPerGroup, TopWithinArray
  <2>3. ASSUME NEW i \in Slots, get_job(g, i), free_job(i)
        PROVE  IInv'
    BY <2>1, <2>3, FreeKeepsIInv DEF get_job, Holds, Used
  <2>4. CASE job_exited(g)
    BY <2>2, <2>3, <2>4 DEF job_exited
  <2>5. CASE job_stopped(g)
    <3>1. ASSUME NEW i \in Slots, get_job(g, i),
                 job_table' = [job_table EXCEPT ![i].status = 0,
                                                ![i].bg = TRUE],
                 UNCHANGED <<next_job, overrun, ordered>>
          PROVE  IInv'
      <4>1. job_table[i] # NoJob
        BY <3>1 DEF get_job, Holds, Used, InUse
      <4>2. job_table' = [job_table EXCEPT
                            ![i] = [@ EXCEPT !.status = 0, !.bg = TRUE]]
        BY <3>1 DEF IInv, TypeOK, Job
      <4> QED BY <3>1, <4>1, <4>2, UpdateKeepsIInv
    <3> QED BY <2>2, <2>5, <3>1 DEF job_stopped, tableVars
  <2>6. CASE job_cont(g)
    <3>1. ASSUME NEW i \in Slots, get_job(g, i),
                 job_table' = [job_table EXCEPT ![i].status = 1],
                 UNCHANGED <<next_job, overrun, ordered>>
          PROVE  IInv'
      BY <3>1, StatusKeepsIInv DEF get_job, Holds, Used, InUse
    <3> QED BY <2>2, <2>6, <3>1 DEF job_cont, set_job, tableVars
  <2> QED BY <1>2, <2>2, <2>4, <2>5, <2>6 DEF update_status
<1>3. ASSUME NEW i \in Slots, fg_job(i)
      PROVE  IInv'
  <2>1. job_table[i] # NoJob
    BY <1>3 DEF fg_job, LastOf, Resumable, Used, InUse
  <2>2. /\ job_table[i].status \in {0, 1}
        /\ job_table' = [job_table EXCEPT
              ![i] = [@ EXCEPT !.status = job_table[i].status, !.bg = FALSE]]
    BY <1>3, <2>1 DEF fg_job, IInv, TypeOK, Job
  <2> QED BY <1>3, <2>1, <2>2, UpdateKeepsIInv DEF fg_job
<1>4. ASSUME NEW i \in Slots, bg_job(i)
      PROVE  IInv'
  BY <1>4, StatusKeepsIInv
     DEF bg_job, LastOf, Suspended, Used, InUse
<1>5. CASE UNCHANGED tableVars
  BY <1>5 DEF tableVars, IInv, TypeOK, TableConsistent, IndexIsSlot,
              NothingAboveTop, OneSlotPerGroup, TopWithinArray
<1> QED BY <1>1, <1>2, <1>3, <1>4, <1>5 DEF Next

\* The table is typed and consistent in every reachable state: the four facts
\* job.c relies on without testing them.
THEOREM TypeCorrect == Spec => []TypeOK
<1>1. Spec => []IInv
  BY InitIInv, NextKeepsIInv, PTL DEF Spec
<1>2. IInv => TypeOK
  BY DEF IInv
<1> QED BY <1>1, <1>2, PTL

\* free_job clears the slot of the job it was given, no job lies above
\* next_job, a group has one slot, and only the overrun passes the array.
THEOREM AlwaysConsistent == Spec => []TableConsistent
<1>1. Spec => []IInv
  BY InitIInv, NextKeepsIInv, PTL DEF Spec
<1>2. IInv => TableConsistent
  BY DEF IInv
<1> QED BY <1>1, <1>2, PTL

\* A free_job that was given the top job leaves no hole, and add_job fills the
\* slot right above the others.
LEMMA NextKeepsCompact ==
  IInv /\ CompactWhileOrdered /\ [Next]_tableVars => CompactWhileOrdered'
<1> SUFFICES ASSUME IInv, CompactWhileOrdered, [Next]_tableVars, ordered',
                    NEW i \in Slots, i < next_job'
             PROVE  job_table'[i] # NoJob
  BY DEF CompactWhileOrdered
<1> USE DEF IInv, TypeOK
<1> next_job \in Nat /\ Slots \subseteq Nat
  BY TableAssumption DEF Slots
<1>1. ASSUME NEW g \in Groups, NEW background \in BOOLEAN,
             add_job(g, background)
      PROVE  job_table'[i] # NoJob
  <2> DEFINE new == [pgid |-> g, status |-> 1, bg |-> background,
                     index |-> next_job]
  <2>1. CASE next_job \in Slots
    <3>1. new # NoJob
      BY <2>1, JobIsNotNull DEF Job
    <3>2. job_table' = [job_table EXCEPT ![next_job] = new]
          /\ next_job' = next_job + 1 /\ ordered
      BY <1>1, <2>1 DEF add_job
    <3> HIDE DEF new
    <3> QED BY <3>1, <3>2 DEF CompactWhileOrdered
  <2>2. CASE next_job \notin Slots
    <3>1. i < next_job
      BY <2>2, TableAssumption DEF Slots
    <3>2. UNCHANGED <<job_table, ordered>>
      BY <1>1, <2>2 DEF add_job
    <3> QED BY <3>1, <3>2 DEF CompactWhileOrdered
  <2> QED BY <2>1, <2>2
<1>2. ASSUME UNCHANGED <<next_job, ordered>>,
             \A k \in Slots : job_table[k] # NoJob => job_table'[k] # NoJob
      PROVE  job_table'[i] # NoJob
  BY <1>2 DEF CompactWhileOrdered
<1>3. ASSUME NEW k \in Slots, InUse(k), free_job(k)
      PROVE  job_table'[i] # NoJob
  <2>1. job_table[k].index = k
    BY <1>3 DEF InUse, TableConsistent, IndexIsSlot
  <2>2. /\ ordered /\ next_job - 1 = k /\ next_job' = k
        /\ job_table' = [job_table EXCEPT ![k] = NoJob]
    BY <1>3, <2>1 DEF free_job
  <2> QED BY <2>2 DEF CompactWhileOrdered
<1>4. ASSUME NEW k \in Slots, job_table[k] # NoJob, NEW new \in Job,
             job_table' = [job_table EXCEPT ![k] = new],
             UNCHANGED <<next_job, ordered>>
      PROVE  job_table'[i] # NoJob
  BY <1>2, <1>4, JobIsNotNull
<1>5. ASSUME NEW k \in Slots, job_table[k] # NoJob, NEW status \in {0, 1},
             \/ job_table' = [job_table EXCEPT ![k].status = status]
             \/ job_table' = [job_table EXCEPT ![k].bg = FALSE]
             \/ job_table' = [job_table EXCEPT ![k].status = status,
                                               ![k].bg = TRUE],
             UNCHANGED <<next_job, ordered>>
      PROVE  job_table'[i] # NoJob
  <2> DEFINE job == job_table[k]
  <2>1. job \in Job
    BY <1>5
  <2>2. /\ [job EXCEPT !.status = status] \in Job
        /\ [job EXCEPT !.bg = FALSE] \in Job
        /\ [job EXCEPT !.status = status, !.bg = TRUE] \in Job
    <3> HIDE DEF job
    <3> QED BY <1>5, <2>1 DEF Job
  <2>3. \/ job_table' = [job_table EXCEPT ![k] = [job EXCEPT !.status = status]]
        \/ job_table' = [job_table EXCEPT ![k] = [job EXCEPT !.bg = FALSE]]
        \/ job_table' = [job_table EXCEPT
                            ![k] = [job EXCEPT !.status = status, !.bg = TRUE]]
    BY <1>5, <2>1
  <2> QED BY <1>4, <1>5, <2>2, <2>3
<1>6. ASSUME NEW g \in Groups, NEW status \in WaitStatuses,
             update_status(g, status)
      PROVE  job_table'[i] # NoJob
  <2>1. CASE job_exited(g)
    BY <1>2, <1>3, <2>1 DEF job_exited, get_job, Holds, Used, tableVars
  <2>2. CASE job_stopped(g)
    <3>1. ASSUME NEW k \in Slots, get_job(g, k),
                 job_table' = [job_table EXCEPT ![k].status = 0,
                                                ![k].bg = TRUE],
                 UNCHANGED <<next_job, ordered>>
          PROVE  job_table'[i] # NoJob
      BY <1>5, <3>1 DEF get_job, Holds, Used, InUse
    <3> QED BY <1>2, <2>2, <3>1 DEF job_stopped
  <2>3. CASE job_cont(g)
    <3>1. ASSUME NEW k \in Slots, get_job(g, k),
                 job_table' = [job_table EXCEPT ![k].status = 1],
                 UNCHANGED <<next_job, ordered>>
          PROVE  job_table'[i] # NoJob
      BY <1>5, <3>1 DEF get_job, Holds, Used, InUse
    <3> QED BY <1>2, <2>3, <3>1 DEF job_cont, set_job
  <2> QED BY <1>2, <1>6, <2>1, <2>2, <2>3 DEF update_status, tableVars
<1>7. ASSUME NEW k \in Slots, fg_job(k) \/ bg_job(k)
      PROVE  job_table'[i] # NoJob
  BY <1>5, <1>7
     DEF fg_job, bg_job, LastOf, Resumable, Suspended, Used, InUse
<1> QED BY <1>1, <1>2, <1>6, <1>7 DEF Next, tableVars

\* While jobs have ended in the reverse order of their start every slot below
\* next_job holds a job, so only MAXJOBS live jobs can overrun the array.
THEOREM CompactIfOrdered == Spec => []CompactWhileOrdered
<1>1. Init => CompactWhileOrdered
  BY TableAssumption DEF Init, CompactWhileOrdered, Slots
<1> QED BY <1>1, InitIInv, NextKeepsIInv, NextKeepsCompact, PTL DEF Spec
-----------------------------------------------------------------------------
KeepsJob(i) ==
  job_table[i] # NoJob /\ job_table'[i] # NoJob
    => job_table'[i].pgid = job_table[i].pgid

\* add_job writes where NothingAboveTop says there is no job; free_job leaves
\* NULL behind; every other operation changes status and bg alone.
LEMMA NextKeepsJobs ==
  ASSUME IInv, [Next]_tableVars, NEW i \in Slots
  PROVE  KeepsJob(i)
<1> USE DEF KeepsJob, IInv, TypeOK
<1> next_job \in Nat /\ Slots \subseteq Nat
  BY TableAssumption DEF Slots
<1>1. ASSUME NEW g \in Groups, NEW background \in BOOLEAN,
             add_job(g, background)
      PROVE  KeepsJob(i)
  <2>1. job_table[i] # NoJob => i # next_job
    BY DEF TableConsistent, NothingAboveTop
  <2>2. job_table[i] # NoJob => job_table'[i] = job_table[i]
    BY <1>1, <2>1 DEF add_job
  <2> QED BY <2>2
<1>2. CASE UNCHANGED job_table
  BY <1>2
<1>3. ASSUME NEW k \in Slots, InUse(k), free_job(k)
      PROVE  KeepsJob(i)
  BY <1>3 DEF free_job, InUse, TableConsistent, IndexIsSlot
<1>4. ASSUME NEW k \in Slots, job_table[k] # NoJob, NEW status \in {0, 1},
             \/ job_table' = [job_table EXCEPT ![k].status = status]
             \/ job_table' = [job_table EXCEPT ![k].bg = FALSE]
             \/ job_table' = [job_table EXCEPT ![k].status = status,
                                               ![k].bg = TRUE]
      PROVE  KeepsJob(i)
  <2>1. job_table[k] \in Job
    BY <1>4
  <2> QED BY <1>4, <2>1 DEF Job
<1>5. ASSUME NEW g \in Groups, NEW status \in WaitStatuses,
             update_status(g, status)
      PROVE  KeepsJob(i)
  <2>1. CASE job_exited(g)
    BY <1>2, <1>3, <2>1 DEF job_exited, get_job, Holds, Used, tableVars
  <2>2. CASE job_stopped(g)
    BY <1>2, <1>4, <2>2 DEF job_stopped, get_job, Holds, Used, InUse
  <2>3. CASE job_cont(g)
    BY <1>2, <1>4, <2>3 DEF job_cont, set_job, get_job, Holds, Used, InUse
  <2> QED BY <1>2, <1>5, <2>1, <2>2, <2>3 DEF update_status, tableVars
<1>6. ASSUME NEW k \in Slots, fg_job(k) \/ bg_job(k)
      PROVE  KeepsJob(i)
  BY <1>4, <1>6
     DEF fg_job, bg_job, LastOf, Resumable, Suspended, Used, InUse
<1> QED BY <1>1, <1>2, <1>5, <1>6 DEF Next, tableVars

\* The number under which a job is shown stays its own until it is freed.
THEOREM SlotsKeepTheirJob == Spec => SlotNeverReassigned
<1>1. IInv /\ [Next]_tableVars
        => [\A i \in Slots :
              job_table[i] # NoJob /\ job_table'[i] # NoJob
                => job_table'[i].pgid = job_table[i].pgid]_tableVars
  BY NextKeepsJobs DEF KeepsJob
<1> QED BY <1>1, InitIInv, NextKeepsIInv, PTL DEF Spec, SlotNeverReassigned

-----------------------------------------------------------------------------
(* The table implements the ledger: every operation of job.c is a step of  *)
(* the ledger, or leaves it as it is.  The mapping reads the order of      *)
(* start off the order of the slots, so what carries the proof is that a   *)
(* group has one slot and that no job sits at or above next_job.           *)

StatusName(i) == IF job_table[i].status = 0 THEN "stopped" ELSE "running"

\* A group is held by one slot at most, so the CHOOSE of SlotOf has no choice.
LEMMA HeldOnce ==
  IInv => \A g \in Groups : \A i, k \in Slots :
            Holds(i, g) /\ Holds(k, g) => i = k
BY DEF IInv, TableConsistent, OneSlotPerGroup, Holds, Used, InUse

\* What the ledger shows of a group: nothing when it is not listed, the status
\* in its slot when it is.
LedgerShows ==
  \A g \in Groups :
    /\ LedgerState[g] = "none" <=> ~Listed(g)
    /\ \A i \in Slots : Holds(i, g) => LedgerState[g] = StatusName(i)

\* That is what RecordedState reads, since a group is held once.
LEMMA LedgerReads == IInv => LedgerShows
<1> SUFFICES ASSUME IInv, NEW g \in Groups
             PROVE  /\ LedgerState[g] = "none" <=> ~Listed(g)
                    /\ \A i \in Slots :
                         Holds(i, g) => LedgerState[g] = StatusName(i)
  BY DEF LedgerShows
<1>1. LedgerState[g] = RecordedState(g)
  BY DEF LedgerState
<1>2. ASSUME NEW i \in Slots, Holds(i, g)
      PROVE  RecordedState(g) = StatusName(i)
  <2>1. Listed(g)
    BY <1>2 DEF Listed
  <2>2. SlotOf(g) \in Slots /\ Holds(SlotOf(g), g)
    BY <1>2 DEF SlotOf
  <2>3. SlotOf(g) = i
    BY <1>2, <2>2, HeldOnce
  <2> QED BY <2>1, <2>3 DEF RecordedState, StatusName
<1>3. Listed(g) => RecordedState(g) # "none"
  BY <1>2 DEF Listed, StatusName
<1>4. ~Listed(g) => RecordedState(g) = "none"
  BY DEF RecordedState
<1> QED BY <1>1, <1>2, <1>3, <1>4

\* The same holds in the state after a step that keeps the invariant.
LEMMA LedgerReadsAfter == IInv' => LedgerShows'
BY LedgerReads, PTL

\* The jobs of the ledger are the groups that have a slot.
LEMMA LedgerJobs == IInv => Ledger!Jobs = {g \in Groups : Listed(g)}
BY LedgerReads DEF Ledger!Jobs, LedgerShows

\* Two tables that hold the same groups and statuses, group by group, show the
\* same of each group that a step did not touch.
LEMMA UntouchedShown ==
  ASSUME IInv, IInv', NEW h \in Groups,
         \A i \in Slots : Holds(i, h)' <=> Holds(i, h),
         \A i \in Slots : Holds(i, h) =>
            job_table'[i].status = job_table[i].status
  PROVE  LedgerState'[h] = LedgerState[h]
<1>1. CASE Listed(h)
  <2>1. PICK i \in Slots : Holds(i, h)
    BY <1>1 DEF Listed
  <2>2. Holds(i, h)' /\ StatusName(i)' = StatusName(i)
    BY <2>1 DEF StatusName
  <2> QED BY <2>1, <2>2, LedgerReads, LedgerReadsAfter DEF LedgerShows
<1>2. CASE ~Listed(h)
  <2>1. ~Listed(h)'
    BY <1>2 DEF Listed
  <2> QED BY <1>2, <2>1, LedgerReads, LedgerReadsAfter DEF LedgerShows
<1> QED BY <1>1, <1>2

\* A step that keeps every slot below next_job as it is keeps the ledger.
LEMMA SameSlotsSameLedger ==
  ASSUME IInv, IInv', UNCHANGED job_table,
         \A i \in Slots : i < next_job' <=> i < next_job
  PROVE  UNCHANGED <<LedgerState, LedgerBack, LedgerOlder>>
<1>1. \A i \in Slots, h \in Groups : Holds(i, h)' <=> Holds(i, h)
  BY DEF Holds, Used, InUse
<1>2. \A h \in Groups : LedgerState'[h] = LedgerState[h]
  BY <1>1, UntouchedShown
<1>3. LedgerState' = LedgerState
  BY <1>2 DEF LedgerState
<1>4. LedgerBack' = LedgerBack
  BY <1>1 DEF LedgerBack
<1>5. LedgerOlder' = LedgerOlder
  BY <1>1 DEF LedgerOlder
<1> QED BY <1>3, <1>4, <1>5

-----------------------------------------------------------------------------
(* The operations, one by one.                                             *)

\* A job stored at next_job lies above all others: it is the youngest.
LEMMA AddIsStart ==
  ASSUME IInv, NEW g \in Groups, NEW background \in BOOLEAN,
         add_job(g, background), next_job \in Slots
  PROVE  Ledger!Start(g, background)
<1> PICK top \in Slots : top = next_job
  OBVIOUS
<1> DEFINE new == [pgid |-> g, status |-> 1, bg |-> background, index |-> top]
<1>0. IInv'
  BY AddKeepsIInv
<1>1. /\ job_table' = [job_table EXCEPT ![top] = new]
      /\ next_job' = top + 1
  BY DEF add_job
<1>2. ~Listed(g)
  BY DEF add_job
<1>3. new \in Job /\ new # NoJob
  BY JobIsNotNull DEF Job
<1>4. job_table'[top] = new
  BY <1>1 DEF IInv, TypeOK
<1>5. \A i \in Slots \ {top} : job_table'[i] = job_table[i]
  BY <1>1 DEF IInv, TypeOK
<1>6. \A i \in Slots, h \in Groups :
        Holds(i, h)' <=> Holds(i, h) \/ (i = top /\ h = g)
  BY <1>1, <1>3, <1>4, <1>5, TableAssumption
     DEF Holds, Used, InUse, IInv, TableConsistent, NothingAboveTop, Slots
<1>7. \A i \in Slots, h \in Groups :
        Holds(i, h) => i < top /\ i # top /\ h # g
  BY <1>2 DEF Holds, Used, InUse, Listed, Slots
<1>8. job_table'[top].bg = background /\ job_table'[top].status = 1
  BY <1>4
<1> HIDE DEF new
<1>9. LedgerState' = [LedgerState EXCEPT ![g] = "running"]
  <2>1. ASSUME NEW h \in Groups \ {g} PROVE LedgerState'[h] = LedgerState[h]
    <3>1. \A i \in Slots : Holds(i, h)' <=> Holds(i, h)
      BY <1>6
    <3>2. \A i \in Slots :
            Holds(i, h) => job_table'[i].status = job_table[i].status
      BY <1>5, <1>7
    <3> QED BY <1>0, <3>1, <3>2, UntouchedShown
  <2>2. LedgerState'[g] = "running"
    <3>1. Holds(top, g)' /\ StatusName(top)' = "running"
      BY <1>6, <1>8 DEF StatusName
    <3> QED BY <1>0, <3>1, LedgerReadsAfter DEF LedgerShows
  <2> QED BY <2>1, <2>2 DEF LedgerState
<1>10. LedgerBack' = IF background THEN LedgerBack \cup {g} ELSE LedgerBack
  BY <1>5, <1>6, <1>7, <1>8 DEF LedgerBack
<1>11. LedgerOlder' = LedgerOlder \cup (Ledger!Jobs \X {g})
  BY <1>6, <1>7, LedgerJobs DEF LedgerOlder, Listed, Slots
<1> QED BY <1>2, <1>9, <1>10, <1>11, LedgerJobs DEF Ledger!Start

\* The job that overruns the array is seen by no loop of job.c.
LEMMA OverrunIsStutter ==
  ASSUME IInv, NEW g \in Groups, NEW background \in BOOLEAN,
         add_job(g, background), next_job \notin Slots
  PROVE  UNCHANGED <<LedgerState, LedgerBack, LedgerOlder>>
<1>1. IInv'
  BY AddKeepsIInv
<1>2. UNCHANGED job_table /\ next_job' = next_job + 1
  BY DEF add_job
<1>3. next_job \in Nat /\ next_job >= MaxJobs
  BY TableAssumption DEF IInv, TypeOK, Slots
<1> QED BY <1>1, <1>2, <1>3, TableAssumption, SameSlotsSameLedger DEF Slots

\* Freeing a job takes it out of the ledger and moves no other.
LEMMA FreeIsFinish ==
  ASSUME IInv, NEW g \in Groups, NEW k \in Slots, Holds(k, g), ~overrun,
         free_job(k)
  PROVE  Ledger!Finish(g)
<1>1. IInv' /\ InUse(k)
  BY FreeKeepsIInv DEF Holds, Used
<1>2. job_table[k].index = k
  BY <1>1 DEF InUse, IInv, TableConsistent, IndexIsSlot
<1>3. /\ job_table' = [job_table EXCEPT ![k] = NoJob]
      /\ next_job' = IF next_job - 1 = k THEN next_job - 1 ELSE next_job
  BY <1>2 DEF free_job
<1>4. \A i \in Slots \ {k} : job_table'[i] = job_table[i]
  BY <1>3 DEF IInv, TypeOK
<1>5. \A i \in Slots, h \in Groups : Holds(i, h)' <=> Holds(i, h) /\ i # k
  BY <1>3 DEF Holds, Used, InUse, IInv, TypeOK, Slots
<1>6. \A i \in Slots, h \in Groups : Holds(i, h) => (i = k <=> h = g)
  BY HeldOnce DEF Holds
<1>7. Listed(g) /\ ~Listed(g)'
  BY <1>5, <1>6 DEF Listed
<1>8. LedgerState' = [LedgerState EXCEPT ![g] = "none"]
  <2>1. \A h \in Groups \ {g} : LedgerState'[h] = LedgerState[h]
    BY <1>1, <1>4, <1>5, <1>6, UntouchedShown
  <2>2. LedgerState'[g] = "none"
    BY <1>1, <1>7, LedgerReadsAfter DEF LedgerShows
  <2> QED BY <2>1, <2>2 DEF LedgerState
<1>9. LedgerBack' = LedgerBack \ {g}
  BY <1>4, <1>5, <1>6 DEF LedgerBack
<1>10. LedgerOlder' = {pair \in LedgerOlder : pair[1] # g /\ pair[2] # g}
  BY <1>5, <1>6 DEF LedgerOlder
<1> QED BY <1>7, <1>8, <1>9, <1>10, LedgerJobs DEF Ledger!Finish

\* A change of one job's status and background flag is seen in that job alone,
\* and the order of start stays.
LEMMA UpdateInLedger ==
  ASSUME IInv, NEW g \in Groups, NEW k \in Slots, Holds(k, g),
         NEW status \in {0, 1}, NEW bg \in BOOLEAN,
         job_table' = [job_table EXCEPT
                         ![k] = [@ EXCEPT !.status = status, !.bg = bg]],
         UNCHANGED <<next_job, overrun, ordered>>
  PROVE  /\ LedgerState' = [LedgerState EXCEPT
                ![g] = IF status = 0 THEN "stopped" ELSE "running"]
         /\ LedgerBack' = IF bg THEN LedgerBack \cup {g} ELSE LedgerBack \ {g}
         /\ LedgerOlder' = LedgerOlder
<1>1. job_table[k] \in Job /\ job_table[k] # NoJob /\ k < next_job
  BY JobIsNotNull DEF Holds, Used, InUse, IInv, TypeOK
<1>2. IInv'
  BY <1>1, UpdateKeepsIInv
<1>3. /\ job_table'[k].pgid = job_table[k].pgid
      /\ job_table'[k].status = status /\ job_table'[k].bg = bg
      /\ job_table'[k] \in Job
  BY <1>1 DEF Job, IInv, TypeOK
<1>4. \A i \in Slots \ {k} : job_table'[i] = job_table[i]
  BY DEF IInv, TypeOK
<1>5. \A i \in Slots, h \in Groups : Holds(i, h)' <=> Holds(i, h)
  BY <1>1, <1>3, <1>4, JobIsNotNull DEF Holds, Used, InUse
<1>6. \A i \in Slots, h \in Groups : Holds(i, h) => (i = k <=> h = g)
  BY HeldOnce DEF Holds
<1>7. LedgerState' = [LedgerState EXCEPT
          ![g] = IF status = 0 THEN "stopped" ELSE "running"]
  <2>1. ASSUME NEW h \in Groups \ {g} PROVE LedgerState'[h] = LedgerState[h]
    <3>1. \A i \in Slots :
            Holds(i, h) => job_table'[i].status = job_table[i].status
      BY <1>4, <1>6
    <3> QED BY <1>2, <1>5, <3>1, UntouchedShown
  <2>2. LedgerState'[g] = IF status = 0 THEN "stopped" ELSE "running"
    <3>1. Holds(k, g)'
      BY <1>5
    <3>2. StatusName(k)' = IF status = 0 THEN "stopped" ELSE "running"
      BY <1>3 DEF StatusName
    <3> QED BY <1>2, <3>1, <3>2, LedgerReadsAfter DEF LedgerShows
  <2> QED BY <2>1, <2>2 DEF LedgerState
<1>8. LedgerBack' = IF bg THEN LedgerBack \cup {g} ELSE LedgerBack \ {g}
  BY <1>3, <1>4, <1>5, <1>6 DEF LedgerBack
<1>9. LedgerOlder' = LedgerOlder
  BY <1>5 DEF LedgerOlder
<1> QED BY <1>7, <1>8, <1>9

\* A continued job runs, and stays in the background or in the foreground.
LEMMA ContinueInLedger ==
  ASSUME IInv, NEW g \in Groups, NEW k \in Slots, Holds(k, g),
         job_table' = [job_table EXCEPT ![k].status = 1],
         UNCHANGED <<next_job, overrun, ordered>>
  PROVE  /\ LedgerState' = [LedgerState EXCEPT ![g] = "running"]
         /\ UNCHANGED <<LedgerBack, LedgerOlder>>
<1>1. job_table[k] \in Job
  BY DEF Holds, Used, InUse, IInv, TypeOK
<1>2. PICK status \in {0, 1}, bg \in BOOLEAN :
        /\ status = 1 /\ bg = job_table[k].bg
        /\ job_table' = [job_table EXCEPT
              ![k] = [@ EXCEPT !.status = status, !.bg = bg]]
  BY <1>1 DEF Job
<1>3. /\ LedgerState' = [LedgerState EXCEPT
            ![g] = IF status = 0 THEN "stopped" ELSE "running"]
      /\ LedgerBack' = IF bg THEN LedgerBack \cup {g} ELSE LedgerBack \ {g}
      /\ LedgerOlder' = LedgerOlder
  BY <1>2, UpdateInLedger
<1>4. g \in LedgerBack <=> bg
  BY <1>2, HeldOnce DEF LedgerBack
<1> QED BY <1>2, <1>3, <1>4

\* A job that a wait returned is a listed one, so what update_status does to it
\* is one of the ledger's steps; for any other group it does nothing.
LEMMA StatusInLedger ==
  ASSUME IInv, IInv', NEW g \in Groups, NEW status \in WaitStatuses,
         update_status(g, status)
  PROVE  \/ Ledger!Finish(g) \/ Ledger!Stop(g) \/ Ledger!Continue(g)
         \/ UNCHANGED <<LedgerState, LedgerBack, LedgerOlder>>
<1>1. CASE UNCHANGED <<job_table, next_job>>
  BY <1>1, SameSlotsSameLedger
<1>2. CASE job_exited(g)
  BY <1>1, <1>2, FreeIsFinish DEF job_exited, get_job, update_status, tableVars
<1>3. CASE job_stopped(g)
  <2>1. ASSUME NEW k \in Slots, get_job(g, k),
               job_table' = [job_table EXCEPT ![k].status = 0, ![k].bg = TRUE],
               UNCHANGED <<next_job, overrun, ordered>>
        PROVE  Ledger!Stop(g)
    <3>1. Holds(k, g) /\ Listed(g)
      BY <2>1 DEF get_job, Listed
    <3>2. job_table' = [job_table EXCEPT
                          ![k] = [@ EXCEPT !.status = 0, !.bg = TRUE]]
      BY <2>1 DEF IInv, TypeOK, Job
    <3> QED BY <2>1, <3>1, <3>2, UpdateInLedger, LedgerJobs DEF Ledger!Stop
  <2> QED BY <1>1, <1>3, <2>1 DEF job_stopped
<1>4. CASE job_cont(g)
  <2>1. ASSUME NEW k \in Slots, get_job(g, k),
               job_table' = [job_table EXCEPT ![k].status = 1],
               UNCHANGED <<next_job, overrun, ordered>>
        PROVE  Ledger!Continue(g)
    <3>1. Holds(k, g) /\ Listed(g)
      BY <2>1 DEF get_job, Listed
    <3> QED BY <2>1, <3>1, ContinueInLedger, LedgerJobs DEF Ledger!Continue
  <2> QED BY <1>1, <1>4, <2>1 DEF job_cont, set_job
<1> QED BY <1>1, <1>2, <1>3, <1>4 DEF update_status, tableVars

\* The last slot of a scan holds the youngest of the jobs it passes over.
LEMMA LastIsYoungest ==
  ASSUME IInv, NEW S \in SUBSET Used, NEW i \in Slots, LastOf(S, i)
  PROVE  /\ job_table[i].pgid \in Groups /\ Holds(i, job_table[i].pgid)
         /\ job_table[i].pgid \in
              Ledger!Youngest({h \in Groups : \E k \in S : Holds(k, h)})
<1>1. i \in S /\ \A k \in S : k <= i
  BY DEF LastOf
<1>2. job_table[i].pgid \in Groups /\ Holds(i, job_table[i].pgid)
  BY <1>1 DEF Used, InUse, IInv, TypeOK, Job, Holds
<1>3. ASSUME NEW h \in Groups, h # job_table[i].pgid,
             NEW k \in S, Holds(k, h)
      PROVE  <<h, job_table[i].pgid>> \in LedgerOlder
  <2>1. k \in Slots /\ k # i
    BY <1>3 DEF Used, Holds
  <2>2. k < i
    BY <1>1, <2>1 DEF Slots
  <2> QED BY <1>2, <1>3, <2>1, <2>2 DEF LedgerOlder
<1> QED BY <1>1, <1>2, <1>3 DEF Ledger!Youngest

\* fg_job and bg_job scan from the top for exactly the jobs the ledger names.
LEMMA ScansInLedger ==
  IInv =>
    /\ {h \in Groups : \E k \in Suspended : Holds(k, h)} = Ledger!Stopped
    /\ {h \in Groups : \E k \in Resumable : Holds(k, h)}
         = Ledger!Stopped \cup LedgerBack
<1> SUFFICES ASSUME IInv, NEW h \in Groups
             PROVE  /\ (\E k \in Suspended : Holds(k, h)) <=> h \in Ledger!Stopped
                    /\ (\E k \in Resumable : Holds(k, h))
                         <=> h \in Ledger!Stopped \cup LedgerBack
  BY DEF Ledger!Stopped, Ledger!Jobs, LedgerBack
<1>1. CASE ~Listed(h)
  <2>1. h \notin Ledger!Stopped
    BY <1>1, LedgerReads DEF Ledger!Stopped, Ledger!Jobs, LedgerShows
  <2> QED BY <1>1, <2>1 DEF Listed, LedgerBack, Resumable, Suspended, Used
<1>2. CASE Listed(h)
  <2>1. PICK k \in Slots : Holds(k, h)
    BY <1>2 DEF Listed
  <2>2. \A i \in Slots : Holds(i, h) <=> i = k
    BY <2>1, HeldOnce
  <2>3. h \in Ledger!Stopped <=> job_table[k].status = 0
    BY <2>1, <1>2, LedgerReads
       DEF Ledger!Stopped, Ledger!Jobs, LedgerShows, StatusName
  <2>4. h \in LedgerBack <=> job_table[k].bg
    BY <2>1, <2>2 DEF LedgerBack
  <2>5. k \in Used
    BY <2>1 DEF Holds
  <2> QED BY <2>1, <2>2, <2>3, <2>4, <2>5 DEF Resumable, Suspended, Used
<1> QED BY <1>1, <1>2

\* "fg" moves the youngest stopped or background job to the foreground.
LEMMA ForegroundInLedger ==
  ASSUME IInv, NEW i \in Slots, fg_job(i)
  PROVE  Ledger!Foreground
<1> DEFINE g == job_table[i].pgid
<1>1. Resumable \in SUBSET Used /\ LastOf(Resumable, i)
  BY DEF Resumable, fg_job
<1>2. /\ g \in Groups /\ Holds(i, g)
      /\ g \in Ledger!Youngest(Ledger!Stopped \cup LedgerBack)
  BY <1>1, LastIsYoungest, ScansInLedger
<1>3. job_table[i] \in Job
  BY <1>2 DEF Holds, Used, InUse, IInv, TypeOK
<1>4. /\ job_table[i].status \in {0, 1}
      /\ job_table' = [job_table EXCEPT
            ![i] = [@ EXCEPT !.status = job_table[i].status, !.bg = FALSE]]
      /\ UNCHANGED <<next_job, overrun, ordered>>
  BY <1>3 DEF fg_job, Job
<1>5. LedgerState[g] = StatusName(i)
  BY <1>2, LedgerReads DEF LedgerShows
<1> HIDE DEF g
<1>6. /\ LedgerBack' = LedgerBack \ {g} /\ LedgerOlder' = LedgerOlder
      /\ LedgerState' = [LedgerState EXCEPT ![g] = StatusName(i)]
  BY <1>2, <1>4, UpdateInLedger DEF StatusName
<1>7. LedgerState' = LedgerState
  BY <1>2, <1>5, <1>6 DEF LedgerState
<1> QED BY <1>2, <1>6, <1>7 DEF Ledger!Foreground

\* "bg" continues the youngest stopped job and records that it runs.
LEMMA BackgroundInLedger ==
  ASSUME IInv, NEW i \in Slots, bg_job(i)
  PROVE  Ledger!Background
<1> DEFINE g == job_table[i].pgid
<1>1. Suspended \in SUBSET Used /\ LastOf(Suspended, i)
  BY DEF Suspended, bg_job
<1>2. /\ g \in Groups /\ Holds(i, g)
      /\ g \in Ledger!Youngest(Ledger!Stopped)
  BY <1>1, LastIsYoungest, ScansInLedger
<1>3. /\ job_table' = [job_table EXCEPT ![i].status = 1]
      /\ UNCHANGED <<next_job, overrun, ordered>>
  BY DEF bg_job
<1> HIDE DEF g
<1> QED BY <1>2, <1>3, ContinueInLedger DEF Ledger!Background

-----------------------------------------------------------------------------
\* The empty table is the empty ledger.
LEMMA InitInLedger == Init => Ledger!Init
<1> SUFFICES ASSUME Init PROVE Ledger!Init
  OBVIOUS
<1>1. \A i \in Slots, g \in Groups : ~Holds(i, g)
  BY DEF Init, Holds, Used, InUse
<1>2. LedgerState = [g \in Groups |-> "none"]
  BY <1>1 DEF LedgerState, RecordedState, Listed
<1>3. LedgerBack = {} /\ LedgerOlder = {}
  BY <1>1 DEF LedgerBack, LedgerOlder
<1> QED BY <1>2, <1>3 DEF Ledger!Init

\* Every step of the table is a step of the ledger or leaves it unchanged.
LEMMA NextInLedger ==
  IInv /\ IInv' /\ [Next]_tableVars => [Ledger!Next]_(Ledger!ledgerVars)
<1> SUFFICES ASSUME IInv, IInv', [Next]_tableVars
             PROVE  Ledger!Next
                      \/ UNCHANGED <<LedgerState, LedgerBack, LedgerOlder>>
  BY DEF Ledger!ledgerVars
<1>1. ASSUME NEW g \in Groups, NEW background \in BOOLEAN,
             add_job(g, background)
      PROVE  Ledger!Next
               \/ UNCHANGED <<LedgerState, LedgerBack, LedgerOlder>>
  BY <1>1, AddIsStart, OverrunIsStutter DEF Ledger!Next
<1>2. ASSUME NEW g \in Groups, NEW status \in WaitStatuses,
             update_status(g, status)
      PROVE  Ledger!Next
               \/ UNCHANGED <<LedgerState, LedgerBack, LedgerOlder>>
  BY <1>2, StatusInLedger DEF Ledger!Next
<1>3. ASSUME NEW i \in Slots, fg_job(i) \/ bg_job(i)
      PROVE  Ledger!Next
  BY <1>3, ForegroundInLedger, BackgroundInLedger DEF Ledger!Next
<1>4. CASE UNCHANGED tableVars
  BY <1>4, SameSlotsSameLedger DEF tableVars
<1> QED BY <1>1, <1>2, <1>3, <1>4 DEF Next

\* What job.c does with its slots is what a user expects of jobs: fg and bg
\* pick the youngest job that qualifies and no operation touches another job,
\* whatever holes the table has.
THEOREM TableImplementsLedger == Spec => ImplementsLedger
<1>1. Spec => []IInv
  BY InitIInv, NextKeepsIInv, PTL DEF Spec
<1> QED BY <1>1, InitInLedger, NextInLedger, PTL
        DEF Spec, ImplementsLedger, Ledger!Spec
=============================================================================
