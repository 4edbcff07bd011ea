------------------------------ MODULE JobTable ------------------------------
(***************************************************************************)
(* The job table of yashd, yashd/yash-holden/job.c: an array of MAXJOBS    *)
(* slots filled at next_job and never compacted.  A slot freed below the   *)
(* top becomes a hole that no later job reuses until the top falls back    *)
(* onto it, so a table with few jobs can still reach its end.              *)
(*                                                                         *)
(* The operators named in lower case are the functions of job.c.           *)
(***************************************************************************)
EXTENDS Integers

CONSTANTS
  Groups,    \* process group ids a job can have
  MaxJobs,   \* MAXJOBS, the length of job_table1
  NoJob      \* a NULL slot

ASSUME TableAssumption ==
  /\ MaxJobs \in Nat \ {0}
  /\ NoJob \notin [pgid : Groups, status : {0, 1}, bg : BOOLEAN, index : Nat]

VARIABLES
  job_table,   \* job_table1
  next_job,
  overrun,     \* a job was written past the end of job_table1
  ordered      \* history: every job freed so far was the top one

tableVars == <<job_table, next_job, overrun, ordered>>

Slots == 0 .. MaxJobs - 1

Job == [pgid : Groups, status : {0, 1}, bg : BOOLEAN, index : Slots]

-----------------------------------------------------------------------------
\* Slot i is one that the loops of job.c reach and it holds a job.
InUse(i) == i < next_job /\ job_table[i] # NoJob

Used == {i \in Slots : InUse(i)}

Holds(i, g) == i \in Used /\ job_table[i].pgid = g

Listed(g) == \E i \in Slots : Holds(i, g)

\* get_job returns the lowest slot that holds the group.
get_job(g, i) == Holds(i, g) /\ \A k \in Slots : Holds(k, g) => i <= k

\* The scans of fg_job and bg_job start at the top.
LastOf(S, i) == i \in S /\ \A k \in S : k <= i

\* "status == 0 || bg" and "status == 0"
Resumable == {i \in Used : job_table[i].status = 0 \/ job_table[i].bg}

Suspended == {i \in Used : job_table[i].status = 0}

-----------------------------------------------------------------------------
Init ==
  /\ job_table = [i \in Slots |-> NoJob]
  /\ next_job = 0
  /\ overrun = FALSE
  /\ ordered = TRUE

\* init_job and add_job.  The store through job_table1[next_job] is not
\* guarded: at MAXJOBS it falls outside the array and what follows is
\* undefined, so the model stops there.
add_job(g, background) ==
  /\ ~overrun
  /\ ~Listed(g)
  /\ IF next_job \in Slots
       THEN /\ job_table' = [job_table EXCEPT ![next_job] =
                 [pgid |-> g, status |-> 1, bg |-> background, index |-> next_job]]
            /\ UNCHANGED overrun
       ELSE overrun' = TRUE /\ UNCHANGED job_table
  /\ next_job' = next_job + 1
  /\ UNCHANGED ordered

\* Two faulty variants: the top is lowered whatever job is freed, or never.
FreeAlwaysLowersTop(i) ==
  /\ job_table' = [job_table EXCEPT ![job_table[i].index] = NoJob]
  /\ next_job' = next_job - 1
  /\ ordered' = (ordered /\ next_job - 1 = i)
  /\ UNCHANGED overrun

FreeNeverLowersTop(i) ==
  /\ job_table' = [job_table EXCEPT ![job_table[i].index] = NoJob]
  /\ ordered' = (ordered /\ next_job - 1 = i)
  /\ UNCHANGED <<next_job, overrun>>

free_job(i) ==
  LET index == job_table[i].index
  IN /\ job_table' = [job_table EXCEPT ![index] = NoJob]
     /\ next_job' = IF next_job - 1 = index THEN next_job - 1 ELSE next_job
     /\ ordered' = (ordered /\ next_job - 1 = index)
     /\ UNCHANGED overrun

\* set_job leaves the table alone when no job has the group.
set_job(g, status) ==
  \/ \E i \in Slots :
       /\ get_job(g, i)
       /\ job_table' = [job_table EXCEPT ![i].status = status]
  \/ ~Listed(g) /\ UNCHANGED job_table

\* job_exited and job_terminated differ in what they print only.
job_exited(g) ==
  \/ \E i \in Slots : get_job(g, i) /\ free_job(i)
  \/ ~Listed(g) /\ UNCHANGED tableVars

\* A faulty variant: the job is recorded as "Done", 2, as status_types has it.
StoppedAsDone(g) == set_job(g, 2) /\ UNCHANGED <<next_job, overrun, ordered>>

job_stopped(g) ==
  /\ \/ \E i \in Slots :
          /\ get_job(g, i)
          /\ job_table' = [job_table EXCEPT ![i].status = 0, ![i].bg = TRUE]
     \/ ~Listed(g) /\ UNCHANGED job_table
  /\ UNCHANGED <<next_job, overrun, ordered>>

job_cont(g) == set_job(g, 1) /\ UNCHANGED <<next_job, overrun, ordered>>

\* A status word that is none of the four changes nothing.
WaitStatuses == {"exited", "signaled", "stopped", "continued", "none"}

\* A faulty variant: a stop is taken for an end.
StopTakenForExit(g, status) ==
  /\ ~overrun
  /\ \/ status \in {"exited", "signaled", "stopped"} /\ job_exited(g)
     \/ status = "continued" /\ job_cont(g)
     \/ status = "none" /\ UNCHANGED tableVars

update_status(g, status) ==
  /\ ~overrun
  /\ \/ status \in {"exited", "signaled"} /\ job_exited(g)
     \/ status = "stopped" /\ job_stopped(g)
     \/ status = "continued" /\ job_cont(g)
     \/ status = "none" /\ UNCHANGED tableVars

\* A faulty variant: the scan starts at the bottom.
ForegroundFirst(i) ==
  /\ ~overrun
  /\ i \in Resumable /\ \A k \in Resumable : i <= k
  /\ job_table' = [job_table EXCEPT ![i].bg = FALSE]
  /\ UNCHANGED <<next_job, overrun, ordered>>

\* fg_job moves the last resumable job to the foreground; its status is left
\* as it was.  The signal it sends is the caller's business.
fg_job(i) ==
  /\ ~overrun
  /\ LastOf(Resumable, i)
  /\ job_table' = [job_table EXCEPT ![i].bg = FALSE]
  /\ UNCHANGED <<next_job, overrun, ordered>>

\* A faulty variant: the job is continued but stays recorded as stopped.
ContinuedUnrecorded(i) ==
  ~overrun /\ LastOf(Suspended, i) /\ UNCHANGED tableVars

bg_job(i) ==
  /\ ~overrun
  /\ LastOf(Suspended, i)
  /\ job_table' = [job_table EXCEPT ![i].status = 1]
  /\ UNCHANGED <<next_job, overrun, ordered>>

Next ==
  \/ \E g \in Groups, background \in BOOLEAN : add_job(g, background)
  \/ \E g \in Groups, status \in WaitStatuses : update_status(g, status)
  \/ \E i \in Slots : fg_job(i) \/ bg_job(i)

Spec == Init /\ [][Next]_tableVars

-----------------------------------------------------------------------------
\* Every slot is NULL or a job, and next_job passes the end of the array by
\* the one job that overran it.
TypeOK ==
  /\ job_table \in [Slots -> Job \cup {NoJob}]
  /\ next_job \in 0 .. MaxJobs + 1
  /\ overrun \in BOOLEAN
  /\ ordered \in BOOLEAN

\* free_job clears the slot named by the job's own index, not the slot it was
\* found in: the two always agree.
IndexIsSlot ==
  \A i \in Slots : job_table[i] # NoJob => job_table[i].index = i

\* No job sits at or above next_job, where no loop of job.c would find it and
\* the next add_job would write over it.
NothingAboveTop ==
  \A i \in Slots : job_table[i] # NoJob => i < next_job

\* A group has one slot, so get_job's first match is its only one.
OneSlotPerGroup ==
  \A i, k \in Slots :
    job_table[i] # NoJob /\ job_table[k] # NoJob
      /\ job_table[i].pgid = job_table[k].pgid => i = k

\* next_job leaves the array only by the store that overruns it.
TopWithinArray == next_job > MaxJobs <=> overrun

TableConsistent ==
  IndexIsSlot /\ NothingAboveTop /\ OneSlotPerGroup /\ TopWithinArray

\* As long as jobs end in the reverse order of their start (the condition
\* free_job tests before it lowers next_job) the table has no holes, so it can
\* only overrun with MAXJOBS jobs alive.
CompactWhileOrdered ==
  ordered => \A i \in Slots : i < next_job => job_table[i] # NoJob

\* A slot never passes from one job to another in a single step: the number
\* shown to the user keeps meaning the same job until that job is freed.
SlotNeverReassigned ==
  [][\A i \in Slots :
       job_table[i] # NoJob /\ job_table'[i] # NoJob
         => job_table'[i].pgid = job_table[i].pgid]_tableVars

-----------------------------------------------------------------------------
\* The table as the ledger its users see: slots forgotten, order of start
\* read off the order of the slots.
SlotOf(g) == CHOOSE i \in Slots : Holds(i, g)

RecordedState(g) ==
  IF ~Listed(g) THEN "none"
  ELSE IF job_table[SlotOf(g)].status = 0 THEN "stopped" ELSE "running"

LedgerState == [g \in Groups |-> RecordedState(g)]

LedgerBack == {g \in Groups : \E i \in Slots : Holds(i, g) /\ job_table[i].bg}

LedgerOlder ==
  {pair \in Groups \X Groups :
     \E i, k \in Slots : Holds(i, pair[1]) /\ Holds(k, pair[2]) /\ i < k}

Ledger == INSTANCE JobLedger WITH
            state <- LedgerState, back <- LedgerBack, older <- LedgerOlder

\* Holes, reused indices and scans notwithstanding, fg and bg always pick the
\* youngest job that qualifies and no operation touches another job.
ImplementsLedger == Ledger!Spec
=============================================================================
