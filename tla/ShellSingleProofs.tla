-------------------------- MODULE ShellSingleProofs --------------------------
(***************************************************************************)
(* Proofs about one connection whose client starts single programs only,   *)
(* in the foreground or the background.  Then the job table and the kernel *)
(* agree on what lives and what is stopped until the table overruns; with  *)
(* pipelines, or with "jobs" typed as a command, they do not.              *)
(***************************************************************************)
EXTENDS ShellProofs

SinglesOnly == Lines \cap {"pipe", "pipe&", "jobs"} = {}

\* The places where the thread holds the process of its command: until it has
\* put the job in the table, and while it waits.
InHand(g) == cur = g /\ pc \in {"setpgid", "parent_fork", "wait1", "fgwait"}

OnlyLeaders ==
  \A g \in Groups : line[g] \in {"none", "run", "run&"} /\ ~Born(<<g, 2>>)

NotesAreStops == \A p \in note : proc[p] = "stopped"

OneSlotEach ==
  \A g \in Groups : \A i, k \in T!Slots : T!Holds(i, g) /\ T!Holds(k, g) => i = k

WaitsFor ==
  /\ pc = "fgwait" => T!Listed(cur)
  /\ pc \in {"wait2", "wait0"} => proc[Leader(cur)] = "gone"

\* What the table says of the job of g: one that lives and is not in hand can
\* be resumed; a stop that a wait returned is recorded; and one recorded as
\* stopped is stopped, or was resumed in the foreground, or has ended.
Recorded(g) ==
  /\ Alive(Leader(g)) => InHand(g) \/ \E i \in T!Resumable : T!Holds(i, g)
  /\ proc[Leader(g)] = "stopped" /\ Leader(g) \notin note
       => \E i \in T!Suspended : T!Holds(i, g)
  /\ \A i \in T!Suspended :
       T!Holds(i, g) /\ Alive(Leader(g)) =>
         IF job_table[i].bg THEN proc[Leader(g)] = "stopped"
                            ELSE pc = "fgwait" /\ cur = g

AllRecorded == \A g \in Groups : Recorded(g)

SInv ==
  /\ SinglesOnly
  /\ OnlyLeaders
  /\ NotesAreStops
  /\ ~overrun => OneSlotEach /\ WaitsFor /\ AllRecorded

-----------------------------------------------------------------------------
(* The table: what an operation on the job of g does to the others.        *)

Elsewhere(g) ==
  \A h \in Groups \ {g} : \A i \in T!Slots :
    /\ T!Holds(i, h)' <=> T!Holds(i, h)
    /\ T!Holds(i, h) => job_table'[i] = job_table[i]

NoNewSlot(g) == \A i \in T!Slots : T!Holds(i, g)' => T!Holds(i, g)

LEMMA UntouchedRecords ==
  ASSUME UNCHANGED tableVars
  PROVE  \A g \in Groups : Elsewhere(g) /\ NoNewSlot(g)
BY DEF tableVars, Elsewhere, NoNewSlot, T!Holds, T!Used, T!InUse

LEMMA FreeRecords ==
  ASSUME TableInv, ~overrun, NEW g \in Groups, NEW i \in T!Slots,
         T!Holds(i, g), T!free_job(i)
  PROVE  Elsewhere(g) /\ NoNewSlot(g)
<1> USE TableFacts DEF T!Holds, T!Used, T!InUse
<1>1. /\ job_table[i].index = i /\ i < next_job /\ job_table[i].pgid = g
      /\ job_table \in [T!Slots -> T!Job \cup {NoJob}]
      /\ next_job \in 0 .. MaxJobs
  BY DEF TableInv, T!TypeOK, T!IndexIsSlot, T!TopWithinArray
<1>2. /\ job_table' = [job_table EXCEPT ![i] = NoJob]
      /\ next_job' = IF next_job - 1 = i THEN next_job - 1 ELSE next_job
  BY <1>1 DEF T!free_job
<1>3. \A k \in T!Slots : job_table'[k] = IF k = i THEN NoJob ELSE job_table[k]
  BY <1>1, <1>2
<1>4. \A k \in T!Slots : k # i => (k < next_job' <=> k < next_job)
  BY <1>1, <1>2
<1>5. Elsewhere(g)
  BY <1>1, <1>3, <1>4 DEF Elsewhere
<1>6. NoNewSlot(g)
  BY <1>3, <1>4 DEF NoNewSlot
<1> QED BY <1>5, <1>6

\* The job of g is in slot i after the step, with that record.
StoredAs(i, g, job) == T!Holds(i, g)' /\ job_table'[i] = job

MarkedStopped(g) ==
  \A i \in T!Slots : T!Holds(i, g) =>
    T!Holds(i, g)' /\ job_table'[i].status = 0 /\ job_table'[i].bg

StoredOnce(g, b) ==
  /\ \E i \in T!Slots : T!Holds(i, g)'
  /\ \A i, k \in T!Slots : T!Holds(i, g)' /\ T!Holds(k, g)' => i = k
  /\ \A i \in T!Slots : T!Holds(i, g)' => job_table'[i].status = 1 /\ job_table'[i].bg = b

\* A job that is marked stays in its slot.
LEMMA MarkRecords ==
  ASSUME TableInv, NEW g \in Groups, NEW i \in T!Slots, T!Holds(i, g),
         NEW new \in T!Job, new.pgid = g,
         job_table' = [job_table EXCEPT ![i] = new], UNCHANGED next_job
  PROVE  Elsewhere(g) /\ NoNewSlot(g) /\ StoredAs(i, g, new)
<1> USE TableFacts DEF T!Holds, T!Used, T!InUse
<1>1. job_table \in [T!Slots -> T!Job \cup {NoJob}] /\ new # NoJob
  BY DEF TableInv, T!TypeOK
<1>2. \A k \in T!Slots : job_table'[k] = IF k = i THEN new ELSE job_table[k]
  BY <1>1
<1>3. Elsewhere(g)
  BY <1>1, <1>2 DEF Elsewhere
<1>4. NoNewSlot(g)
  BY <1>1, <1>2 DEF NoNewSlot
<1>5. StoredAs(i, g, new)
  BY <1>1, <1>2 DEF StoredAs
<1> QED BY <1>3, <1>4, <1>5

\* A job that is added takes one slot.
LEMMA AddRecords ==
  ASSUME TableInv, NEW g \in Groups, NEW b \in BOOLEAN, T!add_job(g, b), ~overrun'
  PROVE  ~overrun /\ ~T!Listed(g) /\ Elsewhere(g) /\ StoredOnce(g, b)
<1> USE TableFacts DEF T!Holds, T!Used, T!InUse
<1>1. next_job \in T!Slots /\ ~overrun /\ ~T!Listed(g)
  BY DEF T!add_job
<1> PICK top \in T!Slots : top = next_job
  BY <1>1
<1>2. PICK new : new = [pgid |-> g, status |-> 1, bg |-> b, index |-> next_job]
  OBVIOUS
<1>3. /\ job_table' = [job_table EXCEPT ![next_job] = new]
      /\ next_job' = next_job + 1
  BY <1>1, <1>2 DEF T!add_job
<1>4. /\ new \in T!Job /\ new # NoJob
      /\ new.pgid = g /\ new.status = 1 /\ new.bg = b
  BY <1>1, <1>2 DEF T!Job
<1>5. /\ job_table \in [T!Slots -> T!Job \cup {NoJob}]
      /\ next_job \in 0 .. MaxJobs - 1
  BY <1>1 DEF TableInv, T!TypeOK
<1>6. \A i \in T!Slots : job_table'[i] = IF i = top THEN new ELSE job_table[i]
  BY <1>3, <1>5
<1>7. \A i \in T!Slots : i < next_job' <=> i < next_job \/ i = top
  BY <1>3, <1>5
<1>8. ~(top < next_job)
  BY <1>5
<1>9. Elsewhere(g)
  BY <1>4, <1>6, <1>7, <1>8 DEF Elsewhere
<1>10. T!Holds(top, g)'
  BY <1>1, <1>4, <1>6, <1>7
<1>11. \A i \in T!Slots : T!Holds(i, g)' => i = top
  BY <1>1, <1>6, <1>7 DEF T!Listed
<1>12. StoredOnce(g, b)
  BY <1>4, <1>6, <1>10, <1>11 DEF StoredOnce
<1> QED BY <1>1, <1>9, <1>12

\* update_status: a stop marks the job of the group, whatever it was.
LEMMA UpdateRecords ==
  ASSUME TableInv, OneSlotEach, NEW g \in Groups, NEW s, T!update_status(g, s)
  PROVE  /\ ~overrun /\ UNCHANGED overrun
         /\ Elsewhere(g) /\ NoNewSlot(g)
         /\ s = "stopped" => MarkedStopped(g)
<1>1. ~overrun /\ UNCHANGED overrun
  <2>1. UNCHANGED overrun
    BY UpdateFacts DEF Keeps
  <2> QED BY <2>1 DEF T!update_status
<1>2. UNCHANGED tableVars => Elsewhere(g) /\ NoNewSlot(g)
  BY UntouchedRecords
<1>3. ASSUME NEW i \in T!Slots, T!Holds(i, g), T!free_job(i)
      PROVE  Elsewhere(g) /\ NoNewSlot(g)
  BY <1>1, <1>3, FreeRecords
<1>4. ASSUME NEW i \in T!Slots, T!Holds(i, g), NEW t \in {0, 1},
             job_table' = [job_table EXCEPT ![i].status = t], UNCHANGED next_job
      PROVE  Elsewhere(g) /\ NoNewSlot(g)
  <2>1. job_table[i] # NoJob /\ job_table[i].pgid = g
    BY <1>4 DEF T!Holds, T!Used, T!InUse
  <2>2. PICK new : new = [job_table[i] EXCEPT !.status = t]
    OBVIOUS
  <2>3. job_table' = [job_table EXCEPT ![i] = new]
    BY <1>4, <2>2
  <2>4. new \in T!Job /\ new.pgid = g
    BY <2>1, <2>2, MarkedJob
  <2> QED BY <1>4, <2>3, <2>4, MarkRecords
<1>5. ASSUME NEW i \in T!Slots, T!Holds(i, g), UNCHANGED next_job,
             job_table' = [job_table EXCEPT ![i].status = 0, ![i].bg = TRUE]
      PROVE  /\ Elsewhere(g) /\ NoNewSlot(g)
             /\ T!Holds(i, g)' /\ job_table'[i].status = 0 /\ job_table'[i].bg
  <2>1. job_table[i] # NoJob /\ job_table[i].pgid = g
    BY <1>5 DEF T!Holds, T!Used, T!InUse
  <2>2. PICK new : new = [job_table[i] EXCEPT !.status = 0, !.bg = TRUE]
    OBVIOUS
  <2>3. job_table \in [T!Slots -> T!Job \cup {NoJob}] /\ job_table[i] \in T!Job
    BY <2>1 DEF TableInv, T!TypeOK
  <2>4. job_table' = [job_table EXCEPT ![i] = new]
    BY <1>5, <2>2, <2>3 DEF T!Job
  <2>5. new \in T!Job /\ new.pgid = g
    BY <2>1, <2>2, MarkedJob
  <2>6. new.status = 0 /\ new.bg
    BY <2>2, <2>3 DEF T!Job
  <2>7. Elsewhere(g) /\ NoNewSlot(g) /\ StoredAs(i, g, new)
    BY <1>5, <2>4, <2>5, MarkRecords
  <2> QED BY <2>6, <2>7 DEF StoredAs
<1>6. CASE s \in {"exited", "signaled"} /\ T!job_exited(g)
  <2>1. \/ \E i \in T!Slots : T!Holds(i, g) /\ T!free_job(i)
        \/ UNCHANGED tableVars
    BY <1>6 DEF T!job_exited, T!get_job, T!tableVars, tableVars
  <2> QED BY <1>1, <1>2, <1>3, <1>6, <2>1
<1>7. CASE s = "stopped" /\ T!job_stopped(g)
  <2>1. CASE \E i \in T!Slots :
               /\ T!get_job(g, i)
               /\ job_table' = [job_table EXCEPT ![i].status = 0, ![i].bg = TRUE]
    <3>1. PICK i \in T!Slots :
            /\ T!Holds(i, g)
            /\ job_table' = [job_table EXCEPT ![i].status = 0, ![i].bg = TRUE]
      BY <2>1 DEF T!get_job
    <3>2. UNCHANGED next_job
      BY <1>7 DEF T!job_stopped
    <3>3. \A k \in T!Slots : T!Holds(k, g) => k = i
      BY <3>1 DEF OneSlotEach
    <3> QED BY <1>1, <1>5, <3>1, <3>2, <3>3 DEF MarkedStopped
  <2>2. CASE ~T!Listed(g) /\ UNCHANGED job_table
    <3>1. UNCHANGED tableVars
      BY <1>7, <2>2 DEF T!job_stopped, tableVars
    <3> QED BY <1>1, <1>2, <2>2, <3>1 DEF T!Listed, MarkedStopped
  <2> QED BY <1>7, <2>1, <2>2 DEF T!job_stopped
<1>8. CASE s = "continued" /\ T!job_cont(g)
  <2>1. CASE UNCHANGED job_table
    BY <1>1, <1>2, <1>8, <2>1 DEF T!job_cont, tableVars
  <2> QED BY <1>1, <1>4, <1>8, <2>1 DEF T!job_cont, T!set_job, T!get_job
<1>9. CASE s = "none" /\ UNCHANGED T!tableVars
  BY <1>1, <1>2, <1>9 DEF T!tableVars, tableVars
<1>10. s \in {"exited", "signaled"} => s # "stopped"
  OBVIOUS
<1> QED BY <1>1, <1>6, <1>7, <1>8, <1>9, <1>10 DEF T!update_status

-----------------------------------------------------------------------------
(* The processes: what a step leaves of the leader of g.                   *)

Calm(g) ==
  /\ Alive(Leader(g))' => Alive(Leader(g))
  /\ proc'[Leader(g)] = "stopped" /\ Leader(g) \notin note'
       => proc[Leader(g)] = "stopped" /\ Leader(g) \notin note
  /\ Alive(Leader(g))' /\ proc[Leader(g)] = "stopped" => proc'[Leader(g)] = "stopped"

AllCalm == (\A g \in Groups : Calm(g)) /\ NotesAreStops'

LEMMA SameCalm ==
  ASSUME NotesAreStops, UNCHANGED procVars
  PROVE  AllCalm
BY DEF procVars, NotesAreStops, AllCalm, Calm, Alive, Leader

LEMMA ReapCalm ==
  ASSUME ProcInv, NotesAreStops, NEW p \in Procs, proc[p] = "zombie", Reap(p)
  PROVE  AllCalm
<1>1. /\ proc \in [Procs -> ProcStates] /\ note \subseteq Procs
      /\ \A q \in Procs : proc'[q] = IF q = p THEN "gone" ELSE proc[q]
      /\ UNCHANGED note
  BY DEF ProcInv, Reap
<1>2. NotesAreStops'
  BY <1>1 DEF NotesAreStops
<1>3. \A g \in Groups : Calm(g)
  BY <1>1, LeaderFacts DEF Calm, Alive, Leader
<1> QED BY <1>2, <1>3 DEF AllCalm

LEMMA ExitCalm ==
  ASSUME ProcInv, NotesAreStops, NEW p \in Procs, Exit(p)
  PROVE  AllCalm
<1>1. /\ proc \in [Procs -> ProcStates] /\ note \subseteq Procs /\ proc[p] = "run"
      /\ \A q \in Procs : proc'[q] = IF q = p THEN "zombie" ELSE proc[q]
      /\ UNCHANGED note
  BY DEF ProcInv, Exit
<1>2. NotesAreStops'
  BY <1>1 DEF NotesAreStops
<1>3. \A g \in Groups : Calm(g)
  BY <1>1, LeaderFacts DEF Calm, Alive, Leader
<1> QED BY <1>2, <1>3 DEF AllCalm

LEMMA SetupCalm ==
  ASSUME ProcInv, NotesAreStops, NEW p \in Procs, ChildSetup(p)
  PROVE  AllCalm
<1>1. /\ proc \in [Procs -> ProcStates] /\ note \subseteq Procs /\ proc[p] = "new"
      /\ \A q \in Procs : proc'[q] = IF q = p THEN "run" ELSE proc[q]
      /\ UNCHANGED note
  BY DEF ProcInv, ChildSetup
<1>2. NotesAreStops'
  BY <1>1 DEF NotesAreStops
<1>3. \A g \in Groups : Calm(g)
  BY <1>1, LeaderFacts DEF Calm, Alive, Leader
<1> QED BY <1>2, <1>3 DEF AllCalm

LEMMA InterruptCalm ==
  ASSUME ProcInv, NotesAreStops, NEW h, Interrupt(h)
  PROVE  AllCalm
<1>1. /\ proc \in [Procs -> ProcStates] /\ note \subseteq Procs
      /\ \A q \in Procs : \/ proc'[q] = proc[q]
                          \/ proc[q] = "run" /\ proc'[q] = "zombie"
      /\ UNCHANGED note
  BY DEF ProcInv, Interrupt
<1>2. NotesAreStops'
  BY <1>1 DEF NotesAreStops
<1>3. \A g \in Groups : Calm(g)
  BY <1>1, LeaderFacts DEF Calm, Alive, Leader
<1> QED BY <1>2, <1>3 DEF AllCalm

LEMMA SuspendCalm ==
  ASSUME ProcInv, NotesAreStops, NEW h, Suspend(h)
  PROVE  AllCalm
<1>1. PICK hit : hit = {p \in Members(h) : proc[p] = "run"}
  OBVIOUS
<1>2. /\ proc \in [Procs -> ProcStates] /\ note \subseteq Procs /\ hit \subseteq Procs
      /\ \A q \in hit : proc[q] = "run"
      /\ \A q \in Procs : proc'[q] = IF q \in hit THEN "stopped" ELSE proc[q]
      /\ note' = note \cup hit
  BY <1>1, MembersFacts DEF ProcInv, Suspend
<1>3. NotesAreStops'
  BY <1>2 DEF NotesAreStops
<1>4. \A g \in Groups : Calm(g)
  BY <1>2, LeaderFacts DEF Calm, Alive, Leader
<1> QED BY <1>3, <1>4 DEF AllCalm

\* A job that is resumed is stopped no more; the others are left alone.
LEMMA ResumeCalm ==
  ASSUME ProcInv, NotesAreStops, NEW h \in Groups, Resume(h)
  PROVE  /\ \A g \in Groups \ {h} : Calm(g)
         /\ NotesAreStops'
         /\ proc'[Leader(h)] # "stopped"
         /\ Alive(Leader(h))' => Alive(Leader(h))
<1>1. PICK hit : hit = {p \in Members(h) : proc[p] = "stopped"}
  OBVIOUS
<1>2. /\ proc \in [Procs -> ProcStates] /\ note \subseteq Procs
      /\ \A q \in hit : q \in Procs /\ q[1] = h /\ proc[q] = "stopped"
      /\ \A q \in Procs :
           proc'[q] = IF q \notin hit THEN proc[q]
                      ELSE IF q \in doomed THEN "zombie" ELSE "run"
      /\ note' = note \ hit
  BY <1>1, MembersFacts DEF ProcInv, Resume
<1>3. NotesAreStops'
  BY <1>2 DEF NotesAreStops
<1>4. \A g \in Groups \ {h} : Leader(g) \in Procs /\ Leader(g) \notin hit
  BY <1>2, LeaderFacts
<1>5. \A g \in Groups \ {h} : Calm(g)
  BY <1>2, <1>4 DEF Calm, Alive, Leader
<1>6. proc[Leader(h)] = "stopped" => Leader(h) \in hit
  BY <1>1, LeaderFacts DEF ProcInv, Members, ProcsOf
<1>7. PICK p \in Procs : p = Leader(h)
  BY LeaderFacts
<1>8. proc'[p] # "stopped" /\ (Alive(p)' => Alive(p))
  BY <1>2, <1>6, <1>7 DEF Alive
<1> QED BY <1>3, <1>5, <1>7, <1>8 DEF Leader

\* The stop that a wait returned is the job's own.
LEMMA NoteCalm ==
  ASSUME NotesAreStops, NEW g \in Groups, note' = note \ {Leader(g)}, UNCHANGED proc
  PROVE  NotesAreStops' /\ \A h \in Groups \ {g} : Calm(h)
BY DEF NotesAreStops, Calm, Alive, Leader

-----------------------------------------------------------------------------
(* What keeps the records.                                                 *)

LEMMA LeadersKept ==
  ASSUME OnlyLeaders, Progress, UNCHANGED line
  PROVE  OnlyLeaders'
BY LeaderFacts DEF OnlyLeaders, Progress, Born

\* Every process that is not unborn leads its group.
LEMMA BornLeads ==
  ASSUME OnlyLeaders, NEW p \in Procs, Born(p)
  PROVE  p[1] \in Groups /\ p = Leader(p[1])
BY DEF OnlyLeaders, Procs, Leader

LEMMA DeadRecorded ==
  ASSUME NEW g \in Groups, ~Alive(Leader(g))'
  PROVE  Recorded(g)'
BY DEF Recorded, Alive, Leader

\* Steps that leave the table alone and no job out of hand.
LEMMA QuietSeen ==
  ASSUME SInv, UNCHANGED tableVars, OnlyLeaders', AllCalm,
         \A p \in Procs : proc[p] = "gone" => proc'[p] = "gone", cur \in Groups \cup {0},
         \A g \in Groups : InHand(g) => InHand(g)',
         pc = "fgwait" => UNCHANGED <<pc, cur>>,
         pc' = "fgwait" => pc = "fgwait",
         pc' \in {"wait2", "wait0"} => pc \in {"wait2", "wait0"} /\ cur \in Groups /\ UNCHANGED cur
  PROVE  SInv'
<1>1. NotesAreStops'
  BY DEF AllCalm
<1>2. SUFFICES ASSUME ~overrun PROVE OneSlotEach' /\ WaitsFor' /\ AllRecorded'
  BY <1>1 DEF SInv, tableVars, SinglesOnly
<1>3. OneSlotEach'
  BY <1>2 DEF SInv, OneSlotEach, tableVars, T!Holds, T!Used, T!InUse
<1>4. WaitsFor'
  BY <1>2, LeaderFacts
  DEF SInv, WaitsFor, tableVars, Leader, T!Listed, T!Holds, T!Used, T!InUse
<1>5. ASSUME NEW g \in Groups PROVE Recorded(g)'
  <2>1. Recorded(g) /\ Calm(g) /\ (InHand(g) => InHand(g)')
    BY <1>2 DEF SInv, AllRecorded, AllCalm
  <2>2. /\ T!Resumable' = T!Resumable /\ T!Suspended' = T!Suspended
        /\ \A i : T!Holds(i, g)' <=> T!Holds(i, g)
    BY DEF tableVars, T!Resumable, T!Suspended, T!Holds, T!Used, T!InUse
  <2>3. /\ Alive(Leader(g))' =>
             InHand(g)' \/ \E i \in T!Resumable' : T!Holds(i, g)'
        /\ proc'[Leader(g)] = "stopped" /\ Leader(g) \notin note'
             => \E i \in T!Suspended' : T!Holds(i, g)'
    BY <2>1, <2>2 DEF Recorded, Calm
  <2>4. \A i \in T!Suspended' : T!Holds(i, g)' /\ Alive(Leader(g))' =>
          IF job_table'[i].bg THEN proc'[Leader(g)] = "stopped"
                              ELSE pc' = "fgwait" /\ cur' = g
    BY <2>1, <2>2 DEF Recorded, Calm, tableVars
  <2> QED BY <2>3, <2>4 DEF Recorded, Leader
<1> QED BY <1>3, <1>4, <1>5 DEF AllRecorded

\* Steps on the job of g, while no other job is in hand: it is enough to look
\* at g.
LEMMA FocusSeen ==
  ASSUME SInv, ~overrun, NEW g \in Groups, pc = "check" \/ cur = g,
         Elsewhere(g), \A h \in Groups \ {g} : Calm(h),
         OnlyLeaders', NotesAreStops', WaitsFor', Recorded(g)',
         \A i, k \in T!Slots : T!Holds(i, g)' /\ T!Holds(k, g)' => i = k
  PROVE  SInv'
<1>1. OneSlotEach /\ AllRecorded
  BY DEF SInv
<1>2. OneSlotEach'
  <2> SUFFICES ASSUME NEW h \in Groups, NEW i \in T!Slots, NEW k \in T!Slots,
                      T!Holds(i, h)', T!Holds(k, h)'
               PROVE  i = k
    BY DEF OneSlotEach
  <2> QED BY <1>1 DEF OneSlotEach, Elsewhere
<1>3. ASSUME NEW h \in Groups \ {g} PROVE Recorded(h)'
  <2>1. Recorded(h) /\ Calm(h) /\ ~InHand(h) /\ ~(pc = "fgwait" /\ cur = h)
    BY <1>1 DEF AllRecorded, InHand
  <2>2. \A i \in T!Slots :
          /\ T!Holds(i, h)' <=> T!Holds(i, h)
          /\ T!Holds(i, h) => job_table'[i] = job_table[i]
    BY DEF Elsewhere
  <2>3. \A i \in T!Slots : T!Holds(i, h) =>
          /\ i \in T!Resumable' <=> i \in T!Resumable
          /\ i \in T!Suspended' <=> i \in T!Suspended
    BY <2>2 DEF T!Resumable, T!Suspended, T!Holds
  <2>4. T!Resumable \subseteq T!Slots /\ T!Suspended \subseteq T!Slots
    BY DEF T!Resumable, T!Suspended, T!Used
  <2>5. T!Resumable' \subseteq T!Slots /\ T!Suspended' \subseteq T!Slots
    BY DEF T!Resumable, T!Suspended, T!Used
  <2>6. /\ Alive(Leader(h))' => \E i \in T!Resumable' : T!Holds(i, h)'
        /\ proc'[Leader(h)] = "stopped" /\ Leader(h) \notin note'
             => \E i \in T!Suspended' : T!Holds(i, h)'
    BY <2>1, <2>2, <2>3, <2>4 DEF Recorded, Calm
  <2>7. \A i \in T!Suspended' : T!Holds(i, h)' /\ Alive(Leader(h))' =>
          job_table'[i].bg /\ proc'[Leader(h)] = "stopped"
    BY <2>1, <2>2, <2>3, <2>5 DEF Recorded, Calm
  <2> QED BY <2>6, <2>7 DEF Recorded, Leader
<1>4. AllRecorded'
  BY <1>3 DEF AllRecorded
<1> QED BY <1>2, <1>4 DEF SInv, SinglesOnly

-----------------------------------------------------------------------------
(* Steps that leave the table alone.                                       *)

\* What processes, receivers, the client and the handler do.
LEMMA AloneSeen ==
  ASSUME IInv, SInv, UNCHANGED <<tableVars, threadVars>>, Progress, AllCalm
  PROVE  SInv'
<1>1. UNCHANGED <<pc, cur, line>>
  BY DEF threadVars
<1>2. OnlyLeaders'
  BY <1>1, LeadersKept DEF SInv
<1>3. \A g \in Groups : InHand(g) => InHand(g)'
  BY <1>1 DEF InHand
<1>4. pc \in {"wait2", "wait0"} => cur \in Groups
  BY DEF IInv, ThreadInv, Waiting
<1> QED BY <1>1, <1>2, <1>3, <1>4, QuietSeen DEF IInv, ThreadInv, Progress

LEMMA OutsideSeen ==
  ASSUME IInv, SInv,
         \/ \E l \in Lines : Send(l)
         \/ Disconnect
         \/ \E p \in Procs : ChildSetup(p) \/ Exit(p)
         \/ \E g \in Groups : ReceiverReady(g) \/ ReceiverRecv(g) \/ ReceiverHangup(g)
         \/ sig_chld
         \/ UNCHANGED shellVars
  PROVE  SInv'
<1>1. ProcInv /\ NotesAreStops
  BY DEF IInv, SInv
<1>2. UNCHANGED <<tableVars, threadVars>>
  BY DEF Send, Disconnect, ChildSetup, Exit, ReceiverReady, ReceiverRecv, ReceiverHangup,
     sig_chld, shellVars
<1>3. CASE UNCHANGED procVars
  BY <1>1, <1>2, <1>3, SameProgress, SameCalm, AloneSeen
<1>4. ASSUME NEW p \in Procs, ChildSetup(p) PROVE SInv'
  BY <1>1, <1>2, <1>4, SetupProgress, SetupCalm, AloneSeen
<1>5. ASSUME NEW p \in Procs, Exit(p) PROVE SInv'
  <2>1. Progress
    BY <1>1, <1>5, ExitProgress DEF Exit
  <2> QED BY <1>1, <1>2, <1>5, <2>1, ExitCalm, AloneSeen
<1>6. ASSUME NEW g \in Groups, Interrupt(g) PROVE SInv'
  BY <1>1, <1>2, <1>6, InterruptProgress, InterruptCalm, AloneSeen
<1>7. ASSUME NEW g \in Groups, Suspend(g) PROVE SInv'
  BY <1>1, <1>2, <1>7, SuspendProgress, SuspendCalm, AloneSeen
<1>8. ASSUME NEW p \in Zombies(Procs), Reap(p) PROVE SInv'
  <2>1. p \in Procs /\ proc[p] = "zombie"
    BY DEF Zombies
  <2> QED BY <1>1, <1>2, <1>8, <2>1, ReapProgress, ReapCalm, AloneSeen
<1> QED BY <1>3, <1>4, <1>5, <1>6, <1>7, <1>8
        DEF Send, Disconnect, ReceiverReady, ReceiverRecv, ReceiverHangup, sig_chld, shellVars

\* Steps of the thread while no job is in hand.
LEMMA FreeHands ==
  ASSUME IInv, SInv, pc \notin {"setpgid", "parent_fork", "wait1", "fgwait"},
         pc' \notin {"fgwait", "wait2", "wait0"}, UNCHANGED tableVars,
         OnlyLeaders', Progress, AllCalm
  PROVE  SInv'
<1>1. \A g \in Groups : ~InHand(g)
  BY DEF InHand
<1> QED BY <1>1, QuietSeen DEF IInv, ThreadInv, Progress

LEMMA ThreadSeen ==
  ASSUME IInv, SInv,
         Recv \/ RecvHangup \/ Ignore \/ Leave \/ KillReceiver
  PROVE  SInv'
<1>1. /\ pc \in {"recv", "check", "kill"} /\ pc' \in {"recv", "check", "closed"}
      /\ UNCHANGED <<tableVars, line, procVars>>
  BY DEF Recv, RecvHangup, Ignore, Leave, KillReceiver, Dispatch, Prompt, Close, Goto
<1>2. Progress /\ AllCalm /\ OnlyLeaders'
  BY <1>1, SameProgress, SameCalm, LeadersKept DEF IInv, SInv
<1> QED BY <1>1, <1>2, FreeHands

LEMMA StartCommandSeen ==
  ASSUME IInv, SInv, StartCommand
  PROVE  SInv'
<1>1. /\ pc = "check" /\ pc' = "fork" /\ msg \in ForkingLines /\ msg \in Lines \cup {"none"}
      /\ line' = [line EXCEPT ![cur'] = msg] /\ line \in [Groups -> ForkingLines \cup {"none"}]
      /\ UNCHANGED <<tableVars, procVars>>
  BY DEF StartCommand, Dispatch, Goto, IInv, QueueInv
<1>2. msg \in {"run", "run&"}
  BY <1>1 DEF SInv, SinglesOnly, ForkingLines
<1>3. \A g \in Groups : line'[g] \in {line[g], msg}
  BY <1>1
<1>4. OnlyLeaders'
  BY <1>1, <1>2, <1>3 DEF SInv, OnlyLeaders, Born, procVars
<1>5. Progress /\ AllCalm
  BY <1>1, SameProgress, SameCalm DEF IInv, SInv
<1> QED BY <1>1, <1>4, <1>5, FreeHands

LEMMA ForkSeen ==
  ASSUME IInv, SInv, Fork
  PROVE  SInv'
<1>1. PICK g : g = cur
  OBVIOUS
<1>2. /\ g \in Groups /\ pc = "fork" /\ pc' = "setpgid" /\ line[g] # "none"
      /\ ProcInv /\ TableInv /\ cur' = g
      /\ UNCHANGED <<tableVars, line, note>>
      /\ OnlyLeaders /\ NotesAreStops
  BY <1>1 DEF Fork, Goto, IInv, ThreadInv, Starting, SInv
<1>3. ~Born(Leader(g)) /\ ~Born(<<g, 2>>)
  <2>1. Width(line[g]) = 1
    BY <1>2 DEF OnlyLeaders, Width
  <2> QED BY <1>1, <1>2, <2>1 DEF IInv, StageInv
<1>4. PICK p \in Procs : p = Leader(g)
  BY <1>2, LeaderFacts
<1>5. /\ \A q \in Procs : proc'[q] = IF q = p THEN "new" ELSE proc[q]
      /\ proc[p] = "unborn"
  <2>1. p = <<g, Cardinality(ProcsOf(g)) + 1>>
    BY <1>2, <1>3, <1>4, ForkedCount DEF Leader
  <2> QED BY <1>1, <1>2, <1>3, <1>4, <2>1 DEF Fork, ProcInv, Born
<1>6. OnlyLeaders'
  <2>1. p = <<g, 1>>
    BY <1>4 DEF Leader
  <2>2. \A h \in Groups : <<h, 2>> \in Procs
    BY LeaderFacts
  <2>3. \A h \in Groups : <<h, 2>> # <<g, 1>>
    OBVIOUS
  <2> QED BY <1>2, <1>5, <2>1, <2>2, <2>3 DEF OnlyLeaders, Born
<1>7. NotesAreStops'
  <2>1. note \subseteq Procs
    BY <1>2 DEF ProcInv
  <2> QED BY <1>2, <1>5, <2>1 DEF NotesAreStops
<1>8. \A h \in Groups \ {g} : Calm(h)
  <2>1. \A h \in Groups \ {g} : Leader(h) \in Procs /\ Leader(h) # p
    BY <1>4, LeaderFacts DEF Leader
  <2> QED BY <1>2, <1>5, <2>1 DEF Calm, Alive, Leader
<1>9. ~T!Listed(g)
  BY <1>2, <1>3 DEF IInv, ListedHeld, ProcInv
<1>10. Elsewhere(g) /\ \A i \in T!Slots : ~T!Holds(i, g)'
  BY <1>2, <1>9, UntouchedRecords DEF T!Listed, NoNewSlot
<1>11. Recorded(g)'
  <2>1. InHand(g)'
    BY <1>2 DEF InHand
  <2>2. proc'[p] = "new"
    BY <1>5
  <2>3. T!Suspended' \subseteq T!Slots
    BY DEF T!Suspended, T!Used
  <2> QED BY <1>4, <1>10, <2>1, <2>2, <2>3 DEF Recorded, Leader
<1>12. WaitsFor'
  BY <1>2 DEF WaitsFor
<1>13. CASE overrun
  BY <1>2, <1>6, <1>7, <1>13 DEF SInv, tableVars, SinglesOnly
<1>14. CASE ~overrun
  BY <1>1, <1>2, <1>6, <1>7, <1>8, <1>10, <1>11, <1>12, <1>14, FocusSeen
<1> QED BY <1>13, <1>14

LEMMA ParentSetpgidSeen ==
  ASSUME IInv, SInv, ParentSetpgid
  PROVE  SInv'
<1>1. PICK g : g = cur
  OBVIOUS
<1>2. /\ g \in Groups /\ pc = "setpgid" /\ line[g] # "none"
      /\ ProcInv /\ OnlyLeaders /\ NotesAreStops
      /\ Born(Leader(g)) /\ ~Born(<<g, 2>>)
      /\ UNCHANGED <<tableVars, cur, line, proc, note>>
  BY <1>1 DEF ParentSetpgid, IInv, ThreadInv, StageInv, Starting, SInv, OnlyLeaders
<1>3. Cardinality(ProcsOf(g)) = 1 /\ Width(line[g]) = 1
  BY <1>2, ForkedCount DEF OnlyLeaders, Width
<1>4. pc' = "parent_fork"
  <2>1. pc' = IF Cardinality(ProcsOf(g)) < Width(line[g]) THEN "fork" ELSE "parent_fork"
    BY <1>1 DEF ParentSetpgid, Goto
  <2> QED BY <1>3, <2>1
<1>5. OnlyLeaders'
  BY <1>2 DEF OnlyLeaders, Born
<1>6. AllCalm
  BY <1>2 DEF NotesAreStops, AllCalm, Calm, Alive, Leader
<1>7. \A h \in Groups : InHand(h) => InHand(h)'
  BY <1>2, <1>4 DEF InHand
<1> QED BY <1>2, <1>4, <1>5, <1>6, <1>7, QuietSeen DEF IInv, ThreadInv

\* The group of a leader that was collected has no member left.
LEMMA GoneEmpties ==
  ASSUME OnlyLeaders, NEW g \in Groups, proc[Leader(g)] = "gone"
  PROVE  Members(g) = {}
BY MembersFacts, BornLeads

LEMMA LaterWaitsSeen ==
  ASSUME IInv, SInv, Wait2 \/ Wait0
  PROVE  SInv'
<1>1. PICK g : g = cur
  OBVIOUS
<1>2. /\ g \in Groups /\ pc \in {"wait2", "wait0"} /\ ~overrun
      /\ ProcInv /\ OnlyLeaders /\ NotesAreStops
      /\ proc[Leader(g)] = "gone"
  BY <1>1 DEF Wait2, Wait0, IInv, ThreadInv, Waiting, WaitsListed, SInv, WaitsFor
<1>3. /\ UNCHANGED <<tableVars, cur, line>>
      /\ pc' \in {"kill", "wait2", "wait0"}
      /\ Progress /\ AllCalm
  <2>1. CASE Wait2
    <3>1. Members(g) = {}
      BY <1>2, GoneEmpties
    <3>2. pc' = "kill" /\ UNCHANGED <<tableVars, procVars, cur, line>>
      BY <1>1, <2>1, <3>1 DEF Wait2, Goto, Zombies
    <3> QED BY <1>2, <3>2, SameProgress, SameCalm
  <2>2. CASE Wait0
    <3>1. ASSUME NEW p \in Zombies(Strays), Reap(p) PROVE Progress /\ AllCalm
      <4>1. p \in Procs /\ proc[p] = "zombie"
        BY DEF Zombies, Strays
      <4> QED BY <1>2, <3>1, <4>1, ReapProgress, ReapCalm
    <3>2. UNCHANGED procVars => Progress /\ AllCalm
      BY <1>2, SameProgress, SameCalm
    <3>3. Progress /\ AllCalm
      BY <2>2, <3>1, <3>2 DEF Wait0
    <3> QED BY <2>2, <3>3, LoopTestFacts DEF Wait0, Goto
  <2> QED BY <2>1, <2>2
<1>4. OnlyLeaders'
  BY <1>2, <1>3, LeadersKept
<1>5. \A h \in Groups : ~InHand(h)
  BY <1>2 DEF InHand
<1> QED BY <1>1, <1>2, <1>3, <1>4, <1>5, QuietSeen DEF Progress

-----------------------------------------------------------------------------
(* Steps that use the table.                                               *)

LEMMA ParentForkSeen ==
  ASSUME IInv, SInv, ParentFork
  PROVE  SInv'
<1>1. PICK g : g = cur
  OBVIOUS
<1>2. PICK b : b = Background(line[g])
  OBVIOUS
<1>3. /\ g \in Groups /\ b \in BOOLEAN /\ line[g] # "none" /\ cur' = g
      /\ pc = "parent_fork" /\ pc' = IF b THEN "kill" ELSE "wait1"
      /\ ProcInv /\ TableInv /\ OnlyLeaders /\ NotesAreStops
      /\ UNCHANGED <<procVars, line>>
  <2>1. g \in Groups /\ line[g] # "none" /\ b \in BOOLEAN
    BY <1>1, <1>2 DEF ParentFork, IInv, ThreadInv, Starting, Background
  <2>2. /\ pc = "parent_fork" /\ pc' = IF b THEN "kill" ELSE "wait1"
        /\ cur' = g /\ UNCHANGED <<procVars, line>>
    BY <1>1, <1>2 DEF ParentFork, Goto
  <2> QED BY <2>1, <2>2 DEF IInv, SInv
<1>4. T!add_job(g, b)
  <2>1. Tabled(line[g])
    BY <1>3 DEF OnlyLeaders, Tabled, ForkingLines
  <2> QED BY <1>1, <1>2, <2>1 DEF ParentFork
<1>5. OnlyLeaders' /\ AllCalm
  BY <1>3, SameProgress, LeadersKept, SameCalm
<1>6. CASE overrun'
  BY <1>5, <1>6 DEF SInv, AllCalm, SinglesOnly
<1>7. CASE ~overrun'
  <2>1. ~overrun /\ ~T!Listed(g) /\ Elsewhere(g) /\ StoredOnce(g, b)
    BY <1>3, <1>4, <1>7, AddRecords
  <2>2. ~(proc[Leader(g)] = "stopped" /\ Leader(g) \notin note)
    <3>1. Recorded(g)
      BY <1>3, <2>1 DEF SInv, AllRecorded
    <3> QED BY <2>1, <3>1 DEF Recorded, T!Listed, T!Suspended, T!Used
  <2>3. Recorded(g)'
    <3>1. PICK i \in T!Slots : T!Holds(i, g)'
      BY <2>1 DEF StoredOnce
    <3>2. job_table'[i].bg = b
      BY <2>1, <3>1 DEF StoredOnce
    <3>3. b => i \in T!Resumable'
      BY <3>1, <3>2 DEF T!Resumable, T!Holds
    <3>4. ~b => InHand(g)'
      BY <1>3 DEF InHand
    <3>5. \A k \in T!Suspended' : ~T!Holds(k, g)'
      BY <2>1 DEF StoredOnce, T!Suspended, T!Used
    <3>6. ~(proc'[Leader(g)] = "stopped" /\ Leader(g) \notin note')
      BY <1>3, <2>2 DEF procVars
    <3> QED BY <1>3, <3>1, <3>3, <3>4, <3>5, <3>6 DEF Recorded, Leader
  <2>4. WaitsFor'
    BY <1>3 DEF WaitsFor
  <2> QED BY <1>1, <1>3, <1>5, <2>1, <2>3, <2>4, FocusSeen DEF AllCalm, StoredOnce
<1> QED BY <1>6, <1>7

\* The end of the job of g, collected while no other job is in hand.
LEMMA EndSeen ==
  ASSUME IInv, SInv, NEW g \in Groups, pc = "check" \/ cur = g, ~overrun,
         OnlyLeaders', AllCalm, ~Alive(Leader(g))', Elsewhere(g), NoNewSlot(g), WaitsFor'
  PROVE  SInv'
<1>1. \A i, k \in T!Slots : T!Holds(i, g)' /\ T!Holds(k, g)' => i = k
  BY DEF SInv, OneSlotEach, NoNewSlot
<1> QED BY <1>1, DeadRecorded, FocusSeen DEF AllCalm

\* A wait returns the stop of the job of g, which the table lists.
LEMMA StopSeen ==
  ASSUME IInv, SInv, NEW g \in Groups, cur = g, T!Listed(g), Leader(g) \in note,
         T!update_status(g, "stopped"), note' = note \ {Leader(g)},
         UNCHANGED <<proc, ingrp, doomed, line>>, pc' \in {"recv", "kill"}
  PROVE  SInv'
<1>1. ~overrun /\ OneSlotEach /\ TableInv /\ NotesAreStops /\ OnlyLeaders /\ ProcInv
  BY DEF SInv, IInv, T!update_status
<1>2. Elsewhere(g) /\ NoNewSlot(g) /\ MarkedStopped(g)
  BY <1>1, UpdateRecords
<1>3. PICK i \in T!Slots : T!Holds(i, g)
  BY DEF T!Listed
<1>4. T!Holds(i, g)' /\ job_table'[i].status = 0 /\ job_table'[i].bg
  BY <1>2, <1>3 DEF MarkedStopped
<1>5. \A k \in T!Slots : T!Holds(k, g)' => k = i
  BY <1>1, <1>2, <1>3 DEF NoNewSlot, OneSlotEach
<1>6. i \in T!Suspended' /\ i \in T!Resumable'
  BY <1>4 DEF T!Suspended, T!Resumable, T!Holds
<1>7. proc'[Leader(g)] = "stopped"
  BY <1>1 DEF NotesAreStops
<1>8. Recorded(g)'
  <2>1. T!Suspended' \subseteq T!Slots
    BY DEF T!Suspended, T!Used
  <2> QED BY <1>4, <1>5, <1>6, <1>7, <2>1 DEF Recorded, Leader
<1>9. NotesAreStops' /\ \A h \in Groups \ {g} : Calm(h)
  BY <1>1, NoteCalm
<1>10. OnlyLeaders'
  BY <1>1 DEF OnlyLeaders, Born
<1>11. WaitsFor'
  BY DEF WaitsFor
<1> QED BY <1>1, <1>2, <1>5, <1>8, <1>9, <1>10, <1>11, FocusSeen

LEMMA CheckJobsSeen ==
  ASSUME IInv, SInv, CheckJobs
  PROVE  SInv'
<1>1. /\ pc = "check" /\ pc' = "check" /\ UNCHANGED line
      /\ ProcInv /\ TableInv /\ OnlyLeaders /\ NotesAreStops
  BY DEF CheckJobs, threadVars, IInv, SInv
<1>2. ASSUME NEW p \in Zombies(Procs), Reap(p), StatusOfProcess(p, "exited") PROVE SInv'
  <2>1. p \in Procs /\ proc[p] = "zombie" /\ Born(p)
    BY DEF Zombies, Born
  <2>2. PICK g \in Groups : g = p[1] /\ p = Leader(g)
    BY <1>1, <2>1, BornLeads
  <2>3. T!update_status(g, "exited")
    BY <1>2, <2>2 DEF StatusOfProcess
  <2>4. ~overrun
    BY <2>3 DEF T!update_status
  <2>5. Elsewhere(g) /\ NoNewSlot(g)
    BY <1>1, <2>3, <2>4, UpdateRecords DEF SInv
  <2>6. Progress /\ AllCalm /\ proc'[p] = "gone"
    BY <1>1, <1>2, <2>1, ReapProgress, ReapCalm
  <2>7. OnlyLeaders' /\ WaitsFor' /\ ~Alive(Leader(g))'
    BY <1>1, <2>2, <2>6, LeadersKept DEF WaitsFor, Alive, Leader
  <2> QED BY <1>1, <2>4, <2>5, <2>6, <2>7, EndSeen
<1>3. CASE UNCHANGED <<tableVars, procVars>>
  BY <1>1, <1>3, SameProgress, SameCalm, LeadersKept, FreeHands
<1> QED BY <1>2, <1>3 DEF CheckJobs

LEMMA FgWaitSeen ==
  ASSUME IInv, SInv, FgWait
  PROVE  SInv'
<1>1. PICK g : g = cur
  OBVIOUS
<1>2. /\ g \in Groups /\ pc = "fgwait" /\ pc' = "recv" /\ UNCHANGED line
      /\ ProcInv /\ TableInv /\ OnlyLeaders /\ NotesAreStops
      /\ ~overrun /\ T!Listed(g) /\ Leader(g) \in ingrp
  BY <1>1
  DEF FgWait, Prompt, Goto, IInv, ThreadInv, StageInv, WaitsListed, SInv, WaitsFor
<1>3. WaitsFor'
  BY <1>2 DEF WaitsFor
<1>4. \A p \in Members(g) : p = Leader(g)
  BY <1>2, MembersFacts, BornLeads
<1>5. ASSUME NEW p \in Zombies(Members(g)), Reap(p), StatusOfProcess(p, "exited")
      PROVE  SInv'
  <2>1. p \in Procs /\ p = Leader(g) /\ proc[p] = "zombie"
    BY <1>4, MembersFacts DEF Zombies
  <2>2. T!update_status(g, "exited")
    BY <1>2, <1>5, <2>1, LeaderFacts DEF StatusOfProcess
  <2>3. Elsewhere(g) /\ NoNewSlot(g)
    BY <1>2, <2>2, UpdateRecords DEF SInv
  <2>4. Progress /\ AllCalm /\ proc'[p] = "gone"
    BY <1>2, <1>5, <2>1, ReapProgress, ReapCalm
  <2>5. OnlyLeaders' /\ ~Alive(Leader(g))'
    BY <1>2, <2>1, <2>4, LeadersKept DEF Alive, Leader
  <2> QED BY <1>1, <1>2, <1>3, <2>3, <2>4, <2>5, EndSeen
<1>6. ASSUME NEW p \in Members(g) \cap note, note' = note \ {p},
             StatusOfProcess(p, "stopped"), UNCHANGED <<proc, ingrp, doomed>>
      PROVE  SInv'
  <2>1. p = Leader(g)
    BY <1>4
  <2>2. T!update_status(g, "stopped")
    BY <1>2, <1>6, <2>1, LeaderFacts DEF StatusOfProcess
  <2> QED BY <1>1, <1>2, <1>6, <2>1, <2>2, StopSeen
<1>7. CASE Members(g) = {} /\ UNCHANGED <<tableVars, procVars>>
  <2>1. Progress /\ AllCalm /\ OnlyLeaders'
    BY <1>2, <1>7, SameProgress, SameCalm, LeadersKept
  <2>2. proc[Leader(g)] = "gone"
    BY <1>2, <1>7, LeaderFacts DEF ProcInv, Members, ProcsOf, Born
  <2>3. ~Alive(Leader(g))'
    BY <1>7, <2>2 DEF Alive, Leader, procVars
  <2>4. Elsewhere(g) /\ NoNewSlot(g)
    BY <1>2, <1>7, UntouchedRecords
  <2> QED BY <1>1, <1>2, <1>3, <2>1, <2>3, <2>4, EndSeen
<1> QED BY <1>1, <1>5, <1>6, <1>7 DEF FgWait

LEMMA Wait1Seen ==
  ASSUME IInv, SInv, Wait1
  PROVE  SInv'
<1>1. PICK g : g = cur
  OBVIOUS
<1>2. /\ g \in Groups /\ pc = "wait1" /\ line[g] # "none"
      /\ pc' \in {"kill", "wait2", "wait0"} /\ pc' \in Reads'
      /\ UNCHANGED <<cur, line>>
      /\ ProcInv /\ TableInv /\ OnlyLeaders /\ NotesAreStops
      /\ Leader(g) \in ingrp
  BY <1>1, LoopTestFacts DEF Wait1, LoopTest, IInv, ThreadInv, StageInv, Waiting, SInv
<1>3. \A p \in Members(g) : p = Leader(g)
  BY <1>2, MembersFacts, BornLeads
<1>4. ASSUME NEW s, T!update_status(g, s), Progress, AllCalm, proc'[Leader(g)] = "gone"
      PROVE  SInv'
  <2>1. ~overrun
    BY <1>4 DEF T!update_status
  <2>2. Elsewhere(g) /\ NoNewSlot(g)
    BY <1>2, <1>4, <2>1, UpdateRecords DEF SInv
  <2>3. OnlyLeaders' /\ ~Alive(Leader(g))'
    BY <1>2, <1>4, LeadersKept DEF Alive, Leader
  <2>4. WaitsFor'
    BY <1>1, <1>2, <1>4 DEF WaitsFor, Leader
  <2> QED BY <1>1, <1>2, <1>4, <2>1, <2>2, <2>3, <2>4, EndSeen
<1>5. ASSUME NEW p \in Zombies(Members(g)), Reap(p), T!update_status(g, "exited")
      PROVE  SInv'
  <2>1. p \in Procs /\ p = Leader(g) /\ proc[p] = "zombie"
    BY <1>3, MembersFacts DEF Zombies
  <2> QED BY <1>2, <1>4, <1>5, <2>1, ReapProgress, ReapCalm
<1>6. ASSUME NEW p \in Members(g) \cap note, note' = note \ {p},
             T!update_status(g, "stopped"), UNCHANGED <<proc, ingrp, doomed>>
      PROVE  SInv'
  <2>1. p = Leader(g) /\ p \in note /\ proc[p] = "stopped"
    BY <1>2, <1>3 DEF NotesAreStops
  <2>2. ~overrun
    BY <1>6 DEF T!update_status
  <2>3. T!Listed(g)
    <3>1. Tabled(line[g])
      BY <1>2 DEF OnlyLeaders, Tabled, ForkingLines
    <3>2. ~HasGone(g)
      <4>1. ASSUME NEW q \in Procs, q[1] = g, proc[q] = "gone" PROVE FALSE
        <5>1. q = Leader(g)
          BY <1>2, <4>1, BornLeads DEF Born
        <5> QED BY <2>1, <4>1, <5>1
      <4> QED BY <4>1 DEF HasGone
    <3> QED BY <1>1, <1>2, <2>2, <3>1, <3>2 DEF IInv, WaitsListed, Waiting
  <2>4. Elsewhere(g) /\ NoNewSlot(g) /\ MarkedStopped(g)
    BY <1>2, <1>6, <2>2, UpdateRecords DEF SInv
  <2>5. PICK i \in T!Slots : T!Holds(i, g)
    BY <2>3 DEF T!Listed
  <2>6. T!Holds(i, g)' /\ job_table'[i].bg
    BY <2>4, <2>5 DEF MarkedStopped
  <2>7. \A k \in T!Slots : T!Holds(k, g)' => k = i
    BY <1>2, <2>2, <2>4, <2>5 DEF NoNewSlot, SInv, OneSlotEach
  <2>8. cur' = g
    BY <1>1, <1>2
  <2>9. ~JobFreed'
    BY <2>6, <2>8 DEF JobFreed, T!Listed, T!Holds
  <2>10. InBackground'
    <3>1. \A k \in T!Slots : T!Holds(k, g)' => i <= k
      BY <2>7, TableFacts
    <3> QED BY <2>6, <2>8, <3>1 DEF InBackground, T!get_job, T!Holds
  <2>11. pc' = "kill"
    BY <1>2, <2>9, <2>10 DEF Reads
  <2> QED BY <1>1, <1>2, <1>6, <2>1, <2>3, <2>11, StopSeen
<1>7. ASSUME Members(g) = {}, NEW s, T!update_status(g, s), UNCHANGED procVars
      PROVE  SInv'
  <2>1. proc[Leader(g)] = "gone"
    BY <1>2, <1>7, LeaderFacts DEF ProcInv, Members, ProcsOf, Born
  <2>2. proc'[Leader(g)] = "gone"
    BY <1>7, <2>1 DEF procVars
  <2> QED BY <1>2, <1>4, <1>7, <2>2, SameProgress, SameCalm
<1> QED BY <1>1, <1>5, <1>6, <1>7 DEF Wait1

\* fg and bg mark the job where it is, in its only slot.
MovedTo(i, g, job) ==
  /\ g \in Groups /\ Elsewhere(g) /\ StoredAs(i, g, job)
  /\ \A k \in T!Slots : T!Holds(k, g)' => k = i

LEMMA MovedRecords ==
  ASSUME TableInv, OneSlotEach, NEW i \in T!Slots, i \in T!Used,
         NEW g, g = job_table[i].pgid, NEW new \in T!Job, new.pgid = g,
         job_table' = [job_table EXCEPT ![i] = new], UNCHANGED next_job
  PROVE  T!Holds(i, g) /\ MovedTo(i, g, new)
<1>1. T!Holds(i, g) /\ g \in Groups
  BY DEF T!Holds, T!Job
<1>2. Elsewhere(g) /\ NoNewSlot(g) /\ StoredAs(i, g, new)
  BY <1>1, MarkRecords
<1> QED BY <1>1, <1>2 DEF MovedTo, NoNewSlot, OneSlotEach

LEMMA ForegroundSeen ==
  ASSUME IInv, SInv, Foreground
  PROVE  SInv'
<1>1. /\ pc = "check" /\ UNCHANGED line
      /\ ProcInv /\ TableInv /\ OnlyLeaders /\ NotesAreStops
  BY DEF Foreground, Dispatch, Prompt, IInv, SInv
<1>2. ASSUME NEW i \in T!Slots, NEW g, g = job_table[i].pgid,
             T!fg_job(i), Resume(g), cur' = g, pc' = "fgwait"
      PROVE  SInv'
  <2>1. /\ ~overrun /\ i \in T!Used /\ UNCHANGED next_job
        /\ job_table' = [job_table EXCEPT ![i].bg = FALSE]
    BY <1>2 DEF T!fg_job, T!LastOf, T!Resumable
  <2>2. job_table[i] # NoJob /\ job_table[i] \in T!Job
    BY <1>1, <2>1 DEF TableInv, T!TypeOK, T!Used, T!InUse
  <2>3. PICK new : new = [job_table[i] EXCEPT !.bg = FALSE]
    OBVIOUS
  <2>4. job_table' = [job_table EXCEPT ![i] = new]
    BY <2>1, <2>3
  <2>5. new \in T!Job /\ new.pgid = g
    BY <1>1, <1>2, <2>2, <2>3, MarkedJob
  <2>6. ~new.bg
    BY <2>2, <2>3 DEF T!Job
  <2>7. OneSlotEach
    BY <2>1 DEF SInv
  <2>8. MovedTo(i, g, new)
    BY <1>1, <1>2, <2>1, <2>4, <2>5, <2>7, MovedRecords
  <2>9. /\ g \in Groups /\ Elsewhere(g) /\ T!Holds(i, g)' /\ ~job_table'[i].bg
        /\ \A k \in T!Slots : T!Holds(k, g)' => k = i
    BY <2>6, <2>8 DEF MovedTo, StoredAs
  <2>10. /\ \A h \in Groups \ {g} : Calm(h)
         /\ NotesAreStops' /\ proc'[Leader(g)] # "stopped"
    BY <1>1, <1>2, <2>9, ResumeCalm
  <2>11. OnlyLeaders'
    BY <1>1, <1>2, ResumeProgress, LeadersKept
  <2>12. Recorded(g)'
    <3>1. InHand(g)'
      BY <1>2 DEF InHand
    <3>2. T!Suspended' \subseteq T!Slots
      BY DEF T!Suspended, T!Used
    <3> QED BY <1>2, <2>9, <2>10, <3>1, <3>2 DEF Recorded, Leader
  <2>13. WaitsFor'
    <3>1. T!Listed(g)'
      BY <2>9 DEF T!Listed
    <3> QED BY <1>2, <3>1 DEF WaitsFor, T!Listed, T!Holds, T!Used, T!InUse
  <2> QED BY <1>1, <2>1, <2>9, <2>10, <2>11, <2>12, <2>13, FocusSeen
<1>3. CASE Prompt /\ UNCHANGED <<tableVars, procVars>>
  <2>1. Progress /\ AllCalm /\ OnlyLeaders'
    BY <1>1, <1>3, SameProgress, SameCalm, LeadersKept
  <2> QED BY <1>1, <1>3, <2>1, FreeHands DEF Prompt, Goto
<1> QED BY <1>2, <1>3 DEF Foreground, Goto

LEMMA BackgroundLastSeen ==
  ASSUME IInv, SInv, BackgroundLast
  PROVE  SInv'
<1>1. /\ pc = "check" /\ pc' = "recv" /\ UNCHANGED line
      /\ ProcInv /\ TableInv /\ OnlyLeaders /\ NotesAreStops
  BY DEF BackgroundLast, Dispatch, Prompt, Goto, IInv, SInv
<1>2. ASSUME NEW i \in T!Slots, T!bg_job(i), Resume(job_table[i].pgid) PROVE SInv'
  <2> PICK g : g = job_table[i].pgid
    OBVIOUS
  <2>1. /\ ~overrun /\ i \in T!Used /\ job_table[i].status = 0 /\ UNCHANGED next_job
        /\ job_table' = [job_table EXCEPT ![i].status = 1]
    BY <1>2 DEF T!bg_job, T!LastOf, T!Suspended
  <2>2. job_table[i] # NoJob /\ job_table[i] \in T!Job
    BY <1>1, <2>1 DEF TableInv, T!TypeOK, T!Used, T!InUse
  <2>3. PICK new : new = [job_table[i] EXCEPT !.status = 1]
    OBVIOUS
  <2>4. job_table' = [job_table EXCEPT ![i] = new]
    BY <2>1, <2>3
  <2>5. new \in T!Job /\ new.pgid = g
    BY <1>1, <2>2, <2>3, MarkedJob
  <2>6. new.status = 1 /\ new.bg = job_table[i].bg
    BY <2>2, <2>3 DEF T!Job
  <2>7. OneSlotEach
    BY <2>1 DEF SInv
  <2>8. T!Holds(i, g) /\ MovedTo(i, g, new)
    BY <1>1, <2>1, <2>4, <2>5, <2>7, MovedRecords
  <2>9. /\ g \in Groups /\ Elsewhere(g) /\ T!Holds(i, g)'
        /\ job_table'[i].status = 1 /\ job_table'[i].bg = job_table[i].bg
        /\ \A k \in T!Slots : T!Holds(k, g)' => k = i
    BY <2>6, <2>8 DEF MovedTo, StoredAs
  <2>10. /\ \A h \in Groups \ {g} : Calm(h)
         /\ NotesAreStops' /\ proc'[Leader(g)] # "stopped"
         /\ Alive(Leader(g))' => Alive(Leader(g))
    BY <1>1, <1>2, <2>9, ResumeCalm
  <2>11. OnlyLeaders'
    BY <1>1, <1>2, ResumeProgress, LeadersKept
  <2>12. Recorded(g)'
    <3>1. Alive(Leader(g)) => job_table[i].bg
      <4>1. Recorded(g)
        BY <2>1, <2>9 DEF SInv, AllRecorded
      <4>2. i \in T!Suspended
        BY <2>1 DEF T!Suspended
      <4> QED BY <1>1, <2>8, <4>1, <4>2 DEF Recorded
    <3>2. job_table[i].bg => i \in T!Resumable'
      BY <2>9 DEF T!Resumable, T!Holds
    <3>3. \A k \in T!Suspended' : ~T!Holds(k, g)'
      BY <2>9 DEF T!Suspended, T!Used
    <3>4. Alive(Leader(g))' => \E k \in T!Resumable' : T!Holds(k, g)'
      BY <2>9, <2>10, <3>1, <3>2
    <3> QED BY <2>10, <3>3, <3>4 DEF Recorded, Leader
  <2>13. WaitsFor'
    BY <1>1 DEF WaitsFor
  <2> QED BY <1>1, <2>1, <2>9, <2>10, <2>11, <2>12, <2>13, FocusSeen
<1>3. CASE UNCHANGED <<tableVars, procVars>>
  <2>1. Progress /\ AllCalm /\ OnlyLeaders'
    BY <1>1, <1>3, SameProgress, SameCalm, LeadersKept
  <2> QED BY <1>1, <1>3, <2>1, FreeHands
<1> QED BY <1>2, <1>3 DEF BackgroundLast

-----------------------------------------------------------------------------
(* The records hold.                                                       *)

LEMMA InitSeen == SinglesOnly /\ Init => SInv
<1> SUFFICES ASSUME SinglesOnly, Init PROVE SInv
  OBVIOUS
<1>1. T!Used = {}
  BY DEF Init, T!Init, T!Used, T!InUse
<1>2. OnlyLeaders /\ NotesAreStops
  BY LeaderFacts DEF Init, OnlyLeaders, NotesAreStops, Born
<1>3. OneSlotEach /\ WaitsFor
  BY <1>1 DEF Init, OneSlotEach, WaitsFor, T!Holds
<1>4. AllRecorded
  BY <1>1, LeaderFacts DEF Init, AllRecorded, Recorded, Alive, T!Holds
<1> QED BY <1>2, <1>3, <1>4 DEF SInv

LEMMA NextSeen == IInv /\ SInv /\ [Next]_shellVars => SInv'
<1> SUFFICES ASSUME IInv, SInv, [Next]_shellVars PROVE SInv'
  OBVIOUS
<1>1. CASE ThreadNext
  BY <1>1, ThreadSeen, CheckJobsSeen, ForegroundSeen, BackgroundLastSeen, FgWaitSeen,
     StartCommandSeen, ForkSeen, ParentSetpgidSeen, ParentForkSeen, Wait1Seen,
     LaterWaitsSeen
  DEF ThreadNext
<1>2. CASE ~ThreadNext
  BY <1>2, OutsideSeen DEF Next
<1> QED BY <1>1, <1>2

LEMMA AlwaysSeen == SinglesOnly /\ Spec => []SInv
BY InitSeen, NextSeen, Inductive, PTL DEF Spec

LEMMA SeenMeans == IInv /\ SInv /\ ~overrun => LiveJobIsCandidate /\ StopsAreRecorded
<1> SUFFICES ASSUME IInv, SInv, ~overrun PROVE LiveJobIsCandidate /\ StopsAreRecorded
  OBVIOUS
<1>1. OnlyLeaders /\ AllRecorded
  BY DEF SInv
<1>2. ASSUME NEW p \in Procs, Alive(p)
      PROVE  p[1] \in Groups /\ p = Leader(p[1]) /\ Recorded(p[1])
  BY <1>1, <1>2, BornLeads DEF Alive, Born, AllRecorded
<1>3. LiveJobIsCandidate
  BY <1>2 DEF LiveJobIsCandidate, Recorded, InHand
<1>4. ASSUME NEW p \in Procs, proc[p] = "stopped", p \notin note
      PROVE  \E i \in T!Suspended : T!Holds(i, p[1])
  BY <1>2, <1>4 DEF Alive, Recorded
<1>5. ASSUME NEW i \in T!Suspended, job_table[i].bg,
             NEW p \in LiveOf(job_table[i].pgid)
      PROVE  proc[p] = "stopped"
  <2>1. PICK g : g = job_table[i].pgid
    OBVIOUS
  <2>2. p \in Procs /\ Alive(p) /\ p[1] = g
    BY <2>1 DEF LiveOf, ProcsOf
  <2>3. p = Leader(g) /\ Recorded(g)
    BY <1>2, <2>2
  <2>4. T!Holds(i, g)
    BY <2>1 DEF T!Suspended, T!Holds
  <2> QED BY <1>5, <2>2, <2>3, <2>4 DEF Recorded
<1> QED BY <1>3, <1>4, <1>5 DEF StopsAreRecorded

\* When the client starts single programs only, then at every prompt, until the
\* table overruns, fg considers each process that is alive, in whatever order
\* the thread, the receivers, the children and the handler ran.
THEOREM SinglesStaySeen == SinglesOnly /\ Spec => [](~overrun => LiveJobIsCandidate)
BY AlwaysSeen, Inductive, SeenMeans, PTL

\* For such a client each stop that a wait returned is recorded, so that bg
\* finds the job, and a job recorded as stopped in the background does not run.
THEOREM SingleStopsRecorded == SinglesOnly /\ Spec => [](~overrun => StopsAreRecorded)
BY AlwaysSeen, Inductive, SeenMeans, PTL
=============================================================================
