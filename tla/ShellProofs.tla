----------------------------- MODULE ShellProofs -----------------------------
(***************************************************************************)
(* Proofs about one connection of yashd, for any number of commands, any   *)
(* queue and any table.  Two facts carry them.  The leader of a job is in  *)
(* its process group before the job is listed or waited for, because the   *)
(* thread and the child both call setpgid; so a group found empty is one   *)
(* whose leader was collected.  And the table loses a job only through a   *)
(* wait that collected one of its processes, or such an empty group.       *)
(***************************************************************************)
EXTENDS Shell, FiniteSetTheorems, SequenceTheorems, TLAPS

\* The part of JobTable's invariant that its operations need here.
TableInv == T!TypeOK /\ T!IndexIsSlot /\ T!TopWithinArray

Born(p) == proc[p] # "unborn"

\* The places where the thread has a command of its own in hand.
Starting == {"fork", "setpgid", "parent_fork"}
Waiting == {"wait1", "wait2", "wait0"}

QueueInv ==
  /\ sock \in Seq(Lines) /\ Len(sock) <= MaxQueue
  /\ msg \in Lines \cup {"none"}
  /\ pc \notin {"check", "fgwait"} => msg = "none"
  /\ pc = "fgwait" => msg = "fg"
  /\ line \in [Groups -> ForkingLines \cup {"none"}]
  /\ \A g \in Groups : line[g] # "none" <=> g <= started
  /\ started + ForkingInFlight <= MaxStarts

ThreadInv ==
  /\ hup \in BOOLEAN
  /\ pc \in ThreadStates
  /\ cur \in Groups \cup {0}
  /\ pc \in Starting \cup Waiting \cup {"kill", "fgwait"} => cur \in Groups
  /\ pc \in Starting \cup Waiting => line[cur] # "none"

ProcInv ==
  /\ proc \in [Procs -> ProcStates]
  /\ ingrp \subseteq Procs
  /\ note \subseteq ingrp /\ doomed \subseteq ingrp
  /\ rcv \in [Groups -> ReceiverStates]
  /\ sigchld \in BOOLEAN
  /\ \A p \in Procs : line[p[1]] = "none" => ~Born(p)
  /\ \A g \in Groups : Born(<<g, 2>>) => Born(Leader(g))
  /\ \A p \in ingrp : Born(p)
  /\ \A g \in Groups : proc[Leader(g)] \notin {"unborn", "new"} => Leader(g) \in ingrp

\* How far the command in hand has been forked.
StageInv ==
  /\ pc = "fork" =>
       /\ ~Born(<<cur, 2>>)
       /\ Born(Leader(cur)) => Leader(cur) \in ingrp /\ Width(line[cur]) = 2
  /\ pc = "setpgid" =>
       /\ Born(Leader(cur))
       /\ Born(<<cur, 2>>) => Leader(cur) \in ingrp
  /\ pc \in {"parent_fork", "fgwait"} \cup Waiting => Leader(cur) \in ingrp

ListedHeld == \A g \in Groups : T!Listed(g) => Leader(g) \in ingrp

HasGone(g) == \E p \in Procs : p[1] = g /\ proc[p] = "gone"

\* While the thread waits for its job the table has lost it only if a process
\* of it was collected, or the table overran.
WaitsListed ==
  /\ pc \in Waiting /\ Tabled(line[cur]) /\ ~T!Listed(cur) => overrun \/ HasGone(cur)
  /\ pc \in {"wait2", "wait0", "fgwait"} => ~overrun
  /\ pc = "wait0" => HasGone(cur)

IInv ==
  /\ TableInv
  /\ QueueInv
  /\ ThreadInv
  /\ ProcInv
  /\ StageInv
  /\ ListedHeld
  /\ WaitsListed

-----------------------------------------------------------------------------
(* The table.                                                              *)

LEMMA TableFacts ==
  /\ MaxJobs \in Nat /\ MaxJobs > 0
  /\ T!Slots = 0 .. MaxJobs - 1
  /\ NoJob \notin T!Job
BY ShellAssumption DEF T!Slots, T!Job

\* What an operation of the table does to the groups that are listed: freed is
\* the group whose job it may free.
Keeps(freed) ==
  /\ UNCHANGED overrun
  /\ \A h \in Groups : T!Listed(h)' => T!Listed(h)
  /\ \A h \in Groups \ freed : T!Listed(h) => T!Listed(h)'

\* add_job keeps the slots of the others, and lists its group unless the table
\* is full.
LEMMA AddJobFacts ==
  ASSUME TableInv, NEW g \in Groups, NEW b \in BOOLEAN, T!add_job(g, b)
  PROVE  /\ TableInv'
         /\ \A h \in Groups : T!Listed(h)' => T!Listed(h) \/ h = g
         /\ \A h \in Groups : T!Listed(h) => T!Listed(h)'
         /\ T!Listed(g)' \/ overrun'
<1> USE TableFacts DEF T!Listed, T!Holds, T!Used, T!InUse
<1>1. CASE next_job \in T!Slots
  <2> DEFINE new == [pgid |-> g, status |-> 1, bg |-> b, index |-> next_job]
  <2>1. /\ job_table' = [job_table EXCEPT ![next_job] = new]
        /\ next_job' = next_job + 1
        /\ UNCHANGED <<overrun, ordered>>
        /\ ~overrun
    BY <1>1 DEF T!add_job
  <2>2. new \in T!Job /\ new.pgid = g /\ new.index = next_job /\ new # NoJob
    BY <1>1 DEF T!Job
  <2> HIDE DEF new
  <2>3. /\ job_table \in [T!Slots -> T!Job \cup {NoJob}]
        /\ next_job \in 0 .. MaxJobs - 1
    BY <1>1 DEF TableInv, T!TypeOK
  <2>4. \A i \in T!Slots : job_table'[i] = IF i = next_job THEN new ELSE job_table[i]
    BY <2>1, <2>3
  <2>5. TableInv'
    BY <2>1, <2>2, <2>3, <2>4
    DEF TableInv, T!TypeOK, T!IndexIsSlot, T!TopWithinArray
  <2>6. \A i \in T!Slots : i < next_job => i < next_job' /\ i # next_job
    BY <2>1, <2>3
  <2>7. \A i \in T!Slots : i < next_job' => i < next_job \/ i = next_job
    BY <2>1, <2>3
  <2>8. T!Listed(g)'
    BY <1>1, <2>1, <2>2, <2>3, <2>4
  <2> QED BY <2>2, <2>4, <2>5, <2>6, <2>7, <2>8
<1>2. CASE next_job \notin T!Slots
  <2>1. /\ job_table' = job_table /\ next_job' = next_job + 1
        /\ overrun' = TRUE /\ ordered' = ordered /\ ~overrun
    BY <1>2 DEF T!add_job
  <2>2. next_job = MaxJobs
    BY <1>2, <2>1 DEF TableInv, T!TypeOK, T!TopWithinArray
  <2>3. TableInv'
    BY <2>1, <2>2
    DEF TableInv, T!TypeOK, T!IndexIsSlot, T!TopWithinArray, T!Slots
  <2>4. \A i \in T!Slots : i < next_job /\ i < next_job'
    BY <2>1, <2>2
  <2>5. \A h \in Groups : T!Listed(h)' <=> T!Listed(h)
    BY <2>1, <2>4
  <2> QED BY <2>1, <2>3, <2>5
<1> QED BY <1>1, <1>2

\* Freeing a job clears its own slot, and lowers next_job only past that slot.
LEMMA FreeFacts ==
  ASSUME TableInv, ~overrun, NEW g \in Groups, NEW i \in T!Slots,
         T!Holds(i, g), T!free_job(i)
  PROVE  TableInv' /\ Keeps({g})
<1> USE TableFacts DEF T!Listed, T!Holds, T!Used, T!InUse
<1>1. /\ job_table[i].index = i /\ i < next_job /\ job_table[i].pgid = g
      /\ job_table \in [T!Slots -> T!Job \cup {NoJob}]
      /\ next_job \in 0 .. MaxJobs
  BY DEF TableInv, T!TypeOK, T!IndexIsSlot, T!TopWithinArray
<1>2. /\ job_table' = [job_table EXCEPT ![i] = NoJob]
      /\ next_job' = IF next_job - 1 = i THEN next_job - 1 ELSE next_job
      /\ ordered' \in BOOLEAN /\ overrun' = overrun
  BY <1>1 DEF T!free_job
<1>3. \A k \in T!Slots : job_table'[k] = IF k = i THEN NoJob ELSE job_table[k]
  BY <1>1, <1>2
<1>4. TableInv'
  BY <1>1, <1>2, <1>3
  DEF TableInv, T!TypeOK, T!IndexIsSlot, T!TopWithinArray
<1>5. \A k \in T!Slots : k # i => (k < next_job' <=> k < next_job)
  BY <1>1, <1>2
<1>6. \A h \in Groups : T!Listed(h)' => T!Listed(h)
  BY <1>3, <1>5
<1>7. \A h \in Groups \ {g} : T!Listed(h) => T!Listed(h)'
  BY <1>1, <1>3, <1>5
<1> QED BY <1>2, <1>4, <1>6, <1>7 DEF Keeps

\* Another status or another place of the job frees nothing.
LEMMA MarkFacts ==
  ASSUME TableInv, NEW i \in T!Slots, job_table[i] # NoJob, NEW new \in T!Job,
         new.pgid = job_table[i].pgid, new.index = job_table[i].index,
         job_table' = [job_table EXCEPT ![i] = new],
         UNCHANGED <<next_job, overrun, ordered>>
  PROVE  TableInv' /\ Keeps({})
<1> USE TableFacts DEF T!Listed, T!Holds, T!Used, T!InUse
<1>1. job_table \in [T!Slots -> T!Job \cup {NoJob}] /\ new # NoJob
  BY DEF TableInv, T!TypeOK
<1>2. \A k \in T!Slots : job_table'[k] = IF k = i THEN new ELSE job_table[k]
  BY <1>1
<1>3. TableInv'
  BY <1>1, <1>2 DEF TableInv, T!TypeOK, T!IndexIsSlot, T!TopWithinArray
<1>4. \A h \in Groups : T!Listed(h)' <=> T!Listed(h)
  BY <1>1, <1>2
<1> QED BY <1>3, <1>4 DEF Keeps

LEMMA UntouchedFacts ==
  ASSUME TableInv, UNCHANGED tableVars
  PROVE  TableInv' /\ Keeps({})
<1>1. TableInv'
  BY DEF tableVars, TableInv, T!TypeOK, T!IndexIsSlot, T!TopWithinArray
<1>2. \A h \in Groups : T!Listed(h)' <=> T!Listed(h)
  BY DEF tableVars, T!Listed, T!Holds, T!Used, T!InUse
<1> QED BY <1>1, <1>2 DEF Keeps, tableVars

\* The four places where a job is marked give it a well-formed record.
LEMMA MarkedJob ==
  ASSUME TableInv, NEW i \in T!Slots, job_table[i] # NoJob
  PROVE  /\ \A s \in {0, 1} :
              /\ [job_table[i] EXCEPT !.status = s] \in T!Job
              /\ [job_table[i] EXCEPT !.status = s].pgid = job_table[i].pgid
              /\ [job_table[i] EXCEPT !.status = s].index = job_table[i].index
         /\ \A b \in BOOLEAN :
              /\ [job_table[i] EXCEPT !.bg = b] \in T!Job
              /\ [job_table[i] EXCEPT !.bg = b].pgid = job_table[i].pgid
              /\ [job_table[i] EXCEPT !.bg = b].index = job_table[i].index
         /\ [job_table[i] EXCEPT !.status = 0, !.bg = TRUE] \in T!Job
         /\ [job_table[i] EXCEPT !.status = 0, !.bg = TRUE].pgid = job_table[i].pgid
         /\ [job_table[i] EXCEPT !.status = 0, !.bg = TRUE].index = job_table[i].index
<1>1. job_table[i] \in T!Job
  BY DEF TableInv, T!TypeOK
<1> QED BY <1>1 DEF T!Job

LEMMA SetJobFacts ==
  ASSUME TableInv, NEW g \in Groups, NEW s \in {0, 1}, T!set_job(g, s),
         UNCHANGED <<next_job, overrun, ordered>>
  PROVE  TableInv' /\ Keeps({})
<1>1. CASE UNCHANGED job_table
  BY <1>1, UntouchedFacts DEF tableVars
<1>2. CASE \E i \in T!Slots :
             /\ T!get_job(g, i)
             /\ job_table' = [job_table EXCEPT ![i].status = s]
  <2>1. PICK i \in T!Slots :
          /\ T!get_job(g, i)
          /\ job_table' = [job_table EXCEPT ![i].status = s]
    BY <1>2
  <2>2. job_table[i] # NoJob
    BY <2>1 DEF T!get_job, T!Holds, T!Used, T!InUse
  <2>3. PICK new : new = [job_table[i] EXCEPT !.status = s]
    OBVIOUS
  <2>4. job_table' = [job_table EXCEPT ![i] = new]
    BY <2>1, <2>3
  <2>5. /\ new \in T!Job
        /\ new.pgid = job_table[i].pgid /\ new.index = job_table[i].index
    BY <2>2, <2>3, MarkedJob
  <2> QED BY <2>2, <2>4, <2>5, MarkFacts
<1> QED BY <1>1, <1>2 DEF T!set_job

\* update_status frees the job of the group it is given, and only for an end.
LEMMA UpdateFacts ==
  ASSUME TableInv, NEW g \in Groups, NEW s, T!update_status(g, s)
  PROVE  /\ TableInv' /\ Keeps({g})
         /\ s \notin {"exited", "signaled"} => Keeps({})
<1>1. ~overrun
  BY DEF T!update_status
<1>2. ASSUME Keeps({}) PROVE Keeps({g})
  BY <1>2 DEF Keeps
<1>3. CASE UNCHANGED tableVars
  BY <1>2, <1>3, UntouchedFacts
<1>4. CASE s \in {"exited", "signaled"} /\ T!job_exited(g)
  <2>1. CASE \E i \in T!Slots : T!get_job(g, i) /\ T!free_job(i)
    <3>1. PICK i \in T!Slots : T!get_job(g, i) /\ T!free_job(i)
      BY <2>1
    <3>2. T!Holds(i, g)
      BY <3>1 DEF T!get_job
    <3> QED BY <1>1, <1>4, <3>1, <3>2, FreeFacts
  <2>2. CASE UNCHANGED T!tableVars
    BY <1>3, <2>2 DEF T!tableVars, tableVars
  <2> QED BY <1>4, <2>1, <2>2 DEF T!job_exited
<1>5. CASE T!job_stopped(g)
  <2>1. CASE UNCHANGED job_table
    BY <1>2, <1>5, <2>1, UntouchedFacts DEF tableVars, T!job_stopped
  <2>2. CASE \E i \in T!Slots :
               /\ T!get_job(g, i)
               /\ job_table' = [job_table EXCEPT ![i].status = 0, ![i].bg = TRUE]
    <3>1. PICK i \in T!Slots :
            /\ T!get_job(g, i)
            /\ job_table' = [job_table EXCEPT ![i].status = 0, ![i].bg = TRUE]
      BY <2>2
    <3>2. job_table[i] # NoJob
      BY <3>1 DEF T!get_job, T!Holds, T!Used, T!InUse
    <3>3. PICK new : new = [job_table[i] EXCEPT !.status = 0, !.bg = TRUE]
      OBVIOUS
    <3>4. job_table \in [T!Slots -> T!Job \cup {NoJob}] /\ job_table[i] \in T!Job
      BY <3>2 DEF TableInv, T!TypeOK
    <3>5. job_table' = [job_table EXCEPT ![i] = new]
      BY <3>1, <3>3, <3>4 DEF T!Job
    <3>6. /\ new \in T!Job
          /\ new.pgid = job_table[i].pgid /\ new.index = job_table[i].index
      BY <3>2, <3>3, MarkedJob
    <3>7. UNCHANGED <<next_job, overrun, ordered>>
      BY <1>5 DEF T!job_stopped
    <3> QED BY <1>2, <3>2, <3>5, <3>6, <3>7, MarkFacts
  <2> QED BY <1>5, <2>1, <2>2 DEF T!job_stopped
<1>6. CASE T!job_cont(g)
  BY <1>2, <1>6, SetJobFacts DEF T!job_cont
<1>7. CASE \/ s \in {"exited", "signaled"} /\ T!job_exited(g)
           \/ T!job_stopped(g) \/ T!job_cont(g) \/ UNCHANGED T!tableVars
  BY <1>3, <1>4, <1>5, <1>6, <1>7 DEF T!tableVars, tableVars
<1> QED BY <1>7 DEF T!update_status

LEMMA FgJobFacts ==
  ASSUME TableInv, NEW i \in T!Slots, T!fg_job(i)
  PROVE  /\ TableInv' /\ Keeps({}) /\ ~overrun
         /\ job_table[i].pgid \in Groups /\ T!Listed(job_table[i].pgid)
<1>1. /\ ~overrun /\ i \in T!Used
      /\ job_table' = [job_table EXCEPT ![i].bg = FALSE]
      /\ UNCHANGED <<next_job, overrun, ordered>>
  BY DEF T!fg_job, T!LastOf, T!Resumable
<1>2. job_table[i] # NoJob
  BY <1>1 DEF T!Used, T!InUse
<1>3. PICK new : new = [job_table[i] EXCEPT !.bg = FALSE]
  OBVIOUS
<1>4. job_table' = [job_table EXCEPT ![i] = new]
  BY <1>1, <1>3
<1>5. /\ new \in T!Job
      /\ new.pgid = job_table[i].pgid /\ new.index = job_table[i].index
  BY <1>2, <1>3, MarkedJob
<1>6. TableInv' /\ Keeps({})
  BY <1>1, <1>2, <1>4, <1>5, MarkFacts
<1>7. job_table[i].pgid \in Groups
  BY <1>2 DEF TableInv, T!TypeOK, T!Job
<1>8. T!Listed(job_table[i].pgid)
  BY <1>1 DEF T!Listed, T!Holds
<1> QED BY <1>1, <1>6, <1>7, <1>8

LEMMA BgJobFacts ==
  ASSUME TableInv, NEW i \in T!Slots, T!bg_job(i)
  PROVE  /\ TableInv' /\ Keeps({})
         /\ job_table[i].pgid \in Groups
<1>1. /\ i \in T!Used
      /\ job_table' = [job_table EXCEPT ![i].status = 1]
      /\ UNCHANGED <<next_job, overrun, ordered>>
  BY DEF T!bg_job, T!LastOf, T!Suspended
<1>2. job_table[i] # NoJob
  BY <1>1 DEF T!Used, T!InUse
<1>3. PICK new : new = [job_table[i] EXCEPT !.status = 1]
  OBVIOUS
<1>4. job_table' = [job_table EXCEPT ![i] = new]
  BY <1>1, <1>3
<1>5. /\ new \in T!Job
      /\ new.pgid = job_table[i].pgid /\ new.index = job_table[i].index
  BY <1>2, <1>3, MarkedJob
<1>6. TableInv' /\ Keeps({})
  BY <1>1, <1>2, <1>4, <1>5, MarkFacts
<1>7. job_table[i].pgid \in Groups
  BY <1>2 DEF TableInv, T!TypeOK, T!Job
<1> QED BY <1>6, <1>7

-----------------------------------------------------------------------------
(* The messages.                                                           *)

Forking(s) == {n \in DOMAIN s : s[n] \in ForkingLines}

ForkingOne(l) == IF l \in ForkingLines THEN 1 ELSE 0

LEMMA ForkingFinite ==
  ASSUME NEW S, NEW s \in Seq(S)
  PROVE  IsFiniteSet(Forking(s)) /\ Cardinality(Forking(s)) \in Nat
<1>1. DOMAIN s = 1 .. Len(s) /\ Len(s) \in Nat
  BY LenProperties
<1>2. IsFiniteSet(1 .. Len(s)) /\ Forking(s) \subseteq 1 .. Len(s)
  BY <1>1, FS_Interval DEF Forking
<1>3. IsFiniteSet(Forking(s))
  BY <1>2, FS_Subset
<1> QED BY <1>3, FS_CardinalityType

LEMMA ForkingAppend ==
  ASSUME NEW S, NEW s \in Seq(S), NEW l \in S
  PROVE  Cardinality(Forking(Append(s, l))) = Cardinality(Forking(s)) + ForkingOne(l)
<1>1. PICK size \in Nat : size = Len(s)
  BY LenProperties
<1>2. PICK t : t = Append(s, l)
  OBVIOUS
<1>3. /\ DOMAIN s = 1 .. size /\ DOMAIN t = 1 .. size + 1
      /\ \A n \in 1 .. size : t[n] = s[n]
      /\ t[size + 1] = l
  BY <1>1, <1>2, AppendProperties, LenProperties
<1>4. CASE l \in ForkingLines
  <2>1. Forking(t) = Forking(s) \cup {size + 1} /\ size + 1 \notin Forking(s)
    BY <1>1, <1>3, <1>4 DEF Forking
  <2>2. IsFiniteSet(Forking(s))
    BY ForkingFinite
  <2>3. Cardinality(Forking(s) \cup {size + 1}) = Cardinality(Forking(s)) + 1
    BY <2>1, <2>2, FS_AddElement
  <2> QED BY <1>2, <1>4, <2>1, <2>3 DEF ForkingOne
<1>5. CASE l \notin ForkingLines
  <2>1. Forking(t) = Forking(s)
    BY <1>1, <1>3, <1>5 DEF Forking
  <2> QED BY <1>2, <1>5, <2>1, ForkingFinite DEF ForkingOne
<1> QED BY <1>4, <1>5

\* The rest of the messages keep their number when the first is received.
LEMMA ForkingTail ==
  ASSUME NEW S, NEW s \in Seq(S), s # <<>>
  PROVE  Cardinality(Forking(s)) = Cardinality(Forking(Tail(s))) + ForkingOne(Head(s))
<1>1. PICK size \in Nat : size = Len(s) /\ size > 0
  BY EmptySeq
<1>2. PICK t : t = Tail(s)
  OBVIOUS
<1>3. /\ DOMAIN s = 1 .. size /\ DOMAIN t = 1 .. size - 1
      /\ \A n \in 1 .. size - 1 : t[n] = s[n + 1]
      /\ Head(s) = s[1]
  BY <1>1, <1>2, HeadTailProperties, LenProperties
<1> DEFINE rest == Forking(s) \ {1}
           back == [n \in rest |-> n - 1]
<1>4. IsFiniteSet(Forking(s)) /\ Cardinality(Forking(s)) \in Nat
  BY ForkingFinite
<1>5. IsFiniteSet(rest)
  BY <1>4, FS_Subset
<1>6. \A n \in rest : n \in 2 .. size /\ s[n] \in ForkingLines
  BY <1>1, <1>3 DEF Forking
<1>7. \A n \in rest : n - 1 \in Forking(t)
  BY <1>1, <1>3, <1>6 DEF Forking
<1>8. \A n \in Forking(t) : n + 1 \in rest
  BY <1>1, <1>3 DEF Forking
<1>9. back \in Bijection(rest, Forking(t))
  <2>1. back \in [rest -> Forking(t)]
    BY <1>7
  <2>2. \A m, n \in rest : back[m] = back[n] => m = n
    BY <1>1, <1>6
  <2>3. \A n \in Forking(t) : \E m \in rest : back[m] = n
    <3> SUFFICES ASSUME NEW n \in Forking(t) PROVE \E m \in rest : back[m] = n
      OBVIOUS
    <3>1. n + 1 \in rest /\ n \in Int
      BY <1>1, <1>3, <1>8 DEF Forking
    <3>2. back[n + 1] = n
      BY <3>1
    <3> QED BY <3>1, <3>2
  <2> QED BY <2>1, <2>2, <2>3 DEF Bijection, Injection, Surjection, IsInjective
<1>10. Cardinality(rest) = Cardinality(Forking(t))
  BY <1>5, <1>9, FS_Bijection DEF ExistsBijection
<1>11. 1 \in Forking(s) <=> Head(s) \in ForkingLines
  BY <1>1, <1>3 DEF Forking
<1>12. CASE 1 \in Forking(s)
  <2>1. Cardinality(rest) = Cardinality(Forking(s)) - 1
    BY <1>4, <1>12, FS_RemoveElement
  <2>2. Cardinality(Forking(s)) = Cardinality(Forking(t)) + 1
    BY <1>4, <1>10, <2>1
  <2>3. ForkingOne(Head(s)) = 1
    BY <1>11, <1>12 DEF ForkingOne
  <2> QED BY <1>2, <2>2, <2>3
<1>13. CASE 1 \notin Forking(s)
  <2>1. rest = Forking(s)
    BY <1>13
  <2> HIDE DEF rest
  <2>2. Cardinality(Forking(s)) = Cardinality(Forking(t)) + 0
    BY <1>4, <1>10, <2>1
  <2>3. ForkingOne(Head(s)) = 0
    BY <1>11, <1>13 DEF ForkingOne
  <2> QED BY <1>2, <2>2, <2>3
<1> QED BY <1>12, <1>13

\* The command the thread starts next has the next number.
LEMMA StartedFacts ==
  ASSUME line \in [Groups -> ForkingLines \cup {"none"}],
         \A g \in Groups : line[g] # "none" <=> g <= started
  PROVE  started \in Nat
<1>1. MaxStarts \in Nat
  BY ShellAssumption
<1>2. IsFiniteSet(Groups) 
  BY <1>1, FS_Interval DEF Groups
<1>3. IsFiniteSet({g \in Groups : line[g] # "none"})
  BY <1>2, FS_Subset
<1> QED BY <1>3, FS_CardinalityType DEF started

LEMMA StartOne ==
  ASSUME QueueInv, started < MaxStarts, NEW l \in ForkingLines,
         line' = [line EXCEPT ![started + 1] = l]
  PROVE  /\ started + 1 \in Groups
         /\ line[started + 1] = "none"
         /\ line' \in [Groups -> ForkingLines \cup {"none"}]
         /\ started' = started + 1
         /\ \A g \in Groups : line'[g] # "none" <=> g <= started + 1
<1>1. MaxStarts \in Nat /\ started \in Nat
  BY ShellAssumption, StartedFacts DEF QueueInv
<1>2. PICK n \in Nat : n = started
  BY <1>1
<1>3. n + 1 \in Groups /\ ~(n + 1 <= n)
  BY <1>1, <1>2 DEF Groups
<1>4. line[n + 1] = "none"
  BY <1>2, <1>3 DEF QueueInv
<1>5. /\ line \in [Groups -> ForkingLines \cup {"none"}]
      /\ line' = [line EXCEPT ![n + 1] = l]
      /\ l # "none"
  BY <1>2 DEF QueueInv, ForkingLines
<1>6. \A g \in Groups : line'[g] = IF g = n + 1 THEN l ELSE line[g]
  BY <1>5
<1>7. \A g \in Groups : line'[g] # "none" <=> g <= n + 1
  <2> SUFFICES ASSUME NEW g \in Groups PROVE line'[g] # "none" <=> g <= n + 1
    OBVIOUS
  <2>1. g \in Int /\ (line[g] # "none" <=> g <= n)
    BY <1>2 DEF QueueInv, Groups
  <2> QED BY <1>5, <1>6, <2>1
<1>8. {g \in Groups : line'[g] # "none"} = 1 .. n + 1
  BY <1>1, <1>2, <1>3, <1>7 DEF Groups
<1>9. started' = n + 1
  <2>1. Cardinality(1 .. n + 1) = n + 1
    BY FS_Interval
  <2> QED BY <1>8, <2>1 DEF started
<1>10. line' \in [Groups -> ForkingLines \cup {"none"}]
  BY <1>5
<1> QED BY <1>2, <1>3, <1>4, <1>7, <1>9, <1>10

-----------------------------------------------------------------------------
(* The processes.                                                          *)

\* What every step but fork does to them: none is born, none comes back, and
\* none leaves its group.
Progress ==
  /\ proc' \in [Procs -> ProcStates]
  /\ \A p \in Procs : proc'[p] = "unborn" <=> proc[p] = "unborn"
  /\ \A p \in Procs : proc[p] = "gone" => proc'[p] = "gone"
  /\ ingrp \subseteq ingrp'
  /\ \A p \in ingrp' : p \in Procs /\ Born(p)
  /\ note' \subseteq ingrp' /\ doomed' \subseteq ingrp'
  /\ \A g \in Groups :
       proc'[Leader(g)] \notin {"unborn", "new"} => Leader(g) \in ingrp'

LEMMA LeaderFacts ==
  \A g \in Groups : Leader(g) \in Procs /\ <<g, 2>> \in Procs /\ Leader(g)[1] = g
BY DEF Leader, Procs

LEMMA MembersFacts ==
  \A g : \A p \in Members(g) :
    p \in Procs /\ p[1] = g /\ p \in ingrp /\ Born(p) /\ proc[p] # "gone"
BY DEF Members, ProcsOf, Born

LEMMA SameProgress ==
  ASSUME ProcInv, UNCHANGED procVars
  PROVE  Progress
BY DEF ProcInv, procVars, Progress, Born

LEMMA ReapProgress ==
  ASSUME ProcInv, NEW p \in Procs, proc[p] = "zombie", Reap(p)
  PROVE  Progress /\ proc'[p] = "gone"
<1>1. /\ proc \in [Procs -> ProcStates]
      /\ proc' = [proc EXCEPT ![p] = "gone"]
      /\ UNCHANGED <<ingrp, note, doomed>>
  BY DEF ProcInv, Reap
<1>2. proc' \in [Procs -> ProcStates]
  BY <1>1 DEF ProcStates
<1> QED BY <1>1, <1>2, LeaderFacts DEF ProcInv, Progress, Born

\* A wait that returns a stop makes a note of it and changes no process.
LEMMA NoteProgress ==
  ASSUME ProcInv, NEW p, note' = note \ {p}, UNCHANGED <<proc, ingrp, doomed>>
  PROVE  Progress
BY DEF ProcInv, Progress, Born

LEMMA ExitProgress ==
  ASSUME ProcInv, NEW p \in Procs, proc[p] = "run",
         proc' = [proc EXCEPT ![p] = "zombie"], UNCHANGED <<ingrp, note, doomed>>
  PROVE  Progress
<1>1. proc \in [Procs -> ProcStates] /\ proc' \in [Procs -> ProcStates]
  BY DEF ProcInv, ProcStates
<1> QED BY <1>1, LeaderFacts DEF ProcInv, Progress, Born

LEMMA SetupProgress ==
  ASSUME ProcInv, NEW p \in Procs, ChildSetup(p)
  PROVE  Progress
<1>1. /\ proc \in [Procs -> ProcStates] /\ proc[p] = "new"
      /\ proc' = [proc EXCEPT ![p] = "run"]
      /\ ingrp' = IF Joinable(p) THEN ingrp \cup {p} ELSE ingrp
      /\ UNCHANGED <<note, doomed>>
  BY DEF ProcInv, ChildSetup
<1>2. proc' \in [Procs -> ProcStates]
  BY <1>1 DEF ProcStates
<1>3. p = Leader(p[1]) => p \in ingrp'
  BY <1>1 DEF Joinable
<1> QED BY <1>1, <1>2, <1>3, LeaderFacts DEF ProcInv, Progress, Born

\* The three signals.
LEMMA InterruptProgress ==
  ASSUME ProcInv, NEW g, Interrupt(g)
  PROVE  Progress /\ sigchld' \in BOOLEAN
<1>1. /\ proc \in [Procs -> ProcStates] /\ proc' \in [Procs -> ProcStates]
      /\ \A p \in Procs : \/ proc'[p] = proc[p]
                          \/ p \in Members(g) /\ proc[p] = "run" /\ proc'[p] = "zombie"
      /\ UNCHANGED <<ingrp, note>>
      /\ doomed' \subseteq doomed \cup Members(g)
  BY DEF ProcInv, Interrupt, ProcStates
<1>2. sigchld' \in BOOLEAN
  BY DEF Interrupt
<1> QED BY <1>1, <1>2, LeaderFacts, MembersFacts DEF ProcInv, Progress, Born

LEMMA SuspendProgress ==
  ASSUME ProcInv, NEW g, Suspend(g)
  PROVE  Progress /\ sigchld' \in BOOLEAN
<1>1. /\ proc \in [Procs -> ProcStates] /\ proc' \in [Procs -> ProcStates]
      /\ \A p \in Procs : \/ proc'[p] = proc[p]
                          \/ p \in Members(g) /\ proc[p] = "run" /\ proc'[p] = "stopped"
      /\ UNCHANGED <<ingrp, doomed>>
      /\ note' \subseteq note \cup Members(g)
  BY DEF ProcInv, Suspend, ProcStates
<1>2. sigchld' \in BOOLEAN
  BY DEF Suspend
<1> QED BY <1>1, <1>2, LeaderFacts, MembersFacts DEF ProcInv, Progress, Born

LEMMA ResumeProgress ==
  ASSUME ProcInv, NEW g, Resume(g)
  PROVE  Progress /\ sigchld' \in BOOLEAN
<1>1. /\ proc \in [Procs -> ProcStates] /\ proc' \in [Procs -> ProcStates]
      /\ \A p \in Procs :
           \/ proc'[p] = proc[p]
           \/ p \in Members(g) /\ proc[p] = "stopped" /\ proc'[p] \in {"zombie", "run"}
      /\ UNCHANGED ingrp
      /\ note' \subseteq note /\ doomed' \subseteq doomed
  BY DEF ProcInv, Resume, ProcStates
<1>2. sigchld' \in BOOLEAN
  BY DEF Resume
<1> QED BY <1>1, <1>2, LeaderFacts, MembersFacts DEF ProcInv, Progress, Born

LEMMA ProcKept ==
  ASSUME ProcInv, Progress, rcv' \in [Groups -> ReceiverStates], sigchld' \in BOOLEAN,
         \A g \in Groups : line'[g] = "none" => line[g] = "none"
  PROVE  ProcInv'
<1>1. \A p \in Procs : Born(p)' <=> Born(p)
  BY DEF Progress, Born
<1>2. \A p \in Procs : p[1] \in Groups
  BY DEF Procs
<1>3. /\ \A p \in Procs : line'[p[1]] = "none" => ~Born(p)'
      /\ \A g \in Groups : Born(<<g, 2>>)' => Born(Leader(g))'
      /\ \A p \in ingrp' : Born(p)'
  BY <1>1, <1>2, LeaderFacts DEF ProcInv, Progress
<1>4. /\ ingrp' \subseteq Procs
      /\ proc' \in [Procs -> ProcStates]
      /\ note' \subseteq ingrp' /\ doomed' \subseteq ingrp'
      /\ \A g \in Groups :
           proc'[Leader(g)] \notin {"unborn", "new"} => Leader(g) \in ingrp'
  BY DEF Progress
<1> QED BY <1>3, <1>4 DEF ProcInv, Born, Leader

\* A collected process stays collected, and a listed job held.
LEMMA ProgressKeeps ==
  ASSUME Progress
  PROVE  /\ \A g : HasGone(g) => HasGone(g)'
         /\ ListedHeld /\ (\A h \in Groups : T!Listed(h)' => T!Listed(h)) => ListedHeld'
<1>1. \A g : HasGone(g) => HasGone(g)'
  BY DEF Progress, HasGone
<1>2. ASSUME ListedHeld, \A h \in Groups : T!Listed(h)' => T!Listed(h)
      PROVE  ListedHeld'
  BY <1>2 DEF Progress, ListedHeld, Leader
<1> QED BY <1>1, <1>2

-----------------------------------------------------------------------------
(* The client and the receivers: steps of which the thread knows nothing.  *)

LEMMA InFlightFacts ==
  ASSUME QueueInv
  PROVE  /\ ForkingInFlight = Cardinality(Forking(sock)) + ForkingOne(msg)
         /\ Cardinality(Forking(sock)) \in Nat
         /\ ForkingOne(msg) \in {0, 1} /\ ForkingOne("none") = 0
         /\ started \in Nat /\ MaxStarts \in Nat /\ MaxQueue \in Nat
BY StartedFacts, ForkingFinite, ShellAssumption
DEF QueueInv, ForkingInFlight, Forking, ForkingOne, ForkingLines

\* Messages that are taken or dropped leave room for others.
LEMMA QueueDrop ==
  ASSUME QueueInv, UNCHANGED line,
         UNCHANGED sock \/ (sock # <<>> /\ sock' = Tail(sock)),
         UNCHANGED msg \/ msg' = "none",
         pc' \notin {"check", "fgwait"} => msg' = "none",
         pc' = "fgwait" => msg' = "fg"
  PROVE  QueueInv'
<1>1. /\ sock' \in Seq(Lines) /\ Len(sock') <= MaxQueue
      /\ Cardinality(Forking(sock')) \in Nat
      /\ Cardinality(Forking(sock')) <= Cardinality(Forking(sock))
  <2>1. CASE UNCHANGED sock
    BY <2>1, InFlightFacts DEF QueueInv
  <2>2. CASE sock # <<>> /\ sock' = Tail(sock)
    <3>1. /\ sock \in Seq(Lines) /\ Len(sock) <= MaxQueue
          /\ Len(sock) \in Nat /\ MaxQueue \in Nat
      BY InFlightFacts, LenProperties DEF QueueInv
    <3>2. sock' \in Seq(Lines) /\ Len(sock') = Len(sock) - 1
      BY <2>2, <3>1, HeadTailProperties
    <3>3. Cardinality(Forking(sock)) = Cardinality(Forking(sock')) + ForkingOne(Head(sock))
      BY <2>2, <3>1, ForkingTail
    <3>4. Cardinality(Forking(sock')) \in Nat /\ ForkingOne(Head(sock)) \in {0, 1}
      BY <3>2, ForkingFinite DEF ForkingOne
    <3> QED BY <3>1, <3>2, <3>3, <3>4
  <2> QED BY <2>1, <2>2
<1>2. started' = started
  BY DEF started
<1>3. ForkingInFlight' = Cardinality(Forking(sock')) + ForkingOne(msg')
  BY DEF ForkingInFlight, Forking, ForkingOne
<1>4. ForkingOne(msg') \in {0, 1} /\ ForkingOne(msg') <= ForkingOne(msg)
  BY InFlightFacts
<1>5. started' + ForkingInFlight' <= MaxStarts
  BY <1>1, <1>2, <1>3, <1>4, InFlightFacts DEF QueueInv
<1> QED BY <1>1, <1>2, <1>5 DEF QueueInv

\* A step that leaves the thread and the table alone.
LEMMA OutsideStep ==
  ASSUME IInv, UNCHANGED <<tableVars, threadVars>>, Progress, QueueInv',
         hup' \in BOOLEAN, rcv' \in [Groups -> ReceiverStates], sigchld' \in BOOLEAN
  PROVE  IInv'
<1>1. TableInv' /\ Keeps({})
  BY UntouchedFacts DEF IInv
<1>2. ThreadInv'
  BY DEF IInv, ThreadInv, threadVars
<1>3. ProcInv'
  BY ProcKept DEF IInv, threadVars
<1>4. ListedHeld'
  BY <1>1, ProgressKeeps DEF IInv, Keeps
<1>5. UNCHANGED <<pc, cur, line>>
  BY DEF threadVars
<1>6. StageInv'
  <2>1. PICK g : g = cur
    OBVIOUS
  <2>2. ASSUME g \in Groups
        PROVE  /\ Born(Leader(g))' <=> Born(Leader(g))
               /\ Born(<<g, 2>>)' <=> Born(<<g, 2>>)
    BY <2>2, LeaderFacts DEF Progress, Born, Leader
  <2>3. ingrp \subseteq ingrp'
    BY DEF Progress
  <2>4. ASSUME pc = "fork"
        PROVE  /\ ~Born(<<g, 2>>)'
               /\ Born(Leader(g))' => Leader(g) \in ingrp' /\ Width(line[g]) = 2
    <3>1. g \in Groups
      BY <2>1, <2>4 DEF IInv, ThreadInv, Starting
    <3>2. /\ ~Born(<<g, 2>>)
          /\ Born(Leader(g)) => Leader(g) \in ingrp /\ Width(line[g]) = 2
      BY <2>1, <2>4 DEF IInv, StageInv
    <3> QED BY <2>2, <2>3, <3>1, <3>2
  <2>5. ASSUME pc = "setpgid"
        PROVE  /\ Born(Leader(g))'
               /\ Born(<<g, 2>>)' => Leader(g) \in ingrp'
    <3>1. g \in Groups
      BY <2>1, <2>5 DEF IInv, ThreadInv, Starting
    <3>2. /\ Born(Leader(g))
          /\ Born(<<g, 2>>) => Leader(g) \in ingrp
      BY <2>1, <2>5 DEF IInv, StageInv
    <3> QED BY <2>2, <2>3, <3>1, <3>2
  <2>6. pc \in {"parent_fork", "fgwait"} \cup Waiting => Leader(g) \in ingrp'
    BY <2>1, <2>3 DEF IInv, StageInv
  <2> QED BY <1>5, <2>1, <2>4, <2>5, <2>6 DEF StageInv, Born, Leader
<1>7. WaitsListed'
  <2>1. PICK g : g = cur
    OBVIOUS
  <2>2. HasGone(g) => HasGone(g)'
    BY ProgressKeeps
  <2>3. T!Listed(g)' <=> T!Listed(g)
    BY DEF tableVars, T!Listed, T!Holds, T!Used, T!InUse
  <2>4. /\ pc \in Waiting /\ Tabled(line[g]) /\ ~T!Listed(g)' => overrun' \/ HasGone(g)'
        /\ pc \in {"wait2", "wait0", "fgwait"} => ~overrun'
        /\ pc = "wait0" => HasGone(g)'
    BY <1>1, <2>1, <2>2, <2>3 DEF IInv, WaitsListed, Keeps
  <2> QED BY <1>5, <2>1, <2>4
          DEF WaitsListed, HasGone, T!Listed, T!Holds, T!Used, T!InUse
<1> QED BY <1>1, <1>2, <1>3, <1>4, <1>6, <1>7 DEF IInv

LEMMA SendInv ==
  ASSUME IInv, NEW l \in Lines, Send(l)
  PROVE  IInv'
<1>1. /\ sock \in Seq(Lines) /\ sock' = Append(sock, l)
      /\ Len(sock) < MaxQueue /\ Len(sock) \in Nat
      /\ l \in ForkingLines => started + ForkingInFlight < MaxStarts
      /\ UNCHANGED <<tableVars, hup, threadVars, procVars, rcv, sigchld>>
  BY LenProperties DEF Send, IInv, QueueInv
<1>2. /\ sock' \in Seq(Lines) /\ Len(sock') = Len(sock) + 1
      /\ Cardinality(Forking(sock')) = Cardinality(Forking(sock)) + ForkingOne(l)
  BY <1>1, AppendProperties, ForkingAppend
<1>3. Len(sock') <= MaxQueue
  BY <1>1, <1>2, InFlightFacts DEF IInv
<1>4. UNCHANGED <<pc, msg, cur, line>> /\ started' = started
  BY <1>1 DEF threadVars, started
<1>5. started + ForkingInFlight' <= MaxStarts
  <2>1. ForkingInFlight' = Cardinality(Forking(sock')) + ForkingOne(msg)
    BY <1>4 DEF ForkingInFlight, Forking, ForkingOne
  <2>2. ForkingInFlight' = ForkingInFlight + ForkingOne(l)
    BY <1>2, <2>1, InFlightFacts DEF IInv, ForkingOne
  <2>3. ForkingInFlight \in Nat /\ started \in Nat /\ MaxStarts \in Nat
    BY InFlightFacts DEF IInv
  <2>4. started + ForkingInFlight <= MaxStarts
    BY DEF IInv, QueueInv
  <2>5. CASE l \in ForkingLines
    BY <1>1, <2>2, <2>3, <2>5 DEF ForkingOne
  <2>6. CASE l \notin ForkingLines
    BY <2>2, <2>3, <2>4, <2>6 DEF ForkingOne
  <2> QED BY <2>5, <2>6
<1>6. QueueInv'
  BY <1>2, <1>3, <1>4, <1>5 DEF IInv, QueueInv
<1> QED
  BY <1>1, <1>6, OutsideStep, SameProgress DEF IInv, ThreadInv, ProcInv

LEMMA QuietInv ==
  ASSUME IInv, UNCHANGED <<tableVars, threadVars, sock>>, Progress,
         hup' \in BOOLEAN, rcv' \in [Groups -> ReceiverStates], sigchld' \in BOOLEAN
  PROVE  IInv'
BY OutsideStep, QueueDrop DEF IInv, QueueInv, threadVars

\* What processes and receivers do on their own, and the SIGCHLD handler.
LEMMA AloneInv ==
  ASSUME IInv,
         \/ Disconnect
         \/ \E p \in Procs : ChildSetup(p) \/ Exit(p)
         \/ \E g \in Groups : ReceiverReady(g) \/ ReceiverHangup(g)
         \/ sig_chld
         \/ UNCHANGED shellVars
  PROVE  IInv'
<1>1. ProcInv /\ hup \in BOOLEAN /\ rcv \in [Groups -> ReceiverStates] /\ sigchld \in BOOLEAN
  BY DEF IInv, ThreadInv, ProcInv
<1>2. CASE Disconnect
  BY <1>1, <1>2, SameProgress, QuietInv DEF Disconnect
<1>3. ASSUME NEW p \in Procs, ChildSetup(p) PROVE IInv'
  BY <1>1, <1>3, SetupProgress, QuietInv DEF ChildSetup, clientVars
<1>4. ASSUME NEW p \in Procs, Exit(p) PROVE IInv'
  BY <1>1, <1>4, ExitProgress, QuietInv DEF Exit, clientVars
<1>5. ASSUME NEW g \in Groups, ReceiverReady(g) \/ ReceiverHangup(g) PROVE IInv'
  <2>1. rcv' \in [Groups -> ReceiverStates] /\ sigchld' \in BOOLEAN
    BY <1>1, <1>5 DEF ReceiverReady, ReceiverHangup, ReceiverStates
  <2> QED
    BY <1>1, <1>5, <2>1, SameProgress, QuietInv
    DEF ReceiverReady, ReceiverHangup, clientVars
<1>6. CASE sig_chld
  <2>1. ASSUME NEW p \in Zombies(Procs), Reap(p), UNCHANGED rcv PROVE IInv'
    BY <1>1, <1>6, <2>1, ReapProgress, QuietInv DEF sig_chld, clientVars, Zombies
  <2>2. ASSUME NEW g \in DeadReceivers, ReapReceiver(g), UNCHANGED procVars PROVE IInv'
    <3>1. rcv' \in [Groups -> ReceiverStates]
      BY <1>1, <2>2 DEF ReapReceiver, ReceiverStates
    <3> QED BY <1>1, <1>6, <2>2, <3>1, SameProgress, QuietInv DEF sig_chld, clientVars
  <2>3. CASE UNCHANGED <<procVars, rcv>>
    BY <1>1, <1>6, <2>3, SameProgress, QuietInv DEF sig_chld, clientVars
  <2> QED BY <1>6, <2>1, <2>2, <2>3 DEF sig_chld
<1>7. CASE UNCHANGED shellVars
  BY <1>1, <1>7, SameProgress, QuietInv DEF shellVars, clientVars
<1> QED BY <1>2, <1>3, <1>4, <1>5, <1>6, <1>7

LEMMA ReceiverRecvInv ==
  ASSUME IInv, NEW g \in Groups, ReceiverRecv(g)
  PROVE  IInv'
<1>1. /\ sock # <<>> /\ sock' = Tail(sock)
      /\ UNCHANGED <<tableVars, hup, threadVars, rcv>>
      /\ UNCHANGED <<pc, msg, cur, line>>
  BY DEF ReceiverRecv, threadVars
<1>2. ProcInv /\ hup \in BOOLEAN /\ rcv \in [Groups -> ReceiverStates] /\ sigchld \in BOOLEAN
  BY DEF IInv, ThreadInv, ProcInv
<1>3. Progress /\ sigchld' \in BOOLEAN
  BY <1>2, InterruptProgress, SuspendProgress, SameProgress DEF ReceiverRecv
<1>4. QueueInv'
  BY <1>1, QueueDrop DEF IInv, QueueInv
<1> QED BY <1>1, <1>2, <1>3, <1>4, OutsideStep

-----------------------------------------------------------------------------
(* The thread: steps that end a command.                                   *)

LEMMA BackToRecv ==
  ASSUME IInv, pc' \in {"recv", "closed"}, msg' = "none", cur' = 0,
         UNCHANGED <<clientVars, line>>, Progress, TableInv',
         \A h \in Groups : T!Listed(h)' => T!Listed(h),
         rcv' \in [Groups -> ReceiverStates], sigchld' \in BOOLEAN
  PROVE  IInv'
<1>1. QueueInv'
  BY QueueDrop DEF IInv, clientVars
<1>2. ThreadInv'
  BY DEF IInv, ThreadInv, clientVars, ThreadStates, Starting, Waiting
<1>3. ProcInv'
  BY ProcKept DEF IInv
<1>4. StageInv'
  BY DEF StageInv, Waiting
<1>5. ListedHeld'
  BY ProgressKeeps DEF IInv
<1>6. WaitsListed'
  BY DEF WaitsListed, Waiting
<1> QED BY <1>1, <1>2, <1>3, <1>4, <1>5, <1>6 DEF IInv

\* The same for a step that leaves the table alone.
LEMMA BackToRecvQuiet ==
  ASSUME IInv, Prompt \/ Close, UNCHANGED <<tableVars, clientVars>>, Progress,
         rcv' \in [Groups -> ReceiverStates], sigchld' \in BOOLEAN
  PROVE  IInv'
<1>1. TableInv' /\ Keeps({})
  BY UntouchedFacts DEF IInv
<1> QED BY <1>1, BackToRecv DEF Prompt, Close, Goto, Keeps

LEMMA EndInv ==
  ASSUME IInv, RecvHangup \/ Ignore \/ Leave \/ KillReceiver
  PROVE  IInv'
<1>1. /\ rcv \in [Groups -> ReceiverStates] /\ sigchld \in BOOLEAN
      /\ rcv' \in [Groups -> ReceiverStates] /\ sigchld' \in BOOLEAN
  BY DEF IInv, ProcInv, ReceiverStates, RecvHangup, Ignore, Leave, KillReceiver
<1>2. /\ Prompt \/ Close
      /\ UNCHANGED <<tableVars, clientVars, procVars>>
  BY DEF RecvHangup, Ignore, Leave, KillReceiver, Dispatch
<1> QED BY <1>1, <1>2, SameProgress, BackToRecvQuiet DEF IInv

LEMMA ForegroundInv ==
  ASSUME IInv, Foreground
  PROVE  IInv'
<1>1. /\ rcv' \in [Groups -> ReceiverStates] /\ sigchld \in BOOLEAN
      /\ pc = "check" /\ msg = "fg" /\ UNCHANGED <<sock, hup, rcv>>
  BY DEF IInv, ProcInv, Foreground, Dispatch, clientVars
<1>2. ASSUME NEW i \in T!Slots, NEW g, g = job_table[i].pgid,
             T!fg_job(i), Resume(g), cur' = g, pc' = "fgwait",
             UNCHANGED <<msg, line>>
      PROVE  IInv'
  <2>1. /\ TableInv' /\ Keeps({}) /\ ~overrun
        /\ g \in Groups /\ T!Listed(g)
    BY <1>2, FgJobFacts DEF IInv
  <2>2. Progress /\ sigchld' \in BOOLEAN
    BY <1>2, ResumeProgress DEF IInv
  <2>3. QueueInv'
    BY <1>1, <1>2, QueueDrop DEF IInv
  <2>4. ThreadInv'
    BY <1>1, <1>2, <2>1 DEF IInv, ThreadInv, ThreadStates, Starting, Waiting
  <2>5. ProcInv'
    BY <1>1, <1>2, <2>2, ProcKept DEF IInv
  <2>6. Leader(g) \in ingrp'
    BY <2>1, <2>2 DEF IInv, ListedHeld, Progress
  <2>7. StageInv'
    BY <1>2, <2>6 DEF StageInv, Waiting, Leader
  <2>8. ListedHeld'
    BY <2>1, <2>2, ProgressKeeps DEF IInv, Keeps
  <2>9. WaitsListed'
    BY <1>2, <2>1 DEF WaitsListed, Waiting, Keeps
  <2> QED BY <2>1, <2>3, <2>4, <2>5, <2>7, <2>8, <2>9 DEF IInv
<1>3. CASE Prompt /\ UNCHANGED <<tableVars, procVars, sigchld>>
  BY <1>1, <1>3, SameProgress, BackToRecvQuiet DEF IInv, clientVars
<1> QED BY <1>2, <1>3 DEF Foreground, Goto

LEMMA BackgroundLastInv ==
  ASSUME IInv, BackgroundLast
  PROVE  IInv'
<1>1. /\ rcv' \in [Groups -> ReceiverStates] /\ sigchld \in BOOLEAN
      /\ Prompt /\ UNCHANGED clientVars
  BY DEF IInv, ProcInv, BackgroundLast, Dispatch
<1>2. ASSUME NEW i \in T!Slots, T!bg_job(i), Resume(job_table[i].pgid)
      PROVE  IInv'
  <2>1. TableInv' /\ Keeps({})
    BY <1>2, BgJobFacts DEF IInv
  <2>2. Progress /\ sigchld' \in BOOLEAN
    BY <1>2, ResumeProgress DEF IInv
  <2> QED BY <1>1, <2>1, <2>2, BackToRecv DEF Prompt, Goto, Keeps
<1>3. CASE UNCHANGED <<tableVars, procVars, sigchld>>
  BY <1>1, <1>3, SameProgress, BackToRecvQuiet DEF IInv
<1> QED BY <1>2, <1>3 DEF BackgroundLast

\* update_status with the number of a process: the table loses nothing but the
\* job of that process.
LEMMA StatusOfProcessFacts ==
  ASSUME TableInv, NEW p \in Procs, NEW s, StatusOfProcess(p, s)
  PROVE  /\ TableInv' /\ Keeps({p[1]})
         /\ s = "stopped" => Keeps({})
<1>1. PICK g : g = p[1]
  OBVIOUS
<1>2. g \in Groups
  BY <1>1 DEF Procs
<1>3. CASE T!update_status(g, s)
  BY <1>1, <1>2, <1>3, UpdateFacts
<1>4. CASE UNCHANGED tableVars
  BY <1>4, UntouchedFacts DEF Keeps
<1> QED BY <1>1, <1>3, <1>4 DEF StatusOfProcess

LEMMA FgWaitInv ==
  ASSUME IInv, FgWait
  PROVE  IInv'
<1>1. /\ rcv' \in [Groups -> ReceiverStates] /\ sigchld' \in BOOLEAN
      /\ Prompt /\ UNCHANGED <<clientVars, rcv, sigchld>>
  BY DEF IInv, ProcInv, FgWait
<1>2. ASSUME NEW p \in Zombies(Members(cur)), Reap(p), StatusOfProcess(p, "exited")
      PROVE  IInv'
  <2>1. p \in Procs /\ proc[p] = "zombie"
    BY MembersFacts DEF Zombies
  <2>2. Progress
    BY <1>2, <2>1, ReapProgress DEF IInv
  <2>3. TableInv' /\ Keeps({p[1]})
    BY <1>2, <2>1, StatusOfProcessFacts DEF IInv
  <2> QED BY <1>1, <2>2, <2>3, BackToRecv DEF Prompt, Goto, Keeps
<1>3. ASSUME NEW p \in Members(cur) \cap note, note' = note \ {p},
             StatusOfProcess(p, "stopped"), UNCHANGED <<proc, ingrp, doomed>>
      PROVE  IInv'
  <2>1. p \in Procs
    BY MembersFacts
  <2>2. Progress
    BY <1>3, NoteProgress DEF IInv
  <2>3. TableInv' /\ Keeps({p[1]})
    BY <1>3, <2>1, StatusOfProcessFacts DEF IInv
  <2> QED BY <1>1, <2>2, <2>3, BackToRecv DEF Prompt, Goto, Keeps
<1>4. CASE UNCHANGED <<tableVars, procVars>>
  BY <1>1, <1>4, SameProgress, BackToRecvQuiet DEF IInv
<1> QED BY <1>2, <1>3, <1>4 DEF FgWait

-----------------------------------------------------------------------------
(* The thread: steps of a command it waits for.                            *)

\* A group that is found empty after its leader joined it has lost its leader.
LEMMA EmptyGroup ==
  ASSUME ProcInv, NEW g \in Groups, Leader(g) \in ingrp, Members(g) = {}
  PROVE  HasGone(g)
<1>1. Leader(g) \in ProcsOf(g)
  BY LeaderFacts DEF ProcInv, ProcsOf, Born
<1>2. proc[Leader(g)] = "gone"
  BY <1>1 DEF Members
<1> QED BY <1>2, LeaderFacts DEF HasGone

LEMMA StayInWait ==
  ASSUME IInv, NEW g \in Groups, g = cur, pc \in Waiting,
         pc' \in {"kill", "wait2", "wait0"}, pc' = "wait0" => JobFreed',
         UNCHANGED <<clientVars, msg, cur, line>>, Progress,
         TableInv', Keeps({g}), ~overrun,
         Tabled(line[g]) /\ ~T!Listed(g)' => HasGone(g)',
         rcv' \in [Groups -> ReceiverStates], sigchld' \in BOOLEAN
  PROVE  IInv'
<1>1. QueueInv'
  BY QueueDrop DEF IInv, QueueInv, clientVars, Waiting
<1>2. ThreadInv'
  BY DEF IInv, ThreadInv, clientVars, ThreadStates, Starting, Waiting
<1>3. ProcInv'
  BY ProcKept DEF IInv
<1>4. Leader(g) \in ingrp'
  BY DEF IInv, StageInv, Progress, Waiting
<1>5. StageInv'
  BY <1>4 DEF StageInv, Waiting, Leader
<1>6. ListedHeld'
  BY ProgressKeeps DEF IInv, Keeps
<1>7. JobFreed' => Tabled(line[g]) /\ ~T!Listed(g)'
  BY DEF JobFreed, T!Listed, T!Holds, T!Used, T!InUse
<1>8. WaitsListed'
  <2>1. pc' = "wait0" => HasGone(g)'
    BY <1>7
  <2>2. ~overrun'
    BY DEF Keeps
  <2> QED BY <2>1, <2>2
          DEF WaitsListed, Waiting, HasGone, T!Listed, T!Holds, T!Used, T!InUse
<1> QED BY <1>1, <1>2, <1>3, <1>5, <1>6, <1>8 DEF IInv

LEMMA LoopTestFacts ==
  ASSUME LoopTest
  PROVE  /\ pc' \in {"kill", "wait2", "wait0"}
         /\ pc' = "wait0" => JobFreed'
         /\ UNCHANGED <<msg, cur, line>>
BY DEF LoopTest, Reads

LEMMA Wait1Inv ==
  ASSUME IInv, Wait1
  PROVE  IInv'
<1>1. PICK g : g = cur
  OBVIOUS
<1>2. /\ g \in Groups /\ pc \in Waiting /\ pc # "wait2"
      /\ UNCHANGED <<clientVars, rcv, sigchld>>
      /\ rcv' \in [Groups -> ReceiverStates] /\ sigchld' \in BOOLEAN
      /\ LoopTest
  BY <1>1 DEF IInv, ThreadInv, ProcInv, Wait1, Waiting
<1>3. ASSUME NEW s, T!update_status(g, s), Progress,
             s \notin {"exited", "signaled"} \/ HasGone(g)'
      PROVE  IInv'
  <2>1. /\ TableInv' /\ Keeps({g})
        /\ s \notin {"exited", "signaled"} => Keeps({})
    BY <1>2, <1>3, UpdateFacts DEF IInv
  <2>2. ~overrun
    BY <1>3 DEF T!update_status
  <2>3. Tabled(line[g]) /\ ~T!Listed(g)' => HasGone(g)'
    <3>1. HasGone(g) => HasGone(g)'
      BY <1>3, ProgressKeeps
    <3>2. CASE s \notin {"exited", "signaled"}
      BY <1>1, <1>2, <2>1, <2>2, <3>1, <3>2 DEF IInv, WaitsListed, Keeps
    <3> QED BY <1>3, <3>2
  <2> QED BY <1>1, <1>2, <1>3, <2>1, <2>2, <2>3, LoopTestFacts, StayInWait
<1>4. ASSUME NEW p \in Zombies(Members(g)), Reap(p), T!update_status(g, "exited")
      PROVE  IInv'
  <2>1. p \in Procs /\ p[1] = g /\ proc[p] = "zombie"
    BY MembersFacts DEF Zombies
  <2>2. Progress /\ proc'[p] = "gone"
    BY <1>4, <2>1, ReapProgress DEF IInv
  <2> QED BY <1>3, <1>4, <2>1, <2>2 DEF HasGone
<1>5. ASSUME NEW p \in Members(g) \cap note, note' = note \ {p},
             T!update_status(g, "stopped"), UNCHANGED <<proc, ingrp, doomed>>
      PROVE  IInv'
  BY <1>3, <1>5, NoteProgress DEF IInv
<1>6. ASSUME Members(g) = {}, NEW s, T!update_status(g, s), UNCHANGED procVars
      PROVE  IInv'
  <2>1. Progress
    BY <1>6, SameProgress DEF IInv
  <2>2. HasGone(g)
    BY <1>1, <1>2, <1>6, EmptyGroup DEF IInv, StageInv
  <2> QED BY <1>3, <1>6, <2>1, <2>2, ProgressKeeps
<1> QED BY <1>1, <1>4, <1>5, <1>6 DEF Wait1

LEMMA StatusOfGroupFacts ==
  ASSUME TableInv, NEW g \in Groups, g = cur, NEW s, StatusOfGroup(s)
  PROVE  /\ TableInv' /\ Keeps({g})
         /\ s = "stopped" => Keeps({})
<1>1. CASE T!update_status(g, s)
  BY <1>1, UpdateFacts
<1>2. CASE UNCHANGED tableVars
  BY <1>2, UntouchedFacts DEF Keeps
<1> QED BY <1>1, <1>2 DEF StatusOfGroup

LEMMA Wait2Inv ==
  ASSUME IInv, Wait2
  PROVE  IInv'
<1>1. PICK g : g = cur
  OBVIOUS
<1>2. /\ g \in Groups /\ pc = "wait2" /\ pc \in Waiting /\ ~overrun
      /\ UNCHANGED <<clientVars, rcv, sigchld>>
      /\ rcv' \in [Groups -> ReceiverStates] /\ sigchld' \in BOOLEAN
  BY <1>1 DEF IInv, ThreadInv, ProcInv, WaitsListed, Wait2, Waiting
<1>3. HasGone(g) \/ T!Listed(g) \/ ~Tabled(line[g])
  BY <1>1, <1>2 DEF IInv, WaitsListed
<1>4. ASSUME NEW p \in Zombies(Members(g)), Reap(p), StatusOfGroup("exited"), LoopTest
      PROVE  IInv'
  <2>1. p \in Procs /\ p[1] = g /\ proc[p] = "zombie"
    BY MembersFacts DEF Zombies
  <2>2. Progress /\ proc'[p] = "gone"
    BY <1>4, <2>1, ReapProgress DEF IInv
  <2>3. TableInv' /\ Keeps({g})
    BY <1>1, <1>2, <1>4, StatusOfGroupFacts DEF IInv
  <2>4. HasGone(g)'
    BY <2>1, <2>2 DEF HasGone
  <2> QED BY <1>1, <1>2, <1>4, <2>2, <2>3, <2>4, LoopTestFacts, StayInWait
<1>5. ASSUME NEW p \in Members(g) \cap note, note' = note \ {p},
             UNCHANGED <<proc, ingrp, doomed>>, StatusOfGroup("stopped"), LoopTest
      PROVE  IInv'
  <2>1. Progress
    BY <1>5, NoteProgress DEF IInv
  <2>2. TableInv' /\ Keeps({g}) /\ Keeps({})
    BY <1>1, <1>2, <1>5, StatusOfGroupFacts DEF IInv
  <2>3. Tabled(line[g]) /\ ~T!Listed(g)' => HasGone(g)'
    BY <1>2, <1>3, <2>1, <2>2, ProgressKeeps DEF Keeps
  <2> QED BY <1>1, <1>2, <1>5, <2>1, <2>2, <2>3, LoopTestFacts, StayInWait
<1>6. ASSUME pc' = "kill", UNCHANGED <<tableVars, procVars, msg, cur, line>>
      PROVE  IInv'
  <2>1. Progress
    BY <1>6, SameProgress DEF IInv
  <2>2. TableInv' /\ Keeps({}) /\ Keeps({g})
    BY <1>6, UntouchedFacts DEF IInv, Keeps
  <2>3. Tabled(line[g]) /\ ~T!Listed(g)' => HasGone(g)'
    BY <1>2, <1>3, <2>1, <2>2, ProgressKeeps DEF Keeps
  <2> QED BY <1>1, <1>2, <1>6, <2>1, <2>2, <2>3, StayInWait
<1> QED BY <1>1, <1>4, <1>5, <1>6 DEF Wait2, Goto

LEMMA Wait0Inv ==
  ASSUME IInv, Wait0
  PROVE  IInv'
<1>1. PICK g : g = cur
  OBVIOUS
<1>2. /\ g \in Groups /\ pc \in Waiting /\ ~overrun /\ HasGone(g)
      /\ UNCHANGED <<tableVars, clientVars, sigchld>>
      /\ rcv \in [Groups -> ReceiverStates] /\ sigchld' \in BOOLEAN
  BY <1>1 DEF IInv, ThreadInv, ProcInv, WaitsListed, Wait0, Waiting
<1>3. TableInv' /\ Keeps({g})
  BY <1>2, UntouchedFacts DEF IInv, Keeps
<1>4. /\ pc' \in {"kill", "wait2", "wait0"}
      /\ pc' = "wait0" => JobFreed'
      /\ UNCHANGED <<msg, cur, line>>
  BY LoopTestFacts DEF Wait0, Goto
<1>5. ASSUME Progress, rcv' \in [Groups -> ReceiverStates] PROVE IInv'
  <2>1. HasGone(g)'
    BY <1>2, <1>5, ProgressKeeps
  <2> QED BY <1>1, <1>2, <1>3, <1>4, <1>5, <2>1, StayInWait
<1>6. ASSUME NEW p \in Zombies(Strays), Reap(p), UNCHANGED rcv PROVE IInv'
  <2>1. p \in Procs /\ proc[p] = "zombie"
    BY DEF Zombies, Strays
  <2> QED BY <1>2, <1>5, <1>6, <2>1, ReapProgress DEF IInv
<1>7. ASSUME NEW h \in DeadReceivers, ReapReceiver(h), UNCHANGED procVars PROVE IInv'
  <2>1. rcv' \in [Groups -> ReceiverStates]
    BY <1>2, <1>7 DEF ReapReceiver, ReceiverStates
  <2> QED BY <1>5, <1>7, <2>1, SameProgress DEF IInv
<1>8. CASE UNCHANGED <<procVars, rcv>>
  BY <1>2, <1>5, <1>8, SameProgress DEF IInv
<1> QED BY <1>6, <1>7, <1>8 DEF Wait0

-----------------------------------------------------------------------------
(* The thread: a command is received and started.                          *)

\* Steps that take the thread to check_jobs or leave it there.
LEMMA ToCheck ==
  ASSUME IInv, pc' = "check", UNCHANGED <<hup, cur, line>>, QueueInv', Progress,
         TableInv', \A h \in Groups : T!Listed(h)' => T!Listed(h),
         rcv' \in [Groups -> ReceiverStates], sigchld' \in BOOLEAN
  PROVE  IInv'
<1>1. ThreadInv'
  BY DEF IInv, ThreadInv, ThreadStates, Starting, Waiting
<1>2. ProcInv'
  BY ProcKept DEF IInv
<1>3. StageInv'
  BY DEF StageInv, Waiting
<1>4. ListedHeld'
  BY ProgressKeeps DEF IInv
<1>5. WaitsListed'
  BY DEF WaitsListed, Waiting
<1> QED BY <1>1, <1>2, <1>3, <1>4, <1>5 DEF IInv

LEMMA RecvInv ==
  ASSUME IInv, Recv
  PROVE  IInv'
<1>1. /\ pc = "recv" /\ pc' = "check" /\ msg = "none"
      /\ sock \in Seq(Lines) /\ sock # <<>> /\ Len(sock) \in Nat
      /\ sock' = Tail(sock) /\ msg' = Head(sock)
      /\ UNCHANGED <<tableVars, hup, cur, line, procVars, rcv, sigchld>>
  BY LenProperties DEF Recv, Goto, IInv, QueueInv
<1>2. /\ msg' \in Lines
      /\ sock' \in Seq(Lines) /\ Len(sock') = Len(sock) - 1
      /\ Cardinality(Forking(sock)) = Cardinality(Forking(sock')) + ForkingOne(msg')
  BY <1>1, HeadTailProperties, ForkingTail
<1>3. Len(sock') <= MaxQueue
  BY <1>1, <1>2, InFlightFacts DEF IInv, QueueInv
<1>4. started' = started
  BY <1>1 DEF started
<1>5. ForkingInFlight' = ForkingInFlight
  <2>1. ForkingInFlight' = Cardinality(Forking(sock')) + ForkingOne(msg')
    BY DEF ForkingInFlight, Forking, ForkingOne
  <2>2. ForkingInFlight = Cardinality(Forking(sock)) + 0
    BY <1>1, InFlightFacts DEF IInv
  <2>3. Cardinality(Forking(sock)) \in Nat
    BY InFlightFacts DEF IInv
  <2> QED BY <1>2, <2>1, <2>2, <2>3
<1>6. QueueInv'
  BY <1>1, <1>2, <1>3, <1>4, <1>5 DEF IInv, QueueInv
<1>7. TableInv' /\ Keeps({})
  BY <1>1, UntouchedFacts DEF IInv
<1>8. Progress
  BY <1>1, SameProgress DEF IInv
<1> QED BY <1>1, <1>6, <1>7, <1>8, ToCheck DEF IInv, ProcInv, Keeps

LEMMA CheckJobsInv ==
  ASSUME IInv, CheckJobs
  PROVE  IInv'
<1>1. /\ pc = "check" /\ pc' = "check" /\ UNCHANGED <<sock, hup, msg, cur, line>>
      /\ rcv \in [Groups -> ReceiverStates] /\ sigchld' \in BOOLEAN
  BY DEF CheckJobs, clientVars, threadVars, IInv, ProcInv
<1>2. QueueInv'
  BY <1>1, QueueDrop DEF IInv
<1>3. ASSUME NEW p \in Zombies(Procs), Reap(p), StatusOfProcess(p, "exited"),
             UNCHANGED rcv
      PROVE  IInv'
  <2>1. p \in Procs /\ proc[p] = "zombie"
    BY DEF Zombies
  <2>2. Progress
    BY <1>3, <2>1, ReapProgress DEF IInv
  <2>3. TableInv' /\ Keeps({p[1]})
    BY <1>3, <2>1, StatusOfProcessFacts DEF IInv
  <2> QED BY <1>1, <1>2, <1>3, <2>2, <2>3, ToCheck DEF Keeps
<1>4. ASSUME NEW g \in DeadReceivers, ReapReceiver(g), UNCHANGED <<tableVars, procVars>>
      PROVE  IInv'
  <2>1. rcv' \in [Groups -> ReceiverStates]
    BY <1>1, <1>4 DEF ReapReceiver, ReceiverStates
  <2>2. TableInv' /\ Keeps({})
    BY <1>4, UntouchedFacts DEF IInv
  <2>3. Progress
    BY <1>4, SameProgress DEF IInv
  <2> QED BY <1>1, <1>2, <2>1, <2>2, <2>3, ToCheck DEF Keeps
<1> QED BY <1>3, <1>4 DEF CheckJobs

LEMMA StartCommandInv ==
  ASSUME IInv, StartCommand
  PROVE  IInv'
<1>1. /\ pc = "check" /\ msg \in ForkingLines /\ UNCHANGED <<sock, hup>>
      /\ cur' = started + 1 /\ line' = [line EXCEPT ![started + 1] = msg]
      /\ msg' = "none" /\ pc' = "fork"
      /\ UNCHANGED <<tableVars, procVars, rcv, sigchld>>
  BY DEF StartCommand, Dispatch, Goto, clientVars
<1>2. /\ Cardinality(Forking(sock)) \in Nat /\ started \in Nat /\ MaxStarts \in Nat
      /\ started + (Cardinality(Forking(sock)) + 1) <= MaxStarts
  <2>1. ForkingInFlight = Cardinality(Forking(sock)) + 1
    BY <1>1, InFlightFacts DEF IInv, ForkingOne
  <2> QED BY <2>1, InFlightFacts DEF IInv, QueueInv
<1>3. started < MaxStarts
  BY <1>2
<1>4. PICK g : g = started + 1
  OBVIOUS
<1>5. /\ g \in Groups /\ line[g] = "none"
      /\ line' \in [Groups -> ForkingLines \cup {"none"}]
      /\ started' = g
      /\ \A h \in Groups : line'[h] # "none" <=> h <= g
  BY <1>1, <1>3, <1>4, StartOne DEF IInv
<1>6. \A h \in Groups : line'[h] = IF h = g THEN msg ELSE line[h]
  BY <1>1, <1>4, <1>5 DEF IInv, QueueInv
<1>7. started' + ForkingInFlight' <= MaxStarts
  <2>1. ForkingInFlight' = Cardinality(Forking(sock)) + 0
    BY <1>1 DEF ForkingInFlight, Forking, ForkingLines
  <2>2. g + (Cardinality(Forking(sock)) + 0) <= MaxStarts
    BY <1>2, <1>4
  <2> QED BY <1>5, <2>1, <2>2
<1>8. QueueInv'
  BY <1>1, <1>5, <1>7 DEF IInv, QueueInv
<1>9. msg # "none"
  BY <1>1 DEF ForkingLines
<1>10. ThreadInv'
  BY <1>1, <1>4, <1>5, <1>6, <1>9
  DEF IInv, ThreadInv, ThreadStates, Starting, Waiting
<1>11. ProcInv'
  <2>1. Progress
    BY <1>1, SameProgress DEF IInv
  <2>2. \A h \in Groups : line'[h] = "none" => line[h] = "none"
    BY <1>5, <1>6, <1>9
  <2> QED BY <1>1, <2>1, <2>2, ProcKept DEF IInv, ProcInv
<1>12. StageInv'
  <2>1. ~Born(<<g, 2>>) /\ ~Born(Leader(g))
    BY <1>5, LeaderFacts DEF IInv, ProcInv
  <2>2. UNCHANGED proc
    BY <1>1 DEF procVars
  <2> QED BY <1>1, <1>4, <2>1, <2>2 DEF StageInv, Waiting, Born, Leader
<1>13. TableInv' /\ Keeps({})
  BY <1>1, UntouchedFacts DEF IInv
<1>14. ListedHeld'
  BY <1>1, <1>13, SameProgress, ProgressKeeps DEF IInv, Keeps
<1>15. WaitsListed'
  BY <1>1 DEF WaitsListed, Waiting
<1> QED BY <1>8, <1>10, <1>11, <1>12, <1>13, <1>14, <1>15 DEF IInv

\* The processes of a command are forked in the order of the pipeline.
LEMMA ForkedCount ==
  ASSUME ProcInv, NEW g \in Groups
  PROVE  Cardinality(ProcsOf(g)) =
           IF Born(<<g, 2>>) THEN 2 ELSE IF Born(Leader(g)) THEN 1 ELSE 0
<1>1. \A p \in Procs : p[1] = g => p = Leader(g) \/ p = <<g, 2>>
  BY DEF Procs, Leader
<1>2. Leader(g) # <<g, 2>>
  BY DEF Leader
<1>3. CASE Born(<<g, 2>>)
  <2>1. Born(Leader(g))
    BY <1>3 DEF ProcInv
  <2>2. ProcsOf(g) = {Leader(g)} \cup {<<g, 2>>}
    BY <1>1, <1>3, <2>1, LeaderFacts DEF ProcsOf, Born
  <2>3. /\ IsFiniteSet({Leader(g)}) /\ Cardinality({Leader(g)}) = 1
        /\ <<g, 2>> \notin {Leader(g)}
    BY <1>2, FS_Singleton
  <2>4. Cardinality({Leader(g)} \cup {<<g, 2>>}) = 1 + 1
    BY <2>3, FS_AddElement
  <2> QED BY <1>3, <2>2, <2>4
<1>4. CASE ~Born(<<g, 2>>) /\ Born(Leader(g))
  <2>1. ProcsOf(g) = {Leader(g)}
    BY <1>1, <1>4, LeaderFacts DEF ProcsOf, Born
  <2> QED BY <1>4, <2>1, FS_Singleton
<1>5. CASE ~Born(<<g, 2>>) /\ ~Born(Leader(g))
  <2>1. ProcsOf(g) = {}
    BY <1>1, <1>5 DEF ProcsOf, Born
  <2> QED BY <1>5, <2>1, FS_EmptySet
<1> QED BY <1>3, <1>4, <1>5

LEMMA ForkInv ==
  ASSUME IInv, Fork
  PROVE  IInv'
<1>1. PICK g : g = cur
  OBVIOUS
<1>2. /\ g \in Groups /\ line[g] # "none" /\ pc = "fork" /\ pc' = "setpgid"
      /\ ~Born(<<g, 2>>)
      /\ Born(Leader(g)) => Leader(g) \in ingrp
      /\ ProcInv
  BY <1>1 DEF Fork, Goto, IInv, ThreadInv, StageInv, Starting
<1>3. UNCHANGED <<tableVars, sock, hup, msg, cur, line, ingrp, note, doomed, rcv, sigchld>>
  BY DEF Fork, clientVars
<1>4. PICK p : p = IF Born(Leader(g)) THEN <<g, 2>> ELSE Leader(g)
  OBVIOUS
<1>5. p \in Procs /\ proc' = [proc EXCEPT ![p] = "new"]
  <2>1. p = <<g, Cardinality(ProcsOf(g)) + 1>>
    BY <1>2, <1>4, ForkedCount DEF Leader
  <2> QED BY <1>1, <1>2, <1>4, <2>1, LeaderFacts DEF Fork
<1>6. /\ proc \in [Procs -> ProcStates] /\ proc' \in [Procs -> ProcStates]
      /\ \A q \in Procs : proc'[q] = IF q = p THEN "new" ELSE proc[q]
      /\ ~Born(p) /\ p[1] = g
  BY <1>2, <1>4, <1>5, LeaderFacts DEF ProcInv, ProcStates, Leader
<1>7. \A q \in Procs : Born(q)' <=> Born(q) \/ q = p
  BY <1>6 DEF Born
<1>8. QueueInv'
  BY <1>2, <1>3, QueueDrop DEF IInv, QueueInv
<1>9. ThreadInv'
  BY <1>1, <1>2, <1>3 DEF IInv, ThreadInv, ThreadStates, Starting, Waiting
<1>10. Born(Leader(g))' /\ (Born(<<g, 2>>)' => Leader(g) \in ingrp)
  <2>1. PICK l, r : l = Leader(g) /\ r = <<g, 2>>
    OBVIOUS
  <2>2. l # r /\ l \in Procs /\ r \in Procs /\ ~Born(r)
    BY <1>2, <2>1, LeaderFacts DEF Leader
  <2>3. /\ Born(l)' <=> Born(l) \/ l = p
        /\ Born(r)' <=> Born(r) \/ r = p
    BY <1>7, <2>2
  <2>4. Born(l)' /\ (Born(r)' => l \in ingrp)
    BY <1>2, <1>4, <2>1, <2>2, <2>3
  <2> QED BY <2>1, <2>4 DEF Born, Leader
<1>11. ProcInv'
  <2>1. \A q \in Procs : line'[q[1]] = "none" => ~Born(q)'
    BY <1>2, <1>3, <1>6, <1>7 DEF ProcInv
  <2>2. \A h \in Groups : Born(<<h, 2>>)' => Born(Leader(h))'
    <3> SUFFICES ASSUME NEW h \in Groups, Born(<<h, 2>>)' PROVE Born(Leader(h))'
      OBVIOUS
    <3>1. CASE h = g
      BY <1>10, <3>1
    <3>2. CASE h # g
      <4>1. <<h, 2>> # p
        BY <1>6, <3>2
      <4> QED BY <1>2, <1>7, <4>1, LeaderFacts DEF ProcInv
    <3> QED BY <3>1, <3>2
  <2>3. \A q \in ingrp' : Born(q)'
    BY <1>2, <1>3, <1>7 DEF ProcInv
  <2>4. \A h \in Groups : proc'[Leader(h)] \notin {"unborn", "new"} => Leader(h) \in ingrp'
    BY <1>2, <1>3, <1>6, LeaderFacts DEF ProcInv
  <2> QED BY <1>2, <1>3, <1>6, <2>1, <2>2, <2>3, <2>4 DEF ProcInv, Born, Leader
<1>12. StageInv'
  BY <1>1, <1>2, <1>3, <1>10 DEF StageInv, Waiting, Born, Leader
<1>13. TableInv' /\ Keeps({})
  BY <1>3, UntouchedFacts DEF IInv
<1>14. ListedHeld'
  BY <1>3, <1>13 DEF IInv, ListedHeld, Keeps, Leader
<1>15. WaitsListed'
  BY <1>2 DEF WaitsListed, Waiting
<1> QED BY <1>8, <1>9, <1>11, <1>12, <1>13, <1>14, <1>15 DEF IInv

LEMMA ParentSetpgidInv ==
  ASSUME IInv, ParentSetpgid
  PROVE  IInv'
<1>1. PICK g : g = cur
  OBVIOUS
<1>2. /\ g \in Groups /\ line[g] # "none" /\ pc = "setpgid"
      /\ Born(Leader(g))
      /\ Born(<<g, 2>>) => Leader(g) \in ingrp
      /\ ProcInv
  BY <1>1 DEF ParentSetpgid, IInv, ThreadInv, StageInv, Starting
<1>3. /\ UNCHANGED <<tableVars, sock, hup, msg, cur, line, proc, note, doomed, rcv, sigchld>>
      /\ pc' \in {"fork", "parent_fork"}
  BY DEF ParentSetpgid, Goto, clientVars
<1>4. PICK p : p = IF Born(<<g, 2>>) THEN <<g, 2>> ELSE Leader(g)
  OBVIOUS
<1>5. p = <<g, Cardinality(ProcsOf(g))>> /\ p[2] = Cardinality(ProcsOf(g))
  BY <1>2, <1>4, ForkedCount DEF Leader
<1>6. /\ ingrp' = IF proc[p] = "new" /\ Joinable(p) THEN ingrp \cup {p} ELSE ingrp
      /\ pc' = IF p[2] < Width(line[g]) THEN "fork" ELSE "parent_fork"
  BY <1>1, <1>5 DEF ParentSetpgid, Goto
<1>7. Leader(g) \in ingrp'
  <2>1. CASE Born(<<g, 2>>)
    BY <1>2, <1>6, <2>1
  <2>2. CASE ~Born(<<g, 2>>)
    <3>1. p = Leader(g) /\ Joinable(p)
      BY <1>4, <2>2, LeaderFacts, <1>2 DEF Joinable
    <3> QED BY <1>2, <1>6, <3>1 DEF ProcInv, Born
  <2> QED BY <2>1, <2>2
<1>8. Width(line[g]) \in {1, 2}
  BY DEF Width
<1>9. pc' = "fork" => ~Born(<<g, 2>>) /\ Width(line[g]) = 2
  BY <1>4, <1>6, <1>8 DEF Leader
<1>10. StageInv'
  BY <1>1, <1>3, <1>7, <1>9 DEF StageInv, Waiting, Born, Leader
<1>11. Progress
  <2>1. p \in Procs /\ Born(p)
    BY <1>2, <1>4, LeaderFacts
  <2> QED BY <1>2, <1>3, <1>6, <2>1 DEF ProcInv, Progress
<1>12. ProcInv'
  BY <1>2, <1>3, <1>11, ProcKept DEF ProcInv
<1>13. QueueInv'
  BY <1>2, <1>3, QueueDrop DEF IInv, QueueInv
<1>14. ThreadInv'
  BY <1>1, <1>2, <1>3 DEF IInv, ThreadInv, ThreadStates, Starting, Waiting
<1>15. TableInv' /\ Keeps({})
  BY <1>3, UntouchedFacts DEF IInv
<1>16. ListedHeld'
  BY <1>11, <1>15, ProgressKeeps DEF IInv, Keeps
<1>17. WaitsListed'
  BY <1>3 DEF WaitsListed, Waiting
<1> QED BY <1>10, <1>12, <1>13, <1>14, <1>15, <1>16, <1>17 DEF IInv

LEMMA ParentForkInv ==
  ASSUME IInv, ParentFork
  PROVE  IInv'
<1>1. PICK g : g = cur
  OBVIOUS
<1>2. PICK b : b = Background(line[g])
  OBVIOUS
<1>3. /\ g \in Groups /\ b \in BOOLEAN /\ line[g] # "none"
      /\ pc = "parent_fork" /\ pc' \in {"kill", "wait1"}
      /\ Leader(g) \in ingrp /\ ProcInv /\ TableInv
  BY <1>1, <1>2
  DEF ParentFork, Goto, IInv, ThreadInv, StageInv, Starting, Background
<1>4. /\ UNCHANGED <<sock, hup, msg, cur, line, procVars, sigchld>>
      /\ rcv' = [rcv EXCEPT ![g] = "new"]
  BY <1>1 DEF ParentFork, clientVars
<1>5. IF Tabled(line[g]) THEN T!add_job(g, b) ELSE UNCHANGED tableVars
  BY <1>1, <1>2 DEF ParentFork
<1>6. /\ TableInv'
      /\ \A h \in Groups : T!Listed(h)' => T!Listed(h) \/ h = g
      /\ Tabled(line[g]) => T!Listed(g)' \/ overrun'
  <2>1. CASE Tabled(line[g])
    BY <1>3, <1>5, <2>1, AddJobFacts
  <2>2. CASE ~Tabled(line[g])
    BY <1>3, <1>5, <2>2, UntouchedFacts DEF Keeps
  <2> QED BY <2>1, <2>2
<1>7. rcv' \in [Groups -> ReceiverStates] /\ sigchld' \in BOOLEAN
  BY <1>3, <1>4 DEF ProcInv, ReceiverStates
<1>8. Progress /\ UNCHANGED ingrp
  BY <1>3, <1>4, SameProgress DEF procVars
<1>9. QueueInv'
  BY <1>3, <1>4, QueueDrop DEF IInv, QueueInv
<1>10. ThreadInv'
  BY <1>1, <1>3, <1>4 DEF IInv, ThreadInv, ThreadStates, Starting, Waiting
<1>11. ProcInv'
  BY <1>3, <1>4, <1>7, <1>8, ProcKept
<1>12. StageInv'
  BY <1>1, <1>3, <1>4, <1>8 DEF StageInv, Waiting, Leader
<1>13. ListedHeld'
  BY <1>3, <1>6, <1>8 DEF IInv, ListedHeld, Leader
<1>14. WaitsListed'
  BY <1>1, <1>3, <1>4, <1>6
  DEF WaitsListed, Waiting, T!Listed, T!Holds, T!Used, T!InUse
<1> QED BY <1>6, <1>9, <1>10, <1>11, <1>12, <1>13, <1>14 DEF IInv

-----------------------------------------------------------------------------
(* The invariant, the types.                                               *)

LEMMA InitIInv == Init => IInv
<1> SUFFICES ASSUME Init PROVE IInv
  OBVIOUS
<1>1. TableInv /\ \A h \in Groups : ~T!Listed(h)
  <2>1. /\ job_table = [i \in T!Slots |-> NoJob]
        /\ next_job = 0 /\ overrun = FALSE /\ ordered = TRUE
    BY DEF Init, T!Init
  <2>2. /\ job_table \in [T!Slots -> T!Job \cup {NoJob}]
        /\ \A i \in T!Slots : job_table[i] = NoJob
    BY <2>1
  <2>3. TableInv
    <3>1. next_job \in 0 .. MaxJobs + 1 /\ ~(next_job > MaxJobs)
      BY <2>1, TableFacts
    <3>2. overrun \in BOOLEAN /\ ordered \in BOOLEAN /\ ~overrun
      BY <2>1
    <3> QED BY <2>2, <3>1, <3>2 DEF TableInv, T!TypeOK, T!IndexIsSlot, T!TopWithinArray
  <2>4. \A h \in Groups : ~T!Listed(h)
    BY <2>2 DEF T!Listed, T!Holds, T!Used, T!InUse
  <2> QED BY <2>3, <2>4
<1>2. started = 0
  <2>1. {g \in Groups : line[g] # "none"} = {}
    BY DEF Init
  <2> QED BY <2>1, FS_EmptySet DEF started
<1>3. ForkingInFlight = 0
  <2>1. {n \in DOMAIN sock : sock[n] \in ForkingLines} = {}
    BY DEF Init
  <2>2. "none" \notin ForkingLines
    BY DEF ForkingLines
  <2> QED BY <2>1, <2>2, FS_EmptySet DEF ForkingInFlight, Init
<1>4. QueueInv
  <2>1. \A g \in Groups : line[g] = "none" /\ ~(g <= 0)
    BY ShellAssumption DEF Init, Groups
  <2>2. MaxStarts \in Nat /\ MaxQueue \in Nat /\ <<>> \in Seq(Lines) /\ Len(<<>>) = 0
    BY ShellAssumption, EmptySeq
  <2> QED BY <1>2, <1>3, <2>1, <2>2 DEF Init, QueueInv
<1>5. ThreadInv
  BY DEF Init, ThreadInv, ThreadStates, Starting, Waiting
<1>6. ProcInv
  BY LeaderFacts DEF Init, ProcInv, ProcStates, ReceiverStates, Born
<1>7. StageInv /\ WaitsListed
  BY DEF Init, StageInv, WaitsListed, Waiting
<1>8. ListedHeld
  BY <1>1 DEF ListedHeld
<1> QED BY <1>1, <1>4, <1>5, <1>6, <1>7, <1>8 DEF IInv

LEMMA NextIInv == IInv /\ [Next]_shellVars => IInv'
<1> SUFFICES ASSUME IInv, [Next]_shellVars PROVE IInv'
  OBVIOUS
<1>1. CASE \E l \in Lines : Send(l)
  BY <1>1, SendInv
<1>2. CASE \/ Disconnect
           \/ \E p \in Procs : ChildSetup(p) \/ Exit(p)
           \/ \E g \in Groups : ReceiverReady(g) \/ ReceiverHangup(g)
           \/ sig_chld
           \/ UNCHANGED shellVars
  BY <1>2, AloneInv
<1>3. CASE \E g \in Groups : ReceiverRecv(g)
  BY <1>3, ReceiverRecvInv
<1>4. CASE ThreadNext
  BY <1>4, RecvInv, EndInv, CheckJobsInv, ForegroundInv, BackgroundLastInv,
     FgWaitInv, StartCommandInv, ForkInv, ParentSetpgidInv, ParentForkInv,
     Wait1Inv, Wait2Inv, Wait0Inv
  DEF ThreadNext
<1> QED BY <1>1, <1>2, <1>3, <1>4 DEF Next

LEMMA Inductive == Spec => []IInv
BY InitIInv, NextIInv, PTL DEF Spec

\* The variables have their types: the socket holds no more than MaxQueue
\* messages, no more than MaxStarts commands fork, and only processes that are
\* in the group of their job are ever stopped or have a SIGINT pending.
THEOREM TypeCorrect == Spec => []TypeOK
<1>1. IInv => TypeOK
  <2> SUFFICES ASSUME IInv PROVE TypeOK
    OBVIOUS
  <2>1. \A n \in 1 .. Len(sock) : sock[n] \in Lines
    BY LenProperties, ElementOfSeq DEF IInv, QueueInv
  <2> QED BY <2>1 DEF IInv, TableInv, QueueInv, ThreadInv, ProcInv, TypeOK
<1> QED BY <1>1, Inductive, PTL

-----------------------------------------------------------------------------
(* Which jobs leave the table.                                             *)

\* A job that leaves the table has lost a process by the end of the step.
Deaths ==
  \A g \in Groups :
    T!Listed(g) /\ ~T!Listed(g)' => \E p \in ProcsOf(g) : proc'[p] = "gone"

LEMMA TableSame ==
  ASSUME IInv, UNCHANGED tableVars
  PROVE  Deaths
BY UntouchedFacts DEF IInv, Keeps, Deaths

\* The job that update_status may free has to have lost a process.
LEMMA UpdateStep ==
  ASSUME IInv, NEW g \in Groups, NEW s \in T!WaitStatuses, T!update_status(g, s),
         s = "stopped" \/ \E p \in ProcsOf(g) : proc'[p] = "gone"
  PROVE  Deaths
<1>1. /\ Keeps({g})
      /\ s \notin {"exited", "signaled"} => Keeps({})
  BY UpdateFacts DEF IInv
<1> SUFFICES ASSUME NEW h \in Groups, T!Listed(h), ~T!Listed(h)'
             PROVE  \E p \in ProcsOf(h) : proc'[p] = "gone"
  BY DEF Deaths
<1> QED BY <1>1 DEF Keeps

LEMMA ProcessStep ==
  ASSUME IInv, NEW p \in Procs, NEW s \in T!WaitStatuses, StatusOfProcess(p, s),
         s = "stopped" \/ (Born(p) /\ proc'[p] = "gone")
  PROVE  Deaths
<1>1. PICK g : g = p[1]
  OBVIOUS
<1>2. g \in Groups /\ (Born(p) => p \in ProcsOf(g))
  BY <1>1 DEF Procs, ProcsOf, Born
<1>3. CASE T!update_status(g, s)
  BY <1>2, <1>3, UpdateStep
<1>4. CASE UNCHANGED tableVars
  BY <1>4, TableSame
<1> QED BY <1>1, <1>3, <1>4 DEF StatusOfProcess

LEMMA Statuses == {"exited", "stopped"} \subseteq T!WaitStatuses
BY DEF T!WaitStatuses

\* A collected process is gone after the step.
LEMMA Reaped ==
  ASSUME IInv, NEW p \in Procs, proc[p] = "zombie", Reap(p)
  PROVE  /\ Born(p) /\ proc'[p] = "gone"
         /\ \A g : p[1] = g => p \in ProcsOf(g)
BY ReapProgress DEF IInv, Born, ProcsOf

\* The leader of a group the thread finds empty is gone.
LEMMA EmptyLost ==
  ASSUME IInv, NEW g \in Groups, g = cur, pc \in Waiting \cup {"fgwait"},
         Members(g) = {}, UNCHANGED procVars
  PROVE  \E p \in ProcsOf(g) : proc'[p] = "gone"
<1>1. Leader(g) \in ingrp /\ ProcInv
  BY DEF IInv, StageInv
<1>2. Leader(g) \in ProcsOf(g)
  BY <1>1, LeaderFacts DEF ProcInv, ProcsOf, Born
<1>3. proc[Leader(g)] = "gone"
  BY <1>1, <1>2 DEF Members
<1> QED BY <1>2, <1>3 DEF procVars

LEMMA WaitDeaths ==
  ASSUME IInv, FgWait \/ Wait1 \/ Wait2
  PROVE  Deaths
<1>1. PICK g : g = cur
  OBVIOUS
<1>2. g \in Groups /\ pc \in Waiting \cup {"fgwait"}
  BY <1>1 DEF IInv, ThreadInv, FgWait, Wait1, Wait2, Waiting
<1>3. \A p \in Zombies(Members(g)) : p \in Procs /\ p[1] = g /\ proc[p] = "zombie"
  BY MembersFacts DEF Zombies
<1>4. CASE FgWait
  <2>1. ASSUME NEW p \in Zombies(Members(g)), Reap(p), StatusOfProcess(p, "exited")
        PROVE  Deaths
    BY <1>3, <2>1, Reaped, ProcessStep, Statuses
  <2>2. ASSUME NEW p \in Members(g), StatusOfProcess(p, "stopped") PROVE Deaths
    BY <2>2, MembersFacts, ProcessStep, Statuses
  <2> QED BY <1>1, <1>4, <2>1, <2>2, TableSame DEF FgWait
<1>5. CASE Wait1
  <2>1. ASSUME NEW p \in Zombies(Members(g)), Reap(p), T!update_status(g, "exited")
        PROVE  Deaths
    BY <1>2, <1>3, <2>1, Reaped, UpdateStep, Statuses
  <2>2. ASSUME T!update_status(g, "stopped") PROVE Deaths
    BY <1>2, <2>2, UpdateStep, Statuses
  <2>3. ASSUME Members(g) = {}, NEW s \in T!WaitStatuses, T!update_status(g, s),
               UNCHANGED procVars
        PROVE  Deaths
    BY <1>1, <1>2, <2>3, EmptyLost, UpdateStep
  <2> QED BY <1>1, <1>5, <2>1, <2>2, <2>3 DEF Wait1
<1>6. CASE Wait2
  <2>1. ASSUME NEW p \in Zombies(Members(g)), Reap(p), StatusOfGroup("exited")
        PROVE  Deaths
    BY <1>1, <1>2, <1>3, <2>1, Reaped, UpdateStep, Statuses, TableSame DEF StatusOfGroup
  <2>2. ASSUME StatusOfGroup("stopped") PROVE Deaths
    BY <1>1, <1>2, <2>2, UpdateStep, Statuses, TableSame DEF StatusOfGroup
  <2> QED BY <1>1, <1>6, <2>1, <2>2, TableSame DEF Wait2
<1> QED BY <1>4, <1>5, <1>6

LEMMA ParentForkDeaths ==
  ASSUME IInv, ParentFork
  PROVE  Deaths
<1>1. PICK g : g = cur
  OBVIOUS
<1>2. PICK b : b = Background(line[g])
  OBVIOUS
<1>3. g \in Groups /\ b \in BOOLEAN /\ TableInv
  BY <1>1, <1>2 DEF ParentFork, IInv, ThreadInv, Starting, Background
<1>4. CASE T!add_job(g, b)
  BY <1>3, <1>4, AddJobFacts DEF Deaths
<1> QED BY <1>1, <1>2, <1>4, TableSame DEF ParentFork

LEMMA MoveDeaths ==
  ASSUME IInv, Foreground \/ BackgroundLast
  PROVE  Deaths
<1>1. ASSUME NEW i \in T!Slots, T!fg_job(i) \/ T!bg_job(i) PROVE Deaths
  BY <1>1, FgJobFacts, BgJobFacts DEF IInv, Keeps, Deaths
<1> QED BY <1>1, TableSame DEF Foreground, BackgroundLast

LEMMA NextDeaths == IInv /\ [Next]_shellVars => Deaths
<1> SUFFICES ASSUME IInv, [Next]_shellVars PROVE Deaths
  OBVIOUS
<1>1. CASE CheckJobs
  <2>1. ASSUME NEW p \in Zombies(Procs), Reap(p), StatusOfProcess(p, "exited")
        PROVE  Deaths
    <3>1. p \in Procs /\ proc[p] = "zombie"
      BY DEF Zombies
    <3> QED BY <2>1, <3>1, Reaped, ProcessStep, Statuses
  <2> QED BY <1>1, <2>1, TableSame DEF CheckJobs
<1>2. CASE Foreground \/ BackgroundLast
  BY <1>2, MoveDeaths
<1>3. CASE ParentFork
  BY <1>3, ParentForkDeaths
<1>4. CASE FgWait \/ Wait1 \/ Wait2
  BY <1>4, WaitDeaths
<1>5. CASE ~\/ CheckJobs \/ Foreground \/ BackgroundLast \/ ParentFork
            \/ FgWait \/ Wait1 \/ Wait2
  <2>1. UNCHANGED tableVars
    BY <1>5
    DEF Next, ThreadNext, shellVars, Send, Disconnect, ChildSetup, Exit, ReceiverReady,
        ReceiverRecv, ReceiverHangup, sig_chld, Recv, RecvHangup, Ignore, Leave,
        StartCommand, Fork, ParentSetpgid, Wait0, KillReceiver
  <2> QED BY <2>1, TableSame
<1> QED BY <1>1, <1>2, <1>3, <1>4, <1>5

\* A stop, a garbage status or the death of another job never removes a job
\* from the table.
THEOREM FreedAfterDeath == Spec => FreedOnlyAfterADeath
<1> QED BY NextDeaths, Inductive, PTL DEF Spec, FreedOnlyAfterADeath, Deaths

-----------------------------------------------------------------------------
(* The job in the foreground.                                              *)

Held ==
  Waits /\ ~Waits' =>
    \E p \in ProcsOf(cur) : proc'[p] = "gone" \/ (p \in note /\ p \notin note')

LEMMA NextHeld == IInv /\ [Next]_shellVars => Held
<1> SUFFICES ASSUME IInv, [Next]_shellVars, Waits, ~Waits'
             PROVE  \E p \in ProcsOf(cur) :
                      proc'[p] = "gone" \/ (p \in note /\ p \notin note')
  BY DEF Held
<1>1. FgWait \/ Wait1 \/ Wait2 \/ Wait0
  BY DEF Next, ThreadNext, shellVars, threadVars, Waits, Dispatch, Send, Disconnect,
     ChildSetup, Exit, ReceiverReady, ReceiverRecv, ReceiverHangup, sig_chld, Recv,
     RecvHangup, CheckJobs, Ignore, Leave, Foreground, BackgroundLast, StartCommand,
     Fork, ParentSetpgid, ParentFork, KillReceiver
<1>2. PICK g : g = cur
  OBVIOUS
<1>3. g \in Groups /\ pc \in Waiting \cup {"fgwait"}
  BY <1>2 DEF IInv, ThreadInv, Waits, Waiting
<1>4. ASSUME NEW p \in Zombies(Members(g)), Reap(p)
      PROVE  \E q \in ProcsOf(g) : proc'[q] = "gone"
  <2>1. p \in Procs /\ p[1] = g /\ proc[p] = "zombie"
    BY MembersFacts DEF Zombies
  <2> QED BY <1>4, <2>1, Reaped
<1>5. ASSUME NEW p \in Members(g) \cap note, note' = note \ {p}
      PROVE  \E q \in ProcsOf(g) : q \in note /\ q \notin note'
  BY <1>5 DEF Members
<1>6. CASE Wait0
  <2>1. PICK p \in Procs : p[1] = g /\ proc[p] = "gone"
    BY <1>2, <1>6 DEF IInv, WaitsListed, Wait0, HasGone
  <2>2. Progress
    <3>1. ASSUME NEW q \in Zombies(Strays), Reap(q) PROVE Progress
      BY <3>1, ReapProgress DEF IInv, Zombies, Strays
    <3>2. CASE UNCHANGED procVars
      BY <3>2, SameProgress DEF IInv
    <3> QED BY <1>6, <3>1, <3>2 DEF Wait0
  <2>3. p \in ProcsOf(g) /\ proc'[p] = "gone"
    BY <2>1, <2>2 DEF ProcsOf, Progress
  <2> QED BY <1>2, <2>3
<1>7. CASE FgWait \/ Wait1 \/ Wait2
  <2>1. \/ \E p \in Zombies(Members(g)) : Reap(p)
        \/ \E p \in Members(g) \cap note : note' = note \ {p}
        \/ Members(g) = {} /\ UNCHANGED procVars
    BY <1>2, <1>7 DEF FgWait, Wait1, Wait2
  <2> QED BY <1>2, <1>3, <1>4, <1>5, <2>1, EmptyLost
<1> QED BY <1>1, <1>6, <1>7

\* The thread stops waiting for its job only after it has collected a process
\* of it or learnt of a stop: it never finds the group empty because the
\* processes have not joined it yet.
THEOREM JobHeld == Spec => ForegroundHeld
<1>1. IInv /\ [Next]_shellVars => Held
  BY NextHeld
<1> QED BY <1>1, Inductive, PTL DEF Spec, ForegroundHeld, Held

-----------------------------------------------------------------------------
(* The size of the table.                                                  *)

\* No more slots were filled than commands started.
Filled ==
  /\ next_job <= started
  /\ pc \in Starting => next_job < started

LEMMA TopFacts ==
  ASSUME TableInv, NEW g, NEW s, T!update_status(g, s)
  PROVE  next_job \in Int /\ next_job' \in {next_job, next_job - 1}
BY DEF TableInv, T!TypeOK, T!update_status, T!job_exited, T!free_job, T!job_stopped,
   T!job_cont, T!tableVars

LEMMA TopKept ==
  ASSUME IInv, [Next]_shellVars, ~ParentFork
  PROVE  next_job \in Int /\ next_job' \in {next_job, next_job - 1}
<1>1. TableInv /\ next_job \in Int
  BY DEF IInv, TableInv, T!TypeOK
<1>2. CASE UNCHANGED tableVars
  BY <1>1, <1>2 DEF tableVars
<1>3. ASSUME NEW p, NEW s, StatusOfProcess(p, s)
      PROVE  next_job' \in {next_job, next_job - 1}
  BY <1>1, <1>3, TopFacts DEF StatusOfProcess, tableVars
<1>4. ASSUME NEW s, StatusOfGroup(s)
      PROVE  next_job' \in {next_job, next_job - 1}
  BY <1>1, <1>4, TopFacts DEF StatusOfGroup, tableVars
<1>5. ASSUME NEW i, T!fg_job(i) \/ T!bg_job(i)
      PROVE  next_job' \in {next_job, next_job - 1}
  BY <1>1, <1>5 DEF T!fg_job, T!bg_job
<1>6. CASE CheckJobs \/ Foreground \/ BackgroundLast \/ FgWait \/ Wait1 \/ Wait2
  BY <1>1, <1>2, <1>3, <1>4, <1>5, <1>6, TopFacts
  DEF CheckJobs, Foreground, BackgroundLast, FgWait, Wait1, Wait2
<1>7. CASE ~(CheckJobs \/ Foreground \/ BackgroundLast \/ FgWait \/ Wait1 \/ Wait2)
  <2>1. UNCHANGED tableVars
    BY <1>7
    DEF Next, ThreadNext, shellVars, Send, Disconnect, ChildSetup, Exit, ReceiverReady,
        ReceiverRecv, ReceiverHangup, sig_chld, Recv, RecvHangup, Ignore, Leave,
        StartCommand, Fork, ParentSetpgid, Wait0, KillReceiver
  <2> QED BY <1>2, <2>1
<1> QED BY <1>1, <1>6, <1>7

LEMMA NextFilled == IInv /\ Filled /\ [Next]_shellVars => Filled'
<1> SUFFICES ASSUME IInv, Filled, [Next]_shellVars PROVE Filled'
  OBVIOUS
<1>1. started \in Nat /\ next_job \in Int
  BY StartedFacts DEF IInv, QueueInv, TableInv, T!TypeOK
<1>2. CASE ParentFork
  <2>1. pc \in Starting /\ pc' \notin Starting /\ UNCHANGED line
    BY <1>2 DEF ParentFork, Goto, Starting
  <2>2. next_job' \in {next_job, next_job + 1}
    BY <1>2 DEF ParentFork, T!add_job, tableVars
  <2>3. started' = started
    BY <2>1 DEF started
  <2> QED BY <1>1, <2>1, <2>2, <2>3 DEF Filled
<1>3. CASE StartCommand
  <2>1. /\ UNCHANGED next_job /\ msg \in ForkingLines
        /\ line' = [line EXCEPT ![started + 1] = msg]
    BY <1>3 DEF StartCommand, Dispatch, tableVars
  <2>2. started < MaxStarts
    <3>1. ForkingInFlight = Cardinality(Forking(sock)) + 1
      BY <2>1, InFlightFacts DEF IInv, ForkingOne
    <3> QED BY <3>1, InFlightFacts DEF IInv, QueueInv
  <2>3. started' = started + 1
    BY <2>1, <2>2, StartOne DEF IInv
  <2> QED BY <1>1, <2>1, <2>3 DEF Filled
<1>4. CASE ~ParentFork /\ ~StartCommand
  <2>1. UNCHANGED line
    BY <1>4
    DEF Next, ThreadNext, shellVars, threadVars, Send, Disconnect, ChildSetup, Exit,
        ReceiverReady, ReceiverRecv, ReceiverHangup, sig_chld, Recv, RecvHangup, Close,
        CheckJobs, Ignore, Leave, Foreground, BackgroundLast, FgWait, Fork, ParentSetpgid,
        Wait1, Wait2, Wait0, KillReceiver, Prompt, LoopTest
  <2>2. pc' \in Starting => pc \in Starting
    BY <1>4, LoopTestFacts
    DEF Next, ThreadNext, shellVars, threadVars, Send, Disconnect, ChildSetup, Exit,
        ReceiverReady, ReceiverRecv, ReceiverHangup, sig_chld, Recv, RecvHangup, Close,
        CheckJobs, Ignore, Leave, Foreground, BackgroundLast, FgWait, Fork, ParentSetpgid,
        Wait1, Wait2, Wait0, KillReceiver, Prompt, Goto, Starting
  <2>3. next_job' \in {next_job, next_job - 1}
    BY <1>4, TopKept
  <2>4. started' = started
    BY <2>1 DEF started
  <2> QED BY <1>1, <2>2, <2>3, <2>4 DEF Filled
<1> QED BY <1>2, <1>3, <1>4

\* Holes or not, a connection that starts no more commands than the table has
\* slots never stores past its end.
THEOREM NeverOverruns == MaxStarts <= MaxJobs /\ Spec => []~overrun
<1>1. Init => Filled
  <2> SUFFICES ASSUME Init PROVE Filled
    OBVIOUS
  <2>1. next_job = 0 /\ pc = "recv"
    BY DEF Init, T!Init
  <2>2. started \in Nat
    BY <2>1, InitIInv, StartedFacts DEF IInv, QueueInv
  <2> QED BY <2>1, <2>2 DEF Filled, Starting
<1>2. MaxStarts <= MaxJobs /\ IInv /\ Filled => ~overrun
  <2> SUFFICES ASSUME MaxStarts <= MaxJobs, IInv, Filled PROVE ~overrun
    OBVIOUS
  <2>1. started <= MaxStarts /\ started \in Nat
    BY InFlightFacts DEF IInv, QueueInv
  <2>2. next_job <= MaxJobs /\ next_job \in Int
    BY <2>1, ShellAssumption DEF Filled, IInv, TableInv, T!TypeOK
  <2> QED BY <2>2, ShellAssumption DEF IInv, TableInv, T!TopWithinArray
<1>3. Spec => []Filled
  BY <1>1, NextFilled, Inductive, PTL DEF Spec
<1>4. ASSUME MaxStarts <= MaxJobs PROVE Spec => []~overrun
  <2>1. IInv /\ Filled => ~overrun
    BY <1>2, <1>4
  <2> QED BY <2>1, <1>3, Inductive, PTL
<1> QED BY <1>4
=============================================================================
