------------------------------ MODULE JobChain ------------------------------
(***************************************************************************)
(* The job list of the standalone shell, yash/job.h, as a sequence: the    *)
(* operators are its functions, with their names.                          *)
(***************************************************************************)
EXTENDS Integers, Sequences, FiniteSets

JobStates == {"STOPPED", "RUNNING", "TERMINATED"}

\* allocJob does not set pgid: the job starts with whatever malloc left there.
allocJob(command, next_id, pgid) ==
  [command |-> command, state |-> "RUNNING", id |-> next_id, pgid |-> pgid]

\* A faulty variant: the walk to the last job is left out.
idAfterFirst(chain) == IF chain = <<>> THEN 1 ELSE chain[1].id + 1

getNextJobId(chain) ==
  IF chain = <<>> THEN 1 ELSE chain[Len(chain)].id + 1

addToJobChain(chain, command, pgid) ==
  Append(chain, allocJob(command, getNextJobId(chain), pgid))

\* The position getLastStoppedJob returns; no element stands for NULL.
getLastStoppedJob(chain) ==
  {n \in DOMAIN chain :
     /\ chain[n].state = "STOPPED"
     /\ \A m \in DOMAIN chain : chain[m].state = "STOPPED" => m <= n}

NotTerminated(job) == job.state # "TERMINATED"

\* A faulty variant: nothing is unlinked from the list.
removeNothing(chain) == chain

\* Another: unlinking a job loses the ones behind it.
removeRest(chain) ==
  IF NotTerminated(Head(chain)) THEN <<Head(chain)>> ELSE <<>>

\* The jobs at some positions of the list, in their order.
jobsAt(chain, positions) ==
  LET size == Cardinality(positions)
      order == CHOOSE f \in [1 .. size -> positions] :
                 \A m, n \in 1 .. size : m < n => f[m] < f[n]
  IN [n \in 1 .. size |-> chain[order[n]]]

\* The loop unlinks every terminated job after the first.  It ends on the last
\* node, and it is that node's next, NULL, that is returned when the first job
\* is terminated: the jobs after it are dropped with it.
removeTerminated(chain) ==
  IF NotTerminated(Head(chain))
    THEN jobsAt(chain, {n \in DOMAIN chain : NotTerminated(chain[n])})
    ELSE <<>>
=============================================================================
