------------------------------- MODULE Shell -------------------------------
(***************************************************************************)
(* One connection of yashd: the thread that runs shell_loop                *)
(* (yash-holden/yash_cmd.c), the processes it forks for each command line, *)
(* the receiver it forks next to them to pass on "CTL" messages, and the   *)
(* daemon's SIGCHLD handler (yashd.c), all over the job table of JobTable. *)
(*                                                                         *)
(* Children change state on their own; three places collect them: waitpid  *)
(* in the thread, check_jobs, and the handler, which throws the status     *)
(* away.  Thread, receivers and handler interleave at system calls.        *)
(*                                                                         *)
(* A process group is named by the number of the command that started it:  *)
(* the model assumes that the kernel does not hand out a group id that is  *)
(* still in the table.                                                     *)
(***************************************************************************)
EXTENDS Integers, Sequences, FiniteSets

CONSTANTS
  Lines,       \* the messages this client may send
  MaxStarts,   \* bound: commands that fork, in the life of the connection
  MaxQueue,    \* bound: messages waiting in the socket
  MaxJobs,
  NoJob

Groups == 1 .. MaxStarts

\* "CTL c", "CTL z" and "CTL d"; the others are the text after "CMD ".
ControlLines == {"c", "z", "d"}

\* A program, a pipeline of two, either in the background, and "jobs".
ForkingLines == {"run", "run&", "pipe", "pipe&", "jobs"}

AllLines == ControlLines \cup ForkingLines \cup {"fg", "bg", "blank"}

ASSUME ShellAssumption ==
  /\ Lines \subseteq AllLines
  /\ MaxStarts \in Nat \ {0}
  /\ MaxQueue \in Nat \ {0}
  /\ MaxJobs \in Nat \ {0}
  /\ NoJob \notin [pgid : Groups, status : {0, 1}, bg : BOOLEAN, index : Nat]

VARIABLES
  job_table, next_job, overrun, ordered,   \* of JobTable
  sock,      \* messages sent by the client and not yet received
  hup,       \* the client has closed the connection
  pc,        \* where the connection's thread is
  msg,       \* the message it is working on
  cur,       \* the group of the job it started or moved to the foreground
  line,      \* the command line each group runs
  proc,      \* state of each process
  ingrp,     \* the processes that are in the process group of their job
  note,      \* stopped processes whose stop no wait has returned
  doomed,    \* stopped processes with a SIGINT pending
  rcv,       \* state of the receiver of each group
  sigchld    \* a SIGCHLD is pending for the daemon

tableVars == <<job_table, next_job, overrun, ordered>>
clientVars == <<sock, hup>>
threadVars == <<pc, msg, cur, line>>
procVars == <<proc, ingrp, note, doomed>>
shellVars == <<tableVars, clientVars, threadVars, procVars, rcv, sigchld>>

T == INSTANCE JobTable

-----------------------------------------------------------------------------
Procs == Groups \X {1, 2}

Leader(g) == <<g, 1>>

Width(l) == IF l \in {"pipe", "pipe&"} THEN 2 ELSE 1

Background(l) == l \in {"run&", "pipe&"}

\* parent_fork keeps "jobs" out of the table.
Tabled(l) == l \in ForkingLines \ {"jobs"}

\* "new" is between fork and the end of child_fork: the daemon's SIG_IGN for
\* SIGINT and SIGTSTP is still in force.  "gone" has been waited for.
ProcStates == {"unborn", "new", "run", "stopped", "zombie", "gone"}

\* "new" is before signal(SIGINT, SIG_DFL); "loop" is in the recv loop.
ReceiverStates == {"none", "new", "loop", "zombie", "gone"}

Alive(p) == proc[p] \in {"new", "run", "stopped"}

ProcsOf(g) == {p \in Procs : p[1] = g /\ proc[p] # "unborn"}

LiveOf(g) == {p \in ProcsOf(g) : Alive(p)}

\* What waitpid(-g, ...) and kill(-g, ...) see: an unreaped process keeps its
\* group.
Members(g) == {p \in ProcsOf(g) \cap ingrp : proc[p] # "gone"}

Zombies(S) == {p \in S : proc[p] = "zombie"}

ThreadStates == {"recv", "check", "fork", "setpgid", "parent_fork",
                 "wait1", "wait2", "wait0", "fgwait", "kill", "closed"}

Goto(l) == pc' = l

\* fork() numbers the groups in the order of the commands.
started == Cardinality({g \in Groups : line[g] # "none"})

-----------------------------------------------------------------------------
Init ==
  /\ T!Init
  /\ sock = <<>>
  /\ hup = FALSE
  /\ pc = "recv"
  /\ msg = "none"
  /\ cur = 0
  /\ line = [g \in Groups |-> "none"]
  /\ proc = [p \in Procs |-> "unborn"]
  /\ ingrp = {}
  /\ note = {}
  /\ doomed = {}
  /\ rcv = [g \in Groups |-> "none"]
  /\ sigchld = FALSE

-----------------------------------------------------------------------------
(* The client.                                                             *)

\* Commands that will fork and have not yet: those in the socket and in hand.
ForkingInFlight ==
  Cardinality({n \in DOMAIN sock : sock[n] \in ForkingLines})
    + IF msg \in ForkingLines THEN 1 ELSE 0

\* Commands that would fork past MaxStarts are not sent.
Send(l) ==
  /\ ~hup
  /\ Len(sock) < MaxQueue
  /\ l \in ForkingLines => started + ForkingInFlight < MaxStarts
  /\ sock' = Append(sock, l)
  /\ UNCHANGED <<tableVars, hup, threadVars, procVars, rcv, sigchld>>

Disconnect ==
  /\ ~hup
  /\ hup' = TRUE
  /\ UNCHANGED <<tableVars, sock, threadVars, procVars, rcv, sigchld>>

-----------------------------------------------------------------------------
(* The processes, as the kernel runs them.                                 *)

\* The child's own setpgid and the reset of its signals; a group none of whose
\* processes is left cannot be joined.
Joinable(p) == p = Leader(p[1]) \/ Members(p[1]) # {}

ChildSetup(p) ==
  /\ proc[p] = "new"
  /\ proc' = [proc EXCEPT ![p] = "run"]
  /\ ingrp' = IF Joinable(p) THEN ingrp \cup {p} ELSE ingrp
  /\ UNCHANGED <<tableVars, clientVars, threadVars, note, doomed, rcv, sigchld>>

\* The program ends; a failed execvp ends the same way.
Exit(p) ==
  /\ proc[p] = "run"
  /\ proc' = [proc EXCEPT ![p] = "zombie"]
  /\ sigchld' = TRUE
  /\ UNCHANGED <<tableVars, clientVars, threadVars, ingrp, note, doomed, rcv>>

\* kill(-g, SIGINT)
Interrupt(g) ==
  LET hit == {p \in Members(g) : proc[p] = "run"}
  IN /\ proc' = [p \in Procs |-> IF p \in hit THEN "zombie" ELSE proc[p]]
     /\ doomed' = doomed \cup {p \in Members(g) : proc[p] = "stopped"}
     /\ sigchld' = (sigchld \/ hit # {})
     /\ UNCHANGED <<ingrp, note>>

\* kill(-g, SIGTSTP)
Suspend(g) ==
  LET hit == {p \in Members(g) : proc[p] = "run"}
  IN /\ proc' = [p \in Procs |-> IF p \in hit THEN "stopped" ELSE proc[p]]
     /\ note' = note \cup hit
     /\ sigchld' = (sigchld \/ hit # {})
     /\ UNCHANGED <<ingrp, doomed>>

\* kill(-g, SIGCONT): a stop not yet returned by a wait is lost, a pending
\* SIGINT is delivered.
Resume(g) ==
  LET hit == {p \in Members(g) : proc[p] = "stopped"}
  IN /\ proc' = [p \in Procs |-> IF p \notin hit THEN proc[p]
                                 ELSE IF p \in doomed THEN "zombie" ELSE "run"]
     /\ note' = note \ hit
     /\ doomed' = doomed \ hit
     /\ sigchld' = (sigchld \/ hit # {})
     /\ UNCHANGED ingrp

Reap(p) ==
  /\ proc' = [proc EXCEPT ![p] = "gone"]
  /\ UNCHANGED <<ingrp, note, doomed>>

-----------------------------------------------------------------------------
(* The receiver of group g, forked by parent_fork.                         *)

ReceiverReady(g) ==
  /\ rcv[g] = "new"
  /\ rcv' = [rcv EXCEPT ![g] = "loop"]
  /\ UNCHANGED <<tableVars, clientVars, threadVars, procVars, sigchld>>

\* Anything but "CTL c" and "CTL z" goes to the job's input.
ReceiverRecv(g) ==
  /\ rcv[g] = "loop"
  /\ sock # <<>>
  /\ sock' = Tail(sock)
  /\ \/ Head(sock) = "c" /\ Interrupt(g)
     \/ Head(sock) = "z" /\ Suspend(g)
     \/ Head(sock) \notin {"c", "z"} /\ UNCHANGED <<procVars, sigchld>>
  /\ UNCHANGED <<tableVars, hup, threadVars, rcv>>

ReceiverHangup(g) ==
  /\ rcv[g] = "loop"
  /\ sock = <<>> /\ hup
  /\ rcv' = [rcv EXCEPT ![g] = "zombie"]
  /\ sigchld' = TRUE
  /\ UNCHANGED <<tableVars, clientVars, threadVars, procVars>>

-----------------------------------------------------------------------------
(* The daemon's SIGCHLD handler, in whatever thread the kernel picks: it   *)
(* collects one dead child, of any kind, and drops the status.             *)

DeadReceivers == {g \in Groups : rcv[g] = "zombie"}

NoneDead == Zombies(Procs) = {} /\ DeadReceivers = {}

ReapReceiver(g) == rcv' = [rcv EXCEPT ![g] = "gone"]

sig_chld ==
  /\ sigchld
  /\ sigchld' = FALSE
  /\ \/ \E p \in Zombies(Procs) : Reap(p) /\ UNCHANGED rcv
     \/ \E g \in DeadReceivers : ReapReceiver(g) /\ UNCHANGED procVars
     \/ NoneDead /\ UNCHANGED <<procVars, rcv>>
  /\ UNCHANGED <<tableVars, clientVars, threadVars>>

-----------------------------------------------------------------------------
(* The thread.                                                             *)

Recv ==
  /\ pc = "recv"
  /\ sock # <<>>
  /\ sock' = Tail(sock)
  /\ msg' = Head(sock)
  /\ Goto("check")
  /\ UNCHANGED <<tableVars, hup, cur, line, procVars, rcv, sigchld>>

Close == Goto("closed") /\ msg' = "none" /\ cur' = 0 /\ UNCHANGED line

\* A faulty variant: only an error of recv ends the loop, not the 0 of a
\* closed connection.
HangupIgnored ==
  pc = "recv" /\ sock = <<>> /\ hup /\ UNCHANGED shellVars

RecvHangup ==
  /\ pc = "recv"
  /\ sock = <<>> /\ hup
  /\ Close
  /\ UNCHANGED <<tableVars, clientVars, procVars, rcv, sigchld>>

\* update_status is given a process id and looks for the group of that number:
\* only a leader's is found.
StatusOfProcess(p, status) ==
  IF p = Leader(p[1]) THEN T!update_status(p[1], status)
                      ELSE UNCHANGED tableVars

\* One round of check_jobs.
CheckJobs ==
  /\ pc = "check"
  /\ \/ \E p \in Zombies(Procs) :
          Reap(p) /\ StatusOfProcess(p, "exited") /\ UNCHANGED rcv
     \/ \E g \in DeadReceivers :
          ReapReceiver(g) /\ UNCHANGED <<tableVars, procVars>>
  /\ UNCHANGED <<clientVars, threadVars, sigchld>>

\* Back to recv.
Prompt == Goto("recv") /\ msg' = "none" /\ cur' = 0 /\ UNCHANGED line

Dispatch(S) == pc = "check" /\ NoneDead /\ msg \in S /\ UNCHANGED clientVars

\* "CTL c" and "CTL z" find no foreground job here, and a blank line no command.
Ignore ==
  /\ Dispatch({"c", "z", "blank"})
  /\ Prompt
  /\ UNCHANGED <<tableVars, procVars, rcv, sigchld>>

Leave ==
  /\ Dispatch({"d"})
  /\ Close
  /\ UNCHANGED <<tableVars, procVars, rcv, sigchld>>

Foreground ==
  /\ Dispatch({"fg"})
  /\ \/ \E i \in T!Slots :
          LET g == job_table[i].pgid
          IN /\ T!fg_job(i)
             /\ Resume(g)
             /\ cur' = g
             /\ Goto("fgwait")
             /\ UNCHANGED <<msg, line>>
     \/ /\ T!Resumable = {}
        /\ Prompt
        /\ UNCHANGED <<tableVars, procVars, sigchld>>
  /\ UNCHANGED rcv

BackgroundLast ==
  /\ Dispatch({"bg"})
  /\ \/ \E i \in T!Slots : T!bg_job(i) /\ Resume(job_table[i].pgid)
     \/ T!Suspended = {} /\ UNCHANGED <<tableVars, procVars, sigchld>>
  /\ Prompt
  /\ UNCHANGED rcv

\* The wait after fg_job, WUNTRACED: the process it returns need not be the
\* leader, and a group that the handler emptied yields -1, which names no job.
FgWait ==
  /\ pc = "fgwait"
  /\ \/ \E p \in Zombies(Members(cur)) : Reap(p) /\ StatusOfProcess(p, "exited")
     \/ \E p \in Members(cur) \cap note :
          /\ note' = note \ {p}
          /\ StatusOfProcess(p, "stopped")
          /\ UNCHANGED <<proc, ingrp, doomed>>
     \/ Members(cur) = {} /\ UNCHANGED <<tableVars, procVars>>
  /\ Prompt
  /\ UNCHANGED <<clientVars, rcv, sigchld>>

-----------------------------------------------------------------------------
(* exec_cmd                                                                *)

StartCommand ==
  /\ Dispatch(ForkingLines)
  /\ cur' = started + 1
  /\ line' = [line EXCEPT ![cur'] = msg]
  /\ msg' = "none"
  /\ Goto("fork")
  /\ UNCHANGED <<tableVars, procVars, rcv, sigchld>>

Fork ==
  /\ pc = "fork"
  /\ proc' = [proc EXCEPT ![<<cur, Cardinality(ProcsOf(cur)) + 1>>] = "new"]
  /\ Goto("setpgid")
  /\ UNCHANGED <<tableVars, clientVars, msg, cur, line, ingrp, note, doomed,
                 rcv, sigchld>>

\* A faulty variant: setpgid is left to the child.
SetpgidInChildOnly ==
  /\ pc = "setpgid"
  /\ Goto(IF Cardinality(ProcsOf(cur)) < Width(line[cur]) THEN "fork"
                                                         ELSE "parent_fork")
  /\ UNCHANGED <<tableVars, clientVars, msg, cur, line, procVars, rcv, sigchld>>

\* The parent's setpgid for the process just forked.  Once the child has run
\* exec it fails, and the child has done its own.
ParentSetpgid ==
  LET p == <<cur, Cardinality(ProcsOf(cur))>>
  IN /\ pc = "setpgid"
     /\ ingrp' = IF proc[p] = "new" /\ Joinable(p) THEN ingrp \cup {p} ELSE ingrp
     /\ Goto(IF p[2] < Width(line[cur]) THEN "fork" ELSE "parent_fork")
     /\ UNCHANGED <<tableVars, clientVars, msg, cur, line, proc, note, doomed,
                    rcv, sigchld>>

\* parent_fork up to the first wait: add the job, fork its receiver.
ParentFork ==
  /\ pc = "parent_fork"
  /\ IF Tabled(line[cur]) THEN T!add_job(cur, Background(line[cur]))
                          ELSE UNCHANGED tableVars
  /\ rcv' = [rcv EXCEPT ![cur] = "new"]
  /\ Goto(IF Background(line[cur]) THEN "kill" ELSE "wait1")
  /\ UNCHANGED <<clientVars, msg, cur, line, procVars, sigchld>>

\* The loop test reads j->bg and then j->pgid after an update that may have
\* freed j.  What free leaves there depends on the allocator: both words as
\* they were, a bg that is not 0, or a pgid of 0 before a bg of 0.  With pgid 0
\* the wait is for the daemon's own group.
JobFreed == Tabled(line[cur]) /\ ~T!Listed(cur)

InBackground == \E i \in T!Slots : T!get_job(cur, i) /\ job_table[i].bg

Reads ==
  IF JobFreed THEN {"kill", "wait2", "wait0"}
  ELSE IF InBackground THEN {"kill"} ELSE {"wait2"}

LoopTest ==
  /\ UNCHANGED <<msg, cur, line>>
  /\ pc' \in Reads'

\* The first wait.  When the handler has collected the whole group waitpid
\* fails, and the status passed on was never written: any value.
Wait1 ==
  /\ pc = "wait1"
  /\ \/ \E p \in Zombies(Members(cur)) :
          Reap(p) /\ T!update_status(cur, "exited")
     \/ \E p \in Members(cur) \cap note :
          /\ note' = note \ {p}
          /\ T!update_status(cur, "stopped")
          /\ UNCHANGED <<proc, ingrp, doomed>>
     \/ /\ Members(cur) = {}
        /\ \E status \in T!WaitStatuses : T!update_status(cur, status)
        /\ UNCHANGED procVars
  /\ LoopTest
  /\ UNCHANGED <<clientVars, rcv, sigchld>>

\* getpgid(j->pgid) after the wait: -1 once the leader has been collected.
StatusOfGroup(status) ==
  IF proc'[Leader(cur)] # "gone" THEN T!update_status(cur, status)
                                 ELSE UNCHANGED tableVars

\* A faulty variant: the loop test is waitpid(...) != 0, true of the -1 that
\* an emptied group yields.
WaitAgainOnError ==
  /\ pc = "wait2"
  /\ \E p \in Zombies(Members(cur)) : Reap(p) /\ StatusOfGroup("exited")
  /\ LoopTest
  /\ UNCHANGED <<clientVars, rcv, sigchld>>

Wait2 ==
  /\ pc = "wait2"
  /\ \/ /\ \/ \E p \in Zombies(Members(cur)) : Reap(p) /\ StatusOfGroup("exited")
           \/ \E p \in Members(cur) \cap note :
                /\ note' = note \ {p}
                /\ UNCHANGED <<proc, ingrp, doomed>>
                /\ StatusOfGroup("stopped")
        /\ LoopTest
     \/ /\ Members(cur) = {}
        /\ Goto("kill")
        /\ UNCHANGED <<tableVars, procVars, msg, cur, line>>
  /\ UNCHANGED <<clientVars, rcv, sigchld>>

\* Children that never left the daemon's group: the receivers, and a process
\* that found no group to join.
Strays == {p \in Procs \ ingrp : Alive(p) \/ proc[p] = "zombie"}

ReceiversLeft == {g \in Groups : rcv[g] \notin {"none", "gone"}}

\* The second wait as waitpid(0, ...).  The group it reports names no job.
Wait0 ==
  /\ pc = "wait0"
  /\ UNCHANGED <<tableVars, clientVars, sigchld>>
  /\ \/ /\ \/ \E p \in Zombies(Strays) : Reap(p) /\ UNCHANGED rcv
           \/ \E g \in DeadReceivers : ReapReceiver(g) /\ UNCHANGED procVars
        /\ LoopTest
     \/ /\ Strays = {} /\ ReceiversLeft = {}
        /\ Goto("kill")
        /\ UNCHANGED <<procVars, rcv, msg, cur, line>>

\* kill(cpid, SIGINT): a receiver that has not reset SIGINT yet ignores it.
KillReceiver ==
  /\ pc = "kill"
  /\ IF rcv[cur] = "loop"
       THEN rcv' = [rcv EXCEPT ![cur] = "zombie"] /\ sigchld' = TRUE
       ELSE UNCHANGED <<rcv, sigchld>>
  /\ Prompt
  /\ UNCHANGED <<tableVars, clientVars, procVars>>

-----------------------------------------------------------------------------
ThreadNext ==
  \/ Recv \/ RecvHangup \/ CheckJobs \/ Ignore \/ Leave
  \/ Foreground \/ BackgroundLast \/ FgWait
  \/ StartCommand \/ Fork \/ ParentSetpgid \/ ParentFork
  \/ Wait1 \/ Wait2 \/ Wait0 \/ KillReceiver

Next ==
  \/ \E l \in Lines : Send(l)
  \/ Disconnect
  \/ \E p \in Procs : ChildSetup(p) \/ Exit(p)
  \/ \E g \in Groups : ReceiverReady(g) \/ ReceiverRecv(g) \/ ReceiverHangup(g)
  \/ sig_chld
  \/ ThreadNext

Spec == Init /\ [][Next]_shellVars

-----------------------------------------------------------------------------
(* Fairness.  Every runnable process of the machine is scheduled; when a   *)
(* program ends and what a client sends is up to them.                     *)

FairSpec ==
  /\ Spec
  /\ WF_shellVars(ThreadNext)
  /\ WF_shellVars(sig_chld)
  /\ \A p \in Procs : WF_shellVars(ChildSetup(p))
  /\ \A g \in Groups :
       WF_shellVars(ReceiverReady(g) \/ ReceiverRecv(g) \/ ReceiverHangup(g))

-----------------------------------------------------------------------------
(* Properties.                                                             *)

TypeOK ==
  /\ T!TypeOK
  /\ \A n \in 1 .. Len(sock) : sock[n] \in Lines
  /\ Len(sock) <= MaxQueue
  /\ hup \in BOOLEAN
  /\ pc \in ThreadStates
  /\ msg \in Lines \cup {"none"}
  /\ cur \in Groups \cup {0}
  /\ line \in [Groups -> ForkingLines \cup {"none"}]
  /\ proc \in [Procs -> ProcStates]
  /\ ingrp \subseteq Procs
  /\ note \subseteq ingrp /\ doomed \subseteq ingrp
  /\ rcv \in [Groups -> ReceiverStates]
  /\ sigchld \in BOOLEAN

\* When the thread is back at the socket every process still alive belongs to
\* a job that the scan of fg_job considers: nothing the user started in one
\* process runs on unseen, however the setpgid calls, the waits and the
\* handler interleave.
LiveJobIsCandidate ==
  pc = "recv" =>
    \A p \in Procs : Alive(p) => \E i \in T!Resumable : T!Holds(i, p[1])

\* The table and the kernel agree on who is stopped.  A stop that a wait has
\* returned is recorded, or "bg" would not find the job; and a background job
\* recorded as stopped is not running, or "bg" would pick it over another.
StopsAreRecorded ==
  /\ \A p \in Procs :
       proc[p] = "stopped" /\ p \notin note /\ Tabled(line[p[1]])
         => \E i \in T!Suspended : T!Holds(i, p[1])
  /\ \A i \in T!Suspended :
       job_table[i].bg => \A p \in LiveOf(job_table[i].pgid) : proc[p] = "stopped"

\* A job leaves the table only in or after a step that collected one of its
\* processes: a stop, a garbage status or the death of another job does not
\* remove it.
FreedOnlyAfterADeath ==
  [][\A g \in Groups :
       T!Listed(g) /\ ~T!Listed(g)' => \E p \in ProcsOf(g) : proc'[p] = "gone"
    ]_shellVars

\* The thread gives up waiting for the job in the foreground only in or after
\* a step that collected one of its processes or learnt of its stop: a wait
\* never finds the group empty because nobody has made it yet.
Waits == pc \in {"wait1", "wait2", "wait0", "fgwait"}

ForegroundHeld ==
  [][Waits /\ ~Waits' =>
       \E p \in ProcsOf(cur) : proc'[p] = "gone" \/ (p \in note /\ p \notin note')
    ]_shellVars

\* The thread waits for a job one of whose processes has not ended.
ForegroundAlive == pc \in {"wait1", "wait2", "fgwait"} /\ LiveOf(cur) # {}

StrayAlive == pc = "wait0" /\ \E p \in Strays : Alive(p)

\* The prompt comes back unless the thread waits for a job that is alive, or
\* the memory of a freed job made it wait for its own receiver: no order of
\* deaths, reaps and failed waits leaves it in another wait that nothing ends.
PromptReturns ==
  pc # "recv" ~> (pc \in {"recv", "closed", "wait0"} \/ ForegroundAlive)

\* A client that goes away is noticed, and its thread ends, unless the thread
\* keeps waiting for a process that is alive.  The receiver the thread may be
\* waiting for ends with the connection.
HangupEndsThread ==
  hup ~> (pc = "closed" \/ ForegroundAlive \/ StrayAlive)
=============================================================================
