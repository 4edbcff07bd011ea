-------------------------------- MODULE Yash --------------------------------
(***************************************************************************)
(* The standalone shell, yash/yash.c: its loop over command lines, the     *)
(* processes it forks, the terminal they share, and what the user types at *)
(* any moment, ^C and ^Z included.  The job list is that of JobChain.      *)
(*                                                                         *)
(* Only the child calls setpgid, so the shell's tcsetpgrp may come before  *)
(* the group exists; the interleaving of the two is part of the model.     *)
(*                                                                         *)
(* A background command whose execvp fails goes on as a copy of the shell  *)
(* in its own group; it is a running program here, and its loop is not     *)
(* modelled.                                                               *)
(***************************************************************************)
EXTENDS JobChain

CONSTANTS
  Lines,         \* what the user may type
  MaxCommands,   \* bound: command lines entered
  HistorySize    \* history_size

Numbers == 1 .. MaxCommands

\* What malloc may leave in the pgid of a job that was given none: 0, or a
\* number that is no child of the shell, such as a job freed before had.
Unset == {0, MaxCommands + 1}

\* "none" is a blank line or one whose input file does not exist, and "pipe&"
\* is refused: these are listed as jobs and start nothing.
CommandLines == {"run", "run&", "pipe", "pipe&", "none"}

ASSUME YashAssumption ==
  /\ Lines \subseteq CommandLines \cup {"fg", "bg", "jobs"}
  /\ MaxCommands \in Nat \ {0}
  /\ HistorySize \in Nat \ {0}

VARIABLES
  job_chain,
  i,           \* the next index of history
  entered,     \* commands entered so far; names the groups
  pc,          \* where the shell is
  line,        \* the line it works on
  at,          \* the job it looks at
  tstp,        \* the shell's disposition of SIGTSTP
  suspended,   \* the shell has been stopped
  tty,         \* the group that owns the terminal; 0 is the shell's
  proc,        \* state of each child
  ingrp,       \* the children that have left the shell's group
  piped,       \* the groups that run a pipeline
  doomed       \* stopped children with a SIGINT pending

shellVars == <<job_chain, i, entered, pc, line, at, tstp>>
ttyVars == <<suspended, tty>>
procVars == <<proc, ingrp, doomed, piped>>
vars == <<shellVars, ttyVars, procVars>>

-----------------------------------------------------------------------------
Children == Numbers \X {1, 2}

Leader(g) == <<g, 1>>

ProcStates == {"unborn", "new", "run", "stopped", "zombie", "gone"}

Alive(c) == proc[c] \in {"new", "run", "stopped"}

Unreaped(c) == Alive(c) \/ proc[c] = "zombie"

\* The children still in the shell's own process group, the target of a wait
\* for process 0.
OwnGroup == {c \in Children \ ingrp : Unreaped(c)}

InGroup(g) == {c \in ingrp : c[1] = g /\ Unreaped(c)}

Ended == {"exited", "failed", "crashed", "interrupted"}

ShellRuns == ~suspended /\ pc \notin Ended

Goto(l) == pc' = l

job == job_chain[at]

-----------------------------------------------------------------------------
Init ==
  /\ job_chain = <<>>
  /\ i = 0
  /\ entered = 0
  /\ pc = "prompt"
  /\ line = "none"
  /\ at = 0
  /\ tstp = "ignored"
  /\ suspended = FALSE
  /\ tty = 0
  /\ proc = [c \in Children |-> "unborn"]
  /\ ingrp = {}
  /\ piped = {}
  /\ doomed = {}

-----------------------------------------------------------------------------
(* The children.                                                           *)

\* doExecute after fork: setpgid and execvp.  The right side of a pipeline
\* joins the group of the left one, which must exist by then.
ChildSetup(c) ==
  /\ proc[c] = "new"
  /\ proc' = [proc EXCEPT ![c] = "run"]
  /\ ingrp' = IF c = Leader(c[1]) \/ InGroup(c[1]) # {} THEN ingrp \cup {c}
                                                       ELSE ingrp
  /\ UNCHANGED <<shellVars, ttyVars, doomed, piped>>

Exit(c) ==
  /\ proc[c] = "run"
  /\ proc' = [proc EXCEPT ![c] = "zombie"]
  /\ UNCHANGED <<shellVars, ttyVars, ingrp, doomed, piped>>

Foreground(c) == IF tty = 0 THEN c \notin ingrp ELSE c \in InGroup(tty)

\* Children inherit SIGTSTP as it was at the fork: ignored in a pipeline.
StopsOnTstp(c) == c[1] \notin piped

\* ^C: SIGINT goes to the terminal's group.  The shell keeps the default.
ControlC ==
  /\ proc' = [c \in Children |->
       IF Foreground(c) /\ proc[c] \in {"new", "run"} THEN "zombie" ELSE proc[c]]
  /\ doomed' = doomed \cup {c \in Children : Foreground(c) /\ proc[c] = "stopped"}
  /\ pc' = IF tty = 0 THEN "interrupted" ELSE pc
  /\ ShellRuns
  /\ UNCHANGED <<job_chain, i, entered, line, at, tstp, ttyVars, ingrp, piped>>

\* ^Z: SIGTSTP goes to the terminal's group.
ControlZ ==
  /\ ShellRuns
  /\ proc' = [c \in Children |->
       IF Foreground(c) /\ proc[c] \in {"new", "run"} /\ StopsOnTstp(c)
         THEN "stopped" ELSE proc[c]]
  /\ suspended' = (suspended \/ (tty = 0 /\ tstp = "default"))
  /\ UNCHANGED <<shellVars, tty, ingrp, doomed, piped>>

\* The shell that started this one continues it, and what is in its group.
Continued ==
  /\ suspended
  /\ suspended' = FALSE
  /\ proc' = [c \in Children |->
       IF c \in OwnGroup /\ proc[c] = "stopped" THEN "new" ELSE proc[c]]
  /\ UNCHANGED <<shellVars, tty, ingrp, doomed, piped>>

\* The children that wait and kill mean by a pgid: fg and bg name the process,
\* 0 the shell's own group.
Targets(pgid) ==
  CASE pgid \in Numbers -> {Leader(pgid)}
    [] pgid = 0         -> OwnGroup
    [] OTHER            -> {}

\* kill(pgid, SIGCONT) of fg and bg.
Resume(pgid) ==
  LET hit == {c \in Targets(pgid) : proc[c] = "stopped"}
  IN /\ proc' = [c \in Children |->
            IF c \notin hit THEN proc[c]
            ELSE IF c \in doomed THEN "zombie"
            ELSE IF c \in ingrp THEN "run" ELSE "new"]
     /\ doomed' = doomed \ hit
     /\ UNCHANGED <<ingrp, piped>>

-----------------------------------------------------------------------------
(* The loop of main: read a line, refresh the list, run the line.          *)

\* Command lines past MaxCommands are not typed.
Type(l) ==
  /\ ShellRuns /\ pc = "prompt"
  /\ l \in CommandLines => entered < MaxCommands
  /\ line' = l
  /\ at' = 1
  /\ Goto(IF job_chain = <<>> THEN "line" ELSE "update")
  /\ UNCHANGED <<job_chain, i, entered, tstp, ttyVars, procVars>>

Collect(c) ==
  /\ proc' = [proc EXCEPT ![c] = "gone"]
  /\ UNCHANGED <<ingrp, doomed, piped>>

Terminate == job_chain' = [job_chain EXCEPT ![at].state = "TERMINATED"]

\* One round of updateJobStates.  waitpid(pgid, ..., WNOHANG) returns a dead
\* child, 0 while one is alive, or fails, which counts as an end.  Stopped jobs
\* are not looked at.
Update ==
  /\ ShellRuns /\ pc = "update" /\ at <= Len(job_chain)
  /\ \/ /\ job.state = "RUNNING"
        /\ \E c \in Targets(job.pgid) : proc[c] = "zombie" /\ Collect(c)
        /\ Terminate
     \/ /\ job.state = "RUNNING"
        /\ \A c \in Targets(job.pgid) : ~Unreaped(c)
        /\ Terminate
        /\ UNCHANGED procVars
     \/ /\ job.state # "RUNNING" \/ \E c \in Targets(job.pgid) : Alive(c)
        /\ UNCHANGED <<job_chain, procVars>>
  /\ at' = at + 1
  /\ UNCHANGED <<i, entered, pc, line, tstp, ttyVars>>

RemoveTerminated ==
  /\ ShellRuns /\ pc = "update" /\ at > Len(job_chain)
  /\ job_chain' = removeTerminated(job_chain)
  /\ Goto("line")
  /\ UNCHANGED <<i, entered, line, at, tstp, ttyVars, procVars>>

\* When history is full its commands are freed and i becomes -1, so the next
\* command is stored in front of the array.
NextIndexUnbounded == i   \* a faulty variant: history never starts over

NextIndex == IF i >= HistorySize THEN -1 ELSE i

Run(S) == ShellRuns /\ pc = "line" /\ line \in S

ListJobs ==
  /\ Run({"jobs"})
  /\ i' = NextIndex
  /\ Goto("prompt")
  /\ UNCHANGED <<job_chain, entered, line, at, tstp, ttyVars, procVars>>

FgLast ==
  /\ Run({"fg"})
  /\ i' = NextIndex
  /\ IF job_chain = <<>>
       THEN Goto("prompt") /\ UNCHANGED <<job_chain, at>>
       ELSE /\ at' = Len(job_chain)
            /\ job_chain' = [job_chain EXCEPT ![at'].state = "RUNNING"]
            /\ Goto("give")
  /\ UNCHANGED <<entered, line, tstp, ttyVars, procVars>>

BgLastStopped ==
  /\ Run({"bg"})
  /\ i' = NextIndex
  /\ \/ \E n \in getLastStoppedJob(job_chain) :
          /\ job_chain' = [job_chain EXCEPT ![n].state = "RUNNING"]
          /\ Resume(job_chain[n].pgid)
     \/ getLastStoppedJob(job_chain) = {} /\ UNCHANGED <<job_chain, procVars>>
  /\ Goto("prompt")
  /\ UNCHANGED <<entered, line, at, tstp, ttyVars>>

-----------------------------------------------------------------------------
(* A command line: addToJobChain, execute, history.                        *)

\* A pipeline, even a refused one, keeps SIGTSTP ignored.
Pipeline == line \in {"pipe", "pipe&"}

AddJob ==
  /\ Run(CommandLines)
  /\ entered' = entered + 1
  /\ i' = NextIndex
  /\ \E pgid \in Unset :
       job_chain' = addToJobChain(job_chain, entered', pgid)
  /\ at' = Len(job_chain')
  /\ tstp' = IF Pipeline THEN tstp ELSE "default"
  /\ Goto(IF line \in {"none", "pipe&"} THEN "done" ELSE "fork")
  /\ UNCHANGED <<line, ttyVars, procVars>>

\* fork and, unless it is a pipeline, job->pgid.
Fork ==
  /\ ShellRuns /\ pc = "fork"
  /\ proc' = [proc EXCEPT ![Leader(entered)] = "new"]
  /\ job_chain' = IF Pipeline THEN job_chain
                  ELSE [job_chain EXCEPT ![at].pgid = entered]
  /\ piped' = IF Pipeline THEN piped \cup {entered} ELSE piped
  /\ Goto(CASE line = "run" -> "give" [] line = "run&" -> "done"
            [] line = "pipe" -> "forkright")
  /\ UNCHANGED <<i, entered, line, at, tstp, ttyVars, ingrp, doomed>>

ForkRight ==
  /\ ShellRuns /\ pc = "forkright"
  /\ proc' = [proc EXCEPT ![<<entered, 2>>] = "new"]
  /\ Goto("give")
  /\ UNCHANGED <<job_chain, i, entered, line, at, tstp, ttyVars, ingrp, doomed, piped>>

\* The group execute or fg hands the terminal to.
Target == IF line = "pipe" THEN entered ELSE job.pgid

\* tcsetpgrp fails, unnoticed, for a group that does not exist; then fg sends
\* SIGCONT.
GiveTerminalControl ==
  /\ ShellRuns /\ pc = "give"
  /\ tty' = IF Target \notin Unset /\ InGroup(Target) # {} THEN Target ELSE tty
  /\ IF line = "pipe" THEN UNCHANGED procVars ELSE Resume(Target)
  /\ Goto(IF line = "pipe" THEN "waitright" ELSE "wait")
  /\ UNCHANGED <<job_chain, i, entered, line, at, tstp, suspended>>

NoClaim == tty' = tty   \* a faulty variant: the terminal is not taken back

\* claimTerminalControl
Claim == tty' = 0

AfterWait ==
  /\ Claim
  /\ Goto(IF line = "fg" THEN "prompt" ELSE "done")
  /\ UNCHANGED <<i, entered, line, at, tstp, suspended>>

\* A faulty variant: the wait is not WUNTRACED.
WaitForExitOnly ==
  /\ ShellRuns /\ pc = "wait"
  /\ \E c \in Targets(job.pgid) : proc[c] = "zombie" /\ Collect(c)
  /\ Terminate
  /\ AfterWait

\* waitForChild, in fg: the state of the job becomes what the wait returned.
Wait ==
  /\ ShellRuns /\ pc = "wait"
  /\ \E c \in Targets(job.pgid) :
       \/ proc[c] = "zombie" /\ Collect(c) /\ Terminate
       \/ /\ proc[c] = "stopped"
          /\ job_chain' = [job_chain EXCEPT ![at].state = "STOPPED"]
          /\ UNCHANGED procVars
  /\ AfterWait

\* waitForChild when there is no such child: exit(EXIT_FAILURE).
WaitFails ==
  /\ ShellRuns /\ pc = "wait"
  /\ \A c \in Targets(job.pgid) : ~Unreaped(c)
  /\ Goto("failed")
  /\ UNCHANGED <<job_chain, i, entered, line, at, tstp, ttyVars, procVars>>

\* The right side, then the left; a stop ends the wait like an exit.
WaitPipe(from, k, to) ==
  /\ ShellRuns /\ pc = from
  /\ \/ proc[<<entered, k>>] = "zombie" /\ Collect(<<entered, k>>)
     \/ proc[<<entered, k>>] = "stopped" /\ UNCHANGED procVars
  /\ IF to = "done" THEN Claim ELSE UNCHANGED tty
  /\ Goto(to)
  /\ UNCHANGED <<job_chain, i, entered, line, at, tstp, suspended>>

\* A faulty variant: SIGTSTP keeps its default action.
DoneTstpDefault ==
  /\ ShellRuns /\ pc = "done"
  /\ i' = i + 1
  /\ Goto("prompt")
  /\ UNCHANGED <<job_chain, entered, line, at, tstp, ttyVars, procVars>>

\* Ignore SIGTSTP again and store the command in history.
Done ==
  /\ ShellRuns /\ pc = "done"
  /\ tstp' = "ignored"
  /\ i' = i + 1
  /\ Goto("prompt")
  /\ UNCHANGED <<job_chain, entered, line, at, ttyVars, procVars>>

\* End of input: freeJobChain interrupts every listed job, and does not expect
\* an empty list.
Eof ==
  /\ ShellRuns /\ pc = "prompt"
  /\ LET hit == UNION {Targets(job_chain[n].pgid) : n \in DOMAIN job_chain}
     IN /\ proc' = [c \in Children |->
             IF c \in hit /\ proc[c] \in {"new", "run"} THEN "zombie" ELSE proc[c]]
        /\ doomed' = doomed \cup {c \in hit : proc[c] = "stopped"}
  /\ Goto(IF job_chain = <<>> THEN "crashed" ELSE "exited")
  /\ UNCHANGED <<job_chain, i, entered, line, at, tstp, ttyVars, ingrp, piped>>

-----------------------------------------------------------------------------
ShellStep ==
  \/ Update \/ RemoveTerminated
  \/ ListJobs \/ FgLast \/ BgLastStopped
  \/ AddJob \/ Fork \/ ForkRight \/ GiveTerminalControl
  \/ Wait \/ WaitFails
  \/ WaitPipe("waitright", 2, "waitleft") \/ WaitPipe("waitleft", 1, "done")
  \/ Done

Next ==
  \/ \E l \in Lines : Type(l)
  \/ Eof
  \/ ShellStep
  \/ \E c \in Children : ChildSetup(c) \/ Exit(c)
  \/ ControlC \/ ControlZ \/ Continued

Spec == Init /\ [][Next]_vars

-----------------------------------------------------------------------------
(* Fairness: the shell and its young children are scheduled; what the user *)
(* types, and when a program ends, is up to them.                          *)

FairSpec ==
  /\ Spec
  /\ WF_vars(ShellStep)
  /\ \A c \in Children : WF_vars(ChildSetup(c))

-----------------------------------------------------------------------------
(* Properties.                                                             *)

ShellStates == {"prompt", "update", "line", "fork", "forkright", "give", "wait",
                "waitright", "waitleft", "done"}

TypeOK ==
  /\ \A n \in DOMAIN job_chain :
       job_chain[n] \in [command : Numbers, state : JobStates,
                         id : Nat, pgid : Numbers \cup Unset]
  /\ i \in -1 .. HistorySize
  /\ entered \in 0 .. MaxCommands
  /\ pc \in ShellStates \cup Ended
  /\ line \in Lines \cup {"none"}
  /\ at \in Nat
  /\ tstp \in {"default", "ignored"}
  /\ suspended \in BOOLEAN
  /\ tty \in Numbers \cup {0}
  /\ proc \in [Children -> ProcStates]
  /\ ingrp \subseteq Children
  /\ doomed \subseteq Children
  /\ piped \subseteq Numbers

\* Job numbers grow along the list although ids of removed jobs are used
\* again: the last job, the one "fg" takes, has the highest number.
IdsIncrease ==
  \A m, n \in DOMAIN job_chain : m < n => job_chain[m].id < job_chain[n].id

\* A stored command fits in history or, once history has started over, lies
\* one place before it; it is never written past the end.
StoredWithinHistory == pc = "done" => i < HistorySize

\* The list drops a job whose process is alive only in the step in which its
\* first job is terminated.
LiveLostOnlyWithFirst ==
  [][\A n \in DOMAIN job_chain :
       LET g == job_chain[n].pgid
       IN g \in Numbers /\ Alive(Leader(g))
            /\ (\A m \in DOMAIN job_chain' : job_chain'[m].pgid # g)
          => Head(job_chain).state = "TERMINATED"]_vars

\* Whenever the shell prompts it owns the terminal: no exit, stop or failed
\* hand-over leaves it with a job.
TerminalReturned == pc = "prompt" => tty = 0

\* fg exits the shell, through the failed wait, only for a job that never got
\* a process group: a job whose process was collected is off the list before
\* fg can wait for it again.
FailsOnlyOnUnsetGroup == pc = "failed" => job.pgid \in Unset

AwaitsRunningChild ==
  \/ /\ pc = "wait"
     /\ \E c \in Targets(job.pgid) : proc[c] \in {"new", "run"}
  \/ /\ pc \in {"waitright", "waitleft"}
     /\ \E c \in Children : c[1] = entered /\ proc[c] \in {"new", "run"}

\* The prompt comes back unless the shell waits for a program that runs, or
\* was itself stopped.
PromptReturns ==
  pc # "prompt" ~>
    (pc \in {"prompt"} \cup Ended \/ suspended \/ AwaitsRunningChild)

\* "Ignore ^z when yash owns the terminal" (yash.c:228): ^Z stops the shell only
\* while it starts a command or waits for one, when SIGTSTP has its default
\* action and the terminal may be the shell's still.
PromptIgnoresControlZ == suspended => pc \notin {"prompt", "update", "line"}
=============================================================================
