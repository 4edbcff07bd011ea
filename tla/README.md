# yash and yashd in TLA+

TLA+ models of this repository: `yashd`, a daemon that runs shell commands for
remote clients, and `yash`, the standalone job-control shell it grew out of.
The models are checked with TLC on small instances. All their safety
properties are also proved with TLAPS, for every table length, number of
commands, connections and instances, and for lines of any length.

    tlc -config MCShellSingle.cfg MCShell     # one of the runs below
    tlapm JobTableProofs.tla                  # one of the modules of proofs

## The system

| part | source | state it keeps | operations |
|---|---|---|---|
| job table | `yashd/yash-holden/job.c` | `job_table1`, `next_job` | `add_job`, `free_job`, `set_job`, `update_status`, `fg_job`, `bg_job`, `check_jobs`, `print_jobs` |
| shell loop | `yashd/yash-holden/yash_cmd.c`, `process.c`, `thread.c` | a connection, the job it works on, the processes and receiver it forked | receive, dispatch, `exec_cmd`, `parent_fork`, `child_fork`, the waits |
| SIGCHLD handler | `yashd/yashd.c` 117-124 | none | collects one dead child |
| daemon start | `yashd/yashd.c`, `socket.c` | descriptors, the lock on `yashd.pid`, its content, the port | the steps of `create_daemon`, `bind` |
| accept loop | `yashd/yashd.c` 85-98 | the descriptor of each connection | accept, start a thread |
| client | `yashd/yash.c`, `socket.c` | a socket, two processes | send `CMD`, `CTL c`, `CTL z`; show output; disconnect |
| parser of yashd | `yashd/yash-holden/parse.c`, `process.c` | argv of each process | `parse_command`, `malloc_argv`, `file_redirection` |
| standalone shell | `yash/yash.c` | history, SIGTSTP's disposition, the terminal | the loop of `main`, `execute`, `fg`, `bg` |
| its job list | `yash/job.h` | a linked list | add, number, refresh, remove, free |
| its parser | `yash/parser.h`, `utils.h` | none | regular expressions of the C library |

`yashd/yash-juan` (but for the client's `prompt` and `prepend`),
`yashd/yash-holden/yashholden.c` and `yashd/daemon_template.c` are built by no
target. `infloop.c` is a test program. See "Not modelled".

How the parts interact: a thread per connection receives a message, calls
`check_jobs`, and for a command forks its processes, puts the job in the
table, forks a *receiver* that reads the same socket for `CTL c` and `CTL z`
while the command runs, and waits. When the wait ends it kills the receiver
and goes back to the socket. The kernel may run the SIGCHLD handler between
any two steps, in any thread. The threads share the daemon's descriptors, and
every fork copies the descriptors of all connections. At the other end of a
connection one process of the client reads the terminal and sends, the other
shows what arrives; nothing but the prompt tells the user when to type.

What is hard: the handler, `check_jobs` and the thread's waits compete for the
same children; a process and its parent both set its group; the receiver and
the thread read the same socket; waits return for one process while the table
records groups; a freed job is read; messages have no boundaries; descriptor numbers
are reused while another thread still holds them; a line is read once to
allocate and again to store; in the standalone shell, the child makes
its group while the parent hands the terminal to that group; and a daemon can
be killed and started again at any step while its jobs live on. `PROJECT.json`
lists each hazard at its line.

## Modules

| module | models | composed of |
|---|---|---|
| `JobLedger` | what a shell promises about jobs, without slots | |
| `JobTable` | `job.c`: the array, its holes, its overrun | implements `JobLedger` (`ImplementsLedger`) |
| `JobTableProofs` | theorems on `JobTable`, the refinement of `JobLedger` among them | extends `JobTable` |
| `Shell` | one connection of yashd | instance `T` of `JobTable` |
| `ShellProofs` | theorems on `Shell` for every client | extends `Shell` |
| `ShellSingleProofs` | theorems on `Shell` for a client that types no pipelines | extends `ShellProofs` |
| `JobChain` | `yash/job.h` as operators on sequences | |
| `Yash` | `yash/yash.c`, its children, its terminal | extends `JobChain` |
| `YashProofs` | theorems on `Yash`, lemmas on `JobChain` | extends `Yash` |
| `DaemonStart` | `create_daemon` and the server socket | |
| `DaemonStartProofs` | theorems on `DaemonStart` | extends `DaemonStart` |
| `Descriptors` | the sockets and pipes of all connections | |
| `DescriptorsProofs` | theorems on `Descriptors` | extends `Descriptors` |
| `Client` | the client, and the connection's end as readers of its stream | |
| `ClientProofs` | theorems on `Client` | extends `Client` |
| `CommandLine` | a typed line, and what its user means by it | |
| `Parse` | `parse.c` | extends `CommandLine` |
| `Parser` | `yash/parser.h` | extends `CommandLine` |
| `ParseProofs` | theorems on both parsers | extends `Parse`, `Parser` |

Modules `MC...` are what TLC is run on; each `.cfg` is one run.

The definitions printed just above an original and commented "a faulty
variant" are bugs that code like this could have. Putting one in the place of
the original makes TLC report the property it is meant for: this shows that
the property depends on the code and not on the shape of the model.

### JobTable

An action per function, in lower case like the function. `job_table` is
`job_table1`. `overrun` becomes true when `add_job` stores past the array: the
effect of that store is undefined, so no action follows it. `ordered` is a
history variable: every freed job so far was the top one. A job's `cmd`,
`nchild` and `p1` do not matter here; nor does what is printed.

`ImplementsLedger` maps the table to `JobLedger`: the state of a group is read
from its slot, and "older" from the order of slots. That this order is the
order of start, although slots are reused, is what the refinement shows.

### Shell

`pc` is the place of the thread, one step per system call whose order with the
other processes matters: `recv`, one round of `check_jobs`, each `fork`, each
`setpgid`, adding the job and forking the receiver, each wait, the final kill.
Processes are `<<group, k>>`; `proc` is the state the kernel keeps of each,
`note` the stops no wait has returned, `doomed` the stopped processes with a
SIGINT pending, `ingrp` those that are in their job's group. `rcv` is the
receiver of each group: "new" until it has reset SIGINT.

Choices that stand for what C leaves undefined: a `status` that a failed
`waitpid` did not write is any status (`Wait1`). A job that was just freed may
read as it was, as a job in the background, or with a `pgid` and a `bg` of 0
(`Reads`): the last is what an allocator that links freed blocks through their
first word, and writes nothing behind it, leaves when the block is the only
one of its size. `waitpid(-0)` then waits for the daemon's own group
(`Wait0`).

The client is modelled by what it may send: any message of `Lines` at any
moment, and a disconnect. A message is one `recv`; `Client` has the stream.

Not in the model: descriptors and pipes (`Descriptors`), a job's input and
output, terminal calls of a daemon without a terminal, failures of `fork` and
`pipe` (the daemon exits), and groups reused by the kernel.

### Yash and JobChain

The loop of `main`: a typed line, `updateJobStates` one job at a time,
`removeTerminated`, then the line. `JobChain` has the list as a sequence, with
the functions' names. `removeTerminated` is translated as written: if the
first job is terminated, the `next` it returns is that of the last node.

`tty` is the group that owns the terminal. `ControlC` and `ControlZ` are the
terminal driver: they signal whichever group owns it, the shell's own
included, at any step. A job that was given no `pgid` has one of `Unset`: 0 or
a number that is no child.

After its history is full, `i` becomes -1, so `history[-1]` is written. The
model keeps the index and not the memory. A failed `execvp` in the background
leaves a copy of the shell, modelled as a program that runs.

### DaemonStart

Each instance goes through `create_daemon` step by step. `fds` is its table of
descriptors 0 to 3; an open takes the lowest free one, which is what makes the
order of `open`, `dup2` and `close` matter. `yashd_pid` is the content of the
file as digits. `Kill` can happen at any step. The jobs of a killed instance
still hold the listening socket.

### Descriptors

`table` is the daemon's table of descriptors, one for all threads: what each
number refers to, a socket or an end of a pipe. A thread's locals
(`recvpipe`, `pipefd`, `connfd`, `in` for `p->in`) hold numbers, as in the
code, so that a thread that closes a number twice closes what another thread
opened there in between; `stray` remembers that this has happened. `procs` is
what each forked process got. The `accept` of Linux takes its number before it
waits for a client, which is why `Accept` and `Connect` are two actions.

The steps follow `exec_cmd` and `parent_fork`: `recvpipe`, then for each
process a pipe, a fork and `close(pipefd[1])`, `close(pipefd[0])`, the
receiver, `close(recvpipe)`, the wait, and the two closes at the end. The wait
is the time a thread rests before `CloseRecvPipe`. What a process holds it
holds to its end; ends of processes are left out, since they only take holders
away. Files opened by redirections replace a process's input or output in the
child and do not reach the daemon's table.

What the model shows of the code, besides what the runs check: `recvpipe[1]`
and the last `pipefd[1]` are closed twice; a pipeline of three or more
processes leaves the read ends of all its pipes but the last open in the
daemon; and a process inherits the read end of its own output pipe, so that it
gets no SIGPIPE, and the write end of the job's input, which therefore never
ends.

### Client

`reader` is the child that reads the terminal, `shower` the parent that shows
output. `disp` is what the reader does with each key: `signal()` in a program
built with `-std=c99` and `_POSIX_SOURCE` resets the action when it delivers
one. The daemon's end is cut down to what reads the stream or ends it: the
thread, the receiver of its command, receivers that were killed too early and
live on (`left`), and whether the job waited for and others are alive, as they
hold the socket. `Shell` has the rest of the thread.

`stream` is a sequence of messages, and a `recv` takes any number of them from
the front: TCP may deliver them together. A message itself is shorter than
`MAXMSG` and arrives in one piece; one that is cut is not modelled.

A receiver that was killed too early still does what it does with a message:
it signals its job's group for a key, and writes anything else to the job's
input. Its job may be in the background, stopped, resumed by `fg` or gone;
which of them is left open.

`fresh`, `patient` and `keyed` record what the user does: `patient` is a user
who has typed each line at a prompt seen since the line before. `garbled`,
`swallowed` and `strayed` record what became of the lines: received together
with another message, taken by the receiver of the command at work, taken by a
receiver that has outlived its command.

### CommandLine, Parse and Parser

`CommandLine` types a line one character at a time, so that every line up to
`MaxLine` is a state, and every line up to `MaxTidy` whose characters have a
space behind each. Words are intervals of positions: a word misplaced or cut
is never equal to another. `Meaning` reads a line as its user does; it is the
reference for both parsers, on the lines that `WellFormed` admits.

`Parse` keeps the two passes of yashd apart, the loop of `malloc_argv` over
characters and that of `parse_command` over words, since what the second
stores has to fit what the first allocated. Each loop is a recursive function of
the number of rounds. `stray` is the set of characters
that `strtok` finds behind the one delimiter it was meant to have; a run
leaves it any of the sets in `Strays`. `Terminated` says what lies behind the
last argument, in glibc's layout of heap blocks.

`Parser` says what the two regular expressions of the standalone shell match,
leftmost and longest, as operators on intervals, and which group becomes what.

Both were compared with the compiled C functions on tens of thousands of short
lines, without a difference.

## Runs

The bounds are constants named in each module: `MaxStarts` (commands that
fork), `MaxQueue` (messages in the socket), `MaxCommands` (lines typed),
`HistorySize`, `MaxFile`, `MaxLine`, `MaxTidy`, `MaxStream`, `MaxLeft`,
`MaxWidth` (processes of a pipeline), `MaxProcs`, `MaxFd`, and the number of groups, slots, connections and
instances.

| run | config | checks |
|---|---|---|
| `job_table` | `MCJobTable` | `TypeOK`, `TableConsistent`, `CompactWhileOrdered`, `SlotNeverReassigned`, `ImplementsLedger` |
| `shell` | `MCShellSingle` | `TypeOK`, `LiveJobIsCandidate`, `StopsAreRecorded`, `FreedOnlyAfterADeath`, `PromptReturns` |
| `shell_pipe` | `MCShellPipe` | `PromptReturns`, `HangupEndsThread`, `FreedOnlyAfterADeath`, `ForegroundHeld`, with a pipeline and every message |
| `yash` | `MCYash` | `TypeOK`, `IdsIncrease`, `StoredWithinHistory`, `TerminalReturned`, `FailsOnlyOnUnsetGroup`, `LiveLostOnlyWithFirst`, `PromptIgnoresControlZ`, `PromptReturns` |
| `daemon` | `MCDaemonStart` | `TypeOK`, `OneDaemon`, `ServesAlone`, `PidFileBeginsWithPid`, `LockHolderHasFileOpen` |
| `parse` | `MCParse` | `WordsFitArgv`, `ListCoversBars`, `ArgvIsWhatIsTyped`, `StandaloneRunsWhatIsTyped` |
| `client` | `MCClient` | `TypeOK`, `PatientLinesStayWhole`, `PatientLinesPassReceiver`, `EofEndsConnection`, `DisconnectEndsShower` |
| `descriptors` | `MCDescriptors` | `TypeOK`, `PipesEndWithWriter`, `NothingElseLeaks`, `StagesConnected` |

Four more runs end in a counterexample: `parse_split`, `client_receiver`,
`client_keys` and `descriptors_shared`, see below.

What the runs of this table show. The job table keeps its slots and its order
through every sequence of calls. A connection's thread gets back to its
client, or ends with it, whatever the order of deaths, waits and handler
calls, except where it waits for a live job; it frees a job only after a
death, and no wait ends because the group is not made yet. The parser of
yashd stores what was typed, argument by argument, when special characters
stand apart and `strtok` finds no delimiters but the space; it does not always
put a NULL behind it, and `ArgvIsWhatIsTyped` says when. The parser of the
standalone shell runs what was typed however it is spaced. The lines of a user
who waits for the prompt are never merged with another message, and the
receiver of the command at work takes none of them; a receiver that outlived
its command may (`client_receiver`). Two connections never mix up the ends of their
pipes, unless the double close hits. The standalone shell keeps its terminal
and its list within the limits its properties state. One daemon serves.

Why the bounds are enough. The table: three slots give a hole below the top,
one at the top, a top that falls back on a hole's neighbour, and the overrun
with holes; a fourth group lets a freed slot be used again while the others
are taken. The connection: two commands give a background job beside a
foreground one, an old receiver beside a new one, and fg and bg a choice; a
third would repeat these pairs. `MCShellSingle` has one message in the socket,
`MCShellPipe` two: whoever reads takes the message in front, and a message is
sent at any moment, so that a queue of one leaves out no order of receptions,
only the choice to send early; and one is enough for a receiver left over from
one command to take the message meant for the thread.
The standalone shell: three jobs are the fewest for which losing the first
loses more than the second; a history of two starts over within three lines.
The parsers: six characters hold two words, a special character and the
spaces around it in every arrangement, thirteen hold three stages, or a stage
with two arguments and two redirections; words of one or two letters are enough
as only their borders matter. The client: two messages in the stream can be
taken apart or together, and one receiver left over beside a new one is enough
to take what was not meant for it. The descriptors: two connections with two
command lines, of one process each up to three and one, use at most eleven
numbers at once; the third connection of `MCDescriptorsShared` is the one that
takes the number. The daemon: three instances, with pids of one, two and one digits, cover a
kill followed by a start, two starts at once, and a pid shorter and longer
than the one in the file.

`MCShellSingle` leaves pipelines out because `LiveJobIsCandidate` and
`StopsAreRecorded` do not hold for them: the first process of a pipeline to
end frees the job with the others alive, and a stop of a process that is not
the leader is recorded for no job.

Deadlock is not checked: each program stops in states where nothing is left to
do, such as a closed connection or an instance that has exited, and bounded
runs stop when the client has used its bound.

### Where the code does something else than it says

| run | says | TLC shows |
|---|---|---|
| `parse_split` | "Split cmd by spaces" (parse.c:89) | `strtok(cmd, &space)` also splits at the bytes behind `space` on the stack |
| `client_receiver` | "just so parent can kill when all children exit" (yash_cmd.c:211) | the parent kills the receiver before it has run that `signal()`; it ignores SIGINT like the thread (thread.c:18), reads on, and takes the line typed at the next prompt as input of its own job |
| `client_keys` | "Change disposition of signal to send message to daemon" (yashd/yash.c:41) | only the first ^C and the first ^Z become messages; the next one ends or stops the process that reads the terminal |
| `descriptors_shared` | "run 2 yash, put in a ^d for 1, and make sure the other still works as expected" (test_commands.txt:45) | a command of one client ends, its `recvpipe[1]` is closed a second time, and the connection of another is closed |

More disagreements are visible in the models and have no run of their own:

- The wait for a foreground pipeline ends with the first of its processes
  (`Shell!Wait1`), where yash_cmd.c:208 says "wait for all process group".
- The argv of an odd number of words from three on, without a redirection, is
  followed by no NULL (`Parse!Terminated`), so that execvp fails on `echo a b`.
  `NoNullBehind` names these stages.
- A background job whose end the SIGCHLD handler collected stays listed
  (`Shell!sig_chld`), where job.c:84 says "Free job and print DONE".
- The loop test at yash_cmd.c:252 reads a job that may have been freed; the
  thread may then wait for its own receiver (`Shell!Reads`, `Wait0`).
- `fg` starts no receiver (`Shell!Foreground`), so no key reaches the job.
- A job's input begins with "CMD ", and `&` directly behind a word takes the
  last letter off the name under which the job is listed (parse.c:80).
- ^Z stops the standalone shell while it starts a command
  (`Yash!ControlZ`), where yash.c:172 says "Ignore ^Z in yash";
  `PromptIgnoresControlZ` is what remains.
- When `tcsetpgrp` comes before the child's `setpgid` the shell waits for a
  child that does not own the terminal (`Yash!GiveTerminalControl`).
- When the top slot is a hole `print_jobs` marks no job with + (job.c:115,
  130).
- `create_daemon` closes the descriptor on which it opened `/dev/null`, so
  that standard output is the next file opened, `yashd.pid`
  (`DaemonStart!ResetFiles`); lines about jobs follow the pid there, and the
  end of a longer pid may, which ``kill -9 `cat /tmp/yashd.pid` ``
  (yashd/README.md:41) takes for pids.

### Fairness

`Shell!FairSpec`: the connection's thread, a pending SIGCHLD, each new child
up to its exec, and each receiver keep being scheduled. Nothing is assumed of
programs, which may run forever, nor of the client, which may send nothing. So
liveness says "unless the thread waits for a job that is alive".
`Yash!FairSpec` is the same: the shell and its new children are scheduled;
what is typed and how long programs run is free. In
`Client!FairSpec` both processes of the client, the thread and its receivers
are scheduled; the user may type or press nothing, jobs may run forever, and
the daemon need not be killed. `Descriptors` and `CommandLine` state no
liveness and no fairness. Weak fairness is enough
everywhere: a step of these processes that is enabled stays so until it is
taken, or until another process takes over what it was about to do.

## Proofs

Eight modules hold theorems. They prove every invariant and action property of
the runs that pass, and the refinement of `JobLedger`, for every value of the
constants; two invariants of `Shell`, those in `ShellSingleProofs`, have a
hypothesis, explained below. The assumptions are the `ASSUME`s of the modules:
bounds are naturals, lines are among those modelled, a pid is a sequence of
digits, `NULL` is not a job, no character of a word is a space or a special one.

Each module but `ParseProofs`, where the work is in the operators, names its
inductive invariant `IInv`, in parts, and proves `Init => IInv` and `IInv /\
[Next]_vars => IInv'` with a lemma for each action or group of actions. TLC
checked each `IInv` on the component's run before it was proved.

### `JobTableProofs`

`TypeCorrect`, `AlwaysConsistent` (`TableConsistent`), `CompactIfOrdered`
(`CompactWhileOrdered`), `SlotsKeepTheirJob` (`SlotNeverReassigned`),
`TableImplementsLedger` (`ImplementsLedger`).

`IInv` is `TypeOK /\ TableConsistent`. Neither half is inductive alone:
`free_job` lowers `next_job` by the index stored in the job, so that nothing
is left above the top only if the index is the slot; `add_job` fills slot
`next_job`, and keeps the slots of the others only if nothing lies there; and
`next_job` stays typed only because an overrun stops the table.
`CompactWhileOrdered` needs `IInv` but not the converse, so it has a step
lemma of its own, and so has `SlotNeverReassigned`, a property of steps.

For the refinement, `LedgerReads` says once what `JobLedger`'s state is in
terms of slots. Each operation then is a lemma: `add_job` starts the youngest
job because it fills the slot above all others, `free_job` ends one and leaves
the order of the rest, a scan of `fg_job` or `bg_job` from the top finds the
youngest job that qualifies. Operations on jobs that are not listed, the
overrun, and marks that change nothing a user sees are stutters.

### `ShellProofs`

`TypeCorrect`, `FreedAfterDeath` (`FreedOnlyAfterADeath`), `JobHeld` (`ForegroundHeld`), `NeverOverruns`.

The heart of `IInv` is that the leader of a job is in its group before the job
is listed (`ListedHeld`) or waited for (`StageInv`), because thread and child
both call `setpgid`: whichever comes first, a group found empty is one whose
leader was collected. `WaitsListed` adds that a thread in a wait still has its
job listed unless one of its processes was collected. `QueueInv` counts the
commands started and those in the socket; `ProcInv` ties processes to the
command lines that forked them. From these follow the two action properties
about deaths and waits.

The facts that `IInv` needs of the table are lemmas of `ShellProofs`, one for
each operation of `T`.

`NeverOverruns` states no property of a run: a connection that starts no more
commands than the table has slots never stores past its end. Its invariant
`Filled` is `next_job <= started`, strictly while a command is being started.

### `ShellSingleProofs`

`SinglesStaySeen` (`LiveJobIsCandidate`) and `SingleStopsRecorded`
(`StopsAreRecorded`), in the form `SinglesOnly /\ Spec => [](~overrun => ...)`.

Both hypotheses are needed. `SinglesOnly` leaves pipelines out, and "jobs" as
a command: the first process of a pipeline to end frees the job with the others
alive, the stop of one that is not the leader is recorded for no job, and a
"jobs" typed as a command forks a process that is in no table. The run
`MCShellSingle` has these lines only. After an overrun the table's content is
undefined; `NeverOverruns` says when there is none. `SInv` relates the table
and the kernel for each group: it has one slot (`OneSlotEach`); a live process
is in the thread's hand or can be resumed, its stop is recorded or still to be
returned by a wait, and a job recorded as stopped in the background is stopped
or has ended (`Recorded`).

### `YashProofs`

`TypeCorrect`, `NumbersIncrease` (`IdsIncrease`), `HistoryHolds`
(`StoredWithinHistory`), `PromptOwnsTerminal` (`TerminalReturned`),
`WaitFailsOnlyUnset` (`FailsOnlyOnUnsetGroup`), `NeverStoppedAtPrompt`
(`PromptIgnoresControlZ`), `LiveLeaveWithFirst` (`LiveLostOnlyWithFirst`).

It begins with what `jobsAt` returns, the jobs at given positions in their
order, of which `removeTerminated` is made; this needs an enumeration of
any finite set of positions, which is shown to exist by its least
counterexample. In `IInv` the part that carries most is `JobsMatchProcesses`:
a job with a group is marked terminated exactly when the leader of its group
was collected. It rests on no wait collecting the leader of another job, which
for `waitpid(0)` means that a leader which can end has left the shell's group
(`LeadersLeft`). `PromptIgnoresControlZ` needs to know SIGTSTP's disposition
at every place (`TstpByPc`); the rest of `ControlInv` says which line is at
work where.

### `DaemonStartProofs`

`TypeCorrect`, `AtMostOneDaemon` (`OneDaemon`), `AlwaysServesAlone`
(`ServesAlone`), `LockedFileStaysOpen` (`LockHolderHasFileOpen`),
`PidStaysReadable` (`PidFileBeginsWithPid`).

`OneDaemon` is not inductive: `LockByPc` says that the holder of the lock is
exactly the instance that has passed it. `FilesByPc` follows the low
descriptors through `create_daemon`: one of 0 and 1 is closed when
`yashd.pid` is opened and becomes it, which is why the close of the number
`open` returned leaves the file open and locked. `PidWritten` says that after
its pid an instance writes behind it and inside the file, so that the pid is
not overwritten by what the jobs' messages add. `AlwaysServesAlone` rests on
the bind, which fails while anyone holds the socket.

### `ClientProofs`

`TypeCorrect`, `PatientLinesWhole` (`PatientLinesStayWhole`),
`PatientLinesPass` (`PatientLinesPassReceiver`).

The invariant is one turn that passes between user and daemon (`OneTurn`): a
prompt seen, a line in the stream, a command at work, a prompt on its way; for
a patient user never two of them at once. It needs `ReceiverOnlyWithCommand`,
a thread that reads or prompts has no receiver, and `NoKeys`, as a key can join
a line in one `recv`.

### `DescriptorsProofs`

`TypeCorrect`, `PipesEnd` (`PipesEndWithWriter`), `NoOtherLeaks`
(`NothingElseLeaks`), `StagesAreConnected` (`StagesConnected`).

Two views of the table make `IInv`. `PlaceInv` goes from files to threads:
each open file is a connection's socket, or a pipe end at a number that the
thread of its command still has in a local and at a place where it has not
closed it, or a read end that is lost. It holds even when threads close
descriptors of each other, since closing only takes files away. `OwnInv` goes
from threads to files: what a thread's locals name is what it opened. It holds
until the first stray close, and with it what each process was given is what
the pipeline meant. `Progress` and `HoldsInv` say how far a thread has come and
which processes hold a write end.

### `ParseProofs`

`CoversBars` (`ListCoversBars`), `FitArgv` (`WordsFitArgv`), `ArgvIsTyped`
(`ArgvIsWhatIsTyped`), `StandaloneRuns` (`StandaloneRunsWhatIsTyped`).

The state is only the line, and all that is needed of it is `LineTyped`: it is
a sequence of characters. The rest is about the operators, of any line.

- *Loops.* Induction over the rounds of a loop is done with a set: `UpTo` says
  that a set of numbers that has 0, and each number with its predecessor, has
  all numbers. `LoopRuns` and its likes show with it that a loop is the closed
  form the proofs go on with: after i characters `malloc_argv` has counted the
  words ended so far of each process (`CountedSoFar`), and after k words
  `parse_command` has stored those between the "|" (`Cut`, `Part`).
- *Lists.* `InOrder` lists a set of numbers in order and is the only list that
  does (`InOrderLists`, `InOrderIs`). `Intervals` gives the maximal intervals
  of a set and is the only list that does (`IntervalsTile`,
  `TilesAreIntervals`). What `strtok` finds, what a user sees as words and
  what is between two "|" are all such lists; to compare two of them is to
  compare the sets.
- *`CoversBars`.* A word "|" is a character "|", and no two words are the same
  one, so there are no more processes than were allocated. This needs nothing
  of the line, nor of the bytes at which `strtok` also splits.
- *`FitArgv`.* `malloc_argv` counts a word at the space behind it; a bijection
  of the words of a process with these spaces, and the end of the line for the
  last word, makes the counts equal (`SameCounts`). That "|" stand apart is
  needed for the words to be those of one process, and that each process has a
  word for the intervals to be the parts (`IntervalsAreParts`).
- *`ArgvIsTyped`.* On a spaced, well formed line without the bytes at which
  `strtok` splits by mistake the words of `strtok` are the
  tokens but for the "&" (`TokensAreWords`), the stages are the parts
  (`StagesAreParts`), and `file_redirection` finds the marks of a stage at the
  places of its tokens (`StageRuns`). The "|" of such a line stand apart
  (`SpacedBarsApart`), so that argv is as long as was allocated (`SameLengths`),
  and a NULL is missing only where no redirection shortens it (`StageEnds`).
- *`StandaloneRuns`.* No spacing is assumed. `Side` says of a side of the pipe
  what its tokens are and that only spaces lie around them, so that each group
  of the expression ends where the next token begins: the program is the first
  word (`WordIs`), the arguments are the words up to the first redirection
  (`ArgumentsAre`), and the two groups for redirections take those there are
  (`RedirectionIs`, `NoRedirection`, `GroupsAre`). A stage that is well formed
  has its redirections at the end, every other token, so two of them have one
  place only (`RedirectionsAre`). The sides are the intervals without "|", and
  correspond to the stages (`OneAgrees`, `TwoAgree`).

What `regexec` matches is not proved but part of the model, see `Parser`.

### Only model-checked

- `PromptReturns` and `HangupEndsThread` of `Shell`, `PromptReturns` of
  `Yash`, `EofEndsConnection` and `DisconnectEndsShower` of `Client`: liveness
  under fairness, which needs `ENABLED`, and TLAPS does not handle that.
- Pipelines for `LiveJobIsCandidate` and `StopsAreRecorded`: not true of them.

In `ShellProofs` the theorems of `JobTable` are not cited through the instance
`T`: this version of TLAPS does not carry theorems through a named instance.
What is needed is proved of `T`'s operators directly.

## Not modelled

- `yashd/yash-juan` but for `prompt` and `prepend`, `yash-holden/yashholden.c`
  and `yashd/daemon_template.c`: built by no target, and so part of no
  program. The first two are older forms of what `Yash` and `Shell` model.
- `infloop.c`: a program that loops.
- Threads racing inside the job table, and inside `strtok`. Every call on the
  table is one step in the models, although nothing locks it. With reads and
  writes apart nothing said of the table would survive: two `add_job` that
  read the same `next_job` store to one slot and lose a job, and the
  `check_jobs` of one thread frees the job another waits for. A model of it
  would show this and little else. What connections do share and get right
  most of the time, their descriptors, is in `Descriptors`.
- A message cut by the network or by `MAXMSG`; output of jobs; the log;
  memory, but for the argv of `Parse` and the freed job of `Shell`; and the
  fifty arguments that the standalone parser allows without a test.
- Failures of `fork`, `pipe`, `open`, `accept` and `pthread_create`, after
  which the code exits, and the copy of the standalone shell that a failed
  `execvp` leaves running.

## Plan

The safety properties and the refinement are proved. What is open:

1. Pipelines in `Shell`: which processes of a job the table may have lost, so
   that `SinglesStaySeen` has a counterpart without `SinglesOnly`.
2. The hazards of `PROJECT.json` that have no property, where a model of the
   race would say more than that it exists.
3. Lines outside `WellFormed`, such as an argument behind a redirection: what
   either parser makes of them is in the model, and no property says what it
   should be.
