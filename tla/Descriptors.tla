---------------------------- MODULE Descriptors ----------------------------
(***************************************************************************)
(* The descriptors of yashd: the sockets of its connections, the pipes     *)
(* that exec_cmd and parent_fork (yash-holden/yash_cmd.c) open and close   *)
(* around each command line, and what the forked processes inherit.        *)
(*                                                                         *)
(* All threads of the daemon share one table of descriptors, and every     *)
(* open takes the lowest free number.  A forked process gets a copy of the *)
(* table, with the descriptors of all connections.  What it holds then it  *)
(* holds to its end, which adds no holder and is left out.  Number 0       *)
(* stands for the -1 of a descriptor that was never opened.                *)
(***************************************************************************)
EXTENDS Integers, FiniteSets, FiniteSetsExt, Functions

CONSTANTS
  Conns,         \* connections, each used once
  MaxWidth,      \* bound: processes of one command line
  MaxCommands,   \* bound: command lines that start, over all connections
  MaxProcs,      \* bound: processes of all of them together
  MaxFd          \* bound: descriptor numbers after those the daemon starts with

ASSUME DescriptorsAssumption ==
  /\ MaxWidth \in Nat \ {0}
  /\ MaxCommands \in Nat \ {0}
  /\ MaxProcs \in Nat
  /\ MaxFd \in Nat \ {0}

VARIABLES
  table,      \* what each descriptor of the daemon refers to
  accepting,  \* the number that the accept in progress will return
  pc,         \* where each connection's thread is
  connfd,     \* the connection's descriptor
  reading,    \* what the thread's recv reads from
  cmd,        \* the command line the thread works on
  stage,      \* the process of it that is forked next
  recvpipe,   \* exec_cmd's locals: the pipe to the job's input,
  pipefd,     \* the last pipe between two processes,
  in,         \* and p->in of the next process
  width,      \* number of processes of each command line
  owner,      \* the client that sent it
  procs,      \* what each process got: what it holds, its standard input and output
  stray       \* a thread closed a descriptor that was not its own any more

locals == <<cmd, stage, recvpipe, pipefd, in>>
history == <<width, owner>>
vars == <<table, accepting, pc, connfd, reading, locals, history, procs, stray>>

Fds == 1 .. MaxFd
Commands == 1 .. MaxCommands
Widths == 1 .. MaxWidth

\* Process 0 of a command line is its receiver.
Procs == Commands \X (0 .. MaxWidth)

-----------------------------------------------------------------------------
\* What a descriptor refers to.  Pipe 0 of a command line is recvpipe, pipe k
\* lies between its processes k and k + 1.
Free == <<"free">>
Reserved == <<"reserved">>
Sock(c) == <<"sock", c>>
ReadEnd(n, k) == <<"r", n, k>>
WriteEnd(n, k) == <<"w", n, k>>

Sockets == {Sock(c) : c \in Conns}
PipeEnds == {<<e, n, k>> : e \in {"r", "w"}, n \in Commands, k \in 0 .. MaxWidth}
OpenFiles == Sockets \cup PipeEnds

LowestFree(t) == Min({d \in Fds : t[d] = Free})
NumbersLeft(k) == Cardinality({d \in Fds : table[d] = Free}) >= k

\* A closed number, or the -1 of one never opened, stays as it is.
Closed(t, d) == IF d # 0 /\ t[d] \in OpenFiles THEN [t EXCEPT ![d] = Free] ELSE t

\* Closing number d, which the thread opened as f.
Close(d, f) ==
  /\ table' = Closed(table, d)
  /\ stray' = (stray \/ (d # 0 /\ table[d] \in OpenFiles \ {f}))

\* What a call finds at number d: nothing if it was closed.
FileAt(t, d) == IF d # 0 /\ t[d] \in OpenFiles THEN {t[d]} ELSE {}
At(d) == FileAt(table, d)

Inherited == Range(table) \cap OpenFiles

\* Of what a process inherits, the write ends that keep a pipeline's reader
\* waiting.
Writers == Inherited \cap {WriteEnd(n, k) : n \in Commands, k \in 1 .. MaxWidth}

NoProc == [holds |-> {}, stdin |-> {}, stdout |-> {}]

ThreadStates == {"none", "recv", "pipe", "fork", "closeW", "closeR",
                 "parent_fork", "closeIn", "close0", "close1", "over"}

-----------------------------------------------------------------------------
Init ==
  /\ table = [d \in Fds |-> Free]
  /\ accepting = 0
  /\ pc = [c \in Conns |-> "none"]
  /\ connfd = [c \in Conns |-> 0]
  /\ reading = [c \in Conns |-> {}]
  /\ cmd = [c \in Conns |-> 0]
  /\ stage = [c \in Conns |-> 0]
  /\ recvpipe = [c \in Conns |-> <<0, 0>>]
  /\ pipefd = [c \in Conns |-> <<0, 0>>]
  /\ in = [c \in Conns |-> 0]
  /\ width = [n \in Commands |-> 0]
  /\ owner = [n \in Commands |-> {}]
  /\ procs = [p \in Procs |-> NoProc]
  /\ stray = FALSE

-----------------------------------------------------------------------------
(* The main thread.  The kernel sets the number aside before it waits for  *)
(* a client, and fills it in when one connects.                            *)

Accept ==
  /\ accepting = 0 /\ NumbersLeft(1)
  /\ accepting' = LowestFree(table)
  /\ table' = [table EXCEPT ![accepting'] = Reserved]
  /\ UNCHANGED <<pc, connfd, reading, locals, history, procs, stray>>

Connect(c) ==
  /\ pc[c] = "none" /\ accepting # 0
  /\ table' = [table EXCEPT ![accepting] = Sock(c)]
  /\ connfd' = [connfd EXCEPT ![c] = accepting]
  /\ reading' = [reading EXCEPT ![c] = {Sock(c)}]
  /\ pc' = [pc EXCEPT ![c] = "recv"]
  /\ accepting' = 0
  /\ UNCHANGED <<locals, history, procs, stray>>

-----------------------------------------------------------------------------
(* A connection's thread.                                                  *)

Goto(c, l) == pc' = [pc EXCEPT ![c] = l]

Started == {n \in Commands : width[n] # 0}

\* The client has left, or the descriptor is no longer open.
RecvEnds(c) ==
  /\ pc[c] = "recv"
  /\ Close(connfd[c], Sock(c))
  /\ Goto(c, "over")
  /\ reading' = [reading EXCEPT ![c] = {}]
  /\ UNCHANGED <<accepting, connfd, locals, history, procs>>

\* pipe(): the lowest free number for the read end, the next for the write end.
Opened(n, k) ==
  LET r == LowestFree(table)
      t == [table EXCEPT ![r] = ReadEnd(n, k)]
      w == LowestFree(t)
  IN [fds |-> <<r, w>>, table |-> [t EXCEPT ![w] = WriteEnd(n, k)]]

\* The processes of all command lines together.
Forked(widths) == MapThenSumSet(LAMBDA n : widths[n], Commands)

\* A line arrives and exec_cmd makes recvpipe.  A recv that waits is not
\* disturbed by a close of its descriptor; the next one is.
Recv(c) ==
  /\ pc[c] = "recv" /\ reading[c] # {}
  /\ Started # Commands /\ NumbersLeft(2)
  /\ LET n == Cardinality(Started) + 1
         p == Opened(n, 0)
     IN \E w \in Widths :
          /\ cmd' = [cmd EXCEPT ![c] = n]
          /\ owner' = [owner EXCEPT ![n] = reading[c]]
          /\ width' = [width EXCEPT ![n] = w]
          /\ Forked(width') <= MaxProcs
          /\ table' = p.table
          /\ recvpipe' = [recvpipe EXCEPT ![c] = p.fds]
          /\ Goto(c, IF w > 1 THEN "pipe" ELSE "fork")
  /\ stage' = [stage EXCEPT ![c] = 1]
  /\ UNCHANGED <<accepting, connfd, reading, pipefd, in, procs, stray>>

MakePipe(c) ==
  /\ pc[c] = "pipe" /\ NumbersLeft(2)
  /\ LET p == Opened(cmd[c], stage[c])
     IN /\ table' = p.table
        /\ pipefd' = [pipefd EXCEPT ![c] = p.fds]
  /\ Goto(c, "fork")
  /\ UNCHANGED <<accepting, connfd, reading, cmd, stage, recvpipe, in, history,
                 procs, stray>>

LastStage(c) == stage[c] = width[cmd[c]]

\* Neither dup2 nor the close of the number it copied changes what a process
\* holds.  Redirections to files, which replace either end, are left out.
Child(c, input) ==
  [holds |-> Writers,
   stdin |-> IF input # 0 THEN At(input) ELSE At(recvpipe[c][1]),
   stdout |-> IF LastStage(c) THEN At(connfd[c]) ELSE At(pipefd[c][2])]

\* A faulty variant: the input of a process is the pipe opened last.
ForkOntoLastPipe(c) ==
  /\ pc[c] = "fork"
  /\ procs' = [procs EXCEPT ![<<cmd[c], stage[c]>>] = Child(c, pipefd[c][1])]
  /\ in' = [in EXCEPT ![c] = pipefd[c][1]]
  /\ Goto(c, "closeW")
  /\ UNCHANGED <<table, accepting, connfd, reading, cmd, stage, recvpipe, pipefd,
                 history, stray>>

\* The fork, and the child up to its exec.
Fork(c) ==
  /\ pc[c] = "fork"
  /\ procs' = [procs EXCEPT ![<<cmd[c], stage[c]>>] = Child(c, in[c])]
  /\ in' = [in EXCEPT ![c] = pipefd[c][1]]
  /\ Goto(c, "closeW")
  /\ UNCHANGED <<table, accepting, connfd, reading, cmd, stage, recvpipe, pipefd,
                 history, stray>>

\* A faulty variant: the loop moves on after the last process, too.
NextStagePast(c) ==
  /\ stage' = [stage EXCEPT ![c] = @ + 1]
  /\ Goto(c, CASE LastStage(c) -> "closeR"
               [] stage[c] + 1 = width[cmd[c]] -> "fork"
               [] OTHER -> "pipe")

NextStage(c) ==
  /\ stage' = [stage EXCEPT ![c] = IF LastStage(c) THEN @ ELSE @ + 1]
  /\ Goto(c, CASE LastStage(c) -> "closeR"
               [] stage[c] + 1 = width[cmd[c]] -> "fork"
               [] OTHER -> "pipe")

\* A faulty variant: the daemon keeps the write end.
KeepPipeWrite(c) ==
  /\ pc[c] = "closeW"
  /\ NextStage(c)
  /\ UNCHANGED <<table, accepting, connfd, reading, cmd, recvpipe, pipefd, in,
                 history, procs, stray>>

\* close(pipefd[1]).  After the last fork the number was closed before.
ClosePipeWrite(c) ==
  /\ pc[c] = "closeW"
  /\ Close(pipefd[c][2], WriteEnd(cmd[c], stage[c]))
  /\ NextStage(c)
  /\ UNCHANGED <<accepting, connfd, reading, cmd, recvpipe, pipefd, in, history, procs>>

\* close(pipefd[0]), of the last pipe only.
ClosePipeRead(c) ==
  /\ pc[c] = "closeR"
  /\ Close(pipefd[c][1], ReadEnd(cmd[c], width[cmd[c]] - 1))
  /\ Goto(c, "parent_fork")
  /\ UNCHANGED <<accepting, connfd, reading, locals, history, procs>>

ForkReceiver(c) ==
  /\ pc[c] = "parent_fork"
  /\ procs' = [procs EXCEPT ![<<cmd[c], 0>>] =
       [holds |-> Writers, stdin |-> {}, stdout |-> At(recvpipe[c][2])]]
  /\ Goto(c, "closeIn")
  /\ UNCHANGED <<table, accepting, connfd, reading, locals, history, stray>>

\* parent_fork's close(recvpipe).  The wait for the job is the time until the
\* thread's next step.
CloseInput(c) ==
  /\ pc[c] = "closeIn"
  /\ Close(recvpipe[c][2], WriteEnd(cmd[c], 0))
  /\ Goto(c, "close0")
  /\ UNCHANGED <<accepting, connfd, reading, locals, history, procs>>

\* A faulty variant: only the write end is closed after parent_fork.
KeepRecvPipe(c) ==
  /\ pc[c] = "close0"
  /\ Goto(c, "close1")
  /\ UNCHANGED <<table, accepting, connfd, reading, locals, history, procs, stray>>

CloseRecvPipe(c) ==
  /\ pc[c] = "close0"
  /\ Close(recvpipe[c][1], ReadEnd(cmd[c], 0))
  /\ Goto(c, "close1")
  /\ UNCHANGED <<accepting, connfd, reading, locals, history, procs>>

\* close(recvpipe[1]), which parent_fork has closed; then the prompt and recv.
CloseInputAgain(c) ==
  /\ pc[c] = "close1"
  /\ Close(recvpipe[c][2], WriteEnd(cmd[c], 0))
  /\ reading' = [reading EXCEPT ![c] = FileAt(table', connfd[c])]
  /\ cmd' = [cmd EXCEPT ![c] = 0]
  /\ stage' = [stage EXCEPT ![c] = 0]
  /\ recvpipe' = [recvpipe EXCEPT ![c] = <<0, 0>>]
  /\ pipefd' = [pipefd EXCEPT ![c] = <<0, 0>>]
  /\ in' = [in EXCEPT ![c] = 0]
  /\ Goto(c, "recv")
  /\ UNCHANGED <<accepting, connfd, history, procs>>

-----------------------------------------------------------------------------
ThreadNext(c) ==
  \/ Recv(c) \/ RecvEnds(c) \/ MakePipe(c) \/ Fork(c)
  \/ ClosePipeWrite(c) \/ ClosePipeRead(c) \/ ForkReceiver(c) \/ CloseInput(c)
  \/ CloseRecvPipe(c) \/ CloseInputAgain(c)

Next ==
  \/ Accept
  \/ \E c \in Conns : Connect(c) \/ ThreadNext(c)

Spec == Init /\ [][Next]_vars

-----------------------------------------------------------------------------
(* Properties.                                                             *)

TypeOK ==
  /\ table \in [Fds -> OpenFiles \cup {Free, Reserved}]
  /\ accepting \in Fds \cup {0}
  /\ pc \in [Conns -> ThreadStates]
  /\ connfd \in [Conns -> Fds \cup {0}]
  /\ \A c \in Conns : reading[c] \subseteq OpenFiles /\ Cardinality(reading[c]) <= 1
  /\ cmd \in [Conns -> Commands \cup {0}]
  /\ stage \in [Conns -> 0 .. MaxWidth]
  /\ recvpipe \in [Conns -> (Fds \cup {0}) \X (Fds \cup {0})]
  /\ pipefd \in [Conns -> (Fds \cup {0}) \X (Fds \cup {0})]
  /\ in \in [Conns -> Fds \cup {0}]
  /\ width \in [Commands -> Widths \cup {0}]
  /\ \A n \in Commands : owner[n] \subseteq OpenFiles
  /\ \A p \in Procs : \A f \in {"holds", "stdin", "stdout"} : procs[p][f] \subseteq OpenFiles
  /\ stray \in BOOLEAN

\* The reader of a pipe sees the end of it once the process that writes to it
\* has ended: after the fork the daemon does not keep the write end, nor gets
\* any other process it, but one that another connection forks in the meantime.
PipesEndWithWriter ==
  \A n \in Started : \A k \in 1 .. width[n] - 1 :
    (\A c \in Conns : cmd[c] = n => stage[c] > k) =>
      /\ WriteEnd(n, k) \notin Range(table)
      /\ \A p \in Procs : WriteEnd(n, k) \in procs[p].holds =>
           p = <<n, k>> \/ stray \/ owner[p[1]] # owner[n]

\* When every thread waits for its client, the daemon holds no end of a pipe
\* but the read ends that a pipeline of three or more loses, and no socket of a
\* connection that is over, whatever the threads have closed of each other.
NothingElseLeaks ==
  (\A c \in Conns : pc[c] \in {"none", "recv", "over"}) =>
    Inherited \subseteq
      {Sock(c) : c \in {d \in Conns : pc[d] = "recv"}}
        \cup {ReadEnd(q[1], q[2]) :
                q \in {q \in Started \X (1 .. MaxWidth) : q[2] <= width[q[1]] - 2}}

\* As long as no thread has closed a descriptor of another, each process of a
\* command line reads from the one before it, the first from the receiver, and
\* the last writes to the client that sent the line, however the threads'
\* opens, forks and closes interleave.
StagesConnected ==
  ~stray =>
    \A n \in Started : \A k \in 1 .. width[n] :
      procs[<<n, k>>] # NoProc =>
        /\ procs[<<n, k>>].stdin = {ReadEnd(n, k - 1)}
        /\ procs[<<n, k>>].stdout = IF k = width[n] THEN owner[n] ELSE {WriteEnd(n, k)}

\* "We can just run 2 yash, put in a ^d for 1, and make sure the other still
\* works as expected" (test_commands.txt:45): what one client does leaves the
\* connections of the others open.
ConnectionsStayOpen ==
  \A c \in Conns : pc[c] \notin {"none", "over"} => table[connfd[c]] = Sock(c)
=============================================================================
