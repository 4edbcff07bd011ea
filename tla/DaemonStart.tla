---------------------------- MODULE DaemonStart ----------------------------
(***************************************************************************)
(* create_daemon and create_server_socket (yashd/yashd.c, socket.c): how   *)
(* an instance of yashd resets its descriptors, takes the lock on          *)
(* yashd.pid, writes its pid there and binds its port, with several        *)
(* instances started and killed at any moment.  The jobs of an instance    *)
(* outlive it, and keep the listening socket they inherited.               *)
(*                                                                         *)
(* An open takes the lowest free descriptor, so what each name ends up     *)
(* being depends on what the steps before it closed.                       *)
(***************************************************************************)
EXTENDS Integers, Sequences, FiniteSets

CONSTANTS
  Instances,   \* the processes that run yashd
  Pid(_),      \* the decimal digits of an instance's pid
  NoInstance,
  MaxFile      \* bound: length of yashd.pid

ASSUME InstanceAssumption ==
  /\ \A d \in Instances : Pid(d) \in Seq(0 .. 9) /\ Pid(d) # <<>>
  /\ NoInstance \notin Instances

VARIABLES
  pc,         \* the step of create_daemon each instance is at
  fds,        \* what each descriptor of each instance refers to
  offset,     \* how far each instance has written into yashd.pid
  locked,     \* the instance that holds the lock on yashd.pid
  yashd_pid,  \* what the file yashd.pid holds
  jobs        \* the instances with a child that has not ended

vars == <<pc, fds, offset, locked, yashd_pid, jobs>>

Descriptors == 0 .. 3

Files == {"closed", "terminal", "null", "yashd.pid", "yashd.log"}

STDIN == 0
STDOUT == 1
STDERR == 2

\* A line about a job, where yashd_pid otherwise has a digit.
JobText == 10

AllClosed == [k \in Descriptors |-> "closed"]

LowestFree(table) ==
  CHOOSE k \in Descriptors :
    /\ table[k] = "closed"
    /\ \A n \in Descriptors : table[n] = "closed" => k <= n

Open(table, file) == [table EXCEPT ![LowestFree(table)] = file]

Dup2(table, from, to) == [table EXCEPT ![to] = table[from]]

Shut(table, k) == [table EXCEPT ![k] = "closed"]

\* Bytes written at a position replace what is there and keep the rest.
Overwrite(content, position, bytes) ==
  SubSeq(content, 1, position) \o bytes
    \o SubSeq(content, position + Len(bytes) + 1, Len(content))

-----------------------------------------------------------------------------
Init ==
  /\ pc = [d \in Instances |-> "unstarted"]
  /\ fds = [d \in Instances |-> AllClosed]
  /\ offset = [d \in Instances |-> 0]
  /\ locked = NoInstance
  /\ yashd_pid = <<>>
  /\ jobs = {}

\* The kernel closes the descriptors of an instance that ends and drops its
\* lock, which its children do not inherit.
Terminate(d) ==
  /\ pc' = [pc EXCEPT ![d] = "exited"]
  /\ fds' = [fds EXCEPT ![d] = AllClosed]
  /\ locked' = IF locked = d THEN NoInstance ELSE locked

\* The child of the first fork, with the descriptors of whoever started it.
Start(d) ==
  /\ pc[d] = "unstarted"
  /\ pc' = [pc EXCEPT ![d] = "reset"]
  /\ \E stdin \in {"closed", "terminal"} :
       fds' = [fds EXCEPT ![d] = [k \in Descriptors |->
                 IF k = STDIN THEN stdin ELSE "terminal"]]
  /\ UNCHANGED <<offset, locked, yashd_pid, jobs>>

\* Steps 2 and 6: close every descriptor above 0, open /dev/null, put it on
\* the standard input and output, and close the descriptor it was opened as.
ResetFiles(d) ==
  LET kept == [k \in Descriptors |-> IF k > 0 THEN "closed" ELSE fds[d][k]]
      fd == LowestFree(kept)
      opened == Dup2(Dup2(Open(kept, "null"), fd, STDIN), fd, STDOUT)
  IN /\ pc[d] = "reset"
     /\ fds' = [fds EXCEPT ![d] = Shut(opened, fd)]
     /\ pc' = [pc EXCEPT ![d] = "open"]
     /\ UNCHANGED <<offset, locked, yashd_pid, jobs>>

\* A faulty variant: the file is truncated before the lock is tried.
OpenTruncated(d) ==
  /\ pc[d] = "open"
  /\ fds' = [fds EXCEPT ![d] = Open(fds[d], "yashd.pid")]
  /\ yashd_pid' = <<>>
  /\ pc' = [pc EXCEPT ![d] = "lock"]
  /\ UNCHANGED <<offset, locked, jobs>>

\* Step 7: open or create the file, without truncating it.
OpenPidFile(d) ==
  /\ pc[d] = "open"
  /\ fds' = [fds EXCEPT ![d] = Open(fds[d], "yashd.pid")]
  /\ pc' = [pc EXCEPT ![d] = "lock"]
  /\ UNCHANGED <<offset, locked, yashd_pid, jobs>>

\* A faulty variant: the result of lockf is not tested.
LockUntested(d) ==
  /\ pc[d] = "lock"
  /\ locked' = IF locked = NoInstance THEN d ELSE locked
  /\ pc' = [pc EXCEPT ![d] = "log"]
  /\ UNCHANGED <<fds, offset, yashd_pid, jobs>>

\* Another: the descriptor the lock was taken through is closed at once.
LockThenClose(d) ==
  /\ pc[d] = "lock" /\ locked = NoInstance
  /\ locked' = d
  /\ fds' = [fds EXCEPT ![d] =
       [k \in Descriptors |-> IF @[k] = "yashd.pid" THEN "closed" ELSE @[k]]]
  /\ pc' = [pc EXCEPT ![d] = "log"]
  /\ UNCHANGED <<offset, yashd_pid, jobs>>

\* F_TLOCK does not wait: with another holder the instance exits.
Lock(d) ==
  /\ pc[d] = "lock"
  /\ IF locked = NoInstance
       THEN /\ locked' = d
            /\ pc' = [pc EXCEPT ![d] = "log"]
            /\ UNCHANGED fds
       ELSE Terminate(d)
  /\ UNCHANGED <<offset, yashd_pid, jobs>>

\* Step 11: the log, which also becomes standard error.
OpenLog(d) ==
  LET fd == LowestFree(fds[d])
  IN /\ pc[d] = "log"
     /\ fds' = [fds EXCEPT ![d] = Dup2(Open(fds[d], "yashd.log"), fd, STDERR)]
     /\ pc' = [pc EXCEPT ![d] = "write"]
     /\ UNCHANGED <<offset, locked, yashd_pid, jobs>>

\* A faulty variant: the pid is written as an integer, not as digits.
WritePidRaw(d) ==
  /\ pc[d] = "write"
  /\ yashd_pid' = Overwrite(yashd_pid, 0, <<255>>)
  /\ offset' = [offset EXCEPT ![d] = 1]
  /\ pc' = [pc EXCEPT ![d] = "bind"]
  /\ UNCHANGED <<fds, locked, jobs>>

\* Step 8: write the pid at the start of the file.
WritePid(d) ==
  /\ pc[d] = "write"
  /\ yashd_pid' = Overwrite(yashd_pid, 0, Pid(d))
  /\ offset' = [offset EXCEPT ![d] = Len(Pid(d))]
  /\ pc' = [pc EXCEPT ![d] = "bind"]
  /\ UNCHANGED <<fds, locked, jobs>>

\* The port is taken as long as any process has a socket listening on it.
Listening(d) == pc[d] = "serving" \/ d \in jobs

\* A faulty variant: reuse_port sets SO_REUSEPORT, as its message says.
BindShared(d) ==
  /\ pc[d] = "bind"
  /\ pc' = [pc EXCEPT ![d] = "serving"]
  /\ UNCHANGED <<fds, offset, locked, yashd_pid, jobs>>

\* With SO_REUSEADDR a bind still fails while another socket listens, and the
\* instance exits.
Bind(d) ==
  /\ pc[d] = "bind"
  /\ IF \E e \in Instances : Listening(e)
       THEN Terminate(d)
       ELSE /\ pc' = [pc EXCEPT ![d] = "serving"]
            /\ UNCHANGED <<fds, locked>>
  /\ UNCHANGED <<offset, yashd_pid, jobs>>

\* A connection starts a job; the last of them ends.
StartJob(d) ==
  /\ pc[d] = "serving"
  /\ jobs' = jobs \cup {d}
  /\ UNCHANGED <<pc, fds, offset, locked, yashd_pid>>

JobsEnd(d) ==
  /\ d \in jobs
  /\ jobs' = jobs \ {d}
  /\ UNCHANGED <<pc, fds, offset, locked, yashd_pid>>

\* A line that fg_job, bg_job or job_exited prints on standard output.
PrintJob(d) ==
  /\ pc[d] = "serving"
  /\ fds[d][STDOUT] = "yashd.pid"
  /\ Len(yashd_pid) < MaxFile
  /\ yashd_pid' = Overwrite(yashd_pid, offset[d], <<JobText>>)
  /\ offset' = [offset EXCEPT ![d] = @ + 1]
  /\ UNCHANGED <<pc, fds, locked, jobs>>

\* kill -9, at any moment.
Kill(d) ==
  /\ pc[d] \notin {"unstarted", "exited"}
  /\ Terminate(d)
  /\ UNCHANGED <<offset, yashd_pid, jobs>>

Next ==
  \E d \in Instances :
    \/ Start(d) \/ ResetFiles(d) \/ OpenPidFile(d) \/ Lock(d) \/ OpenLog(d)
    \/ WritePid(d) \/ Bind(d) \/ StartJob(d) \/ JobsEnd(d) \/ PrintJob(d) \/ Kill(d)

Spec == Init /\ [][Next]_vars

-----------------------------------------------------------------------------
TypeOK ==
  /\ pc \in [Instances -> {"unstarted", "reset", "open", "lock", "log", "write",
                           "bind", "serving", "exited"}]
  /\ fds \in [Instances -> [Descriptors -> Files]]
  /\ offset \in [Instances -> Nat]
  /\ locked \in Instances \cup {NoInstance}
  /\ yashd_pid \in Seq(0 .. JobText)
  /\ jobs \subseteq Instances

\* Past the lock there is one instance, its holder, however many were started
\* at once or take over from one that was killed.
OneDaemon ==
  \A d \in Instances : pc[d] \in {"log", "write", "bind", "serving"} => locked = d

\* As long as a daemon serves, yashd.pid begins with its pid: an instance that
\* finds the lock taken leaves the file as it was, and what the daemon prints
\* does not reach the digits.
PidFileBeginsWithPid ==
  \A d \in Instances : pc[d] = "serving" =>
    /\ Len(yashd_pid) >= Len(Pid(d))
    /\ SubSeq(yashd_pid, 1, Len(Pid(d))) = Pid(d)

\* A daemon that serves is the only one that clients reach: no socket of a
\* killed daemon, kept open by its jobs, listens on the port beside its own.
ServesAlone ==
  \A d, e \in Instances : pc[d] = "serving" /\ Listening(e) => d = e

\* The lock is held through an open descriptor of the file.
LockHolderHasFileOpen ==
  locked # NoInstance => \E k \in Descriptors : fds[locked][k] = "yashd.pid"
=============================================================================
