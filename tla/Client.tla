------------------------------- MODULE Client -------------------------------
(***************************************************************************)
(* The client of yashd (yashd/yash.c): a process that shows what the       *)
(* daemon sends and a child of it that reads the terminal, both holding    *)
(* the socket; and at the other end the connection's thread and its        *)
(* receivers (yash-holden/yash_cmd.c), as far as they read the stream.     *)
(* What the thread does with its jobs is the subject of Shell.             *)
(*                                                                         *)
(* The stream keeps no boundaries: a recv returns all that has arrived,    *)
(* which may be several messages or the first of them.  A message is       *)
(* shorter than MAXMSG and is sent, and arrives, in one piece.             *)
(*                                                                         *)
(* The Makefile builds the client as strict C99, where signal() installs a *)
(* handler for one delivery.                                               *)
(***************************************************************************)
EXTENDS Integers, Sequences, FiniteSets

CONSTANTS
  MaxStream,   \* bound: messages sent and not received
  MaxLeft      \* bound: receivers that outlive their command

ASSUME ClientAssumption == MaxStream \in Nat \ {0} /\ MaxLeft \in Nat

VARIABLES
  reader,     \* where the child is, in readStdin
  shower,     \* where the parent is, in main and outputLoop
  disp,       \* what the reader does with each key's signal
  stream,     \* messages on their way to the daemon
  prompts,    \* a prompt is on its way to the client
  fresh,      \* the user has seen a prompt and typed no line since
  patient,    \* every line so far was typed at a fresh prompt
  keyed,      \* ^C or ^Z was pressed
  garbled,    \* a line was received together with another message
  swallowed,  \* the receiver of the command at work took a line
  strayed,    \* a receiver that has outlived its command took a line
  thread,     \* where the connection's thread is
  rcv,        \* the receiver of the command the thread works on
  left,       \* receivers that have outlived their command
  fgjob,      \* the job the thread waits for is alive
  others      \* another job of this connection is alive

userVars == <<fresh, patient, keyed>>
clientVars == <<reader, shower, disp>>
fateVars == <<garbled, swallowed, strayed>>
jobVars == <<fgjob, others>>
daemonVars == <<thread, rcv, left, jobVars>>
vars == <<clientVars, stream, prompts, userVars, fateVars, daemonVars>>

Keys == {"c", "z"}

\* A line of text, an empty one, and "CTL c" and "CTL z".
Messages == {"line", "blank"} \cup Keys

ReaderStates == {"sigint", "sigtstp", "prompt", "close", "kill", "dead",
                 "stopped", "killed"}
ShowerStates == {"sigint", "recv", "dead"}
ThreadStates == {"recv", "wait", "fgwait", "kill", "held", "prompt", "closed", "dead"}

-----------------------------------------------------------------------------
\* Connected, and forked.  SIGTSTP is ignored from the start of main.
Init ==
  /\ reader = "sigint" /\ shower = "sigint"
  /\ disp = [k \in Keys |-> IF k = "c" THEN "default" ELSE "ignored"]
  /\ stream = <<>> /\ prompts = FALSE
  /\ fresh = FALSE /\ patient = TRUE /\ keyed = FALSE
  /\ garbled = FALSE /\ swallowed = FALSE /\ strayed = FALSE
  /\ thread = "prompt" /\ rcv = "none" /\ left = 0
  /\ fgjob = FALSE /\ others = FALSE

\* Every process that has not ended, or closed it, holds its end of the socket;
\* the jobs hold the daemon's end.
ClientGone == shower = "dead" /\ reader \in {"kill", "killed", "dead"}

ServerGone ==
  /\ thread \in {"closed", "dead"}
  /\ rcv = "none" /\ left = 0 /\ ~fgjob /\ ~others

-----------------------------------------------------------------------------
(* The client.                                                             *)

\* signal(SIGINT, handleSignal), then signal(SIGTSTP, handleSignal)
InstallHandlers ==
  /\ \/ /\ reader = "sigint"
        /\ reader' = "sigtstp" /\ disp' = [disp EXCEPT !["c"] = "caught"]
     \/ /\ reader = "sigtstp"
        /\ reader' = "prompt" /\ disp' = [disp EXCEPT !["z"] = "caught"]
  /\ UNCHANGED <<shower, stream, prompts, userVars, fateVars, daemonVars>>

\* The parent's signal(SIGINT, SIG_IGN).
IgnoreKeys ==
  /\ shower = "sigint"
  /\ shower' = "recv"
  /\ UNCHANGED <<reader, disp, stream, prompts, userVars, fateVars, daemonVars>>

\* A write to a connection that is closed at the other end is lost.
write_socket(m) == stream' = IF ServerGone THEN stream ELSE Append(stream, m)

\* The user enters a line and the child sends it.  After the other end is
\* closed the first write draws a reset, and the next one a SIGPIPE.
TypeLine(m) ==
  /\ reader = "prompt"
  /\ Len(stream) < MaxStream
  /\ write_socket(m)
  /\ reader' \in {"prompt"} \cup (IF ServerGone THEN {"dead"} ELSE {})
  /\ patient' = (patient /\ fresh)
  /\ fresh' = FALSE
  /\ UNCHANGED <<shower, disp, prompts, keyed, fateVars, daemonVars>>

\* The terminal signals both processes as long as the parent, on which the
\* user's own shell waits, is alive.  The handler sends one message and has to
\* be installed again, which nobody does.  A stopped reader sees no more.
Key(k) ==
  /\ shower # "dead"
  /\ Len(stream) < MaxStream
  /\ keyed' = TRUE
  /\ shower' = IF k = "c" /\ shower = "sigint" THEN "dead" ELSE shower
  /\ \/ /\ disp[k] = "caught" /\ reader \in {"sigtstp", "prompt"}
        /\ write_socket(k)
        /\ disp' = [disp EXCEPT ![k] = "default"]
        /\ UNCHANGED reader
     \/ /\ disp[k] = "default" /\ reader \notin {"stopped", "killed", "dead"}
        /\ reader' = IF k = "c" THEN "killed" ELSE "stopped"
        /\ UNCHANGED <<disp, stream>>
     \/ /\ \/ disp[k] = "ignored" \/ reader \in {"stopped", "killed", "dead"}
           \/ disp[k] = "caught" /\ reader \in {"close", "kill"}
        /\ UNCHANGED <<reader, disp, stream>>
  /\ UNCHANGED <<prompts, fresh, patient, fateVars, daemonVars>>

\* A faulty variant: the end of input is sent as a message, "CTL d", and
\* reading goes on.
EofAsMessage ==
  /\ reader = "prompt"
  /\ stream' = Append(stream, "d")
  /\ UNCHANGED <<clientVars, prompts, userVars, fateVars, daemonVars>>

\* End of input: close the socket, kill the parent, exit.
Eof ==
  /\ reader = "prompt"
  /\ reader' = "close"
  /\ UNCHANGED <<shower, disp, stream, prompts, userVars, fateVars, daemonVars>>

\* A faulty variant: the parent is left to notice by itself.
ExitAlone ==
  /\ \/ reader = "close" /\ reader' = "kill"
     \/ reader = "kill" /\ reader' = "dead"
  /\ UNCHANGED <<shower, disp, stream, prompts, userVars, fateVars, daemonVars>>

EndClient ==
  /\ \/ reader = "close" /\ reader' = "kill" /\ UNCHANGED shower
     \/ reader = "kill" /\ reader' = "dead" /\ shower' = "dead"
  /\ UNCHANGED <<disp, stream, prompts, userVars, fateVars, daemonVars>>

ShowPrompt ==
  /\ shower = "recv" /\ prompts
  /\ prompts' = FALSE /\ fresh' = TRUE
  /\ UNCHANGED <<clientVars, stream, patient, keyed, fateVars, daemonVars>>

\* A faulty variant: only an error ends the loop, not the 0 of a closed
\* connection.
DisconnectIgnored ==
  shower = "recv" /\ ~prompts /\ ServerGone /\ UNCHANGED vars

ShowDisconnect ==
  /\ shower = "recv" /\ ~prompts /\ ServerGone
  /\ shower' = "dead"
  /\ UNCHANGED <<reader, disp, stream, prompts, userVars, fateVars, daemonVars>>

-----------------------------------------------------------------------------
(* The receivers.                                                          *)

\* A recv of the first n messages.
Take(n) ==
  /\ n \in 1 .. Len(stream)
  /\ stream' = SubSeq(stream, n + 1, Len(stream))
  /\ garbled' = (garbled \/ (n > 1 /\ \E i \in 1 .. n : stream[i] = "line"))

ReceiverReady ==
  /\ rcv = "new"
  /\ rcv' = "loop"
  /\ UNCHANGED <<clientVars, stream, prompts, userVars, fateVars, thread, left, jobVars>>

\* What a key does to the receiver's job.  The one in the foreground ends, or
\* stops and is one of the others; one of the others may be the last to end.
HitForeground(k) == fgjob /\ fgjob' = FALSE /\ others' = (others \/ k = "z")

HitOthers(k) == k = "c" /\ others /\ others' = FALSE /\ UNCHANGED fgjob

\* Only a key at the start of what arrived is seen; anything else is written to
\* the job's input.  The job in the foreground is that of the receiver.
ReceiverRecv(n) ==
  /\ rcv = "loop"
  /\ Take(n)
  /\ \/ /\ stream[1] \in Keys
        /\ \/ UNCHANGED jobVars
           \/ HitForeground(stream[1])
           \/ ~fgjob /\ HitOthers(stream[1])
        /\ UNCHANGED swallowed
     \/ /\ stream[1] \notin Keys
        /\ swallowed' = TRUE
        /\ UNCHANGED jobVars
  /\ UNCHANGED <<clientVars, prompts, userVars, strayed, thread, rcv, left>>

\* One that has outlived its command does the same.  Its job may have ended,
\* live on in the background or stopped, or be in the foreground again by "fg",
\* which forks no receiver.
LeftoverRecv(n) ==
  /\ left > 0
  /\ Take(n)
  /\ \/ /\ stream[1] \in Keys
        /\ \/ UNCHANGED jobVars
           \/ rcv = "none" /\ HitForeground(stream[1])
           \/ HitOthers(stream[1])
        /\ UNCHANGED strayed
     \/ /\ stream[1] \notin Keys
        /\ strayed' = TRUE
        /\ UNCHANGED jobVars
  /\ UNCHANGED <<clientVars, prompts, userVars, swallowed, thread, rcv, left>>

ReceiverHangup ==
  /\ stream = <<>> /\ ClientGone
  /\ \/ rcv = "loop" /\ rcv' = "none" /\ UNCHANGED left
     \/ left > 0 /\ left' = left - 1 /\ UNCHANGED rcv
  /\ UNCHANGED <<clientVars, stream, prompts, userVars, fateVars, thread, jobVars>>

-----------------------------------------------------------------------------
(* The thread.                                                             *)

\* What a command line can be: a job in the foreground or the background, "fg"
\* with and without a job to resume, or "bg".
RunLine ==
  \/ thread' = "wait" /\ rcv' = "new" /\ fgjob' = TRUE /\ UNCHANGED others
  \/ thread' = "kill" /\ rcv' = "new" /\ others' = TRUE /\ UNCHANGED fgjob
  \/ /\ others /\ others' \in BOOLEAN
     /\ thread' = "fgwait" /\ fgjob' = TRUE
     /\ UNCHANGED rcv
  \/ thread' = "prompt" /\ UNCHANGED <<rcv, jobVars>>

\* A key at the start, or an empty line alone, is dropped with all that arrived
\* with it, and no prompt is sent.
Recv(n) ==
  /\ thread = "recv"
  /\ Take(n)
  /\ IF stream[1] \in Keys \/ (stream[1] = "blank" /\ n = 1)
       THEN UNCHANGED <<thread, rcv, jobVars>>
       ELSE RunLine
  /\ UNCHANGED <<clientVars, prompts, userVars, swallowed, strayed, left>>

RecvHangup ==
  /\ thread = "recv"
  /\ stream = <<>> /\ ClientGone
  /\ thread' = "closed"
  /\ UNCHANGED <<clientVars, stream, prompts, userVars, fateVars, rcv, left, jobVars>>

\* The job ends, or stops or lives on in part and is one of the others.
JobLeaves ==
  /\ fgjob
  /\ fgjob' = FALSE
  /\ others' \in {others, TRUE}
  /\ UNCHANGED <<clientVars, stream, prompts, userVars, fateVars, thread, rcv, left>>

OthersEnd ==
  /\ others
  /\ others' = FALSE
  /\ UNCHANGED <<clientVars, stream, prompts, userVars, fateVars, thread, rcv, left, fgjob>>

\* A faulty variant: a prompt is sent as soon as the job has left, too.
WaitEndsPrompting ==
  /\ \/ thread = "wait" /\ ~fgjob /\ thread' \in {"kill", "held"} /\ prompts' = TRUE
     \/ thread = "fgwait" /\ ~fgjob /\ thread' = "prompt" /\ prompts' = TRUE
     \/ /\ thread = "held" /\ rcv = "none" /\ left = 0 /\ thread' = "kill"
        /\ UNCHANGED prompts
  /\ UNCHANGED <<clientVars, stream, userVars, fateVars, rcv, left, jobVars>>

\* "held" is the wait for the daemon's own group after a freed job was read.
WaitEnds ==
  /\ \/ thread = "wait" /\ ~fgjob /\ thread' \in {"kill", "held"}
     \/ thread = "fgwait" /\ ~fgjob /\ thread' = "prompt"
     \/ thread = "held" /\ rcv = "none" /\ left = 0 /\ thread' = "kill"
  /\ UNCHANGED <<clientVars, stream, prompts, userVars, fateVars, rcv, left, jobVars>>

\* A faulty variant: the receiver is not killed.
KillForgotten ==
  /\ thread = "kill"
  /\ thread' = "prompt"
  /\ UNCHANGED <<clientVars, stream, prompts, userVars, fateVars, rcv, left, jobVars>>

\* A receiver that has not reset SIGINT yet survives.
KillReceiver ==
  /\ thread = "kill"
  /\ rcv = "new" => left < MaxLeft
  /\ left' = IF rcv = "new" THEN left + 1 ELSE left
  /\ rcv' = "none"
  /\ thread' = "prompt"
  /\ UNCHANGED <<clientVars, stream, prompts, userVars, fateVars, jobVars>>

send_prompt ==
  /\ thread = "prompt"
  /\ thread' = "recv"
  /\ prompts' = TRUE
  /\ UNCHANGED <<clientVars, stream, userVars, fateVars, rcv, left, jobVars>>

\* kill -9 of the daemon; its children live on.
DaemonKilled ==
  /\ thread \notin {"closed", "dead"}
  /\ thread' = "dead"
  /\ UNCHANGED <<clientVars, stream, prompts, userVars, fateVars, rcv, left, jobVars>>

-----------------------------------------------------------------------------
ThreadNext ==
  (\E n \in 1 .. MaxStream : Recv(n))
    \/ RecvHangup \/ WaitEnds \/ KillReceiver \/ send_prompt

ReceiverNext ==
  ReceiverReady \/ (\E n \in 1 .. MaxStream : ReceiverRecv(n)) \/ ReceiverHangup

LeftoverNext == \E n \in 1 .. MaxStream : LeftoverRecv(n)

ShowerNext == IgnoreKeys \/ ShowPrompt \/ ShowDisconnect

Next ==
  \/ InstallHandlers \/ EndClient \/ ShowerNext
  \/ (\E m \in {"line", "blank"} : TypeLine(m)) \/ (\E k \in Keys : Key(k)) \/ Eof
  \/ ThreadNext \/ ReceiverNext \/ LeftoverNext
  \/ JobLeaves \/ OthersEnd \/ DaemonKilled

Spec == Init /\ [][Next]_vars

\* The processes of both ends are scheduled; what is typed, when jobs end and
\* whether the daemon is killed is free.
FairSpec ==
  /\ Spec
  /\ WF_vars(InstallHandlers) /\ WF_vars(EndClient) /\ WF_vars(ShowerNext)
  /\ WF_vars(ThreadNext) /\ WF_vars(ReceiverNext)

-----------------------------------------------------------------------------
(* Properties.                                                             *)

TypeOK ==
  /\ reader \in ReaderStates /\ shower \in ShowerStates
  /\ disp \in [Keys -> {"default", "caught", "ignored"}]
  /\ stream \in Seq(Messages) /\ Len(stream) <= MaxStream
  /\ {prompts, fresh, patient, keyed, garbled, swallowed, strayed} \subseteq BOOLEAN
  /\ {fgjob, others} \subseteq BOOLEAN
  /\ thread \in ThreadStates
  /\ rcv \in {"none", "new", "loop"} /\ left \in 0 .. MaxLeft

\* A user who types each line at a fresh prompt, and presses no key, never has
\* a line merged with another message: the prompt is the only thing that keeps
\* messages apart, in a stream read by three kinds of process.
PatientLinesStayWhole == patient /\ ~keyed => ~garbled

\* The receiver of the command at work takes no line typed at a fresh prompt as
\* input of its job: it is killed, or never forked, before the prompt that
\* follows goes out.  One that the kill has not ended may take it, see below.
PatientLinesPassReceiver == patient => ~swallowed

\* "just so parent can kill when all children exit" (yash_cmd.c:211): no
\* receiver reads on after its command, so that a line typed at a fresh prompt
\* is a command.  The kill is lost if it comes before that signal() call.
PatientLinesAreCommands == patient => ~swallowed /\ ~strayed

\* At the end of the user's input both processes of the client end, unless a
\* key ends or stops the one that reads, and the daemon sees the connection end
\* and leaves it, unless it waits for a job.
EofEndsConnection ==
  reader = "close" ~>
    \/ reader \in {"stopped", "killed"}
    \/ /\ shower = "dead" /\ reader = "dead"
       /\ thread \in {"closed", "dead"} \/ (thread \in {"wait", "fgwait"} /\ fgjob)

\* Once the thread, the receivers and the jobs that hold the connection are
\* gone, the client stops waiting for output.
DisconnectEndsShower == ServerGone ~> shower = "dead"

\* "Change disposition of signal to send message to daemon" (yash.c:41): a key
\* pressed while the client reads a line becomes a message.
KeysAreSent ==
  [][\A k \in Keys : reader = "prompt" /\ ~ServerGone /\ Key(k)
       => stream' = Append(stream, k)]_vars
=============================================================================
