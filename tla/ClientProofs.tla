---------------------------- MODULE ClientProofs ----------------------------
(***************************************************************************)
(* Proofs about the client and its connection, for streams of any length   *)
(* and any number of receivers left behind.  One turn passes between the   *)
(* user and the daemon: a prompt seen, a line in the stream, a command at  *)
(* work, a prompt on its way.  While the user types one line at each       *)
(* prompt never two of them exist at once; that is the invariant, and it   *)
(* needs the fact that a thread which reads or prompts has no receiver.    *)
(***************************************************************************)
EXTENDS Client, SequenceTheorems, TLAPS

\* The stream holds no line, at most one, and no key.
NoText == \A i \in 1 .. Len(stream) : stream[i] \in Keys

OneText ==
  \A i, k \in 1 .. Len(stream) :
    stream[i] \notin Keys /\ stream[k] \notin Keys => i = k

NoKeys == \A i \in 1 .. Len(stream) : stream[i] \notin Keys

\* A command is at work, or its receiver is.
Busy == thread \in {"wait", "fgwait", "kill", "held", "prompt"} \/ rcv # "none"

ReceiverOnlyWithCommand ==
  thread \in {"recv", "closed", "prompt", "fgwait"} => rcv = "none"

OneTurn ==
  /\ fresh => ~prompts /\ NoText /\ ~Busy
  /\ prompts => NoText /\ ~Busy
  /\ Busy => NoText
  /\ OneText

IInv ==
  /\ TypeOK
  /\ ReceiverOnlyWithCommand
  /\ patient => OneTurn
  /\ ~keyed => NoKeys
  /\ PatientLinesStayWhole
  /\ PatientLinesPassReceiver

-----------------------------------------------------------------------------
(* The stream.                                                             *)

\* A message has one of the four forms, and a line is no key.
LEMMA MessageKinds ==
  /\ Keys \subseteq Messages /\ {"line", "blank"} \subseteq Messages
  /\ "line" \notin Keys /\ "blank" \notin Keys
BY DEF Keys, Messages

\* What is left after a recv is the end of what was there.
LEMMA TakeProperties ==
  ASSUME stream \in Seq(Messages), NEW n, Take(n)
  PROVE  /\ n \in Nat /\ 1 <= n /\ n <= Len(stream)
         /\ stream' \in Seq(Messages)
         /\ Len(stream') = Len(stream) - n
         /\ \A i \in 1 .. Len(stream') : stream'[i] = stream[i + n]
<1>1. Len(stream) \in Nat /\ n \in 1 .. Len(stream)
  BY LenProperties DEF Take
<1>2. PICK first \in Int : first = n + 1
  BY <1>1
<1>3. stream' = SubSeq(stream, first, Len(stream))
  BY <1>2 DEF Take
<1>4. \A i \in first .. Len(stream) : stream[i] \in Messages
  BY <1>1, <1>2, ElementOfSeq
<1>5. /\ stream' \in Seq(Messages)
      /\ Len(stream') = IF first <= Len(stream) THEN Len(stream) - first + 1 ELSE 0
      /\ \A i \in 1 .. Len(stream) - first + 1 : stream'[i] = stream[first + i - 1]
  BY <1>1, <1>3, <1>4, SubSeqProperties
<1>6. Len(stream') = Len(stream) - n
  BY <1>1, <1>2, <1>5
<1>7. ASSUME NEW i \in 1 .. Len(stream') PROVE stream'[i] = stream[i + n]
  <2>1. stream'[i] = stream[first + i - 1] /\ first + i - 1 = i + n
    BY <1>1, <1>2, <1>5, <1>6
  <2> QED BY <2>1
<1>8. n \in Nat /\ 1 <= n /\ n <= Len(stream)
  BY <1>1
<1>9. \A i \in 1 .. Len(stream') : stream'[i] = stream[i + n]
  BY <1>7
<1> QED BY <1>5, <1>6, <1>8, <1>9

\* A recv adds nothing to the stream, and one that takes the line leaves none.
LEMMA TakeKeeps ==
  ASSUME TypeOK, NEW n, Take(n)
  PROVE  /\ stream' \in Seq(Messages) /\ Len(stream') <= MaxStream
         /\ NoText => NoText'
         /\ OneText => OneText'
         /\ OneText /\ stream[1] \notin Keys => NoText'
         /\ NoKeys => NoKeys'
         /\ NoText => stream[1] \in Keys
         /\ OneText /\ NoKeys => n = 1
<1>1. /\ stream \in Seq(Messages) /\ Len(stream) \in Nat /\ Len(stream) <= MaxStream
      /\ MaxStream \in Nat
  BY ClientAssumption, LenProperties DEF TypeOK
<1>2. /\ n \in Nat /\ 1 <= n /\ n <= Len(stream)
      /\ stream' \in Seq(Messages)
      /\ Len(stream') = Len(stream) - n
      /\ \A i \in 1 .. Len(stream') : stream'[i] = stream[i + n]
  BY <1>1, TakeProperties
<1>3. \A i \in 1 .. Len(stream') : i + n \in 1 .. Len(stream) /\ i + n # 1
  BY <1>1, <1>2
<1>4. 1 \in 1 .. Len(stream)
  BY <1>1, <1>2
<1>5. NoText => NoText'
  BY <1>2, <1>3 DEF NoText
<1>6. OneText => OneText'
  <2>1. ASSUME OneText, NEW i \in 1 .. Len(stream'), NEW k \in 1 .. Len(stream'),
               stream'[i] \notin Keys, stream'[k] \notin Keys
        PROVE  i = k
    <3>1. i + n = k + n
      BY <1>2, <1>3, <2>1 DEF OneText
    <3> QED BY <1>2, <3>1
  <2> QED BY <2>1 DEF OneText
<1>7. OneText /\ stream[1] \notin Keys => NoText'
  BY <1>2, <1>3, <1>4 DEF OneText, NoText
<1>8. NoKeys => NoKeys'
  BY <1>2, <1>3 DEF NoKeys
<1>9. OneText /\ NoKeys => n = 1
  <2>1. n # 1 => 2 \in 1 .. Len(stream)
    BY <1>1, <1>2
  <2> QED BY <1>4, <2>1 DEF OneText, NoKeys
<1> QED BY <1>1, <1>2, <1>4, <1>5, <1>6, <1>7, <1>8, <1>9 DEF NoText

\* A message is added at the end, or lost.
LEMMA WriteKeeps ==
  ASSUME TypeOK, Len(stream) < MaxStream, NEW m \in Messages, write_socket(m)
  PROVE  /\ stream' \in Seq(Messages) /\ Len(stream') <= MaxStream
         /\ m \in Keys /\ NoText => NoText'
         /\ m \in Keys /\ OneText => OneText'
         /\ NoText => OneText'
         /\ m \notin Keys /\ NoKeys => NoKeys'
<1>1. /\ stream \in Seq(Messages) /\ Len(stream) \in Nat /\ Len(stream) <= MaxStream
      /\ MaxStream \in Nat
  BY ClientAssumption, LenProperties DEF TypeOK
<1>2. CASE stream' = stream
  BY <1>1, <1>2 DEF NoText, OneText, NoKeys
<1>3. CASE stream' = Append(stream, m)
  <2>1. /\ stream' \in Seq(Messages) /\ Len(stream') = Len(stream) + 1
        /\ \A i \in 1 .. Len(stream) : stream'[i] = stream[i]
        /\ stream'[Len(stream) + 1] = m
    BY <1>1, <1>3, AppendProperties
  <2>2. \A i \in 1 .. Len(stream') :
          \/ i \in 1 .. Len(stream) /\ stream'[i] = stream[i]
          \/ i = Len(stream') /\ stream'[i] = m
    BY <1>1, <2>1
  <2>3. Len(stream') <= MaxStream
    BY <1>1, <2>1
  <2> QED BY <2>1, <2>2, <2>3 DEF NoText, OneText, NoKeys
<1> QED BY <1>2, <1>3 DEF write_socket

-----------------------------------------------------------------------------
(* The steps.                                                              *)

\* The steps that leave the stream and the daemon's thread alone.
Quiet ==
  InstallHandlers \/ EndClient \/ IgnoreKeys \/ ShowDisconnect \/ Eof
    \/ JobLeaves \/ OthersEnd

\* The steps of the thread and the receivers that read nothing.
Working ==
  RecvHangup \/ WaitEnds \/ KillReceiver \/ DaemonKilled
    \/ ReceiverReady \/ ReceiverHangup

Reading(n) == Recv(n) \/ ReceiverRecv(n) \/ LeftoverRecv(n)

Writing ==
  (\E m \in {"line", "blank"} : TypeLine(m)) \/ (\E k \in Keys : Key(k))

\* Those, and the two ends of a prompt's way, are all the steps there are.
LEMMA StepKinds ==
  Next => \/ Quiet \/ Working \/ ShowPrompt \/ send_prompt \/ Writing
          \/ \E n \in 1 .. MaxStream : Reading(n)
BY DEF Next, ShowerNext, ThreadNext, ReceiverNext, LeftoverNext, Quiet, Working,
       Reading, Writing

\* Nothing has been typed or read at the start; the thread is about to prompt.
LEMMA InitIInv == Init => IInv
<1> SUFFICES ASSUME Init PROVE IInv
  OBVIOUS
<1>1. Len(stream) = 0 /\ stream \in Seq(Messages)
  BY EmptySeq DEF Init
<1>2. TypeOK
  <2>1. Len(stream) <= MaxStream /\ left \in 0 .. MaxLeft
    BY <1>1, ClientAssumption DEF Init
  <2>2. disp \in [Keys -> {"default", "caught", "ignored"}]
    BY DEF Init
  <2> QED BY <1>1, <2>1, <2>2
          DEF Init, TypeOK, ReaderStates, ShowerStates, ThreadStates
<1>3. NoText /\ OneText /\ NoKeys
  BY <1>1 DEF NoText, OneText, NoKeys
<1> QED BY <1>2, <1>3
        DEF Init, IInv, ReceiverOnlyWithCommand, OneTurn, Busy,
            PatientLinesStayWhole, PatientLinesPassReceiver

\* Every step keeps the types and the bounds.
LEMMA NextKeepsType == TypeOK /\ Next => TypeOK'
<1> SUFFICES ASSUME TypeOK, Next PROVE TypeOK'
  OBVIOUS
<1> USE DEF clientVars, userVars, fateVars, jobVars, daemonVars
<1>1. CASE Quiet
  BY <1>1 DEF TypeOK, Quiet, InstallHandlers, EndClient, IgnoreKeys,
              ShowDisconnect, Eof, JobLeaves, OthersEnd, ReaderStates,
              ShowerStates
<1>2. CASE Working
  BY <1>2, ClientAssumption
     DEF TypeOK, Working, RecvHangup, WaitEnds, KillReceiver, DaemonKilled,
         ReceiverReady, ReceiverHangup, ThreadStates
<1>3. CASE ShowPrompt \/ send_prompt
  BY <1>3 DEF TypeOK, ShowPrompt, send_prompt, ThreadStates
<1>4. ASSUME NEW m \in {"line", "blank"}, TypeLine(m) PROVE TypeOK'
  <2>1. stream' \in Seq(Messages) /\ Len(stream') <= MaxStream
    BY <1>4, MessageKinds, WriteKeeps DEF TypeLine
  <2> QED BY <1>4, <2>1 DEF TypeOK, TypeLine, ReaderStates
<1>5. ASSUME NEW k \in Keys, Key(k) PROVE TypeOK'
  <2>1. stream' \in Seq(Messages) /\ Len(stream') <= MaxStream
    BY <1>5, MessageKinds, WriteKeeps DEF Key, TypeOK
  <2> QED BY <1>5, <2>1 DEF TypeOK, Key, ReaderStates, ShowerStates
<1>6. ASSUME NEW n \in 1 .. MaxStream, Reading(n) PROVE TypeOK'
  <2>1. Take(n)
    BY <1>6 DEF Reading, Recv, ReceiverRecv, LeftoverRecv
  <2>2. stream' \in Seq(Messages) /\ Len(stream') <= MaxStream
    BY <2>1, TakeKeeps
  <2>3. garbled' \in BOOLEAN
    BY <2>1 DEF Take, TypeOK
  <2> QED BY <1>6, <2>2, <2>3
          DEF TypeOK, Reading, Recv, ReceiverRecv, LeftoverRecv, RunLine,
              HitForeground, HitOthers, ThreadStates
<1> QED BY <1>1, <1>2, <1>3, <1>4, <1>5, <1>6, StepKinds DEF Writing

\* The thread forks a receiver when it starts a command and kills it before it
\* prompts; "fg" starts none.
LEMMA NextKeepsReceiver ==
  ReceiverOnlyWithCommand /\ Next => ReceiverOnlyWithCommand'
<1> SUFFICES ASSUME ReceiverOnlyWithCommand, Next PROVE ReceiverOnlyWithCommand'
  OBVIOUS
<1> USE DEF ReceiverOnlyWithCommand, clientVars, userVars, fateVars, jobVars,
            daemonVars
<1>1. CASE Quiet
  BY <1>1 DEF Quiet, InstallHandlers, EndClient, IgnoreKeys, ShowDisconnect, Eof,
              JobLeaves, OthersEnd
<1>2. CASE Working
  BY <1>2 DEF Working, RecvHangup, WaitEnds, KillReceiver, DaemonKilled,
              ReceiverReady, ReceiverHangup
<1>3. CASE ShowPrompt \/ send_prompt
  BY <1>3 DEF ShowPrompt, send_prompt
<1>4. CASE Writing
  BY <1>4 DEF Writing, TypeLine, Key
<1>5. ASSUME NEW n \in 1 .. MaxStream, Reading(n)
      PROVE  ReceiverOnlyWithCommand'
  BY <1>5 DEF Reading, Recv, ReceiverRecv, LeftoverRecv, RunLine
<1> QED BY <1>1, <1>2, <1>3, <1>4, <1>5, StepKinds

\* The turn passes on and is never doubled: from the prompt seen to the line,
\* from the line to the command, from the command to the next prompt.
LEMMA NextKeepsTurn ==
  TypeOK /\ ReceiverOnlyWithCommand /\ (patient => OneTurn) /\ Next
    => (patient' => OneTurn')
<1> SUFFICES ASSUME TypeOK, ReceiverOnlyWithCommand, patient => OneTurn, Next,
                    patient'
             PROVE  OneTurn'
  OBVIOUS
<1> USE DEF clientVars, userVars, fateVars, jobVars, daemonVars
<1>1. ASSUME UNCHANGED <<stream, patient, fresh, prompts>>, Busy' => Busy
      PROVE  OneTurn'
  BY <1>1 DEF OneTurn, NoText, OneText
<1>2. CASE Quiet
  BY <1>1, <1>2 DEF Quiet, InstallHandlers, EndClient, IgnoreKeys,
                    ShowDisconnect, Eof, JobLeaves, OthersEnd, Busy
<1>3. CASE Working
  BY <1>1, <1>3 DEF Working, RecvHangup, WaitEnds, KillReceiver, DaemonKilled,
                    ReceiverReady, ReceiverHangup, Busy
<1>4. CASE ShowPrompt
  BY <1>4 DEF ShowPrompt, OneTurn, NoText, OneText, Busy
<1>5. CASE send_prompt
  BY <1>5 DEF send_prompt, ReceiverOnlyWithCommand, OneTurn, NoText, OneText, Busy
<1>6. ASSUME NEW m \in {"line", "blank"}, TypeLine(m) PROVE OneTurn'
  <2>1. /\ patient /\ fresh /\ ~fresh' /\ UNCHANGED <<prompts, thread, rcv>>
        /\ write_socket(m) /\ Len(stream) < MaxStream
    BY <1>6 DEF TypeLine, TypeOK
  <2>2. NoText /\ ~prompts /\ ~Busy
    BY <2>1 DEF OneTurn
  <2>3. OneText'
    BY <2>1, <2>2, MessageKinds, WriteKeeps
  <2> QED BY <2>1, <2>2, <2>3 DEF OneTurn, Busy
<1>7. ASSUME NEW k \in Keys, Key(k) PROVE OneTurn'
  <2>1. UNCHANGED <<patient, fresh, prompts, thread, rcv>>
    BY <1>7 DEF Key
  <2>2. (NoText => NoText') /\ (OneText => OneText')
    <3>1. CASE UNCHANGED stream
      BY <3>1 DEF NoText, OneText
    <3>2. CASE write_socket(k) /\ Len(stream) < MaxStream
      BY <3>2, MessageKinds, WriteKeeps
    <3> QED BY <1>7, <3>1, <3>2 DEF Key
  <2> QED BY <2>1, <2>2 DEF OneTurn, Busy
<1>8. ASSUME NEW n \in 1 .. MaxStream, Reading(n) PROVE OneTurn'
  <2>1. /\ UNCHANGED <<patient, fresh, prompts>> /\ Take(n)
    BY <1>8 DEF Reading, Recv, ReceiverRecv, LeftoverRecv
  <2>2. OneTurn /\ (NoText => NoText') /\ OneText'
    BY <2>1, TakeKeeps DEF OneTurn
  <2>3. ASSUME UNCHANGED <<thread, rcv>> PROVE OneTurn'
    BY <2>1, <2>2, <2>3 DEF OneTurn, Busy
  <2>4. CASE Recv(n)
    <3>1. CASE stream[1] \in Keys
      BY <2>3, <2>4, <3>1 DEF Recv
    <3>2. CASE stream[1] \notin Keys
      <4>1. NoText' /\ ~NoText
        BY <2>1, <2>2, <3>2, TakeKeeps DEF OneTurn
      <4> QED BY <2>1, <2>2, <4>1 DEF OneTurn
    <3> QED BY <3>1, <3>2
  <2>5. CASE ReceiverRecv(n) \/ LeftoverRecv(n)
    BY <2>3, <2>5 DEF ReceiverRecv, LeftoverRecv
  <2> QED BY <1>8, <2>4, <2>5 DEF Reading
<1> QED BY <1>2, <1>3, <1>4, <1>5, <1>6, <1>7, <1>8, StepKinds DEF Writing

\* As long as no key was pressed the stream carries none.
LEMMA NextKeepsNoKeys ==
  TypeOK /\ (~keyed => NoKeys) /\ Next => (~keyed' => NoKeys')
<1> SUFFICES ASSUME TypeOK, ~keyed => NoKeys, Next, ~keyed' PROVE NoKeys'
  OBVIOUS
<1> USE DEF clientVars, userVars, fateVars, jobVars, daemonVars
<1>1. CASE UNCHANGED <<stream, keyed>>
  BY <1>1 DEF NoKeys
<1>2. CASE Quiet
  BY <1>1, <1>2 DEF Quiet, InstallHandlers, EndClient, IgnoreKeys,
                    ShowDisconnect, Eof, JobLeaves, OthersEnd
<1>3. CASE Working
  BY <1>1, <1>3 DEF Working, RecvHangup, WaitEnds, KillReceiver, DaemonKilled,
                    ReceiverReady, ReceiverHangup
<1>4. CASE ShowPrompt \/ send_prompt
  BY <1>1, <1>4 DEF ShowPrompt, send_prompt
<1>5. ASSUME NEW m \in {"line", "blank"}, TypeLine(m) PROVE NoKeys'
  BY <1>5, MessageKinds, WriteKeeps DEF TypeLine
<1>6. ASSUME NEW k \in Keys, Key(k) PROVE NoKeys'
  BY <1>6 DEF Key
<1>7. ASSUME NEW n \in 1 .. MaxStream, Reading(n) PROVE NoKeys'
  <2>1. Take(n) /\ UNCHANGED keyed
    BY <1>7 DEF Reading, Recv, ReceiverRecv, LeftoverRecv
  <2> QED BY <2>1, TakeKeeps
<1> QED BY <1>2, <1>3, <1>4, <1>5, <1>6, <1>7, StepKinds DEF Writing

\* A line alone in the stream is received alone; the receiver of a command finds
\* no line, because its command holds the turn.
LEMMA NextKeepsFates == IInv /\ Next => PatientLinesStayWhole' /\ PatientLinesPassReceiver'
<1> SUFFICES ASSUME IInv, Next
             PROVE  PatientLinesStayWhole' /\ PatientLinesPassReceiver'
  OBVIOUS
<1> USE DEF clientVars, userVars, fateVars, jobVars, daemonVars,
            PatientLinesStayWhole, PatientLinesPassReceiver
<1>0. /\ TypeOK
      /\ patient => OneTurn
      /\ ~keyed => NoKeys
      /\ patient /\ ~keyed => ~garbled
      /\ patient => ~swallowed
  BY DEF IInv
<1>1. CASE UNCHANGED fateVars /\ (patient' => patient) /\ (~keyed' => ~keyed)
  BY <1>0, <1>1
<1>2. CASE Quiet
  BY <1>1, <1>2 DEF Quiet, InstallHandlers, EndClient, IgnoreKeys,
                    ShowDisconnect, Eof, JobLeaves, OthersEnd
<1>3. CASE Working
  BY <1>1, <1>3 DEF Working, RecvHangup, WaitEnds, KillReceiver, DaemonKilled,
                    ReceiverReady, ReceiverHangup
<1>4. CASE ShowPrompt \/ send_prompt
  BY <1>1, <1>4 DEF ShowPrompt, send_prompt
<1>5. CASE Writing
  BY <1>0, <1>1, <1>5 DEF Writing, TypeLine, Key, TypeOK
<1>6. ASSUME NEW n \in 1 .. MaxStream, Reading(n)
      PROVE  PatientLinesStayWhole' /\ PatientLinesPassReceiver'
  <2>1. Take(n) /\ UNCHANGED <<patient, keyed>>
    BY <1>6 DEF Reading, Recv, ReceiverRecv, LeftoverRecv
  <2>2. patient /\ ~keyed => ~garbled'
    <3>1. patient /\ ~keyed => OneText /\ NoKeys
      BY <1>0 DEF OneTurn
    <3>2. patient /\ ~keyed => n = 1
      BY <1>0, <2>1, <3>1, TakeKeeps
    <3>3. n = 1 => garbled' = garbled
      <4>1. garbled \in BOOLEAN
        BY <1>0 DEF TypeOK
      <4> QED BY <2>1, <4>1 DEF Take
    <3> QED BY <1>0, <3>2, <3>3
  <2>3. patient => ~swallowed'
    <3>1. CASE Recv(n) \/ LeftoverRecv(n)
      BY <1>0, <3>1 DEF Recv, LeftoverRecv
    <3>2. CASE ReceiverRecv(n)
      <4>1. patient => stream[1] \in Keys
        <5>1. patient => NoText
          BY <1>0, <3>2 DEF ReceiverRecv, OneTurn, Busy
        <5> QED BY <1>0, <2>1, <5>1, TakeKeeps
      <4> QED BY <1>0, <3>2, <4>1 DEF ReceiverRecv
    <3> QED BY <1>6, <3>1, <3>2 DEF Reading
  <2> QED BY <2>1, <2>2, <2>3
<1> QED BY <1>2, <1>3, <1>4, <1>5, <1>6, StepKinds

\* The parts of the invariant carry each other over every step.
LEMMA NextKeepsIInv == IInv /\ [Next]_vars => IInv'
<1> SUFFICES ASSUME IInv, [Next]_vars PROVE IInv'
  OBVIOUS
<1>1. CASE Next
  BY <1>1, NextKeepsType, NextKeepsReceiver, NextKeepsTurn, NextKeepsNoKeys,
     NextKeepsFates DEF IInv
<1>2. CASE UNCHANGED vars
  BY <1>2 DEF vars, clientVars, userVars, fateVars, jobVars, daemonVars, IInv,
              TypeOK, ReceiverOnlyWithCommand, OneTurn, NoText, OneText, NoKeys,
              Busy, PatientLinesStayWhole, PatientLinesPassReceiver
<1> QED BY <1>1, <1>2

\* The invariant holds in every reachable state.
LEMMA AlwaysIInv == Spec => []IInv
BY InitIInv, NextKeepsIInv, PTL DEF Spec

-----------------------------------------------------------------------------
\* The client, the stream and the connection keep their types; the stream its
\* bound.
THEOREM TypeCorrect == Spec => []TypeOK
<1>1. IInv => TypeOK
  BY DEF IInv
<1> QED BY <1>1, AlwaysIInv, PTL

\* The prompt keeps the messages of a patient user apart, in a stream that
\* keeps no boundaries and has three kinds of reader.
THEOREM PatientLinesWhole == Spec => []PatientLinesStayWhole
<1>1. IInv => PatientLinesStayWhole
  BY DEF IInv
<1> QED BY <1>1, AlwaysIInv, PTL

\* The receiver of the command at work never gives such a line to its job as
\* input.
THEOREM PatientLinesPass == Spec => []PatientLinesPassReceiver
<1>1. IInv => PatientLinesPassReceiver
  BY DEF IInv
<1> QED BY <1>1, AlwaysIInv, PTL
=============================================================================
