------------------------- MODULE DaemonStartProofs -------------------------
(***************************************************************************)
(* Proofs about the start of the daemon, for any set of instances and any  *)
(* pids.  The lock decides who is past it, so the invariant says more than *)
(* OneDaemon: the holder is past the lock, and who is past it holds it.    *)
(* That the file stays open and its first digits intact rests on the       *)
(* numbers that each step of create_daemon opens and closes.               *)
(***************************************************************************)
EXTENDS DaemonStart, SequenceTheorems, TLAPS

PastLock == {"log", "write", "bind", "serving"}

\* The lock is held by the one instance that has passed it and not ended.
LockByPc == \A d \in Instances : pc[d] \in PastLock <=> locked = d

\* What the steps of create_daemon leave at the low numbers: one of 0 and 1 is
\* closed when yashd.pid is opened, and becomes it; 2 is closed until the log
\* is opened and takes it.
FilesByPc ==
  \A d \in Instances :
    /\ pc[d] = "open" =>
         fds[d][STDERR] = "closed" /\ \E k \in {0, 1} : fds[d][k] = "closed"
    /\ pc[d] \in {"lock", "log"} => fds[d][STDERR] = "closed"
    /\ pc[d] \in {"lock"} \cup PastLock =>
         \E k \in {0, 1} : fds[d][k] = "yashd.pid"

BeginsWith(content, bytes) ==
  /\ Len(content) >= Len(bytes)
  /\ \A n \in 1 .. Len(bytes) : content[n] = bytes[n]

\* Once its pid is written an instance writes behind it and inside the file.
PidWritten ==
  \A d \in Instances : pc[d] \in {"bind", "serving"} =>
    /\ BeginsWith(yashd_pid, Pid(d))
    /\ offset[d] >= Len(Pid(d)) /\ offset[d] <= Len(yashd_pid)

IInv == TypeOK /\ LockByPc /\ FilesByPc /\ PidWritten /\ ServesAlone

-----------------------------------------------------------------------------
(* The operators.                                                          *)

\* An open finds the lowest of the closed numbers when there is one.
LEMMA LowestFreeIsClosed ==
  ASSUME NEW table, \E k \in Descriptors : table[k] = "closed"
  PROVE  /\ LowestFree(table) \in Descriptors
         /\ table[LowestFree(table)] = "closed"
         /\ \A n \in Descriptors : table[n] = "closed" => LowestFree(table) <= n
<1>1. Descriptors = {0, 1, 2, 3}
  BY DEF Descriptors
<1>2. \E k \in Descriptors :
        /\ table[k] = "closed"
        /\ \A n \in Descriptors : table[n] = "closed" => k <= n
  <2>1. CASE table[0] = "closed"
    BY <1>1, <2>1
  <2>2. CASE table[0] # "closed" /\ table[1] = "closed"
    BY <1>1, <2>2
  <2>3. CASE table[0] # "closed" /\ table[1] # "closed" /\ table[2] = "closed"
    BY <1>1, <2>3
  <2>4. CASE /\ table[0] # "closed" /\ table[1] # "closed"
             /\ table[2] # "closed" /\ table[3] = "closed"
    BY <1>1, <2>4
  <2> QED BY <1>1, <2>1, <2>2, <2>3, <2>4
<1> DEFINE Lowest(k) == /\ table[k] = "closed"
                        /\ \A n \in Descriptors : table[n] = "closed" => k <= n
<1>3. LowestFree(table) = CHOOSE k \in Descriptors : Lowest(k)
  BY DEF LowestFree
<1>4. \E k \in Descriptors : Lowest(k)
  BY <1>2
<1> HIDE DEF Lowest
<1>5. LowestFree(table) \in Descriptors /\ Lowest(LowestFree(table))
  BY <1>3, <1>4
<1> QED BY <1>5 DEF Lowest

\* Bytes written inside a file keep it a file, as long at least as it was and
\* as their end, and keep what lies before their position.
LEMMA OverwriteProperties ==
  ASSUME NEW S, NEW content \in Seq(S), NEW bytes \in Seq(S),
         NEW position \in 0 .. Len(content)
  PROVE  LET result == Overwrite(content, position, bytes)
         IN /\ result \in Seq(S)
            /\ Len(result) >= Len(content)
            /\ Len(result) >= position + Len(bytes)
            /\ \A n \in 1 .. position : result[n] = content[n]
            /\ \A n \in 1 .. Len(bytes) : result[position + n] = bytes[n]
<1> DEFINE before == SubSeq(content, 1, position)
           after == SubSeq(content, position + Len(bytes) + 1, Len(content))
<1>1. /\ Len(content) \in Nat /\ Len(bytes) \in Nat
      /\ \A i \in 1 .. Len(content) : content[i] \in S
      /\ \A i \in 1 .. Len(bytes) : bytes[i] \in S
  BY LenProperties, ElementOfSeq
<1>2. /\ before \in Seq(S) /\ Len(before) = position
      /\ \A n \in 1 .. position : before[n] = content[n]
  <2>1. \A i \in 1 .. position : content[i] \in S
    BY <1>1
  <2> QED BY <1>1, <2>1, SubSeqProperties
<1>3. /\ after \in Seq(S) /\ Len(after) \in Nat
      /\ position + Len(bytes) + Len(after) >= Len(content)
  <2> DEFINE first == position + Len(bytes) + 1
  <2>1. first \in Int /\ \A i \in first .. Len(content) : content[i] \in S
    BY <1>1
  <2> HIDE DEF first
  <2>2. /\ SubSeq(content, first, Len(content)) \in Seq(S)
        /\ Len(SubSeq(content, first, Len(content)))
             = IF first <= Len(content) THEN Len(content) - first + 1 ELSE 0
    BY <1>1, <2>1, SubSeqProperties
  <2>3. after = SubSeq(content, first, Len(content))
    BY DEF first
  <2>4. /\ after \in Seq(S)
        /\ Len(after) = IF first <= Len(content) THEN Len(content) - first + 1
                                                ELSE 0
    BY <2>2, <2>3
  <2>5. first = position + Len(bytes) + 1
    BY DEF first
  <2>6. position \in Nat /\ Len(content) \in Nat /\ Len(bytes) \in Nat
    BY <1>1
  <2> DEFINE length == Len(after)
             end == Len(content)
             size == Len(bytes)
  <2>7. /\ length = IF first <= end THEN end - first + 1 ELSE 0
        /\ first = position + size + 1
        /\ position \in Nat /\ end \in Nat /\ size \in Nat
    BY <2>4, <2>5, <2>6
  <2> HIDE DEF length, end, size
  <2>8. length \in Nat /\ position + size + length >= end
    BY <2>7
  <2> QED BY <2>4, <2>8 DEF length, end, size
<1> HIDE DEF before, after
<1>4. /\ before \o bytes \in Seq(S)
      /\ Len(before \o bytes) = position + Len(bytes)
      /\ \A n \in 1 .. position : (before \o bytes)[n] = content[n]
      /\ \A n \in 1 .. Len(bytes) : (before \o bytes)[position + n] = bytes[n]
  <2>1. /\ before \o bytes \in Seq(S)
        /\ Len(before \o bytes) = Len(before) + Len(bytes)
        /\ \A i \in 1 .. Len(before) + Len(bytes) : (before \o bytes)[i] =
             IF i <= Len(before) THEN before[i] ELSE bytes[i - Len(before)]
    BY <1>2, ConcatProperties
  <2> DEFINE both == before \o bytes
  <2> HIDE DEF both
  <2>2. /\ both \in Seq(S) /\ Len(both) = position + Len(bytes)
        /\ \A n \in 1 .. position : both[n] = content[n]
        /\ \A n \in 1 .. Len(bytes) : both[position + n] = bytes[n]
    BY <1>1, <1>2, <2>1 DEF both
  <2> QED BY <2>2 DEF both
<1> DEFINE head == before \o bytes
<1> HIDE DEF head
<1>5. /\ head \o after \in Seq(S)
      /\ Len(head \o after) = position + Len(bytes) + Len(after)
      /\ \A n \in 1 .. position + Len(bytes) : (head \o after)[n] = head[n]
  <2>1. head \in Seq(S) /\ Len(head) = position + Len(bytes)
    BY <1>4 DEF head
  <2>2. /\ head \o after \in Seq(S)
        /\ Len(head \o after) = Len(head) + Len(after)
        /\ \A i \in 1 .. Len(head) + Len(after) : (head \o after)[i] =
             IF i <= Len(head) THEN head[i] ELSE after[i - Len(head)]
    BY <1>3, <2>1, ConcatProperties
  <2> DEFINE both == head \o after
  <2> HIDE DEF both
  <2>3. /\ both \in Seq(S) /\ Len(both) = position + Len(bytes) + Len(after)
        /\ \A n \in 1 .. position + Len(bytes) : both[n] = head[n]
    BY <1>1, <1>3, <2>1, <2>2 DEF both
  <2> QED BY <2>3 DEF both
<1>6. Overwrite(content, position, bytes) = head \o after
  BY DEF Overwrite, head, before, after
<1> QED BY <1>1, <1>3, <1>4, <1>5, <1>6 DEF head

\* A file that begins with the digits is what PidFileBeginsWithPid says of it.
LEMMA BeginsWithPrefix ==
  ASSUME NEW S, NEW content \in Seq(S), NEW bytes \in Seq(S),
         BeginsWith(content, bytes)
  PROVE  SubSeq(content, 1, Len(bytes)) = bytes
<1>1. /\ Len(content) \in Nat /\ Len(bytes) \in Nat
      /\ \A i \in 1 .. Len(content) : content[i] \in S
  BY LenProperties, ElementOfSeq
<1>2. \A i \in 1 .. Len(bytes) : content[i] \in S
  BY <1>1 DEF BeginsWith
<1>3. /\ SubSeq(content, 1, Len(bytes)) \in Seq(S)
      /\ Len(SubSeq(content, 1, Len(bytes))) = Len(bytes)
      /\ \A i \in 1 .. Len(bytes) :
           SubSeq(content, 1, Len(bytes))[i] = content[i]
  BY <1>1, <1>2, SubSeqProperties
<1> QED BY <1>3, SeqEqual DEF BeginsWith

-----------------------------------------------------------------------------
(* The invariant.                                                          *)

\* Before any instance is started nothing is open, locked or written.
LEMMA InitIInv == Init => IInv
<1> SUFFICES ASSUME Init PROVE IInv
  OBVIOUS
<1>1. AllClosed \in [Descriptors -> Files]
  BY DEF AllClosed, Files
<1>2. TypeOK
  BY <1>1, EmptySeq DEF Init, TypeOK
<1>3. LockByPc
  BY InstanceAssumption DEF Init, LockByPc, PastLock
<1>4. FilesByPc /\ PidWritten /\ ServesAlone
  BY DEF Init, FilesByPc, PidWritten, ServesAlone, PastLock
<1> QED BY <1>2, <1>3, <1>4 DEF IInv

\* A pid, like a line about a job, is made of digits and other marks.
LEMMA Bytes ==
  /\ \A d \in Instances : Pid(d) \in Seq(0 .. JobText)
  /\ <<JobText>> \in Seq(0 .. JobText) /\ Len(<<JobText>>) = 1
<1>1. JobText \in 0 .. JobText /\ 0 .. 9 \subseteq 0 .. JobText
  BY DEF JobText
<1> QED BY <1>1, InstanceAssumption, SeqMonotonic

\* Past the lock nobody passes an instance that is there: lockf fails for all
\* but the holder, and a holder that ends loses the lock with its process.
LEMMA NextKeepsLock == TypeOK /\ LockByPc /\ Next => LockByPc'
<1> SUFFICES ASSUME TypeOK, LockByPc, NEW d \in Instances,
                    \/ Start(d) \/ ResetFiles(d) \/ OpenPidFile(d) \/ Lock(d)
                    \/ OpenLog(d) \/ WritePid(d) \/ Bind(d) \/ StartJob(d)
                    \/ JobsEnd(d) \/ PrintJob(d) \/ Kill(d)
             PROVE  LockByPc'
  BY DEF Next
<1> USE DEF TypeOK, LockByPc, PastLock
<1>1. CASE Start(d) \/ ResetFiles(d) \/ OpenPidFile(d)
  BY <1>1 DEF Start, ResetFiles, OpenPidFile
<1>2. CASE OpenLog(d) \/ WritePid(d)
  BY <1>2 DEF OpenLog, WritePid
<1>3. CASE StartJob(d) \/ JobsEnd(d) \/ PrintJob(d)
  BY <1>3 DEF StartJob, JobsEnd, PrintJob
<1>4. CASE Terminate(d)
  BY <1>4, InstanceAssumption DEF Terminate
<1>5. CASE Lock(d)
  BY <1>4, <1>5, InstanceAssumption DEF Lock
<1>6. CASE Bind(d)
  BY <1>4, <1>6 DEF Bind
<1>7. CASE Kill(d)
  BY <1>4, <1>7 DEF Kill
<1> QED BY <1>1, <1>2, <1>3, <1>5, <1>6, <1>7

\* The file is opened as 0 or 1, whichever the reset left closed, and what is
\* opened afterwards takes 2 and the numbers above.
LEMMA NextKeepsFiles == TypeOK /\ FilesByPc /\ Next => FilesByPc'
<1> SUFFICES ASSUME TypeOK, FilesByPc, NEW d \in Instances,
                    \/ Start(d) \/ ResetFiles(d) \/ OpenPidFile(d) \/ Lock(d)
                    \/ OpenLog(d) \/ WritePid(d) \/ Bind(d) \/ StartJob(d)
                    \/ JobsEnd(d) \/ PrintJob(d) \/ Kill(d)
             PROVE  FilesByPc'
  BY DEF Next
<1> USE DEF TypeOK, FilesByPc, PastLock
<1> STDERR = 2 /\ STDIN = 0 /\ STDOUT = 1 /\ Descriptors = {0, 1, 2, 3}
  BY DEF STDERR, STDIN, STDOUT, Descriptors
<1>1. CASE Start(d)
  BY <1>1 DEF Start
<1>2. CASE ResetFiles(d)
  <2> DEFINE kept == [k \in Descriptors |-> IF k > 0 THEN "closed" ELSE fds[d][k]]
             fd == LowestFree(kept)
             opened == Dup2(Dup2(Open(kept, "null"), fd, STDIN), fd, STDOUT)
  <2>1. kept[1] = "closed" /\ kept[2] = "closed"
    OBVIOUS
  <2>2. fd \in {0, 1}
    BY <2>1, LowestFreeIsClosed
  <2>3. /\ pc' = [pc EXCEPT ![d] = "open"]
        /\ fds' = [fds EXCEPT ![d] = Shut(opened, fd)]
    BY <1>2 DEF ResetFiles
  <2>4. Shut(opened, fd)[fd] = "closed" /\ Shut(opened, fd)[2] = "closed"
    <3> HIDE DEF fd
    <3> QED BY <2>1, <2>2 DEF Shut, Dup2, Open, fd
  <2> HIDE DEF fd, opened
  <2> QED BY <2>2, <2>3, <2>4
<1>3. CASE OpenPidFile(d)
  <2>1. PICK k \in {0, 1} : fds[d][k] = "closed"
    BY <1>3 DEF OpenPidFile
  <2>2. LowestFree(fds[d]) \in Descriptors /\ LowestFree(fds[d]) <= k
    BY <2>1, LowestFreeIsClosed
  <2>3. LowestFree(fds[d]) \in {0, 1}
    BY <2>2
  <2> QED BY <1>3, <2>3 DEF OpenPidFile, Open
<1>4. CASE Terminate(d)
  BY <1>4 DEF Terminate
<1>5. CASE Lock(d)
  BY <1>4, <1>5 DEF Lock
<1>6. CASE OpenLog(d)
  <2>1. /\ LowestFree(fds[d]) \in Descriptors
        /\ fds[d][LowestFree(fds[d])] = "closed"
    BY <1>6, LowestFreeIsClosed DEF OpenLog
  <2> QED BY <1>6, <2>1 DEF OpenLog, Open, Dup2
<1>7. CASE WritePid(d) \/ StartJob(d) \/ JobsEnd(d) \/ PrintJob(d)
  BY <1>7 DEF WritePid, StartJob, JobsEnd, PrintJob
<1>8. CASE Bind(d)
  BY <1>4, <1>8 DEF Bind
<1>9. CASE Kill(d)
  BY <1>4, <1>9 DEF Kill
<1> QED BY <1>1, <1>2, <1>3, <1>5, <1>6, <1>7, <1>8, <1>9

\* The lines a daemon prints go behind its pid and those of others do not go
\* to the file at all: nobody else is past the lock.
LEMMA NextKeepsPid == TypeOK /\ LockByPc /\ PidWritten /\ Next => PidWritten'
<1> SUFFICES ASSUME TypeOK, LockByPc, PidWritten, NEW d \in Instances,
                    \/ Start(d) \/ ResetFiles(d) \/ OpenPidFile(d) \/ Lock(d)
                    \/ OpenLog(d) \/ WritePid(d) \/ Bind(d) \/ StartJob(d)
                    \/ JobsEnd(d) \/ PrintJob(d) \/ Kill(d)
             PROVE  PidWritten'
  BY DEF Next
<1> USE DEF TypeOK, PidWritten
<1>1. ASSUME UNCHANGED <<yashd_pid, offset>>,
             \A e \in Instances : pc'[e] \in {"bind", "serving"} =>
                                   pc[e] \in {"bind", "serving"}
      PROVE  PidWritten'
  BY <1>1
<1>2. CASE Start(d) \/ ResetFiles(d) \/ OpenPidFile(d) \/ OpenLog(d)
  BY <1>1, <1>2 DEF Start, ResetFiles, OpenPidFile, OpenLog
<1>3. CASE StartJob(d) \/ JobsEnd(d)
  BY <1>1, <1>3 DEF StartJob, JobsEnd
<1>4. CASE Lock(d) \/ Bind(d) \/ Kill(d)
  BY <1>1, <1>4 DEF Lock, Bind, Kill, Terminate
<1>5. ASSUME pc[d] \in PastLock, NEW e \in Instances \ {d}
      PROVE  pc[e] \notin PastLock
  BY <1>5 DEF LockByPc
<1>6. CASE WritePid(d)
  <2>1. /\ Len(yashd_pid') >= Len(Pid(d)) /\ yashd_pid' \in Seq(0 .. JobText)
        /\ \A n \in 1 .. Len(Pid(d)) : yashd_pid'[n] = Pid(d)[n]
    <3>1. /\ Len(yashd_pid) \in Nat /\ 0 \in 0 .. Len(yashd_pid)
          /\ Len(Pid(d)) \in Nat
      BY Bytes, LenProperties
    <3> DEFINE result == Overwrite(yashd_pid, 0, Pid(d))
    <3>2. /\ result \in Seq(0 .. JobText)
          /\ Len(result) >= 0 + Len(Pid(d))
          /\ \A n \in 1 .. Len(Pid(d)) : result[0 + n] = Pid(d)[n]
      BY <3>1, Bytes, OverwriteProperties
    <3> HIDE DEF result
    <3>3. \A n \in 1 .. Len(Pid(d)) : 0 + n = n
      OBVIOUS
    <3>4. Len(result) \in Nat
      BY <3>2, LenProperties
    <3>5. yashd_pid' = result
      BY <1>6 DEF WritePid, result
    <3> QED BY <3>1, <3>2, <3>3, <3>4, <3>5
  <2>2. /\ pc[d] = "write" /\ pc' = [pc EXCEPT ![d] = "bind"]
        /\ offset' = [offset EXCEPT ![d] = Len(Pid(d))]
    BY <1>6 DEF WritePid
  <2>3. \A e \in Instances : pc'[e] \in {"bind", "serving"} => e = d
    BY <1>5, <2>2 DEF PastLock
  <2>4. Len(Pid(d)) \in Nat
    BY Bytes, LenProperties
  <2>5. BeginsWith(yashd_pid', Pid(d))
    BY <2>1 DEF BeginsWith
  <2>6. offset'[d] = Len(Pid(d)) /\ Len(yashd_pid') \in Nat
    BY <2>1, <2>2, LenProperties
  <2>7. offset'[d] >= Len(Pid(d)) /\ offset'[d] <= Len(yashd_pid')
    BY <2>1, <2>4, <2>6
  <2> QED BY <2>3, <2>5, <2>7 DEF BeginsWith
<1>7. CASE PrintJob(d)
  <2>1. /\ pc[d] = "serving" /\ UNCHANGED pc
        /\ offset' = [offset EXCEPT ![d] = @ + 1]
        /\ yashd_pid' = Overwrite(yashd_pid, offset[d], <<JobText>>)
    BY <1>7 DEF PrintJob
  <2>2. \A e \in Instances : pc'[e] \in {"bind", "serving"} => e = d
    BY <1>5, <2>1 DEF PastLock
  <2>3. /\ BeginsWith(yashd_pid, Pid(d)) /\ offset[d] \in Nat
        /\ offset[d] >= Len(Pid(d)) /\ offset[d] <= Len(yashd_pid)
    BY <2>1
  <2>4. Len(yashd_pid) \in Nat /\ Len(Pid(d)) \in Nat
    BY Bytes, LenProperties
  <2>5. /\ yashd_pid' \in Seq(0 .. JobText)
        /\ Len(yashd_pid') >= Len(yashd_pid)
        /\ Len(yashd_pid') >= offset[d] + 1
        /\ \A n \in 1 .. offset[d] : yashd_pid'[n] = yashd_pid[n]
    <3>1. PICK position \in 0 .. Len(yashd_pid) : position = offset[d]
      BY <2>3, <2>4
    <3> DEFINE text == <<JobText>>
               Byte == 0 .. JobText
               content == yashd_pid
               result == Overwrite(content, position, text)
    <3>2. content \in Seq(Byte) /\ text \in Seq(Byte) /\ Len(text) = 1
      BY Bytes
    <3>3. yashd_pid' = result
      BY <2>1, <3>1
    <3> HIDE DEF text, Byte, content
    <3>4. /\ content \in Seq(Byte) /\ text \in Seq(Byte)
          /\ position \in 0 .. Len(content)
      BY <3>2 DEF content
    <3>5. LET written == Overwrite(content, position, text)
          IN /\ written \in Seq(Byte)
             /\ Len(written) >= Len(content)
             /\ Len(written) >= position + Len(text)
             /\ \A n \in 1 .. position : written[n] = content[n]
      BY <3>4, OverwriteProperties
    <3>6. /\ result \in Seq(Byte) /\ Len(result) >= Len(content)
          /\ Len(result) >= position + Len(text)
          /\ \A n \in 1 .. position : result[n] = content[n]
      BY <3>5
    <3> HIDE DEF result
    <3> QED BY <3>1, <3>2, <3>3, <3>6 DEF content, Byte
  <2>6. Len(yashd_pid') \in Nat
    BY <2>5, LenProperties
  <2>7. BeginsWith(yashd_pid', Pid(d))
    BY <2>3, <2>4, <2>5, <2>6 DEF BeginsWith
  <2>8. offset'[d] >= Len(Pid(d)) /\ offset'[d] <= Len(yashd_pid')
    BY <2>1, <2>3, <2>4, <2>5, <2>6
  <2> QED BY <2>2, <2>7, <2>8 DEF BeginsWith
<1> QED BY <1>2, <1>3, <1>4, <1>6, <1>7

\* A bind succeeds when no socket listens, so the one that serves afterwards
\* is the only one, and its jobs are the only ones that inherit its socket.
LEMMA NextKeepsAlone == TypeOK /\ LockByPc /\ ServesAlone /\ Next => ServesAlone'
<1> SUFFICES ASSUME TypeOK, LockByPc, ServesAlone, NEW d \in Instances,
                    \/ Start(d) \/ ResetFiles(d) \/ OpenPidFile(d) \/ Lock(d)
                    \/ OpenLog(d) \/ WritePid(d) \/ Bind(d) \/ StartJob(d)
                    \/ JobsEnd(d) \/ PrintJob(d) \/ Kill(d)
             PROVE  ServesAlone'
  BY DEF Next
<1> USE DEF TypeOK, ServesAlone, Listening
<1>1. CASE Start(d) \/ ResetFiles(d) \/ OpenPidFile(d) \/ OpenLog(d) \/ WritePid(d)
  BY <1>1 DEF Start, ResetFiles, OpenPidFile, OpenLog, WritePid
<1>2. CASE Terminate(d) /\ UNCHANGED jobs
  BY <1>2 DEF Terminate
<1>3. CASE Lock(d)
  BY <1>2, <1>3 DEF Lock
<1>4. CASE Bind(d)
  BY <1>2, <1>4 DEF Bind
<1>5. CASE StartJob(d)
  BY <1>5 DEF StartJob
<1>6. CASE JobsEnd(d) \/ PrintJob(d)
  BY <1>6 DEF JobsEnd, PrintJob
<1>7. CASE Kill(d)
  BY <1>2, <1>7 DEF Kill
<1> QED BY <1>1, <1>3, <1>4, <1>5, <1>6, <1>7

\* Every step keeps the types; what is written is written inside the file.
LEMMA NextKeepsType == TypeOK /\ LockByPc /\ FilesByPc /\ PidWritten /\ Next => TypeOK'
<1> SUFFICES ASSUME TypeOK, FilesByPc, PidWritten, NEW d \in Instances,
                    \/ Start(d) \/ ResetFiles(d) \/ OpenPidFile(d) \/ Lock(d)
                    \/ OpenLog(d) \/ WritePid(d) \/ Bind(d) \/ StartJob(d)
                    \/ JobsEnd(d) \/ PrintJob(d) \/ Kill(d)
             PROVE  TypeOK'
  BY DEF Next
<1> USE DEF TypeOK
<1>1. ASSUME NEW table \in [Descriptors -> Files], NEW file \in Files
      PROVE  /\ Open(table, file) \in [Descriptors -> Files]
             /\ \A k \in Descriptors :
                  Shut(table, k) \in [Descriptors -> Files]
             /\ \A k, n \in Descriptors :
                  Dup2(table, k, n) \in [Descriptors -> Files]
  BY DEF Open, Shut, Dup2, Files
<1>2. CASE Start(d)
  <2>1. \A stdin \in {"closed", "terminal"} :
          [k \in Descriptors |-> IF k = STDIN THEN stdin ELSE "terminal"]
            \in [Descriptors -> Files]
    BY DEF Files
  <2> QED BY <1>2, <2>1 DEF Start
<1>3. CASE ResetFiles(d)
  <2> DEFINE kept == [k \in Descriptors |-> IF k > 0 THEN "closed" ELSE fds[d][k]]
             fd == LowestFree(kept)
             once == Dup2(Open(kept, "null"), fd, STDIN)
             opened == Dup2(once, fd, STDOUT)
  <2>1. kept \in [Descriptors -> Files] /\ kept[1] = "closed"
    BY DEF Files, Descriptors
  <2>2. fd \in Descriptors
    <3>1. 1 \in Descriptors
      BY DEF Descriptors
    <3> QED BY <2>1, <3>1, LowestFreeIsClosed
  <2>3. /\ pc' = [pc EXCEPT ![d] = "open"]
        /\ fds' = [fds EXCEPT ![d] = Shut(opened, fd)]
        /\ UNCHANGED <<offset, locked, yashd_pid, jobs>>
    BY <1>3 DEF ResetFiles
  <2>4. STDIN \in Descriptors /\ STDOUT \in Descriptors /\ "null" \in Files
    BY DEF STDIN, STDOUT, Descriptors, Files
  <2> HIDE DEF kept, fd
  <2>5. once \in [Descriptors -> Files]
    <3>1. Open(kept, "null") \in [Descriptors -> Files]
      BY <1>1, <2>1, <2>4
    <3> QED BY <1>1, <2>2, <2>4, <3>1
  <2> HIDE DEF once
  <2>6. opened \in [Descriptors -> Files]
    BY <1>1, <2>2, <2>4, <2>5
  <2> HIDE DEF opened
  <2>7. Shut(opened, fd) \in [Descriptors -> Files]
    BY <1>1, <2>2, <2>4, <2>6
  <2> QED BY <2>3, <2>7
<1>4. CASE OpenPidFile(d)
  <2>1. Open(fds[d], "yashd.pid") \in [Descriptors -> Files]
    BY <1>1 DEF Files
  <2> QED BY <1>4, <2>1 DEF OpenPidFile
<1>5. CASE Terminate(d) /\ UNCHANGED <<offset, yashd_pid, jobs>>
  <2>1. AllClosed \in [Descriptors -> Files]
    BY DEF AllClosed, Files
  <2> QED BY <1>5, <2>1 DEF Terminate
<1>6. CASE Lock(d)
  BY <1>5, <1>6 DEF Lock
<1>7. CASE OpenLog(d)
  <2> DEFINE fd == LowestFree(fds[d])
             opened == Open(fds[d], "yashd.log")
  <2>1. STDERR \in Descriptors
    BY DEF STDERR, Descriptors
  <2>2. fd \in Descriptors
    BY <1>7, <2>1, LowestFreeIsClosed DEF OpenLog, FilesByPc, PastLock
  <2>3. /\ fds' = [fds EXCEPT ![d] = Dup2(opened, fd, STDERR)]
        /\ pc' = [pc EXCEPT ![d] = "write"]
        /\ UNCHANGED <<offset, locked, yashd_pid, jobs>>
    BY <1>7 DEF OpenLog
  <2>4. opened \in [Descriptors -> Files]
    BY <1>1 DEF Files
  <2> HIDE DEF fd, opened
  <2>5. Dup2(opened, fd, STDERR) \in [Descriptors -> Files]
    BY <1>1, <2>1, <2>2, <2>4 DEF Files
  <2> QED BY <2>3, <2>5
<1>8. CASE WritePid(d)
  <2>1. /\ Len(yashd_pid) \in Nat /\ Len(Pid(d)) \in Nat
        /\ 0 \in 0 .. Len(yashd_pid)
    BY Bytes, LenProperties
  <2>2. Overwrite(yashd_pid, 0, Pid(d)) \in Seq(0 .. JobText)
    BY <2>1, Bytes, OverwriteProperties
  <2> QED BY <1>8, <2>1, <2>2 DEF WritePid
<1>9. CASE Bind(d)
  BY <1>5, <1>9 DEF Bind
<1>10. CASE StartJob(d) \/ JobsEnd(d)
  BY <1>10 DEF StartJob, JobsEnd
<1>11. CASE PrintJob(d)
  <2>1. offset[d] \in 0 .. Len(yashd_pid)
    BY <1>11, LenProperties DEF PrintJob, PidWritten
  <2>2. Overwrite(yashd_pid, offset[d], <<JobText>>) \in Seq(0 .. JobText)
    BY <2>1, Bytes, OverwriteProperties
  <2> QED BY <1>11, <2>2 DEF PrintJob
<1>12. CASE Kill(d)
  BY <1>5, <1>12 DEF Kill
<1> QED BY <1>2, <1>3, <1>4, <1>6, <1>7, <1>8, <1>9, <1>10, <1>11, <1>12

\* The parts of the invariant carry each other over every step.
LEMMA NextKeepsIInv == IInv /\ [Next]_vars => IInv'
<1> SUFFICES ASSUME IInv, [Next]_vars PROVE IInv'
  OBVIOUS
<1>1. CASE Next
  BY <1>1, NextKeepsType, NextKeepsLock, NextKeepsFiles, NextKeepsPid,
     NextKeepsAlone DEF IInv
<1>2. CASE UNCHANGED vars
  BY <1>2 DEF vars, IInv, TypeOK, LockByPc, FilesByPc, PidWritten, ServesAlone,
              BeginsWith, Listening
<1> QED BY <1>1, <1>2

\* The invariant holds in every reachable state.
LEMMA AlwaysIInv == Spec => []IInv
BY InitIInv, NextKeepsIInv, PTL DEF Spec

-----------------------------------------------------------------------------
\* Descriptors, the file and the lock stay what they are declared to be: no
\* open of create_daemon finds its four numbers all taken.
THEOREM TypeCorrect == Spec => []TypeOK
<1>1. IInv => TypeOK
  BY DEF IInv
<1> QED BY <1>1, AlwaysIInv, PTL

\* However many instances are started, and whenever they are killed, one at
\* most is past the lock.
THEOREM AtMostOneDaemon == Spec => []OneDaemon
<1>1. IInv => OneDaemon
  BY DEF IInv, LockByPc, PastLock, OneDaemon
<1> QED BY <1>1, AlwaysIInv, PTL

\* A daemon that serves shares its port with no other socket.
THEOREM AlwaysServesAlone == Spec => []ServesAlone
<1>1. IInv => ServesAlone
  BY DEF IInv
<1> QED BY <1>1, AlwaysIInv, PTL

\* The holder of the lock has the locked file open, as number 0 or 1.
THEOREM LockedFileStaysOpen == Spec => []LockHolderHasFileOpen
<1>1. IInv => LockHolderHasFileOpen
  <2> SUFFICES ASSUME IInv, locked # NoInstance
               PROVE  \E k \in Descriptors : fds[locked][k] = "yashd.pid"
    BY DEF LockHolderHasFileOpen
  <2>1. locked \in Instances /\ pc[locked] \in PastLock
    BY DEF IInv, TypeOK, LockByPc
  <2>2. 0 \in Descriptors /\ 1 \in Descriptors
    BY DEF Descriptors
  <2> QED BY <2>1, <2>2 DEF IInv, FilesByPc
<1> QED BY <1>1, AlwaysIInv, PTL

\* While a daemon serves its pid is what yashd.pid begins with, whatever the
\* file held before and whatever the daemon prints into it.
THEOREM PidStaysReadable == Spec => []PidFileBeginsWithPid
<1>1. IInv => PidFileBeginsWithPid
  <2> SUFFICES ASSUME IInv, NEW d \in Instances, pc[d] = "serving"
               PROVE  /\ Len(yashd_pid) >= Len(Pid(d))
                      /\ SubSeq(yashd_pid, 1, Len(Pid(d))) = Pid(d)
    BY DEF PidFileBeginsWithPid
  <2>1. BeginsWith(yashd_pid, Pid(d)) /\ yashd_pid \in Seq(0 .. JobText)
    BY DEF IInv, PidWritten, TypeOK
  <2>2. SubSeq(yashd_pid, 1, Len(Pid(d))) = Pid(d)
    BY <2>1, Bytes, BeginsWithPrefix
  <2> QED BY <2>1, <2>2 DEF BeginsWith
<1> QED BY <1>1, AlwaysIInv, PTL
=============================================================================
