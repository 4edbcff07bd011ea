-------------------------- MODULE DescriptorsProofs --------------------------
(***************************************************************************)
(* Proofs about the descriptors of yashd, for any number of connections,   *)
(* commands, processes and descriptors.  What each open file is doing in   *)
(* the table is known from the place of one thread, whether or not threads *)
(* close descriptors of others (PlaceInv); as long as none does, what a    *)
(* thread's locals name is what it opened (OwnInv).                        *)
(***************************************************************************)
EXTENDS Descriptors, FiniteSetTheorems, WellFoundedInduction, TLAPS

\* Between two command lines, and on the way through the last process of one.
Idle == {"none", "recv", "over"}
LastPart == {"closeR", "parent_fork", "closeIn", "close0", "close1"}

FdInv ==
  /\ table \in [Fds -> OpenFiles \cup {Free, Reserved}]
  /\ accepting \in Fds \cup {0}
  /\ connfd \in [Conns -> Fds \cup {0}]
  /\ recvpipe \in [Conns -> (Fds \cup {0}) \X (Fds \cup {0})]
  /\ pipefd \in [Conns -> (Fds \cup {0}) \X (Fds \cup {0})]
  /\ in \in [Conns -> Fds \cup {0}]
  /\ stray \in BOOLEAN
  /\ accepting # 0 => table[accepting] = Reserved

\* How far a thread has come, and with what.
Progress(c) ==
  /\ pc[c] \in Idle => cmd[c] = 0 /\ stage[c] = 0 /\ in[c] = 0 /\ pipefd[c] = <<0, 0>>
  /\ pc[c] \notin Idle =>
       /\ cmd[c] # 0 /\ width[cmd[c]] # 0 /\ stage[c] \in 1 .. width[cmd[c]]
       /\ width[cmd[c]] = 1 => pipefd[c] = <<0, 0>>
  /\ pc[c] = "pipe" => stage[c] < width[cmd[c]]
  /\ pc[c] \in LastPart => stage[c] = width[cmd[c]]

\* A command line is worked on by one thread, and numbered by the number of
\* those started before it.
CommandInv ==
  /\ pc \in [Conns -> ThreadStates]
  /\ cmd \in [Conns -> Commands \cup {0}]
  /\ stage \in [Conns -> 0 .. MaxWidth]
  /\ width \in [Commands -> Widths \cup {0}]
  /\ \A n \in Commands : width[n] # 0 <=> n <= Cardinality(Started)
  /\ \A c \in Conns : Progress(c)
  /\ \A c, d \in Conns : cmd[c] = cmd[d] /\ cmd[c] # 0 => c = d

\* The thread of c may have an end of its command's pipe k at number d.
KeepsRead(c, k, d) ==
  IF k = 0 THEN d = recvpipe[c][1] /\ pc[c] \notin Idle \cup {"close1"}
  ELSE d = pipefd[c][1] /\ k <= stage[c] /\ pc[c] \in {"fork", "closeW", "closeR"}

KeepsWrite(c, k, d) ==
  IF k = 0 THEN d = recvpipe[c][2] /\ pc[c] \notin Idle \cup {"close0", "close1"}
  ELSE d = pipefd[c][2] /\ k = stage[c] /\ pc[c] \in {"fork", "closeW"}

\* The read ends that a pipeline of three or more leaves open.
Lost(n, k) == 1 <= k /\ k <= width[n] - 2

PlaceInv ==
  /\ \A d \in Fds, c \in Conns :
       table[d] = Sock(c) => d = connfd[c] /\ pc[c] \notin {"none", "over"}
  /\ \A d \in Fds, n \in Commands, k \in 0 .. MaxWidth :
       table[d] = ReadEnd(n, k) =>
         /\ k < width[n]
         /\ Lost(n, k) \/ \E c \in Conns : cmd[c] = n /\ KeepsRead(c, k, d)
  /\ \A d \in Fds, n \in Commands, k \in 0 .. MaxWidth :
       table[d] = WriteEnd(n, k) =>
         k < width[n] /\ \E c \in Conns : cmd[c] = n /\ KeepsWrite(c, k, d)

\* Number d is open and refers to f.
Refers(d, f) == d # 0 /\ table[d] = f

\* What a thread's locals name is what the thread opened.
Own(c) ==
  /\ pc[c] \notin {"none", "over"} =>
       Refers(connfd[c], Sock(c)) /\ reading[c] = {Sock(c)}
  /\ pc[c] \notin Idle => owner[cmd[c]] = {Sock(c)}
  /\ pc[c] \notin Idle \cup {"close1"} =>
       Refers(recvpipe[c][1], ReadEnd(cmd[c], 0))
  /\ pc[c] \in {"pipe", "fork"} =>
       IF stage[c] = 1 THEN in[c] = 0
                       ELSE Refers(in[c], ReadEnd(cmd[c], stage[c] - 1))
  /\ pc[c] = "fork" /\ stage[c] < width[cmd[c]] =>
       /\ Refers(pipefd[c][1], ReadEnd(cmd[c], stage[c]))
       /\ Refers(pipefd[c][2], WriteEnd(cmd[c], stage[c]))
  /\ pc[c] = "closeW" /\ stage[c] < width[cmd[c]] =>
       Refers(in[c], ReadEnd(cmd[c], stage[c]))

OwnInv == ~stray => \A c \in Conns : Own(c)

\* What the processes got.
ProcInv ==
  /\ procs \in [Procs -> [holds : SUBSET OpenFiles, stdin : SUBSET OpenFiles,
                          stdout : SUBSET OpenFiles]]
  /\ reading \in [Conns -> SUBSET OpenFiles]
  /\ \A c \in Conns : \A f, g \in reading[c] : f = g
  /\ owner \in [Commands -> SUBSET OpenFiles]
  /\ \A p \in Procs : width[p[1]] = 0 => procs[p] = NoProc

HoldsInv ==
  \A n \in Commands, k \in 1 .. MaxWidth, p \in Procs :
    WriteEnd(n, k) \in procs[p].holds =>
      width[n] # 0 /\ (p = <<n, k>> \/ stray \/ owner[p[1]] # owner[n])

IInv ==
  /\ FdInv
  /\ CommandInv
  /\ PlaceInv
  /\ OwnInv
  /\ ProcInv
  /\ HoldsInv
  /\ StagesConnected

-----------------------------------------------------------------------------
(* Files and the table.                                                    *)

LEMMA Bounds ==
  /\ MaxWidth \in Nat \ {0} /\ MaxCommands \in Nat \ {0} /\ MaxFd \in Nat \ {0}
  /\ 0 \notin Fds /\ 0 \notin Commands
  /\ Fds \subseteq Nat /\ Commands \subseteq Nat /\ Widths \subseteq Nat
BY DescriptorsAssumption DEF Fds, Commands, Widths

LEMMA FileNames ==
  /\ \A c, d : Sock(c) = Sock(d) => c = d
  /\ \A m, n, k, l : ReadEnd(n, k) = ReadEnd(m, l) => n = m /\ k = l
  /\ \A m, n, k, l : WriteEnd(n, k) = WriteEnd(m, l) => n = m /\ k = l
  /\ \A m, n, k, l : ReadEnd(n, k) # WriteEnd(m, l)
  /\ \A c, n, k : Sock(c) # ReadEnd(n, k) /\ Sock(c) # WriteEnd(n, k)
BY DEF Sock, ReadEnd, WriteEnd

LEMMA FileKinds ==
  /\ \A c \in Conns : Sock(c) \in OpenFiles
  /\ \A n \in Commands, k \in 0 .. MaxWidth :
       ReadEnd(n, k) \in OpenFiles /\ WriteEnd(n, k) \in OpenFiles
  /\ \A f \in OpenFiles :
       \/ \E c \in Conns : f = Sock(c)
       \/ \E n \in Commands, k \in 0 .. MaxWidth : f = ReadEnd(n, k) \/ f = WriteEnd(n, k)
  /\ Free \notin OpenFiles /\ Reserved \notin OpenFiles /\ Free # Reserved
<1>1. \A c \in Conns : Sock(c) \in OpenFiles
  BY DEF OpenFiles, Sockets
<1>2. \A n \in Commands, k \in 0 .. MaxWidth :
        ReadEnd(n, k) \in OpenFiles /\ WriteEnd(n, k) \in OpenFiles
  BY DEF OpenFiles, PipeEnds, ReadEnd, WriteEnd
<1>3. \A f \in OpenFiles :
       \/ \E c \in Conns : f = Sock(c)
       \/ \E n \in Commands, k \in 0 .. MaxWidth : f = ReadEnd(n, k) \/ f = WriteEnd(n, k)
  BY DEF OpenFiles, Sockets, PipeEnds, ReadEnd, WriteEnd
<1>4. /\ \A c : Sock(c) # Free /\ Sock(c) # Reserved
      /\ \A n, k : ReadEnd(n, k) # Free /\ ReadEnd(n, k) # Reserved
      /\ \A n, k : WriteEnd(n, k) # Free /\ WriteEnd(n, k) # Reserved
      /\ Free # Reserved
  BY DEF Sock, ReadEnd, WriteEnd, Free, Reserved
<1> QED BY <1>1, <1>2, <1>3, <1>4

\* An open finds a free number.
LEMMA LowestIsFree ==
  ASSUME NEW t, NEW d \in Fds, t[d] = Free
  PROVE  LowestFree(t) \in Fds /\ t[LowestFree(t)] = Free
<1> DEFINE F == {e \in Fds : t[e] = Free}
<1>1. F \subseteq Nat /\ F # {}
  BY Bounds
<1>2. PICK m \in F : \A e \in F : ~(<<e, m>> \in OpToRel(<, Nat))
  BY <1>1, WFMin, NatLessThanWellFounded
<1>3. \A e \in F : m <= e
  <2> HIDE DEF F
  <2>1. m \in Nat /\ \A e \in F : e \in Nat
    BY <1>1
  <2>2. \A e \in F : ~(e < m)
    BY <1>2, <2>1 DEF OpToRel
  <2> QED BY <2>1, <2>2
<1>4. Min(F) \in F
  BY <1>3 DEF Min
<1> QED BY <1>4 DEF LowestFree

LEMMA SomeFree ==
  ASSUME NumbersLeft(1)
  PROVE  \E d \in Fds : table[d] = Free
<1>1. {d \in Fds : table[d] = Free} = {} => Cardinality({d \in Fds : table[d] = Free}) = 0
  BY FS_EmptySet
<1> QED BY <1>1 DEF NumbersLeft

\* A pipe takes two.
LEMMA PipeOpens ==
  ASSUME FdInv, NumbersLeft(2), NEW n \in Commands, NEW k \in 0 .. MaxWidth
  PROVE  \E r, w \in Fds :
           /\ r # w /\ table[r] = Free /\ table[w] = Free
           /\ Opened(n, k).fds = <<r, w>>
           /\ Opened(n, k).table =
                [table EXCEPT ![r] = ReadEnd(n, k), ![w] = WriteEnd(n, k)]
<1> DEFINE F == {d \in Fds : table[d] = Free}
           r == LowestFree(table)
           t == [table EXCEPT ![r] = ReadEnd(n, k)]
           w == LowestFree(t)
<1>1. IsFiniteSet(F) /\ Cardinality(F) >= 2
  <2>1. IsFiniteSet(Fds)
    BY FS_Interval, Bounds DEF Fds
  <2> QED BY <2>1, FS_Subset DEF NumbersLeft
<1>2. F # {}
  BY <1>1, FS_EmptySet
<1>3. r \in F
  BY <1>2, LowestIsFree
<1> HIDE DEF r
<1>4. F \ {r} # {}
  <2>1. IsFiniteSet(F \ {r}) /\ Cardinality(F \ {r}) = Cardinality(F) - 1
    BY <1>1, <1>3, FS_RemoveElement
  <2>2. Cardinality(F) \in Nat
    BY <1>1, FS_CardinalityType
  <2> QED BY <1>1, <2>1, <2>2, FS_EmptySet
<1>5. \A d \in Fds : t[d] = IF d = r THEN ReadEnd(n, k) ELSE table[d]
  BY <1>3 DEF FdInv
<1>6. ReadEnd(n, k) # Free
  BY FileKinds
<1>7. w \in Fds /\ t[w] = Free
  BY <1>4, <1>5, LowestIsFree
<1>8. w # r /\ table[w] = Free
  BY <1>5, <1>6, <1>7
<1>9. /\ Opened(n, k).fds = <<r, w>>
      /\ Opened(n, k).table = [t EXCEPT ![w] = WriteEnd(n, k)]
  BY DEF Opened, r
<1> QED BY <1>3, <1>7, <1>8, <1>9

\* A close empties one number, if it was open; without a stray close it was
\* open as the file the thread had opened.
LEMMA CloseFacts ==
  ASSUME FdInv, NEW d \in Fds \cup {0}, NEW f, Close(d, f)
  PROVE  /\ table' \in [Fds -> OpenFiles \cup {Free, Reserved}]
         /\ \A e \in Fds : table'[e] \in OpenFiles \cup {Reserved} => table'[e] = table[e]
         /\ \A e \in Fds : table[e] = Reserved => table'[e] = Reserved
         /\ d # 0 => table'[d] \notin OpenFiles
         /\ stray' \in BOOLEAN
         /\ ~stray' => ~stray /\ \A e \in Fds : table[e] \in OpenFiles \ {f} => table'[e] = table[e]
         /\ d = 0 => UNCHANGED <<table, stray>>
<1>1. /\ table' = IF d # 0 /\ table[d] \in OpenFiles THEN [table EXCEPT ![d] = Free] ELSE table
      /\ stray' = (stray \/ (d # 0 /\ table[d] \in OpenFiles \ {f}))
      /\ table \in [Fds -> OpenFiles \cup {Free, Reserved}]
      /\ stray \in BOOLEAN
  BY DEF Close, Closed, FdInv
<1>2. CASE d # 0 /\ table[d] \in OpenFiles
  <2>1. \A e \in Fds : table'[e] = IF e = d THEN Free ELSE table[e]
    BY <1>1, <1>2
  <2> QED BY <1>1, <1>2, <2>1, FileKinds
<1>3. CASE ~(d # 0 /\ table[d] \in OpenFiles)
  BY <1>1, <1>3
<1> QED BY <1>2, <1>3

-----------------------------------------------------------------------------
(* A step of one thread.                                                   *)

\* The locals of every other thread stay as they are.
Only(c) ==
  \A e \in Conns \ {c} :
    /\ pc'[e] = pc[e] /\ cmd'[e] = cmd[e] /\ stage'[e] = stage[e]
    /\ connfd'[e] = connfd[e] /\ reading'[e] = reading[e]
    /\ recvpipe'[e] = recvpipe[e] /\ pipefd'[e] = pipefd[e] /\ in'[e] = in[e]

LEMMA CommandMoves ==
  ASSUME CommandInv, NEW c \in Conns, Only(c), UNCHANGED width,
         pc' \in [Conns -> ThreadStates], stage' \in [Conns -> 0 .. MaxWidth],
         cmd' \in [Conns -> Commands \cup {0}],
         cmd'[c] \in {cmd[c], 0}, Progress(c)'
  PROVE  CommandInv'
<1>1. \A e \in Conns : Progress(e)'
  <2> SUFFICES ASSUME NEW e \in Conns, e # c PROVE Progress(e)'
    OBVIOUS
  <2>1. Progress(e)
    BY DEF CommandInv
  <2> QED BY <2>1 DEF Progress, Only
<1>2. Started' = Started
  BY DEF Started
<1>3. \A d, e \in Conns : cmd'[d] = cmd'[e] /\ cmd'[d] # 0 => d = e
  BY DEF CommandInv, Only
<1> QED BY <1>1, <1>2, <1>3 DEF CommandInv

\* The thread's files that are left in the table are still accounted for.
Accounts(c) ==
  /\ \A d \in Fds : table'[d] = Sock(c) /\ d = connfd[c] /\ pc[c] \notin {"none", "over"}
       => d = connfd'[c] /\ pc'[c] \notin {"none", "over"}
  /\ \A d \in Fds, k \in 0 .. MaxWidth :
       table'[d] = ReadEnd(cmd[c], k) /\ k < width[cmd[c]] /\ KeepsRead(c, k, d)
         => Lost(cmd[c], k) \/ (cmd'[c] = cmd[c] /\ KeepsRead(c, k, d)')
  /\ \A d \in Fds, k \in 0 .. MaxWidth :
       table'[d] = WriteEnd(cmd[c], k) /\ k < width[cmd[c]] /\ KeepsWrite(c, k, d)
         => cmd'[c] = cmd[c] /\ KeepsWrite(c, k, d)'

LEMMA PlaceMoves ==
  ASSUME PlaceInv, NEW c \in Conns, Only(c), UNCHANGED width,
         \A d \in Fds : table'[d] \in OpenFiles => table'[d] = table[d],
         Accounts(c)
  PROVE  PlaceInv'
<1> USE DEF Accounts
<1>1. ASSUME NEW e \in Conns, e # c
      PROVE  /\ cmd'[e] = cmd[e] /\ connfd'[e] = connfd[e] /\ pc'[e] = pc[e]
             /\ \A d \in Fds, k \in 0 .. MaxWidth :
                  /\ KeepsRead(e, k, d) => KeepsRead(e, k, d)'
                  /\ KeepsWrite(e, k, d) => KeepsWrite(e, k, d)'
  BY <1>1 DEF Only, KeepsRead, KeepsWrite
<1>2. ASSUME NEW d \in Fds, NEW e \in Conns, table'[d] = Sock(e)
      PROVE  d = connfd'[e] /\ pc'[e] \notin {"none", "over"}
  <2>1. table[d] = Sock(e)
    BY <1>2, FileKinds
  <2>2. d = connfd[e] /\ pc[e] \notin {"none", "over"}
    BY <2>1 DEF PlaceInv
  <2> QED BY <1>1, <1>2, <2>2
<1>3. ASSUME NEW d \in Fds, NEW n \in Commands, NEW k \in 0 .. MaxWidth,
             table'[d] = ReadEnd(n, k)
      PROVE  /\ k < width[n]
             /\ Lost(n, k) \/ \E e \in Conns : cmd'[e] = n /\ KeepsRead(e, k, d)'
  <2>1. table[d] = ReadEnd(n, k)
    BY <1>3, FileKinds
  <2>2. /\ k < width[n]
        /\ Lost(n, k) \/ \E e \in Conns : cmd[e] = n /\ KeepsRead(e, k, d)
    BY <2>1 DEF PlaceInv
  <2>3. ASSUME NEW e \in Conns, cmd[e] = n, KeepsRead(e, k, d)
        PROVE  Lost(n, k) \/ \E b \in Conns : cmd'[b] = n /\ KeepsRead(b, k, d)'
    BY <1>1, <1>3, <2>2, <2>3
  <2> QED BY <2>2, <2>3
<1>4. ASSUME NEW d \in Fds, NEW n \in Commands, NEW k \in 0 .. MaxWidth,
             table'[d] = WriteEnd(n, k)
      PROVE  k < width[n] /\ \E e \in Conns : cmd'[e] = n /\ KeepsWrite(e, k, d)'
  <2>1. table[d] = WriteEnd(n, k)
    BY <1>4, FileKinds
  <2>2. k < width[n] /\ \E e \in Conns : cmd[e] = n /\ KeepsWrite(e, k, d)
    BY <2>1 DEF PlaceInv
  <2>3. ASSUME NEW e \in Conns, cmd[e] = n, KeepsWrite(e, k, d)
        PROVE  \E b \in Conns : cmd'[b] = n /\ KeepsWrite(b, k, d)'
    BY <1>1, <1>4, <2>2, <2>3
  <2> QED BY <2>2, <2>3
<1>5. \A n, k : Lost(n, k)' <=> Lost(n, k)
  BY DEF Lost
<1> QED BY <1>2, <1>3, <1>4, <1>5 DEF PlaceInv, Sock, ReadEnd, WriteEnd

\* The files a thread has opened for itself.
Mine(c) ==
  {Sock(c)} \cup UNION {{ReadEnd(cmd[c], k), WriteEnd(cmd[c], k)} : k \in 0 .. MaxWidth}

LEMMA OthersFiles ==
  ASSUME CommandInv, NEW c \in Conns, NEW e \in Conns, e # c, NEW f \in Mine(c),
         f # Sock(c) => cmd[c] # 0
  PROVE  f \notin Mine(e)
BY FileNames DEF Mine, CommandInv

\* A thread whose files stay where they are keeps knowing them.
LEMMA OwnKept ==
  ASSUME CommandInv, FdInv, NEW e \in Conns, Own(e),
         pc'[e] = pc[e], cmd'[e] = cmd[e], stage'[e] = stage[e], connfd'[e] = connfd[e],
         reading'[e] = reading[e], recvpipe'[e] = recvpipe[e], pipefd'[e] = pipefd[e],
         in'[e] = in[e],
         cmd[e] # 0 => width'[cmd[e]] = width[cmd[e]] /\ owner'[cmd[e]] = owner[cmd[e]],
         \A x \in Fds : table[x] \in Mine(e) => table'[x] = table[x]
  PROVE  Own(e)'
<1>1. ASSUME NEW x \in Fds \cup {0}, NEW f \in Mine(e), Refers(x, f) PROVE Refers(x, f)'
  BY <1>1 DEF Refers
<1>2. /\ connfd[e] \in Fds \cup {0} /\ in[e] \in Fds \cup {0}
      /\ recvpipe[e][1] \in Fds \cup {0}
      /\ pipefd[e][1] \in Fds \cup {0} /\ pipefd[e][2] \in Fds \cup {0}
  BY DEF FdInv
<1>3. Progress(e) /\ stage[e] \in 0 .. MaxWidth
  BY DEF CommandInv
<1>4. stage[e] # 0 => stage[e] - 1 \in 0 .. MaxWidth
  BY <1>3, Bounds
<1>5. /\ Sock(e) \in Mine(e)
      /\ \A k \in 0 .. MaxWidth : ReadEnd(cmd[e], k) \in Mine(e) /\ WriteEnd(cmd[e], k) \in Mine(e)
      /\ 0 \in 0 .. MaxWidth
  BY Bounds DEF Mine
<1>6. pc[e] \notin Idle => cmd[e] # 0 /\ stage[e] # 0
  BY <1>3 DEF Progress
<1>7. PICK f0, f1, f2, f3, f4 :
        /\ f0 = Sock(e) /\ f1 = ReadEnd(cmd[e], 0)
        /\ f2 = ReadEnd(cmd[e], stage[e] - 1)
        /\ f3 = ReadEnd(cmd[e], stage[e]) /\ f4 = WriteEnd(cmd[e], stage[e])
  OBVIOUS
<1>8. f0 \in Mine(e) /\ f1 \in Mine(e) /\ f3 \in Mine(e) /\ f4 \in Mine(e)
      /\ (pc[e] \notin Idle => f2 \in Mine(e))
  BY <1>3, <1>4, <1>5, <1>6, <1>7
<1>9. /\ Refers(connfd[e], f0) => Refers(connfd[e], f0)'
      /\ Refers(recvpipe[e][1], f1) => Refers(recvpipe[e][1], f1)'
      /\ pc[e] \notin Idle => (Refers(in[e], f2) => Refers(in[e], f2)')
      /\ Refers(in[e], f3) => Refers(in[e], f3)'
      /\ Refers(pipefd[e][1], f3) => Refers(pipefd[e][1], f3)'
      /\ Refers(pipefd[e][2], f4) => Refers(pipefd[e][2], f4)'
  BY <1>1, <1>2, <1>8 DEF Refers
<1>10. /\ f0 = Sock(e)' /\ f1 = ReadEnd(cmd[e], 0)'
       /\ f2 = ReadEnd(cmd[e], stage[e] - 1)'
       /\ f3 = ReadEnd(cmd[e], stage[e])' /\ f4 = WriteEnd(cmd[e], stage[e])'
  BY <1>7 DEF Sock, ReadEnd, WriteEnd
<1> QED BY <1>6, <1>7, <1>9, <1>10 DEF Own, Idle, Refers

\* What was given to processes stays given.
LEMMA HistoryKept ==
  ASSUME IInv, UNCHANGED <<procs, width, owner>>, stray => stray',
         reading' \in [Conns -> SUBSET OpenFiles],
         \A c \in Conns : \A f, g \in reading'[c] : f = g
  PROVE  ProcInv' /\ HoldsInv' /\ StagesConnected'
<1>1. ProcInv'
  BY DEF IInv, ProcInv, NoProc
<1>2. HoldsInv'
  BY DEF IInv, HoldsInv, WriteEnd
<1>3. StagesConnected'
  BY DEF IInv, StagesConnected, Started, NoProc, ReadEnd, WriteEnd
<1> QED BY <1>1, <1>2, <1>3

LocalsTyped ==
  /\ pc \in [Conns -> ThreadStates]
  /\ connfd \in [Conns -> Fds \cup {0}]
  /\ reading \in [Conns -> SUBSET OpenFiles]
  /\ cmd \in [Conns -> Commands \cup {0}]
  /\ stage \in [Conns -> 0 .. MaxWidth]
  /\ recvpipe \in [Conns -> (Fds \cup {0}) \X (Fds \cup {0})]
  /\ pipefd \in [Conns -> (Fds \cup {0}) \X (Fds \cup {0})]
  /\ in \in [Conns -> Fds \cup {0}]

LEMMA Typed == IInv => LocalsTyped
BY DEF IInv, FdInv, CommandInv, ProcInv, LocalsTyped

\* A thread closes the number of a file it has opened.
LEMMA ThreadCloses ==
  ASSUME IInv, NEW c \in Conns, Only(c),
         NEW d \in Fds \cup {0}, NEW f \in Mine(c), f # Sock(c) => cmd[c] # 0,
         Close(d, f), UNCHANGED <<accepting, width, owner, procs>>,
         LocalsTyped', \A g, h \in reading'[c] : g = h,
         cmd'[c] \in {cmd[c], 0}, Progress(c)', Accounts(c), ~stray' => Own(c)'
  PROVE  IInv'
<1>1. FdInv /\ CommandInv /\ PlaceInv
  BY DEF IInv
<1>2. /\ table' \in [Fds -> OpenFiles \cup {Free, Reserved}]
      /\ \A e \in Fds : table'[e] \in OpenFiles \cup {Reserved} => table'[e] = table[e]
      /\ \A e \in Fds : table[e] = Reserved => table'[e] = Reserved
      /\ stray' \in BOOLEAN
      /\ ~stray' => ~stray /\ \A e \in Fds : table[e] \in OpenFiles \ {f} => table'[e] = table[e]
  BY <1>1, CloseFacts
<1>3. FdInv'
  BY <1>1, <1>2 DEF FdInv, LocalsTyped
<1>4. CommandInv'
  BY <1>1, CommandMoves DEF LocalsTyped
<1>5. PlaceInv'
  BY <1>1, <1>2, PlaceMoves
<1>6. OwnInv'
  <2> SUFFICES ASSUME ~stray', NEW e \in Conns, e # c PROVE Own(e)'
    BY DEF OwnInv
  <2>1. Own(e)
    BY <1>2 DEF IInv, OwnInv
  <2>2. f \notin Mine(e)
    BY <1>1, OthersFiles
  <2>3. ASSUME NEW x \in Fds, table[x] \in Mine(e) PROVE table'[x] = table[x]
    <3>1. table[x] \in OpenFiles
      <4>1. cmd[e] = 0 \/ Mine(e) \subseteq OpenFiles
        BY <1>1, FileKinds DEF Mine, CommandInv
      <4>2. CASE cmd[e] = 0 /\ table[x] # Sock(e)
        <5>1. PICK k \in 0 .. MaxWidth : table[x] = ReadEnd(0, k) \/ table[x] = WriteEnd(0, k)
          BY <2>3, <4>2 DEF Mine
        <5>2. table[x] \in OpenFiles \cup {Free, Reserved}
          BY <1>1 DEF FdInv
        <5> QED BY <5>1, <5>2 DEF OpenFiles, Sockets, PipeEnds, ReadEnd, WriteEnd,
                                 Free, Reserved, Sock
      <4> QED BY <2>3, <4>1, <4>2, FileKinds
    <3> QED BY <1>2, <2>2, <2>3, <3>1
  <2> QED BY <1>1, <2>1, <2>3, OwnKept DEF Only
<1>7. \A e \in Conns : \A g, h \in reading'[e] : g = h
  BY DEF Only, IInv, ProcInv
<1>8. ProcInv' /\ HoldsInv' /\ StagesConnected'
  BY <1>2, <1>7, HistoryKept DEF LocalsTyped
<1> QED BY <1>3, <1>4, <1>5, <1>6, <1>8 DEF IInv

LEMMA PcTyped ==
  ASSUME LocalsTyped, NEW c \in Conns, NEW l \in ThreadStates, Goto(c, l)
  PROVE  /\ pc' \in [Conns -> ThreadStates] /\ pc'[c] = l
         /\ \A e \in Conns \ {c} : pc'[e] = pc[e]
BY DEF LocalsTyped, Goto

LEMMA MineFacts ==
  ASSUME NEW c
  PROVE  /\ Sock(c) \in Mine(c)
         /\ \A k \in 0 .. MaxWidth :
              ReadEnd(cmd[c], k) \in Mine(c) /\ WriteEnd(cmd[c], k) \in Mine(c)
BY DEF Mine

\* On the way through a command its number, its stage and its stages are known.
LEMMA AtWork ==
  ASSUME IInv, NEW c \in Conns, pc[c] \notin Idle
  PROVE  /\ cmd[c] \in Commands /\ cmd[c] # 0
         /\ width[cmd[c]] \in 1 .. MaxWidth
         /\ stage[c] \in 1 .. width[cmd[c]] /\ stage[c] \in 0 .. MaxWidth
         /\ width[cmd[c]] \in 0 .. MaxWidth /\ width[cmd[c]] - 1 \in 0 .. MaxWidth
         /\ Progress(c)
<1>1. /\ cmd[c] \in Commands \cup {0} /\ Progress(c)
      /\ width \in [Commands -> Widths \cup {0}]
  BY DEF IInv, CommandInv
<1>2. cmd[c] \in Commands /\ cmd[c] # 0 /\ width[cmd[c]] # 0 /\ stage[c] \in 1 .. width[cmd[c]]
  BY <1>1 DEF Progress
<1>3. width[cmd[c]] \in 1 .. MaxWidth
  BY <1>1, <1>2 DEF Widths
<1>4. MaxWidth \in Nat
  BY Bounds
<1> QED BY <1>1, <1>2, <1>3, <1>4

LEMMA RecvEndsInv ==
  ASSUME IInv, NEW c \in Conns, RecvEnds(c)
  PROVE  IInv'
<1>1. /\ pc[c] = "recv" /\ Close(connfd[c], Sock(c))
      /\ Goto(c, "over")
      /\ reading' = [reading EXCEPT ![c] = {}]
      /\ UNCHANGED <<accepting, connfd, cmd, stage, recvpipe, pipefd, in, width, owner, procs>>
  BY DEF RecvEnds, locals, history
<1>2. LocalsTyped /\ FdInv /\ connfd[c] \in Fds \cup {0}
  BY Typed DEF IInv, FdInv
<1>3. /\ pc' \in [Conns -> ThreadStates] /\ pc'[c] = "over"
      /\ \A e \in Conns \ {c} : pc'[e] = pc[e]
  BY <1>1, <1>2, PcTyped DEF ThreadStates
<1>4. LocalsTyped' /\ reading'[c] = {}
  BY <1>1, <1>2, <1>3 DEF LocalsTyped
<1>5. Only(c)
  BY <1>1, <1>2, <1>3 DEF Only, LocalsTyped
<1>6. Progress(c)'
  BY <1>1, <1>3 DEF IInv, CommandInv, Progress, Idle, LastPart
<1>7. connfd[c] # 0 => table'[connfd[c]] \notin OpenFiles
  BY <1>1, <1>2, CloseFacts
<1>8. Accounts(c)
  BY <1>1, <1>2, <1>7, FileKinds, Bounds
  DEF Accounts, KeepsRead, KeepsWrite, Idle
<1>9. Own(c)'
  BY <1>3 DEF Own, Idle
<1> QED BY <1>1, <1>2, <1>4, <1>5, <1>6, <1>8, <1>9, MineFacts, ThreadCloses

\* The next place after close(pipefd[1]).
LEMMA NextStageFacts ==
  ASSUME IInv, NEW c \in Conns, pc[c] = "closeW", NextStage(c)
  PROVE  /\ pc' \in [Conns -> ThreadStates] /\ stage' \in [Conns -> 0 .. MaxWidth]
         /\ \A e \in Conns \ {c} : pc'[e] = pc[e] /\ stage'[e] = stage[e]
         /\ IF stage[c] = width[cmd[c]]
              THEN stage'[c] = stage[c] /\ pc'[c] = "closeR"
              ELSE /\ stage'[c] = stage[c] + 1
                   /\ pc'[c] = IF stage[c] + 1 = width[cmd[c]] THEN "fork" ELSE "pipe"
<1>1. LocalsTyped
  BY Typed
<1>2. /\ width[cmd[c]] \in 1 .. MaxWidth /\ stage[c] \in 1 .. width[cmd[c]]
      /\ MaxWidth \in Nat
  BY AtWork, Bounds DEF Idle
<1>3. CASE LastStage(c)
  <2>1. stage' = [stage EXCEPT ![c] = stage[c]]
    BY <1>3 DEF NextStage
  <2>2. stage[c] + 1 # width[cmd[c]]
    BY <1>2, <1>3 DEF LastStage
  <2>3. Goto(c, "closeR")
    BY <1>3, <2>2 DEF NextStage, Goto
  <2> QED BY <1>1, <1>3, <2>1, <2>3, PcTyped DEF LastStage, LocalsTyped, ThreadStates
<1>4. CASE ~LastStage(c)
  <2>1. /\ stage' = [stage EXCEPT ![c] = stage[c] + 1]
        /\ Goto(c, IF stage[c] + 1 = width[cmd[c]] THEN "fork" ELSE "pipe")
    <3>1. CASE stage[c] + 1 = width[cmd[c]]
      BY <1>4, <3>1 DEF NextStage
    <3>2. CASE stage[c] + 1 # width[cmd[c]]
      BY <1>4, <3>2 DEF NextStage
    <3> QED BY <3>1, <3>2
  <2>2. stage[c] + 1 \in 0 .. MaxWidth
    BY <1>2, <1>4 DEF LastStage
  <2>3. (IF stage[c] + 1 = width[cmd[c]] THEN "fork" ELSE "pipe") \in ThreadStates
    BY DEF ThreadStates
  <2>4. stage[c] # width[cmd[c]]
    BY <1>4 DEF LastStage
  <2> QED BY <1>1, <2>1, <2>2, <2>3, <2>4, PcTyped DEF LocalsTyped
<1> QED BY <1>3, <1>4

LEMMA ClosePipeWriteInv ==
  ASSUME IInv, NEW c \in Conns, ClosePipeWrite(c)
  PROVE  IInv'
<1>1. /\ pc[c] = "closeW" /\ NextStage(c)
      /\ Close(pipefd[c][2], WriteEnd(cmd[c], stage[c]))
      /\ UNCHANGED <<accepting, connfd, reading, cmd, recvpipe, pipefd, in, width, owner, procs>>
  BY DEF ClosePipeWrite, history
<1>2. /\ LocalsTyped /\ FdInv
      /\ pipefd[c][1] \in Fds \cup {0} /\ pipefd[c][2] \in Fds \cup {0}
  BY Typed DEF IInv, FdInv
<1>3. /\ cmd[c] \in Commands /\ cmd[c] # 0
      /\ width[cmd[c]] \in 1 .. MaxWidth
      /\ stage[c] \in 1 .. width[cmd[c]] /\ stage[c] \in 0 .. MaxWidth
      /\ Progress(c) /\ MaxWidth \in Nat
  BY <1>1, AtWork, Bounds DEF Idle
<1>4. /\ pc' \in [Conns -> ThreadStates] /\ stage' \in [Conns -> 0 .. MaxWidth]
      /\ \A e \in Conns \ {c} : pc'[e] = pc[e] /\ stage'[e] = stage[e]
      /\ IF stage[c] = width[cmd[c]]
           THEN stage'[c] = stage[c] /\ pc'[c] = "closeR"
           ELSE /\ stage'[c] = stage[c] + 1
                /\ pc'[c] = IF stage[c] + 1 = width[cmd[c]] THEN "fork" ELSE "pipe"
  BY <1>1, NextStageFacts
<1>5. LocalsTyped'
  BY <1>1, <1>2, <1>4 DEF LocalsTyped
<1>6. Only(c)
  BY <1>1, <1>2, <1>4 DEF Only, LocalsTyped
<1>7. Progress(c)'
  BY <1>1, <1>3, <1>4 DEF Progress, Idle, LastPart
<1>8. pipefd[c][2] # 0 => table'[pipefd[c][2]] \notin OpenFiles
  BY <1>1, <1>2, CloseFacts
<1>9. Accounts(c)
  <2>1. \A d \in Fds, k \in 0 .. MaxWidth :
          k < width[cmd[c]] /\ KeepsRead(c, k, d) => Lost(cmd[c], k) \/ KeepsRead(c, k, d)'
    <3> SUFFICES ASSUME NEW d \in Fds, NEW k \in 0 .. MaxWidth,
                        k < width[cmd[c]], KeepsRead(c, k, d), ~Lost(cmd[c], k)
                 PROVE  KeepsRead(c, k, d)'
      OBVIOUS
    <3>1. CASE k = 0
      BY <1>1, <1>4, <3>1 DEF KeepsRead, Idle
    <3>2. CASE k # 0
      <4>1. d = pipefd[c][1] /\ k <= stage[c] /\ k > width[cmd[c]] - 2
        BY <1>3, <3>2 DEF KeepsRead, Lost
      <4>2. k <= stage'[c] /\ pc'[c] \in {"fork", "closeR"}
        BY <1>3, <1>4, <4>1
      <4> QED BY <1>1, <3>2, <4>1, <4>2 DEF KeepsRead
    <3> QED BY <3>1, <3>2
  <2>2. \A d \in Fds, k \in 0 .. MaxWidth :
          table'[d] = WriteEnd(cmd[c], k) /\ KeepsWrite(c, k, d) => KeepsWrite(c, k, d)'
    <3> SUFFICES ASSUME NEW d \in Fds, NEW k \in 0 .. MaxWidth,
                        table'[d] = WriteEnd(cmd[c], k), KeepsWrite(c, k, d)
                 PROVE  KeepsWrite(c, k, d)'
      OBVIOUS
    <3>1. WriteEnd(cmd[c], k) \in OpenFiles
      BY <1>3, FileKinds
    <3>2. d # pipefd[c][2]
      BY <1>8, <3>1, Bounds
    <3>3. k = 0
      BY <3>2 DEF KeepsWrite
    <3> QED BY <1>1, <1>4, <3>3 DEF KeepsWrite, Idle
  <2>3. pc[c] \notin Idle /\ pc'[c] \notin Idle
    BY <1>1, <1>4 DEF Idle
  <2> QED BY <1>1, <2>1, <2>2, <2>3 DEF Accounts, Idle
<1>10. ASSUME ~stray' PROVE Own(c)'
  <2>1. /\ ~stray
        /\ \A e \in Fds : table[e] \in OpenFiles \ {WriteEnd(cmd[c], stage[c])}
                            => table'[e] = table[e]
    BY <1>1, <1>2, <1>10, CloseFacts
  <2>2. Own(c)
    BY <2>1 DEF IInv, OwnInv
  <2>3. /\ connfd[c] \in Fds \cup {0} /\ recvpipe[c][1] \in Fds \cup {0}
        /\ in[c] \in Fds \cup {0}
    BY <1>2 DEF FdInv
  <2>4. /\ Refers(connfd[c], Sock(c)) => Refers(connfd[c], Sock(c))'
        /\ Refers(recvpipe[c][1], ReadEnd(cmd[c], 0))
             => Refers(recvpipe[c][1], ReadEnd(cmd[c], 0))'
        /\ Refers(in[c], ReadEnd(cmd[c], stage[c]))
             => in[c] # 0 /\ table'[in[c]] = ReadEnd(cmd[c], stage[c])
    BY <1>1, <1>3, <2>1, <2>3, FileNames, FileKinds
    DEF Refers
  <2> QED BY <1>1, <1>3, <1>4, <2>2, <2>4 DEF Own, Refers, Idle
<1>11. /\ WriteEnd(cmd[c], stage[c]) \in Mine(c)
       /\ \A g, h \in reading'[c] : g = h
  BY <1>1, <1>3, MineFacts DEF IInv, ProcInv
<1> QED BY <1>1, <1>2, <1>3, <1>5, <1>6, <1>7, <1>9, <1>10, <1>11, ThreadCloses

\* close(pipefd[0]): a command of one process has no such pipe.
LEMMA ClosePipeReadInv ==
  ASSUME IInv, NEW c \in Conns, ClosePipeRead(c)
  PROVE  IInv'
<1>1. /\ pc[c] = "closeR" /\ Goto(c, "parent_fork")
      /\ Close(pipefd[c][1], ReadEnd(cmd[c], width[cmd[c]] - 1))
      /\ UNCHANGED <<accepting, connfd, reading, cmd, stage, recvpipe, pipefd, in,
                     width, owner, procs>>
  BY DEF ClosePipeRead, locals, history
<1>2. LocalsTyped /\ FdInv /\ pipefd[c][1] \in Fds \cup {0}
  BY Typed DEF IInv, FdInv
<1>3. /\ cmd[c] \in Commands /\ cmd[c] # 0
      /\ width[cmd[c]] \in 1 .. MaxWidth /\ width[cmd[c]] - 1 \in 0 .. MaxWidth
      /\ stage[c] \in 1 .. width[cmd[c]] /\ stage[c] \in 0 .. MaxWidth
      /\ Progress(c)
  BY <1>1, AtWork DEF Idle
<1>4. /\ pc' \in [Conns -> ThreadStates] /\ pc'[c] = "parent_fork"
      /\ \A e \in Conns \ {c} : pc'[e] = pc[e]
  BY <1>1, <1>2, PcTyped DEF ThreadStates
<1>5. LocalsTyped' /\ Only(c)
  BY <1>1, <1>2, <1>4 DEF LocalsTyped, Only
<1>6. Progress(c)'
  BY <1>1, <1>3, <1>4 DEF Progress, Idle, LastPart
<1>7. pipefd[c][1] # 0 => table'[pipefd[c][1]] \notin OpenFiles
  BY <1>1, <1>2, CloseFacts
<1>8. Accounts(c)
  <2>1. \A d \in Fds, k \in 0 .. MaxWidth :
          table'[d] = ReadEnd(cmd[c], k) /\ KeepsRead(c, k, d) => KeepsRead(c, k, d)'
    <3> SUFFICES ASSUME NEW d \in Fds, NEW k \in 0 .. MaxWidth,
                        table'[d] = ReadEnd(cmd[c], k), KeepsRead(c, k, d)
                 PROVE  KeepsRead(c, k, d)'
      OBVIOUS
    <3>1. ReadEnd(cmd[c], k) \in OpenFiles
      BY <1>3, FileKinds
    <3>2. d # pipefd[c][1]
      BY <1>7, <3>1, Bounds
    <3> QED BY <1>1, <1>4, <3>2 DEF KeepsRead, Idle
  <2>2. \A d \in Fds, k \in 0 .. MaxWidth : KeepsWrite(c, k, d) => KeepsWrite(c, k, d)'
    BY <1>1, <1>4 DEF KeepsWrite, Idle
  <2>3. pc[c] \notin Idle /\ pc'[c] \notin Idle
    BY <1>1, <1>4 DEF Idle
  <2> QED BY <1>1, <2>1, <2>2, <2>3 DEF Accounts, Idle
<1>9. ASSUME ~stray' PROVE Own(c)'
  <2>1. /\ ~stray
        /\ \A e \in Fds : table[e] \in OpenFiles \ {ReadEnd(cmd[c], width[cmd[c]] - 1)}
                            => table'[e] = table[e]
        /\ pipefd[c][1] = 0 => table' = table
    BY <1>1, <1>2, <1>9, CloseFacts
  <2>2. Own(c)
    BY <2>1 DEF IInv, OwnInv
  <2>3. connfd[c] \in Fds \cup {0} /\ recvpipe[c][1] \in Fds \cup {0}
    BY <1>2 DEF FdInv
  <2>4. Refers(connfd[c], Sock(c)) => Refers(connfd[c], Sock(c))'
    BY <1>1, <2>1, <2>3, FileNames, FileKinds DEF Refers
  <2>5. Refers(recvpipe[c][1], ReadEnd(cmd[c], 0))
          => Refers(recvpipe[c][1], ReadEnd(cmd[c], 0))'
    <3>1. PICK f : f = ReadEnd(cmd[c], 0)
      OBVIOUS
    <3>2. f \in OpenFiles
      <4>1. 0 \in 0 .. MaxWidth
        BY Bounds
      <4> QED BY <1>3, <3>1, <4>1, FileKinds
    <3>3. CASE width[cmd[c]] = 1
      BY <1>1, <1>3, <2>1, <3>3 DEF Progress, Idle, Refers
    <3>4. CASE width[cmd[c]] # 1
      <4>1. f # ReadEnd(cmd[c], width[cmd[c]] - 1)
        BY <1>3, <3>1, <3>4, FileNames
      <4>2. Refers(recvpipe[c][1], f) => recvpipe[c][1] # 0 /\ table'[recvpipe[c][1]] = f
        BY <2>1, <2>3, <3>2, <4>1 DEF Refers
      <4> QED BY <1>1, <3>1, <4>2 DEF Refers
    <3> QED BY <3>3, <3>4
  <2> QED BY <1>1, <1>4, <2>2, <2>4, <2>5 DEF Own, Idle, Sock
<1>10. /\ ReadEnd(cmd[c], width[cmd[c]] - 1) \in Mine(c)
       /\ \A g, h \in reading'[c] : g = h
  BY <1>1, <1>3, MineFacts DEF IInv, ProcInv
<1> QED BY <1>1, <1>2, <1>3, <1>5, <1>6, <1>8, <1>9, <1>10, ThreadCloses

\* parent_fork's close and the first of the two after it.
LEMMA CloseInputInv ==
  ASSUME IInv, NEW c \in Conns, CloseInput(c)
  PROVE  IInv'
<1>1. /\ pc[c] = "closeIn" /\ Goto(c, "close0")
      /\ Close(recvpipe[c][2], WriteEnd(cmd[c], 0))
      /\ UNCHANGED <<accepting, connfd, reading, cmd, stage, recvpipe, pipefd, in,
                     width, owner, procs>>
  BY DEF CloseInput, locals, history
<1>2. LocalsTyped /\ FdInv /\ recvpipe[c][2] \in Fds \cup {0}
  BY Typed DEF IInv, FdInv
<1>3. /\ cmd[c] \in Commands /\ cmd[c] # 0 /\ 0 \in 0 .. MaxWidth
      /\ Progress(c)
  BY <1>1, AtWork, Bounds DEF Idle
<1>4. /\ pc' \in [Conns -> ThreadStates] /\ pc'[c] = "close0"
      /\ \A e \in Conns \ {c} : pc'[e] = pc[e]
  BY <1>1, <1>2, PcTyped DEF ThreadStates
<1>5. LocalsTyped' /\ Only(c)
  BY <1>1, <1>2, <1>4 DEF LocalsTyped, Only
<1>6. Progress(c)'
  BY <1>1, <1>3, <1>4 DEF Progress, Idle, LastPart
<1>7. recvpipe[c][2] # 0 => table'[recvpipe[c][2]] \notin OpenFiles
  BY <1>1, <1>2, CloseFacts
<1>8. Accounts(c)
  <2>1. \A d \in Fds, k \in 0 .. MaxWidth :
          table'[d] = WriteEnd(cmd[c], k) => ~KeepsWrite(c, k, d)
    <3> SUFFICES ASSUME NEW d \in Fds, NEW k \in 0 .. MaxWidth,
                        table'[d] = WriteEnd(cmd[c], k)
                 PROVE  ~KeepsWrite(c, k, d)
      OBVIOUS
    <3>1. WriteEnd(cmd[c], k) \in OpenFiles
      BY <1>3, FileKinds
    <3>2. d # recvpipe[c][2]
      BY <1>7, <3>1, Bounds
    <3> QED BY <1>1, <3>2 DEF KeepsWrite
  <2>2. \A d \in Fds, k \in 0 .. MaxWidth : KeepsRead(c, k, d) => KeepsRead(c, k, d)'
    BY <1>1, <1>4 DEF KeepsRead, Idle
  <2>3. pc[c] \notin Idle /\ pc'[c] \notin Idle
    BY <1>1, <1>4 DEF Idle
  <2> QED BY <1>1, <2>1, <2>2, <2>3 DEF Accounts, Idle
<1>9. ASSUME ~stray' PROVE Own(c)'
  <2>1. /\ ~stray
        /\ \A e \in Fds : table[e] \in OpenFiles \ {WriteEnd(cmd[c], 0)} => table'[e] = table[e]
    BY <1>1, <1>2, <1>9, CloseFacts
  <2>2. Own(c)
    BY <2>1 DEF IInv, OwnInv
  <2>3. connfd[c] \in Fds \cup {0} /\ recvpipe[c][1] \in Fds \cup {0}
    BY <1>2 DEF FdInv
  <2>4. /\ Refers(connfd[c], Sock(c)) => Refers(connfd[c], Sock(c))'
        /\ Refers(recvpipe[c][1], ReadEnd(cmd[c], 0))
             => Refers(recvpipe[c][1], ReadEnd(cmd[c], 0))'
    BY <1>1, <1>3, <2>1, <2>3, FileNames, FileKinds DEF Refers
  <2> QED BY <1>1, <1>4, <2>2, <2>4 DEF Own, Idle
<1>10. WriteEnd(cmd[c], 0) \in Mine(c) /\ \A g, h \in reading'[c] : g = h
  BY <1>1, <1>3, MineFacts DEF IInv, ProcInv
<1> QED BY <1>1, <1>2, <1>3, <1>5, <1>6, <1>8, <1>9, <1>10, ThreadCloses

LEMMA CloseRecvPipeInv ==
  ASSUME IInv, NEW c \in Conns, CloseRecvPipe(c)
  PROVE  IInv'
<1>1. /\ pc[c] = "close0" /\ Goto(c, "close1")
      /\ Close(recvpipe[c][1], ReadEnd(cmd[c], 0))
      /\ UNCHANGED <<accepting, connfd, reading, cmd, stage, recvpipe, pipefd, in,
                     width, owner, procs>>
  BY DEF CloseRecvPipe, locals, history
<1>2. LocalsTyped /\ FdInv /\ recvpipe[c][1] \in Fds \cup {0}
  BY Typed DEF IInv, FdInv
<1>3. /\ cmd[c] \in Commands /\ cmd[c] # 0 /\ 0 \in 0 .. MaxWidth
      /\ Progress(c)
  BY <1>1, AtWork, Bounds DEF Idle
<1>4. /\ pc' \in [Conns -> ThreadStates] /\ pc'[c] = "close1"
      /\ \A e \in Conns \ {c} : pc'[e] = pc[e]
  BY <1>1, <1>2, PcTyped DEF ThreadStates
<1>5. LocalsTyped' /\ Only(c)
  BY <1>1, <1>2, <1>4 DEF LocalsTyped, Only
<1>6. Progress(c)'
  BY <1>1, <1>3, <1>4 DEF Progress, Idle, LastPart
<1>7. recvpipe[c][1] # 0 => table'[recvpipe[c][1]] \notin OpenFiles
  BY <1>1, <1>2, CloseFacts
<1>8. Accounts(c)
  <2>1. \A d \in Fds, k \in 0 .. MaxWidth :
          table'[d] = ReadEnd(cmd[c], k) => ~KeepsRead(c, k, d)
    <3> SUFFICES ASSUME NEW d \in Fds, NEW k \in 0 .. MaxWidth,
                        table'[d] = ReadEnd(cmd[c], k)
                 PROVE  ~KeepsRead(c, k, d)
      OBVIOUS
    <3>1. ReadEnd(cmd[c], k) \in OpenFiles
      BY <1>3, FileKinds
    <3>2. d # recvpipe[c][1]
      BY <1>7, <3>1, Bounds
    <3> QED BY <1>1, <3>2 DEF KeepsRead
  <2>2. \A d \in Fds, k \in 0 .. MaxWidth : ~KeepsWrite(c, k, d)
    BY <1>1 DEF KeepsWrite
  <2>3. pc[c] \notin Idle /\ pc'[c] \notin Idle
    BY <1>1, <1>4 DEF Idle
  <2> QED BY <1>1, <2>1, <2>2, <2>3 DEF Accounts, Idle
<1>9. ASSUME ~stray' PROVE Own(c)'
  <2>1. /\ ~stray
        /\ \A e \in Fds : table[e] \in OpenFiles \ {ReadEnd(cmd[c], 0)} => table'[e] = table[e]
    BY <1>1, <1>2, <1>9, CloseFacts
  <2>2. Own(c)
    BY <2>1 DEF IInv, OwnInv
  <2>3. connfd[c] \in Fds \cup {0}
    BY <1>2 DEF FdInv
  <2>4. Refers(connfd[c], Sock(c)) => Refers(connfd[c], Sock(c))'
    BY <1>1, <2>1, <2>3, FileNames, FileKinds DEF Refers
  <2> QED BY <1>1, <1>4, <2>2, <2>4 DEF Own, Idle, Sock
<1>10. ReadEnd(cmd[c], 0) \in Mine(c) /\ \A g, h \in reading'[c] : g = h
  BY <1>1, <1>3, MineFacts DEF IInv, ProcInv
<1> QED BY <1>1, <1>2, <1>3, <1>5, <1>6, <1>8, <1>9, <1>10, ThreadCloses

\* The second close of recvpipe[1], which may be a stray one.
LEMMA CloseInputAgainInv ==
  ASSUME IInv, NEW c \in Conns, CloseInputAgain(c)
  PROVE  IInv'
<1>1. /\ pc[c] = "close1" /\ Goto(c, "recv")
      /\ Close(recvpipe[c][2], WriteEnd(cmd[c], 0))
      /\ reading' = [reading EXCEPT ![c] = FileAt(table', connfd[c])]
      /\ cmd' = [cmd EXCEPT ![c] = 0]
      /\ stage' = [stage EXCEPT ![c] = 0]
      /\ recvpipe' = [recvpipe EXCEPT ![c] = <<0, 0>>]
      /\ pipefd' = [pipefd EXCEPT ![c] = <<0, 0>>]
      /\ in' = [in EXCEPT ![c] = 0]
      /\ UNCHANGED <<accepting, connfd, width, owner, procs>>
  BY DEF CloseInputAgain, history
<1>2. LocalsTyped /\ FdInv /\ recvpipe[c][2] \in Fds \cup {0}
  BY Typed DEF IInv, FdInv
<1>3. /\ cmd[c] \in Commands /\ cmd[c] # 0 /\ 0 \in 0 .. MaxWidth
      /\ Progress(c)
  BY <1>1, AtWork, Bounds DEF Idle
<1>4. /\ pc' \in [Conns -> ThreadStates] /\ pc'[c] = "recv"
      /\ \A e \in Conns \ {c} : pc'[e] = pc[e]
  BY <1>1, <1>2, PcTyped DEF ThreadStates
<1>5. /\ FileAt(table', connfd[c]) \in SUBSET OpenFiles
      /\ \A g, h \in FileAt(table', connfd[c]) : g = h
  BY DEF FileAt
<1>6. LocalsTyped' /\ Only(c)
  BY <1>1, <1>2, <1>3, <1>4, <1>5 DEF LocalsTyped, Only
<1>7. /\ cmd'[c] = 0 /\ stage'[c] = 0 /\ in'[c] = 0 /\ pipefd'[c] = <<0, 0>>
      /\ reading'[c] = FileAt(table', connfd[c])
  BY <1>1, <1>2 DEF LocalsTyped
<1>8. Progress(c)'
  BY <1>4, <1>7 DEF Progress, Idle, LastPart
<1>9. Accounts(c)
  <2>1. \A d \in Fds, k \in 0 .. MaxWidth : ~KeepsRead(c, k, d) /\ ~KeepsWrite(c, k, d)
    BY <1>1 DEF KeepsRead, KeepsWrite
  <2> QED BY <1>1, <1>4, <2>1 DEF Accounts
<1>10. ASSUME ~stray' PROVE Own(c)'
  <2>1. /\ ~stray
        /\ \A e \in Fds : table[e] \in OpenFiles \ {WriteEnd(cmd[c], 0)} => table'[e] = table[e]
    BY <1>1, <1>2, <1>10, CloseFacts
  <2>2. Own(c)
    BY <2>1 DEF IInv, OwnInv
  <2>3. connfd[c] \in Fds \cup {0} /\ connfd[c] # 0 /\ table[connfd[c]] = Sock(c)
    BY <1>1, <1>2, <2>2 DEF FdInv, Own, Refers
  <2>4. table'[connfd[c]] = Sock(c) /\ Sock(c) \in OpenFiles
    <3>1. Sock(c) \in OpenFiles /\ Sock(c) # WriteEnd(cmd[c], 0)
      BY FileNames, FileKinds
    <3> QED BY <2>1, <2>3, <3>1
  <2>5. reading'[c] = {Sock(c)}
    BY <1>7, <2>3, <2>4 DEF FileAt
  <2> QED BY <1>1, <1>4, <2>3, <2>4, <2>5 DEF Own, Idle, Refers, Sock
<1>11. WriteEnd(cmd[c], 0) \in Mine(c) /\ \A g, h \in reading'[c] : g = h
  BY <1>3, <1>5, <1>7, MineFacts
<1> QED BY <1>1, <1>2, <1>3, <1>6, <1>7, <1>8, <1>9, <1>10, <1>11, ThreadCloses

-----------------------------------------------------------------------------
(* Opens.                                                                  *)

LEMMA NotSpecial ==
  /\ \A c : Sock(c) \notin {Free, Reserved}
  /\ \A n, k : ReadEnd(n, k) \notin {Free, Reserved} /\ WriteEnd(n, k) \notin {Free, Reserved}
  /\ \A c : \A f \in Mine(c) : f \notin {Free, Reserved}
<1>1. /\ \A c : Sock(c) \notin {Free, Reserved}
      /\ \A n, k : ReadEnd(n, k) \notin {Free, Reserved} /\ WriteEnd(n, k) \notin {Free, Reserved}
  BY DEF Sock, ReadEnd, WriteEnd, Free, Reserved
<1> QED BY <1>1 DEF Mine

LEMMA AcceptInv ==
  ASSUME IInv, Accept
  PROVE  IInv'
<1>1. /\ NumbersLeft(1)
      /\ accepting' = LowestFree(table)
      /\ table' = [table EXCEPT ![accepting'] = Reserved]
      /\ UNCHANGED <<pc, connfd, reading, cmd, stage, recvpipe, pipefd, in, width,
                     owner, procs, stray>>
  BY DEF Accept, locals, history
<1>2. PICK r : r = accepting'
  OBVIOUS
<1>3. r \in Fds /\ table[r] = Free
  BY <1>1, <1>2, SomeFree, LowestIsFree
<1>4. FdInv /\ CommandInv /\ PlaceInv
  BY DEF IInv
<1>5. \A d \in Fds : table'[d] = IF d = r THEN Reserved ELSE table[d]
  BY <1>1, <1>2, <1>4 DEF FdInv
<1>6. FdInv'
  BY <1>1, <1>2, <1>3, <1>4, <1>5 DEF FdInv
<1>7. CommandInv'
  BY <1>1, <1>4 DEF CommandInv, Progress, Started
<1>8. PlaceInv'
  <2>1. /\ \A d \in Fds, c \in Conns : table'[d] = Sock(c) => table[d] = Sock(c)
        /\ \A d \in Fds : \A n, k : table'[d] = ReadEnd(n, k) => table[d] = ReadEnd(n, k)
        /\ \A d \in Fds : \A n, k : table'[d] = WriteEnd(n, k) => table[d] = WriteEnd(n, k)
    BY <1>5, NotSpecial
  <2>2. /\ \A c \in Conns : \A k, d : KeepsRead(c, k, d)' <=> KeepsRead(c, k, d)
        /\ \A c \in Conns : \A k, d : KeepsWrite(c, k, d)' <=> KeepsWrite(c, k, d)
        /\ \A n, k : Lost(n, k)' <=> Lost(n, k)
    BY <1>1 DEF KeepsRead, KeepsWrite, Lost
  <2> QED BY <1>1, <1>4, <2>1, <2>2 DEF PlaceInv, Sock, ReadEnd, WriteEnd
<1>9. OwnInv'
  <2> SUFFICES ASSUME ~stray', NEW e \in Conns PROVE Own(e)'
    BY DEF OwnInv
  <2>1. Own(e)
    BY <1>1 DEF IInv, OwnInv
  <2>2. \A x \in Fds : table[x] \in Mine(e) => table'[x] = table[x]
    BY <1>3, <1>5, NotSpecial
  <2> QED BY <1>1, <1>4, <2>1, <2>2, OwnKept
<1>10. ProcInv' /\ HoldsInv' /\ StagesConnected'
  BY <1>1, HistoryKept DEF IInv, ProcInv
<1> QED BY <1>6, <1>7, <1>8, <1>9, <1>10 DEF IInv

LEMMA ConnectInv ==
  ASSUME IInv, NEW c \in Conns, Connect(c)
  PROVE  IInv'
<1>1. /\ pc[c] = "none" /\ accepting # 0
      /\ table' = [table EXCEPT ![accepting] = Sock(c)]
      /\ connfd' = [connfd EXCEPT ![c] = accepting]
      /\ reading' = [reading EXCEPT ![c] = {Sock(c)}]
      /\ pc' = [pc EXCEPT ![c] = "recv"]
      /\ accepting' = 0
      /\ UNCHANGED <<cmd, stage, recvpipe, pipefd, in, width, owner, procs, stray>>
  BY DEF Connect, locals, history
<1>2. FdInv /\ CommandInv /\ PlaceInv /\ LocalsTyped
  BY Typed DEF IInv
<1>3. accepting \in Fds /\ table[accepting] = Reserved
  BY <1>1, <1>2 DEF FdInv
<1>4. \A d \in Fds : table'[d] = IF d = accepting THEN Sock(c) ELSE table[d]
  BY <1>1, <1>2 DEF FdInv
<1>5. /\ pc'[c] = "recv" /\ connfd'[c] = accepting /\ reading'[c] = {Sock(c)}
      /\ "recv" \in ThreadStates /\ Sock(c) \in OpenFiles
  BY <1>1, <1>2, FileKinds DEF LocalsTyped, ThreadStates
<1>6. LocalsTyped' /\ Only(c)
  BY <1>1, <1>2, <1>3, <1>5 DEF LocalsTyped, Only
<1>7. FdInv'
  BY <1>1, <1>2, <1>3, <1>4, <1>5, <1>6 DEF FdInv, LocalsTyped
<1>8. CommandInv'
  <2>1. Progress(c)'
    BY <1>1, <1>2, <1>5 DEF CommandInv, Progress, Idle, LastPart
  <2> QED BY <1>1, <1>2, <1>6, <2>1, CommandMoves DEF LocalsTyped
<1>9. PlaceInv'
  <2>1. /\ \A d \in Fds : \A n, k : table'[d] = ReadEnd(n, k) => table[d] = ReadEnd(n, k)
        /\ \A d \in Fds : \A n, k : table'[d] = WriteEnd(n, k) => table[d] = WriteEnd(n, k)
    BY <1>4, FileNames
  <2>2. /\ \A e \in Conns : \A k, d : KeepsRead(e, k, d) => KeepsRead(e, k, d)'
        /\ \A e \in Conns : \A k, d : KeepsWrite(e, k, d) => KeepsWrite(e, k, d)'
        /\ \A n, k : Lost(n, k)' <=> Lost(n, k)
    BY <1>1, <1>2 DEF KeepsRead, KeepsWrite, Lost, Idle, LocalsTyped
  <2>3. ASSUME NEW d \in Fds, NEW e \in Conns, table'[d] = Sock(e)
        PROVE  d = connfd'[e] /\ pc'[e] \notin {"none", "over"}
    <3>1. CASE d = accepting
      BY <1>4, <1>5, <2>3, <3>1, FileNames
    <3>2. CASE d # accepting
      <4>1. d = connfd[e] /\ pc[e] \notin {"none", "over"}
        BY <1>2, <1>4, <2>3, <3>2 DEF PlaceInv
      <4>2. e # c
        BY <1>1, <4>1
      <4> QED BY <1>6, <4>1, <4>2 DEF Only
    <3> QED BY <3>1, <3>2
  <2> QED BY <1>1, <1>2, <2>1, <2>2, <2>3 DEF PlaceInv, Sock, ReadEnd, WriteEnd
<1>10. OwnInv'
  <2> SUFFICES ASSUME ~stray', NEW e \in Conns PROVE Own(e)'
    BY DEF OwnInv
  <2>1. Own(e)
    BY <1>1 DEF IInv, OwnInv
  <2>2. \A x \in Fds : table[x] \in Mine(e) => table'[x] = table[x]
    BY <1>3, <1>4, NotSpecial
  <2>3. CASE e = c
    <3>1. accepting # 0 /\ table'[accepting] = Sock(c)
      BY <1>1, <1>3, <1>4
    <3> QED BY <1>5, <2>3, <3>1 DEF Own, Idle, Refers, Sock
  <2>4. CASE e # c
    BY <1>1, <1>2, <1>6, <2>1, <2>2, <2>4, OwnKept DEF Only
  <2> QED BY <2>3, <2>4
<1>11. ProcInv' /\ HoldsInv' /\ StagesConnected'
  <2>1. \A e \in Conns : \A f, g \in reading'[e] : f = g
    BY <1>5, <1>6 DEF Only, IInv, ProcInv
  <2> QED BY <1>1, <1>6, <2>1, HistoryKept DEF LocalsTyped
<1> QED BY <1>7, <1>8, <1>9, <1>10, <1>11 DEF IInv

\* A thread opens pipe k of its command.
LEMMA PlaceOpens ==
  ASSUME FdInv, CommandInv, PlaceInv, NEW c \in Conns, Only(c),
         NEW r \in Fds, NEW w \in Fds, r # w, table[r] = Free, table[w] = Free,
         NEW n \in Commands, NEW k \in 0 .. MaxWidth,
         table' = [table EXCEPT ![r] = ReadEnd(n, k), ![w] = WriteEnd(n, k)],
         cmd'[c] = n, connfd'[c] = connfd[c], pc'[c] \notin {"none", "over"},
         KeepsRead(c, k, r)', KeepsWrite(c, k, w)', k < width'[n],
         \A m \in Commands : width[m] # 0 => width'[m] = width[m],
         cmd[c] # 0 => cmd'[c] = cmd[c],
         \A d \in Fds, l \in 0 .. MaxWidth : KeepsRead(c, l, d) => KeepsRead(c, l, d)',
         \A d \in Fds, l \in 0 .. MaxWidth : KeepsWrite(c, l, d) => KeepsWrite(c, l, d)'
  PROVE  PlaceInv'
<1>1. \A d \in Fds : table'[d] = IF d = w THEN WriteEnd(n, k)
                                 ELSE IF d = r THEN ReadEnd(n, k) ELSE table[d]
  BY DEF FdInv
<1>2. ASSUME NEW e \in Conns, NEW m \in Commands, cmd[e] = m
      PROVE  /\ cmd'[e] = m
             /\ \A d \in Fds, l \in 0 .. MaxWidth :
                  /\ KeepsRead(e, l, d) => KeepsRead(e, l, d)'
                  /\ KeepsWrite(e, l, d) => KeepsWrite(e, l, d)'
  <2>1. CASE e = c
    BY <1>2, <2>1, Bounds
  <2>2. CASE e # c
    BY <1>2, <2>2 DEF Only, KeepsRead, KeepsWrite
  <2> QED BY <2>1, <2>2
<1>3. ASSUME NEW m \in Commands, NEW l \in 0 .. MaxWidth, l < width[m]
      PROVE  l < width'[m] /\ (Lost(m, l) => Lost(m, l)')
  <2>1. width[m] \in Nat
    <3>1. width \in [Commands -> Widths \cup {0}] /\ Widths \subseteq Nat
      BY Bounds DEF CommandInv
    <3>2. \A x \in Widths \cup {0} : x \in Nat
      BY <3>1
    <3> QED BY <3>1, <3>2
  <2>2. width'[m] = width[m]
    BY <1>3, <2>1
  <2> QED BY <1>3, <2>2 DEF Lost
<1>4. ASSUME NEW d \in Fds, NEW e \in Conns, table'[d] = Sock(e)
      PROVE  d = connfd'[e] /\ pc'[e] \notin {"none", "over"}
  <2>1. table[d] = Sock(e)
    BY <1>1, <1>4, FileNames
  <2>2. d = connfd[e] /\ pc[e] \notin {"none", "over"}
    BY <2>1 DEF PlaceInv
  <2> QED BY <2>2 DEF Only
<1>5. ASSUME NEW d \in Fds, NEW m \in Commands, NEW l \in 0 .. MaxWidth,
             table'[d] = ReadEnd(m, l)
      PROVE  /\ l < width'[m]
             /\ Lost(m, l)' \/ \E e \in Conns : cmd'[e] = m /\ KeepsRead(e, l, d)'
  <2>1. CASE d = r
    <3>1. m = n /\ l = k
      BY <1>1, <1>5, <2>1, FileNames
    <3> QED BY <2>1, <3>1
  <2>2. CASE d # r
    <3>1. table[d] = ReadEnd(m, l)
      BY <1>1, <1>5, <2>2, FileNames
    <3>2. /\ l < width[m]
          /\ Lost(m, l) \/ \E e \in Conns : cmd[e] = m /\ KeepsRead(e, l, d)
      BY <3>1 DEF PlaceInv
    <3> QED BY <1>2, <1>3, <3>2
  <2> QED BY <2>1, <2>2
<1>6. ASSUME NEW d \in Fds, NEW m \in Commands, NEW l \in 0 .. MaxWidth,
             table'[d] = WriteEnd(m, l)
      PROVE  l < width'[m] /\ \E e \in Conns : cmd'[e] = m /\ KeepsWrite(e, l, d)'
  <2>1. CASE d = w
    <3>1. m = n /\ l = k
      BY <1>1, <1>6, <2>1, FileNames
    <3> QED BY <2>1, <3>1
  <2>2. CASE d # w
    <3>1. table[d] = WriteEnd(m, l)
      BY <1>1, <1>6, <2>2, FileNames
    <3>2. l < width[m] /\ \E e \in Conns : cmd[e] = m /\ KeepsWrite(e, l, d)
      BY <3>1 DEF PlaceInv
    <3> QED BY <1>2, <1>3, <3>2
  <2> QED BY <2>1, <2>2
<1> QED BY <1>4, <1>5, <1>6 DEF PlaceInv, Sock, ReadEnd, WriteEnd

\* The pipe between two processes.
LEMMA MakePipeInv ==
  ASSUME IInv, NEW c \in Conns, MakePipe(c)
  PROVE  IInv'
<1>1. /\ pc[c] = "pipe" /\ NumbersLeft(2)
      /\ table' = Opened(cmd[c], stage[c]).table
      /\ pipefd' = [pipefd EXCEPT ![c] = Opened(cmd[c], stage[c]).fds]
      /\ Goto(c, "fork")
      /\ UNCHANGED <<accepting, connfd, reading, cmd, stage, recvpipe, in,
                     width, owner, procs, stray>>
  BY DEF MakePipe, history
<1>2. FdInv /\ CommandInv /\ PlaceInv /\ LocalsTyped
  BY Typed DEF IInv
<1>3. /\ cmd[c] \in Commands /\ cmd[c] # 0
      /\ width[cmd[c]] \in 1 .. MaxWidth
      /\ stage[c] \in 1 .. width[cmd[c]] /\ stage[c] \in 0 .. MaxWidth
      /\ Progress(c)
  BY <1>1, AtWork DEF Idle
<1>4. stage[c] < width[cmd[c]] /\ stage[c] # 0 /\ width[cmd[c]] # 1
  BY <1>1, <1>3 DEF Progress
<1>5. PICK r \in Fds, w \in Fds :
        /\ r # w /\ table[r] = Free /\ table[w] = Free
        /\ Opened(cmd[c], stage[c]).fds = <<r, w>>
        /\ Opened(cmd[c], stage[c]).table =
             [table EXCEPT ![r] = ReadEnd(cmd[c], stage[c]), ![w] = WriteEnd(cmd[c], stage[c])]
  BY <1>1, <1>2, <1>3, PipeOpens
<1>6. /\ \A d \in Fds : table'[d] = IF d = w THEN WriteEnd(cmd[c], stage[c])
                                    ELSE IF d = r THEN ReadEnd(cmd[c], stage[c]) ELSE table[d]
      /\ table' \in [Fds -> OpenFiles \cup {Free, Reserved}]
  <2>1. ReadEnd(cmd[c], stage[c]) \in OpenFiles /\ WriteEnd(cmd[c], stage[c]) \in OpenFiles
    BY <1>3, FileKinds
  <2> QED BY <1>1, <1>2, <1>5, <2>1 DEF FdInv
<1>7. /\ pc' \in [Conns -> ThreadStates] /\ pc'[c] = "fork"
      /\ \A e \in Conns \ {c} : pc'[e] = pc[e]
  BY <1>1, <1>2, PcTyped DEF ThreadStates
<1>8. /\ LocalsTyped' /\ Only(c) /\ pipefd'[c] = <<r, w>>
  BY <1>1, <1>2, <1>5, <1>7 DEF LocalsTyped, Only
<1>9. FdInv'
  <2>1. accepting # 0 => accepting \in Fds /\ accepting # r /\ accepting # w
    BY <1>2, <1>5, FileKinds DEF FdInv
  <2> QED BY <1>1, <1>2, <1>6, <1>8, <2>1 DEF FdInv, LocalsTyped
<1>10. CommandInv'
  <2>1. Progress(c)'
    BY <1>1, <1>3, <1>4, <1>7 DEF Progress, Idle, LastPart
  <2> QED BY <1>1, <1>2, <1>8, <2>1, CommandMoves DEF LocalsTyped
<1>11. PlaceInv'
  <2>1. KeepsRead(c, stage[c], r)' /\ KeepsWrite(c, stage[c], w)'
    BY <1>1, <1>3, <1>4, <1>7, <1>8 DEF KeepsRead, KeepsWrite
  <2>2. \A d \in Fds, l \in 0 .. MaxWidth :
          /\ KeepsRead(c, l, d) => KeepsRead(c, l, d)'
          /\ KeepsWrite(c, l, d) => KeepsWrite(c, l, d)'
    BY <1>1, <1>7 DEF KeepsRead, KeepsWrite, Idle
  <2> QED BY <1>1, <1>2, <1>3, <1>4, <1>5, <1>7, <1>8, <2>1, <2>2, PlaceOpens
<1>12. OwnInv'
  <2> SUFFICES ASSUME ~stray', NEW e \in Conns PROVE Own(e)'
    BY DEF OwnInv
  <2>1. Own(e) /\ Own(c)
    BY <1>1 DEF IInv, OwnInv
  <2>2. \A x \in Fds : \A f : table[x] = f /\ f \notin {Free, Reserved} => table'[x] = f
    BY <1>5, <1>6
  <2>3. CASE e = c
    <3>1. /\ connfd[c] \in Fds \cup {0} /\ recvpipe[c][1] \in Fds \cup {0}
          /\ in[c] \in Fds \cup {0}
      BY <1>2 DEF FdInv
    <3>2. /\ Refers(connfd[c], Sock(c)) => connfd[c] # 0 /\ table'[connfd[c]] = Sock(c)
          /\ Refers(recvpipe[c][1], ReadEnd(cmd[c], 0))
               => recvpipe[c][1] # 0 /\ table'[recvpipe[c][1]] = ReadEnd(cmd[c], 0)
          /\ Refers(in[c], ReadEnd(cmd[c], stage[c] - 1))
               => in[c] # 0 /\ table'[in[c]] = ReadEnd(cmd[c], stage[c] - 1)
      BY <2>2, <3>1, NotSpecial DEF Refers
    <3>3. /\ r # 0 /\ table'[r] = ReadEnd(cmd[c], stage[c])
          /\ w # 0 /\ table'[w] = WriteEnd(cmd[c], stage[c])
      BY <1>5, <1>6, Bounds
    <3>4. /\ Refers(connfd[c], Sock(c)) /\ reading[c] = {Sock(c)}
          /\ owner[cmd[c]] = {Sock(c)}
          /\ Refers(recvpipe[c][1], ReadEnd(cmd[c], 0))
          /\ IF stage[c] = 1 THEN in[c] = 0
                             ELSE Refers(in[c], ReadEnd(cmd[c], stage[c] - 1))
      BY <1>1, <2>1 DEF Own, Idle
    <3>5. /\ Refers(connfd[c], Sock(c))' /\ reading'[c] = {Sock(c)'}
          /\ owner'[cmd'[c]] = {Sock(c)'}
          /\ Refers(recvpipe[c][1], ReadEnd(cmd[c], 0))'
          /\ IF stage'[c] = 1 THEN in'[c] = 0
                              ELSE Refers(in[c], ReadEnd(cmd[c], stage[c] - 1))'
          /\ Refers(pipefd[c][1], ReadEnd(cmd[c], stage[c]))'
          /\ Refers(pipefd[c][2], WriteEnd(cmd[c], stage[c]))'
      <4>1. /\ Refers(connfd[c], Sock(c))' /\ reading'[c] = {Sock(c)'}
            /\ owner'[cmd'[c]] = {Sock(c)'}
        BY <1>1, <3>2, <3>4 DEF Refers, Sock
      <4>2. Refers(recvpipe[c][1], ReadEnd(cmd[c], 0))'
        BY <1>1, <3>2, <3>4 DEF Refers, ReadEnd
      <4>3. IF stage'[c] = 1 THEN in'[c] = 0
                             ELSE Refers(in[c], ReadEnd(cmd[c], stage[c] - 1))'
        BY <1>1, <3>2, <3>4 DEF Refers, ReadEnd
      <4>4. pipefd'[c][1] = r /\ pipefd'[c][2] = w
        BY <1>8
      <4>5. Refers(pipefd[c][1], ReadEnd(cmd[c], stage[c]))'
        BY <1>1, <3>3, <4>4 DEF Refers, ReadEnd
      <4>6. Refers(pipefd[c][2], WriteEnd(cmd[c], stage[c]))'
        BY <1>1, <3>3, <4>4 DEF Refers, WriteEnd
      <4> QED BY <4>1, <4>2, <4>3, <4>5, <4>6
    <3> QED BY <1>7, <2>3, <3>5 DEF Own, Idle
  <2>4. CASE e # c
    <3>1. \A x \in Fds : table[x] \in Mine(e) => table'[x] = table[x]
      BY <2>2, NotSpecial
    <3> QED BY <1>1, <1>2, <1>8, <2>1, <2>4, <3>1, OwnKept DEF Only
  <2> QED BY <2>3, <2>4
<1>13. ProcInv' /\ HoldsInv' /\ StagesConnected'
  BY <1>1, HistoryKept DEF IInv, ProcInv
<1> QED BY <1>9, <1>10, <1>11, <1>12, <1>13 DEF IInv

-----------------------------------------------------------------------------
(* Forks.                                                                  *)

LEMMA WritersHeld ==
  FdInv => /\ Writers \subseteq OpenFiles
           /\ \A f \in Writers : \E d \in Fds : table[d] = f
BY DEF FdInv, Writers, Inherited, Range

\* A process gets no write end of a pipe between two processes but its own, or
\* one that another thread has just opened.
LEMMA ThreadForks ==
  ASSUME IInv, NEW c \in Conns, Only(c), pc[c] \notin Idle,
         UNCHANGED <<table, accepting, reading, cmd, width, owner, stray>>,
         LocalsTyped', Progress(c)', Accounts(c), ~stray => Own(c)',
         NEW s \in 0 .. MaxWidth, NEW i \in SUBSET OpenFiles, NEW o \in SUBSET OpenFiles,
         procs' = [procs EXCEPT ![<<cmd[c], s>>] =
                     [holds |-> Writers, stdin |-> i, stdout |-> o]],
         \A d \in Fds, k \in 1 .. MaxWidth : KeepsWrite(c, k, d) => k = s,
         ~stray /\ s # 0 =>
           /\ i = {ReadEnd(cmd[c], s - 1)}
           /\ o = IF s = width[cmd[c]] THEN owner[cmd[c]] ELSE {WriteEnd(cmd[c], s)}
  PROVE  IInv'
<1>1. FdInv /\ CommandInv /\ PlaceInv /\ ProcInv
  BY DEF IInv
<1>2. FdInv'
  BY <1>1 DEF FdInv, LocalsTyped
<1>3. CommandInv'
  BY <1>1, CommandMoves DEF LocalsTyped
<1>4. PlaceInv'
  BY <1>1, PlaceMoves
<1>5. OwnInv'
  <2> SUFFICES ASSUME ~stray', NEW e \in Conns, e # c PROVE Own(e)'
    BY DEF OwnInv
  <2>1. Own(e)
    BY DEF IInv, OwnInv
  <2> QED BY <1>1, <2>1, OwnKept DEF Only
<1>6. /\ cmd[c] \in Commands /\ width[cmd[c]] # 0 /\ <<cmd[c], s>> \in Procs
      /\ width[cmd[c]] \in 1 .. MaxWidth
  BY AtWork DEF Procs
<1>7. \A p \in Procs : procs'[p] = IF p = <<cmd[c], s>>
                                     THEN [holds |-> Writers, stdin |-> i, stdout |-> o]
                                     ELSE procs[p]
  BY <1>1, <1>6 DEF ProcInv
<1>8. ProcInv'
  <2>1. [holds |-> Writers, stdin |-> i, stdout |-> o]
          \in [holds : SUBSET OpenFiles, stdin : SUBSET OpenFiles, stdout : SUBSET OpenFiles]
    BY <1>1, WritersHeld
  <2>2. procs' \in [Procs -> [holds : SUBSET OpenFiles, stdin : SUBSET OpenFiles,
                              stdout : SUBSET OpenFiles]]
    BY <1>1, <2>1 DEF ProcInv
  <2>3. \A p \in Procs : width'[p[1]] = 0 => procs'[p] = NoProc
    BY <1>1, <1>6, <1>7 DEF ProcInv
  <2> QED BY <1>1, <2>2, <2>3 DEF ProcInv, NoProc
<1>9. HoldsInv'
  <2> SUFFICES ASSUME NEW n \in Commands, NEW k \in 1 .. MaxWidth, NEW p \in Procs,
                      WriteEnd(n, k) \in procs'[p].holds
               PROVE  width[n] # 0 /\ (p = <<n, k>> \/ stray \/ owner[p[1]] # owner[n])
    BY DEF HoldsInv, WriteEnd
  <2>1. CASE p # <<cmd[c], s>>
    <3>1. WriteEnd(n, k) \in procs[p].holds
      BY <1>7, <2>1
    <3> QED BY <3>1 DEF IInv, HoldsInv
  <2>2. CASE p = <<cmd[c], s>>
    <3>1. WriteEnd(n, k) \in Writers /\ p[1] = cmd[c]
      BY <1>7, <2>2
    <3>2. PICK d \in Fds : table[d] = WriteEnd(n, k)
      BY <1>1, <3>1, WritersHeld
    <3>3. k \in 0 .. MaxWidth /\ k # 0
      OBVIOUS
    <3>4. k < width[n] /\ \E e \in Conns : cmd[e] = n /\ KeepsWrite(e, k, d)
      BY <1>1, <3>2, <3>3 DEF PlaceInv
    <3>5. PICK e \in Conns : cmd[e] = n /\ KeepsWrite(e, k, d)
      BY <3>4
    <3>6. width[n] # 0
      BY <3>3, <3>4
    <3>7. CASE e = c
      BY <2>2, <3>5, <3>6, <3>7
    <3>8. CASE e # c
      <4>1. ~stray => owner[n] = {Sock(e)} /\ owner[cmd[c]] = {Sock(c)}
        BY <3>3, <3>5 DEF IInv, OwnInv, Own, KeepsWrite, Idle
      <4> QED BY <3>1, <3>6, <3>8, <4>1, FileNames
    <3> QED BY <3>7, <3>8
  <2> QED BY <2>1, <2>2
<1>10. StagesConnected'
  <2> SUFFICES ASSUME ~stray', NEW n \in Started', NEW k \in 1 .. width'[n],
                      procs'[<<n, k>>] # NoProc'
               PROVE  /\ procs'[<<n, k>>].stdin = {ReadEnd(n, k - 1)'}
                      /\ procs'[<<n, k>>].stdout =
                           IF k = width'[n] THEN owner'[n] ELSE {WriteEnd(n, k)'}
    BY DEF StagesConnected
  <2>0. /\ ~stray /\ n \in Commands /\ width[n] # 0 /\ k \in 1 .. width[n]
        /\ procs'[<<n, k>>] # NoProc
        /\ ReadEnd(n, k - 1)' = ReadEnd(n, k - 1) /\ WriteEnd(n, k)' = WriteEnd(n, k)
        /\ width' = width /\ owner' = owner
    BY DEF Started, NoProc, ReadEnd, WriteEnd
  <2>1. <<n, k>> \in Procs
    <3>1. width[n] \in 1 .. MaxWidth /\ MaxWidth \in Nat
      BY <1>1, <2>0, Bounds DEF CommandInv, Widths
    <3> QED BY <2>0, <3>1 DEF Procs
  <2>2. CASE <<n, k>> = <<cmd[c], s>>
    <3>1. n = cmd[c] /\ k = s /\ s # 0
      BY <2>2
    <3>2. procs'[<<n, k>>].stdin = i /\ procs'[<<n, k>>].stdout = o
      BY <1>7, <2>1, <2>2
    <3>3. /\ i = {ReadEnd(n, k - 1)}
          /\ o = IF k = width[n] THEN owner[n] ELSE {WriteEnd(n, k)}
      BY <2>0, <3>1
    <3> QED BY <2>0, <3>2, <3>3
  <2>3. CASE <<n, k>> # <<cmd[c], s>>
    <3>1. procs'[<<n, k>>] = procs[<<n, k>>]
      BY <1>7, <2>1, <2>3
    <3> QED BY <2>0, <3>1 DEF IInv, StagesConnected, Started
  <2> QED BY <2>2, <2>3
<1> QED BY <1>2, <1>3, <1>4, <1>5, <1>8, <1>9, <1>10 DEF IInv

LEMMA FoundAt ==
  /\ \A d : At(d) \subseteq OpenFiles
  /\ \A d, f : Refers(d, f) /\ f \in OpenFiles => At(d) = {f}
BY DEF At, FileAt, Refers

\* The fork of a process.
LEMMA ForkInv ==
  ASSUME IInv, NEW c \in Conns, Fork(c)
  PROVE  IInv'
<1> DEFINE i == IF in[c] # 0 THEN At(in[c]) ELSE At(recvpipe[c][1])
           o == IF LastStage(c) THEN At(connfd[c]) ELSE At(pipefd[c][2])
<1>1. /\ pc[c] = "fork"
      /\ procs' = [procs EXCEPT ![<<cmd[c], stage[c]>>] =
                     [holds |-> Writers, stdin |-> i, stdout |-> o]]
      /\ in' = [in EXCEPT ![c] = pipefd[c][1]]
      /\ Goto(c, "closeW")
      /\ UNCHANGED <<table, accepting, connfd, reading, cmd, stage, recvpipe, pipefd,
                     width, owner, stray>>
  BY DEF Fork, Child, history
<1>2. /\ LocalsTyped /\ FdInv
      /\ pipefd[c][1] \in Fds \cup {0}
  BY Typed DEF IInv, FdInv
<1>3. /\ cmd[c] \in Commands /\ cmd[c] # 0 /\ 0 \in 0 .. MaxWidth
      /\ width[cmd[c]] \in 1 .. MaxWidth
      /\ stage[c] \in 1 .. width[cmd[c]] /\ stage[c] \in 0 .. MaxWidth
      /\ stage[c] - 1 \in 0 .. MaxWidth
      /\ Progress(c)
  BY <1>1, AtWork, Bounds DEF Idle
<1>4. /\ pc' \in [Conns -> ThreadStates] /\ pc'[c] = "closeW"
      /\ \A e \in Conns \ {c} : pc'[e] = pc[e]
  BY <1>1, <1>2, PcTyped DEF ThreadStates
<1>5. LocalsTyped' /\ Only(c) /\ in'[c] = pipefd[c][1]
  BY <1>1, <1>2, <1>4 DEF LocalsTyped, Only
<1>6. Progress(c)'
  BY <1>1, <1>3, <1>4 DEF Progress, Idle, LastPart
<1>7. Accounts(c)
  <2>1. \A d \in Fds, k \in 0 .. MaxWidth :
          /\ KeepsRead(c, k, d) => KeepsRead(c, k, d)'
          /\ KeepsWrite(c, k, d) => KeepsWrite(c, k, d)'
    BY <1>1, <1>4 DEF KeepsRead, KeepsWrite, Idle
  <2>2. pc[c] \notin Idle /\ pc'[c] \notin Idle
    BY <1>1, <1>4 DEF Idle
  <2> QED BY <1>1, <2>1, <2>2 DEF Accounts, Idle
<1>8. i \in SUBSET OpenFiles /\ o \in SUBSET OpenFiles
  BY FoundAt
<1>9. \A d \in Fds, k \in 1 .. MaxWidth : KeepsWrite(c, k, d) => k = stage[c]
  BY DEF KeepsWrite
<1>10. ASSUME ~stray
       PROVE  /\ Refers(connfd[c], Sock(c)) /\ reading[c] = {Sock(c)}
              /\ owner[cmd[c]] = {Sock(c)}
              /\ Refers(recvpipe[c][1], ReadEnd(cmd[c], 0))
              /\ IF stage[c] = 1 THEN in[c] = 0
                                ELSE Refers(in[c], ReadEnd(cmd[c], stage[c] - 1))
              /\ stage[c] < width[cmd[c]] =>
                   /\ Refers(pipefd[c][1], ReadEnd(cmd[c], stage[c]))
                   /\ Refers(pipefd[c][2], WriteEnd(cmd[c], stage[c]))
  BY <1>1, <1>10 DEF IInv, OwnInv, Own, Idle
<1>11. ASSUME ~stray PROVE Own(c)'
  <2>1. Refers(connfd[c], Sock(c))' /\ reading'[c] = {Sock(c)'} /\ owner'[cmd'[c]] = {Sock(c)'}
    BY <1>1, <1>10, <1>11 DEF Refers, Sock
  <2>2. Refers(recvpipe[c][1], ReadEnd(cmd[c], 0))'
    BY <1>1, <1>10, <1>11 DEF Refers, ReadEnd
  <2>3. stage'[c] < width'[cmd'[c]] => Refers(in[c], ReadEnd(cmd[c], stage[c]))'
    BY <1>1, <1>5, <1>10, <1>11 DEF Refers, ReadEnd
  <2> QED BY <1>4, <2>1, <2>2, <2>3 DEF Own, Idle
<1>12. ASSUME ~stray
       PROVE  /\ i = {ReadEnd(cmd[c], stage[c] - 1)}
              /\ o = IF stage[c] = width[cmd[c]] THEN owner[cmd[c]]
                                                ELSE {WriteEnd(cmd[c], stage[c])}
  <2>1. i = {ReadEnd(cmd[c], stage[c] - 1)}
    <3>1. ReadEnd(cmd[c], 0) \in OpenFiles /\ ReadEnd(cmd[c], stage[c] - 1) \in OpenFiles
      BY <1>3, FileKinds
    <3>2. CASE stage[c] = 1
      <4>1. i = At(recvpipe[c][1]) /\ stage[c] - 1 = 0
        BY <1>10, <1>12, <3>2
      <4>2. At(recvpipe[c][1]) = {ReadEnd(cmd[c], 0)}
        BY <1>10, <1>12, <3>1, FoundAt
      <4> QED BY <4>1, <4>2
    <3>3. CASE stage[c] # 1
      <4>1. Refers(in[c], ReadEnd(cmd[c], stage[c] - 1))
        BY <1>10, <1>12, <3>3
      <4>2. i = At(in[c])
        BY <4>1 DEF Refers
      <4> QED BY <3>1, <4>1, <4>2, FoundAt
    <3> QED BY <3>2, <3>3
  <2>2. CASE LastStage(c)
    <3>1. Sock(c) \in OpenFiles /\ Refers(connfd[c], Sock(c)) /\ owner[cmd[c]] = {Sock(c)}
      BY <1>10, <1>12, FileKinds
    <3>2. o = {Sock(c)}
      BY <2>2, <3>1, FoundAt
    <3>3. stage[c] = width[cmd[c]]
      BY <2>2 DEF LastStage
    <3> HIDE DEF o
    <3> QED BY <2>1, <3>1, <3>2, <3>3
  <2>3. CASE ~LastStage(c)
    <3>1. stage[c] < width[cmd[c]] /\ stage[c] # width[cmd[c]]
      BY <1>3, <2>3 DEF LastStage
    <3>2. WriteEnd(cmd[c], stage[c]) \in OpenFiles
      BY <1>3, FileKinds
    <3>3. At(pipefd[c][2]) = {WriteEnd(cmd[c], stage[c])}
      BY <1>10, <1>12, <3>1, <3>2, FoundAt
    <3>4. o = {WriteEnd(cmd[c], stage[c])}
      BY <2>3, <3>3
    <3> HIDE DEF o
    <3> QED BY <2>1, <3>1, <3>4
  <2> QED BY <2>2, <2>3
<1> HIDE DEF i, o
<1>13. pc[c] \notin Idle
  BY <1>1 DEF Idle
<1> QED BY <1>1, <1>3, <1>5, <1>6, <1>7, <1>8, <1>9, <1>11, <1>12, <1>13, ThreadForks

\* The fork of the receiver.
LEMMA ForkReceiverInv ==
  ASSUME IInv, NEW c \in Conns, ForkReceiver(c)
  PROVE  IInv'
<1>1. /\ pc[c] = "parent_fork"
      /\ procs' = [procs EXCEPT ![<<cmd[c], 0>>] =
                     [holds |-> Writers, stdin |-> {}, stdout |-> At(recvpipe[c][2])]]
      /\ Goto(c, "closeIn")
      /\ UNCHANGED <<table, accepting, connfd, reading, cmd, stage, recvpipe, pipefd,
                     in, width, owner, stray>>
  BY DEF ForkReceiver, locals, history
<1>2. LocalsTyped
  BY Typed
<1>3. Progress(c) /\ 0 \in 0 .. MaxWidth
  BY <1>1, AtWork, Bounds DEF Idle
<1>4. /\ pc' \in [Conns -> ThreadStates] /\ pc'[c] = "closeIn"
      /\ \A e \in Conns \ {c} : pc'[e] = pc[e]
  BY <1>1, <1>2, PcTyped DEF ThreadStates
<1>5. LocalsTyped' /\ Only(c)
  BY <1>1, <1>2, <1>4 DEF LocalsTyped, Only
<1>6. Progress(c)'
  BY <1>1, <1>3, <1>4 DEF Progress, Idle, LastPart
<1>7. Accounts(c)
  <2>1. \A d \in Fds, k \in 0 .. MaxWidth :
          /\ KeepsRead(c, k, d) => KeepsRead(c, k, d)'
          /\ KeepsWrite(c, k, d) => KeepsWrite(c, k, d)'
    BY <1>1, <1>4 DEF KeepsRead, KeepsWrite, Idle
  <2>2. pc[c] \notin Idle /\ pc'[c] \notin Idle
    BY <1>1, <1>4 DEF Idle
  <2> QED BY <1>1, <2>1, <2>2 DEF Accounts, Idle
<1>8. {} \in SUBSET OpenFiles /\ At(recvpipe[c][2]) \in SUBSET OpenFiles
  BY FoundAt
<1>9. \A d \in Fds, k \in 1 .. MaxWidth : KeepsWrite(c, k, d) => k = 0
  BY <1>1 DEF KeepsWrite
<1>10. ASSUME ~stray PROVE Own(c)'
  <2>1. /\ Refers(connfd[c], Sock(c)) /\ reading[c] = {Sock(c)}
        /\ owner[cmd[c]] = {Sock(c)}
        /\ Refers(recvpipe[c][1], ReadEnd(cmd[c], 0))
    BY <1>1, <1>10 DEF IInv, OwnInv, Own, Idle
  <2>2. Refers(connfd[c], Sock(c))' /\ reading'[c] = {Sock(c)'} /\ owner'[cmd'[c]] = {Sock(c)'}
    BY <1>1, <2>1 DEF Refers, Sock
  <2>3. Refers(recvpipe[c][1], ReadEnd(cmd[c], 0))'
    BY <1>1, <2>1 DEF Refers, ReadEnd
  <2> QED BY <1>4, <2>2, <2>3 DEF Own, Idle
<1>11. pc[c] \notin Idle
  BY <1>1 DEF Idle
<1> QED BY <1>1, <1>3, <1>5, <1>6, <1>7, <1>8, <1>9, <1>10, <1>11, ThreadForks

-----------------------------------------------------------------------------
(* A line arrives.                                                         *)

\* The number of a command that starts is new.
LEMMA NextNumber ==
  ASSUME CommandInv, Started # Commands, NEW n, n = Cardinality(Started) + 1
  PROVE  /\ n \in Commands /\ n # 0 /\ width[n] = 0
         /\ \A e \in Conns : cmd[e] # n
         /\ \A m \in Commands \ {n} : m <= n <=> width[m] # 0
         /\ IsFiniteSet(Started)
<1>1. IsFiniteSet(Started) /\ Cardinality(Started) \in Nat
  <2>1. IsFiniteSet(Commands)
    BY FS_Interval, Bounds DEF Commands
  <2> QED BY <2>1, FS_Subset, FS_CardinalityType DEF Started
<1>2. PICK K \in Nat : K = Cardinality(Started)
  BY <1>1
<1>3. \A m \in Commands : width[m] # 0 <=> m <= K
  BY <1>2 DEF CommandInv
<1>4. PICK m \in Commands : width[m] = 0
  BY DEF Started
<1>5. n = K + 1
  BY <1>2
<1>6. n \in Commands /\ n # 0
  <2>1. m \in Nat /\ ~(m <= K) /\ m \in 1 .. MaxCommands /\ MaxCommands \in Nat
    BY <1>3, <1>4, Bounds DEF Commands
  <2> QED BY <1>5, <2>1 DEF Commands
<1>7. width[n] = 0
  BY <1>3, <1>5, <1>6
<1>8. ASSUME NEW e \in Conns PROVE cmd[e] # n
  <2>1. Progress(e)
    BY DEF CommandInv
  <2> QED BY <1>6, <1>7, <2>1 DEF Progress
<1>9. ASSUME NEW l \in Commands \ {n} PROVE l <= n <=> width[l] # 0
  <2>1. l \in Nat /\ l # n
    BY Bounds
  <2> QED BY <1>3, <1>5, <2>1
<1> QED BY <1>1, <1>6, <1>7, <1>8, <1>9

LEMMA CommandStarts ==
  ASSUME CommandInv, Started # Commands, NEW n, n = Cardinality(Started) + 1,
         NEW l \in Widths, width' = [width EXCEPT ![n] = l],
         NEW c \in Conns, Only(c), LocalsTyped', cmd'[c] = n, Progress(c)'
  PROVE  CommandInv'
<1>1. /\ n \in Commands /\ n # 0 /\ width[n] = 0
      /\ \A e \in Conns : cmd[e] # n
      /\ \A m \in Commands \ {n} : m <= n <=> width[m] # 0
      /\ IsFiniteSet(Started)
  BY NextNumber
<1>2. l # 0 /\ n \in Nat /\ l \in Nat
  BY <1>1, Bounds DEF Widths
<1>3. \A m \in Commands : width'[m] = IF m = n THEN l ELSE width[m]
  BY <1>1 DEF CommandInv
<1>4. Started' = Started \cup {n} /\ n \notin Started
  BY <1>1, <1>2, <1>3 DEF Started
<1>5. Cardinality(Started') = n
  BY <1>1, <1>4, FS_AddElement
<1>6. \A m \in Commands : width'[m] # 0 <=> m <= Cardinality(Started')
  BY <1>1, <1>2, <1>3, <1>5
<1>7. ASSUME NEW e \in Conns PROVE Progress(e)'
  <2>1. CASE e = c
    BY <2>1
  <2>2. CASE e # c
    <3>1. Progress(e) /\ cmd[e] \in Commands \cup {0} /\ cmd[e] # n
      BY <1>1 DEF CommandInv
    <3>2. cmd[e] # 0 => width'[cmd[e]] = width[cmd[e]]
      BY <1>3, <3>1
    <3>3. /\ pc'[e] = pc[e] /\ cmd'[e] = cmd[e] /\ stage'[e] = stage[e]
          /\ pipefd'[e] = pipefd[e] /\ in'[e] = in[e]
      BY <2>2 DEF Only
    <3>4. pc[e] \in {"pipe"} \cup LastPart => pc[e] \notin Idle
      BY DEF LastPart, Idle
    <3> QED BY <3>1, <3>2, <3>3, <3>4 DEF Progress, Idle, LastPart
  <2> QED BY <2>1, <2>2
<1>8. \A d, e \in Conns : cmd'[d] = cmd'[e] /\ cmd'[d] # 0 => d = e
  BY <1>1 DEF CommandInv, Only
<1>9. width' \in [Commands -> Widths \cup {0}]
  BY DEF CommandInv
<1> QED BY <1>6, <1>7, <1>8, <1>9 DEF CommandInv, LocalsTyped

\* Nothing was given to a process of the new command.
LEMMA HistoryStarts ==
  ASSUME IInv, NEW n \in Commands, width[n] = 0, NEW l \in Widths,
         width' = [width EXCEPT ![n] = l],
         NEW f \in SUBSET OpenFiles, owner' = [owner EXCEPT ![n] = f],
         UNCHANGED <<procs, reading, stray>>
  PROVE  ProcInv' /\ HoldsInv' /\ StagesConnected'
<1>1. l # 0
  BY Bounds DEF Widths
<1>2. /\ \A m \in Commands : width'[m] = IF m = n THEN l ELSE width[m]
      /\ \A m \in Commands : owner'[m] = IF m = n THEN f ELSE owner[m]
  BY DEF IInv, CommandInv, ProcInv
<1>3. \A p \in Procs : p[1] = n => procs[p] = NoProc
  BY DEF IInv, ProcInv
<1>4. \A p \in Procs : p[1] \in Commands
  BY DEF Procs
<1>5. ProcInv'
  <2>1. owner' \in [Commands -> SUBSET OpenFiles]
    BY DEF IInv, ProcInv
  <2>2. \A p \in Procs : width'[p[1]] = 0 => procs'[p] = NoProc
    BY <1>1, <1>2, <1>3, <1>4 DEF IInv, ProcInv
  <2> QED BY <2>1, <2>2 DEF IInv, ProcInv, NoProc
<1>6. HoldsInv'
  <2> SUFFICES ASSUME NEW m \in Commands, NEW k \in 1 .. MaxWidth, NEW p \in Procs,
                      WriteEnd(m, k) \in procs[p].holds
               PROVE  width'[m] # 0 /\ (p = <<m, k>> \/ stray \/ owner'[p[1]] # owner'[m])
    BY DEF HoldsInv, WriteEnd
  <2>1. width[m] # 0 /\ (p = <<m, k>> \/ stray \/ owner[p[1]] # owner[m])
    BY DEF IInv, HoldsInv
  <2>2. p[1] # n
    BY <1>3 DEF NoProc
  <2> QED BY <1>2, <1>4, <2>1, <2>2
<1>7. StagesConnected'
  <2> SUFFICES ASSUME ~stray', NEW m \in Started', NEW k \in 1 .. width'[m],
                      procs'[<<m, k>>] # NoProc'
               PROVE  /\ procs'[<<m, k>>].stdin = {ReadEnd(m, k - 1)'}
                      /\ procs'[<<m, k>>].stdout =
                           IF k = width'[m] THEN owner'[m] ELSE {WriteEnd(m, k)'}
    BY DEF StagesConnected
  <2>1. /\ ~stray /\ m \in Commands /\ width'[m] # 0
        /\ procs[<<m, k>>] # NoProc
        /\ ReadEnd(m, k - 1)' = ReadEnd(m, k - 1) /\ WriteEnd(m, k)' = WriteEnd(m, k)
    BY DEF Started, NoProc, ReadEnd, WriteEnd
  <2>2. m # n
    <3>1. <<m, k>> \in Procs
      <4>1. width'[m] \in 1 .. MaxWidth /\ MaxWidth \in Nat
        BY <1>2, <2>1, Bounds DEF IInv, CommandInv, Widths
      <4> QED BY <2>1, <4>1 DEF Procs
    <3> QED BY <1>3, <2>1, <3>1
  <2>3. width'[m] = width[m] /\ owner'[m] = owner[m]
    BY <1>2, <2>1, <2>2
  <2>4. /\ procs[<<m, k>>].stdin = {ReadEnd(m, k - 1)}
        /\ procs[<<m, k>>].stdout = IF k = width[m] THEN owner[m] ELSE {WriteEnd(m, k)}
    <3>1. m \in Started /\ k \in 1 .. width[m]
      BY <2>1, <2>3 DEF Started
    <3> QED BY <2>1, <3>1 DEF IInv, StagesConnected
  <2> QED BY <2>1, <2>3, <2>4
<1> QED BY <1>5, <1>6, <1>7

LEMMA RecvInv ==
  ASSUME IInv, NEW c \in Conns, Recv(c)
  PROVE  IInv'
<1>0. PICK n : n = Cardinality(Started) + 1
  OBVIOUS
<1>1. PICK l \in Widths :
        /\ pc[c] = "recv" /\ reading[c] # {}
        /\ Started # Commands /\ NumbersLeft(2)
        /\ cmd' = [cmd EXCEPT ![c] = n]
        /\ owner' = [owner EXCEPT ![n] = reading[c]]
        /\ width' = [width EXCEPT ![n] = l]
        /\ table' = Opened(n, 0).table
        /\ recvpipe' = [recvpipe EXCEPT ![c] = Opened(n, 0).fds]
        /\ Goto(c, IF l > 1 THEN "pipe" ELSE "fork")
        /\ stage' = [stage EXCEPT ![c] = 1]
        /\ UNCHANGED <<accepting, connfd, reading, pipefd, in, procs, stray>>
  BY <1>0 DEF Recv
<1>2. FdInv /\ CommandInv /\ PlaceInv /\ LocalsTyped /\ Progress(c)
  BY Typed DEF IInv, CommandInv
<1>3. /\ n \in Commands /\ n # 0 /\ width[n] = 0
      /\ \A e \in Conns : cmd[e] # n
  BY <1>0, <1>1, <1>2, NextNumber
<1>4. l \in 1 .. MaxWidth /\ MaxWidth \in Nat /\ 0 \in 0 .. MaxWidth /\ 1 \in 0 .. MaxWidth
  BY Bounds DEF Widths
<1>5. PICK r \in Fds, w \in Fds :
        /\ r # w /\ table[r] = Free /\ table[w] = Free
        /\ Opened(n, 0).fds = <<r, w>>
        /\ Opened(n, 0).table = [table EXCEPT ![r] = ReadEnd(n, 0), ![w] = WriteEnd(n, 0)]
  BY <1>1, <1>2, <1>3, <1>4, PipeOpens
<1>6. /\ \A d \in Fds : table'[d] = IF d = w THEN WriteEnd(n, 0)
                                    ELSE IF d = r THEN ReadEnd(n, 0) ELSE table[d]
      /\ table' \in [Fds -> OpenFiles \cup {Free, Reserved}]
  <2>1. ReadEnd(n, 0) \in OpenFiles /\ WriteEnd(n, 0) \in OpenFiles
    BY <1>3, <1>4, FileKinds
  <2> QED BY <1>1, <1>2, <1>5, <2>1 DEF FdInv
<1>7. /\ pc' \in [Conns -> ThreadStates] /\ pc'[c] = IF l > 1 THEN "pipe" ELSE "fork"
      /\ \A e \in Conns \ {c} : pc'[e] = pc[e]
  <2>1. (IF l > 1 THEN "pipe" ELSE "fork") \in ThreadStates
    BY DEF ThreadStates
  <2> QED BY <1>1, <1>2, <2>1, PcTyped
<1>8. /\ LocalsTyped' /\ Only(c)
      /\ cmd'[c] = n /\ stage'[c] = 1 /\ recvpipe'[c] = <<r, w>>
  <2>1. /\ cmd' \in [Conns -> Commands \cup {0}] /\ cmd'[c] = n
        /\ stage' \in [Conns -> 0 .. MaxWidth] /\ stage'[c] = 1
        /\ recvpipe' \in [Conns -> (Fds \cup {0}) \X (Fds \cup {0})] /\ recvpipe'[c] = <<r, w>>
    BY <1>1, <1>2, <1>3, <1>4, <1>5 DEF LocalsTyped
  <2>2. \A e \in Conns \ {c} :
          cmd'[e] = cmd[e] /\ stage'[e] = stage[e] /\ recvpipe'[e] = recvpipe[e]
    BY <1>1, <1>2 DEF LocalsTyped
  <2> QED BY <1>1, <1>2, <1>7, <2>1, <2>2 DEF LocalsTyped, Only
<1>9. /\ \A m \in Commands : width'[m] = IF m = n THEN l ELSE width[m]
      /\ \A m \in Commands : owner'[m] = IF m = n THEN reading[c] ELSE owner[m]
  BY <1>1, <1>2 DEF CommandInv, IInv, ProcInv
<1>10. FdInv'
  <2>1. accepting # 0 => accepting \in Fds /\ accepting # r /\ accepting # w
    BY <1>2, <1>5, FileKinds DEF FdInv
  <2> QED BY <1>1, <1>2, <1>6, <1>8, <2>1 DEF FdInv, LocalsTyped
<1>11. CommandInv'
  <2>1. pipefd'[c] = <<0, 0>>
    BY <1>1, <1>2 DEF Progress, Idle
  <2>2. width'[cmd'[c]] = l /\ l # 0 /\ 1 \in 1 .. l
    BY <1>3, <1>4, <1>8, <1>9
  <2>3. Progress(c)'
    BY <1>3, <1>4, <1>7, <1>8, <2>1, <2>2 DEF Progress, Idle, LastPart
  <2> QED BY <1>1, <1>2, <1>8, <2>3, <1>0, CommandStarts
<1>12. PlaceInv'
  <2>1. KeepsRead(c, 0, r)' /\ KeepsWrite(c, 0, w)'
    BY <1>7, <1>8 DEF KeepsRead, KeepsWrite, Idle
  <2>2. \A d \in Fds, k \in 0 .. MaxWidth : ~KeepsRead(c, k, d) /\ ~KeepsWrite(c, k, d)
    BY <1>1 DEF KeepsRead, KeepsWrite, Idle
  <2>3. 0 < width'[n] /\ \A m \in Commands : width[m] # 0 => width'[m] = width[m]
    BY <1>3, <1>4, <1>9
  <2>4. cmd[c] = 0 /\ pc'[c] \notin {"none", "over"} /\ connfd'[c] = connfd[c]
    BY <1>1, <1>2, <1>7 DEF Progress, Idle
  <2> QED BY <1>1, <1>2, <1>3, <1>4, <1>5, <1>8, <2>1, <2>2, <2>3, <2>4, PlaceOpens
<1>13. OwnInv'
  <2> SUFFICES ASSUME ~stray', NEW e \in Conns PROVE Own(e)'
    BY DEF OwnInv
  <2>1. Own(e) /\ Own(c)
    BY <1>1 DEF IInv, OwnInv
  <2>2. \A x \in Fds : \A f : table[x] = f /\ f \notin {Free, Reserved} => table'[x] = f
    BY <1>5, <1>6
  <2>3. CASE e = c
    <3>1. Refers(connfd[c], Sock(c)) /\ reading[c] = {Sock(c)} /\ in[c] = 0
      BY <1>1, <1>2, <2>1 DEF Own, Idle, Progress
    <3>2. connfd[c] # 0 /\ table'[connfd[c]] = Sock(c)
      BY <1>2, <2>2, <3>1, NotSpecial DEF Refers, FdInv
    <3>3. /\ Refers(connfd[c], Sock(c))' /\ reading'[c] = {Sock(c)'}
          /\ in'[c] = 0 /\ stage'[c] = 1
      BY <1>1, <1>8, <3>1, <3>2 DEF Refers, Sock
    <3>4. owner'[cmd'[c]] = {Sock(c)'}
      BY <1>3, <1>8, <1>9, <3>1 DEF Sock
    <3>5. Refers(recvpipe[c][1], ReadEnd(cmd[c], 0))'
      <4>1. r # 0 /\ table'[r] = ReadEnd(n, 0)
        BY <1>5, <1>6, Bounds
      <4>2. recvpipe'[c][1] = r
        BY <1>8
      <4> QED BY <1>8, <4>1, <4>2 DEF Refers, ReadEnd
    <3>6. pc'[c] = "fork" => ~(stage'[c] < width'[cmd'[c]])
      BY <1>3, <1>4, <1>7, <1>8, <1>9
    <3> QED BY <1>7, <2>3, <3>3, <3>4, <3>5, <3>6 DEF Own, Idle
  <2>4. CASE e # c
    <3>1. \A x \in Fds : table[x] \in Mine(e) => table'[x] = table[x]
      BY <2>2, NotSpecial
    <3>2. cmd[e] # 0 => width'[cmd[e]] = width[cmd[e]] /\ owner'[cmd[e]] = owner[cmd[e]]
      BY <1>2, <1>3, <1>9 DEF CommandInv
    <3> QED BY <1>1, <1>2, <1>8, <2>1, <2>4, <3>1, <3>2, OwnKept DEF Only
  <2> QED BY <2>3, <2>4
<1>14. ProcInv' /\ HoldsInv' /\ StagesConnected'
  <2>1. reading[c] \in SUBSET OpenFiles
    BY <1>2 DEF LocalsTyped
  <2> QED BY <1>1, <1>3, <2>1, HistoryStarts
<1> QED BY <1>10, <1>11, <1>12, <1>13, <1>14 DEF IInv

-----------------------------------------------------------------------------
(* The invariant holds, and what follows from it.                          *)

LEMMA InitIInv == Init => IInv
<1> SUFFICES ASSUME Init PROVE IInv
  OBVIOUS
<1> USE DEF Init
<1>1. FdInv
  BY DEF FdInv
<1>2. CommandInv
  <2>1. \A c \in Conns : Progress(c)
    BY DEF Progress, Idle, LastPart
  <2>2. \A n \in Commands : width[n] # 0 <=> n <= Cardinality(Started)
    <3>1. Started = {}
      BY DEF Started
    <3>2. \A n \in Commands : n \in Nat /\ n # 0
      BY Bounds
    <3> QED BY <3>1, <3>2, FS_EmptySet
  <2>3. 0 \in 0 .. MaxWidth
    BY Bounds
  <2>4. /\ pc \in [Conns -> ThreadStates] /\ cmd \in [Conns -> Commands \cup {0}]
        /\ stage \in [Conns -> 0 .. MaxWidth] /\ width \in [Commands -> Widths \cup {0}]
    BY <2>3 DEF ThreadStates
  <2> QED BY <2>1, <2>2, <2>4 DEF CommandInv
<1>3. PlaceInv
  BY NotSpecial DEF PlaceInv
<1>4. OwnInv
  BY DEF OwnInv, Own, Idle
<1>5. ProcInv
  <2>1. NoProc \in [holds : SUBSET OpenFiles, stdin : SUBSET OpenFiles,
                    stdout : SUBSET OpenFiles]
    BY DEF NoProc
  <2> QED BY <2>1 DEF ProcInv
<1>6. HoldsInv
  BY DEF HoldsInv, NoProc
<1>7. StagesConnected
  BY DEF StagesConnected, Started
<1> QED BY <1>1, <1>2, <1>3, <1>4, <1>5, <1>6, <1>7 DEF IInv

LEMMA StutterIInv ==
  ASSUME IInv, UNCHANGED vars
  PROVE  IInv'
<1>0. UNCHANGED <<table, accepting, pc, connfd, reading, cmd, stage, recvpipe, pipefd, in,
                  width, owner, procs, stray>>
  BY DEF vars, locals, history
<1>1. FdInv' /\ CommandInv'
  BY <1>0 DEF IInv, FdInv, CommandInv, Progress, Started
<1>2. PlaceInv'
  BY <1>0 DEF IInv, PlaceInv, KeepsRead, KeepsWrite, Lost, Sock, ReadEnd, WriteEnd
<1>3. OwnInv'
  BY <1>0 DEF IInv, OwnInv, Own, Refers, Sock, ReadEnd, WriteEnd
<1>4. ProcInv' /\ HoldsInv' /\ StagesConnected'
  BY <1>0, HistoryKept DEF IInv, ProcInv
<1> QED BY <1>1, <1>2, <1>3, <1>4 DEF IInv

LEMMA NextIInv == IInv /\ [Next]_vars => IInv'
<1> SUFFICES ASSUME IInv, [Next]_vars PROVE IInv'
  OBVIOUS
<1>1. CASE Accept
  BY <1>1, AcceptInv
<1>2. ASSUME NEW c \in Conns, Connect(c) PROVE IInv'
  BY <1>2, ConnectInv
<1>3. ASSUME NEW c \in Conns, ThreadNext(c) PROVE IInv'
  BY <1>3, RecvInv, RecvEndsInv, MakePipeInv, ForkInv, ClosePipeWriteInv, ClosePipeReadInv,
     ForkReceiverInv, CloseInputInv, CloseRecvPipeInv, CloseInputAgainInv
  DEF ThreadNext
<1>4. CASE UNCHANGED vars
  BY <1>4, StutterIInv
<1> QED BY <1>1, <1>2, <1>3, <1>4 DEF Next

LEMMA Inductive == Spec => []IInv
BY InitIInv, NextIInv, PTL DEF Spec

\* Whatever the threads close of each other, every descriptor refers to a file
\* of the daemon and every local of exec_cmd stays a number of the table.
THEOREM TypeCorrect == Spec => []TypeOK
<1>1. IInv => TypeOK
  <2> SUFFICES ASSUME IInv PROVE TypeOK
    OBVIOUS
  <2>1. ASSUME NEW c \in Conns
        PROVE  reading[c] \subseteq OpenFiles /\ Cardinality(reading[c]) <= 1
    <3>1. reading[c] \subseteq OpenFiles
      BY DEF IInv, ProcInv
    <3>2. reading[c] = {} \/ \E f : reading[c] = {f}
      <4>1. \A f, g \in reading[c] : f = g
        BY DEF IInv, ProcInv
      <4>2. ASSUME NEW f \in reading[c] PROVE reading[c] = {f}
        BY <4>1
      <4> QED BY <4>2
    <3>3. Cardinality(reading[c]) \in {0, 1}
      BY <3>2, FS_EmptySet, FS_Singleton
    <3> QED BY <3>1, <3>3
  <2>2. \A p \in Procs : \A f \in {"holds", "stdin", "stdout"} : procs[p][f] \subseteq OpenFiles
    BY DEF IInv, ProcInv
  <2> QED BY <2>1, <2>2 DEF TypeOK, IInv, FdInv, CommandInv, ProcInv
<1> QED BY <1>1, Inductive, PTL

\* A reader of a pipeline sees its input end with the process that writes it,
\* whatever the number of processes: the daemon closes the write end before the
\* next fork, and no other process of the client gets it.
THEOREM PipesEnd == Spec => []PipesEndWithWriter
<1>1. IInv => PipesEndWithWriter
  <2> SUFFICES ASSUME IInv, NEW n \in Started, NEW k \in 1 .. width[n] - 1,
                      \A c \in Conns : cmd[c] = n => stage[c] > k
               PROVE  /\ WriteEnd(n, k) \notin Range(table)
                      /\ \A p \in Procs : WriteEnd(n, k) \in procs[p].holds =>
                           p = <<n, k>> \/ stray \/ owner[p[1]] # owner[n]
    BY DEF PipesEndWithWriter
  <2>1. n \in Commands /\ width[n] \in 1 .. MaxWidth /\ MaxWidth \in Nat
    BY Bounds DEF IInv, CommandInv, Started, Widths
  <2>2. k \in 1 .. MaxWidth /\ k \in 0 .. MaxWidth /\ k # 0
    BY <2>1
  <2>3. ASSUME NEW d \in Fds, table[d] = WriteEnd(n, k) PROVE FALSE
    <3>1. PICK c \in Conns : cmd[c] = n /\ KeepsWrite(c, k, d)
      BY <2>1, <2>2, <2>3 DEF IInv, PlaceInv
    <3>2. k = stage[c] /\ stage[c] > k
      BY <2>2, <3>1 DEF KeepsWrite
    <3> QED BY <2>2, <3>2
  <2>4. WriteEnd(n, k) \notin Range(table)
    BY <2>3 DEF IInv, FdInv, Range
  <2> QED BY <2>1, <2>2, <2>4 DEF IInv, HoldsInv
<1> QED BY <1>1, Inductive, PTL

\* Between command lines the daemon holds the sockets of the connections that
\* are open and the read ends that long pipelines lose, and nothing else, for
\* any number of connections that share its table.
THEOREM NoOtherLeaks == Spec => []NothingElseLeaks
<1>1. IInv => NothingElseLeaks
  <2> DEFINE Socks == {Sock(c) : c \in {d \in Conns : pc[d] = "recv"}}
             Ends == {ReadEnd(q[1], q[2]) :
                       q \in {q \in Started \X (1 .. MaxWidth) : q[2] <= width[q[1]] - 2}}
  <2> SUFFICES ASSUME IInv, \A c \in Conns : pc[c] \in {"none", "recv", "over"},
                      NEW f \in Inherited
               PROVE  f \in Socks \cup Ends
    BY DEF NothingElseLeaks
  <2>1. PICK d \in Fds : table[d] = f
    BY DEF Inherited, IInv, FdInv, Range
  <2>2. f \in OpenFiles
    BY DEF Inherited
  <2>3. \A c \in Conns, k \in 0 .. MaxWidth : ~KeepsRead(c, k, d) /\ ~KeepsWrite(c, k, d)
    BY DEF KeepsRead, KeepsWrite, Idle
  <2>4. ASSUME NEW c \in Conns, f = Sock(c) PROVE f \in Socks
    BY <2>1, <2>4 DEF IInv, PlaceInv
  <2>5. ASSUME NEW n \in Commands, NEW k \in 0 .. MaxWidth, f = ReadEnd(n, k)
        PROVE  f \in Ends
    <3>1. Lost(n, k) /\ width[n] \in 0 .. MaxWidth
      <4>1. Lost(n, k)
        BY <2>1, <2>3, <2>5 DEF IInv, PlaceInv
      <4>2. width[n] \in Widths \cup {0} /\ MaxWidth \in Nat
        BY Bounds DEF IInv, CommandInv
      <4> QED BY <4>1, <4>2 DEF Widths
    <3>2. n \in Started /\ k \in 1 .. MaxWidth /\ k <= width[n] - 2
      BY <3>1 DEF Lost, Started
    <3>3. PICK q : q = <<n, k>>
      OBVIOUS
    <3>4. q \in Started \X (1 .. MaxWidth) /\ q[2] <= width[q[1]] - 2 /\ f = ReadEnd(q[1], q[2])
      BY <2>5, <3>2, <3>3
    <3> QED BY <3>4
  <2>6. ASSUME NEW n \in Commands, NEW k \in 0 .. MaxWidth, f = WriteEnd(n, k)
        PROVE  FALSE
    BY <2>1, <2>3, <2>6 DEF IInv, PlaceInv
  <2> QED BY <2>2, <2>4, <2>5, <2>6, FileKinds
<1> QED BY <1>1, Inductive, PTL

\* Until a thread closes a descriptor of another, the processes of every
\* command line are connected as it was typed, for any number of connections
\* that open, fork and close at the same time.
THEOREM StagesAreConnected == Spec => []StagesConnected
<1>1. IInv => StagesConnected
  BY DEF IInv
<1> QED BY <1>1, Inductive, PTL
=============================================================================
