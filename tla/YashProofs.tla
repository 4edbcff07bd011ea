----------------------------- MODULE YashProofs -----------------------------
(***************************************************************************)
(* Proofs about the standalone shell, for any number of commands and any   *)
(* size of history.  What they rest on is JobsMatchProcesses: a job that   *)
(* was given its group is marked terminated exactly when the leader of the *)
(* group was collected.  For that, no wait may collect the leader of       *)
(* another job; waitpid(0) does not, because a leader that can end has     *)
(* left the shell's group.                                                 *)
(***************************************************************************)
EXTENDS Yash, FiniteSetTheorems, SequenceTheorems, WellFoundedInduction, TLAPS

-----------------------------------------------------------------------------
(* What the functions of yash/job.h do to a list of any length.            *)

\* f lists the set in increasing order.
Enumerates(f, positions) ==
  /\ f \in [1 .. Cardinality(positions) -> positions]
  /\ \A m, n \in 1 .. Cardinality(positions) : m < n => f[m] < f[n]

\* Every set of positions of a list has such an order: there is no least length
\* for which it fails.
LEMMA PositionsEnumerated ==
  \A k \in Nat : \A positions \in SUBSET (1 .. k) :
    IsFiniteSet(positions) /\ \E f : Enumerates(f, positions)
<1> DEFINE Bad == {k \in Nat : \E positions \in SUBSET (1 .. k) :
                     \A f : ~Enumerates(f, positions)}
<1>1. ASSUME NEW k \in Nat, NEW positions \in SUBSET (1 .. k)
      PROVE  IsFiniteSet(positions) /\ Cardinality(positions) \in Nat
  <2>1. IsFiniteSet(1 .. k)
    BY <1>1, FS_Interval
  <2>2. IsFiniteSet(positions)
    BY <2>1, FS_Subset
  <2> QED BY <2>2, FS_CardinalityType
<1>2. ASSUME Bad # {} PROVE FALSE
  <2>1. PICK k \in Bad : \A l \in Bad : ~(<<l, k>> \in OpToRel(<, Nat))
    <3>1. Bad \subseteq Nat
      OBVIOUS
    <3> QED BY <1>2, <3>1, WFMin, NatLessThanWellFounded
  <2>2. PICK positions \in SUBSET (1 .. k) : \A f : ~Enumerates(f, positions)
    OBVIOUS
  <2>3. k \in Nat /\ \A l \in Nat : l < k => l \notin Bad
    BY <2>1 DEF OpToRel
  <2>4. CASE k = 0
    <3>1. positions = {} /\ Cardinality({}) = 0
      BY <2>4, FS_EmptySet
    <3>2. Enumerates([n \in {} |-> 0], positions)
      BY <3>1 DEF Enumerates
    <3> QED BY <2>2, <3>2
  <2>5. CASE k # 0
    <3>1. k - 1 \in Nat /\ k - 1 < k
      BY <2>3, <2>5
    <3>2. k - 1 \notin Bad
      BY <2>3, <3>1
    <3>3. \A P \in SUBSET (1 .. k - 1) : \E f : Enumerates(f, P)
      BY <3>1, <3>2
    <3>4. k \in positions
      <4>1. ASSUME k \notin positions PROVE positions \subseteq 1 .. k - 1
        BY <2>3, <4>1
      <4> QED BY <2>2, <3>3, <4>1
    <3> DEFINE P == positions \ {k}
    <3>5. P \subseteq 1 .. k - 1
      BY <2>3
    <3>6. PICK f : Enumerates(f, P)
      BY <3>3, <3>5
    <3>7. PICK size \in Nat : size = Cardinality(P)
      BY <1>1, <3>1, <3>5
    <3>8. Cardinality(positions) = size + 1
      <4>1. IsFiniteSet(positions) /\ Cardinality(positions) \in Nat
        BY <1>1, <2>3
      <4>2. Cardinality(P) = Cardinality(positions) - 1
        BY <3>4, <4>1, FS_RemoveElement
      <4> QED BY <3>7, <4>1, <4>2
    <3> DEFINE g == [n \in 1 .. size + 1 |-> IF n = size + 1 THEN k ELSE f[n]]
    <3>9. /\ f \in [1 .. size -> P]
          /\ \A m, n \in 1 .. size : m < n => f[m] < f[n]
      BY <3>6, <3>7 DEF Enumerates
    <3>10. g \in [1 .. size + 1 -> positions]
      <4> SUFFICES ASSUME NEW n \in 1 .. size + 1
                   PROVE  (IF n = size + 1 THEN k ELSE f[n]) \in positions
        OBVIOUS
      <4>1. CASE n = size + 1
        BY <3>4, <4>1
      <4>2. CASE n # size + 1
        <5>1. n \in 1 .. size
          BY <3>7, <4>2
        <5> QED BY <3>9, <4>2, <5>1
      <4> QED BY <4>1, <4>2
    <3>11. ASSUME NEW m \in 1 .. size + 1, NEW n \in 1 .. size + 1, m < n
           PROVE  g[m] < g[n]
      <4>1. m \in 1 .. size /\ m # size + 1
        BY <3>7, <3>11
      <4>2. m \in 1 .. size /\ g[m] = f[m] /\ f[m] \in P
        BY <3>9, <4>1
      <4>3. CASE n = size + 1
        <5>1. g[n] = k
          BY <4>3
        <5>2. f[m] \in 1 .. k - 1
          BY <3>5, <4>2
        <5> QED BY <2>3, <4>2, <5>1, <5>2
      <4>4. CASE n # size + 1
        <5>1. n \in 1 .. size /\ g[n] = f[n]
          BY <3>7, <4>4
        <5> QED BY <3>9, <3>11, <4>2, <5>1
      <4> QED BY <4>3, <4>4
    <3>12. Enumerates(g, positions)
      BY <3>8, <3>10, <3>11 DEF Enumerates
    <3> QED BY <2>2, <3>12
  <2> QED BY <2>4, <2>5
<1>3. ASSUME NEW k \in Nat, NEW positions \in SUBSET (1 .. k)
      PROVE  \E f : Enumerates(f, positions)
  BY <1>2
<1> QED BY <1>1, <1>3

\* Unlinking jobs keeps the others, all of them, in their order.
Selects(result, chain, positions) ==
  \E order \in [1 .. Len(result) -> positions] :
    /\ \A m, n \in 1 .. Len(result) : m < n => order[m] < order[n]
    /\ \A p \in positions : \E n \in 1 .. Len(result) : order[n] = p
    /\ \A n \in 1 .. Len(result) : result[n] = chain[order[n]]

\* jobsAt returns a list of the jobs at the positions it is given.
LEMMA JobsAtSelects ==
  ASSUME NEW S, NEW chain \in Seq(S), NEW positions \in SUBSET (DOMAIN chain)
  PROVE  /\ jobsAt(chain, positions) \in Seq(S)
         /\ Selects(jobsAt(chain, positions), chain, positions)
<1>1. Len(chain) \in Nat /\ DOMAIN chain = 1 .. Len(chain)
  BY LenProperties
<1>2. IsFiniteSet(positions) /\ \E f : Enumerates(f, positions)
  BY <1>1, PositionsEnumerated
<1>3. PICK size \in Nat : size = Cardinality(positions)
  BY <1>2, FS_CardinalityType
<1> DEFINE order == CHOOSE f \in [1 .. size -> positions] :
                      \A m, n \in 1 .. size : m < n => f[m] < f[n]
<1>4. /\ order \in [1 .. size -> positions]
      /\ \A m, n \in 1 .. size : m < n => order[m] < order[n]
  BY <1>2, <1>3 DEF Enumerates
<1>5. jobsAt(chain, positions) = [n \in 1 .. size |-> chain[order[n]]]
  BY <1>3 DEF jobsAt
<1> HIDE DEF order
<1>6. \A n \in 1 .. size : order[n] \in 1 .. Len(chain) /\ chain[order[n]] \in S
  <2>1. \A p \in positions : p \in 1 .. Len(chain) /\ chain[p] \in S
    BY <1>1, ElementOfSeq
  <2> QED BY <1>4, <2>1
<1> DEFINE result == [n \in 1 .. size |-> chain[order[n]]]
<1>7. result \in Seq(S) /\ Len(result) = size
  <2>1. result \in [1 .. size -> S]
    BY <1>6
  <2> QED BY <1>3, <2>1
<1>8. \A p \in positions : \E n \in 1 .. size : order[n] = p
  <2>1. \A m, n \in 1 .. size : order[m] = order[n] => m = n
    <3> SUFFICES ASSUME NEW m \in 1 .. size, NEW n \in 1 .. size, m < n
                 PROVE  order[m] # order[n]
      BY <1>3
    <3>1. order[m] < order[n]
      BY <1>4
    <3>2. order[m] \in Int /\ order[n] \in Int
      BY <1>1, <1>6
    <3> QED BY <3>1, <3>2
  <2>2. order \in Injection(1 .. size, positions)
    BY <1>4, <2>1 DEF Injection, IsInjective
  <2>3. Cardinality(1 .. size) = size
    BY <1>3, FS_Interval
  <2>4. order \in Surjection(1 .. size, positions)
    BY <1>2, <1>3, <2>2, <2>3, FS_Injection
  <2> QED BY <2>4 DEF Surjection
<1>9. Selects(result, chain, positions)
  BY <1>4, <1>7, <1>8 DEF Selects
<1> QED BY <1>5, <1>7, <1>9

-----------------------------------------------------------------------------
(* The invariant.                                                          *)

Jobs == [command : Numbers, state : JobStates, id : Nat,
         pgid : Numbers \cup Unset]

Positions == 1 .. Len(job_chain)

\* The shell is between two commands, or is running one.
Idle == {"prompt", "update", "line"}
Running == {"fork", "forkright", "give", "wait", "waitright", "waitleft"}

LineByPc ==
  /\ pc \in {"update", "line"} /\ line \in CommandLines => entered < MaxCommands
  /\ pc = "fork" => line \in {"run", "run&", "pipe"}
  /\ pc \in {"forkright", "waitright", "waitleft"} => line = "pipe"
  /\ pc = "give" => line \in {"run", "pipe", "fg"}
  /\ pc = "wait" => line \in {"run", "fg"}
  /\ pc \in Running /\ line # "fg" => entered \in Numbers

PlaceByPc ==
  /\ pc = "update" => job_chain # <<>> /\ at \in 1 .. Len(job_chain) + 1
  /\ pc \in {"fork", "forkright", "give", "wait", "failed"} => at \in Positions

HistoryByPc == pc \in Running \cup {"done"} => i < HistorySize

\* The terminal is away only during a wait, or after the shell's end.
TerminalByPc == tty # 0 => pc \in {"wait", "waitright", "waitleft"} \cup Ended

TstpByPc ==
  /\ pc \in Idle => tstp = "ignored"
  /\ pc \in {"give", "wait"} /\ line = "fg" => tstp = "ignored"

\* Commands number the jobs along the list, and a job's group is its command.
CommandsIncrease ==
  /\ \A n \in Positions : job_chain[n].command <= entered
  /\ \A m, n \in Positions : m < n => job_chain[m].command < job_chain[n].command
  /\ \A n \in Positions : job_chain[n].pgid \in Numbers =>
       job_chain[n].pgid = job_chain[n].command

\* The command at work has no group in the list before it is forked, and never
\* has one as a pipeline.
NoGroupYet ==
  /\ pc = "fork" => job.command = entered
  /\ pc \in Running /\ (pc = "fork" \/ line = "pipe") =>
       \A n \in Positions : job_chain[n].pgid # entered

NoneTerminated ==
  pc \in {"line"} \cup Running => \A n \in Positions : NotTerminated(job_chain[n])

JobsMatchProcesses ==
  \A n \in Positions : job_chain[n].pgid \in Numbers =>
    (Unreaped(Leader(job_chain[n].pgid)) <=> NotTerminated(job_chain[n]))

\* A leader that waitpid(0) could collect has left the shell's group.
LeadersOut ==
  /\ \A g \in Numbers : proc[Leader(g)] \in {"run", "zombie"} => Leader(g) \in ingrp
  /\ doomed \subseteq ingrp

LeadersLeft == pc \notin Ended => LeadersOut

FailedOnUnset == pc = "failed" => job.pgid \in Unset

ListInv ==
  /\ job_chain \in Seq(Jobs)
  /\ IdsIncrease
  /\ CommandsIncrease

ControlInv ==
  /\ i \in -1 .. HistorySize
  /\ entered \in 0 .. MaxCommands
  /\ pc \in ShellStates \cup Ended
  /\ line \in Lines \cup {"none"}
  /\ at \in Nat
  /\ tstp \in {"default", "ignored"}
  /\ suspended \in BOOLEAN
  /\ tty \in Numbers \cup {0}
  /\ LineByPc
  /\ PlaceByPc
  /\ HistoryByPc
  /\ TerminalByPc
  /\ TstpByPc
  /\ PromptIgnoresControlZ

GroupInv ==
  /\ NoGroupYet
  /\ NoneTerminated
  /\ FailedOnUnset

ProcessInv ==
  /\ proc \in [Children -> ProcStates]
  /\ ingrp \subseteq Children
  /\ doomed \subseteq Children
  /\ piped \subseteq Numbers
  /\ LeadersLeft

IInv ==
  /\ ListInv
  /\ ControlInv
  /\ GroupInv
  /\ ProcessInv
  /\ JobsMatchProcesses

-----------------------------------------------------------------------------
(* The list.                                                               *)

LEMMA ListFacts ==
  ASSUME ListInv
  PROVE  /\ Len(job_chain) \in Nat
         /\ DOMAIN job_chain = Positions
         /\ \A n \in Positions : job_chain[n] \in Jobs
BY LenProperties, ElementOfSeq DEF ListInv, Positions

\* Every job keeps its command, its number and its group.
SameJobs ==
  /\ job_chain' \in Seq(Jobs)
  /\ Len(job_chain') = Len(job_chain)
  /\ \A n \in Positions :
       /\ job_chain'[n].command = job_chain[n].command
       /\ job_chain'[n].id = job_chain[n].id
       /\ job_chain'[n].pgid = job_chain[n].pgid

LEMMA ListKept ==
  ASSUME ListInv, SameJobs, UNCHANGED entered
  PROVE  ListInv'
<1>1. /\ Positions' = Positions
      /\ DOMAIN job_chain = Positions
      /\ DOMAIN job_chain' = Positions
  BY ListFacts, LenProperties DEF SameJobs, Positions
<1>2. IdsIncrease'
  BY <1>1 DEF ListInv, SameJobs, IdsIncrease
<1>3. CommandsIncrease'
  BY <1>1 DEF ListInv, SameJobs, CommandsIncrease
<1> QED BY <1>2, <1>3 DEF ListInv, SameJobs

\* What changing the state of one job does.
LEMMA StateChange ==
  ASSUME ListInv, NEW k \in Positions, NEW s \in JobStates,
         job_chain' = [job_chain EXCEPT ![k].state = s]
  PROVE  /\ SameJobs
         /\ \A n \in Positions :
              job_chain'[n].state = IF n = k THEN s ELSE job_chain[n].state
<1> DEFINE changed == [job_chain[k] EXCEPT !.state = s]
<1>1. job_chain[k] \in Jobs /\ changed \in Jobs
  BY ListFacts DEF Jobs
<1>2. job_chain' = [job_chain EXCEPT ![k] = changed]
  BY ListFacts
<1>3. /\ job_chain' \in Seq(Jobs)
      /\ Len(job_chain') = Len(job_chain)
      /\ \A n \in Positions :
           job_chain'[n] = IF n = k THEN changed ELSE job_chain[n]
  BY <1>1, <1>2, ExceptSeq DEF ListInv, Positions
<1>4. /\ changed.command = job_chain[k].command
      /\ changed.id = job_chain[k].id
      /\ changed.pgid = job_chain[k].pgid
      /\ changed.state = s
  BY <1>1 DEF Jobs
<1> HIDE DEF changed
<1> QED BY <1>3, <1>4 DEF SameJobs

LEMMA SameChain ==
  ASSUME ListInv, UNCHANGED job_chain
  PROVE  SameJobs
BY DEF ListInv, SameJobs

\* No two jobs share a group.
LEMMA GroupsDistinct ==
  ASSUME ListInv, NEW m \in Positions, NEW n \in Positions, m # n,
         job_chain[m].pgid \in Numbers
  PROVE  job_chain[m].pgid # job_chain[n].pgid
<1>1. job_chain[m].command # job_chain[n].command
  <2>1. m < n \/ n < m
    BY ListFacts DEF Positions
  <2>2. job_chain[m].command \in Int /\ job_chain[n].command \in Int
    BY ListFacts DEF Jobs, Numbers
  <2> QED BY <2>1, <2>2 DEF ListInv, CommandsIncrease
<1> QED BY <1>1 DEF ListInv, CommandsIncrease

LEMMA IInvImplies ==
  IInv => /\ TypeOK /\ IdsIncrease /\ StoredWithinHistory /\ TerminalReturned
          /\ FailsOnlyOnUnsetGroup /\ PromptIgnoresControlZ
<1> SUFFICES ASSUME IInv
             PROVE  /\ TypeOK /\ IdsIncrease /\ StoredWithinHistory
                    /\ TerminalReturned /\ FailsOnlyOnUnsetGroup
                    /\ PromptIgnoresControlZ
  OBVIOUS
<1>1. TypeOK
  BY ListFacts DEF IInv, ControlInv, ProcessInv, TypeOK, Jobs
<1>2. IdsIncrease /\ PromptIgnoresControlZ
  BY DEF IInv, ListInv, ControlInv
<1>3. StoredWithinHistory
  BY DEF IInv, ControlInv, HistoryByPc, StoredWithinHistory
<1>4. TerminalReturned
  BY DEF IInv, ControlInv, TerminalByPc, TerminalReturned, Ended
<1>5. FailsOnlyOnUnsetGroup
  BY DEF IInv, GroupInv, FailedOnUnset, FailsOnlyOnUnsetGroup
<1> QED BY <1>1, <1>2, <1>3, <1>4, <1>5

-----------------------------------------------------------------------------
LEMMA InitInv == Init => IInv
<1> SUFFICES ASSUME Init PROVE IInv
  OBVIOUS
<1>1. job_chain \in Seq(Jobs) /\ Len(job_chain) = 0
  BY EmptySeq DEF Init
<1>2. Positions = {} /\ DOMAIN job_chain = {}
  BY <1>1, LenProperties DEF Positions
<1>3. ListInv /\ GroupInv /\ JobsMatchProcesses
  BY <1>1, <1>2 DEF Init, ListInv, IdsIncrease, CommandsIncrease, GroupInv,
     NoGroupYet, NoneTerminated, FailedOnUnset, JobsMatchProcesses, Running
<1>6. suspended \in BOOLEAN
  BY DEF Init
<1>4. ControlInv
  BY <1>6, YashAssumption
  DEF Init, ControlInv, LineByPc, PlaceByPc, HistoryByPc, TerminalByPc, TstpByPc,
      PromptIgnoresControlZ, ShellStates, Running, Idle, Ended, Numbers
<1>5. ProcessInv
  BY DEF Init, ProcessInv, LeadersLeft, LeadersOut, ProcStates, Leader, Children
<1> QED BY <1>3, <1>4, <1>5 DEF IInv
-----------------------------------------------------------------------------
(* Steps of the children and of the user.                                  *)

\* When no job changes and no leader is born or collected, the list still
\* tells which leaders were collected.
LEMMA MatchKept ==
  ASSUME ListInv, JobsMatchProcesses, SameJobs,
         \A n \in Positions :
           NotTerminated(job_chain'[n]) <=> NotTerminated(job_chain[n]),
         \A g \in Numbers : Unreaped(Leader(g))' <=> Unreaped(Leader(g))
  PROVE  JobsMatchProcesses'
<1>1. Positions' = Positions
  BY DEF SameJobs, Positions
<1> SUFFICES ASSUME NEW n \in Positions, job_chain'[n].pgid \in Numbers
             PROVE  Unreaped(Leader(job_chain[n].pgid))' <=> NotTerminated(job_chain[n])'
  BY <1>1 DEF JobsMatchProcesses
<1>2. PICK g \in Numbers : g = job_chain[n].pgid /\ g = job_chain'[n].pgid
  BY DEF SameJobs
<1>3. Unreaped(Leader(g)) <=> NotTerminated(job_chain[n])
  BY <1>2 DEF JobsMatchProcesses
<1>4. Unreaped(Leader(g))' <=> NotTerminated(job_chain'[n])
  BY <1>3
<1> QED BY <1>2, <1>4

\* A step that changes the children only, and reaps none of them.
LEMMA ChildrenStep ==
  ASSUME IInv, UNCHANGED shellVars, UNCHANGED <<tty, piped>>,
         proc' \in [Children -> ProcStates],
         ingrp' \subseteq Children, doomed' \subseteq Children, LeadersLeft',
         suspended' \in BOOLEAN, PromptIgnoresControlZ',
         \A c \in Children : Unreaped(c)' <=> Unreaped(c)
  PROVE  IInv'
<1>1. SameJobs
  BY SameChain DEF IInv, shellVars
<1>2. ListInv'
  BY <1>1, ListKept DEF IInv, shellVars
<1>3. ControlInv'
  BY DEF IInv, shellVars, ControlInv, LineByPc, PlaceByPc, HistoryByPc,
     TerminalByPc, TstpByPc, Positions
<1>4. GroupInv'
  BY DEF IInv, shellVars, GroupInv, NoGroupYet, NoneTerminated, FailedOnUnset,
     job, Positions
<1>5. ProcessInv'
  BY DEF IInv, ProcessInv
<1>6. \A g \in Numbers : Leader(g) \in Children
  BY DEF Leader, Children
<1>7. JobsMatchProcesses'
  BY <1>1, <1>6, MatchKept DEF IInv, shellVars
<1> QED BY <1>2, <1>3, <1>4, <1>5, <1>7 DEF IInv

LEMMA LeaderFacts ==
  \A g \in Numbers : Leader(g) \in Children /\ Leader(g)[1] = g
BY DEF Leader, Children

\* Whom a wait for, or a signal to, a job's group means.
LEMMA TargetFacts ==
  /\ \A g \in Numbers : Targets(g) = {Leader(g)}
  /\ \A p \in Unset : Targets(p) \subseteq OwnGroup
  /\ Unset \cap Numbers = {}
  /\ OwnGroup \subseteq Children
<1>1. 0 \notin Numbers /\ MaxCommands + 1 \notin Numbers /\ 0 # MaxCommands + 1
  BY YashAssumption DEF Numbers
<1>2. OwnGroup \subseteq Children
  BY DEF OwnGroup
<1>3. \A g \in Numbers : Targets(g) = {Leader(g)}
  BY <1>1 DEF Targets
<1>4. Targets(0) = OwnGroup /\ Targets(MaxCommands + 1) = {}
  BY <1>1 DEF Targets
<1> QED BY <1>1, <1>2, <1>3, <1>4 DEF Unset

LEMMA ChildSetupInv ==
  ASSUME IInv, NEW c \in Children, ChildSetup(c)
  PROVE  IInv'
<1>1. /\ proc \in [Children -> ProcStates]
      /\ proc' = [proc EXCEPT ![c] = "run"]
      /\ proc[c] = "new"
      /\ ingrp \subseteq ingrp' /\ ingrp' \subseteq Children
      /\ c = Leader(c[1]) => c \in ingrp'
  BY DEF IInv, ProcessInv, ChildSetup
<1>2. proc' \in [Children -> ProcStates]
  BY <1>1 DEF ProcStates
<1>3. \A d \in Children : Unreaped(d)' <=> Unreaped(d)
  BY <1>1 DEF Unreaped, Alive
<1>4. LeadersLeft'
  BY <1>1, LeaderFacts DEF IInv, ProcessInv, LeadersLeft, LeadersOut, ChildSetup, shellVars
<1> QED
  BY <1>1, <1>2, <1>3, <1>4, ChildrenStep
  DEF ChildSetup, ttyVars, shellVars, IInv, ControlInv, ProcessInv, PromptIgnoresControlZ

LEMMA ExitInv ==
  ASSUME IInv, NEW c \in Children, Exit(c)
  PROVE  IInv'
<1>1. /\ proc \in [Children -> ProcStates]
      /\ proc' = [proc EXCEPT ![c] = "zombie"]
      /\ proc[c] = "run"
  BY DEF IInv, ProcessInv, Exit
<1>2. proc' \in [Children -> ProcStates]
  BY <1>1 DEF ProcStates
<1>3. \A d \in Children : Unreaped(d)' <=> Unreaped(d)
  BY <1>1 DEF Unreaped, Alive
<1>4. LeadersLeft'
  BY <1>1, LeaderFacts DEF IInv, ProcessInv, LeadersLeft, LeadersOut, Exit, shellVars
<1> QED
  BY <1>1, <1>2, <1>3, <1>4, ChildrenStep
  DEF Exit, ttyVars, shellVars, IInv, ControlInv, ProcessInv, PromptIgnoresControlZ

LEMMA ControlZInv ==
  ASSUME IInv, ControlZ
  PROVE  IInv'
<1>1. /\ proc \in [Children -> ProcStates]
      /\ proc' \in [Children -> ProcStates]
      /\ \A c \in Children :
           \/ proc'[c] = proc[c]
           \/ proc[c] \in {"new", "run"} /\ proc'[c] = "stopped"
  BY DEF IInv, ProcessInv, ControlZ, ProcStates
<1>2. \A d \in Children : Unreaped(d)' <=> Unreaped(d)
  BY <1>1 DEF Unreaped, Alive
<1>3. LeadersLeft'
  BY <1>1, LeaderFacts DEF IInv, ProcessInv, LeadersLeft, LeadersOut, ControlZ, shellVars
<1>4. suspended' \in BOOLEAN /\ PromptIgnoresControlZ'
  BY DEF IInv, ControlInv, ControlZ, shellVars, PromptIgnoresControlZ, TstpByPc, Idle
<1> QED
  BY <1>1, <1>2, <1>3, <1>4, ChildrenStep
  DEF ControlZ, IInv, ProcessInv

LEMMA ContinuedInv ==
  ASSUME IInv, Continued
  PROVE  IInv'
<1>1. /\ proc \in [Children -> ProcStates]
      /\ proc' \in [Children -> ProcStates]
      /\ \A c \in Children :
           \/ proc'[c] = proc[c]
           \/ proc[c] = "stopped" /\ proc'[c] = "new"
  BY DEF IInv, ProcessInv, Continued, ProcStates
<1>2. \A d \in Children : Unreaped(d)' <=> Unreaped(d)
  BY <1>1 DEF Unreaped, Alive
<1>3. LeadersLeft'
  BY <1>1, LeaderFacts DEF IInv, ProcessInv, LeadersLeft, LeadersOut, Continued, shellVars
<1>4. suspended' \in BOOLEAN /\ PromptIgnoresControlZ'
  BY DEF Continued, PromptIgnoresControlZ
<1> QED
  BY <1>1, <1>2, <1>3, <1>4, ChildrenStep
  DEF Continued, IInv, ProcessInv

LEMMA ControlCInv ==
  ASSUME IInv, ControlC
  PROVE  IInv'
<1>1. /\ proc \in [Children -> ProcStates]
      /\ proc' \in [Children -> ProcStates]
      /\ \A c \in Children :
           \/ proc'[c] = proc[c]
           \/ Foreground(c) /\ proc[c] \in {"new", "run"} /\ proc'[c] = "zombie"
  BY DEF IInv, ProcessInv, ControlC, ProcStates
<1>2. \A d \in Children : Unreaped(d)' <=> Unreaped(d)
  BY <1>1 DEF Unreaped, Alive
<1>3. LeadersLeft'
  <2>1. CASE tty = 0
    BY <2>1 DEF ControlC, LeadersLeft, Ended
  <2>2. CASE tty # 0
    <3>1. \A c \in Children : Foreground(c) => c \in ingrp
      BY <2>2 DEF Foreground, InGroup
    <3>2. pc \notin Ended
      BY DEF ControlC, ShellRuns
    <3>3. LeadersOut
      BY <3>2 DEF IInv, ProcessInv, LeadersLeft
    <3>4. LeadersOut'
      BY <1>1, <3>1, <3>3, LeaderFacts DEF LeadersOut, ControlC
    <3> QED BY <3>4 DEF LeadersLeft
  <2> QED BY <2>1, <2>2
<1>4. ProcessInv'
  BY <1>1, <1>3 DEF IInv, ProcessInv, ControlC
<1>5. SameJobs /\ ListInv'
  BY SameChain, ListKept DEF IInv, ControlC
<1>6. JobsMatchProcesses'
  BY <1>2, <1>5, LeaderFacts, MatchKept DEF IInv, ControlC
<1>7. ControlInv' /\ GroupInv'
  <2>1. pc' = "interrupted" \/ pc' = pc
    BY DEF ControlC
  <2>2. ControlInv'
    BY <2>1
    DEF IInv, ControlC, ShellRuns, ControlInv, LineByPc, PlaceByPc, HistoryByPc,
        TerminalByPc, TstpByPc, Positions, PromptIgnoresControlZ, Ended, ttyVars,
        Running, Idle
  <2>3. GroupInv'
    BY <2>1
    DEF IInv, ControlC, GroupInv, NoGroupYet, NoneTerminated, FailedOnUnset, job,
        Positions, Running
  <2> QED BY <2>2, <2>3
<1> QED BY <1>4, <1>5, <1>6, <1>7 DEF IInv

LEMMA EofInv ==
  ASSUME IInv, Eof
  PROVE  IInv'
<1>1. /\ proc \in [Children -> ProcStates]
      /\ proc' \in [Children -> ProcStates]
      /\ doomed' \subseteq Children
      /\ \A c \in Children :
           \/ proc'[c] = proc[c]
           \/ proc[c] \in {"new", "run"} /\ proc'[c] = "zombie"
  <2> DEFINE hit == UNION {Targets(job_chain[n].pgid) : n \in DOMAIN job_chain}
  <2>1. /\ proc' = [c \in Children |->
              IF c \in hit /\ proc[c] \in {"new", "run"} THEN "zombie" ELSE proc[c]]
        /\ doomed' = doomed \cup {c \in hit : proc[c] = "stopped"}
    BY DEF Eof
  <2>2. hit \subseteq Children
    BY LeaderFacts DEF Targets, OwnGroup
  <2> HIDE DEF hit
  <2>3. proc \in [Children -> ProcStates] /\ doomed \subseteq Children
    BY DEF IInv, ProcessInv
  <2> QED BY <2>1, <2>2, <2>3 DEF ProcStates
<1>2. \A d \in Children : Unreaped(d)' <=> Unreaped(d)
  BY <1>1 DEF Unreaped, Alive
<1>3. pc' \in {"crashed", "exited"}
  BY DEF Eof, Goto
<1>4. ProcessInv'
  BY <1>1, <1>3 DEF IInv, ProcessInv, Eof, LeadersLeft, Ended
<1>5. SameJobs /\ ListInv'
  BY SameChain, ListKept DEF IInv, Eof
<1>6. JobsMatchProcesses'
  BY <1>2, <1>5, LeaderFacts, MatchKept DEF IInv, Eof
<1>7. ControlInv'
  BY <1>3
  DEF IInv, Eof, ShellRuns, ControlInv, LineByPc, PlaceByPc, HistoryByPc,
      TerminalByPc, TstpByPc, Positions, PromptIgnoresControlZ, Ended, ttyVars,
      Running, Idle
<1>8. GroupInv'
  BY <1>3
  DEF IInv, Eof, GroupInv, NoGroupYet, NoneTerminated, FailedOnUnset, Running
<1> QED BY <1>4, <1>5, <1>6, <1>7, <1>8 DEF IInv

-----------------------------------------------------------------------------
(* Steps of the shell that leave the jobs and the children as they are.    *)

LEMMA ControlStep ==
  ASSUME IInv, UNCHANGED <<job_chain, entered, procVars>>, pc \notin Ended,
         ControlInv', GroupInv'
  PROVE  IInv'
<1>1. SameJobs /\ ListInv'
  BY SameChain, ListKept DEF IInv
<1>2. ProcessInv'
  BY DEF IInv, ProcessInv, LeadersLeft, LeadersOut, procVars
<1>3. JobsMatchProcesses'
  BY <1>1, MatchKept DEF IInv, procVars, Unreaped, Alive
<1> QED BY <1>1, <1>2, <1>3 DEF IInv

LEMMA TypeInv ==
  ASSUME IInv, NEW l \in Lines, Type(l)
  PROVE  IInv'
<1>1. /\ pc = "prompt" /\ pc' \in {"line", "update"}
      /\ pc' = "update" <=> job_chain # <<>>
      /\ at' = 1 /\ line' = l
      /\ UNCHANGED <<job_chain, i, entered, tstp, suspended, tty>>
      /\ ~suspended
  BY DEF Type, Goto, ttyVars, ShellRuns
<1>2. ControlInv'
  <2>1. job_chain # <<>> => 1 \in 1 .. Len(job_chain) + 1
    BY ListFacts DEF IInv
  <2>2. l \in CommandLines => entered < MaxCommands
    BY DEF Type
  <2> QED
    BY <1>1, <2>1, <2>2
    DEF IInv, ControlInv, LineByPc, PlaceByPc, HistoryByPc, TerminalByPc, TstpByPc,
        Positions, PromptIgnoresControlZ, Ended, Running, Idle, ShellStates
<1>3. GroupInv'
  <2>1. job_chain = <<>> => Positions = {}
    BY EmptySeq DEF Positions
  <2> QED
    BY <1>1, <2>1 DEF GroupInv, NoGroupYet, NoneTerminated, FailedOnUnset, Running, Positions
<1> QED BY <1>1, <1>2, <1>3, ControlStep DEF Type, Ended

LEMMA ListJobsInv ==
  ASSUME IInv, ListJobs
  PROVE  IInv'
<1>1. /\ pc = "line" /\ pc' = "prompt"
      /\ i' = NextIndex
      /\ UNCHANGED <<job_chain, entered, line, at, tstp, suspended, tty>>
      /\ ~suspended
  BY DEF ListJobs, Run, Goto, ttyVars, ShellRuns
<1>2. ControlInv'
  BY <1>1, YashAssumption
  DEF IInv, ControlInv, LineByPc, PlaceByPc, HistoryByPc, TerminalByPc, TstpByPc,
      Positions, PromptIgnoresControlZ, Ended, Running, Idle, ShellStates, NextIndex
<1>3. GroupInv'
  BY <1>1 DEF GroupInv, NoGroupYet, NoneTerminated, FailedOnUnset, Running, Positions
<1> QED BY <1>1, <1>2, <1>3, ControlStep DEF ListJobs, Ended

LEMMA WaitFailsInv ==
  ASSUME IInv, WaitFails
  PROVE  IInv'
<1>1. /\ pc = "wait" /\ pc' = "failed"
      /\ UNCHANGED <<job_chain, i, entered, line, at, tstp, suspended, tty>>
      /\ ~suspended
  BY DEF WaitFails, Goto, ttyVars, ShellRuns
<1>2. ControlInv'
  BY <1>1
  DEF IInv, ControlInv, LineByPc, PlaceByPc, HistoryByPc, TerminalByPc, TstpByPc,
      Positions, PromptIgnoresControlZ, Ended, Running, Idle, ShellStates
<1>3. job.pgid \in Unset
  <2>1. at \in Positions
    BY <1>1 DEF IInv, ControlInv, PlaceByPc
  <2>2. job.pgid \in Numbers \cup Unset
    BY <2>1, ListFacts DEF IInv, job, Jobs
  <2>3. ASSUME job.pgid \in Numbers PROVE FALSE
    <3>1. NotTerminated(job_chain[at])
      BY <1>1, <2>1 DEF IInv, GroupInv, NoneTerminated, Running
    <3>2. Unreaped(Leader(job.pgid))
      BY <2>1, <2>3, <3>1 DEF IInv, JobsMatchProcesses, job
    <3>3. Targets(job.pgid) = {Leader(job.pgid)}
      BY <2>3, TargetFacts
    <3> QED BY <3>2, <3>3 DEF WaitFails
  <2> QED BY <2>2, <2>3
<1>4. GroupInv'
  BY <1>1, <1>3
  DEF GroupInv, NoGroupYet, NoneTerminated, FailedOnUnset, Running, Positions, job
<1> QED BY <1>1, <1>2, <1>4, ControlStep DEF WaitFails, Ended

LEMMA DoneInv ==
  ASSUME IInv, Done
  PROVE  IInv'
<1>1. /\ pc = "done" /\ pc' = "prompt"
      /\ i' = i + 1 /\ tstp' = "ignored"
      /\ UNCHANGED <<job_chain, entered, line, at, suspended, tty>>
      /\ ~suspended
  BY DEF Done, Goto, ttyVars, ShellRuns
<1>2. ControlInv'
  BY <1>1, YashAssumption
  DEF IInv, ControlInv, LineByPc, PlaceByPc, HistoryByPc, TerminalByPc, TstpByPc,
      Positions, PromptIgnoresControlZ, Ended, Running, Idle, ShellStates
<1>3. GroupInv'
  BY <1>1 DEF GroupInv, NoGroupYet, NoneTerminated, FailedOnUnset, Running, Positions
<1> QED BY <1>1, <1>2, <1>3, ControlStep DEF Done, Ended

-----------------------------------------------------------------------------
(* Steps of the shell that collect a child.                                *)

\* The child collected is the leader of the job's group, or no job's leader:
\* waitpid(0) finds none, they have left the shell's group.
LEMMA CollectedLeader ==
  ASSUME IInv, pc \notin Ended, at \in Positions,
         NEW c \in Targets(job.pgid), proc[c] = "zombie"
  PROVE  /\ c \in Children
         /\ job.pgid \in Numbers => c = Leader(job.pgid)
         /\ job.pgid \notin Numbers => \A g \in Numbers : c # Leader(g)
<1>1. job.pgid \in Numbers \cup Unset
  BY ListFacts DEF IInv, job, Jobs
<1>2. CASE job.pgid \in Numbers
  BY <1>2, TargetFacts, LeaderFacts
<1>3. CASE job.pgid \in Unset
  <2>1. c \in OwnGroup /\ job.pgid \notin Numbers
    BY <1>3, TargetFacts
  <2>2. c \in Children /\ c \notin ingrp
    BY <2>1 DEF OwnGroup
  <2>3. \A g \in Numbers : c = Leader(g) => c \in ingrp
    BY DEF IInv, ProcessInv, LeadersLeft, LeadersOut
  <2> QED BY <2>1, <2>2, <2>3
<1> QED BY <1>1, <1>2, <1>3

\* Collecting a child leaves the rest as it was.
LEMMA CollectFacts ==
  ASSUME IInv, pc \notin Ended, NEW c \in Children, Collect(c)
  PROVE  /\ ProcessInv'
         /\ \A d \in Children : d # c => (Unreaped(d)' <=> Unreaped(d))
         /\ ~Unreaped(c)'
<1>1. /\ proc \in [Children -> ProcStates]
      /\ proc' = [proc EXCEPT ![c] = "gone"]
      /\ UNCHANGED <<ingrp, doomed, piped>>
  BY DEF IInv, ProcessInv, Collect
<1>2. proc' \in [Children -> ProcStates]
  BY <1>1 DEF ProcStates
<1>3. LeadersOut'
  BY <1>1, LeaderFacts DEF IInv, ProcessInv, LeadersLeft, LeadersOut
<1>4. ProcessInv'
  BY <1>1, <1>2, <1>3 DEF IInv, ProcessInv, LeadersLeft
<1>5. \A d \in Children : d # c => (Unreaped(d)' <=> Unreaped(d))
  BY <1>1 DEF Unreaped, Alive
<1>6. ~Unreaped(c)'
  BY <1>1 DEF Unreaped, Alive
<1> QED BY <1>4, <1>5, <1>6

\* A job is marked terminated together with the collection of its process, or
\* when it has none.
LEMMA TerminateInv ==
  ASSUME IInv, pc \notin Ended, at \in Positions, Terminate, UNCHANGED entered,
         \/ \E c \in Targets(job.pgid) : proc[c] = "zombie" /\ Collect(c)
         \/ (\A c \in Targets(job.pgid) : ~Unreaped(c)) /\ UNCHANGED procVars
  PROVE  SameJobs /\ ListInv' /\ ProcessInv' /\ JobsMatchProcesses'
<1>1. /\ SameJobs
      /\ \A n \in Positions : job_chain'[n].state =
                                IF n = at THEN "TERMINATED" ELSE job_chain[n].state
  BY StateChange DEF IInv, Terminate, JobStates
<1>2. ListInv'
  BY <1>1, ListKept DEF IInv
<1>3. PICK p : p = job.pgid
  OBVIOUS
<1>4. /\ ProcessInv'
      /\ p \in Numbers => ~Unreaped(Leader(p))'
      /\ \A g \in Numbers : g # p => (Unreaped(Leader(g))' <=> Unreaped(Leader(g)))
  <2>1. CASE \E c \in Targets(job.pgid) : proc[c] = "zombie" /\ Collect(c)
    <3>1. PICK c \in Targets(p) : proc[c] = "zombie" /\ Collect(c)
      BY <1>3, <2>1
    <3>2. /\ c \in Children
          /\ p \in Numbers => c = Leader(p)
          /\ p \notin Numbers => \A g \in Numbers : c # Leader(g)
      BY <1>3, <3>1, CollectedLeader
    <3>3. \A g \in Numbers : g # p => Leader(g) # c
      BY <3>2, LeaderFacts
    <3>4. /\ ProcessInv'
          /\ \A d \in Children : d # c => (Unreaped(d)' <=> Unreaped(d))
          /\ ~Unreaped(c)'
      BY <3>1, <3>2, CollectFacts
    <3> QED BY <3>2, <3>3, <3>4, LeaderFacts
  <2>2. CASE (\A c \in Targets(job.pgid) : ~Unreaped(c)) /\ UNCHANGED procVars
    <3>1. ProcessInv'
      BY <2>2 DEF IInv, ProcessInv, LeadersLeft, LeadersOut, procVars
    <3>2. \A d : Unreaped(d)' <=> Unreaped(d)
      BY <2>2 DEF procVars, Unreaped, Alive
    <3>3. p \in Numbers => ~Unreaped(Leader(p))
      BY <1>3, <2>2, TargetFacts
    <3> QED BY <3>1, <3>2, <3>3
  <2> QED BY <2>1, <2>2
<1>5. JobsMatchProcesses'
  <2>1. Positions' = Positions
    BY <1>1 DEF SameJobs, Positions
  <2> SUFFICES ASSUME NEW n \in Positions, NEW g \in Numbers,
                      job_chain[n].pgid = g, job_chain'[n].pgid = g
               PROVE  Unreaped(Leader(g))' <=> NotTerminated(job_chain[n])'
    BY <1>1, <2>1 DEF JobsMatchProcesses, SameJobs
  <2>2. CASE n = at
    <3>1. job.pgid = g /\ ~NotTerminated(job_chain[n])'
      BY <1>1, <2>2 DEF job, NotTerminated
    <3> QED BY <1>3, <1>4, <3>1
  <2>3. CASE n # at
    <3>1. job.pgid # g
      BY <2>3, GroupsDistinct DEF IInv, job
    <3>2. NotTerminated(job_chain[n])' <=> NotTerminated(job_chain[n])
      BY <1>1, <2>3 DEF NotTerminated
    <3>3. Unreaped(Leader(g)) <=> NotTerminated(job_chain[n])
      BY DEF IInv, JobsMatchProcesses
    <3> QED BY <1>3, <1>4, <3>1, <3>2, <3>3
  <2> QED BY <2>2, <2>3
<1> QED BY <1>1, <1>2, <1>4, <1>5

\* A job that is not terminated changes to another such state.
LEMMA RestateInv ==
  ASSUME IInv, pc \in {"line"} \cup Running, NEW k \in Positions,
         NEW s \in {"RUNNING", "STOPPED"}, UNCHANGED entered,
         job_chain' = [job_chain EXCEPT ![k].state = s],
         \A c \in Children : Unreaped(c)' <=> Unreaped(c)
  PROVE  /\ SameJobs /\ ListInv' /\ JobsMatchProcesses'
         /\ \A n \in Positions' : NotTerminated(job_chain[n])'
<1>5. s \in JobStates
  BY DEF JobStates
<1>1. /\ SameJobs
      /\ \A n \in Positions : job_chain'[n].state =
                                IF n = k THEN s ELSE job_chain[n].state
  BY <1>5, StateChange DEF IInv
<1>2. \A n \in Positions : NotTerminated(job_chain'[n]) /\ NotTerminated(job_chain[n])
  BY <1>1 DEF NotTerminated, IInv, GroupInv, NoneTerminated
<1>3. ListInv' /\ JobsMatchProcesses'
  BY <1>1, <1>2, ListKept, MatchKept, LeaderFacts DEF IInv
<1>4. Positions' = Positions
  BY <1>1 DEF SameJobs, Positions
<1> QED BY <1>1, <1>2, <1>3, <1>4

\* SIGCONT reaps no child, and a leader it lets run has left the shell's group.
LEMMA ResumeFacts ==
  ASSUME IInv, pc \notin Ended, NEW p, Resume(p)
  PROVE  /\ ProcessInv'
         /\ \A c \in Children : Unreaped(c)' <=> Unreaped(c)
<1>1. /\ proc \in [Children -> ProcStates]
      /\ proc' \in [Children -> ProcStates]
      /\ doomed' \subseteq doomed
      /\ UNCHANGED <<ingrp, piped>>
      /\ \A c \in Children :
           \/ proc'[c] = proc[c]
           \/ /\ proc[c] = "stopped"
              /\ \/ proc'[c] = "zombie" /\ c \in doomed
                 \/ proc'[c] = "run" /\ c \in ingrp
                 \/ proc'[c] = "new"
  BY DEF IInv, ProcessInv, Resume, ProcStates
<1>2. LeadersOut
  BY DEF IInv, ProcessInv, LeadersLeft
<1>3. LeadersOut'
  BY <1>1, <1>2, LeaderFacts DEF LeadersOut
<1>4. ProcessInv'
  BY <1>1, <1>3 DEF IInv, ProcessInv, LeadersLeft
<1>5. \A c \in Children : Unreaped(c)' <=> Unreaped(c)
  BY <1>1 DEF Unreaped, Alive
<1> QED BY <1>4, <1>5

LEMMA UpdateInv ==
  ASSUME IInv, Update
  PROVE  IInv'
<1>1. /\ pc = "update" /\ pc' = "update" /\ at' = at + 1
      /\ UNCHANGED <<i, entered, line, tstp, suspended, tty>>
      /\ ~suspended
      /\ at <= Len(job_chain)
  BY DEF Update, Goto, ttyVars, ShellRuns
<1>2. pc \notin Ended /\ at \in Positions /\ Len(job_chain) \in Nat
  BY <1>1, ListFacts DEF Ended, IInv, ControlInv, PlaceByPc, Positions
<1>3. SameJobs /\ ListInv' /\ ProcessInv' /\ JobsMatchProcesses'
  <2>1. CASE UNCHANGED <<job_chain, procVars>>
    <3>1. SameJobs /\ ListInv'
      BY <1>1, <2>1, SameChain, ListKept DEF IInv
    <3>2. JobsMatchProcesses'
      BY <2>1, <3>1, MatchKept DEF IInv, procVars, Unreaped, Alive
    <3>3. ProcessInv'
      BY <1>1, <2>1 DEF IInv, ProcessInv, LeadersLeft, LeadersOut, procVars
    <3> QED BY <3>1, <3>2, <3>3
  <2>2. CASE Terminate /\ ~UNCHANGED <<job_chain, procVars>>
    BY <1>1, <1>2, <2>2, TerminateInv DEF Update
  <2> QED BY <2>1, <2>2 DEF Update
<1>4. ControlInv'
  <2>1. Len(job_chain') = Len(job_chain) /\ job_chain' # <<>>
    BY <1>2, <1>3, EmptySeq DEF SameJobs, Positions
  <2>2. at + 1 \in 1 .. Len(job_chain') + 1
    BY <1>2, <2>1 DEF Positions
  <2> QED
    BY <1>1, <2>1, <2>2
    DEF IInv, ControlInv, LineByPc, PlaceByPc, HistoryByPc, TerminalByPc, TstpByPc,
        PromptIgnoresControlZ, Ended, Running, Idle, ShellStates
<1>5. GroupInv'
  BY <1>1 DEF GroupInv, NoGroupYet, NoneTerminated, FailedOnUnset, Running
<1> QED BY <1>3, <1>4, <1>5 DEF IInv

LEMMA FgLastInv ==
  ASSUME IInv, FgLast
  PROVE  IInv'
<1>1. /\ pc = "line" /\ line = "fg" /\ pc' \in {"prompt", "give"}
      /\ i' = NextIndex
      /\ UNCHANGED <<entered, line, tstp, suspended, tty, procVars>>
      /\ ~suspended
      /\ pc \notin Ended
  BY DEF FgLast, Run, Goto, ttyVars, ShellRuns
<1>2. CASE job_chain = <<>>
  <2>1. pc' = "prompt" /\ UNCHANGED <<job_chain, at>>
    BY <1>2 DEF FgLast, Goto
  <2>2. ControlInv'
    BY <1>1, <2>1, YashAssumption
    DEF IInv, ControlInv, LineByPc, PlaceByPc, HistoryByPc, TerminalByPc, TstpByPc,
        Positions, PromptIgnoresControlZ, Ended, Running, Idle, ShellStates, NextIndex
  <2>3. GroupInv'
    BY <2>1 DEF GroupInv, NoGroupYet, NoneTerminated, FailedOnUnset, Running, Positions
  <2> QED BY <1>1, <2>1, <2>2, <2>3, ControlStep
<1>3. CASE job_chain # <<>>
  <2>1. /\ pc' = "give"
        /\ at' = Len(job_chain)
        /\ job_chain' = [job_chain EXCEPT ![Len(job_chain)].state = "RUNNING"]
    BY <1>3 DEF FgLast, Goto
  <2>2. Len(job_chain) \in Positions
    BY <1>3, EmptySeq DEF IInv, ListInv, Positions
  <2>3. \A c \in Children : Unreaped(c)' <=> Unreaped(c)
    BY <1>1 DEF procVars, Unreaped, Alive
  <2>4. /\ SameJobs /\ ListInv' /\ JobsMatchProcesses'
        /\ \A n \in Positions' : NotTerminated(job_chain[n])'
    BY <1>1, <2>1, <2>2, <2>3, RestateInv
  <2>5. ProcessInv'
    BY <1>1, <2>1 DEF IInv, ProcessInv, LeadersLeft, LeadersOut, procVars
  <2>6. ControlInv'
    BY <1>1, <2>1, <2>2, <2>4, YashAssumption
    DEF IInv, ControlInv, LineByPc, PlaceByPc, HistoryByPc, TerminalByPc, TstpByPc,
        Positions, PromptIgnoresControlZ, Ended, Running, Idle, ShellStates,
        NextIndex, SameJobs
  <2>7. GroupInv'
    BY <1>1, <2>1, <2>4
    DEF GroupInv, NoGroupYet, NoneTerminated, FailedOnUnset, Running
  <2> QED BY <2>4, <2>5, <2>6, <2>7 DEF IInv
<1> QED BY <1>2, <1>3

LEMMA BgLastStoppedInv ==
  ASSUME IInv, BgLastStopped
  PROVE  IInv'
<1>1. /\ pc = "line" /\ pc' = "prompt"
      /\ i' = NextIndex
      /\ UNCHANGED <<entered, line, at, tstp, suspended, tty>>
      /\ ~suspended
      /\ pc \notin Ended
  BY DEF BgLastStopped, Run, Goto, ttyVars, ShellRuns, Ended
<1>2. ControlInv'
  BY <1>1, YashAssumption
  DEF IInv, ControlInv, LineByPc, PlaceByPc, HistoryByPc, TerminalByPc, TstpByPc,
      PromptIgnoresControlZ, Ended, Running, Idle, ShellStates, NextIndex
<1>3. GroupInv'
  BY <1>1 DEF GroupInv, NoGroupYet, NoneTerminated, FailedOnUnset, Running
<1>4. CASE UNCHANGED <<job_chain, procVars>>
  BY <1>1, <1>2, <1>3, <1>4, ControlStep
<1>5. CASE \E n \in getLastStoppedJob(job_chain) :
             /\ job_chain' = [job_chain EXCEPT ![n].state = "RUNNING"]
             /\ Resume(job_chain[n].pgid)
  <2>1. PICK n \in Positions :
          /\ job_chain' = [job_chain EXCEPT ![n].state = "RUNNING"]
          /\ Resume(job_chain[n].pgid)
    BY <1>5, ListFacts DEF IInv, getLastStoppedJob
  <2>2. PICK p : p = job_chain[n].pgid
    OBVIOUS
  <2>3. ProcessInv' /\ \A c \in Children : Unreaped(c)' <=> Unreaped(c)
    BY <1>1, <2>1, <2>2, ResumeFacts
  <2>4. SameJobs /\ ListInv' /\ JobsMatchProcesses'
    BY <1>1, <2>1, <2>3, RestateInv
  <2> QED BY <1>2, <1>3, <2>3, <2>4 DEF IInv
<1> QED BY <1>4, <1>5 DEF BgLastStopped

LEMMA WaitInv ==
  ASSUME IInv, Wait
  PROVE  IInv'
<1>1. /\ pc = "wait" /\ pc' = (IF line = "fg" THEN "prompt" ELSE "done")
      /\ tty' = 0
      /\ UNCHANGED <<i, entered, line, at, tstp, suspended>>
      /\ ~suspended
      /\ pc \notin Ended
  BY DEF Wait, AfterWait, Claim, Goto, ShellRuns
<1>2. at \in Positions
  BY <1>1 DEF IInv, ControlInv, PlaceByPc
<1>3. line \in {"run", "fg"}
  BY <1>1 DEF IInv, ControlInv, LineByPc
<1>4. ControlInv'
  BY <1>1, <1>3, YashAssumption
  DEF IInv, ControlInv, LineByPc, PlaceByPc, HistoryByPc, TerminalByPc, TstpByPc,
      PromptIgnoresControlZ, Ended, Running, Idle, ShellStates
<1>5. GroupInv'
  BY <1>1 DEF GroupInv, NoGroupYet, NoneTerminated, FailedOnUnset, Running
<1>6. ListInv' /\ ProcessInv' /\ JobsMatchProcesses'
  <2>1. PICK c \in Targets(job.pgid) :
          \/ proc[c] = "zombie" /\ Collect(c) /\ Terminate
          \/ /\ proc[c] = "stopped"
             /\ job_chain' = [job_chain EXCEPT ![at].state = "STOPPED"]
             /\ UNCHANGED procVars
    BY DEF Wait
  <2>2. CASE proc[c] = "zombie" /\ Collect(c) /\ Terminate
    BY <1>1, <1>2, <2>2, TerminateInv
  <2>3. CASE /\ proc[c] = "stopped"
             /\ job_chain' = [job_chain EXCEPT ![at].state = "STOPPED"]
             /\ UNCHANGED procVars
    <3>1. \A d \in Children : Unreaped(d)' <=> Unreaped(d)
      BY <2>3 DEF procVars, Unreaped, Alive
    <3>2. ListInv' /\ JobsMatchProcesses'
      BY <1>1, <1>2, <2>3, <3>1, RestateInv DEF Running
    <3>3. ProcessInv'
      BY <1>1, <2>3 DEF IInv, ProcessInv, LeadersLeft, LeadersOut, procVars
    <3> QED BY <3>2, <3>3
  <2> QED BY <2>1, <2>2, <2>3
<1> QED BY <1>4, <1>5, <1>6 DEF IInv

LEMMA RemoveTerminatedInv ==
  ASSUME IInv, RemoveTerminated
  PROVE  IInv'
<1>1. /\ pc = "update" /\ pc' = "line"
      /\ UNCHANGED <<i, entered, line, at, tstp, suspended, tty, procVars>>
      /\ ~suspended
      /\ pc \notin Ended
  BY DEF RemoveTerminated, Goto, ttyVars, ShellRuns
<1>2. /\ DOMAIN job_chain = Positions /\ Len(job_chain) \in Nat
      /\ \A n \in Positions : job_chain[n] \in Jobs
  BY ListFacts DEF IInv
<1> DEFINE kept == {n \in DOMAIN job_chain : NotTerminated(job_chain[n])}
\* What is left are jobs of the list that are not terminated, in their order.
<1>3. /\ job_chain' \in Seq(Jobs)
      /\ \E order \in [Positions' -> kept] :
           /\ \A m, n \in Positions' : m < n => order[m] < order[n]
           /\ \A n \in Positions' : job_chain'[n] = job_chain[order[n]]
  <2>1. CASE job_chain' = <<>>
    <3>1. job_chain' \in Seq(Jobs) /\ Positions' = {}
      BY <2>1, EmptySeq DEF Positions
    <3>2. [n \in {} |-> 0] \in [{} -> kept]
      OBVIOUS
    <3> QED BY <3>1, <3>2
  <2>2. CASE job_chain' = jobsAt(job_chain, kept)
    <3>1. kept \in SUBSET (DOMAIN job_chain) /\ job_chain \in Seq(Jobs)
      BY DEF IInv, ListInv
    <3> HIDE DEF kept
    <3>2. job_chain' \in Seq(Jobs) /\ Selects(job_chain', job_chain, kept)
      BY <2>2, <3>1, JobsAtSelects
    <3> QED BY <3>2 DEF Selects, Positions
  <2> QED BY <2>1, <2>2 DEF RemoveTerminated, removeTerminated
<1>4. PICK order \in [Positions' -> kept] :
        /\ \A m, n \in Positions' : m < n => order[m] < order[n]
        /\ \A n \in Positions' : job_chain'[n] = job_chain[order[n]]
  BY <1>3
<1>5. \A n \in Positions' : order[n] \in Positions /\ NotTerminated(job_chain'[n])
  BY <1>2, <1>4
<1> HIDE DEF kept
<1>6. DOMAIN job_chain' = Positions'
  BY <1>3, LenProperties DEF Positions
<1>7. ListInv'
  <2>1. IdsIncrease'
    BY <1>2, <1>4, <1>5, <1>6 DEF IInv, ListInv, IdsIncrease
  <2>2. CommandsIncrease'
    BY <1>1, <1>4, <1>5 DEF IInv, ListInv, CommandsIncrease
  <2> QED BY <1>3, <2>1, <2>2 DEF ListInv
<1>8. JobsMatchProcesses'
  BY <1>1, <1>4, <1>5
  DEF IInv, JobsMatchProcesses, procVars, Unreaped, Alive, Leader, NotTerminated
<1>9. ProcessInv'
  BY <1>1 DEF IInv, ProcessInv, LeadersLeft, LeadersOut, procVars
<1>10. ControlInv'
  BY <1>1
  DEF IInv, ControlInv, LineByPc, PlaceByPc, HistoryByPc, TerminalByPc, TstpByPc,
      PromptIgnoresControlZ, Ended, Running, Idle, ShellStates
<1>11. GroupInv'
  BY <1>1, <1>5 DEF GroupInv, NoGroupYet, NoneTerminated, FailedOnUnset, Running
<1> QED BY <1>7, <1>8, <1>9, <1>10, <1>11 DEF IInv

-----------------------------------------------------------------------------
(* Steps of the shell that start a command.                                *)

LEMMA AddJobInv ==
  ASSUME IInv, AddJob
  PROVE  IInv'
<1>1. /\ pc = "line" /\ pc' = (IF line \in {"none", "pipe&"} THEN "done" ELSE "fork")
      /\ line \in CommandLines
      /\ entered' = entered + 1
      /\ i' = NextIndex
      /\ at' = Len(job_chain')
      /\ tstp' \in {"default", "ignored"}
      /\ UNCHANGED <<line, suspended, tty, procVars>>
      /\ ~suspended
      /\ pc \notin Ended
  BY DEF AddJob, Run, Goto, ttyVars, ShellRuns, IInv, ControlInv
<1>2. entered' \in Numbers /\ entered \in Nat
  BY <1>1, YashAssumption DEF IInv, ControlInv, LineByPc, Numbers
<1>3. PICK e \in Numbers, p \in Unset :
        e = entered' /\ job_chain' = addToJobChain(job_chain, e, p)
  BY <1>2 DEF AddJob
<1> DEFINE size == Len(job_chain)
           id == getNextJobId(job_chain)
           new == allocJob(e, id, p)
<1>4. /\ size \in Nat /\ Positions = 1 .. size /\ DOMAIN job_chain = 1 .. size
      /\ \A n \in 1 .. size : job_chain[n] \in Jobs
      /\ job_chain \in Seq(Jobs)
  BY ListFacts DEF IInv, ListInv, Positions
<1>5. id \in Nat /\ \A n \in 1 .. size : job_chain[n].id < id
  <2>1. CASE job_chain = <<>>
    <3>1. size = 0 /\ id = 1
      BY <2>1, EmptySeq DEF getNextJobId
    <3> QED BY <3>1
  <2>2. CASE job_chain # <<>>
    <3>1. size \in 1 .. size
      BY <1>4, <2>2, EmptySeq
    <3>2. id = job_chain[size].id + 1 /\ job_chain[size].id \in Nat
      BY <1>4, <2>2, <3>1 DEF getNextJobId, Jobs
    <3> HIDE DEF size, id
    <3>3. \A n \in 1 .. size : n < size => job_chain[n].id < job_chain[size].id
      BY <1>4, <3>1 DEF IInv, ListInv, IdsIncrease
    <3>4. \A n \in 1 .. size : job_chain[n].id \in Nat
      BY <1>4 DEF Jobs
    <3>5. \A n \in 1 .. size : n < size \/ n = size
      BY <1>4
    <3> QED BY <3>2, <3>3, <3>4, <3>5
  <2> QED BY <2>1, <2>2
<1>6. new \in Jobs /\ new.command = e /\ new.pgid = p /\ new.id = id /\ NotTerminated(new)
  BY <1>5 DEF allocJob, Jobs, JobStates, NotTerminated
<1> HIDE DEF id
<1>7. job_chain' = Append(job_chain, new)
  BY <1>3 DEF addToJobChain, id
<1> HIDE DEF new
<1>8. /\ job_chain' \in Seq(Jobs) /\ Len(job_chain') = size + 1
      /\ \A n \in 1 .. size : job_chain'[n] = job_chain[n]
      /\ job_chain'[size + 1] = new
  BY <1>4, <1>6, <1>7, AppendProperties
<1> HIDE DEF size
<1>9. /\ Positions' = 1 .. size + 1 /\ DOMAIN job_chain' = 1 .. size + 1
      /\ \A n \in 1 .. size + 1 : n \in 1 .. size \/ n = size + 1
      /\ 1 .. size \subseteq 1 .. size + 1 /\ size + 1 \in 1 .. size + 1
      /\ \A m, n \in 1 .. size + 1 : m < n => m \in 1 .. size
  BY <1>4, <1>8, LenProperties DEF Positions
<1>10. e = entered + 1 /\ p \notin Numbers /\ p # e
  BY <1>1, <1>3, TargetFacts
<1>11. IdsIncrease'
  BY <1>4, <1>5, <1>6, <1>8, <1>9 DEF IInv, ListInv, IdsIncrease
<1>12. CommandsIncrease'
  <2>1. \A n \in 1 .. size : /\ job_chain[n].command <= entered
                            /\ job_chain[n].command \in Int
    BY <1>4 DEF IInv, ListInv, CommandsIncrease, Jobs, Numbers
  <2>2. \A n \in 1 .. size : job_chain[n].command < e
    BY <1>2, <1>10, <2>1
  <2>3. \A n \in 1 .. size + 1 : job_chain'[n].command <= entered'
    BY <1>2, <1>3, <1>6, <1>8, <1>9, <1>10, <2>1
  <2>4. \A m, n \in 1 .. size + 1 :
          m < n => job_chain'[m].command < job_chain'[n].command
    BY <1>4, <1>6, <1>8, <1>9, <2>2 DEF IInv, ListInv, CommandsIncrease
  <2>5. \A n \in 1 .. size + 1 : job_chain'[n].pgid \in Numbers =>
          job_chain'[n].pgid = job_chain'[n].command
    BY <1>4, <1>6, <1>8, <1>9, <1>10 DEF IInv, ListInv, CommandsIncrease
  <2> QED BY <1>9, <2>3, <2>4, <2>5 DEF CommandsIncrease
<1>13. JobsMatchProcesses'
  BY <1>1, <1>4, <1>6, <1>8, <1>9, <1>10
  DEF IInv, JobsMatchProcesses, procVars, Unreaped, Alive, Leader, NotTerminated
<1>14. ProcessInv'
  BY <1>1 DEF IInv, ProcessInv, LeadersLeft, LeadersOut, procVars
<1>15. GroupInv'
  <2>1. pc' \in {"done", "fork"} /\ pc \in {"line"} \cup Running
    BY <1>1
  <2>2. \A n \in 1 .. size + 1 : NotTerminated(job_chain'[n])
    BY <1>4, <1>6, <1>8, <1>9, <2>1 DEF IInv, GroupInv, NoneTerminated, NotTerminated
  <2>3. \A n \in 1 .. size : job_chain[n].pgid # e
    BY <1>2, <1>4, <1>10 DEF IInv, ListInv, CommandsIncrease
  <2>4. \A n \in 1 .. size + 1 : job_chain'[n].pgid # e
    BY <1>6, <1>8, <1>9, <1>10, <2>3
  <2>5. job.command' = e
    BY <1>1, <1>6, <1>8 DEF job
  <2>6. NoGroupYet'
    BY <1>3, <1>9, <2>4, <2>5 DEF NoGroupYet
  <2> QED BY <1>9, <2>1, <2>2, <2>6 DEF GroupInv, NoneTerminated, FailedOnUnset
<1>16. ControlInv'
  <2>1. at' \in Positions' /\ at' \in Nat
    BY <1>1, <1>4, <1>8, <1>9
  <2>2. pc' = "fork" => line \in {"run", "run&", "pipe"}
    BY <1>1 DEF CommandLines
  <2>3. entered' \in 0 .. MaxCommands
    BY <1>2 DEF Numbers
  <2> QED
    BY <1>1, <1>2, <2>1, <2>2, <2>3, YashAssumption
    DEF IInv, ControlInv, LineByPc, PlaceByPc, HistoryByPc, TerminalByPc, TstpByPc,
        PromptIgnoresControlZ, Ended, Running, Idle, ShellStates, NextIndex
<1> QED BY <1>8, <1>11, <1>12, <1>13, <1>14, <1>15, <1>16 DEF IInv, ListInv

\* A child is born in the command's group; that of another job is not touched.
LEMMA ForkInv ==
  ASSUME IInv, Fork
  PROVE  IInv'
<1>1. /\ pc = "fork" /\ line \in {"run", "run&", "pipe"}
      /\ pc' = (CASE line = "run" -> "give" [] line = "run&" -> "done"
                  [] line = "pipe" -> "forkright")
      /\ proc' = [proc EXCEPT ![Leader(entered)] = "new"]
      /\ UNCHANGED <<i, entered, line, at, tstp, suspended, tty, ingrp, doomed>>
      /\ ~suspended
  BY DEF Fork, Goto, ttyVars, ShellRuns, IInv, ControlInv, LineByPc
<1>2. /\ pc \in {"line"} \cup Running /\ pc \notin Ended
      /\ entered \in Numbers /\ at \in Positions
      /\ pc' \in {"give", "done", "forkright"}
      /\ line = "pipe" <=> pc' = "forkright"
  BY <1>1 DEF Running, Ended, IInv, ControlInv, LineByPc, PlaceByPc
<1>3. /\ Len(job_chain) \in Nat
      /\ \A n \in Positions : job_chain[n] \in Jobs /\ NotTerminated(job_chain[n])
      /\ job.command = entered
      /\ \A n \in Positions : job_chain[n].pgid # entered
  BY <1>1, <1>2, ListFacts DEF IInv, GroupInv, NoneTerminated, NoGroupYet
<1>4. /\ job_chain' \in Seq(Jobs)
      /\ Len(job_chain') = Len(job_chain)
      /\ \A n \in Positions :
           /\ job_chain'[n].command = job_chain[n].command
           /\ job_chain'[n].id = job_chain[n].id
           /\ job_chain'[n].state = job_chain[n].state
           /\ job_chain'[n].pgid = IF n = at /\ ~Pipeline THEN entered
                                   ELSE job_chain[n].pgid
  <2>1. CASE Pipeline
    BY <2>1 DEF Fork, IInv, ListInv
  <2>2. CASE ~Pipeline
    <3> DEFINE changed == [job_chain[at] EXCEPT !.pgid = entered]
    <3>1. job_chain[at] \in Jobs /\ changed \in Jobs
      BY <1>2, <1>3 DEF Jobs
    <3>2. job_chain' = [job_chain EXCEPT ![at] = changed]
      BY <2>2 DEF Fork
    <3>3. /\ job_chain' \in Seq(Jobs)
          /\ Len(job_chain') = Len(job_chain)
          /\ \A n \in Positions :
               job_chain'[n] = IF n = at THEN changed ELSE job_chain[n]
      BY <1>2, <3>1, <3>2, ExceptSeq DEF IInv, ListInv, Positions
    <3>4. /\ changed.command = job_chain[at].command
          /\ changed.id = job_chain[at].id
          /\ changed.state = job_chain[at].state
          /\ changed.pgid = entered
      BY <3>1 DEF Jobs
    <3> HIDE DEF changed
    <3> QED BY <2>2, <3>3, <3>4
  <2> QED BY <2>1, <2>2
<1>5. Positions' = Positions /\ DOMAIN job_chain' = Positions /\ DOMAIN job_chain = Positions
  BY <1>4, ListFacts, LenProperties DEF Positions, IInv
<1>6. ListInv'
  <2>1. IdsIncrease'
    BY <1>4, <1>5 DEF IInv, ListInv, IdsIncrease
  <2>2. \A n \in Positions : job_chain'[n].pgid \in Numbers =>
          job_chain'[n].pgid = job_chain'[n].command
    BY <1>3, <1>4 DEF IInv, ListInv, CommandsIncrease, job
  <2>3. CommandsIncrease'
    BY <1>1, <1>4, <1>5, <2>2 DEF IInv, ListInv, CommandsIncrease
  <2> QED BY <1>4, <2>1, <2>3 DEF ListInv
<1>7. /\ proc \in [Children -> ProcStates]
      /\ \A g \in Numbers : g # entered => (Unreaped(Leader(g))' <=> Unreaped(Leader(g)))
      /\ Unreaped(Leader(entered))'
  <2>1. proc \in [Children -> ProcStates]
    BY DEF IInv, ProcessInv
  <2>2. \A g \in Numbers : g # entered => Leader(g) # Leader(entered)
    BY <1>2, LeaderFacts
  <2>3. proc'[Leader(entered)] = "new"
    BY <1>1, <1>2, <2>1, LeaderFacts
  <2>4. \A g \in Numbers : g # entered => proc'[Leader(g)] = proc[Leader(g)]
    BY <1>1, <2>1, <2>2, LeaderFacts
  <2>5. UNCHANGED entered
    BY <1>1
  <2> QED BY <2>1, <2>3, <2>4, <2>5 DEF Unreaped, Alive, Leader
<1>8. JobsMatchProcesses'
  <2> SUFFICES ASSUME NEW n \in Positions, NEW g \in Numbers, job_chain'[n].pgid = g
               PROVE  Unreaped(Leader(g))' <=> NotTerminated(job_chain[n])'
    BY <1>5 DEF JobsMatchProcesses
  <2>1. NotTerminated(job_chain[n])'
    BY <1>3, <1>4 DEF NotTerminated
  <2>2. CASE g = entered
    <3>1. Unreaped(Leader(g))'
      BY <1>1, <1>7, <2>2 DEF Leader
    <3> QED BY <2>1, <3>1
  <2>3. CASE g # entered
    <3>1. job_chain[n].pgid = g
      BY <1>4, <2>3
    <3>2. Unreaped(Leader(g))
      BY <1>3, <3>1 DEF IInv, JobsMatchProcesses
    <3> QED BY <1>7, <2>1, <2>3, <3>2
  <2> QED BY <2>2, <2>3
<1>9. ProcessInv'
  <2>1. proc' \in [Children -> ProcStates]
    BY <1>1, <1>7 DEF ProcStates
  <2>2. LeadersOut'
    BY <1>1, <1>2, <1>7, LeaderFacts DEF IInv, ProcessInv, LeadersLeft, LeadersOut
  <2>3. piped' \subseteq Numbers
    BY <1>2 DEF Fork, IInv, ProcessInv
  <2> QED BY <1>1, <2>1, <2>2, <2>3 DEF IInv, ProcessInv, LeadersLeft
<1>10. GroupInv'
  <2>1. \A n \in Positions : NotTerminated(job_chain'[n])
    BY <1>3, <1>4 DEF NotTerminated
  <2>2. line' = "pipe" => \A n \in Positions : job_chain'[n].pgid # entered'
    BY <1>1, <1>3, <1>4 DEF Pipeline
  <2>3. NoGroupYet'
    BY <1>2, <1>5, <2>2 DEF NoGroupYet
  <2> QED BY <1>2, <1>5, <2>1, <2>3 DEF GroupInv, NoneTerminated, FailedOnUnset
<1>11. ControlInv'
  BY <1>1, <1>2, <1>5
  DEF IInv, ControlInv, LineByPc, PlaceByPc, HistoryByPc, TerminalByPc, TstpByPc,
      PromptIgnoresControlZ, Ended, Running, Idle, ShellStates
<1> QED BY <1>6, <1>8, <1>9, <1>10, <1>11 DEF IInv

LEMMA ForkRightInv ==
  ASSUME IInv, ForkRight
  PROVE  IInv'
<1>1. /\ pc = "forkright" /\ pc' = "give"
      /\ proc' = [proc EXCEPT ![<<entered, 2>>] = "new"]
      /\ UNCHANGED <<job_chain, i, entered, line, at, tstp, suspended, tty>>
      /\ UNCHANGED <<ingrp, doomed, piped>>
      /\ ~suspended /\ line = "pipe" /\ entered \in Numbers
  BY DEF ForkRight, Goto, ttyVars, ShellRuns, IInv, ControlInv, LineByPc, Running
<1>2. SameJobs /\ ListInv'
  BY <1>1, SameChain, ListKept DEF IInv
<1>3. /\ proc \in [Children -> ProcStates] /\ proc' \in [Children -> ProcStates]
      /\ \A g \in Numbers : proc'[Leader(g)] = proc[Leader(g)]
  <2>1. proc \in [Children -> ProcStates]
    BY DEF IInv, ProcessInv
  <2>2. \A g \in Numbers : Leader(g) # <<entered, 2>>
    BY DEF Leader
  <2>3. <<entered, 2>> \in Children
    BY <1>1 DEF Children
  <2> QED BY <1>1, <2>1, <2>2, <2>3, LeaderFacts DEF ProcStates
<1>4. JobsMatchProcesses'
  BY <1>1, <1>2, <1>3, MatchKept DEF IInv, Unreaped, Alive
<1>5. ProcessInv'
  BY <1>1, <1>3 DEF IInv, ProcessInv, LeadersLeft, LeadersOut, Ended
<1>6. ControlInv'
  <2>1. at \in Positions
    BY <1>1 DEF IInv, ControlInv, PlaceByPc
  <2> QED
    BY <1>1, <2>1
    DEF IInv, ControlInv, LineByPc, PlaceByPc, HistoryByPc, TerminalByPc, TstpByPc,
        PromptIgnoresControlZ, Ended, Running, Idle, ShellStates, Positions
<1>7. GroupInv'
  BY <1>1
  DEF IInv, GroupInv, NoGroupYet, NoneTerminated, FailedOnUnset, Running, Positions
<1> QED BY <1>2, <1>4, <1>5, <1>6, <1>7 DEF IInv

LEMMA GiveTerminalControlInv ==
  ASSUME IInv, GiveTerminalControl
  PROVE  IInv'
<1>1. /\ pc = "give" /\ pc' = (IF line = "pipe" THEN "waitright" ELSE "wait")
      /\ UNCHANGED <<job_chain, i, entered, line, at, tstp, suspended>>
      /\ ~suspended /\ pc \notin Ended
      /\ line \in {"run", "pipe", "fg"} /\ at \in Positions
  BY DEF GiveTerminalControl, Goto, ShellRuns, IInv, ControlInv, LineByPc, PlaceByPc
<1>2. SameJobs /\ ListInv'
  BY <1>1, SameChain, ListKept DEF IInv
<1>3. ProcessInv' /\ \A c \in Children : Unreaped(c)' <=> Unreaped(c)
  <2>1. CASE line = "pipe"
    <3>1. UNCHANGED procVars
      BY <2>1 DEF GiveTerminalControl
    <3> QED
      BY <1>1, <3>1
      DEF IInv, ProcessInv, LeadersLeft, LeadersOut, procVars, Unreaped, Alive
  <2>2. CASE line # "pipe"
    <3>1. PICK p : p = Target
      OBVIOUS
    <3>2. Resume(p)
      BY <2>2, <3>1 DEF GiveTerminalControl
    <3> QED BY <1>1, <3>2, ResumeFacts
  <2> QED BY <2>1, <2>2
<1>4. JobsMatchProcesses'
  BY <1>1, <1>2, <1>3, MatchKept, LeaderFacts DEF IInv
<1>5. tty' \in Numbers \cup {0}
  <2>1. Target \in Numbers \cup Unset
    <3>1. job.pgid \in Numbers \cup Unset
      BY <1>1, ListFacts DEF IInv, job, Jobs
    <3>2. line = "pipe" => entered \in Numbers
      BY <1>1 DEF IInv, ControlInv, LineByPc, Running
    <3> QED BY <3>1, <3>2 DEF Target
  <2> QED BY <2>1 DEF GiveTerminalControl, IInv, ControlInv
<1>6. ControlInv'
  BY <1>1, <1>5
  DEF IInv, ControlInv, LineByPc, PlaceByPc, HistoryByPc, TerminalByPc, TstpByPc,
      PromptIgnoresControlZ, Ended, Running, Idle, ShellStates, Positions
<1>7. GroupInv'
  BY <1>1
  DEF IInv, GroupInv, NoGroupYet, NoneTerminated, FailedOnUnset, Running, Positions
<1> QED BY <1>2, <1>3, <1>4, <1>6, <1>7 DEF IInv

\* The pipeline waits for children of its own group, which is no job's.
LEMMA WaitPipeInv ==
  ASSUME IInv, NEW from \in {"waitright", "waitleft"}, NEW k \in {1, 2},
         NEW to \in {"waitleft", "done"}, WaitPipe(from, k, to)
  PROVE  IInv'
<1>1. /\ pc = from /\ pc' = to
      /\ UNCHANGED <<job_chain, i, entered, line, at, tstp, suspended>>
      /\ ~suspended /\ pc \notin Ended
      /\ tty' = IF to = "done" THEN 0 ELSE tty
      /\ line = "pipe" /\ entered \in Numbers
  BY DEF WaitPipe, Claim, Goto, ShellRuns, IInv, ControlInv, LineByPc, Running
<1>2. \A n \in Positions : job_chain[n].pgid # entered
  BY <1>1 DEF IInv, GroupInv, NoGroupYet, Running
<1>3. PICK c \in Children : c = <<entered, k>>
  BY <1>1 DEF Children
<1>4. SameJobs /\ ListInv'
  BY <1>1, SameChain, ListKept DEF IInv
<1>5. ProcessInv' /\ JobsMatchProcesses'
  <2>1. CASE Collect(c)
    <3>1. ProcessInv' /\ \A d \in Children : d # c => (Unreaped(d)' <=> Unreaped(d))
      BY <1>1, <2>1, CollectFacts
    <3>2. \A g \in Numbers : g # entered => Leader(g) # c
      BY <1>3 DEF Leader
    <3> SUFFICES ASSUME NEW n \in Positions, NEW g \in Numbers, job_chain[n].pgid = g
                 PROVE  Unreaped(Leader(g))' <=> NotTerminated(job_chain[n])
      BY <1>1, <3>1 DEF JobsMatchProcesses, Positions, NotTerminated
    <3>3. Unreaped(Leader(g))' <=> Unreaped(Leader(g))
      BY <1>2, <3>1, <3>2, LeaderFacts
    <3> QED BY <3>3 DEF IInv, JobsMatchProcesses
  <2>2. CASE UNCHANGED procVars
    <3>1. ProcessInv'
      BY <1>1, <2>2 DEF IInv, ProcessInv, LeadersLeft, LeadersOut, procVars
    <3>2. JobsMatchProcesses'
      BY <1>1, <1>4, <2>2, MatchKept DEF IInv, procVars, Unreaped, Alive
    <3> QED BY <3>1, <3>2
  <2> QED BY <1>3, <2>1, <2>2 DEF WaitPipe
<1>6. ControlInv'
  BY <1>1
  DEF IInv, ControlInv, LineByPc, PlaceByPc, HistoryByPc, TerminalByPc, TstpByPc,
      PromptIgnoresControlZ, Ended, Running, Idle, ShellStates, Positions
<1>7. GroupInv'
  BY <1>1
  DEF IInv, GroupInv, NoGroupYet, NoneTerminated, FailedOnUnset, Running, Positions
<1> QED BY <1>4, <1>5, <1>6, <1>7 DEF IInv

-----------------------------------------------------------------------------
LEMMA NextInv == IInv /\ [Next]_vars => IInv'
<1> SUFFICES ASSUME IInv, [Next]_vars PROVE IInv'
  OBVIOUS
<1>1. ASSUME NEW l \in Lines, Type(l) PROVE IInv'
  BY <1>1, TypeInv
<1>2. CASE Eof
  BY <1>2, EofInv
<1>3. CASE ShellStep
  <2>1. CASE Update
    BY <2>1, UpdateInv
  <2>2. CASE RemoveTerminated
    BY <2>2, RemoveTerminatedInv
  <2>3. CASE ListJobs
    BY <2>3, ListJobsInv
  <2>4. CASE FgLast
    BY <2>4, FgLastInv
  <2>5. CASE BgLastStopped
    BY <2>5, BgLastStoppedInv
  <2>6. CASE AddJob
    BY <2>6, AddJobInv
  <2>7. CASE Fork
    BY <2>7, ForkInv
  <2>8. CASE ForkRight
    BY <2>8, ForkRightInv
  <2>9. CASE GiveTerminalControl
    BY <2>9, GiveTerminalControlInv
  <2>10. CASE Wait
    BY <2>10, WaitInv
  <2>11. CASE WaitFails
    BY <2>11, WaitFailsInv
  <2>12. CASE WaitPipe("waitright", 2, "waitleft")
    BY <2>12, WaitPipeInv
  <2>13. CASE WaitPipe("waitleft", 1, "done")
    BY <2>13, WaitPipeInv
  <2>14. CASE Done
    BY <2>14, DoneInv
  <2> QED
    BY <1>3, <2>1, <2>2, <2>3, <2>4, <2>5, <2>6, <2>7, <2>8, <2>9, <2>10, <2>11,
       <2>12, <2>13, <2>14 DEF ShellStep
<1>4. ASSUME NEW c \in Children, ChildSetup(c) \/ Exit(c) PROVE IInv'
  BY <1>4, ChildSetupInv, ExitInv
<1>5. CASE ControlC
  BY <1>5, ControlCInv
<1>6. CASE ControlZ
  BY <1>6, ControlZInv
<1>7. CASE Continued
  BY <1>7, ContinuedInv
<1>8. CASE UNCHANGED vars
  BY <1>8, ChildrenStep
  DEF vars, shellVars, ttyVars, procVars, IInv, ControlInv, ProcessInv, LeadersLeft,
      LeadersOut, PromptIgnoresControlZ, Unreaped, Alive
<1> QED BY <1>1, <1>2, <1>3, <1>4, <1>5, <1>6, <1>7, <1>8 DEF Next

LEMMA Inductive == Spec => []IInv
BY InitInv, NextInv, PTL DEF Spec

\* Every variable has the type of what it stands for in yash.c.
THEOREM TypeCorrect == Spec => []TypeOK
BY Inductive, IInvImplies, PTL

\* The number getNextJobId gives a job is above that of every job listed,
\* although numbers of removed jobs are given again.
THEOREM NumbersIncrease == Spec => []IdsIncrease
BY Inductive, IInvImplies, PTL

\* The index a command is stored at in history is never past its end.
THEOREM HistoryHolds == Spec => []StoredWithinHistory
BY Inductive, IInvImplies, PTL

\* Whatever ended the last command, the shell owns the terminal at its prompt.
THEOREM PromptOwnsTerminal == Spec => []TerminalReturned
BY Inductive, IInvImplies, PTL

\* waitForChild fails, and the shell exits, only for a job without a group.
THEOREM WaitFailsOnlyUnset == Spec => []FailsOnlyOnUnsetGroup
BY Inductive, IInvImplies, PTL

\* No ^Z stops the shell at its prompt or between two commands.
THEOREM NeverStoppedAtPrompt == Spec => []PromptIgnoresControlZ
BY Inductive, IInvImplies, PTL

-----------------------------------------------------------------------------
(* The jobs that leave the list.                                           *)

\* The step of LiveLostOnlyWithFirst.
LosesLiveOnlyWithFirst ==
  \A n \in DOMAIN job_chain :
    LET g == job_chain[n].pgid
    IN g \in Numbers /\ Alive(Leader(g))
         /\ (\A m \in DOMAIN job_chain' : job_chain'[m].pgid # g)
       => Head(job_chain).state = "TERMINATED"

\* Every group that is listed stays listed.
GroupsKept ==
  \A n \in Positions : job_chain[n].pgid \in Numbers =>
    \E m \in DOMAIN job_chain' : job_chain'[m].pgid = job_chain[n].pgid

LEMMA KeptSuffices ==
  ASSUME IInv, GroupsKept
  PROVE  LosesLiveOnlyWithFirst
BY ListFacts DEF IInv, GroupsKept, LosesLiveOnlyWithFirst

LEMMA SameJobsKept ==
  ASSUME IInv, SameJobs
  PROVE  GroupsKept
<1>1. DOMAIN job_chain' = Positions
  BY LenProperties DEF SameJobs, Positions
<1> QED BY <1>1 DEF SameJobs, GroupsKept

\* AddJob puts a job behind the others.
LEMMA AddJobKeeps ==
  ASSUME IInv, AddJob
  PROVE  GroupsKept
<1>1. PICK new \in Jobs : job_chain' = Append(job_chain, new)
  <2>1. /\ Len(job_chain) \in Nat /\ DOMAIN job_chain = Positions
        /\ \A n \in Positions : job_chain[n] \in Jobs
    BY ListFacts DEF IInv
  <2>2. entered' \in Numbers
    BY YashAssumption
    DEF AddJob, Run, IInv, ControlInv, LineByPc, Numbers
  <2> DEFINE id == getNextJobId(job_chain)
  <2>3. PICK p \in Unset : job_chain' = Append(job_chain, allocJob(entered', id, p))
    BY DEF AddJob, addToJobChain
  <2>4. id \in Nat
    <3>1. job_chain # <<>> => Len(job_chain) \in Positions
      BY EmptySeq DEF IInv, ListInv, Positions
    <3> QED BY <2>1, <3>1 DEF getNextJobId, Jobs
  <2> HIDE DEF id
  <2>5. allocJob(entered', id, p) \in Jobs
    BY <2>2, <2>4 DEF allocJob, Jobs, JobStates
  <2> QED BY <2>3, <2>5
<1>2. /\ job_chain \in Seq(Jobs) /\ job_chain' \in Seq(Jobs)
      /\ Len(job_chain) \in Nat /\ Len(job_chain') = Len(job_chain) + 1
      /\ \A n \in 1 .. Len(job_chain) : job_chain'[n] = job_chain[n]
  BY <1>1, AppendProperties, LenProperties DEF IInv, ListInv
<1>3. Positions \subseteq DOMAIN job_chain'
  BY <1>2, LenProperties DEF Positions
<1> QED BY <1>2, <1>3 DEF GroupsKept, Positions

\* Fork gives a group to a job that had none.
LEMMA ForkKeeps ==
  ASSUME IInv, Fork
  PROVE  GroupsKept
<1>1. /\ pc = "fork" /\ at \in Positions
      /\ job.command = entered
      /\ \A n \in Positions : job_chain[n].pgid # entered
  BY DEF Fork, IInv, ControlInv, PlaceByPc, GroupInv, NoGroupYet, Running
<1>2. job.pgid \notin Numbers
  BY <1>1 DEF IInv, ListInv, CommandsIncrease, job
<1>3. DOMAIN job_chain' = DOMAIN job_chain /\ DOMAIN job_chain = Positions
  BY ListFacts DEF Fork, IInv
<1>4. \A n \in Positions : n # at => job_chain'[n] = job_chain[n]
  BY <1>3 DEF Fork
<1>5. ASSUME NEW n \in Positions, job_chain[n].pgid \in Numbers
      PROVE  n \in DOMAIN job_chain' /\ job_chain'[n].pgid = job_chain[n].pgid
  <2>1. n # at
    BY <1>2, <1>5 DEF job
  <2> QED BY <1>3, <1>4, <2>1
<1> QED BY <1>5 DEF GroupsKept

\* removeTerminated drops a job that has not ended only behind a first one that
\* has; the leader of any other job it drops was collected.
LEMMA RemoveTerminatedLoses ==
  ASSUME IInv, RemoveTerminated
  PROVE  LosesLiveOnlyWithFirst
<1>1. /\ DOMAIN job_chain = Positions /\ job_chain \in Seq(Jobs)
      /\ \A n \in Positions : job_chain[n] \in Jobs
  BY ListFacts DEF IInv, ListInv
<1>2. CASE NotTerminated(Head(job_chain))
  <2> DEFINE kept == {n \in DOMAIN job_chain : NotTerminated(job_chain[n])}
  <2>1. job_chain' = jobsAt(job_chain, kept)
    BY <1>2 DEF RemoveTerminated, removeTerminated
  <2>2. kept \in SUBSET (DOMAIN job_chain)
    OBVIOUS
  <2> HIDE DEF kept
  <2>3. job_chain' \in Seq(Jobs) /\ Selects(job_chain', job_chain, kept)
    BY <1>1, <2>1, <2>2, JobsAtSelects
  <2>4. \A n \in kept : \E m \in DOMAIN job_chain' : job_chain'[m] = job_chain[n]
    BY <2>3, LenProperties DEF Selects
  <2> SUFFICES ASSUME NEW n \in Positions, job_chain[n].pgid \in Numbers,
                      Alive(Leader(job_chain[n].pgid))
               PROVE  \E m \in DOMAIN job_chain' : job_chain'[m].pgid = job_chain[n].pgid
    BY <1>1 DEF LosesLiveOnlyWithFirst
  <2>5. NotTerminated(job_chain[n])
    BY DEF IInv, JobsMatchProcesses, Unreaped
  <2>6. n \in kept
    BY <1>1, <2>5 DEF kept
  <2> QED BY <2>4, <2>6
<1>3. CASE ~NotTerminated(Head(job_chain))
  BY <1>3 DEF NotTerminated, LosesLiveOnlyWithFirst
<1> QED BY <1>2, <1>3

\* The other steps change the state of one job at most.
LEMMA OthersKeep ==
  ASSUME IInv, [Next]_vars, ~AddJob, ~Fork, ~RemoveTerminated
  PROVE  SameJobs
<1>1. CASE UNCHANGED job_chain
  BY <1>1, SameChain DEF IInv
<1>2. CASE \E k \in Positions, s \in JobStates :
             job_chain' = [job_chain EXCEPT ![k].state = s]
  BY <1>2, StateChange DEF IInv
<1>3. {"RUNNING", "STOPPED", "TERMINATED"} \subseteq JobStates
  BY DEF JobStates
<1>4. CASE Update \/ Wait
  <2>1. at \in Positions
    <3>1. Len(job_chain) \in Nat
      BY ListFacts DEF IInv
    <3> QED BY <1>4, <3>1 DEF Update, Wait, IInv, ControlInv, PlaceByPc, Positions
  <2>2. \/ UNCHANGED job_chain
        \/ \E s \in {"TERMINATED", "STOPPED"} :
             job_chain' = [job_chain EXCEPT ![at].state = s]
    BY <1>4 DEF Update, Wait, Terminate
  <2> QED BY <1>1, <1>2, <1>3, <2>1, <2>2
<1>5. CASE FgLast
  <2>1. job_chain # <<>> => Len(job_chain) \in Positions
    BY EmptySeq DEF IInv, ListInv, Positions
  <2>2. \/ UNCHANGED job_chain
        \/ /\ job_chain # <<>>
           /\ job_chain' = [job_chain EXCEPT ![Len(job_chain)].state = "RUNNING"]
    BY <1>5 DEF FgLast
  <2> QED BY <1>1, <1>2, <1>3, <2>1, <2>2
<1>6. CASE BgLastStopped
  <2>1. \A n \in getLastStoppedJob(job_chain) : n \in Positions
    BY ListFacts DEF IInv, getLastStoppedJob
  <2>2. \/ UNCHANGED job_chain
        \/ \E n \in getLastStoppedJob(job_chain) :
             job_chain' = [job_chain EXCEPT ![n].state = "RUNNING"]
    BY <1>6 DEF BgLastStopped
  <2> QED BY <1>1, <1>2, <1>3, <2>1, <2>2
<1>7. CASE ~(Update \/ Wait \/ FgLast \/ BgLastStopped)
  <2>1. UNCHANGED job_chain
    BY <1>7
    DEF Next, ShellStep, vars, shellVars, Type, Eof, ListJobs, ForkRight,
        GiveTerminalControl, WaitFails, WaitPipe, Done, ChildSetup, Exit, ControlC,
        ControlZ, Continued
  <2> QED BY <1>1, <2>1
<1> QED BY <1>4, <1>5, <1>6, <1>7

LEMMA NextLoses == IInv /\ [Next]_vars => LosesLiveOnlyWithFirst
<1> SUFFICES ASSUME IInv, [Next]_vars PROVE LosesLiveOnlyWithFirst
  OBVIOUS
<1>1. CASE AddJob
  BY <1>1, AddJobKeeps, KeptSuffices
<1>2. CASE Fork
  BY <1>2, ForkKeeps, KeptSuffices
<1>3. CASE RemoveTerminated
  BY <1>3, RemoveTerminatedLoses
<1>4. CASE ~AddJob /\ ~Fork /\ ~RemoveTerminated
  BY <1>4, OthersKeep, SameJobsKept, KeptSuffices
<1> QED BY <1>1, <1>2, <1>3, <1>4

\* A job whose process is alive leaves the list only in the step that finds the
\* first job terminated, the one in which removeTerminated drops them all.
THEOREM LiveLeaveWithFirst == Spec => LiveLostOnlyWithFirst
<1>1. IInv /\ [Next]_vars => [LosesLiveOnlyWithFirst]_vars
  BY NextLoses
<1> QED BY <1>1, Inductive, PTL DEF Spec, LiveLostOnlyWithFirst, LosesLiveOnlyWithFirst
=============================================================================
