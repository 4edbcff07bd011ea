----------------------------- MODULE JobLedger -----------------------------
(***************************************************************************)
(* What a shell promises its user about jobs, free of slots and indices:   *)
(* the jobs it knows, what it last recorded of each one, which of them are *)
(* in the background, and the order in which they were started.  "fg" and  *)
(* "bg" always act on the youngest job that qualifies.                     *)
(***************************************************************************)

CONSTANTS Groups      \* process group ids a job can have

VARIABLES
  state,   \* what was last recorded of each group
  back,    \* the groups recorded as background jobs
  older    \* <<g, h>> \in older: g was started before h

ledgerVars == <<state, back, older>>

RecordedStates == {"none", "running", "stopped"}

Jobs == {g \in Groups : state[g] # "none"}

\* The jobs of S that were started after every other job of S.
Youngest(S) == {g \in S : \A h \in S \ {g} : <<h, g>> \in older}

Stopped == {g \in Jobs : state[g] = "stopped"}

Init ==
  /\ state = [g \in Groups |-> "none"]
  /\ back = {}
  /\ older = {}

Start(g, background) ==
  /\ g \notin Jobs
  /\ state' = [state EXCEPT ![g] = "running"]
  /\ back' = IF background THEN back \cup {g} ELSE back
  /\ older' = older \cup (Jobs \X {g})

Finish(g) ==
  /\ g \in Jobs
  /\ state' = [state EXCEPT ![g] = "none"]
  /\ back' = back \ {g}
  /\ older' = {pair \in older : pair[1] # g /\ pair[2] # g}

Stop(g) ==
  /\ g \in Jobs
  /\ state' = [state EXCEPT ![g] = "stopped"]
  /\ back' = back \cup {g}
  /\ UNCHANGED older

Continue(g) ==
  /\ g \in Jobs
  /\ state' = [state EXCEPT ![g] = "running"]
  /\ UNCHANGED <<back, older>>

\* The recorded state of a job moved to the foreground is not refreshed
\* until the job next reports a change.
Foreground ==
  \E g \in Youngest(Stopped \cup back) :
    /\ back' = back \ {g}
    /\ UNCHANGED <<state, older>>

Background ==
  \E g \in Youngest(Stopped) :
    /\ state' = [state EXCEPT ![g] = "running"]
    /\ UNCHANGED <<back, older>>

Next ==
  \/ \E g \in Groups, background \in BOOLEAN : Start(g, background)
  \/ \E g \in Groups : Finish(g) \/ Stop(g) \/ Continue(g)
  \/ Foreground
  \/ Background

Spec == Init /\ [][Next]_ledgerVars
=============================================================================
