---------------------------- MODULE TaskLifecycle ----------------------------
(***************************************************************************)
(* What src/team/state/tasks.ts promises of a team's tasks, with no files, *)
(* locks, processes or crashes: who holds a task, how it ended, what it    *)
(* waits for, and what the event log has told of it.  Each step is what    *)
(* others see of one operation; module TeamTasks implements it.            *)
(***************************************************************************)
EXTENDS Naturals

CONSTANTS
  Task,      \* task ids
  InitNeeds  \* depends_on of each task as created

VARIABLES
  holder,   \* task -> the token of the claim on it, 0 for none
  lapsed,   \* the tasks whose claim has run out
  outcome,  \* task -> how it ended, or "none"
  needs,    \* task -> the tasks it depends on
  told      \* task -> how many completed and failed events were logged

vars == <<holder, lapsed, outcome, needs, told>>

Outcomes == {"completed", "failed"}

Init ==
  /\ holder = [t \in Task |-> 0]
  /\ lapsed = {}
  /\ outcome = [t \in Task |-> "none"]
  /\ needs = InitNeeds
  /\ told = [t \in Task |-> [o \in Outcomes |-> 0]]

\* A claim: on an unfinished task that nobody holds any more, all of whose
\* dependencies are completed.  Its token is any.  A claim whose call took long
\* may have run out by the time it is granted.
Grant(t) ==
  /\ outcome[t] = "none"
  /\ holder[t] = 0 \/ t \in lapsed
  /\ \A d \in needs[t] : outcome[d] = "completed"
  /\ holder'[t] # 0
  /\ holder' = [holder EXCEPT ![t] = holder'[t]]
  /\ lapsed' \in {lapsed \cup {t}, lapsed \ {t}}
  /\ UNCHANGED <<outcome, needs, told>>

\* The claim ends and the task is there to be claimed again: release, reclaim.
Drop(t) ==
  /\ holder[t] # 0
  /\ holder' = [holder EXCEPT ![t] = 0]
  /\ lapsed' = lapsed \ {t}
  /\ UNCHANGED <<outcome, needs, told>>

\* A transition: only of a task that is held, and once.
Finish(t, o) ==
  /\ holder[t] # 0
  /\ outcome[t] = "none"
  /\ outcome' = [outcome EXCEPT ![t] = o]
  /\ holder' = [holder EXCEPT ![t] = 0]
  /\ lapsed' = lapsed \ {t}
  /\ UNCHANGED <<needs, told>>

\* Its event: of the outcome the task has, and once.
Announce(t) ==
  /\ outcome[t] # "none"
  /\ \A o \in Outcomes : told[t][o] = 0
  /\ told' = [told EXCEPT ![t][outcome[t]] = 1]
  /\ UNCHANGED <<holder, lapsed, outcome, needs>>

\* updateTask.
Amend(t, deps) ==
  /\ needs' = [needs EXCEPT ![t] = deps]
  /\ UNCHANGED <<holder, lapsed, outcome, told>>

\* Time passes, for all claims at once.
Lapse(over) ==
  /\ \A t \in over : holder[t] # 0
  /\ lapsed' = lapsed \cup over
  /\ UNCHANGED <<holder, outcome, needs, told>>

Next ==
  \/ \E t \in Task :
       \/ Grant(t) \/ Drop(t) \/ Announce(t)
       \/ \E o \in Outcomes : Finish(t, o)
       \/ \E deps \in SUBSET Task : Amend(t, deps)
  \/ \E over \in SUBSET Task : Lapse(over)

Spec == Init /\ [][Next]_vars
=============================================================================
