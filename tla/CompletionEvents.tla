--------------------------- MODULE CompletionEvents ---------------------------
(***************************************************************************)
(* Who announces that a task is completed.  transitionTaskStatus           *)
(* (src/team/state/tasks.ts) appends task_completed itself and then flags  *)
(* the task in the monitor's snapshot; monitorTeam (src/team/runtime.ts)   *)
(* appends it for tasks that were open in its last snapshot and are        *)
(* completed now, unless they are flagged.  Both read the snapshot file    *)
(* whole, and write it back whole, without a lock:                         *)
(*                                                                         *)
(*   call: Complete -> Append -> ReadSnapshot -> WriteSnapshot             *)
(*         (or Refuse -> ReadSnapshot -> WriteSnapshot)                    *)
(*   poll: StartPoll -> List -> (Relist ->) Emit* -> EndPoll               *)
(*                                                                         *)
(* TeamTasks has the claims and locks that let one call complete a task.   *)
(***************************************************************************)
EXTENDS Integers

CONSTANTS
  Task,
  Worker,       \* processes that call transitionTaskStatus(..., "completed")
  Monitor,      \* processes that poll
  MaxCrashes    \* bound: number of calls and polls that are killed

ASSUME TaskAssumption == Task # {}
ASSUME BoundAssumption == MaxCrashes \in Nat

VARIABLES
  status,      \* task -> status
  events,      \* task -> number of task_completed events, 2 for more
  snapshot,    \* the monitor snapshot
  call,        \* worker -> its call
  poll,        \* monitor -> its poll
  refused,     \* history: tasks flagged by a call that was refused
  overlapped,  \* history: a call or poll began while another was under way
  crashes      \* number of calls and polls killed so far

vars == <<status, events, snapshot, call, poll, refused, overlapped, crashes>>

-----------------------------------------------------------------------------
\* "open" is every status that may still become completed; "absent" is also
\* what a snapshot says of a task it does not mention.
Status == {"absent", "open", "completed"}

\* taskStatusById and completedEventTaskIds.  No file and an empty one are
\* the same to all that read it.
Snapshot == [known : [Task -> Status], flagged : SUBSET Task]

NoSnapshot == [known |-> [t \in Task |-> "absent"], flagged |-> {}]

Idle == "idle"

CallStep == {Idle, "append", "read", "write"}

\* A call that is to complete "task"; "copy" is the snapshot it has read.
Call == [step : CallStep, task : Task, copy : Snapshot]

PollStep == {Idle, "started", "listed"}

\* "prev" is the snapshot read first, "told" the tasks announced so far.
Poll == [step : PollStep, prev : Snapshot, view : [Task -> Status],
         told : SUBSET Task]

NoPoll == [step |-> Idle, prev |-> NoSnapshot, view |-> NoSnapshot.known,
           told |-> {}]

NoCall == [step |-> Idle, task |-> CHOOSE t \in Task : TRUE,
           copy |-> NoSnapshot]

TypeOK ==
  /\ status \in [Task -> Status]
  /\ events \in [Task -> 0..2]
  /\ snapshot \in Snapshot
  /\ call \in [Worker -> Call]
  /\ poll \in [Monitor -> Poll]
  /\ refused \subseteq Task
  /\ overlapped \in BOOLEAN
  /\ crashes \in Nat

Init ==
  /\ status = [t \in Task |-> "absent"]
  /\ events = [t \in Task |-> 0]
  /\ snapshot = NoSnapshot
  /\ call = [w \in Worker |-> NoCall]
  /\ poll = [m \in Monitor |-> NoPoll]
  /\ refused = {}
  /\ overlapped = FALSE
  /\ crashes = 0

Quiet == /\ \A w \in Worker : call[w].step = Idle
         /\ \A m \in Monitor : poll[m].step = Idle

\* A call or poll begins.
Begin == overlapped' = (overlapped \/ ~Quiet)

\* Mutation of Announce: events are appended without end.
AnnounceUncounted(t) == events' = [events EXCEPT ![t] = @ + 1]

Announce(t) == events' = [events EXCEPT ![t] = IF @ = 2 THEN 2 ELSE @ + 1]

-----------------------------------------------------------------------------
Create(t) ==
  /\ status[t] = "absent"
  /\ status' = [status EXCEPT ![t] = "open"]
  /\ UNCHANGED <<events, snapshot, call, poll, refused, overlapped, crashes>>

(* transitionTaskStatus                                                    *)

Goto(w, step, t, copy) ==
  call' = [call EXCEPT ![w] = [step |-> step, task |-> t, copy |-> copy]]

\* The task file is written; status, token and lock are as they must be.
Complete(w, t) ==
  /\ call[w].step = Idle /\ status[t] = "open"
  /\ status' = [status EXCEPT ![t] = "completed"]
  /\ Goto(w, "append", t, NoSnapshot)
  /\ Begin
  /\ UNCHANGED <<events, snapshot, poll, refused, crashes>>

\* The call is refused (its token is wrong or its lease over, or the task is
\* completed already), which does not keep it from flagging the task.
Refuse(w, t) ==
  /\ call[w].step = Idle /\ status[t] # "absent"
  /\ refused' = refused \cup {t}
  /\ Goto(w, "read", t, NoSnapshot)
  /\ Begin
  /\ UNCHANGED <<status, events, snapshot, poll, crashes>>

Append(w) ==
  /\ call[w].step = "append"
  /\ Announce(call[w].task)
  /\ Goto(w, "read", call[w].task, NoSnapshot)
  /\ UNCHANGED <<status, snapshot, poll, refused, overlapped, crashes>>

ReadSnapshot(w) ==
  /\ call[w].step = "read"
  /\ Goto(w, "write", call[w].task, snapshot)
  /\ UNCHANGED <<status, events, snapshot, poll, refused, overlapped, crashes>>

WriteSnapshot(w) ==
  /\ call[w].step = "write"
  /\ snapshot' = [known |-> call[w].copy.known,
                  flagged |-> call[w].copy.flagged \cup {call[w].task}]
  /\ call' = [call EXCEPT ![w] = NoCall]
  /\ UNCHANGED <<status, events, poll, refused, overlapped, crashes>>

-----------------------------------------------------------------------------
(* monitorTeam                                                             *)

StartPoll(m) ==
  /\ poll[m].step = Idle
  /\ poll' = [poll EXCEPT ![m] = [step |-> "started", prev |-> snapshot,
                                  view |-> NoSnapshot.known, told |-> {}]]
  /\ Begin
  /\ UNCHANGED <<status, events, snapshot, call, refused, crashes>>

\* listTasks, and once more after tasks were reclaimed or assigned.
List(m) ==
  /\ \/ poll[m].step = "started"
     \/ poll[m].step = "listed" /\ poll[m].told = {}
  /\ poll' = [poll EXCEPT ![m] = [step |-> "listed", prev |-> poll[m].prev,
                                  view |-> status, told |-> {}]]
  /\ UNCHANGED <<status, events, snapshot, call, refused, overlapped, crashes>>

\* Mutations of Due: the flag is not looked at; the monitor leaves all
\* announcements to the calls.
DueAnyway(p) == {t \in Task \ p.told :
                   p.prev.known[t] = "open" /\ p.view[t] = "completed"}

DueNever(p) == {}

\* The tasks emitMonitorDerivedEvents still has to announce.
Due(p) == {t \in Task \ p.told :
             /\ p.prev.known[t] = "open" /\ p.view[t] = "completed"
             /\ t \notin p.prev.flagged}

Emit(m, t) ==
  /\ poll[m].step = "listed" /\ t \in Due(poll[m])
  /\ Announce(t)
  /\ poll' = [poll EXCEPT ![m].told = @ \cup {t}]
  /\ UNCHANGED <<status, snapshot, call, refused, overlapped, crashes>>

\* The flags are those of the snapshot read first.
EndPoll(m) ==
  /\ poll[m].step = "listed" /\ Due(poll[m]) = {}
  /\ snapshot' = [known |-> poll[m].view, flagged |-> poll[m].prev.flagged]
  /\ poll' = [poll EXCEPT ![m] = NoPoll]
  /\ UNCHANGED <<status, events, call, refused, overlapped, crashes>>

-----------------------------------------------------------------------------
Killed == crashes < MaxCrashes /\ crashes' = crashes + 1

KillCall(w) ==
  /\ call[w].step # Idle /\ Killed
  /\ call' = [call EXCEPT ![w] = NoCall]
  /\ UNCHANGED <<status, events, snapshot, poll, refused, overlapped>>

KillPoll(m) ==
  /\ poll[m].step # Idle /\ Killed
  /\ poll' = [poll EXCEPT ![m] = NoPoll]
  /\ UNCHANGED <<status, events, snapshot, call, refused, overlapped>>

CallNext(w) ==
  \/ \E t \in Task : Complete(w, t) \/ Refuse(w, t)
  \/ Append(w) \/ ReadSnapshot(w) \/ WriteSnapshot(w) \/ KillCall(w)

Report(m) == List(m) \/ EndPoll(m) \/ \E t \in Task : Emit(m, t)

Next ==
  \/ \E t \in Task : Create(t)
  \/ \E w \in Worker : CallNext(w)
  \/ \E m \in Monitor : StartPoll(m) \/ Report(m) \/ KillPoll(m)

Spec == Init /\ [][Next]_vars

-----------------------------------------------------------------------------
(* Properties.                                                             *)

\* What the flag is for: no completion is announced twice, as long as nothing
\* is killed and no two writers of the snapshot are under way at once.
AtMostOnce ==
  ~overlapped /\ crashes = 0 => \A t \in Task : events[t] <= 1

\* The files are well typed, and the announcements counted.
Sound == TypeOK /\ AtMostOnce

\* What the monitor's events are for: a completion that a poll takes note of,
\* of a task the monitor knew to be open, has been announced by then, although
\* the process that completed the task may have died before its event.  The
\* flag of a refused call may hide it.
CaughtUp ==
  [][~overlapped' =>
       \A t \in Task \ refused :
         snapshot.known[t] = "open" /\ snapshot'.known[t] = "completed"
         => events[t] >= 1]_vars

-----------------------------------------------------------------------------
(* Liveness: polls go on, and are carried out.                             *)

FairSpec ==
  Spec /\ \A m \in Monitor : WF_vars(StartPoll(m)) /\ WF_vars(Report(m))

\* A completed task that the monitor's snapshot has as open, with no flag of a
\* refused call, is announced in the end, whatever is killed.
Announced ==
  []~overlapped =>
    \A t \in Task :
      (snapshot.known[t] = "open" /\ status[t] = "completed")
        ~> (events[t] >= 1 \/ t \in refused)
=============================================================================
