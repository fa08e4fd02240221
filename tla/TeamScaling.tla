---------------------------- MODULE TeamScaling ----------------------------
(***************************************************************************)
(* The members and the tasks of one team while it is started, scaled and   *)
(* shut down (src/team/runtime.ts, scaling.ts, state.ts).                  *)
(*                                                                         *)
(* Every operation reads the team's configuration, works on its copy for   *)
(* seconds or minutes, and writes the whole copy back:                     *)
(*   createTask  under .lock.create-task, for the number of its task       *)
(*   scaleUp, scaleDown  under .lock.scaling; scaleUp creates its tasks    *)
(*               first, so that the file is ahead of its copy              *)
(*   startTeam, shutdownTeam  under no lock                                *)
(* config.json is written before manifest.v2.json, which readers prefer:   *)
(* the second write is the one that counts, and the variable config is the *)
(* manifest.                                                               *)
(***************************************************************************)
EXTENDS Naturals, FiniteSets

CONSTANTS
  Proc,          \* processes that run operations of the team
  Nobody,
  FirstWorkers,  \* workers a team starts with
  MaxWorkers,    \* DEFAULT_MAX_WORKERS
  MaxCalls,      \* bound: operations begun
  MaxFaults      \* bound: processes killed, locks broken or waited for past
                 \* their timeout

ASSUME ConstantAssumption ==
  /\ Nobody \notin Proc
  /\ FirstWorkers \in 1..MaxWorkers
  /\ {MaxWorkers, MaxCalls, MaxFaults} \subseteq Nat

VARIABLES
  config,   \* the team's configuration on file
  writer,   \* history: the operation that last changed its members
  tasks,    \* the team's task files
  panes,    \* live worker panes
  working,  \* numbers of the workers whose status file says so
  draining, \* likewise
  masked,   \* history: numbers of the workers whose status file a start has
            \* overwritten, or a removal taken, since they wrote it
  over,     \* the team's phase on file is a terminal one
  busy,     \* panes whose worker is at work
  lock,     \* who holds the two locks
  call,     \* process -> the operation it runs
  spawned,  \* panes opened so far
  written,  \* task files written so far
  calls, faults,
  why       \* history: what may have cost the team a change

vars == <<config, writer, tasks, panes, working, draining, masked, over, busy, lock,
          call, spawned, written, calls, faults, why>>

status == <<working, draining, masked>>

files == <<status, over>>

file == <<config, writer>>

members == <<panes, busy, spawned>>

bounds == <<calls, faults>>

-----------------------------------------------------------------------------
\* A worker's name holds its number; pane 0 is none yet.
Worker == [index : Nat, pane : Nat]

\* made tells the files that had the same id apart.
Task == [id : Nat \ {0}, made : Nat]

Config == [workers : SUBSET Worker, nextIndex : Nat, nextTask : Nat]

NoTeam == [workers |-> {}, nextIndex |-> 0, nextTask |-> 0]

NoWorker == [index |-> 0, pane |-> 0]

Lock == {"scaling", "tasks"}

Operation == {"none", "create", "up", "down", "start", "stop"}

Step == {"idle", "makeTask", "readTask", "writeTask", "countTask", "read",
         "open", "save", "notify", "undo", "revert", "drain", "wait", "kill",
         "sweep", "clean"}

\* copy: the configuration it works on; taskCopy, id: of createTask
\* left: workers to add; fresh: the one being started; added: those saved
\* made: tasks it created; targets: workers to remove, how they were picked,
\* and occupied: the panes that had been seen at work when it last looked
Call == [op : Operation, step : Step, copy : Config, taskCopy : Config,
         id : Nat, first : Nat, left : Nat, fresh : Worker,
         added : SUBSET Worker, made : SUBSET Task,
         how : {"none", "named", "counted", "forced"},
         targets : SUBSET Worker, occupied : SUBSET Nat]

NoCall == [op |-> "none", step |-> "idle", copy |-> NoTeam,
           taskCopy |-> NoTeam, id |-> 0, first |-> 0, left |-> 0,
           fresh |-> NoWorker, added |-> {}, made |-> {}, how |-> "none",
           targets |-> {}, occupied |-> {}]

\* Why a change may be lost, or a pane forgotten.
\*   crossed:   an operation wrote over members that it had not read, changed
\*              by one that holds another lock, or none
\*   threw:     an operation ended with an exception that nobody catches
\*   removed:   the team's directory was removed under another operation
\*   restarted: a start took the name of a finished team with live panes, or
\*              of one that an operation was at work on
\*   killed, broken: a process was killed, a slow one lost its lock
Cause == {"crossed", "threw", "removed", "restarted", "killed", "broken"}

TypeOK ==
  /\ config \in Config /\ writer \in Operation
  /\ tasks \subseteq Task
  /\ panes \subseteq Worker
  /\ working \subseteq Nat /\ draining \subseteq Nat /\ masked \subseteq Nat
  /\ over \in BOOLEAN
  /\ busy \subseteq {w.pane : w \in panes}
  /\ lock \in [Lock -> Proc \cup {Nobody}]
  /\ call \in [Proc -> Call]
  /\ spawned \in Nat /\ written \in Nat
  /\ calls \in 0..MaxCalls /\ faults \in 0..MaxFaults
  /\ why \subseteq Cause

\* No team, or one that has been started.
Init ==
  /\ panes \in {{}, {[index |-> i, pane |-> i] : i \in 1..FirstWorkers}}
  /\ config = IF panes = {} THEN NoTeam
              ELSE [workers |-> panes, nextIndex |-> FirstWorkers + 1,
                    nextTask |-> 1]
  /\ writer = "none"
  /\ tasks = {}
  /\ working = {} /\ draining = {} /\ masked = {} /\ busy = {}
  /\ over = FALSE
  /\ lock = [l \in Lock |-> Nobody]
  /\ call = [p \in Proc |-> NoCall]
  /\ spawned = Cardinality(panes) /\ written = 0
  /\ calls = 0 /\ faults = 0
  /\ why = {}

-----------------------------------------------------------------------------
At(p, op, step) == call[p].op = op /\ call[p].step = step

Goto(p, step) == call' = [call EXCEPT ![p].step = step]

End(p) == call' = [call EXCEPT ![p] = NoCall]

Begin(p, op, step) ==
  /\ call[p].op = "none"
  /\ calls < MaxCalls
  /\ calls' = calls + 1
  /\ call' = [call EXCEPT ![p] = [NoCall EXCEPT !.op = op, !.step = step]]
  /\ UNCHANGED faults

Fault == faults < MaxFaults /\ faults' = faults + 1

Take(l, p) ==
  /\ lock[l] = Nobody
  /\ lock' = [lock EXCEPT ![l] = p]

\* The owner file tells whether the lock is still there to be given back.
Give(l, p) == lock' = [lock EXCEPT ![l] = IF @ = p THEN Nobody ELSE @]

Holds(p, l) ==
  IF l = "scaling" THEN call[p].op \in {"up", "down"}
  ELSE call[p].step \in {"readTask", "writeTask", "countTask"}

\* Has read the team's configuration, or holds one of its locks.
AtWork(p) == call[p].copy # NoTeam \/ \E l \in Lock : Holds(p, l)

Numbers(workers) == {w.index : w \in workers}

\* The locks go with the team's directory, whoever holds them.
RemoveDirectory(p, cause) ==
  /\ tasks' = {}
  /\ working' = {} /\ draining' = {} /\ masked' = Numbers(panes)
  /\ over' = FALSE
  /\ lock' = [l \in Lock |-> Nobody]
  /\ why' = why \cup cause \cup
              IF \E q \in Proc \ {p} : AtWork(q) THEN {"removed"} ELSE {}

SameMembers(c, d) == c.workers = d.workers /\ c.nextIndex = d.nextIndex

\* Two scalings hold the same lock, and so do two createTasks.
SameLock(o1, o2) ==
  {o1, o2} \subseteq {"up", "down"} \/ {o1, o2} = {"create"}

\* p writes the configuration, and may write over what others changed since
\* it read, or last wrote, the members in read.
Write(p, new) ==
  /\ config' = new
  /\ writer' = IF SameMembers(config, new) THEN writer ELSE call[p].op

Crossed(p, read) ==
  IF SameMembers(config, read) \/ SameLock(call[p].op, writer) THEN {}
  ELSE {"crossed"}

Save(p, read, new) ==
  /\ Write(p, new)
  /\ why' = why \cup Crossed(p, read)

Close(closed) ==
  /\ panes' = panes \ closed
  /\ busy' = busy \ {w.pane : w \in closed}
  /\ UNCHANGED spawned

Open(opened) ==
  /\ panes' = panes \cup opened
  /\ spawned' = spawned + Cardinality(opened)
  /\ UNCHANGED busy

\* The first entry of a list of workers with that name.
First(workers, i) ==
  CHOOSE w \in workers :
    w.index = i /\ \A v \in workers : v.index = i => w.pane <= v.pane

-----------------------------------------------------------------------------
(* createTask, by itself and as a part of scaleUp and startTeam.           *)

BeginCreate(p) ==
  /\ Begin(p, "create", "makeTask")
  /\ UNCHANGED <<file, tasks, files, members, lock, written, why>>

LockTasks(p) ==
  /\ call[p].step = "makeTask"
  /\ Take("tasks", p)
  /\ Goto(p, "readTask")
  /\ UNCHANGED <<file, tasks, files, members, written, bounds, why>>

\* An exception in createTask ends scaleUp too; startTeam undoes its start.
TaskThrows(p) ==
  IF call[p].op = "start" THEN Goto(p, "clean") ELSE End(p)

\* Mutant: the counter on file is trusted.
NextTaskCounted(c) == c.nextTask

\* Mutant: the highest number in use, not the one after it.
NextTaskLast(c) ==
  CHOOSE n \in {0} \cup {t.id : t \in tasks} : \A t \in tasks : n >= t.id

\* The counter on file may lag behind the files.
NextTask(c) ==
  CHOOSE n \in {c.nextTask} \cup {t.id + 1 : t \in tasks} :
    n >= c.nextTask /\ \A t \in tasks : n > t.id

ReadTask(p) ==
  /\ call[p].step = "readTask"
  /\ IF config = NoTeam
     THEN /\ TaskThrows(p)
          /\ lock' = [l \in Lock |->
                        IF lock[l] = p /\ (l = "tasks" \/ call[p].op = "up")
                        THEN Nobody ELSE lock[l]]
     ELSE /\ call' = [call EXCEPT ![p].step = "writeTask",
                                  ![p].taskCopy = config,
                                  ![p].id = NextTask(config)]
          /\ UNCHANGED lock
  /\ UNCHANGED <<file, tasks, files, members, written, bounds, why>>

WriteTask(p) ==
  /\ call[p].step = "writeTask"
  /\ LET new == [id |-> call[p].id, made |-> written + 1] IN
     /\ tasks' = {t \in tasks : t.id # new.id} \cup {new}
     /\ call' = [call EXCEPT ![p].step = "countTask",
                             ![p].made = IF call[p].op = "up"
                                         THEN {new} ELSE {}]
  /\ written' = written + 1
  /\ UNCHANGED <<file, files, members, lock, bounds, why>>

CountTask(p) ==
  /\ call[p].step = "countTask"
  /\ LET c == call[p].taskCopy IN
     Save(p, c, [c EXCEPT !.nextTask = call[p].id + 1])
  /\ Give("tasks", p)
  /\ IF call[p].op = "create" THEN End(p)
     ELSE call' = [call EXCEPT ![p].step = "open", ![p].id = 0,
                               ![p].taskCopy = NoTeam]
  /\ UNCHANGED <<tasks, files, members, written, bounds>>

\* The lock is held for too long.
TaskTimeout(p) ==
  /\ call[p].step = "makeTask"
  /\ lock["tasks"] # Nobody
  /\ Fault
  /\ TaskThrows(p)
  /\ IF call[p].op = "up" THEN Give("scaling", p) ELSE UNCHANGED lock
  /\ UNCHANGED <<file, tasks, files, members, written, calls, why>>

-----------------------------------------------------------------------------
(* scaleUp.                                                                *)

BeginUp(p) ==
  /\ Begin(p, "up", "read")
  /\ Take("scaling", p)
  /\ UNCHANGED <<file, tasks, files, members, written, why>>

ReadUp(p) ==
  /\ At(p, "up", "read")
  /\ \/ \E n \in 1..(MaxWorkers - Cardinality(config.workers)),
           step \in {"makeTask", "open"} :
          /\ config # NoTeam
          /\ call' = [call EXCEPT ![p].step = step, ![p].copy = config,
                                  ![p].first = config.nextIndex,
                                  ![p].left = n]
          /\ UNCHANGED lock
     \/ End(p) /\ Give("scaling", p)
  /\ UNCHANGED <<file, tasks, files, members, written, bounds, why>>

OpenPane(p) ==
  /\ At(p, "up", "open")
  /\ \/ LET new == [index |-> call[p].first + Cardinality(call[p].added),
                    pane |-> spawned + 1] IN
        /\ Open({new})
        /\ call' = [call EXCEPT ![p].step = "notify", ![p].fresh = new]
     \/ Goto(p, "undo") /\ UNCHANGED members
  /\ UNCHANGED <<file, tasks, files, lock, written, bounds, why>>

\* The worker is sent its first instruction through the dispatch queue, whose
\* lock may time out: that exception passes by the roll-back.
NotifyNew(p) ==
  /\ At(p, "up", "notify")
  /\ \/ \E step \in {"save", "undo"} : Goto(p, step) /\ UNCHANGED <<lock, why>>
     \/ End(p) /\ Give("scaling", p) /\ why' = why \cup {"threw"}
  /\ UNCHANGED <<file, tasks, files, members, written, bounds>>

\* The copy was read before the tasks were created: its counter is old.
SaveUp(p) ==
  /\ At(p, "up", "save")
  /\ LET c == call[p].copy
         w == call[p].fresh
         new == [c EXCEPT !.workers = @ \cup {w}, !.nextIndex = w.index + 1] IN
     /\ Save(p, c, new)
     /\ IF call[p].left = 1 THEN End(p) /\ Give("scaling", p)
        ELSE /\ call' = [call EXCEPT ![p].step = "open", ![p].copy = new,
                                     ![p].added = @ \cup {w},
                                     ![p].fresh = NoWorker,
                                     ![p].left = @ - 1]
             /\ UNCHANGED lock
  /\ UNCHANGED <<tasks, files, members, written, bounds>>

\* Mutant: only the pane that failed is closed.
UndoneOnlyFresh(p) == {call[p].fresh}

Undone(p) == call[p].added \cup {call[p].fresh}

\* rollbackScaleUp.
Undo(p) ==
  /\ At(p, "up", "undo")
  /\ Close(Undone(p))
  /\ tasks' = {t \in tasks : \A made \in call[p].made : t.id # made.id}
  /\ Goto(p, "revert")
  /\ UNCHANGED <<file, files, lock, written, bounds, why>>

Revert(p) ==
  /\ At(p, "up", "revert")
  /\ LET c == call[p].copy
         gone == {First(c.workers, w.index) : w \in call[p].added} IN
     Save(p, c, [c EXCEPT !.workers = @ \ gone, !.nextIndex = call[p].first])
  /\ End(p)
  /\ Give("scaling", p)
  /\ UNCHANGED <<tasks, files, members, written, bounds>>

-----------------------------------------------------------------------------
(* scaleDown.                                                              *)

BeginDown(p) ==
  /\ Begin(p, "down", "read")
  /\ Take("scaling", p)
  /\ UNCHANGED <<file, tasks, files, members, written, why>>

\* Mutant: only a worker that drains counts as busy.
IdleOrWorking(c) == {w \in c.workers : w.index \notin draining}

Idle(c) == {w \in c.workers : w.index \notin working \cup draining}

\* Workers are picked by name, or by number among the idle ones; with force the
\* others follow when there are too few.
Pickable(c) ==
  LET named == SUBSET {First(c.workers, i) : i \in Numbers(c.workers)}
      counted == SUBSET Idle(c) IN
  [how : {"named"}, targets : named] \cup [how : {"counted"}, targets : counted]
    \cup [how : {"forced"},
          targets : named \cup {S \in SUBSET c.workers :
                                  S \subseteq Idle(c) \/ Idle(c) \subseteq S}]

\* Those who are at work by what they last wrote.
Seen == {w.pane : w \in {v \in panes : v.pane \in busy /\ v.index \notin masked}}

Pick(p) ==
  /\ At(p, "down", "read")
  /\ \/ \E pick \in Pickable(config) :
          /\ pick.targets \notin {{}, config.workers}
          /\ call' = [call EXCEPT ![p].step = "drain", ![p].copy = config,
                                  ![p].how = pick.how,
                                  ![p].targets = pick.targets,
                                  ![p].occupied = Seen]
          /\ UNCHANGED lock
     \/ End(p) /\ Give("scaling", p)
  /\ UNCHANGED <<file, tasks, files, members, written, bounds, why>>

\* With force there is no wait.
Drain(p) ==
  /\ At(p, "down", "drain")
  /\ LET drained == Numbers(call[p].targets) IN
     /\ draining' = draining \cup drained
     /\ working' = working \ drained
  /\ call' = [call EXCEPT ![p].step = IF call[p].how = "forced" THEN "kill"
                                      ELSE "wait",
                          ![p].occupied = busy]
  /\ UNCHANGED <<file, tasks, masked, over, members, lock, written, bounds, why>>

\* A status that says draining counts, though scaleDown has just written it; one
\* that says nothing does not; a dead worker does.
Drained(w) ==
  \/ w.index \notin working /\ (w.index \in masked => w.index \in draining)
  \/ w \notin panes

EndWait(p) ==
  /\ At(p, "down", "wait")
  /\ \A w \in call[p].targets : Drained(w)
  /\ Goto(p, "kill")
  /\ UNCHANGED <<file, tasks, files, members, lock, written, bounds, why>>

\* After drainTimeoutMs it goes on all the same.
StopWaiting(p) ==
  /\ At(p, "down", "wait")
  /\ \E w \in call[p].targets : ~Drained(w)
  /\ Goto(p, "kill")
  /\ UNCHANGED <<file, tasks, files, members, lock, written, bounds, why>>

\* When a worktree cannot be removed the workers stay on file.
TearDown(p) ==
  /\ At(p, "down", "kill")
  /\ Close(call[p].targets)
  /\ \/ Goto(p, "save") /\ UNCHANGED lock
     \/ End(p) /\ Give("scaling", p)
  /\ UNCHANGED <<file, tasks, files, written, bounds, why>>

SaveDown(p) ==
  /\ At(p, "down", "save")
  /\ LET c == call[p].copy IN
     Save(p, c, [c EXCEPT !.workers =
                {w \in @ : w.index \notin Numbers(call[p].targets)}])
  /\ End(p)
  /\ Give("scaling", p)
  /\ UNCHANGED <<tasks, files, members, written, bounds>>

-----------------------------------------------------------------------------
(* startTeam and shutdownTeam.                                             *)

\* The name is free, or that of a team whose phase is terminal: its panes may be
\* alive, for the command that started it leaves them open when it is done.
BeginStart(p) ==
  /\ config = NoTeam \/ over
  /\ Begin(p, "start", "sweep")
  /\ UNCHANGED <<file, tasks, files, members, lock, written, why>>

\* What p takes a team's name from: live panes, or another's work.
Taken(p) ==
  IF \/ config.workers \cap panes # {}
     \/ config # NoTeam /\ \E q \in Proc \ {p} : AtWork(q)
  THEN {"restarted"} ELSE {}

\* detectAndCleanStaleTeam removes the directory of an earlier team, or leaves
\* it, outside a repository, or refuses, because of a worktree.
Sweep(p) ==
  /\ At(p, "start", "sweep")
  /\ \/ /\ Write(p, NoTeam)
        /\ RemoveDirectory(p, Taken(p))
        /\ Goto(p, "read")
     \/ /\ Goto(p, "read") \/ End(p)
        /\ UNCHANGED <<file, tasks, files, lock, why>>
  /\ UNCHANGED <<members, written, bounds>>

\* Tasks, status files and locks that are still there stay.
InitTeam(p) ==
  /\ At(p, "start", "read")
  /\ \E step \in {"makeTask", "open"} :
       LET new == [workers |-> [index : 1..FirstWorkers, pane : {0}],
                   nextIndex |-> FirstWorkers + 1, nextTask |-> 1] IN
       /\ Write(p, new)
       /\ call' = [call EXCEPT ![p].step = step, ![p].copy = new]
  /\ over' = FALSE
  /\ why' = why \cup Taken(p)
  /\ UNCHANGED <<tasks, status, members, lock, written, bounds>>

\* The copy, which has not seen the tasks, gets the panes.
OpenSession(p) ==
  /\ At(p, "start", "open")
  /\ \/ LET new == {[w EXCEPT !.pane = spawned + w.index] :
                      w \in call[p].copy.workers} IN
        /\ Open(new)
        /\ call' = [call EXCEPT ![p].step = "save", ![p].copy.workers = new]
     \/ Goto(p, "clean") /\ UNCHANGED members
  /\ UNCHANGED <<file, tasks, files, lock, written, bounds, why>>

SaveStart(p) ==
  /\ At(p, "start", "save")
  /\ LET c == call[p].copy IN
     Save(p, [c EXCEPT !.workers = {[w EXCEPT !.pane = 0] : w \in @}], c)
  /\ Goto(p, "notify")
  /\ UNCHANGED <<tasks, files, members, lock, written, bounds>>

\* recordRecoverableStartupIssue, for a live worker that was not ready in time
\* or could not be told: whatever its status said is overwritten.
RecordIssue(p, w) ==
  /\ At(p, "start", "notify")
  /\ w \in call[p].copy.workers
  /\ working' = working \ {w.index} /\ draining' = draining \ {w.index}
  /\ masked' = masked \cup {w.index}
  /\ UNCHANGED <<file, tasks, over, members, lock, call, written, bounds, why>>

\* The copy is saved once more, whether the workers could be told or not.
NotifyAll(p) ==
  /\ At(p, "start", "notify")
  /\ Save(p, call[p].copy, call[p].copy)
  /\ End(p) \/ Goto(p, "kill")
  /\ UNCHANGED <<tasks, files, members, lock, written, bounds>>

BeginStop(p) ==
  /\ Begin(p, "stop", "read")
  /\ UNCHANGED <<file, tasks, files, members, lock, written, why>>

\* Unfinished tasks may stop it.
ReadStop(p) ==
  /\ At(p, "stop", "read")
  /\ \/ call' = [call EXCEPT ![p].copy = config,
                   ![p].step = IF config = NoTeam THEN "clean" ELSE "save"]
     \/ End(p)
  /\ UNCHANGED <<file, tasks, files, members, lock, written, bounds, why>>

\* Workers that do not accept may stop it.  The copy is saved without its
\* resize hook.
SaveStop(p) ==
  /\ At(p, "stop", "save")
  /\ \/ Save(p, call[p].copy, call[p].copy) /\ Goto(p, "kill")
     \/ End(p) /\ UNCHANGED <<file, why>>
  /\ UNCHANGED <<tasks, files, members, lock, written, bounds>>

\* A shutdown closes every pane of the team's window.
CloseAll(p) ==
  /\ call[p].op \in {"start", "stop"} /\ call[p].step = "kill"
  /\ Close(IF call[p].op = "stop" THEN panes ELSE call[p].copy.workers)
  /\ Goto(p, "clean")
  /\ UNCHANGED <<file, tasks, files, lock, written, bounds, why>>

\* cleanupTeamState removes the team's directory, locks included, whoever's
\* team it is by then.
CleanUp(p) ==
  /\ call[p].op \in {"start", "stop"} /\ call[p].step = "clean"
  /\ Write(p, NoTeam)
  /\ RemoveDirectory(p, Crossed(p, call[p].copy))
  /\ End(p)
  /\ UNCHANGED <<members, written, bounds>>

-----------------------------------------------------------------------------
(* Workers, and the rest of the world.                                     *)

BeginWork(w) ==
  /\ w.pane \notin busy
  /\ busy' = busy \cup {w.pane}
  /\ working' = working \cup {w.index}
  /\ draining' = draining \ {w.index} /\ masked' = masked \ {w.index}
  /\ UNCHANGED <<file, tasks, over, panes, lock, call, spawned, written, bounds,
                 why>>

FinishWork(w) ==
  /\ w.pane \in busy
  /\ busy' = busy \ {w.pane}
  /\ working' = working \ {w.index}
  /\ draining' = draining \ {w.index} /\ masked' = masked \ {w.index}
  /\ UNCHANGED <<file, tasks, over, panes, lock, call, spawned, written, bounds,
                 why>>

\* The monitor writes the phase of a team, terminal or not: it is told apart as
\* long as a start may follow.
WritePhase ==
  /\ config # NoTeam /\ calls < MaxCalls
  /\ over' = ~over
  /\ UNCHANGED <<file, tasks, status, members, lock, call, written, bounds, why>>

\* A lock is stale after five minutes, held by a live process or not.
BreakLock(l) ==
  /\ lock[l] # Nobody
  /\ lock' = [lock EXCEPT ![l] = Nobody]
  /\ IF Holds(lock[l], l)
     THEN /\ Fault
          /\ why' = why \cup {"broken"}
     ELSE UNCHANGED <<faults, why>>
  /\ UNCHANGED <<file, tasks, files, members, call, written, calls>>

Kill(p) ==
  /\ call[p].op # "none"
  /\ Fault
  /\ End(p)
  /\ why' = why \cup {"killed"}
  /\ UNCHANGED <<file, tasks, files, members, lock, written, calls>>

Next ==
  \/ \E p \in Proc :
       \/ BeginCreate(p) \/ LockTasks(p) \/ ReadTask(p) \/ WriteTask(p)
       \/ CountTask(p) \/ TaskTimeout(p)
       \/ BeginUp(p) \/ ReadUp(p) \/ OpenPane(p) \/ NotifyNew(p) \/ SaveUp(p)
       \/ Undo(p) \/ Revert(p)
       \/ BeginDown(p) \/ Pick(p) \/ Drain(p) \/ EndWait(p) \/ StopWaiting(p)
       \/ TearDown(p) \/ SaveDown(p)
       \/ BeginStart(p) \/ Sweep(p) \/ InitTeam(p) \/ OpenSession(p)
       \/ SaveStart(p) \/ NotifyAll(p)
       \/ BeginStop(p) \/ ReadStop(p) \/ SaveStop(p) \/ CloseAll(p)
       \/ CleanUp(p)
       \/ Kill(p)
  \/ \E w \in panes : \/ BeginWork(w) \/ FinishWork(w)
                      \/ \E p \in Proc : RecordIssue(p, w)
  \/ WritePhase
  \/ \E l \in Lock : BreakLock(l)

Spec == Init /\ [][Next]_vars

-----------------------------------------------------------------------------
(* Properties.                                                             *)

\* Panes that an operation has opened, or will close, and that need not be on
\* file.
InHand(p) ==
  CASE call[p].op = "up" -> call[p].added \cup {call[p].fresh}
    [] call[p].op = "start" -> call[p].copy.workers
    [] OTHER -> {}

\* The panes but those that a start has opened and not put on file yet.
Settled ==
  {w \in panes : \/ w \in config.workers
                 \/ \A p \in Proc : call[p].op = "start" => w \notin InHand(p)}

\* Unless a change was lost, every live pane is on file or in the hands of the
\* operation that opened it, no two workers share a name, the team is never
\* larger than allowed nor without a worker, and a shutdown leaves no pane.
\* A scaleDown during a start makes room on file for other workers, and the
\* start opens the panes of those removed all the same: they do not count.
Roster ==
  why = {} =>
    /\ \A w \in panes : w \in config.workers \/ \E p \in Proc : w \in InHand(p)
    /\ \A v, w \in panes \cup config.workers :
         v.index = w.index /\ 0 \notin {v.pane, w.pane} => v = w
    /\ Cardinality(Settled) <= MaxWorkers
    /\ Cardinality(config.workers) <= MaxWorkers
    /\ config # NoTeam => config.workers # {}

\* Only the scaleUp that created a task, or the end of the team, removes its
\* file: although scaleUp and startTeam write an old counter back, createTask
\* does not write a new task over one that is there.
TasksAreKept ==
  [][\A t \in tasks \ tasks' :
       \/ tasks' = {}
       \/ why \cap {"broken", "removed"} # {}
       \/ \E p \in Proc : At(p, "up", "undo") /\ t \in call[p].made]_vars

\* A scaleDown by number tells no worker to drain that was at work when it was
\* picked; and the wait does not end, but by its timeout, while a worker is at
\* work that began after it was told to.  Not so where the status file does not
\* hold what the worker last wrote.
SparesTheBusy ==
  [][\A p \in Proc : \A w \in call[p].targets \cap panes :
       why = {} /\ w.pane \in busy =>
         /\ Drain(p) /\ call[p].how = "counted" => w.pane \notin call[p].occupied
         /\ EndWait(p) /\ w.index \notin masked => w.pane \in call[p].occupied]_vars
=============================================================================
