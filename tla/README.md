# Verification of the team runtime

This directory holds TLA+ modules for the parts of oh-my-gemini in which several
processes share state: the TypeScript team layer (`src/team`), the workflow modes and the
pipeline (`src/state`, `src/modes`, `src/pipeline`), and the Rust runtime engine
(`crates/omg-runtime-core`).  Paths below are relative to the repository.

The system has no server.  A leader and its workers are separate Gemini CLI sessions in tmux
panes; each of their calls (`omg team api claim-task`, a hook, a monitor poll) is a short
Node process that reads JSON files under `.omg/state`, decides, and writes them back.  What
keeps two such processes apart is a directory made with `mkdir`, a version number in a file,
or nothing.  That is what the modules are about.

## 1. Inventory

### Core of the team layer

| Component | State it keeps | Operations | Interacts with |
|---|---|---|---|
| Task claims (`team/state/tasks.ts`, `contracts.ts`) | one JSON file per task: status, owner, claim (owner, token, lease), version, dependencies | `claimTask`, `transitionTaskStatus`, `releaseTaskClaim`, `reclaimExpiredTaskClaim`, `updateTask` | claim locks; event log; monitor snapshot; called by workers, by `assignTask` and by the monitor |
| Lock directories (`team/state/locks.ts`, `dispatch-lock.ts`) | a directory per lock with an owner file and an mtime | `withTaskClaimLock`, `withTeamLock`, `withScalingLock`, `withMailboxLock`, `withDispatchLock` | every writer of team state |
| Team state files (`team/state.ts`) | configuration, manifest, worker files, phase, monitor snapshot | `createTask`, `updateTask`, `writeAtomic`, readers and writers | all of `src/team` |
| Monitor and runtime (`team/runtime.ts`) | nothing of its own between polls but the snapshot file | `monitorTeam`, `startTeam`, `assignTask`, `shutdownTeam`, mailbox delivery | tasks, phases, events, dispatch, tmux |
| Phases (`team/phase-controller.ts`, `orchestrator.ts`) | phase file: phase, fix attempts, history | `inferPhaseTargetFromTaskCounts`, `reconcilePhaseStateForMonitor`, `transitionPhase` | driven by the monitor from the task counts |
| Scaling (`team/scaling.ts`) | worker list and counters in the configuration | `scaleUp`, `scaleDown` | `createTask` (same file, another lock), tmux, worktrees |
| Dispatch queue (`team/state/dispatch.ts`) | requests in `dispatch/requests.json` and in the engine's event log, both shown in `dispatch.json` | enqueue, mark notified, delivered, failed, transition | runtime bridge, notify hook, monitor |
| Mailboxes (`team/state/mailbox.ts`) | messages in `mailbox/*.json` and in the engine's log | send, broadcast, mark notified, mark delivered | runtime bridge, dispatch queue |

### Runtime engine and bridge

| Component | State | Operations | Interacts with |
|---|---|---|---|
| Runtime engine (`crates/omg-runtime-core`) | event log, authority lease, dispatch log, mailbox log; files `events.json`, `snapshot.json`, `mailbox.json` and the compatibility views | `process`, `persist`, `load`, `compact`, `write_compatibility_view`; one `exec` process per command | read and written by the dispatch queue and the mailboxes |
| Runtime bridge (`runtime/bridge.ts`) | none | `execCommand` with a 10 s timeout | engine |

### Workflow layer

| Component | State | Operations |
|---|---|---|
| Workflow modes (`state/workflow-transition*.ts`, `modes/base.ts`, `mcp/state-server.ts`) | a file per mode and scope, the active-skill file | start, update, cancel, transition checks |
| Pipeline (`pipeline/orchestrator.ts`) | the autopilot mode file with stage index and results | run, resume, cancel |
| Ralplan, ralph, autoresearch | one file each of a sequential loop | rounds, migration, ledger |

### Outside the models

tmux panes, worktrees, the other hooks and watchers, notifications, the rest of the command line, setup, the HUD,
the wiki, session search, the explore and shell sidecars and the multiplexer adapter.  They
are I/O, formatting or single-writer stores; `PROJECT.json` gives the reason for each.

### What is hard, and what correctness means

* **Task claims.**  Workers, the leader's `assignTask` and the monitor's reclaim act on one
  file.  Leases end while a worker still computes; a process may die between writing the task
  and appending its event, or inside the lock.  Correct means: one live claim per task and
  only its token ends it; a finished task stays finished; each outcome is announced once;
  no update is lost; a claim is granted only when the dependencies are done; a dead worker's
  task comes back.
* **Lock directories.**  `stat` and `rm` of a stale directory are two calls, and so are
  reading the owner file and `rm`.  Correct means: mutual exclusion, calls end, and a crashed
  holder's directory is removed.
* **Phases.**  The monitor folds task counts into a phase machine with a bounded fix loop, and
  reopens finished teams.  Correct means: only legal transitions, a bounded number of fix
  attempts, `complete` only for completed and verified work.
* **Monitor snapshot.**  Written whole, without a lock, by the monitor and by transitions.
  Correct means: no completion is announced twice and none is forgotten.
* **Scaling.**  Two locks guard one configuration file; a rollback writes back what it read
  first.  Correct means: no worker or task number is lost, no working worker is torn down.
* **Dispatch queue, mailboxes, engine, bridge.**  Two stores for one queue; an `exec` loads and
  persists under two separate lock holds; a command that timed out may have been carried out.
  Correct means: delivered stays delivered, no acknowledged command is lost, a message is not
  duplicated.
* **Workflow modes, pipeline.**  Unlocked read, check and write.  Correct means: no forbidden
  pair of modes is active, a cancelled pipeline stays cancelled.

Each of these hazards is listed with its line in `PROJECT.json`, with the properties that speak of
it and, where the code does the harm and a property excuses it by name, a note that says so.

## 2. Plan

Modules are parameterised by CONSTANTS with named assumptions, have one action per step of
the code between which another process may step, and use no RECURSIVE operator, so that each
can be checked by TLC and proved about.  In the order of what a wrong step would cost:

| Order | Module | Models | Stands on | State |
|---|---|---|---|---|
| 1 | `TeamTasks` | claim, transition, release, reclaim and update of task files | `ClaimLock` for every task | modelled, checked, proved |
| 2 | `DirLock` | the lock directory, call by call; implements `ClaimLock` until a waiter's `rm` hits the wrong directory | - | modelled, checked, proved |
| 3 | `TeamPhase` | monitor polls that write the phase file and the root mode state | the kinds of tasks `TeamTasks` leaves behind | modelled, checked, proved |
| 4 | `CompletionEvents` | the snapshot that polls and transitions both write, and `task_completed` | "a task is completed once" of `TeamTasks` | modelled, checked, proved |
| 5 | `RuntimeEngine` | the `exec` subcommand: load, persist and compatibility view, file by file, with kills and overlapping processes; implements `EventLog` | `RuntimeEvents` | modelled, checked, proved |
| 6 | `TeamDispatch` | the dispatch queue over the engine's log and `dispatch.json`, the leader and the drains | `EventLog` | modelled, checked, proved |
| 7 | `TeamMailbox` | messages to a worker: sending, telling, reading | requests as `TeamDispatch` settles them | modelled, checked, proved |
| 8 | `TeamScaling` | `startTeam`, `createTask`, `scaleUp`, `scaleDown` and `shutdownTeam` on one configuration | `ClaimLock`'s behaviour of the two locks | modelled, checked, proved |
| 9 | `WorkflowModes` | start, update, cancel and clear of modes, the list of active skills, and the pipeline, ralplan and team runs that use them | - | modelled, checked, proved |
| 10 | `TaskLifecycle` | abstract specification of a task's life: claimed, dropped, finished, announced; implemented by `TeamTasks` | - | modelled, checked, proved |

Abstract specifications: `ClaimLock`, implemented by `DirLock` up to one race and used by `TeamTasks`;
`TaskLifecycle`, implemented by `TeamTasks`; `EventLog`, implemented by `RuntimeEngine` and
relied on by `TeamDispatch`.

Every invariant and action property that a run checks has a theorem.  What is left for the
plan is more of the system: `assignTask` and the mailbox of the leader, ralph's ledger and the
autoresearch supervisor.

## 3. How the modules correspond to the code

### TeamTasks

A process is one CLI invocation.  `task[t]` is the JSON file of a task; `lock[t]` its claim
lock; `req`, `out` and `copy` are what the process holds in memory: its arguments, the record
it is about to rename into place, the monitor snapshot it read.  The steps of an operation
are the file system calls between which others may act:

    Start  the reads before the lock (claimTask's existence and readiness checks)
    Acquire / LockTimeout / BreakStaleLock     withTaskClaimLock
    Accept | Reject    the callback reads the file again and decides
    Write              writeAtomic: the rename
    AppendEvent        task_completed or task_failed
    Unlock
    ReadSnapshot, WriteSnapshot   after a transition to "completed"

`Accepted` holds each operation's checks in the order of the code and `Claimed`, `Finished`,
`Unclaimed`, `Updated` the record each builds.  Tokens are numbered in the order drawn, so
that a worker whose claim was taken over really holds an old one.  `clock` is `Date.now()`.
`updateTask` writes the dependency list only: its one caller, `api-interop.ts`, refuses
status, owner and claim (lines 764 to 767).  `Crash` ends a process at any step and turns its
lock into an orphan.

`TaskLifecycle` is what all this comes to for somebody who only looks at the files and the event
log: who holds each task (by its token), which claims have run out, how the task ended, what it
depends on and what was announced.  `Holder`, `Lapsed`, `Outcome` and `Needs` map the task files
to it, `events` is the log as it is.  It has no lock, no process and no crash, and its `Grant`
needs the dependencies completed and the task free at the very step that others see: the checks
that the code makes earlier, on files it has read, must still hold when it writes.  A claim may
be granted with a lease that is over already, by a process that was slow between building the
record and renaming it into place.

### LockUsers, ClaimLock and DirLock

`LockUsers` has what all modules about locks share: the processes, and the values for a lock
that is free or orphaned.  `ClaimLock` is what the operations expect of a lock: free, owned, or orphaned by a crash and
recovered.  `DirLock` is `locks.ts` with each call as a step: `mkdir`, `stat`, `rm` of a stale
directory, the write of the owner file, its check before release and `rm`.  `Prompt` says that
a live holder is out before `LOCK_STALE_MS` (five minutes) is over, which the code does not
enforce, so it is a constant; the runs and the theorems on exclusion assume it.  Nothing is
assumed of the gap between the `stat` that finds a directory stale and the `rm`: `robbed`
records that the `rm` has hit a directory that is not stale, hence one taken meanwhile, and
exclusion and refinement are stated up to that step.  The names of `DirLock` (`at`, `deaths`, `DirNext`) are
not those of `TeamTasks`, so that one module of proofs can be about both.  The composition is by two statements about one abstract
specification: `UsesClaimLocks` (TeamTasks takes, gives, orphans and recovers each lock as
`ClaimLock` allows) and `ImplementsUnlessRobbed` (the directory does no more than that, unless
robbed).  What `TeamTasks` shows is therefore about teams in which that race does not happen.

### TeamPhase

A poll is `monitorTeam` from its listing to the root mode state; the background runtime and
each `omg team status` run one.  `tasks` is the set of the kinds of tasks that matter to the
decision, so one model covers any number of tasks: open, failed, completed without the
evidence they need (`unverified`) or without evidence and without needing it (`unproven`, which
`updateTask` may turn into `unverified` and back).  `Target` is
`inferPhaseTargetFromTaskCounts` with the dead-worker stall before it, `Path` is
`buildTransitionPath`, `Moved` is `transitionPhase`, `Reconciled` is
`reconcilePhaseStateForMonitor`.  Whether all workers are dead is a free choice of each poll.
`Walked` unrolls the loop over the path four times, which `PathsAreLegal` shows to be enough.

### CompletionEvents

A call is `transitionTaskStatus(..., "completed")` from its write of the task file on; a poll
is `monitorTeam` from its read of the snapshot to its write.  `snapshot.known` is
`taskStatusById`, `snapshot.flagged` is `completedEventTaskIds`; both sides read the file
whole and write it whole without a lock.  `refused` calls flag their task too.  Statuses
before `completed` are one value, since only the step to `completed` is announced here.  A
listing is one step although it reads a file per task: the properties speak of one task each.

### RuntimeEvents, EventLog and RuntimeEngine

`RuntimeEvents` has the engine's events and, from `dispatch.rs`, `mailbox.rs` and
`authority.rs`, which of them a log accepts.  The log is the set of its events: those of one
request, message or leader can be put in order by their kinds, and those of different ones do
not interact.  `RuntimeEngine` is `main.rs`: `exec` loads under a shared hold of `engine.lock`,
processes in memory, persists under an exclusive hold, and writes the view with no hold at all.
Every file is written in place, so each write is two steps (emptied, written), and the bridge's
ten-second timeout may kill the process at any of them.  `broken` records what has gone
wrong (a lost update, a file left empty, a view written late, files of different age), and
each property names the kinds it does not survive: the
properties are a table of which accident costs what.  `EventLog` is what callers rely on:
commands one at a time on one log, and what was acknowledged stays.

### TeamDispatch

`log` is the engine's part, `view` is `dispatch.json`.  An engine command changes the first and
rewrites the second from it without the dispatch lock; the TypeScript code rewrites `view` under
that lock from the copy it read when it took it.  Engine commands are one step each, which is
what `EventLog` promises; `RuntimeEngine` shows when that fails.  The leader's steps are those of
`dispatchCriticalInboxInstruction` and `waitForDispatchReceipt`: enqueue, wait, type it itself
when nobody did, record what happened.  A drain's steps are those of `team-dispatch.ts`: take the
lock, claim a request through the `.processing-` lease and its cool-down, type, verify, read
again under the lock, finalise.  `why` records, per request, which known cause let it be typed
or reverted more than once.

All teams of a state directory share `dispatch.json`, but each has a dispatch lock of its own
(`team-dispatch.ts:258`), and every write-back reads the file and writes the other teams'
records as it read them (`state.ts:1484`, `team-dispatch.ts:346`).  `team` are the writers of
other teams, `TheirRead` and `TheirWrite` their two steps; `overwritten` in `why` marks a request
whose record such a write has changed.

### TeamMailbox

A message lives in the engine's mailbox (`log`), shown in `mailbox.json` (`compat`: it exists),
and in the worker's own file (`legacy`); `View` is `readMailbox`, which goes by the first once it
exists.  `Send` to `Shadow` are `sendDirectMessage` under the mailbox lock; `Queue`, `Receive`,
`Fallback`, `Mark`, `Settle` are `finalizeHookPreferredMailboxDispatch`, used by the sender and,
per undelivered message, by the monitor (`Poll`, `Take`); `Hook...` are the drain's three
outcomes; `List`, `Acknowledge`, `AckWrite` and `AckSettle` the worker's `mailbox-list` and
`mailbox-mark-delivered`.  A dispatch request is only pending or not.  A send that is found to be
a duplicate still waits for a receipt and falls back to typing; that is in the model, and why
`TypedOnce` excuses two processes that have one message in hand.

### TeamScaling

Every operation reads the configuration, works for seconds or minutes on its copy and writes the
whole copy: `createTask` under `.lock.create-task`, `scaleUp` and `scaleDown` under
`.lock.scaling`, `startTeam` and `shutdownTeam` under none.  `config` is the manifest, which
readers prefer.  `panes` are the live panes, `busy` those whose worker is at work.  `working`,
`draining` and `masked` are the status files by what they say: the worker's own status, that it
is to drain, or neither, because `recordRecoverableStartupIssue` wrote `unknown` over it
(`RecordIssue`) or the directory was removed under a live pane.

A start goes through when there is no team of that name, or when that team's phase is terminal
(`over`, written by the monitor: `WritePhase`), whatever its panes do (`BeginStart`, `runtime.ts:261`).
`Sweep` is `detectAndCleanStaleTeam`: it removes the old directory, leaves it (outside a git
repository, or with the tmux session still there), or refuses.  `InitTeam` then writes the new
configuration over whatever is left.  A `scaleDown` picks (`Pick`), writes `draining` (`Drain`),
waits (`EndWait`, or `StopWaiting` after its timeout) and kills; with force there is no wait.

`why` records what may have cost the team a change, and the properties say which of it they do
not survive: a write over another's (`crossed`), an exception past the roll-back of `scaleUp`
(`threw`), the removal of the team's directory under an operation (`removed`), a start over a
team with live panes or with an operation at work (`restarted`), a killed process (`killed`), a
lock broken under its holder (`broken`).  The drain wait of `scaleDown` ends at once, because the
`draining` it has just written counts as drained; `SparesTheBusy` says what protects busy workers
all the same: by number none is told to drain that was seen at work, and the wait ends over no
worker that began after it was told.

### WorkflowModes

`file[m]` is the mode's state file, `skills` the list in `skill-active-state.json`.  Neither is
locked between processes.  A start is `Check` (`reconcileWorkflowTransition`: which modes are
visible, which must be completed, or refusal), `Complete` for each of those, and `Open`; an
update is `Read` and `Write`; each of them ends with `Sync` (the list is read and the mode
checked against it) and `Save`.  `runPipeline`, `runRalplanConsensus` and the team commands are
sequences of those (`Onward`), ended by `Finish` or by an exception (`Thrown`); between two
updates of a run others may do anything.  The shutdown of a team with a state file (`Shutdown`)
writes the mode's file only.  So does `omg cancel` (`BeginCli`, `CliWrite`) for each mode it stops;
but it takes every `*-state.json` for a mode's, the list of active skills included
(`state-paths.ts:324`): when ralph is not active it writes that file back too, as it was read when
the command began, with its own `active` flag cleared (`flag`, `CliList`).  An entry written
meanwhile is lost, one removed meanwhile is back.  Three histories name what
the properties excuse: `surprised` and `unchecked` for starts let in by a check that was
overtaken or by a list out of date, `torn` for entries of the list that were not kept up.

## 4. Runs

| Run | Question | Instance |
|---|---|---|
| `tasks_safety` | Do claims, leases, dependencies, versions, events and locks agree whatever interleaves? | 1 task (assigned), 2 workers, monitor and 1 process, 2 claims, clock 0..2 with leases of 1, 1 crash |
| `tasks_reclaim` | Does a dead worker's task come back? | 1 task, 1 worker, 2 claims, 1 crash, fair monitor |
| `dirlock` | Is the race of `dirlock_race` the only way to lose the exclusion? Do calls end, do orphans go? | 3 processes, 1 crash |
| `dirlock_race` | Do two waiters for one stale directory exclude each other? (mutual exclusion violated) | 3 processes, stale after 2, patience 1, 1 crash |
| `phases` | Legal moves, bounded fixes, earned completion, convergence of the two files | 2 pollers, limit 1, prompt mode, 1 killed poll |
| `events` | Announced at most once, never forgotten | 2 tasks, 1 calling process, 1 poller, 1 kill |
| `engine` | Which kills and overlaps lose, mix or hide what the engine acknowledged? Is it the log its callers rely on? | 2 processes, 1 request, 1 message, 2 leaders, 4 commands, 1 kill |
| `dispatch` | Is what is shown as notified typed, and typed once, and kept, but for named causes? | 1 request, 2 drains, 2 attempts, 1 failed command, 1 kill, 1 slow step, 1 command of another or write of another team |
| `dispatch_live` | Is every request settled? | 1 request, 1 drain, 2 kills, no other team, otherwise the same, fair |
| `scaling` | Do the configuration, the panes and the tasks agree while operations race? | 2 processes, 2 operations, 2 first and up to 4 workers, 1 fault |
| `mailbox` | Is a message told, told once, and sent once? | 1 sender, the monitor, the hook, the worker, 2 messages, 1 fault |
| `modes` | Which modes may be active together, is the list right, who revives a stopped mode? | 2 processes, 4 modes, 3 runs or commands, 1 kill |

Why these bounds.  The hazards of `TeamTasks` need one process that read a file and another
that changes it before the first acts: two processes, two claims (an old and a new token), one
lease that ends and one crash reach every such order on a task.  A task that depends on itself
is one that is not ready; what a second task would add, that its completion makes the first
ready, is in the theorem `GrantedWhenReady`.  The race of `DirLock` needs a crashed holder and
two waiters, hence three processes.  In `TeamPhase` a write from an older listing needs two
polls; a limit of one is passed by the second loop; the tasks are unbounded.
`CompletionEvents` needs one writer of each kind; two tasks let one flag be lost while the other
is written.  In `RuntimeEngine` four commands are a request queued, notified and settled beside
a command of another process.  `TeamDispatch` needs two drains for a lease that is taken over,
and two attempts for a retry that is the last.  Its constraint `NoOtherAccident` leaves
out the states in which a command fails, a process is killed or a step is slow beside a writer of
another team; the theorems do not.  `dispatch_live` has no other team: one that overwrote again
and again could keep a request from being settled.  In `TeamScaling` a pair of operations that
race is two calls of two processes; two first workers let a `scaleDown` race each of the others,
and four let one be added past the limit.  Its constraint `WorkUntilLoss` lets no worker be at
work once a change was lost, since `busy` decides nothing but what `SparesTheBusy` says, and that
says nothing of such states.  `WritePhase` stops with the last call, since only a start reads the
phase.  In `TeamMailbox` a second message lets a duplicate exist; one fault is a failed
or late engine call or a killed process; the write of a legacy mark after a failed engine mark
by the drain needs a second fault and is not reached.  In `WorkflowModes` three runs are one
that stops midway, one that starts beside it and one that finds what they left; the four modes
hold a pair that may overlap, pairs that may not and the transitions that complete a source.
The counters' bounds (`Max...`) stop the instance; the theorems hold without regard to them.

`CHECK_DEADLOCK FALSE` is set where calls are bounded: when they are used up such a system
really is idle.  The other runs check deadlock.

Fairness.

* `tasks_reclaim`: the monitor is a loop that polls every few seconds, so it starts a reclaim
  of each lapsed task again and again, finishes the steps of a poll, and with many attempts
  meets a free or a stale lock; time passes.  Workers get no fairness: they may stop anywhere.
* `dirlock`: a process that called carries on, and time passes.
* `phases`, `events`: polls are started and carried out for as long as the team exists.  The
  background runtime polls in a loop until it sees a terminal phase; after that, and in a team
  without it, the leader's `omg team status` is the poll.  `Reopens` and `AwaitsEvidence`
  therefore say what continued polling leads to, not that the background runtime alone gets
  there.  The team's own work has no fairness.
* `dispatch_live`: the watcher drains again and again, so a drain claims what is claimable
  infinitely often and takes its steps (strong fairness: they wait for the lock, which others
  take in between); the leader's steps likewise; leases and abandoned locks grow old.  Nobody is
  promised to survive.

`OutcomeAgrees` requires that polls in the end no longer overlap.  Two that overlap forever may
hand the phase file to and fro between `complete`, decided by one, and `failed`, decided by
another from an older listing in which the work was still open and all workers were dead.

### Where the code and what is said of it part

* `dirlock_race`: a waiter may remove the directory another waiter has just taken, because the
  stale one it had seen is gone meanwhile; two callbacks run at once.

What the models had to allow for, and the properties name as exceptions:

* A transition that was refused flags its task as announced (`tasks.ts:188`), so that a later
  completion whose process dies before its event is never announced: `refused` in `CaughtUp`.
* A poll writes back the completion flags it read at its start (`runtime.ts:2730`), so that a
  completion during the poll is announced twice: `overlapped` in `AtMostOnce`.
* A team that failed because its fix attempts ran out still has its failed tasks; the next poll
  reopens it in `team-fix` with no attempts counted (`phase-controller.ts:117`).
* Two `exec`s that load before either persists keep one of their events (`main.rs:73`): `lostUpdate`
  in `AckedIsKept`.
* The leader's fallback marks a request without the dispatch lock and, when its command fails,
  without the engine, whose next command brings the old status back: `reverted` and `fallback`
  in `LostAfterFallback`.
* A writer of another team writes this team's records back as it read them, under its own
  team's lock: a request may be dropped or set back with nothing failed: `overwritten` in
  `LostAfterFallback`.
* The drain wait of `scaleDown` waits for nobody (`scaling.ts:729`), although the comment at line
  637 says that it waits for current work to finish: `occupied` in `SparesTheBusy`.  An exception
  out of `queueInboxInstruction` passes by the roll-back of `scaleUp`.
* A start over a finished team leaves the old panes alive beside new ones of the same names
  (`runtime.ts:278`): `restarted` in `Roster`.
* A start-up notice that could not be confirmed overwrites what the worker's status file says with
  `unknown` (`runtime.ts:1448`), which `scaleDown` counts as idle: `masked` in `SparesTheBusy`.
* `startTeam` writes the configuration before it opens the panes and holds no lock.  A
  `scaleDown` in between removes workers that have no pane yet, a `scaleUp` fills their places,
  and the start opens the panes of the removed ones all the same, so that more workers than the
  maximum are alive until it writes its own list back: `Settled` in `Roster`.
* A dispatch that `dispatchPendingMailboxMessage` finds deduplicated is waited for, and typed,
  all the same (`runtime.ts:4104`): `excused` in `TypedOnce`.
* `omg cancel` and `omg team shutdown` write the mode's file and leave the mode in the list of
  active skills (`cli/index.ts:3433`, `cli/team.ts:1294`), and the first may write the list itself
  back from an old copy (`cli/index.ts:3436`), so that a mode started meanwhile is active and
  unlisted: a later start of a mode that may not overlap it is
  refused though nothing is active, and the stopped mode itself may start beside another one,
  because a mode that is listed is always let in.  `torn` in `ListIsTrue`, `surprised` in `Exclusive`.
* The first update of a pipeline writes the state it got from `startMode`, `active: true`
  included (`orchestrator.ts:56`): a cancel between the two is undone.  `first` in `CancelHolds`.
  A cancel later on stops nothing: the stages go on, and the pipeline ends as `complete`.

## 5. Proofs

TLAPS proves the following for every value of the constants that satisfies the named
assumptions (`...Assumption`), which state no more than that the bounds are numbers and the
special values differ from the processes.

* `TeamTasksProofs`: the invariants and action properties of `tasks_safety`, and
  `ClaimsAreReady` and `ClaimsAsAsked`, which no run checks (the first follows from
  `ImplementsLifecycle`).  None of them is inductive: that a write does not lose an
  update depends on the record in memory having been built from the file as it still is, which
  depends on the lock, and that an event is not repeated depends on where the process that
  owes it stands.  `IInv` therefore adds to `TypeOK`, `LockExcludes` and `ClaimMatchesStatus`
  that claims name workers of the team, that what a process is about to write is built from
  the current file and its own arguments (`WritesAreBuilt`), and that a process owes an event
  exactly between its write and its append (`EventsAreDue`, `EventMatchesOutcome`).
  `LocksAreUsed` is the step-by-step use of `ClaimLock`, `LivesAsPromised` the refinement of
  `TaskLifecycle`: every write is a `Grant`, `Drop`, `Finish` or `Amend` of its task by
  what `WritesAreBuilt` says of the record (`WriteImplements`), an append is an `Announce` by
  `EventsAreDue`, a tick is a `Lapse`, and all other steps are not seen.
  The same module has the theorems about the directories that are these locks: `DirTypeCorrect`
  under any scheduling, and, for prompt holders, `DirExcludes`, the property of the run `dirlock`,
  and `DirRefines`, that the directory implements `ClaimLock`, crashes and recovery included, up
  to the step that robs a holder; the second only the proof checks.  As long as nobody is robbed, a live
  holder is alone, its directory is there, young and its own (`Young`), and no holder finds its new
  directory gone (`NoneLost`): whatever else removes a directory removes one that is stale, its
  holder's, or none.  Until a crash a directory has its holder, who is out before it is stale, so
  that nobody gets as far as the `rm` (`Attended`).
* `TeamPhaseProofs`: the table of paths against the transition rules; then, from an invariant
  that bounds the attempts in the phase file and in every poll's memory, `FixAttemptsBounded`
  and `CompleteIsEarned` for any number of overlapping pollers; and `AttemptsAreKept` from
  `Solo`: while polls do not overlap, what a poll is about to write was made from the file as
  it still is.
* `CompletionEventsProofs`: `AtMostOnce` and `CaughtUp`.  The invariant says that whatever is
  recorded as completed is (`Truthful`), that without overlaps nobody works on a stale
  snapshot (`Alone`), that flags and announcements stand for events (`Backed`), and that an
  announced task is covered by a flag, the snapshot's status or an announcer under way
  (`Once`).

* `RuntimeEngineProofs`: the invariants of the run `engine` and `ImplementsEventLog`.  `SInv`
  says who persists: nobody from a log that has been overtaken since (`HolderCurrent`), of the
  processes past their persist one at most that has not been overtaken (`OneCurrent`), and
  `events.json` is its log (`CurrentWrote`).  On that stand three invariants, one per property.
  `LInv`: every log is one the engine's rules allow (`LegalLogs`), and unless an update was lost
  or a file left empty, what a process adds its event to is the log itself (`LoadedFromLog`) and
  what it has persisted stays (`PersistedIsKept`): hence `AckedIsKept`, and that a persist is one
  step of `EventLog`.  `MInv` relates the log to `mailbox.json` and every process's memory
  (`LogsAgree`, `CopyAgrees`), `VInv` to `dispatch.json` while no persist is still to be shown
  (`ViewAgrees`); both excuse the accidents in `broken` that their property names.
* `TeamDispatchProofs`: the safety properties of `dispatch`.  `OrderlyDrain` and `OrderlyCall`
  say what a drain or the leader holds at each step.  `SaidInv` gives `SaidIsTyped`: wherever a
  status or an attempt is kept (the log, the file, a copy under way, the leader, a drain), it
  stands for a typing.  `OnceInv` gives `TypedOnce`: as long as nothing but a retry befell a
  request, its claimant alone types it, and every typing but the one in hand is counted as an
  attempt (`Counted`).  `FailInv` gives `FailedIsLeft`: when the leader reports a failure the
  request is settled or was never queued.  `ShowsInv` and `FaithfulInv` give `LostAfterFallback`:
  with no command failed, no fallback and nothing overwritten by another team, the log, the file
  and what a writer holds are equally far along.  All of it is for any number of other teams.
* `TeamMailboxProofs`: the four invariants of `mailbox`.  `Boxed` relates the two mailboxes (a
  mark is on a message that is there, and the engine has nothing that `mailbox.json` does not
  show), `Orderly` a handler's step to what it has in hand.  `Honest` is `NotifiedWasTold` for
  what processes remember.  For `TypedOnce`, `Plain` says of a message that is not excused that
  one handler has it in hand, that a pending request has its waiters, that while one waits only
  the hook can have typed it, and that what was typed is about to be recorded or is, where the
  monitor looks; `Unused` that a number not given out yet is nowhere.  `SentOnce` follows from
  `SentInv`: until the holder of the lock has its message in both mailboxes, no other like it
  gets into either.
* `WorkflowModesProofs`: the properties of `modes`.  `Exclusive` is not inductive because a
  start acts on a check made earlier: `ExInv` adds that a start which none has overtaken
  (`surprised`) knows every active mode that a valid check let in, to stand beside it or to
  complete it first (`Foreseen`).  `ListIsTrue` is about moments when nobody has to bring the
  list up to date; `KeptUp` says that otherwise one process has, and knows what became of the
  mode.  `CancelHolds` follows from the order of a call's steps (`CInv`) alone.
* `TeamScalingProofs`: the properties of `scaling`, from three invariants, each on top of the one
  before.  `BaseInv` holds whatever happens: what an operation has in hand at each of its steps
  (`Proper`), and that the workers and tasks on file have numbers and panes of their own; it
  gives `TypeCorrect`, which is not obvious because the next task and the next worker are numbered
  from copies that may be old.  `LInv` holds until a lock is broken or removed: an operation holds
  the locks it works under (`Held`), so the number it gives a task is above those in use
  (`Numbered`) and what a `scaleUp` may undo is there to be undone (`Made`); hence `TasksKept`.
  `RInv` holds while `why` is empty, so that no team with live panes was started over: the team on file has at least one worker, at most the
  maximum, and no name twice (`Manned`), a live pane is on file or in hand (`OnFile`), one start
  at a time (`OneStart`), the copy a scaling works on has the members on file (`InSync`,
  `Growing`) and only the start gives the first workers their panes (`FirstOnly`); hence
  `RosterHolds`.  With the status files telling who is at work, where nothing has been written
  over what the worker wrote (`TellsBusy`), and the targets of a `scaleDown` picked among those that
  were not, and saying so if they begin while it waits (`Spared`), it gives `Spares`.

Only model-checked: the liveness properties (`LapsedClaimEnds`, `CallsEnd`,
`OrphanRecovered`, `Converges`, `Announced`, `Settled`), because the prover does not reason
about fairness and ENABLED.

## 6. Not modelled, and why

* Contents of messages, results and descriptions: no step depends on them, except whether a
  result holds verification evidence, which `TeamPhase` keeps as the kind of the task.
* Corrupt JSON files of the team layer: every write there is a rename, so a reader sees a whole
  file.  The engine's files are written in place, and modelled so.  Mode files and the list of
  active skills are written in place too; a reader that meets one half-written fails or sees no
  mode, and `WorkflowModes` leaves that moment out.
* Engine: `--compact`, `init` and the `snapshot` subcommand, which the program never calls to
  change state; staleness of authority; readiness reports.
* Dispatch: the deferral for a missing leader pane, direct and prompt transports, a disabled
  bridge.  Mailboxes: the leader's own mailbox, a broadcast (several sends), the expiry of old
  messages, the check for dead workers in a poll, and `mailbox-mark-notified` of the API
  (`api-interop.ts:714`), by which a caller may mark a message as told without any typing:
  `NotifiedWasTold` speaks of the marks the runtime itself makes.  `TeamMailbox` has no writers of
  other teams, which may set its requests back in `dispatch.json` as `TeamDispatch` shows.
* Scaling: more than one task per `scaleUp`, a limit other than the default, details of
  worktrees, prompt-mode workers, acknowledgements of a shutdown, `assignTask`.
* Workflow modes: the copies of state per session, phases and results in the state, the start of
  an ultrawork mode linked to ralph (`omg cancel` may find one), the clean-up
  after a launch (`cleanupPostLaunchModeStateFiles`), and the gap between read and write in
  `completeSourceModeState`.  `BeginCli` reads all files in one step: those it finds active it only
  ever writes inactive.  Nor is the keyword hook: it decides by the list alone
  (`keyword-detector.ts:617`), writes the file of each mode it lets in active (306), does the same
  for the modes that are listed already (721), and writes the list.  With it `Exclusive`
  and `CancelHolds` would need further exceptions: a mode that was stopped and left in the list is
  active again after the hook.
* The order of a directory listing, tmux and git commands, worker heartbeats, nudges and
  allocation scores: they choose which operation is called next, and the models let every
  operation be called at any time.
* Worktree integration inside a poll: git commands on the workers' branches.
* Everything section 1 lists as outside the models; `PROJECT.json` gives the reason for each
  component.
