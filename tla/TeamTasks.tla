------------------------------ MODULE TeamTasks ------------------------------
(***************************************************************************)
(* The claim lifecycle of a team's task files: src/team/state/tasks.ts and *)
(* updateTask of src/team/state.ts.  Every operation runs in a process of  *)
(* its own (a worker's or the leader's CLI) and takes these steps, between *)
(* which any other process may step:                                       *)
(*                                                                         *)
(*   Start -> Acquire -> Accept | Reject -> Write -> AppendEvent -> Unlock *)
(*         -> ReadSnapshot -> WriteSnapshot                                *)
(*                                                                         *)
(* Acquire is the mkdir of the task's claim lock.  Accept reads the task   *)
(* file, passes every check of the operation and builds the record that    *)
(* Write renames into place.  Only a transition to "completed" goes on     *)
(* after the lock, to note in the monitor snapshot that its event was      *)
(* emitted.  A process may crash between any two steps; its lock directory *)
(* stays behind until a waiter removes it as stale.                        *)
(*                                                                         *)
(* Assumed of the lock: it is the one of module ClaimLock, which DirLock   *)
(* shows the directory to be when only a crashed process's directory grows *)
(* older than LOCK_STALE_MS and waiters that see it stale do not overlap.  *)
(***************************************************************************)
EXTENDS Integers, FiniteSets, LockUsers

CONSTANTS
  Task,         \* task ids
  Worker,       \* names in the team configuration
  Monitor,      \* the leader's monitor loop, one of Proc
  NoOwner,      \* an absent "owner" field
  InitDeps,     \* depends_on of each task as created
  Assigned,     \* the tasks created with an owner
  Operations,   \* the operations the team calls
  DepChoices,   \* the dependency lists an update may write
  Lease,        \* length of a claim's lease, in clock ticks
  MaxClock,     \* bound: the clock stops here
  MaxClaims,    \* bound: claims granted and under way
  MaxVersion,   \* bound: no update starts at this version
  MaxCrashes    \* bound: number of crashes

ASSUME MonitorAssumption == Monitor \in Proc
ASSUME WorkerAssumption == NoOwner \notin Worker
ASSUME TaskAssumption ==
  /\ InitDeps \in [Task -> SUBSET Task] /\ DepChoices \subseteq SUBSET Task
  /\ Assigned \subseteq Task
ASSUME BoundsAssumption ==
  /\ Lease \in Nat \ {0}
  /\ MaxClock \in Nat /\ MaxClaims \in Nat
  /\ MaxVersion \in Nat /\ MaxCrashes \in Nat

VARIABLES
  task,      \* the task files
  lock,      \* task -> the process whose lock directory exists, Free or Orphan
  pc,        \* process -> its next step
  req,       \* process -> the operation it runs, with its arguments
  out,       \* process -> the record it is about to write
  clock,     \* Date.now(), in ticks
  issued,    \* number of claim tokens drawn; the last one is this number
  events,    \* task -> how many completed and failed events the log holds
  snapshot,  \* the monitor snapshot: statuses seen, events already emitted
  copy,      \* process -> the snapshot it read and will write back
  crashes    \* number of crashes so far

vars == <<task, lock, pc, req, out, clock, issued, events, snapshot, copy,
          crashes>>

-----------------------------------------------------------------------------
Status == {"pending", "blocked", "in_progress", "completed", "failed"}

Terminal == {"completed", "failed"}

CanTransition(from, to) == from = "in_progress" /\ to \in Terminal

Claim == [owner : Worker \cup {NoOwner}, token : Nat, until : Nat]

\* An absent "claim" field.  Tokens in use start at 1.
NoClaim == [owner |-> NoOwner, token |-> 0, until |-> 0]

TaskRecord ==
  [status : Status, owner : Worker \cup {NoOwner}, claim : Claim,
   version : Nat, deps : SUBSET Task]

Kind == {"claim", "transition", "release", "reclaim", "update"}

\* One record for the arguments of every operation: a claim uses worker and
\* ver (0 is null: any version), a transition token and to, a release token,
\* an update deps.
Request ==
  [kind : Kind, task : Task, worker : Worker \cup {NoOwner}, ver : Nat,
   token : Nat, to : Status, deps : SUBSET Task]

Snapshot == [seen : [Task -> Status \cup {"unseen"}], flagged : SUBSET Task]

Step == {"idle", "lock", "read", "write", "event", "unlock", "snapRead",
         "snapWrite"}

\* The steps during which a process is inside withTaskClaimLock's callback.
Critical == {"read", "write", "event", "unlock"}

TypeOK ==
  /\ task \in [Task -> TaskRecord]
  /\ lock \in [Task -> Proc \cup {Free, Orphan}]
  /\ pc \in [Proc -> Step]
  /\ req \in [Proc -> Request]
  /\ out \in [Proc -> TaskRecord]
  /\ clock \in Nat
  /\ issued \in Nat
  /\ events \in [Task -> [Terminal -> Nat]]
  /\ snapshot \in Snapshot
  /\ copy \in [Proc -> Snapshot]
  /\ crashes \in Nat

\* createTask: status "pending", version 1, an owner only when one was named.
NewTask(owner, deps) ==
  [status |-> "pending", owner |-> owner, claim |-> NoClaim, version |-> 1,
   deps |-> deps]

NewRequest(kind, t) ==
  [kind |-> kind, task |-> t, worker |-> NoOwner, ver |-> 0, token |-> 0,
   to |-> "pending", deps |-> {}]

NoSnapshot == [seen |-> [t \in Task |-> "unseen"], flagged |-> {}]

Init ==
  /\ \E owner \in [Task -> Worker \cup {NoOwner}] :
       /\ \A t \in Task : owner[t] # NoOwner <=> t \in Assigned
       /\ task = [t \in Task |-> NewTask(owner[t], InitDeps[t])]
  /\ lock = [t \in Task |-> Free]
  /\ pc = [p \in Proc |-> "idle"]
  /\ \E t \in Task : req = [p \in Proc |-> NewRequest("reclaim", t)]
  /\ out = [p \in Proc |-> NewTask(NoOwner, {})]
  /\ clock = 0
  /\ issued = 0
  /\ events = [t \in Task |-> [s \in Terminal |-> 0]]
  /\ snapshot = NoSnapshot
  /\ copy = [p \in Proc |-> NoSnapshot]
  /\ crashes = 0

-----------------------------------------------------------------------------
HasClaim(v) == v.claim.token # 0

\* isClaimLeaseExpired
Expired(claim) == claim.token # 0 /\ claim.until <= clock

\* computeTaskReadiness
Ready(v) == \A d \in v.deps : task[d].status = "completed"

\* Mutation of HoldsClaim: the token is not compared.
HoldsAnyClaim(r, v) ==
  v.owner # NoOwner /\ HasClaim(v) /\ v.claim.owner = v.owner

\* The owner, claim and token checks transition and release share.
HoldsClaim(r, v) ==
  /\ v.owner # NoOwner
  /\ HasClaim(v)
  /\ v.claim.owner = v.owner
  /\ v.claim.token = r.token

\* The claim callback's checks but for the version, the dependencies and the
\* terminal status.
ClaimFree(r, v) ==
  /\ v.status = "in_progress" => Expired(v.claim)
  /\ v.status # "in_progress" =>
       /\ HasClaim(v) => Expired(v.claim)
       /\ v.owner \in {NoOwner, r.worker}

\* Mutations of ClaimAccepted: the dependencies read under the lock, or the
\* terminal status, go unchecked.
ClaimUnready(r, v) ==
  r.ver \in {0, v.version} /\ v.status \notin Terminal /\ ClaimFree(r, v)

ClaimFinished(r, v) ==
  r.ver \in {0, v.version} /\ Ready(v) /\ ClaimFree(r, v)

ClaimAccepted(r, v) ==
  /\ r.ver \in {0, v.version}
  /\ Ready(v)
  /\ v.status \notin Terminal
  /\ ClaimFree(r, v)

TransitionAccepted(r, v) ==
  /\ v.status \notin Terminal
  /\ CanTransition(v.status, r.to)
  /\ HoldsClaim(r, v)
  /\ ~Expired(v.claim)

\* Releasing a task nobody holds also succeeds, without writing it.
ReleaseAccepted(r, v) ==
  /\ v.status \notin Terminal
  /\ HoldsClaim(r, v)
  /\ ~Expired(v.claim)

ReclaimAccepted(v) == v.status = "in_progress" /\ Expired(v.claim)

Accepted(r, v) ==
  \/ r.kind = "claim" /\ ClaimAccepted(r, v)
  \/ r.kind = "transition" /\ TransitionAccepted(r, v)
  \/ r.kind = "release" /\ ReleaseAccepted(r, v)
  \/ r.kind = "reclaim" /\ ReclaimAccepted(v)
  \/ r.kind = "update"

\* The records the operations write.
Claimed(r, v) ==
  [status |-> "in_progress", owner |-> r.worker,
   claim |-> [owner |-> r.worker, token |-> issued + 1,
              until |-> clock + Lease],
   version |-> v.version + 1, deps |-> v.deps]

Finished(r, v) ==
  [status |-> r.to, owner |-> v.owner, claim |-> NoClaim,
   version |-> v.version + 1, deps |-> v.deps]

\* Mutations of Unclaimed: the version is not counted, the claim not removed.
UnclaimedUnversioned(v) ==
  [status |-> "pending", owner |-> NoOwner, claim |-> NoClaim,
   version |-> v.version, deps |-> v.deps]

UnclaimedWithClaim(v) ==
  [status |-> "pending", owner |-> NoOwner, claim |-> v.claim,
   version |-> v.version + 1, deps |-> v.deps]

Unclaimed(v) ==
  [status |-> "pending", owner |-> NoOwner, claim |-> NoClaim,
   version |-> v.version + 1, deps |-> v.deps]

Updated(r, v) ==
  [status |-> v.status, owner |-> v.owner, claim |-> v.claim,
   version |-> v.version + 1, deps |-> r.deps]

-----------------------------------------------------------------------------
(* The start of an operation: its arguments, and the checks made before    *)
(* the lock.                                                               *)

Begin(p, r) ==
  /\ pc[p] = "idle"
  /\ r.kind \in Operations
  /\ pc' = [pc EXCEPT ![p] = "lock"]
  /\ req' = [req EXCEPT ![p] = r]
  /\ UNCHANGED <<task, lock, out, clock, issued, events, snapshot, copy,
                 crashes>>

Claiming(q) == pc[q] \in {"lock", "read"} /\ req[q].kind = "claim"

\* assignTask passes the version it has just read, a worker may pass none.
StartClaim(p, t, w) ==
  /\ issued + Cardinality({q \in Proc : Claiming(q)}) < MaxClaims
  /\ Ready(task[t])
  /\ \E v \in {0, task[t].version} :
       Begin(p, [NewRequest("claim", t) EXCEPT !.worker = w, !.ver = v])

\* Any token that was ever issued, current or not.  The expected status the
\* caller names must be "in_progress", or the call returns before the lock.
StartTransition(p, t, token, to) ==
  /\ CanTransition("in_progress", to)
  /\ Begin(p, [NewRequest("transition", t) EXCEPT !.token = token, !.to = to])

StartRelease(p, t, token) ==
  Begin(p, [NewRequest("release", t) EXCEPT !.token = token])

\* The monitor calls reclaim for the tasks whose listing shows a lapsed lease.
StartReclaim(p, t) ==
  /\ p = Monitor
  /\ ReclaimAccepted(task[t])
  /\ Begin(p, NewRequest("reclaim", t))

StartUpdate(p, t, deps) ==
  /\ task[t].version < MaxVersion
  /\ Begin(p, [NewRequest("update", t) EXCEPT !.deps = deps])

-----------------------------------------------------------------------------
(* withTaskClaimLock.                                                      *)

\* Mutation of Acquire: with "recursive: true", mkdir never answers EEXIST.
AcquireAnyway(p) ==
  LET t == req[p].task IN
  /\ pc[p] = "lock"
  /\ lock' = [lock EXCEPT ![t] = p]
  /\ pc' = [pc EXCEPT ![p] = "read"]
  /\ UNCHANGED <<task, req, out, clock, issued, events, snapshot, copy,
                 crashes>>

Acquire(p) ==
  LET t == req[p].task IN
  /\ pc[p] = "lock"
  /\ lock[t] = Free
  /\ lock' = [lock EXCEPT ![t] = p]
  /\ pc' = [pc EXCEPT ![p] = "read"]
  /\ UNCHANGED <<task, req, out, clock, issued, events, snapshot, copy,
                 crashes>>

\* The deadline passes: the operation answers claim_conflict, or throws.
LockTimeout(p) ==
  /\ pc[p] = "lock"
  /\ lock[req[p].task] # Free
  /\ pc' = [pc EXCEPT ![p] = "idle"]
  /\ UNCHANGED <<task, lock, req, out, clock, issued, events, snapshot, copy,
                 crashes>>

\* maybeRecoverStaleLock; the waiter then tries mkdir again.
BreakStaleLock(p) ==
  /\ pc[p] = "lock"
  /\ lock[req[p].task] = Orphan
  /\ lock' = [lock EXCEPT ![req[p].task] = Free]
  /\ UNCHANGED <<task, pc, req, out, clock, issued, events, snapshot, copy,
                 crashes>>

\* After the lock a transition to "completed" updates the monitor snapshot,
\* whatever its callback answered; every other operation returns.
Unlock(p) ==
  LET r == req[p] IN
  /\ pc[p] = "unlock"
  /\ lock' = [lock EXCEPT ![r.task] = Free]
  /\ pc' = [pc EXCEPT ![p] =
              IF r.kind = "transition" /\ r.to = "completed"
              THEN "snapRead" ELSE "idle"]
  /\ UNCHANGED <<task, req, out, clock, issued, events, snapshot, copy,
                 crashes>>

-----------------------------------------------------------------------------
(* The callbacks: read and check, write, append the event.                 *)

\* The callback reads the file, passes its checks and builds the new record.
Accept(p, record) ==
  /\ pc[p] = "read"
  /\ out' = [out EXCEPT ![p] = record]
  /\ pc' = [pc EXCEPT ![p] = "write"]
  /\ UNCHANGED <<task, lock, req, clock, events, snapshot, copy, crashes>>

AcceptClaim(p) ==
  LET r == req[p] v == task[r.task] IN
  /\ r.kind = "claim"
  /\ ClaimAccepted(r, v)
  /\ Accept(p, Claimed(r, v))
  /\ issued' = issued + 1

AcceptTransition(p) ==
  LET r == req[p] v == task[r.task] IN
  /\ r.kind = "transition"
  /\ TransitionAccepted(r, v)
  /\ Accept(p, Finished(r, v))
  /\ UNCHANGED issued

AcceptRelease(p) ==
  LET r == req[p] v == task[r.task] IN
  /\ r.kind = "release"
  /\ ReleaseAccepted(r, v)
  /\ Accept(p, Unclaimed(v))
  /\ UNCHANGED issued

AcceptReclaim(p) ==
  LET r == req[p] v == task[r.task] IN
  /\ r.kind = "reclaim"
  /\ ReclaimAccepted(v)
  /\ Accept(p, Unclaimed(v))
  /\ UNCHANGED issued

AcceptUpdate(p) ==
  LET r == req[p] v == task[r.task] IN
  /\ r.kind = "update"
  /\ Accept(p, Updated(r, v))
  /\ UNCHANGED issued

\* Mutation of Reject: a refused transition still appends its event.
RejectWithEvent(p) ==
  LET r == req[p] IN
  /\ pc[p] = "read"
  /\ ~Accepted(r, task[r.task])
  /\ pc' = [pc EXCEPT ![p] =
              IF r.kind = "transition" THEN "event" ELSE "unlock"]
  /\ UNCHANGED <<task, lock, req, out, clock, issued, events, snapshot, copy,
                 crashes>>

\* A check fails, or there is nothing to write: the callback just returns.
Reject(p) ==
  LET r == req[p] IN
  /\ pc[p] = "read"
  /\ ~Accepted(r, task[r.task])
  /\ pc' = [pc EXCEPT ![p] = "unlock"]
  /\ UNCHANGED <<task, lock, req, out, clock, issued, events, snapshot, copy,
                 crashes>>

\* writeAtomic: a rename puts the new record in place.
Write(p) ==
  LET r == req[p] IN
  /\ pc[p] = "write"
  /\ task' = [task EXCEPT ![r.task] = out[p]]
  /\ pc' = [pc EXCEPT ![p] =
              IF r.kind = "transition" THEN "event" ELSE "unlock"]
  /\ UNCHANGED <<lock, req, out, clock, issued, events, snapshot, copy,
                 crashes>>

AppendEvent(p) ==
  LET r == req[p] IN
  /\ pc[p] = "event"
  /\ events' = [events EXCEPT ![r.task][r.to] = @ + 1]
  /\ pc' = [pc EXCEPT ![p] = "unlock"]
  /\ UNCHANGED <<task, lock, req, out, clock, issued, snapshot, copy, crashes>>

\* The snapshot is read and written back whole, under no lock.
ReadSnapshot(p) ==
  /\ pc[p] = "snapRead"
  /\ copy' = [copy EXCEPT ![p] = snapshot]
  /\ pc' = [pc EXCEPT ![p] = "snapWrite"]
  /\ UNCHANGED <<task, lock, req, out, clock, issued, events, snapshot,
                 crashes>>

WriteSnapshot(p) ==
  /\ pc[p] = "snapWrite"
  /\ snapshot' = [copy[p] EXCEPT !.flagged = @ \cup {req[p].task}]
  /\ pc' = [pc EXCEPT ![p] = "idle"]
  /\ UNCHANGED <<task, lock, req, out, clock, issued, events, copy, crashes>>

-----------------------------------------------------------------------------
\* A process dies where it stands.  What it held stays on disk.
Crash(p) ==
  /\ pc[p] # "idle"
  /\ crashes < MaxCrashes
  /\ crashes' = crashes + 1
  /\ pc' = [pc EXCEPT ![p] = "idle"]
  /\ lock' = [t \in Task |-> IF lock[t] = p THEN Orphan ELSE lock[t]]
  /\ UNCHANGED <<task, req, out, clock, issued, events, snapshot, copy>>

Tick ==
  /\ clock < MaxClock
  /\ clock' = clock + 1
  /\ UNCHANGED <<task, lock, pc, req, out, issued, events, snapshot, copy,
                 crashes>>

StartOperation(p) ==
  \E t \in Task :
    \/ \E w \in Worker : StartClaim(p, t, w)
    \/ \E token \in 1..issued, to \in Status : StartTransition(p, t, token, to)
    \/ \E token \in 1..issued : StartRelease(p, t, token)
    \/ StartReclaim(p, t)
    \/ \E deps \in DepChoices : StartUpdate(p, t, deps)

\* What a process does by itself once its operation has started.
Advance(p) ==
  \/ Acquire(p) \/ LockTimeout(p) \/ BreakStaleLock(p) \/ Unlock(p)
  \/ AcceptClaim(p) \/ AcceptTransition(p) \/ AcceptRelease(p)
  \/ AcceptReclaim(p) \/ AcceptUpdate(p) \/ Reject(p)
  \/ Write(p) \/ AppendEvent(p) \/ ReadSnapshot(p) \/ WriteSnapshot(p)

Next ==
  \/ \E p \in Proc : StartOperation(p) \/ Advance(p) \/ Crash(p)
  \/ Tick

Spec == Init /\ [][Next]_vars

-----------------------------------------------------------------------------
(* Properties.                                                             *)

\* What a task file looks like between operations: it is in progress exactly
\* when it carries a claim, the claim names its owner and was issued, and a
\* finished task keeps the owner that finished it.  tasks.ts checks these
\* fields one by one; the others rely on them agreeing.
ClaimMatchesStatus ==
  \A t \in Task :
    LET v == task[t] IN
    /\ HasClaim(v) <=> v.status = "in_progress"
    /\ HasClaim(v) => v.claim.owner = v.owner /\ v.claim.token \in 1..issued
    /\ v.status \in Terminal => v.owner \in Worker

\* Whoever is between mkdir and rm of a claim lock is alone there, so the
\* record it read is still the one on disk when it writes.
LockExcludes ==
  \A p \in Proc : pc[p] \in Critical => lock[req[p].task] = p

\* The claim lock of a task, as module DirLock provides it.
TaskLock(t) == INSTANCE ClaimLock WITH lock <- lock[t]

\* Operations, crashes and recoveries together treat every task's lock as that
\* lock allows: it passes from Free to one process and back, or to Orphan.
UsesClaimLocks ==
  /\ \A t \in Task : TaskLock(t)!Init
  /\ [][\A t \in Task : [TaskLock(t)!Next]_(lock[t])]_lock

\* No lost update: every change of a task file builds on the version it
\* replaces, however many processes read that file before.
VersionsCountWrites ==
  [][\A t \in Task :
       task'[t] # task[t] => task'[t].version = task[t].version + 1]_vars

\* A finished task stays finished, with the same outcome and owner, against
\* late reclaims, releases and claims by processes that saw it in progress.
FinishedForGood ==
  [][\A t \in Task :
       task[t].status \in Terminal =>
         /\ task'[t].status = task[t].status
         /\ task'[t].owner = task[t].owner]_vars

\* A claim leaves the file only through a call that presents its token, or
\* after its lease ran out: no worker loses a live claim to another process,
\* and a worker whose claim was taken over cannot finish the task.
ClaimEndsByHolderOrLease ==
  [][\A t \in Task :
       /\ HasClaim(task[t])
       /\ task'[t].claim # task[t].claim
       => \/ Expired(task[t].claim)
          \/ \E p \in Proc :
               /\ pc[p] = "write" /\ pc'[p] # "write"
               /\ req[p].task = t
               /\ req[p].token = task[t].claim.token]_vars

\* A claim is only granted on a task whose dependencies are all completed at
\* that moment, although their files are read before the write and under
\* another task's lock, and although updates may change the list meanwhile.
ClaimsAreReady ==
  [][\A t \in Task :
       task'[t].claim.token # task[t].claim.token /\ HasClaim(task'[t]) =>
         \A d \in task[t].deps : task[d].status = "completed"]_vars

\* A claim is only granted at the version the caller expected, and while a
\* task is pending only to the worker it was assigned to, if any: two calls
\* that read the same version do not both succeed.
ClaimsAsAsked ==
  [][\A t \in Task :
       task'[t].claim.token # task[t].claim.token /\ HasClaim(task'[t]) =>
         /\ task[t].status = "pending" =>
              task[t].owner \in {NoOwner, task'[t].owner}
         /\ \E p \in Proc :
              /\ pc[p] = "write" /\ pc'[p] # "write"
              /\ req[p].task = t /\ req[p].worker = task'[t].owner
              /\ req[p].ver \in {0, task[t].version}]_vars

\* The event log never holds more than one terminal event for a task, and
\* only the one its file shows: a retry, a late second finisher or a crash
\* between the two writes adds none.
EventMatchesOutcome ==
  \A t \in Task, s \in Terminal :
    events[t][s] > 0 => task[t].status = s /\ events[t][s] = 1

\* Task files, claim locks and event log agree, at every step of every
\* operation, and after the crash of any.
Sound ==
  /\ TypeOK
  /\ ClaimMatchesStatus
  /\ LockExcludes
  /\ EventMatchesOutcome

\* What the files say of the tasks, as module TaskLifecycle sees it.
Holder == [t \in Task |-> task[t].claim.token]

Lapsed == {t \in Task : Expired(task[t].claim)}

Outcome ==
  [t \in Task |-> IF task[t].status \in Terminal THEN task[t].status ELSE "none"]

Needs == [t \in Task |-> task[t].deps]

Lifecycle ==
  INSTANCE TaskLifecycle WITH
    InitNeeds <- InitDeps, holder <- Holder, lapsed <- Lapsed,
    outcome <- Outcome, needs <- Needs, told <- events

\* Through every interleaving, crash and takeover the operations amount to the
\* steps of TaskLifecycle: a live claim is not taken over, a task is finished
\* once and only while held, and its event tells that outcome once.
ImplementsLifecycle == Lifecycle!Spec

-----------------------------------------------------------------------------
(* Liveness.  The monitor polls for as long as the team runs: it reaches   *)
(* every lapsed task again and again (SF on its start), each step it has   *)
(* begun is carried out (WF), it does not miss a free lock or a stale one  *)
(* forever, and time passes.                                               *)

FairMonitor ==
  /\ WF_vars(Tick)
  /\ \A t \in Task : SF_vars(StartReclaim(Monitor, t))
  /\ WF_vars(Advance(Monitor))
  /\ SF_vars(Acquire(Monitor)) /\ SF_vars(BreakStaleLock(Monitor))

FairSpec == Spec /\ FairMonitor

\* A claim whose holder stopped working ends: once its lease has run out and
\* the other processes leave the task alone, the monitor takes it back, even
\* when a crashed process left the task's lock behind.
LapsedClaimEnds ==
  \A t \in Task, token \in 1..MaxClaims :
    <>[](\A p \in Proc \ {Monitor} : req[p].task = t => pc[p] = "idle")
    => []((task[t].claim.token = token /\ Expired(task[t].claim))
            => <>(task[t].claim.token # token))
=============================================================================
