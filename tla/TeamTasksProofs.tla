--------------------------- MODULE TeamTasksProofs ---------------------------
(***************************************************************************)
(* Theorems about TeamTasks, for any tasks, workers, processes and bounds, *)
(* and about the directories that are its locks (DirLock).                 *)
(***************************************************************************)
EXTENDS TeamTasks, DirLock, TLAPS

USE LockAssumption, MonitorAssumption, WorkerAssumption, TaskAssumption,
    BoundsAssumption

-----------------------------------------------------------------------------
(* The record a process is about to write, seen against the one on disk,   *)
(* which the lock keeps as the process read it.                            *)

BuiltByClaim(r, v, o) ==
  /\ r.kind = "claim"
  /\ v.status \notin Terminal
  /\ HasClaim(v) => Expired(v.claim)
  /\ v.status = "pending" => v.owner \in {NoOwner, r.worker}
  /\ r.ver \in {0, v.version}
  /\ \A d \in v.deps : task[d].status = "completed"
  /\ r.worker \in Worker
  /\ o.status = "in_progress" /\ o.owner = r.worker
  /\ o.claim.owner = r.worker /\ o.claim.token \in 1..issued
  /\ o.deps = v.deps

BuiltByTransition(r, v, o) ==
  /\ r.kind = "transition"
  /\ v.status = "in_progress" /\ v.claim.token = r.token
  /\ r.to \in Terminal /\ v.owner \in Worker
  /\ o.status = r.to /\ o.owner = v.owner /\ o.claim = NoClaim
  /\ o.deps = v.deps

BuiltByRelease(r, v, o) ==
  /\ r.kind \in {"release", "reclaim"}
  /\ v.status \notin Terminal
  /\ r.kind = "release" => v.claim.token = r.token
  /\ r.kind = "reclaim" => Expired(v.claim)
  /\ o.status = "pending" /\ o.owner = NoOwner /\ o.claim = NoClaim
  /\ o.deps = v.deps

BuiltByUpdate(r, v, o) ==
  /\ r.kind = "update"
  /\ o.status = v.status /\ o.owner = v.owner /\ o.claim = v.claim

Built(p) ==
  LET r == req[p] v == task[req[p].task] o == out[p] IN
  /\ o.version = v.version + 1
  /\ \/ BuiltByClaim(r, v, o) \/ BuiltByTransition(r, v, o)
     \/ BuiltByRelease(r, v, o) \/ BuiltByUpdate(r, v, o)

WritesAreBuilt == \A p \in Proc : pc[p] = "write" => Built(p)

\* A process is only about to append the event of the status it has written.
EventsAreDue ==
  \A p \in Proc : pc[p] = "event" =>
    /\ req[p].to \in Terminal
    /\ task[req[p].task].status = req[p].to
    /\ \A s \in Terminal : events[req[p].task][s] = 0

\* Claims are made for workers of the configuration.
ClaimsNameWorkers ==
  \A p \in Proc : req[p].kind = "claim" => req[p].worker \in Worker

IInv ==
  /\ TypeOK
  /\ ClaimsNameWorkers
  /\ LockExcludes
  /\ ClaimMatchesStatus
  /\ WritesAreBuilt
  /\ EventsAreDue
  /\ EventMatchesOutcome

-----------------------------------------------------------------------------
(* Type correctness.                                                       *)

LEMMA InitTypeOK == Init => TypeOK
BY DEF Init, TypeOK, NewTask, NewRequest, NoSnapshot, NoClaim, TaskRecord,
       Claim, Request, Snapshot, Status, Terminal, Kind, Step

\* The records the operations write are task records.
LEMMA WrittenRecordsAreTyped ==
  ASSUME TypeOK, NEW p \in Proc, NEW r \in Request, r = req[p],
         NEW v \in TaskRecord
  PROVE  /\ Claimed(r, v) \in TaskRecord
         /\ Finished(r, v) \in TaskRecord
         /\ Unclaimed(v) \in TaskRecord
         /\ Updated(r, v) \in TaskRecord
<1>1. Claimed(r, v) \in TaskRecord
  BY DEF Claimed, TypeOK, TaskRecord, Claim, Request, Status
<1>2. Finished(r, v) \in TaskRecord
  BY DEF Finished, TaskRecord, Claim, NoClaim, Request, Status
<1>3. Unclaimed(v) \in TaskRecord
  BY DEF Unclaimed, TaskRecord, Claim, NoClaim, Status
<1>4. Updated(r, v) \in TaskRecord
  BY DEF Updated, TaskRecord, Request
<1>5. QED BY <1>1, <1>2, <1>3, <1>4

LEMMA RequestsStayTyped ==
  ASSUME NEW r \in Request
  PROVE  /\ \A w \in Worker : [r EXCEPT !.worker = w] \in Request
         /\ \A n \in Nat : [r EXCEPT !.ver = n] \in Request
         /\ \A n \in Nat : [r EXCEPT !.token = n] \in Request
         /\ \A to \in Status : [r EXCEPT !.to = to] \in Request
         /\ \A deps \in SUBSET Task : [r EXCEPT !.deps = deps] \in Request
BY DEF Request

LEMMA NewRequestsAreTyped ==
  ASSUME NEW kind \in Kind, NEW t \in Task
  PROVE  NewRequest(kind, t) \in Request
BY DEF NewRequest, Request, Kind, Status

LEMMA BeginKeepsTypes ==
  ASSUME TypeOK, NEW p \in Proc, NEW r \in Request, Begin(p, r)
  PROVE  TypeOK'
BY DEF Begin, TypeOK, Step

LEMMA StartKeepsTypes ==
  ASSUME TypeOK, NEW p \in Proc, StartOperation(p)
  PROVE  TypeOK'
<1> PICK t \in Task :
      \/ \E w \in Worker : StartClaim(p, t, w)
      \/ \E token \in 1..issued, to \in Status : StartTransition(p, t, token, to)
      \/ \E token \in 1..issued : StartRelease(p, t, token)
      \/ StartReclaim(p, t)
      \/ \E deps \in DepChoices : StartUpdate(p, t, deps)
  BY DEF StartOperation
<1>1. ASSUME NEW w \in Worker, StartClaim(p, t, w) PROVE TypeOK'
  <2>1. PICK n \in {0, task[t].version} :
          Begin(p, [NewRequest("claim", t) EXCEPT !.worker = w, !.ver = n])
    BY <1>1 DEF StartClaim
  <2>2. n \in Nat  BY DEF TypeOK, TaskRecord
  <2>3. [NewRequest("claim", t) EXCEPT !.worker = w, !.ver = n] \in Request
    BY <2>2, RequestsStayTyped, NewRequestsAreTyped DEF Kind
  <2>4. QED BY <2>1, <2>3, BeginKeepsTypes
<1>2. ASSUME NEW token \in 1..issued, NEW to \in Status,
             StartTransition(p, t, token, to)
      PROVE  TypeOK'
  <2>1. token \in Nat  BY DEF TypeOK
  <2>2. [NewRequest("transition", t) EXCEPT !.token = token] \in Request
    BY <2>1, RequestsStayTyped, NewRequestsAreTyped DEF Kind
  <2>3. [NewRequest("transition", t) EXCEPT !.token = token, !.to = to]
          \in Request
    BY <2>2, RequestsStayTyped
  <2>4. QED BY <1>2, <2>3, BeginKeepsTypes DEF StartTransition
<1>3. ASSUME NEW token \in 1..issued, StartRelease(p, t, token) PROVE TypeOK'
  <2>1. [NewRequest("release", t) EXCEPT !.token = token] \in Request
    BY RequestsStayTyped, NewRequestsAreTyped DEF Kind, TypeOK
  <2>2. QED BY <1>3, <2>1, BeginKeepsTypes DEF StartRelease
<1>4. CASE StartReclaim(p, t)
  <2>1. NewRequest("reclaim", t) \in Request
    BY RequestsStayTyped, NewRequestsAreTyped DEF Kind
  <2>2. QED BY <1>4, <2>1, BeginKeepsTypes DEF StartReclaim
<1>5. ASSUME NEW deps \in DepChoices, StartUpdate(p, t, deps) PROVE TypeOK'
  <2>1. [NewRequest("update", t) EXCEPT !.deps = deps] \in Request
    BY RequestsStayTyped, NewRequestsAreTyped DEF Kind
  <2>2. QED BY <1>5, <2>1, BeginKeepsTypes DEF StartUpdate
<1>6. QED BY <1>1, <1>2, <1>3, <1>4, <1>5

LEMMA AcceptKeepsTypes ==
  ASSUME TypeOK, NEW p \in Proc, NEW o \in TaskRecord, Accept(p, o),
         issued' \in Nat
  PROVE  TypeOK'
BY DEF Accept, TypeOK, Step

LEMMA AdvanceKeepsTypes ==
  ASSUME TypeOK, NEW p \in Proc, Advance(p)
  PROVE  TypeOK'
<1> DEFINE r == req[p]
           v == task[r.task]
<1>t. r \in Request /\ r.task \in Task /\ v \in TaskRecord
  BY DEF TypeOK, Request
<1>1. CASE Acquire(p)  BY <1>1, <1>t DEF Acquire, TypeOK, Step
<1>2. CASE LockTimeout(p)  BY <1>2 DEF LockTimeout, TypeOK, Step
<1>3. CASE BreakStaleLock(p)  BY <1>3, <1>t DEF BreakStaleLock, TypeOK
<1>4. CASE Unlock(p)  BY <1>4, <1>t DEF Unlock, TypeOK, Step
<1>5. CASE AcceptClaim(p)
  BY <1>5, <1>t, WrittenRecordsAreTyped, AcceptKeepsTypes
     DEF AcceptClaim, TypeOK
<1>6. CASE AcceptTransition(p)
  BY <1>6, <1>t, WrittenRecordsAreTyped, AcceptKeepsTypes
     DEF AcceptTransition, TypeOK
<1>7. CASE AcceptRelease(p)
  BY <1>7, <1>t, WrittenRecordsAreTyped, AcceptKeepsTypes
     DEF AcceptRelease, TypeOK
<1>8. CASE AcceptReclaim(p)
  BY <1>8, <1>t, WrittenRecordsAreTyped, AcceptKeepsTypes
     DEF AcceptReclaim, TypeOK
<1>9. CASE AcceptUpdate(p)
  BY <1>9, <1>t, WrittenRecordsAreTyped, AcceptKeepsTypes
     DEF AcceptUpdate, TypeOK
<1>10. CASE Reject(p)  BY <1>10 DEF Reject, TypeOK, Step
<1>11. CASE Write(p)  BY <1>11, <1>t DEF Write, TypeOK, Step
<1>12. CASE AppendEvent(p)
  <2>1. events' \in [Task -> [Terminal -> Nat]]
    <3>1. CASE r.to \in Terminal  BY <3>1, <1>12, <1>t DEF AppendEvent, TypeOK
    <3>2. CASE r.to \notin Terminal
      BY <3>2, <1>12, <1>t DEF AppendEvent, TypeOK
    <3>3. QED BY <3>1, <3>2
  <2>2. QED BY <1>12, <2>1 DEF AppendEvent, TypeOK, Step
<1>13. CASE ReadSnapshot(p)  BY <1>13 DEF ReadSnapshot, TypeOK, Step
<1>14. CASE WriteSnapshot(p)
  BY <1>14, <1>t DEF WriteSnapshot, TypeOK, Step, Snapshot
<1>15. QED
  BY <1>1, <1>2, <1>3, <1>4, <1>5, <1>6, <1>7, <1>8, <1>9, <1>10, <1>11,
     <1>12, <1>13, <1>14 DEF Advance

LEMMA NextKeepsTypes == TypeOK /\ [Next]_vars => TypeOK'
<1> SUFFICES ASSUME TypeOK, [Next]_vars PROVE TypeOK'
  OBVIOUS
<1>1. CASE UNCHANGED vars  BY <1>1 DEF vars, TypeOK
<1>2. CASE Tick  BY <1>2 DEF Tick, TypeOK
<1>3. ASSUME NEW p \in Proc, StartOperation(p) \/ Advance(p) PROVE TypeOK'
  BY <1>3, StartKeepsTypes, AdvanceKeepsTypes
<1>4. ASSUME NEW p \in Proc, Crash(p) PROVE TypeOK'
  BY <1>4 DEF Crash, TypeOK, Step
<1>5. QED BY <1>1, <1>2, <1>3, <1>4 DEF Next

\* Every reachable state is well typed, whatever the bounds.
THEOREM TypeCorrect == Spec => []TypeOK
BY InitTypeOK, NextKeepsTypes, PTL DEF Spec

-----------------------------------------------------------------------------
(* The inductive invariant.                                                *)

LEMMA InitIInv == Init => IInv
<1> SUFFICES ASSUME Init PROVE IInv
  OBVIOUS
<1>1. TypeOK  BY InitTypeOK
<1>2. ClaimsNameWorkers  BY DEF Init, ClaimsNameWorkers, NewRequest
<1>3. LockExcludes /\ WritesAreBuilt /\ EventsAreDue
  BY DEF Init, LockExcludes, WritesAreBuilt, EventsAreDue, Critical
<1>4. ClaimMatchesStatus
  BY DEF Init, ClaimMatchesStatus, NewTask, NoClaim, HasClaim, Terminal
<1>5. EventMatchesOutcome
  BY DEF Init, EventMatchesOutcome
<1>6. QED BY <1>1, <1>2, <1>3, <1>4, <1>5 DEF IInv

\* What a process has prepared stays right while its task's file, and the
\* completion of every other task, stay as they are.
LEMMA BuiltPersists ==
  ASSUME TypeOK, TypeOK', NEW q \in Proc, Built(q),
         req'[q] = req[q], out'[q] = out[q],
         task'[req[q].task] = task[req[q].task],
         \A d \in Task :
           task[d].status = "completed" => task'[d].status = "completed",
         clock <= clock', issued <= issued'
  PROVE  Built(q)'
<1> DEFINE r == req[q]
           v == task[req[q].task]
           o == out[q]
<1>t. r \in Request /\ v \in TaskRecord /\ v.claim \in Claim
  BY DEF TypeOK, Request, TaskRecord
<1>1. Expired(v.claim) => Expired(v.claim)'
  BY <1>t DEF Expired, TypeOK, Claim
<1>2. CASE BuiltByClaim(r, v, o)
  <2>1. \A d \in v.deps : task'[d].status = "completed"
    BY <1>2, <1>t DEF BuiltByClaim, TaskRecord
  <2>2. o.claim.token \in 1..issued'
    BY <1>2 DEF BuiltByClaim, TypeOK
  <2>3. QED BY <1>1, <1>2, <2>1, <2>2 DEF Built, BuiltByClaim, HasClaim
<1>3. CASE BuiltByTransition(r, v, o)
  BY <1>3 DEF Built, BuiltByTransition
<1>4. CASE BuiltByRelease(r, v, o)
  BY <1>1, <1>4 DEF Built, BuiltByRelease
<1>5. CASE BuiltByUpdate(r, v, o)
  BY <1>5 DEF Built, BuiltByUpdate
<1>6. QED BY <1>2, <1>3, <1>4, <1>5 DEF Built

\* Starting an operation, waiting for its lock and touching the snapshot
\* concern none of the invariant's parts.
LEMMA OutsideKeepsIInv ==
  ASSUME IInv, TypeOK', NEW p \in Proc, NEW step \in Step \ Critical,
         pc[p] \notin Critical,
         pc' = [pc EXCEPT ![p] = step],
         \A q \in Proc \ {p} : req'[q] = req[q],
         ClaimsNameWorkers',
         UNCHANGED <<task, lock, out, clock, issued, events>>
  PROVE  IInv'
<1>1. \A q \in Proc : pc'[q] \in Critical =>
        q # p /\ pc'[q] = pc[q] /\ req'[q] = req[q]
  BY DEF IInv, TypeOK
<1>2. LockExcludes'  BY <1>1 DEF IInv, LockExcludes
<1>3. ClaimMatchesStatus'
  BY DEF IInv, ClaimMatchesStatus, HasClaim
<1>4. WritesAreBuilt'
  <2> SUFFICES ASSUME NEW q \in Proc, pc'[q] = "write" PROVE Built(q)'
    BY DEF WritesAreBuilt
  <2>1. pc[q] = "write" /\ req'[q] = req[q]  BY <1>1 DEF Critical
  <2>2. Built(q)  BY <2>1 DEF IInv, WritesAreBuilt
  <2>3. QED BY <2>1, <2>2, BuiltPersists DEF IInv, TypeOK
<1>5. EventsAreDue'
  BY <1>1 DEF IInv, EventsAreDue, Critical
<1>6. EventMatchesOutcome'
  BY DEF IInv, EventMatchesOutcome
<1>7. QED BY <1>2, <1>3, <1>4, <1>5, <1>6 DEF IInv

LEMMA BeginKeepsIInv ==
  ASSUME IInv, TypeOK', NEW p \in Proc, NEW r, Begin(p, r),
         r.kind = "claim" => r.worker \in Worker
  PROVE  IInv'
<1>1. ClaimsNameWorkers'
  BY DEF Begin, IInv, TypeOK, ClaimsNameWorkers
<1>2. pc[p] \notin Critical /\ pc' = [pc EXCEPT ![p] = "lock"]
  BY DEF Begin, Critical
<1>3. "lock" \in Step \ Critical  BY DEF Step, Critical
<1>4. \A q \in Proc \ {p} : req'[q] = req[q]
  BY DEF Begin, IInv, TypeOK
<1>5. UNCHANGED <<task, lock, out, clock, issued, events>>
  BY DEF Begin
<1>6. QED BY <1>1, <1>2, <1>3, <1>4, <1>5, OutsideKeepsIInv

LEMMA StartKeepsIInv ==
  ASSUME IInv, TypeOK', NEW p \in Proc, StartOperation(p)
  PROVE  IInv'
<1> PICK t \in Task :
      \/ \E w \in Worker : StartClaim(p, t, w)
      \/ \E token \in 1..issued, to \in Status : StartTransition(p, t, token, to)
      \/ \E token \in 1..issued : StartRelease(p, t, token)
      \/ StartReclaim(p, t)
      \/ \E deps \in DepChoices : StartUpdate(p, t, deps)
  BY DEF StartOperation
<1>1. ASSUME NEW w \in Worker, StartClaim(p, t, w) PROVE IInv'
  <2>1. PICK n \in {0, task[t].version} :
          Begin(p, [NewRequest("claim", t) EXCEPT !.worker = w, !.ver = n])
    BY <1>1 DEF StartClaim
  <2>2. [NewRequest("claim", t) EXCEPT !.worker = w, !.ver = n].worker = w
    BY DEF NewRequest
  <2>3. QED BY <2>1, <2>2, BeginKeepsIInv
<1>2. ASSUME NEW token \in 1..issued, NEW to \in Status,
             StartTransition(p, t, token, to)
      PROVE  IInv'
  BY <1>2, BeginKeepsIInv DEF StartTransition, NewRequest
<1>3. ASSUME NEW token \in 1..issued, StartRelease(p, t, token) PROVE IInv'
  BY <1>3, BeginKeepsIInv DEF StartRelease, NewRequest
<1>4. CASE StartReclaim(p, t)
  BY <1>4, BeginKeepsIInv DEF StartReclaim, NewRequest
<1>5. ASSUME NEW deps \in DepChoices, StartUpdate(p, t, deps) PROVE IInv'
  BY <1>5, BeginKeepsIInv DEF StartUpdate, NewRequest
<1>6. QED BY <1>1, <1>2, <1>3, <1>4, <1>5

\* The steps of a process outside its critical section, once started.
LEMMA WaitKeepsIInv ==
  ASSUME IInv, TypeOK', NEW p \in Proc,
         LockTimeout(p) \/ ReadSnapshot(p) \/ WriteSnapshot(p)
  PROVE  IInv'
<1>1. ClaimsNameWorkers'
  BY DEF LockTimeout, ReadSnapshot, WriteSnapshot, IInv, ClaimsNameWorkers
<1>2. pc[p] \notin Critical
  BY DEF LockTimeout, ReadSnapshot, WriteSnapshot, Critical
<1>3. PICK step \in {"idle", "snapWrite"} : pc' = [pc EXCEPT ![p] = step]
  BY DEF LockTimeout, ReadSnapshot, WriteSnapshot
<1>4. step \in Step \ Critical  BY <1>3 DEF Step, Critical
<1>5. UNCHANGED <<task, lock, req, out, clock, issued, events>>
  BY DEF LockTimeout, ReadSnapshot, WriteSnapshot
<1>6. QED BY <1>1, <1>2, <1>3, <1>4, <1>5, OutsideKeepsIInv

\* The steps inside the critical section of p that leave the task files, the
\* clock, the tokens and every other process alone.
LEMMA InsideKeepsIInv ==
  ASSUME IInv, TypeOK', NEW p \in Proc, NEW step \in {"read", "unlock"},
         pc[p] # "lock" => pc[p] \in Critical,
         pc' = [pc EXCEPT ![p] = step],
         lock'[req[p].task] = p,
         lock[req[p].task] \in {p, Free},
         \A t \in Task \ {req[p].task} : lock'[t] = lock[t],
         UNCHANGED <<task, req, out, clock, issued, events>>
  PROVE  IInv'
<1>1. \A q \in Proc : pc'[q] \in Critical => q = p \/ pc[q] = pc'[q]
  BY DEF IInv, TypeOK
<1>2. LockExcludes'
  BY <1>1 DEF IInv, LockExcludes, TypeOK, Request
<1>3. ClaimMatchesStatus' /\ ClaimsNameWorkers' /\ EventMatchesOutcome'
  BY DEF IInv, ClaimMatchesStatus, HasClaim, ClaimsNameWorkers,
         EventMatchesOutcome
<1>4. WritesAreBuilt'
  <2> SUFFICES ASSUME NEW q \in Proc, pc'[q] = "write" PROVE Built(q)'
    BY DEF WritesAreBuilt
  <2>1. pc[q] = "write"  BY DEF IInv, TypeOK
  <2>2. Built(q)  BY <2>1 DEF IInv, WritesAreBuilt
  <2>3. QED BY <2>2, BuiltPersists DEF IInv, TypeOK
<1>5. EventsAreDue'
  BY DEF IInv, EventsAreDue, TypeOK
<1>6. QED BY <1>2, <1>3, <1>4, <1>5 DEF IInv

LEMMA AcquireKeepsIInv ==
  ASSUME IInv, TypeOK', NEW p \in Proc, Acquire(p)
  PROVE  IInv'
<1>1. req[p].task \in Task  BY DEF IInv, TypeOK, Request
<1>2. lock' = [lock EXCEPT ![req[p].task] = p]
      /\ lock[req[p].task] = Free /\ pc[p] = "lock"
      /\ pc' = [pc EXCEPT ![p] = "read"]
      /\ UNCHANGED <<task, req, out, clock, issued, events>>
  BY DEF Acquire
<1>3. lock'[req[p].task] = p
      /\ \A t \in Task \ {req[p].task} : lock'[t] = lock[t]
  BY <1>1, <1>2 DEF IInv, TypeOK
<1>4. QED BY <1>2, <1>3, InsideKeepsIInv

LEMMA RejectKeepsIInv ==
  ASSUME IInv, TypeOK', NEW p \in Proc, Reject(p)
  PROVE  IInv'
<1>1. pc[p] \in Critical /\ lock[req[p].task] = p
  BY DEF Reject, IInv, LockExcludes, Critical
<1>2. QED BY <1>1, InsideKeepsIInv DEF Reject

\* Removing a lock directory nobody in its critical section owns.
LEMMA BreakStaleLockKeepsIInv ==
  ASSUME IInv, TypeOK', NEW p \in Proc, BreakStaleLock(p)
  PROVE  IInv'
<1>1. LockExcludes'
  BY DEF BreakStaleLock, IInv, LockExcludes, TypeOK, Request
<1>2. UNCHANGED <<task, pc, req, out, clock, issued, events>>
  BY DEF BreakStaleLock
<1>3. WritesAreBuilt'
  <2> SUFFICES ASSUME NEW q \in Proc, pc'[q] = "write" PROVE Built(q)'
    BY DEF WritesAreBuilt
  <2>1. Built(q)  BY <1>2 DEF IInv, WritesAreBuilt
  <2>2. QED BY <1>2, <2>1, BuiltPersists DEF IInv, TypeOK
<1>4. QED
  BY <1>1, <1>2, <1>3
     DEF IInv, ClaimMatchesStatus, HasClaim, ClaimsNameWorkers,
         EventMatchesOutcome, EventsAreDue

LEMMA UnlockKeepsIInv ==
  ASSUME IInv, TypeOK', NEW p \in Proc, Unlock(p)
  PROVE  IInv'
<1>1. UNCHANGED <<task, req, out, clock, issued, events>>  BY DEF Unlock
<1>2. lock[req[p].task] = p
  BY DEF Unlock, IInv, LockExcludes, Critical
<1>3. \A q \in Proc : pc'[q] \in Critical => q # p /\ pc'[q] = pc[q]
  BY DEF Unlock, IInv, TypeOK, Critical
<1>4. LockExcludes'
  BY <1>2, <1>3 DEF Unlock, IInv, LockExcludes, TypeOK, Request
<1>5. WritesAreBuilt'
  <2> SUFFICES ASSUME NEW q \in Proc, pc'[q] = "write" PROVE Built(q)'
    BY DEF WritesAreBuilt
  <2>1. Built(q)  BY <1>3 DEF IInv, WritesAreBuilt, Critical
  <2>2. QED BY <1>1, <2>1, BuiltPersists DEF IInv, TypeOK
<1>6. EventsAreDue'
  BY <1>1, <1>3 DEF IInv, EventsAreDue, Critical
<1>7. QED
  BY <1>1, <1>4, <1>5, <1>6
     DEF IInv, ClaimMatchesStatus, HasClaim, ClaimsNameWorkers,
         EventMatchesOutcome

LEMMA CrashKeepsIInv ==
  ASSUME IInv, TypeOK', NEW p \in Proc, Crash(p)
  PROVE  IInv'
<1>1. UNCHANGED <<task, req, out, clock, issued, events>>  BY DEF Crash
<1>2. \A q \in Proc : pc'[q] \in Critical => q # p /\ pc'[q] = pc[q]
  BY DEF Crash, IInv, TypeOK, Critical
<1>3. LockExcludes'
  BY <1>2 DEF Crash, IInv, LockExcludes, TypeOK, Request
<1>4. WritesAreBuilt'
  <2> SUFFICES ASSUME NEW q \in Proc, pc'[q] = "write" PROVE Built(q)'
    BY DEF WritesAreBuilt
  <2>1. Built(q)  BY <1>2 DEF IInv, WritesAreBuilt, Critical
  <2>2. QED BY <1>1, <2>1, BuiltPersists DEF IInv, TypeOK
<1>5. EventsAreDue'
  BY <1>1, <1>2 DEF IInv, EventsAreDue, Critical
<1>6. QED
  BY <1>1, <1>3, <1>4, <1>5
     DEF IInv, ClaimMatchesStatus, HasClaim, ClaimsNameWorkers,
         EventMatchesOutcome

LEMMA TickKeepsIInv ==
  ASSUME IInv, TypeOK', Tick
  PROVE  IInv'
<1>1. UNCHANGED <<task, lock, pc, req, out, issued, events>> /\ clock <= clock'
  BY DEF Tick, IInv, TypeOK
<1>2. WritesAreBuilt'
  <2> SUFFICES ASSUME NEW q \in Proc, pc'[q] = "write" PROVE Built(q)'
    BY DEF WritesAreBuilt
  <2>1. Built(q)  BY <1>1 DEF IInv, WritesAreBuilt
  <2>2. QED BY <1>1, <2>1, BuiltPersists DEF IInv, TypeOK
<1>3. QED
  BY <1>1, <1>2
     DEF IInv, LockExcludes, ClaimMatchesStatus, HasClaim, ClaimsNameWorkers,
         EventsAreDue, EventMatchesOutcome

\* The record each operation builds is right when it is built.
LEMMA AcceptBuilds ==
  ASSUME IInv, TypeOK', NEW p \in Proc,
         \/ AcceptClaim(p) \/ AcceptTransition(p) \/ AcceptRelease(p)
         \/ AcceptReclaim(p) \/ AcceptUpdate(p)
  PROVE  Built(p)'
<1> DEFINE r == req[p]
           v == task[req[p].task]
<1>t. r \in Request /\ v \in TaskRecord /\ issued \in Nat /\ r.task \in Task
  BY DEF IInv, TypeOK, Request
<1>1. UNCHANGED <<task, req, clock>>
  BY DEF AcceptClaim, AcceptTransition, AcceptRelease, AcceptReclaim,
         AcceptUpdate, Accept
<1>2. CASE AcceptClaim(p)
  <2>1. out'[p] = Claimed(r, v) /\ issued' = issued + 1
    BY <1>2 DEF AcceptClaim, Accept, IInv, TypeOK
  <2>2. r.worker \in Worker
    BY <1>2 DEF AcceptClaim, IInv, ClaimsNameWorkers
  <2>3. /\ r.kind = "claim" /\ r.ver \in {0, v.version}
        /\ v.status \notin Terminal
        /\ HasClaim(v) => Expired(v.claim)
        /\ v.status = "pending" => v.owner \in {NoOwner, r.worker}
        /\ \A d \in v.deps : task[d].status = "completed"
    BY <1>2 DEF AcceptClaim, ClaimAccepted, ClaimFree, Ready, Terminal
  <2>4. /\ out'[p].status = "in_progress" /\ out'[p].owner = r.worker
        /\ out'[p].claim.owner = r.worker
        /\ out'[p].claim.token \in 1..issued'
        /\ out'[p].version = v.version + 1
        /\ out'[p].deps = v.deps
    BY <2>1, <1>t DEF Claimed
  <2>5. BuiltByClaim(req[p], task[req[p].task], out[p])'
    BY <1>1, <2>2, <2>3, <2>4 DEF BuiltByClaim, HasClaim, Expired
  <2>6. QED BY <1>1, <2>4, <2>5 DEF Built
<1>3. CASE AcceptTransition(p)
  <2>1. out'[p] = Finished(r, v)
    BY <1>3 DEF AcceptTransition, Accept, IInv, TypeOK
  <2>2. BuiltByTransition(r, v, out'[p])
    BY <1>3, <1>t, <2>1
       DEF AcceptTransition, TransitionAccepted, CanTransition, HoldsClaim,
           Finished, BuiltByTransition, TaskRecord
  <2>3. QED BY <1>1, <2>1, <2>2 DEF Built, Finished, BuiltByTransition
<1>4. CASE AcceptRelease(p)
  <2>1. out'[p] = Unclaimed(v)
    BY <1>4 DEF AcceptRelease, Accept, IInv, TypeOK
  <2>2. BuiltByRelease(r, v, out'[p])
    BY <1>4, <2>1
       DEF AcceptRelease, ReleaseAccepted, HoldsClaim, Unclaimed,
           BuiltByRelease
  <2>3. QED
    BY <1>1, <1>4, <2>1, <2>2
       DEF Built, Unclaimed, BuiltByRelease, AcceptRelease
<1>5. CASE AcceptReclaim(p)
  <2>1. out'[p] = Unclaimed(v)
    BY <1>5 DEF AcceptReclaim, Accept, IInv, TypeOK
  <2>2. BuiltByRelease(r, v, out'[p])
    BY <1>5, <2>1
       DEF AcceptReclaim, ReclaimAccepted, Unclaimed, BuiltByRelease, Terminal
  <2>3. Expired(v.claim)'
    BY <1>1, <1>5 DEF AcceptReclaim, ReclaimAccepted, Expired
  <2>4. QED
    BY <1>1, <2>1, <2>2, <2>3 DEF Built, Unclaimed, BuiltByRelease
<1>6. CASE AcceptUpdate(p)
  <2>1. out'[p] = Updated(r, v)
    BY <1>6 DEF AcceptUpdate, Accept, IInv, TypeOK
  <2>2. QED
    BY <1>1, <1>6, <2>1 DEF AcceptUpdate, Built, Updated, BuiltByUpdate
<1>7. QED BY <1>2, <1>3, <1>4, <1>5, <1>6

LEMMA AcceptKeepsIInv ==
  ASSUME IInv, TypeOK', NEW p \in Proc,
         \/ AcceptClaim(p) \/ AcceptTransition(p) \/ AcceptRelease(p)
         \/ AcceptReclaim(p) \/ AcceptUpdate(p)
  PROVE  IInv'
<1>1. /\ pc[p] = "read" /\ pc' = [pc EXCEPT ![p] = "write"]
      /\ UNCHANGED <<task, lock, req, clock, events>>
      /\ \A q \in Proc \ {p} : out'[q] = out[q]
      /\ issued <= issued'
  BY DEF AcceptClaim, AcceptTransition, AcceptRelease, AcceptReclaim,
         AcceptUpdate, Accept, IInv, TypeOK
<1>2. LockExcludes'
  BY <1>1 DEF IInv, LockExcludes, Critical, TypeOK
<1>3. ClaimMatchesStatus'
  BY <1>1 DEF IInv, ClaimMatchesStatus, HasClaim, TypeOK
<1>4. WritesAreBuilt'
  <2> SUFFICES ASSUME NEW q \in Proc, pc'[q] = "write" PROVE Built(q)'
    BY DEF WritesAreBuilt
  <2>1. CASE q = p  BY <2>1, AcceptBuilds
  <2>2. CASE q # p
    <3>1. Built(q)  BY <1>1, <2>2 DEF IInv, TypeOK, WritesAreBuilt
    <3>2. QED BY <1>1, <2>2, <3>1, BuiltPersists DEF IInv, TypeOK
  <2>3. QED BY <2>1, <2>2
<1>5. EventsAreDue' /\ EventMatchesOutcome' /\ ClaimsNameWorkers'
  BY <1>1 DEF IInv, EventsAreDue, EventMatchesOutcome, ClaimsNameWorkers,
              TypeOK
<1>6. QED BY <1>2, <1>3, <1>4, <1>5 DEF IInv

\* Two processes in their critical sections work on different tasks.
LEMMA DifferentTasks ==
  ASSUME IInv, NEW p \in Proc, NEW q \in Proc \ {p},
         pc[p] \in Critical, pc[q] \in Critical
  PROVE  req[p].task # req[q].task
BY DEF IInv, LockExcludes

LEMMA AppendEventKeepsIInv ==
  ASSUME IInv, TypeOK', NEW p \in Proc, AppendEvent(p)
  PROVE  IInv'
<1> DEFINE t == req[p].task
           to == req[p].to
<1>1. /\ pc[p] = "event" /\ pc' = [pc EXCEPT ![p] = "unlock"]
      /\ UNCHANGED <<task, lock, req, out, clock, issued>>
      /\ t \in Task
  BY DEF AppendEvent, IInv, TypeOK, Request
<1>2. to \in Terminal /\ task[t].status = to /\ events[t][to] = 0
  BY <1>1 DEF IInv, EventsAreDue
<1>3. events' = [events EXCEPT ![t] = [@ EXCEPT ![to] = 1]]
  <2>1. events' = [events EXCEPT ![t][to] = @ + 1]  BY DEF AppendEvent
  <2>2. QED BY <1>1, <1>2, <2>1 DEF IInv, TypeOK
<1>4. LockExcludes'
  BY <1>1 DEF IInv, LockExcludes, Critical, TypeOK
<1>5. ClaimMatchesStatus' /\ ClaimsNameWorkers'
  BY <1>1 DEF IInv, ClaimMatchesStatus, HasClaim, ClaimsNameWorkers
<1>6. WritesAreBuilt'
  <2> SUFFICES ASSUME NEW q \in Proc, pc'[q] = "write" PROVE Built(q)'
    BY DEF WritesAreBuilt
  <2>1. Built(q)  BY <1>1 DEF IInv, TypeOK, WritesAreBuilt
  <2>2. TypeOK /\ clock <= clock' /\ issued <= issued'
    BY <1>1 DEF IInv, TypeOK
  <2>3. QED BY <1>1, <2>1, <2>2, BuiltPersists
<1>7. EventsAreDue'
  <2> SUFFICES ASSUME NEW q \in Proc, pc'[q] = "event"
               PROVE  /\ req[q].to \in Terminal
                      /\ task[req[q].task].status = req[q].to
                      /\ \A s \in Terminal : events'[req[q].task][s] = 0
    BY <1>1 DEF EventsAreDue
  <2>1. q # p /\ pc[q] = "event"  BY <1>1 DEF IInv, TypeOK
  <2>2. t # req[q].task /\ req[q].task \in Task
    BY <1>1, <2>1, DifferentTasks DEF Critical, IInv, TypeOK, Request
  <2>3. events'[req[q].task] = events[req[q].task]
    BY <1>3, <2>2 DEF IInv, TypeOK
  <2>4. QED BY <2>1, <2>3 DEF IInv, EventsAreDue
<1>8. EventMatchesOutcome'
  BY <1>1, <1>2, <1>3 DEF IInv, EventMatchesOutcome, TypeOK
<1>9. QED BY <1>4, <1>5, <1>6, <1>7, <1>8 DEF IInv

\* What a write does to its task, whichever operation it belongs to.
LEMMA WriteSteps ==
  ASSUME IInv, NEW p \in Proc, Write(p)
  PROVE  /\ req[p].task \in Task
         /\ Built(p)
         /\ task'[req[p].task] = out[p]
         /\ \A t \in Task \ {req[p].task} : task'[t] = task[t]
         /\ \A t \in Task : task[t].status \in Terminal =>
              /\ task'[t].status = task[t].status
              /\ task'[t].owner = task[t].owner
<1>1. req[p].task \in Task /\ Built(p)
  BY DEF Write, IInv, WritesAreBuilt, TypeOK, Request
<1>2. task'[req[p].task] = out[p]
      /\ \A t \in Task \ {req[p].task} : task'[t] = task[t]
  BY <1>1 DEF Write, IInv, TypeOK
<1>3. task[req[p].task].status \in Terminal =>
        /\ out[p].status = task[req[p].task].status
        /\ out[p].owner = task[req[p].task].owner
  BY <1>1 DEF Built, BuiltByClaim, BuiltByTransition, BuiltByRelease,
              BuiltByUpdate, Terminal
<1>4. QED BY <1>1, <1>2, <1>3

\* The claim, status and owner of a record being written agree.
LEMMA BuiltMatches ==
  ASSUME IInv, NEW p \in Proc, Built(p), req[p].task \in Task
  PROVE  LET v == out[p] IN
         /\ HasClaim(v) <=> v.status = "in_progress"
         /\ HasClaim(v) => v.claim.owner = v.owner /\ v.claim.token \in 1..issued
         /\ v.status \in Terminal => v.owner \in Worker
<1> DEFINE r == req[p]
           v == task[req[p].task]
           o == out[p]
<1>1. CASE BuiltByClaim(r, v, o)
  BY <1>1 DEF BuiltByClaim, HasClaim, Terminal, IInv, TypeOK
<1>2. CASE BuiltByTransition(r, v, o)
  BY <1>2 DEF BuiltByTransition, HasClaim, NoClaim, Terminal
<1>3. CASE BuiltByRelease(r, v, o)
  BY <1>3 DEF BuiltByRelease, HasClaim, NoClaim, Terminal
<1>4. CASE BuiltByUpdate(r, v, o)
  BY <1>4 DEF BuiltByUpdate, HasClaim, IInv, ClaimMatchesStatus
<1>5. QED BY <1>1, <1>2, <1>3, <1>4 DEF Built

LEMMA WriteKeepsIInv ==
  ASSUME IInv, TypeOK', NEW p \in Proc, Write(p)
  PROVE  IInv'
<1> DEFINE t == req[p].task
<1>1. /\ pc[p] = "write"
      /\ pc' = [pc EXCEPT ![p] =
                  IF req[p].kind = "transition" THEN "event" ELSE "unlock"]
      /\ UNCHANGED <<lock, req, out, clock, issued, events>>
  BY DEF Write
<1>2. \A q \in Proc \ {p} : pc'[q] = pc[q]
  BY <1>1 DEF IInv, TypeOK
<1>3. \A q \in Proc \ {p} : pc[q] \in Critical =>
        req[q].task # t /\ task'[req[q].task] = task[req[q].task]
  BY <1>1, DifferentTasks, WriteSteps DEF Critical, IInv, TypeOK, Request
<1>4. LockExcludes'
  BY <1>1, <1>2 DEF IInv, LockExcludes, Critical
<1>5. ClaimMatchesStatus'
  <2> SUFFICES ASSUME NEW u \in Task
               PROVE  LET v == task'[u] IN
                      /\ HasClaim(v) <=> v.status = "in_progress"
                      /\ HasClaim(v) => /\ v.claim.owner = v.owner
                                        /\ v.claim.token \in 1..issued
                      /\ v.status \in Terminal => v.owner \in Worker
    BY <1>1 DEF ClaimMatchesStatus, HasClaim
  <2>1. CASE u = t  BY <2>1, WriteSteps, BuiltMatches
  <2>2. CASE u # t  BY <2>2, WriteSteps DEF IInv, ClaimMatchesStatus
  <2>3. QED BY <2>1, <2>2
<1>6. WritesAreBuilt'
  <2> SUFFICES ASSUME NEW q \in Proc, pc'[q] = "write" PROVE Built(q)'
    BY DEF WritesAreBuilt
  <2>1. q # p  BY <1>1 DEF IInv, TypeOK
  <2>2. pc[q] = "write"  BY <1>2, <2>1
  <2>3. Built(q)  BY <2>2 DEF IInv, WritesAreBuilt
  <2>4. task'[req[q].task] = task[req[q].task]
    BY <1>3, <2>1, <2>2 DEF Critical
  <2>5. \A d \in Task :
          task[d].status = "completed" => task'[d].status = "completed"
    BY WriteSteps DEF Terminal
  <2>6. QED BY <1>1, <2>3, <2>4, <2>5, BuiltPersists DEF IInv, TypeOK
<1>7. EventsAreDue'
  <2> SUFFICES ASSUME NEW q \in Proc, pc'[q] = "event"
               PROVE  /\ req[q].to \in Terminal
                      /\ task'[req[q].task].status = req[q].to
                      /\ \A s \in Terminal : events[req[q].task][s] = 0
    BY <1>1 DEF EventsAreDue
  <2>1. CASE q = p
    <3>1. req[p].kind = "transition"  BY <1>1, <2>1 DEF IInv, TypeOK
    <3>2. BuiltByTransition(req[p], task[t], out[p])
      BY <3>1, WriteSteps
         DEF Built, BuiltByClaim, BuiltByRelease, BuiltByUpdate
    <3>3. t \in Task /\ task'[t] = out[p]  BY WriteSteps
    <3>4. \A s \in Terminal : events[t][s] = 0
      <4> TAKE s \in Terminal
      <4>1. events[t][s] \in Nat  BY <3>3 DEF IInv, TypeOK
      <4>2. task[t].status # s  BY <3>2 DEF BuiltByTransition, Terminal
      <4>3. QED BY <3>3, <4>1, <4>2 DEF IInv, EventMatchesOutcome
    <3>5. QED BY <2>1, <3>2, <3>3, <3>4 DEF BuiltByTransition
  <2>2. CASE q # p
    <3>1. pc[q] = "event"  BY <1>2, <2>2
    <3>2. task'[req[q].task] = task[req[q].task]
      BY <1>3, <2>2, <3>1 DEF Critical
    <3>3. QED BY <3>1, <3>2 DEF IInv, EventsAreDue
  <2>3. QED BY <2>1, <2>2
<1>8. EventMatchesOutcome'
  BY <1>1, WriteSteps DEF IInv, EventMatchesOutcome
<1>9. ClaimsNameWorkers'
  BY <1>1 DEF IInv, ClaimsNameWorkers
<1>10. QED BY <1>4, <1>5, <1>6, <1>7, <1>8, <1>9 DEF IInv

LEMMA NextKeepsIInv == IInv /\ [Next]_vars => IInv'
<1> SUFFICES ASSUME IInv, [Next]_vars PROVE IInv'
  OBVIOUS
<1>t. TypeOK'  BY NextKeepsTypes DEF IInv
<1>1. CASE UNCHANGED vars
  BY <1>1, <1>t
     DEF vars, IInv, LockExcludes, ClaimMatchesStatus, HasClaim,
         ClaimsNameWorkers, EventsAreDue, EventMatchesOutcome, WritesAreBuilt,
         Built, BuiltByClaim, BuiltByTransition, BuiltByRelease,
         BuiltByUpdate, Expired
<1>2. CASE Tick  BY <1>2, <1>t, TickKeepsIInv
<1>3. ASSUME NEW p \in Proc, StartOperation(p) PROVE IInv'
  BY <1>3, <1>t, StartKeepsIInv
<1>4. ASSUME NEW p \in Proc, Crash(p) PROVE IInv'
  BY <1>4, <1>t, CrashKeepsIInv
<1>5. ASSUME NEW p \in Proc, Advance(p) PROVE IInv'
  BY <1>5, <1>t, AcquireKeepsIInv, WaitKeepsIInv, BreakStaleLockKeepsIInv,
     UnlockKeepsIInv, AcceptKeepsIInv, RejectKeepsIInv, WriteKeepsIInv,
     AppendEventKeepsIInv
     DEF Advance
<1>6. QED BY <1>1, <1>2, <1>3, <1>4, <1>5 DEF Next

\* The inductive invariant holds in every reachable state.
THEOREM Invariance == Spec => []IInv
BY InitIInv, NextKeepsIInv, PTL DEF Spec

-----------------------------------------------------------------------------
(* The properties the runs check on small instances.                       *)

\* A process inside withTaskClaimLock's callback owns its task's lock.
THEOREM HoldersOwn == Spec => []LockExcludes
<1>1. IInv => LockExcludes  BY DEF IInv
<1>2. QED BY <1>1, Invariance, PTL

\* Status, owner and claim of every task file agree.
THEOREM ClaimsMatch == Spec => []ClaimMatchesStatus
<1>1. IInv => ClaimMatchesStatus  BY DEF IInv
<1>2. QED BY <1>1, Invariance, PTL

\* At most one terminal event per task, that of the outcome in its file.
THEOREM EventsMatch == Spec => []EventMatchesOutcome
<1>1. IInv => EventMatchesOutcome  BY DEF IInv
<1>2. QED BY <1>1, Invariance, PTL

\* Task files, claim locks and event log agree.
THEOREM Soundness == Spec => []Sound
<1>1. TypeOK /\ ClaimMatchesStatus /\ LockExcludes /\ EventMatchesOutcome => Sound
  BY DEF Sound
<1>2. QED BY <1>1, TypeCorrect, ClaimsMatch, HoldersOwn, EventsMatch, PTL

LEMMA LockSteps ==
  ASSUME IInv, [Next]_vars, NEW t \in Task
  PROVE  [TaskLock(t)!Next]_(lock[t])
<1>t. lock \in [Task -> Proc \cup {Free, Orphan}]
      /\ \A p \in Proc : req[p].task \in Task
  BY DEF IInv, TypeOK, Request
<1>1. ASSUME NEW p \in Proc, Acquire(p)
      PROVE  TaskLock(t)!Take(p) \/ lock'[t] = lock[t]
  BY <1>1, <1>t DEF Acquire, TaskLock!Take
<1>2. ASSUME NEW p \in Proc, Unlock(p)
      PROVE  TaskLock(t)!Give(p) \/ lock'[t] = lock[t]
  <2>1. lock[req[p].task] = p  BY <1>2 DEF Unlock, IInv, LockExcludes, Critical
  <2>2. QED BY <1>2, <1>t, <2>1 DEF Unlock, TaskLock!Give
<1>3. ASSUME NEW p \in Proc, BreakStaleLock(p)
      PROVE  TaskLock(t)!Recover \/ lock'[t] = lock[t]
  BY <1>3, <1>t DEF BreakStaleLock, TaskLock!Recover
<1>4. ASSUME NEW p \in Proc, Crash(p)
      PROVE  TaskLock(t)!Die(p) \/ lock'[t] = lock[t]
  BY <1>4, <1>t DEF Crash, TaskLock!Die
<1>5. ASSUME NEW p \in Proc, StartOperation(p) PROVE lock' = lock
  BY <1>5 DEF StartOperation, StartClaim, StartTransition, StartRelease,
              StartReclaim, StartUpdate, Begin
<1>6. ASSUME NEW p \in Proc, Advance(p),
             ~Acquire(p), ~Unlock(p), ~BreakStaleLock(p)
      PROVE  lock' = lock
  BY <1>6 DEF Advance, LockTimeout, AcceptClaim, AcceptTransition,
              AcceptRelease, AcceptReclaim, AcceptUpdate, Accept, Reject,
              Write, AppendEvent, ReadSnapshot, WriteSnapshot
<1>7. CASE Tick \/ UNCHANGED vars  BY <1>7 DEF Tick, vars
<1>8. QED
  BY <1>1, <1>2, <1>3, <1>4, <1>5, <1>6, <1>7
     DEF Next, Advance, TaskLock!Next

\* Every task's lock is used as an abstract claim lock.
THEOREM LocksAreUsed == Spec => UsesClaimLocks
<1>1. Init => \A t \in Task : TaskLock(t)!Init
  BY DEF Init, TaskLock!Init
<1>2. IInv /\ [Next]_vars =>
        [\A t \in Task : [TaskLock(t)!Next]_(lock[t])]_lock
  BY LockSteps
<1>3. QED BY <1>1, <1>2, Invariance, PTL DEF Spec, UsesClaimLocks

\* Only Write changes task files.
LEMMA ChangedByWrite ==
  ASSUME IInv, [Next]_vars, NEW t \in Task, task'[t] # task[t]
  PROVE  \E p \in Proc : /\ Write(p) /\ req[p].task = t
                        /\ pc[p] = "write" /\ pc'[p] # "write"
<1>a. task' # task  OBVIOUS
<1>b. ASSUME NEW p \in Proc, StartOperation(p) PROVE task' = task
  BY <1>b DEF StartOperation, StartClaim, StartTransition, StartRelease,
              StartReclaim, StartUpdate, Begin
<1>c. ASSUME NEW p \in Proc, Advance(p), ~Write(p) PROVE task' = task
  BY <1>c DEF Advance, Acquire, LockTimeout, BreakStaleLock, Unlock,
              AcceptClaim, AcceptTransition, AcceptRelease, AcceptReclaim,
              AcceptUpdate, Accept, Reject, AppendEvent, ReadSnapshot,
              WriteSnapshot
<1>d. ~Tick /\ ~UNCHANGED vars /\ \A p \in Proc : ~Crash(p)
  BY <1>a DEF Tick, vars, Crash
<1>1. PICK p \in Proc : Write(p)
  BY <1>a, <1>b, <1>c, <1>d DEF Next
<1>2. req[p].task = t  BY <1>1, WriteSteps
<1>3. pc[p] = "write" /\ pc'[p] # "write"
  BY <1>1 DEF Write, IInv, TypeOK
<1>4. QED BY <1>1, <1>2, <1>3

\* No update of a task file is lost.
THEOREM NoLostUpdate == Spec => VersionsCountWrites
<1>1. IInv /\ [Next]_vars =>
        [\A t \in Task : task'[t] # task[t] =>
           task'[t].version = task[t].version + 1]_vars
  BY ChangedByWrite, WriteSteps DEF Built
<1>2. QED BY <1>1, Invariance, PTL DEF Spec, VersionsCountWrites

\* A finished task keeps its outcome and its owner.
THEOREM OutcomesLast == Spec => FinishedForGood
<1>1. IInv /\ [Next]_vars =>
        [\A t \in Task : task[t].status \in Terminal =>
           /\ task'[t].status = task[t].status
           /\ task'[t].owner = task[t].owner]_vars
  BY ChangedByWrite, WriteSteps
<1>2. QED BY <1>1, Invariance, PTL DEF Spec, FinishedForGood

\* A live claim ends by its holder's token only.
THEOREM ClaimsAreKept == Spec => ClaimEndsByHolderOrLease
<1>1. ASSUME IInv, [Next]_vars, NEW t \in Task, HasClaim(task[t]),
             task'[t].claim # task[t].claim, ~Expired(task[t].claim)
      PROVE  \E p \in Proc : /\ pc[p] = "write" /\ pc'[p] # "write"
                            /\ req[p].task = t
                            /\ req[p].token = task[t].claim.token
  <2>1. PICK p \in Proc : /\ Write(p) /\ req[p].task = t
                         /\ pc[p] = "write" /\ pc'[p] # "write"
    BY <1>1, ChangedByWrite
  <2>2. Built(p) /\ task'[t] = out[p]  BY <1>1, <2>1, WriteSteps
  <2>3. req[p].token = task[t].claim.token
    BY <1>1, <2>1, <2>2
       DEF Built, BuiltByClaim, BuiltByTransition, BuiltByRelease,
           BuiltByUpdate
  <2>4. QED BY <2>1, <2>3
<1>2. IInv /\ [Next]_vars =>
        [\A t \in Task :
           /\ HasClaim(task[t])
           /\ task'[t].claim # task[t].claim
           => \/ Expired(task[t].claim)
              \/ \E p \in Proc :
                   /\ pc[p] = "write" /\ pc'[p] # "write"
                   /\ req[p].task = t
                   /\ req[p].token = task[t].claim.token]_vars
  BY <1>1
<1>3. QED BY <1>2, Invariance, PTL DEF Spec, ClaimEndsByHolderOrLease

\* A write that grants a claim is a claim operation's.
LEMMA GrantedByClaim ==
  ASSUME IInv, [Next]_vars, NEW t \in Task,
         task'[t].claim.token # task[t].claim.token, HasClaim(task'[t])
  PROVE  \E p \in Proc :
           /\ pc[p] = "write" /\ pc'[p] # "write" /\ req[p].task = t
           /\ task'[t] = out[p]
           /\ BuiltByClaim(req[p], task[t], out[p])
<1>1. PICK p \in Proc : /\ Write(p) /\ req[p].task = t
                       /\ pc[p] = "write" /\ pc'[p] # "write"
  BY ChangedByWrite
<1>2. Built(p) /\ task'[t] = out[p]  BY <1>1, WriteSteps
<1>3. BuiltByClaim(req[p], task[t], out[p])
  BY <1>1, <1>2
     DEF Built, BuiltByTransition, BuiltByRelease, BuiltByUpdate, NoClaim,
         HasClaim
<1>4. QED BY <1>1, <1>2, <1>3

\* Claims are granted on ready tasks only.
THEOREM GrantedWhenReady == Spec => ClaimsAreReady
<1>1. IInv /\ [Next]_vars =>
        [\A t \in Task :
           task'[t].claim.token # task[t].claim.token /\ HasClaim(task'[t]) =>
             \A d \in task[t].deps : task[d].status = "completed"]_vars
  BY GrantedByClaim DEF BuiltByClaim
<1>2. QED BY <1>1, Invariance, PTL DEF Spec, ClaimsAreReady

\* Claims are granted at the expected version, to the assigned worker.
THEOREM GrantedAsAsked == Spec => ClaimsAsAsked
<1>1. ASSUME IInv, [Next]_vars, NEW t \in Task,
             task'[t].claim.token # task[t].claim.token, HasClaim(task'[t])
      PROVE  /\ task[t].status = "pending" =>
                  task[t].owner \in {NoOwner, task'[t].owner}
             /\ \E p \in Proc :
                  /\ pc[p] = "write" /\ pc'[p] # "write"
                  /\ req[p].task = t /\ req[p].worker = task'[t].owner
                  /\ req[p].ver \in {0, task[t].version}
  BY <1>1, GrantedByClaim DEF BuiltByClaim
<1>2. IInv /\ [Next]_vars =>
        [\A t \in Task :
           task'[t].claim.token # task[t].claim.token /\ HasClaim(task'[t]) =>
             /\ task[t].status = "pending" =>
                  task[t].owner \in {NoOwner, task'[t].owner}
             /\ \E p \in Proc :
                  /\ pc[p] = "write" /\ pc'[p] # "write"
                  /\ req[p].task = t /\ req[p].worker = task'[t].owner
                  /\ req[p].ver \in {0, task[t].version}]_vars
  BY <1>1
<1>3. QED BY <1>2, Invariance, PTL DEF Spec, ClaimsAsAsked

-----------------------------------------------------------------------------
(* TeamTasks implements TaskLifecycle.                                     *)

\* A write changes what is seen of its own task only.
LEMMA SeenOfWrite ==
  ASSUME IInv, IInv', NEW p \in Proc, Write(p)
  PROVE  LET t == req[p].task  o == out[p] IN
         /\ Holder' = [Holder EXCEPT ![t] = o.claim.token]
         /\ Lapsed' = IF Expired(o.claim) THEN Lapsed \cup {t}
                      ELSE Lapsed \ {t}
         /\ Outcome' = [Outcome EXCEPT ![t] =
                         IF o.status \in Terminal THEN o.status ELSE "none"]
         /\ Needs' = [Needs EXCEPT ![t] = o.deps]
<1>1. /\ req[p].task \in Task
      /\ task' = [task EXCEPT ![req[p].task] = out[p]]
      /\ clock' = clock
  BY DEF Write, IInv, TypeOK, Request
<1>2. task \in [Task -> TaskRecord]  BY DEF IInv, TypeOK
<1>3. QED BY <1>1, <1>2 DEF Holder, Lapsed, Outcome, Needs, Expired

LEMMA WriteImplements ==
  ASSUME IInv, IInv', NEW p \in Proc, Write(p)
  PROVE  [Lifecycle!Next]_<<Holder, Lapsed, Outcome, Needs, events>>
<1> DEFINE r == req[p]
           t == req[p].task
           v == task[t]
           o == out[p]
<1>t. t \in Task /\ v \in TaskRecord /\ o \in TaskRecord
  BY DEF IInv, TypeOK, Request
<1>1. /\ Holder[t] = v.claim.token /\ Needs[t] = v.deps
      /\ t \in Lapsed <=> Expired(v.claim)
      /\ Outcome[t] = IF v.status \in Terminal THEN v.status ELSE "none"
      /\ \A d \in Task : task[d].status = "completed"
                        => Outcome[d] = "completed"
  BY <1>t DEF Holder, Needs, Lapsed, Outcome, Terminal
<1>2. /\ Holder' = [Holder EXCEPT ![t] = o.claim.token]
      /\ Lapsed' = IF Expired(o.claim) THEN Lapsed \cup {t} ELSE Lapsed \ {t}
      /\ Outcome' = [Outcome EXCEPT ![t] =
                      IF o.status \in Terminal THEN o.status ELSE "none"]
      /\ Needs' = [Needs EXCEPT ![t] = o.deps]
  BY SeenOfWrite
<1>3. events' = events /\ Built(p)  BY WriteSteps DEF Write
<1>4. /\ Holder = [Holder EXCEPT ![t] = Holder[t]]
      /\ Outcome = [Outcome EXCEPT ![t] = Outcome[t]]
      /\ Needs = [Needs EXCEPT ![t] = Needs[t]]
  BY <1>t DEF Holder, Outcome, Needs
<1>c. CASE BuiltByClaim(r, v, o)
  <2>1. /\ Outcome[t] = "none" /\ (Holder[t] = 0 \/ t \in Lapsed)
        /\ \A d \in Needs[t] : Outcome[d] = "completed"
    BY <1>c, <1>1, <1>t DEF BuiltByClaim, HasClaim, TaskRecord
  <2>2. Holder'[t] # 0 /\ Holder' = [Holder EXCEPT ![t] = Holder'[t]]
    <3>1. [Holder EXCEPT ![t] = o.claim.token][t] = o.claim.token
      BY <1>t DEF Holder
    <3>2. o.claim.token # 0  BY <1>c DEF BuiltByClaim
    <3>3. QED BY <1>2, <3>1, <3>2
  <2>3. UNCHANGED <<Outcome, Needs>>
    BY <1>c, <1>1, <1>2, <1>4, <2>1 DEF BuiltByClaim, Terminal
  <2>4. Lapsed' \in {Lapsed \cup {t}, Lapsed \ {t}}  BY <1>2
  <2>5. Lifecycle!Grant(t)
    BY <1>3, <2>1, <2>2, <2>3, <2>4 DEF Lifecycle!Grant
  <2>6. QED BY <1>t, <2>5 DEF Lifecycle!Next
<1>d. CASE BuiltByTransition(r, v, o)
  <2>1. Holder[t] # 0 /\ Outcome[t] = "none"
    BY <1>d, <1>1, <1>t
       DEF BuiltByTransition, IInv, ClaimMatchesStatus, HasClaim, Terminal
  <2>2. /\ Holder' = [Holder EXCEPT ![t] = 0] /\ Lapsed' = Lapsed \ {t}
        /\ Outcome' = [Outcome EXCEPT ![t] = r.to] /\ UNCHANGED Needs
    BY <1>d, <1>1, <1>2, <1>4 DEF BuiltByTransition, NoClaim, Expired
  <2>3. Lifecycle!Finish(t, r.to)
    BY <1>3, <2>1, <2>2 DEF Lifecycle!Finish
  <2>4. r.to \in Lifecycle!Outcomes
    BY <1>d DEF BuiltByTransition, Lifecycle!Outcomes, Terminal
  <2>5. QED BY <1>t, <2>3, <2>4 DEF Lifecycle!Next
<1>e. CASE BuiltByRelease(r, v, o)
  <2>1. /\ Holder' = [Holder EXCEPT ![t] = 0] /\ Lapsed' = Lapsed \ {t}
        /\ UNCHANGED <<Outcome, Needs>>
    BY <1>e, <1>1, <1>2, <1>4 DEF BuiltByRelease, NoClaim, Expired, Terminal
  <2>2. CASE Holder[t] # 0
    <3>1. Lifecycle!Drop(t)  BY <1>3, <2>1, <2>2 DEF Lifecycle!Drop
    <3>2. QED BY <1>t, <3>1 DEF Lifecycle!Next
  <2>3. CASE Holder[t] = 0
    <3>1. t \notin Lapsed  BY <1>1, <2>3 DEF Expired
    <3>2. QED BY <1>3, <1>4, <2>1, <2>3, <3>1
  <2>4. QED BY <2>2, <2>3
<1>f. CASE BuiltByUpdate(r, v, o)
  <2>1. UNCHANGED <<Holder, Lapsed, Outcome>>
    BY <1>f, <1>1, <1>2, <1>4 DEF BuiltByUpdate
  <2>2. Lifecycle!Amend(t, o.deps)
    BY <1>2, <1>3, <2>1 DEF Lifecycle!Amend
  <2>3. o.deps \in SUBSET Task  BY <1>t DEF TaskRecord
  <2>4. QED BY <1>t, <2>2, <2>3 DEF Lifecycle!Next
<1>5. QED BY <1>3, <1>c, <1>d, <1>e, <1>f DEF Built

LEMMA AppendEventImplements ==
  ASSUME IInv, NEW p \in Proc, AppendEvent(p)
  PROVE  Lifecycle!Next
<1> DEFINE t == req[p].task
           to == req[p].to
<1>1. /\ t \in Task /\ to \in Terminal /\ task[t].status = to
      /\ \A s \in Terminal : events[t][s] = 0
  BY DEF AppendEvent, IInv, TypeOK, Request, EventsAreDue
<1>2. Outcome[t] = to  BY <1>1 DEF Outcome
<1>3. events' = [events EXCEPT ![t][to] = 1]
  <2>1. events' = [events EXCEPT ![t][to] = @ + 1]  BY DEF AppendEvent
  <2>2. events[t][to] + 1 = 1  BY <1>1
  <2>3. QED BY <2>1, <2>2
<1>4. UNCHANGED <<Holder, Lapsed, Outcome, Needs>>
  BY DEF AppendEvent, Holder, Lapsed, Outcome, Needs, Expired
<1>5. Lifecycle!Announce(t)
  BY <1>1, <1>2, <1>3, <1>4
     DEF Lifecycle!Announce, Lifecycle!Outcomes, Terminal
<1>6. QED BY <1>1, <1>5 DEF Lifecycle!Next

LEMMA TickImplements ==
  ASSUME IInv, Tick
  PROVE  Lifecycle!Next
<1> DEFINE over == Lapsed'
<1>1. UNCHANGED <<Holder, Outcome, Needs, events>>
  BY DEF Tick, Holder, Outcome, Needs
<1>2. task' = task /\ clock' = clock + 1 /\ clock \in Nat
      /\ task \in [Task -> TaskRecord]
  BY DEF Tick, IInv, TypeOK
<1>3. ASSUME NEW t \in Task, Expired(task[t].claim)
      PROVE  Expired(task[t].claim)'
  <2>1. task[t].claim.until \in Nat  BY <1>2 DEF TaskRecord, Claim
  <2>2. QED BY <1>2, <1>3, <2>1 DEF Expired
<1>4. Lapsed' = Lapsed \cup over  BY <1>2, <1>3 DEF Lapsed
<1>5. over \in SUBSET Task /\ \A t \in over : Holder[t] # 0
  BY <1>2 DEF Lapsed, Expired, Holder
<1>6. Lifecycle!Lapse(over)  BY <1>1, <1>4, <1>5 DEF Lifecycle!Lapse
<1>7. QED BY <1>5, <1>6 DEF Lifecycle!Next

LEMMA StepImplements ==
  ASSUME IInv, IInv', [Next]_vars
  PROVE  [Lifecycle!Next]_<<Holder, Lapsed, Outcome, Needs, events>>
<1>1. ASSUME UNCHANGED <<task, clock, events>>
      PROVE  UNCHANGED <<Holder, Lapsed, Outcome, Needs, events>>
  BY <1>1 DEF Holder, Lapsed, Outcome, Needs, Expired
<1>2. CASE UNCHANGED vars  BY <1>1, <1>2 DEF vars
<1>3. CASE Tick  BY <1>3, TickImplements
<1>4. ASSUME NEW p \in Proc, StartOperation(p) \/ Crash(p)
      PROVE  UNCHANGED <<task, clock, events>>
  BY <1>4 DEF StartOperation, StartClaim, StartTransition, StartRelease,
              StartReclaim, StartUpdate, Begin, Crash
<1>5. ASSUME NEW p \in Proc, Advance(p), ~Write(p), ~AppendEvent(p)
      PROVE  UNCHANGED <<task, clock, events>>
  BY <1>5 DEF Advance, Acquire, LockTimeout, BreakStaleLock, Unlock,
              AcceptClaim, AcceptTransition, AcceptRelease, AcceptReclaim,
              AcceptUpdate, Accept, Reject, ReadSnapshot, WriteSnapshot
<1>6. ASSUME NEW p \in Proc, Write(p) \/ AppendEvent(p)
      PROVE  [Lifecycle!Next]_<<Holder, Lapsed, Outcome, Needs, events>>
  BY <1>6, WriteImplements, AppendEventImplements
<1>7. QED BY <1>1, <1>2, <1>3, <1>4, <1>5, <1>6 DEF Next

\* Whatever operations interleave and whoever crashes, others see of a task
\* what TaskLifecycle promises.
THEOREM LivesAsPromised == Spec => ImplementsLifecycle
<1>1. Init => Lifecycle!Init
  <2> SUFFICES ASSUME Init PROVE Lifecycle!Init
    OBVIOUS
  <2>1. \A t \in Task : /\ task[t].status = "pending"
                        /\ task[t].claim = NoClaim
                        /\ task[t].deps = InitDeps[t]
    BY DEF Init, NewTask
  <2>2. Holder = [t \in Task |-> 0]  BY <2>1 DEF Holder, NoClaim
  <2>3. Lapsed = {}  BY <2>1 DEF Lapsed, Expired, NoClaim
  <2>4. Outcome = [t \in Task |-> "none"]  BY <2>1 DEF Outcome, Terminal
  <2>5. Needs = InitDeps  BY <2>1 DEF Needs
  <2>6. QED
    BY <2>2, <2>3, <2>4, <2>5
       DEF Init, Lifecycle!Init, Lifecycle!Outcomes, Terminal
<1>2. IInv /\ IInv' /\ [Next]_vars => [Lifecycle!Next]_(Lifecycle!vars)
  BY StepImplements DEF Lifecycle!vars
<1>3. QED
  BY <1>1, <1>2, Invariance, PTL DEF Spec, ImplementsLifecycle, Lifecycle!Spec

-----------------------------------------------------------------------------
(* The lock of a task is a directory.  Theorems about DirLock, for any     *)
(* ages and deadlines: under Prompt the directory excludes the processes   *)
(* above from each other, and implements the lock that UsesClaimLocks says *)
(* they use, through crashes and up to the rm of a directory that another  *)
(* process has taken since it was found stale.                             *)

USE DirLockAssumption

LEMMA DirInitTypeOK ==
  DirInit => DirTypeOK
<1> SUFFICES ASSUME DirInit PROVE DirTypeOK
  OBVIOUS
<1>1. robbed \in BOOLEAN  BY DEF DirInit
<1>2. dir \in Directory  BY DEF DirInit, NoDir, Directory
<1>3. /\ at \in [Proc -> DirStep] /\ waited \in [Proc -> 0..Patience + 1]
      /\ deaths \in Nat
  BY DEF DirInit, DirStep
<1>4. QED BY <1>1, <1>2, <1>3 DEF DirTypeOK

LEMMA DirGotoKeepsTypes ==
  ASSUME DirTypeOK, NEW p \in Proc, NEW from, NEW to \in DirStep,
         Goto(p, from, to)
  PROVE  /\ at' \in [Proc -> DirStep] /\ deaths' \in Nat /\ robbed' \in BOOLEAN
         /\ at'[p] = to /\ at[p] = from
         /\ \A q \in Proc \ {p} : at'[q] = at[q]
BY DEF Goto, DirTypeOK

LEMMA DirNextKeepsTypes ==
  ASSUME DirTypeOK, [DirNext]_dirVars
  PROVE  DirTypeOK'
<1> USE DEF Waiting, Holding, DirStep
<1>d. NoDir \in Directory /\ NewDir \in Directory
  BY DEF NoDir, NewDir, Directory
<1>1. CASE UNCHANGED dirVars  BY <1>1 DEF dirVars, DirTypeOK
<1>2. CASE DirTick
  <2>1. dir' \in Directory  BY <1>2 DEF DirTick, DirTypeOK, Directory
  <2>2. waited' \in [Proc -> 0..Patience + 1]
    BY <1>2 DEF DirTick, DirTypeOK, Patient
  <2>3. QED BY <1>2, <2>1, <2>2 DEF DirTick, DirTypeOK
<1>3. ASSUME NEW p \in Proc, Start(p) PROVE DirTypeOK'
  BY <1>3, DirGotoKeepsTypes DEF Start, DirTypeOK
<1>4. ASSUME NEW p \in Proc, Die(p) PROVE DirTypeOK'
  BY <1>4 DEF Die, DirTypeOK
<1>5. ASSUME NEW p \in Proc, Mkdir(p) \/ Abandon(p) \/ Release(p)
      PROVE DirTypeOK'
  BY <1>5, <1>d, DirGotoKeepsTypes DEF Mkdir, Abandon, Release, DirTypeOK
<1>6. ASSUME NEW p \in Proc,
             \/ MkdirFails(p) \/ FindStale(p) \/ Retry(p)
             \/ TimeOut(p)
             \/ WriteOwnerFails(p) \/ Leave(p) \/ FindOwn(p)
             \/ FindLost(p)
      PROVE DirTypeOK'
  BY <1>6, DirGotoKeepsTypes
     DEF MkdirFails, FindStale, Retry, TimeOut, WriteOwnerFails,
         Leave, FindOwn, FindLost, DirTypeOK
<1>7. ASSUME NEW p \in Proc, WriteOwner(p) PROVE DirTypeOK'
  <2>1. dir' \in Directory  BY <1>7 DEF WriteOwner, DirTypeOK, Directory
  <2>2. QED BY <1>7, <2>1, DirGotoKeepsTypes DEF WriteOwner, DirTypeOK
<1>8. ASSUME NEW p \in Proc, RemoveStale(p) PROVE DirTypeOK'
  BY <1>8, <1>d DEF RemoveStale, DirTypeOK
<1>9. QED
  BY <1>1, <1>2, <1>3, <1>4, <1>5, <1>6, <1>7, <1>8 DEF DirNext, DirAdvance

\* Every reachable state is well typed, under any scheduling.
THEOREM DirTypeCorrect ==
  DirSpec => []DirTypeOK
<1>1. DirTypeOK /\ [DirNext]_dirVars => DirTypeOK'  BY DirNextKeepsTypes
<1>2. QED BY <1>1, DirInitTypeOK, PTL DEF DirSpec

-----------------------------------------------------------------------------
\* Unless robbed, a live holder is alone, and its directory is there, young and,
\* once written, its own.
Young ==
  \A p \in Proc : at[p] \in Holding =>
    /\ dir.there /\ dir.age <= Stale
    /\ at[p] # "owner" => dir.owner = p

NoneLost == \A p \in Proc : at[p] # "abandon"

Kept == MutualExclusion /\ Young /\ NoneLost

\* Until somebody crashes a directory has its holder, so that it never gets
\* stale and no waiter is on its way to remove it.
Attended ==
  /\ dir.there => \E p \in Proc : at[p] \in Holding
  /\ \A p \in Proc : at[p] # "rm"

DirInv ==
  /\ DirTypeOK
  /\ ~robbed => Kept
  /\ deaths = 0 => ~robbed /\ Attended

LEMMA InitDirInv ==
  DirInit => DirInv
BY DirInitTypeOK
   DEF DirInit, DirInv, Kept, MutualExclusion, Young, Attended, NoneLost,
       Holding, NoDir

\* Nobody forgets a robbery or a death.
LEMMA HistoryKept ==
  ASSUME DirTypeOK, [DirNext]_dirVars
  PROVE  /\ robbed => robbed'
         /\ deaths' = 0 => deaths = 0
BY DEF DirTypeOK, DirNext, DirAdvance, Goto, DirTick, Start, Die, Mkdir,
       MkdirFails, FindStale, RemoveStale, Retry, TimeOut, WriteOwner,
       WriteOwnerFails, Abandon, Leave, FindOwn, FindLost, Release, dirVars

\* A holder whose directory is there and its own carries on.
LEMMA HolderGoesOn ==
  ASSUME DirTypeOK, Kept, NEW p \in Proc,
         WriteOwner(p) \/ Leave(p) \/ FindOwn(p)
  PROVE  Kept' /\ (Attended => Attended')
<1> USE DEF Holding
<1>1. /\ at[p] \in Holding /\ at'[p] \in Holding \ {"owner"}
      /\ \A q \in Proc \ {p} : at'[q] = at[q]
  BY DEF WriteOwner, Leave, FindOwn, Goto, DirTypeOK
<1>2. \A q \in Proc \ {p} : at[q] \notin Holding
  BY <1>1 DEF Kept, MutualExclusion
<1>3. dir'.there /\ dir'.age <= Stale /\ dir'.owner = p
  BY <1>1
     DEF WriteOwner, Leave, FindOwn, Goto, Kept, Young, DirTypeOK, Directory
<1>4. QED
  BY <1>1, <1>2, <1>3 DEF Kept, MutualExclusion, Young, NoneLost, Attended

\* Whatever removes a directory that is not a robbery takes none from a holder.
LEMMA NextKeepsKept ==
  ASSUME Prompt, DirTypeOK, Kept, ~robbed', [DirNext]_dirVars
  PROVE  Kept'
<1> USE DEF Holding
<1>1. CASE UNCHANGED dirVars
  BY <1>1 DEF dirVars, Kept, MutualExclusion, Young, NoneLost
<1>2. CASE DirTick
  <2>1. Young'
    BY <1>2 DEF DirTick, Kept, Young, DirTypeOK, Directory
  <2>2. QED
    BY <1>2, <2>1 DEF DirTick, Kept, MutualExclusion, NoneLost
<1>3. ASSUME NEW p \in Proc, Die(p) PROVE Kept'
  <2>1. at'[p] = "idle" /\ \A q \in Proc \ {p} : at'[q] = at[q]
    BY <1>3 DEF Die, DirTypeOK
  <2>2. QED
    BY <1>3, <2>1 DEF Die, Kept, MutualExclusion, Young, NoneLost
<1>4. ASSUME NEW p \in Proc,
             \/ Start(p) \/ MkdirFails(p) \/ FindStale(p) \/ Retry(p)
             \/ TimeOut(p) \/ FindLost(p)
      PROVE  Kept'
  <2>1. /\ at'[p] \in {"idle", "mkdir", "stat", "rm"}
        /\ \A q \in Proc \ {p} : at'[q] = at[q]
    BY <1>4
       DEF Start, MkdirFails, FindStale, Retry, TimeOut, FindLost, Goto,
           DirTypeOK
  <2>2. dir' = dir
    BY <1>4 DEF Start, MkdirFails, FindStale, Retry, TimeOut, FindLost
  <2>3. QED
    BY <2>1, <2>2 DEF Kept, MutualExclusion, Young, NoneLost
<1>5. ASSUME NEW p \in Proc, Mkdir(p) PROVE Kept'
  <2>1. /\ at'[p] = "owner" /\ \A q \in Proc \ {p} : at'[q] = at[q]
        /\ ~dir.there /\ dir' = NewDir
    BY <1>5 DEF Mkdir, Goto, DirTypeOK
  <2>2. \A q \in Proc : at[q] \notin Holding
    BY <2>1 DEF Kept, Young
  <2>3. QED
    BY <2>1, <2>2 DEF Kept, MutualExclusion, Young, NoneLost, NewDir
<1>6. ASSUME NEW p \in Proc, RemoveStale(p) PROVE Kept'
  <2>1. /\ at'[p] = "mkdir" /\ \A q \in Proc \ {p} : at'[q] = at[q]
        /\ ~(dir.there /\ dir.age <= Stale)
    BY <1>6 DEF RemoveStale, DirTypeOK
  <2>2. \A q \in Proc : at'[q] \notin Holding
    BY <2>1 DEF Kept, Young
  <2>3. QED
    BY <2>1, <2>2 DEF Kept, MutualExclusion, Young, NoneLost
<1>7. ASSUME NEW p \in Proc, WriteOwner(p) \/ Leave(p) \/ FindOwn(p)
      PROVE  Kept'
  BY <1>7, HolderGoesOn
<1>8. ASSUME NEW p \in Proc, WriteOwnerFails(p) \/ Abandon(p) PROVE FALSE
  BY <1>8 DEF WriteOwnerFails, Abandon, Goto, Kept, Young, NoneLost
<1>9. ASSUME NEW p \in Proc, Release(p) PROVE Kept'
  <2>1. /\ at[p] = "release" /\ at'[p] = "idle"
        /\ \A q \in Proc \ {p} : at'[q] = at[q]
    BY <1>9 DEF Release, Goto, DirTypeOK
  <2>2. \A q \in Proc : at'[q] \notin Holding
    BY <2>1 DEF Kept, MutualExclusion
  <2>3. QED
    BY <2>1, <2>2 DEF Kept, MutualExclusion, Young, NoneLost
<1>10. QED
  BY <1>1, <1>2, <1>3, <1>4, <1>5, <1>6, <1>7, <1>8, <1>9
     DEF DirNext, DirAdvance

\* Without a crash nobody gets as far as the rm.
LEMMA NextKeepsAttended ==
  ASSUME Prompt, DirTypeOK, Kept, Attended, ~robbed, deaths = 0, deaths' = 0,
         [DirNext]_dirVars
  PROVE  ~robbed' /\ Attended'
<1> USE DEF Holding
<1>1. CASE UNCHANGED dirVars
  BY <1>1 DEF dirVars, Attended
<1>2. CASE DirTick
  BY <1>2 DEF DirTick, Attended, DirTypeOK, Directory
<1>3. ASSUME NEW p \in Proc, Die(p) PROVE FALSE
  BY <1>3 DEF Die
<1>4. ASSUME NEW p \in Proc,
             Start(p) \/ MkdirFails(p) \/ Retry(p) \/ TimeOut(p)
      PROVE  ~robbed' /\ Attended'
  <2>1. /\ at[p] \notin Holding /\ at'[p] \in {"idle", "mkdir", "stat"}
        /\ \A q \in Proc \ {p} : at'[q] = at[q]
    BY <1>4 DEF Start, MkdirFails, Retry, TimeOut, Goto, DirTypeOK
  <2>2. dir' = dir /\ robbed' = robbed
    BY <1>4 DEF Start, MkdirFails, Retry, TimeOut, Goto
  <2>3. QED
    BY <2>1, <2>2 DEF Attended
<1>5. ASSUME NEW p \in Proc, Mkdir(p) PROVE ~robbed' /\ Attended'
  BY <1>5 DEF Mkdir, Goto, Attended, DirTypeOK
<1>6. ASSUME NEW p \in Proc,
             \/ FindStale(p) \/ RemoveStale(p) \/ WriteOwnerFails(p)
             \/ Abandon(p) \/ FindLost(p)
      PROVE  FALSE
  <2>1. dir.there => dir.age <= Stale
    BY DEF Attended, Kept, Young
  <2>2. QED
    BY <1>6, <2>1
       DEF FindStale, RemoveStale, WriteOwnerFails, Abandon, FindLost, Goto,
           Kept, Attended, Young, NoneLost, DirTypeOK, Directory
<1>7. ASSUME NEW p \in Proc, WriteOwner(p) \/ Leave(p) \/ FindOwn(p)
      PROVE  ~robbed' /\ Attended'
  <2>1. robbed' = robbed  BY <1>7 DEF WriteOwner, Leave, FindOwn, Goto
  <2>2. QED BY <1>7, <2>1, HolderGoesOn
<1>8. ASSUME NEW p \in Proc, Release(p) PROVE ~robbed' /\ Attended'
  <2>1. /\ at'[p] = "idle" /\ \A q \in Proc \ {p} : at'[q] = at[q]
        /\ dir' = NoDir /\ robbed' = robbed
    BY <1>8 DEF Release, Goto, DirTypeOK
  <2>2. QED BY <2>1 DEF Attended, NoDir
<1>9. QED
  BY <1>1, <1>2, <1>3, <1>4, <1>5, <1>6, <1>7, <1>8 DEF DirNext, DirAdvance

LEMMA NextKeepsDirInv ==
  ASSUME Prompt, DirInv, [DirNext]_dirVars
  PROVE  DirInv'
<1>1. DirTypeOK /\ DirTypeOK'  BY DirNextKeepsTypes DEF DirInv
<1>2. ~robbed' => Kept'
  BY <1>1, HistoryKept, NextKeepsKept DEF DirInv
<1>3. deaths' = 0 => ~robbed' /\ Attended'
  BY <1>1, HistoryKept, NextKeepsAttended DEF DirInv
<1>4. QED BY <1>1, <1>2, <1>3 DEF DirInv

\* However waiters interleave and whoever crashes: a lock is only ever taken from
\* a prompt holder by the rm of a waiter that had found another directory, an
\* orphan's, stale.
THEOREM DirExcludes ==
  ASSUME Prompt
  PROVE  DirSpec => []ExclusiveUnlessRobbed
<1>1. DirInv /\ [DirNext]_dirVars => DirInv'  BY NextKeepsDirInv
<1>2. DirInv => ExclusiveUnlessRobbed
  BY DEF DirInv, Kept, ExclusiveUnlessRobbed
<1>3. QED BY <1>1, <1>2, InitDirInv, PTL DEF DirSpec

-----------------------------------------------------------------------------
(* Refinement.                                                             *)

\* What the refinement mapping amounts to when there is one holder at most.
LockIs ==
  /\ ~dir.there => Lock = Free
  /\ \A p \in Proc : at[p] \in Holding => Lock = p
  /\ (dir.there /\ \A p \in Proc : at[p] \notin Holding) => Lock = Orphan

LEMMA LockMapped == Kept => LockIs
<1> SUFFICES ASSUME Kept PROVE LockIs
  OBVIOUS
<1>1. ASSUME NEW p \in Proc, at[p] \in Holding PROVE Lock = p
  <2>1. dir.there  BY <1>1 DEF Kept, Young
  <2>2. \A q \in Proc : at[q] \in Holding => q = p
    BY <1>1 DEF Kept, MutualExclusion
  <2>3. QED BY <1>1, <2>1, <2>2 DEF Lock
<1>2. QED BY <1>1 DEF Lock, LockIs

LEMMA LockMappedNext == Kept' => LockIs'
BY LockMapped, PTL

\* Steps that create and remove no directory and keep its holder.
LEMMA LockKept ==
  ASSUME DirTypeOK, Kept, Kept', dir'.there = dir.there,
         \A q \in Proc : at'[q] \in Holding <=> at[q] \in Holding
  PROVE  Lock' = Lock
<1>1. CASE \E q \in Proc : at[q] \in Holding
  <2>1. PICK q \in Proc : at[q] \in Holding  BY <1>1
  <2>2. Lock = q /\ Lock' = q  BY <2>1, LockMapped, LockMappedNext
    DEF LockIs
  <2>3. QED BY <2>2
<1>2. CASE ~\E q \in Proc : at[q] \in Holding
  BY <1>2, LockMapped, LockMappedNext DEF LockIs, DirTypeOK, Directory
<1>3. QED BY <1>1, <1>2

LEMMA DirStepImplements ==
  ASSUME Prompt, DirTypeOK, Kept, ~robbed', [DirNext]_dirVars
  PROVE  [Abstract!Next]_Lock
<1>t. Kept'  BY NextKeepsKept
<1>1. CASE UNCHANGED dirVars  BY <1>1, <1>t, LockKept DEF dirVars
<1>2. CASE DirTick
  <2>1. dir'.there = dir.there /\ at' = at
    BY <1>2, <1>t DEF DirTick, DirTypeOK, Directory
  <2>2. QED BY <1>t, <2>1, LockKept
<1>3. ASSUME NEW p \in Proc,
             \/ Start(p) \/ MkdirFails(p) \/ Retry(p) \/ TimeOut(p)
             \/ FindStale(p) \/ WriteOwner(p) \/ Leave(p)
             \/ FindOwn(p)
      PROVE  Lock' = Lock
  <2>1. /\ at'[p] \in Holding <=> at[p] \in Holding
        /\ \A q \in Proc \ {p} : at'[q] = at[q]
    BY <1>3, <1>t
       DEF Start, MkdirFails, Retry, TimeOut, FindStale,
           WriteOwner, Leave,
           FindOwn, Goto, DirTypeOK, Holding
  <2>2. dir'.there = dir.there
    <3>1. CASE WriteOwner(p)
      BY <3>1, <1>t DEF WriteOwner, DirTypeOK, Directory
    <3>2. CASE ~WriteOwner(p)
      BY <1>3, <3>2
         DEF Start, MkdirFails, Retry, TimeOut, FindStale, Leave,
             FindOwn
    <3>3. QED BY <3>1, <3>2
  <2>3. QED BY <1>t, <2>1, <2>2, LockKept
<1>4. ASSUME NEW p \in Proc, Mkdir(p) PROVE Abstract!Take(p)
  <2>1. at'[p] = "owner" /\ ~dir.there
    BY <1>4, <1>t DEF Mkdir, Goto, DirTypeOK
  <2>2. Lock = Free /\ Lock' = p
    BY <1>t, <2>1, LockMapped, LockMappedNext DEF LockIs, Holding
  <2>3. QED BY <2>2 DEF Abstract!Take
<1>5. ASSUME NEW p \in Proc, Release(p) PROVE Abstract!Give(p)
  <2>1. at[p] = "release" /\ ~dir'.there
    BY <1>5 DEF Release, Goto, NoDir
  <2>2. Lock = p /\ Lock' = Free
    BY <1>t, <2>1, LockMapped, LockMappedNext DEF LockIs, Holding
  <2>3. QED BY <2>2 DEF Abstract!Give
<1>6. ASSUME NEW p \in Proc, RemoveStale(p)
      PROVE  Abstract!Recover \/ Lock' = Lock
  <2>1. ~dir'.there /\ \A q \in Proc : at[q] \notin Holding
    BY <1>6 DEF RemoveStale, NoDir, Kept, Young
  <2>2. Lock \in {Free, Orphan} /\ Lock' = Free
    BY <1>t, <2>1, LockMapped, LockMappedNext DEF LockIs, DirTypeOK,
                                                  Directory
  <2>3. QED BY <2>2 DEF Abstract!Recover
<1>7. ASSUME NEW p \in Proc, Die(p)
      PROVE  Abstract!Die(p) \/ Lock' = Lock
  <2>1. /\ at'[p] = "idle" /\ dir' = dir
        /\ \A q \in Proc \ {p} : at'[q] = at[q]
    BY <1>7, <1>t DEF Die, DirTypeOK
  <2>2. CASE at[p] \in Holding
    <3>1. dir.there  BY <2>2 DEF Kept, Young
    <3>2. \A q \in Proc : at'[q] \notin Holding
      BY <2>1, <2>2 DEF Kept, MutualExclusion, Holding
    <3>3. Lock = p /\ Lock' = Orphan
      BY <1>t, <2>1, <2>2, <3>1, <3>2, LockMapped, LockMappedNext DEF LockIs
    <3>4. QED BY <3>3 DEF Abstract!Die
  <2>3. CASE at[p] \notin Holding
    BY <1>t, <2>1, <2>3, LockKept DEF Holding
  <2>4. QED BY <2>2, <2>3
<1>8. ASSUME NEW p \in Proc, WriteOwnerFails(p) \/ Abandon(p)
             \/ FindLost(p)
      PROVE  FALSE
  BY <1>8
     DEF WriteOwnerFails, Abandon, FindLost, Goto, Kept, Young,
         NoneLost, Holding
<1>9. QED
  BY <1>1, <1>2, <1>3, <1>4, <1>5, <1>6, <1>7, <1>8
     DEF DirNext, DirAdvance, Abstract!Next

\* The directory is the lock TeamTasks works with, crashes and their recovery
\* included, up to the rm of a directory that was taken meanwhile.
THEOREM DirRefines ==
  ASSUME Prompt
  PROVE  DirSpec => ImplementsUnlessRobbed
<1>1. DirInv /\ [DirNext]_dirVars => DirInv'  BY NextKeepsDirInv
<1>2. DirInv /\ [DirNext]_dirVars => robbed' \/ [Abstract!Next]_Lock
  BY HistoryKept, DirStepImplements DEF DirInv
<1>3. DirInit => Abstract!Init
  BY DEF DirInit, Abstract!Init, Lock, NoDir
<1>4. QED
  BY <1>1, <1>2, <1>3, InitDirInv, PTL DEF DirSpec, ImplementsUnlessRobbed
=============================================================================
