---------------------------- MODULE TeamDispatch ----------------------------
(***************************************************************************)
(* The dispatch queue of one team: requests to type an instruction into a  *)
(* worker's pane (src/team/state/dispatch.ts).                             *)
(*                                                                         *)
(* A request is known in two places: the event log of the runtime engine,  *)
(* and dispatch.json, which every reader uses.  An engine command rewrites *)
(* dispatch.json from the log, without the dispatch lock; the TypeScript   *)
(* code rewrites it under the lock from the copy it read when it took the  *)
(* lock.  Engine commands are taken one at a time, as EventLog promises;   *)
(* what overlapping ones do is in RuntimeEngine.                           *)
(*                                                                         *)
(* All the teams of a state directory share the log and dispatch.json, but *)
(* each has a dispatch lock of its own: a writer of another team reads the *)
(* file, replaces the records of its team and writes the rest back as it   *)
(* read them.  Here that is TheirRead and TheirWrite; what this team's     *)
(* writers do to the records of the others is the same seen from there.    *)
(*                                                                         *)
(* The leader enqueues a request, waits for a drain of the notify hook to  *)
(* type it, and after a while types it itself (runtime.ts,                 *)
(* dispatchCriticalInboxInstruction):                                      *)
(*   Enqueue -> Queue -> [QueueLocally] -> Receive -> Fallback             *)
(*           -> MarkNotified -> Notify | Decide -> Record -> WriteRecord   *)
(* Drains run in the hook of every turn and in the fallback watcher        *)
(* (scripts/notify-hook/team-dispatch.ts):                                 *)
(*   BeginDrain -> Claim -> (Inject -> Verify -> Reread -> Finalize        *)
(*           -> WriteFinal) for each claimed request                       *)
(***************************************************************************)
EXTENDS RuntimeEvents, Naturals, FiniteSets

CONSTANTS
  Hook,            \* processes that drain the queue
  Nobody,
  Team,            \* the other teams of the state directory
  MaxUnconfirmed,  \* MAX_UNCONFIRMED_ATTEMPTS
  MaxFaults,       \* bound: engine commands that are reported failed
  MaxKills,        \* bound: processes killed
  MaxSlow,         \* bound: leases and lock waits that outlast their timeout
  MaxOther         \* bound: writes of others, engine commands or teams

ASSUME ConstantAssumption ==
  /\ Nobody \notin Hook \cup Request
  /\ Hook \cap Request = {}
  /\ MaxUnconfirmed \in Nat \ {0}
  /\ {MaxFaults, MaxKills, MaxSlow, MaxOther} \subseteq Nat

VARIABLES
  log,      \* dispatch events in the engine's log
  view,     \* dispatch.json: request -> its record
  lock,     \* who holds the dispatch lock: a hook, or the leader for a request
  copy,     \* the records its holder read when it took the lock
  lease,    \* request -> the drain that holds .processing-<id>, or Nobody
  team,     \* another team -> where its writer stands, and what it read
  leader,   \* request -> where the leader's call for it stands
  hook,     \* drain -> where it stands
  typed,    \* history: request -> how often it was typed
  why,      \* history: request -> what may have had it typed again
  faults, kills, slow, others

vars == <<log, view, lock, copy, lease, team, leader, hook, typed, why,
          faults, kills, slow, others>>

-----------------------------------------------------------------------------
Status == {"none", "pending", "notified", "delivered", "failed"}

Record == [status : Status, attempts : Nat]

Absent == [status |-> "none", attempts |-> 0]

\* Mutant: only what was notified can fail.
CanTransitionNotified(from, to) ==
  \/ from = to
  \/ from = "pending" /\ to = "notified"
  \/ from = "notified" /\ to \in {"delivered", "failed"}

CanTransition(from, to) ==
  \/ from = to
  \/ from = "pending" /\ to \in {"notified", "failed"}
  \/ from = "notified" /\ to \in {"delivered", "failed"}

\* Why a request may be typed again.
\*   retried:    a drain typed it and saw it still in the input line
\*   fallback:   the leader typed it itself
\*   stolen:     a drain took over the lease of a slow one
\*   unrecorded: a drain or the leader ended before it recorded the outcome
\*   reverted:   dispatch.json lost what it said of it
\*   recounted:  dispatch.json lost the number of attempts
\*   overwritten: another team wrote back an older record of it
Cause == {"retried", "fallback", "stolen", "unrecorded", "reverted",
          "recounted", "overwritten"}

LeaderSteps == {"idle", "queueing", "unqueued", "waiting", "fallback",
               "marking", "notifying", "deciding", "recording", "writing",
               "done"}

\* seen: the status read last; to: the status to be recorded
Call == [step : LeaderSteps, seen : Status, to : {"notified", "failed"},
         outcome : {"none", "ok", "failed"}]

HookSteps == {"idle", "reading", "claimed", "typing", "typed", "finalizing",
             "writing"}

\* again: claimed requests that had been attempted before
Drain == [step : HookSteps, claims : SUBSET Request, again : SUBSET Request,
          req : Request \cup {Nobody},
          result : {"none", "failed", "unconfirmed", "confirmed"}]

\* A writer of another team, and the records of this one that it read.
Writer == [step : {"idle", "writing"}, copy : [Request -> Record]]

NoCall == [step |-> "idle", seen |-> "none", to |-> "failed",
           outcome |-> "none"]

NoDrain == [step |-> "idle", claims |-> {}, again |-> {}, req |-> Nobody,
            result |-> "none"]

Empty == [r \in Request |-> Absent]

NoWriter == [step |-> "idle", copy |-> Empty]

TypeOK ==
  /\ log \subseteq DispatchEvent
  /\ view \in [Request -> Record]
  /\ lock \in Hook \cup Request \cup {Nobody}
  /\ copy \in [Request -> Record]
  /\ lease \in [Request -> Hook \cup {Nobody}]
  /\ team \in [Team -> Writer]
  /\ leader \in [Request -> Call]
  /\ hook \in [Hook -> Drain]
  /\ typed \in [Request -> Nat]
  /\ why \in [Request -> SUBSET Cause]
  /\ faults \in 0..MaxFaults
  /\ kills \in 0..MaxKills
  /\ slow \in 0..MaxSlow
  /\ others \in 0..MaxOther

Init ==
  /\ log = {}
  /\ view = Empty
  /\ lock = Nobody
  /\ copy = Empty
  /\ lease = [r \in Request |-> Nobody]
  /\ team = [t \in Team |-> NoWriter]
  /\ leader = [r \in Request |-> NoCall]
  /\ hook = [h \in Hook |-> NoDrain]
  /\ typed = [r \in Request |-> 0]
  /\ why = [r \in Request |-> {}]
  /\ faults = 0
  /\ kills = 0
  /\ slow = 0
  /\ others = 0

-----------------------------------------------------------------------------
(* dispatch.json and the engine.                                           *)

\* Mutant: a queued request is shown under the engine's name for it.
LogStatusRaw(L, r) ==
  IF <<"queued", r>> \notin L THEN "none"
  ELSE IF <<"failed", r>> \in L THEN "failed"
  ELSE IF <<"delivered", r>> \in L THEN "delivered"
  ELSE IF <<"notified", r>> \in L THEN "notified"
  ELSE "queued"

\* The view of a log.  attempt_count is not in the log.
LogStatus(L, r) ==
  IF <<"queued", r>> \notin L THEN "none"
  ELSE IF <<"failed", r>> \in L THEN "failed"
  ELSE IF <<"delivered", r>> \in L THEN "delivered"
  ELSE IF <<"notified", r>> \in L THEN "notified"
  ELSE "pending"

Shown(L) ==
  [r \in Request |-> [status |-> LogStatus(L, r), attempts |-> 0]]

Rank(status) == CASE status = "none" -> 0
                  [] status = "pending" -> 1
                  [] OTHER -> 2

\* A request is gone, or pending again; attempts are no longer counted.
Lost(r) ==
  {c \in {"reverted"} : Rank(view'[r].status) < Rank(view[r].status)}
    \cup {c \in {"recounted"} : view'[r].attempts < view[r].attempts}

\* What is noted in the history by an action that changes the view and adds a
\* cause for the requests R, and by one that leaves the view alone.
Noting(R, cause) ==
  why' = [r \in Request |->
            why[r] \cup (IF r \in R THEN {cause} ELSE {}) \cup Lost(r)]

NotingLost == Noting({}, "reverted")

NotingOnly(R, cause) ==
  why' = [r \in Request |-> why[r] \cup (IF r \in R THEN {cause} ELSE {})]

\* An engine command that its caller takes for carried out (ok) or for failed:
\* refused, not started, or killed before it persisted, after that, or after
\* it wrote the view.
Exec(e, ok) ==
  \/ /\ ok
     /\ AcceptsDispatch(log, e)
     /\ log' = log \cup {e}
     /\ view' = Shown(log \cup {e})
     /\ UNCHANGED faults
  \/ /\ ~ok
     /\ ~AcceptsDispatch(log, e)
     /\ UNCHANGED <<log, view, faults>>
  \/ /\ ~ok
     /\ faults < MaxFaults
     /\ faults' = faults + 1
     /\ \/ UNCHANGED <<log, view>>
        \/ /\ AcceptsDispatch(log, e)
           /\ log' = log \cup {e}
           /\ view' \in {view, Shown(log \cup {e})}

Acquire(who) ==
  /\ lock = Nobody
  /\ lock' = who
  /\ copy' = view

Release ==
  /\ lock' = Nobody
  /\ copy' = Empty

\* The holder writes all the team's records back, one of them changed.
WriteBack(r, record) == view' = [copy EXCEPT ![r] = record]

-----------------------------------------------------------------------------
(* The leader.                                                             *)

LeaderAt(r, step) == leader[r].step = step

Proceed(r, step, seen, to, outcome) ==
  leader' = [leader EXCEPT ![r] = [step |-> step, seen |-> seen, to |-> to,
                                   outcome |-> outcome]]

\* enqueueDispatchRequest takes the dispatch lock and reads the requests.
Enqueue(r) ==
  /\ LeaderAt(r, "idle")
  /\ Acquire(r)
  /\ Proceed(r, "queueing", "none", "failed", "none")
  /\ UNCHANGED <<log, view, lease, team, hook, typed, why, faults, kills, slow,
                 others>>

Queue(r) ==
  /\ LeaderAt(r, "queueing")
  /\ \E ok \in BOOLEAN :
       /\ Exec(<<"queued", r>>, ok)
       /\ IF ok THEN /\ Release
                     /\ Proceed(r, "waiting", "none", "failed", "none")
          ELSE /\ UNCHANGED <<lock, copy>>
               /\ Proceed(r, "unqueued", "none", "failed", "none")
  /\ NotingLost
  /\ UNCHANGED <<lease, team, hook, typed, kills, slow, others>>

\* Without the engine the request is added to dispatch.json alone.
QueueLocally(r) ==
  /\ LeaderAt(r, "unqueued")
  /\ WriteBack(r, [status |-> "pending", attempts |-> 0])
  /\ Release
  /\ Proceed(r, "waiting", "none", "failed", "none")
  /\ NotingLost
  /\ UNCHANGED <<log, lease, team, hook, typed, faults, kills, slow, others>>

\* waitForDispatchReceipt.  A notified request may lack evidence that the
\* worker started; a pending one is given up after a while.
Receive(r) ==
  /\ LeaderAt(r, "waiting")
  /\ LET status == view[r].status IN
     \/ /\ status \in {"notified", "delivered"}
        /\ Proceed(r, "done", status, "failed", "ok")
     \/ /\ status # "delivered"
        /\ Proceed(r, "fallback", status, "failed", "none")
  /\ UNCHANGED <<log, view, lock, copy, lease, team, hook, typed, why, faults,
                 kills, slow, others>>

\* The leader types the instruction itself.  Typing may fail half way; after
\* success the worker may still show no sign of having started.
Fallback(r) ==
  /\ LeaderAt(r, "fallback")
  /\ \E result \in {"confirmed", "unevidenced", "failed"} :
       LET outcome == IF result = "confirmed" THEN "ok" ELSE "failed" IN
       /\ \E sent \in IF result = "failed" THEN {0, 1} ELSE {1} :
            typed' = [typed EXCEPT ![r] = @ + sent]
       /\ IF leader[r].seen = "failed"
          THEN Proceed(r, IF result = "confirmed" THEN "deciding"
                          ELSE "recording", "failed", "failed", outcome)
          ELSE Proceed(r, IF result = "confirmed" THEN "marking"
                          ELSE "deciding", "none", "failed", outcome)
  /\ NotingOnly({r}, "fallback")
  /\ UNCHANGED <<log, view, lock, copy, lease, team, hook, faults, kills, slow,
                 others>>

\* markDispatchRequestNotified reads the request without the lock.
MarkNotified(r) ==
  /\ LeaderAt(r, "marking")
  /\ LET status == view[r].status IN
     CASE status \in {"notified", "delivered"} ->
            Proceed(r, "done", status, "failed", "ok")
       [] status \in {"none", "failed"} ->
            Proceed(r, "deciding", "none", "failed", "ok")
       [] status = "pending" ->
            Proceed(r, "notifying", status, "notified", "ok")
  /\ UNCHANGED <<log, view, lock, copy, lease, team, hook, typed, why, faults,
                 kills, slow, others>>

Notify(r) ==
  /\ LeaderAt(r, "notifying")
  /\ \E ok \in BOOLEAN :
       /\ Exec(<<"notified", r>>, ok)
       /\ Proceed(r, IF ok THEN "done" ELSE "recording", "pending",
                  "notified", "ok")
  /\ NotingLost
  /\ UNCHANGED <<lock, copy, lease, team, hook, typed, kills, slow, others>>

\* The status is read again, to be turned to "failed".
Decide(r) ==
  /\ LeaderAt(r, "deciding")
  /\ LET status == view[r].status IN
     Proceed(r, IF status = "none" THEN "done" ELSE "recording", status,
             "failed", leader[r].outcome)
  /\ UNCHANGED <<log, view, lock, copy, lease, team, hook, typed, why, faults,
                 kills, slow, others>>

Recordable(r) ==
  /\ view[r].status \in {leader[r].seen, leader[r].to} \ {"none"}
  /\ CanTransition(view[r].status, leader[r].to)

\* transitionDispatchRequest: under the lock, and without the engine.
RecordStatus(r) ==
  /\ LeaderAt(r, "recording")
  /\ LET call == leader[r] IN
     IF Recordable(r)
     THEN /\ Acquire(r)
          /\ Proceed(r, "writing", call.seen, call.to, call.outcome)
     ELSE /\ lock = Nobody
          /\ UNCHANGED <<lock, copy>>
          /\ Proceed(r, IF call.to = "notified" THEN "deciding" ELSE "done",
                     call.seen, "failed", call.outcome)
  /\ UNCHANGED <<log, view, lease, team, hook, typed, why, faults, kills, slow,
                 others>>

WriteRecord(r) ==
  /\ LeaderAt(r, "writing")
  /\ LET call == leader[r]
         old == copy[r] IN
     /\ WriteBack(r, [status |-> call.to,
                      attempts |-> IF old.status = call.to THEN old.attempts
                                   ELSE old.attempts + 1])
     /\ Proceed(r, "done", call.seen, call.to, call.outcome)
  /\ Release
  /\ NotingLost
  /\ UNCHANGED <<log, lease, team, hook, typed, faults, kills, slow, others>>

\* The lock is held for too long: an enqueue and the record of a notification
\* end the call, the record of a failure is skipped.
LeaderTimeout(r) ==
  /\ leader[r].step \in {"idle", "recording"}
  /\ lock # Nobody
  /\ slow < MaxSlow
  /\ slow' = slow + 1
  /\ Proceed(r, "done", leader[r].seen, leader[r].to,
             IF LeaderAt(r, "recording") /\ leader[r].to = "failed"
             THEN leader[r].outcome ELSE "failed")
  /\ NotingOnly(IF LeaderAt(r, "idle") THEN {} ELSE {r}, "unrecorded")
  /\ UNCHANGED <<log, view, lock, copy, lease, team, hook, typed, faults,
                 kills, others>>

-----------------------------------------------------------------------------
(* A drain.                                                                *)

HookAt(h, step) == hook[h].step = step

SetHook(h, step, claims, again, req, result) ==
  hook' = [hook EXCEPT ![h] = [step |-> step, claims |-> claims,
                               again |-> again, req |-> req,
                               result |-> result]]

BeginDrain(h) ==
  /\ HookAt(h, "idle")
  /\ \E r \in Request : view[r].status = "pending"
  /\ Acquire(h)
  /\ SetHook(h, "reading", {}, {}, Nobody, "none")
  /\ UNCHANGED <<log, view, lease, team, leader, typed, why, faults, kills,
                 slow, others>>

\* Cooldowns may have the drain skip any of the pending requests; one that
\* was claimed has all the requests written back.
SkipAll(h) ==
  /\ HookAt(h, "reading")
  /\ hook' = [hook EXCEPT ![h] = NoDrain]
  /\ Release
  /\ UNCHANGED <<log, view, lease, team, leader, typed, why, faults, kills,
                 slow, others>>

Claim(h) ==
  /\ HookAt(h, "reading")
  /\ \E claims \in (SUBSET {r \in Request : /\ copy[r].status = "pending"
                                            /\ lease[r] = Nobody}) \ {{}} :
       /\ lease' = [r \in Request |-> IF r \in claims THEN h ELSE lease[r]]
       /\ SetHook(h, "claimed", claims,
                  {r \in claims : copy[r].attempts > 0}, Nobody, "none")
  /\ view' = copy
  /\ Release
  /\ NotingLost
  /\ UNCHANGED <<log, team, leader, typed, faults, kills, slow, others>>

\* injectDispatchRequest types the instruction, if the pane lets it; one that
\* was attempted before may still be in the input line and is then submitted.
Inject(h) ==
  /\ HookAt(h, "claimed")
  /\ \E r \in hook[h].claims,
        result \in {"failed", "unconfirmed", "confirmed"} :
       /\ \E sent \in (IF result = "failed" \/ r \in hook[h].again THEN {0}
                       ELSE {}) \cup {1} :
            typed' = [typed EXCEPT ![r] = @ + sent]
       /\ SetHook(h, "typing", hook[h].claims, hook[h].again, r, result)
  /\ UNCHANGED <<log, view, lock, copy, lease, team, leader, why, faults,
                 kills, slow, others>>

\* When the pane has taken the instruction the drain marks it delivered,
\* before it is marked notified, and ignores what the engine says to that.
Verify(h) ==
  /\ HookAt(h, "typing")
  /\ IF hook[h].result = "confirmed"
     THEN \E ok \in BOOLEAN : Exec(<<"delivered", hook[h].req>>, ok)
     ELSE UNCHANGED <<log, view, faults>>
  /\ SetHook(h, "typed", hook[h].claims, hook[h].again, hook[h].req,
             hook[h].result)
  /\ NotingLost
  /\ UNCHANGED <<lock, copy, lease, team, leader, typed, kills, slow, others>>

\* The claim is over: its lease is released, unless another drain took it.
Finished(h) ==
  LET r == hook[h].req
      claims == hook[h].claims \ {r} IN
  /\ lease' = [lease EXCEPT ![r] = IF @ = h THEN Nobody ELSE @]
  /\ IF claims = {} THEN hook' = [hook EXCEPT ![h] = NoDrain]
     ELSE SetHook(h, "claimed", claims, hook[h].again, Nobody, "none")

\* Mutant: whatever became of the request meanwhile.
StillThere(h) == view[hook[h].req].status # "none"

StillPending(h) == view[hook[h].req].status = "pending"

\* finalizeClaimedDispatchRequest takes the lock and reads the requests again.
\* A request that is no longer pending is left alone.
Reread(h) ==
  /\ HookAt(h, "typed")
  /\ IF StillPending(h)
     THEN /\ Acquire(h)
          /\ SetHook(h, "finalizing", hook[h].claims, hook[h].again,
                     hook[h].req, hook[h].result)
          /\ UNCHANGED lease
     ELSE /\ lock = Nobody
          /\ UNCHANGED <<lock, copy>>
          /\ Finished(h)
  /\ UNCHANGED <<log, view, team, leader, typed, why, faults, kills, slow,
                 others>>

\* The drain gives up on the lock after 5 s: all its claims end.
LockTimeout(h) ==
  /\ HookAt(h, "typed")
  /\ lock # Nobody
  /\ slow < MaxSlow
  /\ slow' = slow + 1
  /\ lease' = [r \in Request |-> IF lease[r] = h THEN Nobody ELSE lease[r]]
  /\ hook' = [hook EXCEPT ![h] = NoDrain]
  /\ NotingOnly({hook[h].req}, "unrecorded")
  /\ UNCHANGED <<log, view, lock, copy, team, leader, typed, faults, kills,
                 others>>

\* Mutant: one attempt too many.
RetryingOnceMore(h) ==
  /\ hook[h].result = "unconfirmed"
  /\ copy[hook[h].req].attempts < MaxUnconfirmed

Retrying(h) ==
  /\ hook[h].result = "unconfirmed"
  /\ copy[hook[h].req].attempts + 1 < MaxUnconfirmed

\* Mutant: whatever came of the typing.
VerdictAlways(h) == "notified"

Verdict(h) == IF hook[h].result = "confirmed" THEN "notified" ELSE "failed"

\* The engine is told, and what it says is ignored.
Finalize(h) ==
  /\ HookAt(h, "finalizing")
  /\ IF Retrying(h) THEN UNCHANGED <<log, view, faults>>
     ELSE \E ok \in BOOLEAN : Exec(<<Verdict(h), hook[h].req>>, ok)
  /\ SetHook(h, "writing", hook[h].claims, hook[h].again, hook[h].req,
             hook[h].result)
  /\ NotingLost
  /\ UNCHANGED <<lock, copy, lease, team, leader, typed, kills, slow, others>>

\* The requests read before the engine was told are written back.
WriteFinal(h) ==
  /\ HookAt(h, "writing")
  /\ LET r == hook[h].req IN
     /\ WriteBack(r, [status |-> IF Retrying(h) THEN "pending" ELSE Verdict(h),
                      attempts |-> copy[r].attempts + 1])
     /\ Noting(IF Retrying(h) THEN {r} ELSE {}, "retried")
  /\ Release
  /\ Finished(h)
  /\ UNCHANGED <<log, team, leader, typed, faults, kills, slow, others>>

-----------------------------------------------------------------------------
(* The rest of the world.                                                  *)

\* Any other command of the engine, which is shared by all teams and by the
\* mailboxes, rewrites dispatch.json from the log.
Rewrite ==
  /\ view # Shown(log)
  /\ others < MaxOther
  /\ others' = others + 1
  /\ view' = Shown(log)
  /\ NotingLost
  /\ UNCHANGED <<log, lock, copy, lease, team, leader, hook, typed, faults,
                 kills, slow>>

\* A writer of another team, under that team's lock, reads dispatch.json ...
TheirRead(t) ==
  /\ team[t].step = "idle"
  /\ others < MaxOther
  /\ others' = others + 1
  /\ team' = [team EXCEPT ![t] = [step |-> "writing", copy |-> view]]
  /\ UNCHANGED <<log, view, lock, copy, lease, leader, hook, typed, why, faults,
                 kills, slow>>

\* ... and writes it with this team's records as it read them.
TheirWrite(t) ==
  /\ team[t].step = "writing"
  /\ team' = [team EXCEPT ![t] = NoWriter]
  /\ view' = team[t].copy
  /\ Noting({r \in Request : view'[r] # view[r]}, "overwritten")
  /\ UNCHANGED <<log, lock, copy, lease, leader, hook, typed, faults, kills,
                 slow, others>>

\* A lease is stale after 30 s; removing it and taking it is one step of the
\* next drain, of which only the removal shows here.  The drain that held it
\* may be alive: it holds the leases of all its claims while it types one.
\* Mutant: no lease is taken for abandoned.
DeadNever(h, r) == FALSE

Dead(h, r) == r \notin hook[h].claims

ExpireLease(r) ==
  /\ lease[r] # Nobody
  /\ lease' = [lease EXCEPT ![r] = Nobody]
  /\ IF Dead(lease[r], r) THEN UNCHANGED <<slow, why>>
     ELSE /\ slow < MaxSlow
          /\ slow' = slow + 1
          /\ NotingOnly({r}, "stolen")
  /\ UNCHANGED <<log, view, lock, copy, team, leader, hook, typed, faults,
                 kills, others>>

\* The lock of a killed process is broken after a while.
BreakLock ==
  /\ \/ lock \in Request /\ LeaderAt(lock, "done")
     \/ lock \in Hook /\ HookAt(lock, "idle")
  /\ Release
  /\ UNCHANGED <<log, view, lease, team, leader, hook, typed, why, faults,
                 kills, slow, others>>

KillLeader(r) ==
  /\ leader[r].step \notin {"idle", "done"}
  /\ kills < MaxKills
  /\ kills' = kills + 1
  /\ Proceed(r, "done", "none", "failed", "none")
  /\ UNCHANGED <<log, view, lock, copy, lease, team, hook, typed, why, faults,
                 slow, others>>

KillHook(h) ==
  /\ ~HookAt(h, "idle")
  /\ kills < MaxKills
  /\ kills' = kills + 1
  /\ hook' = [hook EXCEPT ![h] = NoDrain]
  /\ NotingOnly({hook[h].req} \ {Nobody}, "unrecorded")
  /\ UNCHANGED <<log, view, lock, copy, lease, team, leader, typed, faults,
                 slow, others>>

LeaderStep(r) ==
  \/ Queue(r) \/ QueueLocally(r) \/ Receive(r) \/ Fallback(r)
  \/ MarkNotified(r) \/ Notify(r) \/ Decide(r) \/ RecordStatus(r)
  \/ WriteRecord(r)

HookStep(h) ==
  \/ BeginDrain(h) \/ SkipAll(h) \/ Claim(h) \/ Inject(h) \/ Verify(h)
  \/ Reread(h) \/ Finalize(h) \/ WriteFinal(h)

Next ==
  \/ \E r \in Request :
       \/ Enqueue(r) \/ LeaderStep(r) \/ LeaderTimeout(r)
       \/ ExpireLease(r) \/ KillLeader(r)
  \/ \E h \in Hook : HookStep(h) \/ LockTimeout(h) \/ KillHook(h)
  \/ \E t \in Team : TheirRead(t) \/ TheirWrite(t)
  \/ Rewrite \/ BreakLock

\* Calls go on unless they are killed; hooks run on every turn, and the watcher
\* on a timer.  Locks are polled every 25 ms and cooldowns pass, so whoever
\* can take the lock, or claim, again and again does.
Fairness ==
  /\ \A r \in Request :
       /\ SF_vars(LeaderStep(r))
       /\ WF_vars(lease[r] # Nobody /\ Dead(lease[r], r) /\ ExpireLease(r))
  /\ \A h \in Hook : SF_vars(HookStep(h)) /\ SF_vars(Claim(h))
  /\ WF_vars(BreakLock)

Spec == Init /\ [][Next]_vars

FairSpec == Spec /\ Fairness

-----------------------------------------------------------------------------
(* Properties.                                                             *)

\* What is shown as notified, or reported to the caller as sent, was typed.
SaidIsTyped ==
  \A r \in Request :
    \/ view[r].status \in {"notified", "delivered"}
    \/ leader[r].outcome = "ok"
    => typed[r] > 0

\* A request is typed once, however many drains run at the same time, unless
\* for one of the known causes; retries after an unconfirmed attempt end with
\* the last attempt allowed.
TypedOnce ==
  \A r \in Request :
    /\ typed[r] > 1 => why[r] # {}
    /\ why[r] = {"retried"} => typed[r] <= MaxUnconfirmed

\* As long as engine commands succeed, dispatch.json never drops a request
\* that no other team has overwritten, and forgets what became of one only if
\* the leader took to typing it itself: it marks requests without the lock, or
\* without the engine.
LostAfterFallback ==
  faults = 0 =>
    \A r \in {s \in Request : "overwritten" \notin why[s]} :
      /\ <<"queued", r>> \in log => view[r].status # "none"
      /\ "reverted" \in why[r] => "fallback" \in why[r]

\* A request that the leader reported as failed, after which it rolls its
\* worker back, is claimed by no later drain, unless it could not record the
\* failure or dispatch.json lost it.
FailedIsLeft ==
  [][\A r \in Request :
       /\ lease'[r] \notin {lease[r], Nobody}
       /\ leader[r].step = "done"
       /\ leader[r].outcome = "failed"
       => why'[r] \cap {"unrecorded", "reverted"} # {}]_vars

\* Drains that keep running settle every request, whoever is killed.
Settled ==
  \A r \in Request : <>[](view[r].status # "pending")
=============================================================================
