------------------------- MODULE TeamDispatchProofs -------------------------
(***************************************************************************)
(* Theorems about TeamDispatch, for any requests, drains and limits: what  *)
(* is said to be typed was typed, how often a request is typed, what       *)
(* dispatch.json may lose, and that a reported failure is left alone.      *)
(***************************************************************************)
EXTENDS TeamDispatch, TLAPS

USE ConstantAssumption

-----------------------------------------------------------------------------
(* Operators.                                                              *)

LEMMA StatusOfLog ==
  ASSUME NEW L, NEW r
  PROVE  LogStatus(L, r) \in Status
BY DEF LogStatus, Status

LEMMA ShownIs ==
  ASSUME NEW L
  PROVE  /\ Shown(L) \in [Request -> Record]
         /\ \A r \in Request : /\ Shown(L)[r].status = LogStatus(L, r)
                               /\ Shown(L)[r].attempts = 0
BY StatusOfLog DEF Shown, Record

LEMMA EmptyIs ==
  /\ Empty \in [Request -> Record]
  /\ \A r \in Request : Empty[r].status = "none" /\ Empty[r].attempts = 0
BY DEF Empty, Absent, Record, Status

LEMMA RankIs ==
  /\ \A status \in Status : Rank(status) \in 0..2
  /\ Rank("none") = 0 /\ Rank("pending") = 1
  /\ \A status \in {"notified", "delivered", "failed"} : Rank(status) = 2
BY DEF Rank, Status

\* An engine command adds its event, if it does anything.
LEMMA ExecIs ==
  ASSUME TypeOK, NEW e \in DispatchEvent, NEW ok \in BOOLEAN, Exec(e, ok)
  PROVE  /\ log' \in {log, log \cup {e}} /\ log' \subseteq DispatchEvent
         /\ view' \in {view, Shown(log')} /\ view' \in [Request -> Record]
         /\ log' # log => AcceptsDispatch(log, e)
         /\ faults' \in 0..MaxFaults /\ faults <= faults'
         /\ faults' = 0 => IF AcceptsDispatch(log, e)
                           THEN log' = log \cup {e} /\ view' = Shown(log')
                           ELSE UNCHANGED <<log, view>>
         /\ ok => log' = log \cup {e}
<1>1. /\ log \subseteq DispatchEvent /\ view \in [Request -> Record]
      /\ faults \in 0..MaxFaults
  BY DEF TypeOK
<1>2. Shown(log \cup {e}) \in [Request -> Record]  BY ShownIs
<1>3. CASE /\ ok /\ AcceptsDispatch(log, e) /\ log' = log \cup {e}
           /\ view' = Shown(log \cup {e}) /\ UNCHANGED faults
  BY <1>1, <1>2, <1>3
<1>4. CASE /\ ~ok /\ ~AcceptsDispatch(log, e)
           /\ UNCHANGED <<log, view, faults>>
  BY <1>1, <1>4
<1>5. CASE /\ ~ok /\ faults < MaxFaults /\ faults' = faults + 1
           /\ UNCHANGED <<log, view>>
  BY <1>1, <1>5
<1>6. CASE /\ ~ok /\ faults < MaxFaults /\ faults' = faults + 1
           /\ AcceptsDispatch(log, e) /\ log' = log \cup {e}
           /\ view' = view
  BY <1>1, <1>6
<1>7. CASE /\ ~ok /\ faults < MaxFaults /\ faults' = faults + 1
           /\ AcceptsDispatch(log, e) /\ log' = log \cup {e}
           /\ view' = Shown(log \cup {e})
  BY <1>1, <1>2, <1>7
<1>8. QED BY <1>3, <1>4, <1>5, <1>6, <1>7 DEF Exec

\* The history of a request grows, and tells what its view has lost.
Told(r) ==
  /\ why[r] \subseteq why'[r]
  /\ Rank(view'[r].status) < Rank(view[r].status) => "reverted" \in why'[r]
  /\ view'[r].attempts < view[r].attempts => "recounted" \in why'[r]

LEMMA NotingIs ==
  ASSUME TypeOK, NEW R, NEW cause \in Cause, Noting(R, cause)
  PROVE  /\ why' \in [Request -> SUBSET Cause]
         /\ \A r \in Request :
              /\ Told(r)
              /\ r \in R => cause \in why'[r]
              /\ "reverted" \in why'[r] => 
                   \/ "reverted" \in why[r] \/ (r \in R /\ cause = "reverted")
                   \/ Rank(view'[r].status) < Rank(view[r].status)
              /\ why'[r] \subseteq why[r] \cup {cause, "reverted", "recounted"}
              /\ r \notin R /\ cause \notin {"reverted", "recounted"} =>
                   (cause \in why'[r] => cause \in why[r])
              /\ r \notin R =>
                   why'[r] \subseteq why[r] \cup {"reverted", "recounted"}
<1>1. why \in [Request -> SUBSET Cause]  BY DEF TypeOK
<1>2. ASSUME NEW r \in Request
      PROVE  /\ Lost(r) \subseteq {"reverted", "recounted"}
             /\ "reverted" \in Lost(r) <=>
                  Rank(view'[r].status) < Rank(view[r].status)
             /\ "recounted" \in Lost(r) <=> view'[r].attempts < view[r].attempts
  BY DEF Lost
<1>3. {"reverted", "recounted"} \subseteq Cause  BY DEF Cause
<1>4. \A r \in Request :
        why'[r] = why[r] \cup (IF r \in R THEN {cause} ELSE {}) \cup Lost(r)
  BY DEF Noting
<1>5. why' \in [Request -> SUBSET Cause]
  <2>1. \A r \in Request :
          why[r] \cup (IF r \in R THEN {cause} ELSE {}) \cup Lost(r)
            \in SUBSET Cause
    BY <1>1, <1>2, <1>3
  <2>2. QED BY <2>1 DEF Noting
<1>6. QED BY <1>2, <1>4, <1>5 DEF Told

LEMMA NotingLostIs ==
  ASSUME TypeOK, NotingLost
  PROVE  /\ why' \in [Request -> SUBSET Cause]
         /\ \A r \in Request :
              /\ Told(r)
              /\ "reverted" \in why'[r] =>
                   \/ "reverted" \in why[r]
                   \/ Rank(view'[r].status) < Rank(view[r].status)
              /\ why'[r] \subseteq why[r] \cup {"reverted", "recounted"}
BY NotingIs DEF NotingLost, Cause

LEMMA NotingOnlyIs ==
  ASSUME TypeOK, NEW R, NEW cause \in Cause, NotingOnly(R, cause)
  PROVE  /\ why' \in [Request -> SUBSET Cause]
         /\ \A r \in Request :
              why'[r] = why[r] \cup IF r \in R THEN {cause} ELSE {}
<1>1. why \in [Request -> SUBSET Cause]  BY DEF TypeOK
<1>2. \A r \in Request :
        why[r] \cup (IF r \in R THEN {cause} ELSE {}) \in SUBSET Cause
  BY <1>1
<1>3. QED BY <1>2 DEF NotingOnly

LEMMA ProceedIs ==
  ASSUME TypeOK, NEW r \in Request, NEW step \in LeaderSteps, NEW seen \in Status,
         NEW to \in {"notified", "failed"},
         NEW outcome \in {"none", "ok", "failed"},
         Proceed(r, step, seen, to, outcome)
  PROVE  /\ leader' \in [Request -> Call]
         /\ leader'[r].step = step /\ leader'[r].seen = seen
         /\ leader'[r].to = to /\ leader'[r].outcome = outcome
         /\ \A s \in Request \ {r} : leader'[s] = leader[s]
<1> DEFINE c == [step |-> step, seen |-> seen, to |-> to, outcome |-> outcome]
<1>1. /\ c \in Call /\ c.step = step /\ c.seen = seen /\ c.to = to
      /\ c.outcome = outcome
  BY DEF Call
<1>2. leader' = [leader EXCEPT ![r] = c] /\ leader \in [Request -> Call]
  BY DEF Proceed, TypeOK
<1> HIDE DEF c
<1>3. QED BY <1>1, <1>2

LEMMA SetHookIs ==
  ASSUME TypeOK, NEW h \in Hook, NEW step \in HookSteps,
         NEW claims \in SUBSET Request, NEW again \in SUBSET Request,
         NEW req \in Request \cup {Nobody},
         NEW result \in {"none", "failed", "unconfirmed", "confirmed"},
         SetHook(h, step, claims, again, req, result)
  PROVE  /\ hook' \in [Hook -> Drain]
         /\ hook'[h].step = step /\ hook'[h].claims = claims
         /\ hook'[h].again = again /\ hook'[h].req = req
         /\ hook'[h].result = result
         /\ \A g \in Hook \ {h} : hook'[g] = hook[g]
<1> DEFINE d == [step |-> step, claims |-> claims, again |-> again, req |-> req,
                 result |-> result]
<1>1. /\ d \in Drain /\ d.step = step /\ d.claims = claims /\ d.again = again
      /\ d.req = req /\ d.result = result
  BY DEF Drain
<1>2. hook' = [hook EXCEPT ![h] = d] /\ hook \in [Hook -> Drain]
  BY DEF SetHook, TypeOK
<1> HIDE DEF d
<1>3. QED BY <1>1, <1>2

LEMMA NoDrainIs ==
  /\ NoDrain \in Drain /\ NoDrain.step = "idle" /\ NoDrain.claims = {}
  /\ NoDrain.again = {} /\ NoDrain.req = Nobody /\ NoDrain.result = "none"
BY DEF NoDrain, Drain, HookSteps

LEMMA NoCallIs ==
  /\ NoCall \in Call /\ NoCall.step = "idle" /\ NoCall.seen = "none"
  /\ NoCall.to = "failed" /\ NoCall.outcome = "none"
BY DEF NoCall, Call, LeaderSteps, Status

LEMMA DrainOf ==
  ASSUME TypeOK, NEW h \in Hook
  PROVE  /\ hook[h] \in Drain /\ hook[h].step \in HookSteps
         /\ hook[h].claims \in SUBSET Request
         /\ hook[h].again \in SUBSET Request
         /\ hook[h].req \in Request \cup {Nobody}
         /\ hook[h].result \in {"none", "failed", "unconfirmed", "confirmed"}
BY DEF TypeOK, Drain

LEMMA CallOf ==
  ASSUME TypeOK, NEW r \in Request
  PROVE  /\ leader[r] \in Call /\ leader[r].step \in LeaderSteps
         /\ leader[r].seen \in Status /\ leader[r].to \in {"notified", "failed"}
         /\ leader[r].outcome \in {"none", "ok", "failed"}
BY DEF TypeOK, Call

LEMMA RecordOf ==
  ASSUME TypeOK, NEW r \in Request
  PROVE  /\ view[r].status \in Status /\ view[r].attempts \in Nat
         /\ copy[r].status \in Status /\ copy[r].attempts \in Nat
         /\ typed[r] \in Nat
BY DEF TypeOK, Record

\* The holder of the lock writes the records back.
LEMMA WriteBackIs ==
  ASSUME TypeOK, NEW r \in Request, NEW status \in Status, NEW n \in Nat,
         WriteBack(r, [status |-> status, attempts |-> n])
  PROVE  /\ view' \in [Request -> Record]
         /\ view'[r].status = status /\ view'[r].attempts = n
         /\ \A s \in Request \ {r} : view'[s] = copy[s]
<1> DEFINE d == [status |-> status, attempts |-> n]
<1>1. d \in Record /\ d.status = status /\ d.attempts = n  BY DEF Record
<1>2. view' = [copy EXCEPT ![r] = d] /\ copy \in [Request -> Record]
  BY DEF WriteBack, TypeOK
<1> HIDE DEF d
<1>3. QED BY <1>1, <1>2

LEMMA AcquireIs ==
  ASSUME TypeOK, NEW who \in Hook \cup Request, Acquire(who)
  PROVE  /\ lock = Nobody /\ lock' = who /\ copy' = view
         /\ lock' \in Hook \cup Request \cup {Nobody}
         /\ copy' \in [Request -> Record]
BY DEF Acquire, TypeOK

LEMMA ReleaseIs ==
  ASSUME Release
  PROVE  /\ lock' = Nobody /\ copy' \in [Request -> Record]
         /\ lock' \in Hook \cup Request \cup {Nobody}
         /\ \A r \in Request : copy'[r].status = "none" /\ copy'[r].attempts = 0
BY EmptyIs DEF Release

\* A drain puts a request away: it goes on to the next, or ends.
LEMMA FinishedIs ==
  ASSUME TypeOK, NEW h \in Hook, hook[h].req \in Request, Finished(h)
  PROVE  /\ hook' \in [Hook -> Drain]
         /\ hook'[h].step \in {"idle", "claimed"} /\ hook'[h].req = Nobody
         /\ hook'[h].claims = hook[h].claims \ {hook[h].req}
         /\ hook'[h].step = "idle" => hook'[h].claims = {}
         /\ hook'[h].again \subseteq hook[h].again
         /\ hook'[h].result = "none"
         /\ \A g \in Hook \ {h} : hook'[g] = hook[g]
         /\ lease' \in [Request -> Hook \cup {Nobody}]
         /\ \A r \in Request : lease'[r] = IF r = hook[h].req /\ lease[r] = h
                                           THEN Nobody ELSE lease[r]
<1> DEFINE r == hook[h].req
           claims == hook[h].claims \ {r}
<1>1. lease' = [lease EXCEPT ![r] = IF lease[r] = h THEN Nobody ELSE lease[r]]
  BY DEF Finished
<1>2. lease \in [Request -> Hook \cup {Nobody}] /\ hook \in [Hook -> Drain]
  BY DEF TypeOK
<1>3. /\ lease' \in [Request -> Hook \cup {Nobody}]
      /\ \A s \in Request : lease'[s] = IF s = r /\ lease[s] = h
                                        THEN Nobody ELSE lease[s]
  BY <1>1, <1>2
<1>4. CASE claims = {}
  <2>1. hook' = [hook EXCEPT ![h] = NoDrain]  BY <1>4 DEF Finished
  <2>2. QED BY <1>2, <1>3, <1>4, <2>1, NoDrainIs
<1>5. CASE claims # {}
  <2> DEFINE again == hook[h].again
  <2>1. SetHook(h, "claimed", claims, again, Nobody, "none")
    BY <1>5 DEF Finished
  <2>2. claims \in SUBSET Request /\ again \in SUBSET Request
    BY DrainOf
  <2>3. /\ "claimed" \in HookSteps /\ Nobody \in Request \cup {Nobody}
        /\ "none" \in {"none", "failed", "unconfirmed", "confirmed"}
    BY DEF HookSteps
  <2> HIDE DEF claims, again
  <2>4. /\ hook' \in [Hook -> Drain] /\ hook'[h].step = "claimed"
        /\ hook'[h].claims = claims /\ hook'[h].again = again
        /\ hook'[h].req = Nobody /\ hook'[h].result = "none"
        /\ \A g \in Hook \ {h} : hook'[g] = hook[g]
    BY <2>1, <2>2, <2>3, SetHookIs
  <2>5. QED BY <1>3, <2>4 DEF claims, again
<1>6. QED BY <1>4, <1>5

-----------------------------------------------------------------------------
(* What each action does to the records of the leader.                     *)

\* The leader's call for r goes on so, those for other requests stay.
Goes(r, step, seen, to, outcome) ==
  /\ leader' \in [Request -> Call]
  /\ leader'[r].step = step /\ leader'[r].seen = seen
  /\ leader'[r].to = to /\ leader'[r].outcome = outcome
  /\ \A s \in Request \ {r} : leader'[s] = leader[s]

LEMMA EnqueueIs ==
  ASSUME TypeOK, NEW r \in Request, Enqueue(r)
  PROVE  /\ Goes(r, "queueing", "none", "failed", "none")
         /\ leader[r].step = "idle" /\ Acquire(r)
         /\ UNCHANGED <<log, view, lease, team, hook, typed, why, faults,
                        kills, slow, others>>
BY ProceedIs DEF Enqueue, LeaderAt, Goes, LeaderSteps, Status

LEMMA QueueIs ==
  ASSUME TypeOK, NEW r \in Request, Queue(r)
  PROVE  /\ leader[r].step = "queueing"
         /\ \E ok \in BOOLEAN :
              /\ Exec(<<"queued", r>>, ok)
              /\ ok => Release
              /\ ~ok => UNCHANGED <<lock, copy>>
              /\ Goes(r, IF ok THEN "waiting" ELSE "unqueued", "none", "failed",
                      "none")
         /\ NotingLost
         /\ UNCHANGED <<lease, team, hook, typed, kills, slow, others>>
<1>1. PICK ok \in BOOLEAN :
        /\ Exec(<<"queued", r>>, ok)
        /\ IF ok THEN Release /\ Proceed(r, "waiting", "none", "failed", "none")
           ELSE /\ UNCHANGED <<lock, copy>>
                /\ Proceed(r, "unqueued", "none", "failed", "none")
  BY DEF Queue
<1>2. Goes(r, IF ok THEN "waiting" ELSE "unqueued", "none", "failed", "none")
  BY <1>1, ProceedIs DEF Goes, LeaderSteps, Status
<1>3. QED BY <1>1, <1>2 DEF Queue, LeaderAt

LEMMA QueueLocallyIs ==
  ASSUME TypeOK, NEW r \in Request, QueueLocally(r)
  PROVE  /\ leader[r].step = "unqueued"
         /\ Goes(r, "waiting", "none", "failed", "none")
         /\ Release /\ NotingLost
         /\ view' \in [Request -> Record]
         /\ view'[r].status = "pending" /\ view'[r].attempts = 0
         /\ \A s \in Request \ {r} : view'[s] = copy[s]
         /\ UNCHANGED <<log, lease, team, hook, typed, faults, kills, slow,
                        others>>
<1>1. Goes(r, "waiting", "none", "failed", "none")
  BY ProceedIs DEF QueueLocally, Goes, LeaderSteps, Status
<1>2. /\ view' \in [Request -> Record]
      /\ view'[r].status = "pending" /\ view'[r].attempts = 0
      /\ \A s \in Request \ {r} : view'[s] = copy[s]
  BY WriteBackIs DEF QueueLocally, Status
<1>3. QED BY <1>1, <1>2 DEF QueueLocally, LeaderAt

LEMMA ReceiveIs ==
  ASSUME TypeOK, NEW r \in Request, Receive(r)
  PROVE  /\ leader[r].step = "waiting"
         /\ \/ /\ view[r].status \in {"notified", "delivered"}
               /\ Goes(r, "done", view[r].status, "failed", "ok")
            \/ Goes(r, "fallback", view[r].status, "failed", "none")
         /\ UNCHANGED <<log, view, lock, copy, lease, team, hook, typed, why,
                        faults, kills, slow, others>>
BY ProceedIs, RecordOf DEF Receive, LeaderAt, Goes, LeaderSteps

LEMMA FallbackIs ==
  ASSUME TypeOK, NEW r \in Request, Fallback(r)
  PROVE  /\ leader[r].step = "fallback"
         /\ typed' \in [Request -> Nat] /\ typed'[r] >= typed[r]
         /\ \A s \in Request \ {r} : typed'[s] = typed[s]
         /\ \E outcome \in {"ok", "failed"} :
              /\ outcome = "ok" => typed'[r] > 0
              /\ \/ Goes(r, "deciding", "failed", "failed", outcome)
                 \/ /\ Goes(r, "recording", "failed", "failed", outcome)
                    /\ leader[r].seen = "failed"
                 \/ /\ Goes(r, "marking", "none", "failed", outcome)
                    /\ outcome = "ok"
                 \/ Goes(r, "deciding", "none", "failed", outcome)
         /\ NotingOnly({r}, "fallback")
         /\ UNCHANGED <<log, view, lock, copy, lease, team, hook, faults,
                        kills, slow, others>>
<1>1. PICK result \in {"confirmed", "unevidenced", "failed"} :
        LET outcome == IF result = "confirmed" THEN "ok" ELSE "failed" IN
        /\ \E sent \in IF result = "failed" THEN {0, 1} ELSE {1} :
             typed' = [typed EXCEPT ![r] = typed[r] + sent]
        /\ IF leader[r].seen = "failed"
           THEN Proceed(r, IF result = "confirmed" THEN "deciding"
                           ELSE "recording", "failed", "failed", outcome)
           ELSE Proceed(r, IF result = "confirmed" THEN "marking"
                           ELSE "deciding", "none", "failed", outcome)
  BY DEF Fallback
<1> DEFINE outcome == IF result = "confirmed" THEN "ok" ELSE "failed"
<1>2. PICK sent \in IF result = "failed" THEN {0, 1} ELSE {1} :
        typed' = [typed EXCEPT ![r] = typed[r] + sent]
  BY <1>1
<1>3. /\ typed' \in [Request -> Nat] /\ typed'[r] >= typed[r]
      /\ \A s \in Request \ {r} : typed'[s] = typed[s]
      /\ outcome = "ok" => typed'[r] > 0
  BY <1>2 DEF TypeOK
<1>4. outcome \in {"ok", "failed"}  OBVIOUS
<1>5. \/ Proceed(r, "deciding", "failed", "failed", outcome)
      \/ /\ Proceed(r, "recording", "failed", "failed", outcome)
         /\ leader[r].seen = "failed"
      \/ /\ Proceed(r, "marking", "none", "failed", outcome)
         /\ outcome = "ok"
      \/ Proceed(r, "deciding", "none", "failed", outcome)
  BY <1>1
<1> HIDE DEF outcome
<1>6. \/ Goes(r, "deciding", "failed", "failed", outcome)
      \/ /\ Goes(r, "recording", "failed", "failed", outcome)
         /\ leader[r].seen = "failed"
      \/ /\ Goes(r, "marking", "none", "failed", outcome)
         /\ outcome = "ok"
      \/ Goes(r, "deciding", "none", "failed", outcome)
  BY <1>4, <1>5, ProceedIs DEF Goes, LeaderSteps, Status
<1>7. QED BY <1>3, <1>4, <1>6 DEF Fallback, LeaderAt

LEMMA MarkNotifiedIs ==
  ASSUME TypeOK, NEW r \in Request, MarkNotified(r)
  PROVE  /\ leader[r].step = "marking"
         /\ \/ /\ view[r].status \in {"notified", "delivered"}
               /\ Goes(r, "done", view[r].status, "failed", "ok")
            \/ Goes(r, "deciding", "none", "failed", "ok")
            \/ /\ view[r].status = "pending"
               /\ Goes(r, "notifying", "pending", "notified", "ok")
         /\ UNCHANGED <<log, view, lock, copy, lease, team, hook, typed, why,
                        faults, kills, slow, others>>
<1> DEFINE status == view[r].status
<1>1. status \in Status  BY RecordOf
<1>2. \/ /\ status \in {"notified", "delivered"}
         /\ Proceed(r, "done", status, "failed", "ok")
      \/ Proceed(r, "deciding", "none", "failed", "ok")
      \/ status = "pending" /\ Proceed(r, "notifying", status, "notified", "ok")
  BY <1>1 DEF MarkNotified, Status
<1> HIDE DEF status
<1>3. \/ /\ status \in {"notified", "delivered"}
         /\ Goes(r, "done", status, "failed", "ok")
      \/ Goes(r, "deciding", "none", "failed", "ok")
      \/ status = "pending" /\ Goes(r, "notifying", "pending", "notified", "ok")
  BY <1>1, <1>2, ProceedIs DEF Goes, LeaderSteps, Status
<1>4. QED BY <1>3 DEF MarkNotified, LeaderAt, status

LEMMA NotifyIs ==
  ASSUME TypeOK, NEW r \in Request, Notify(r)
  PROVE  /\ leader[r].step = "notifying"
         /\ \E ok \in BOOLEAN :
              /\ Exec(<<"notified", r>>, ok)
              /\ Goes(r, IF ok THEN "done" ELSE "recording", "pending",
                      "notified", "ok")
         /\ NotingLost
         /\ UNCHANGED <<lock, copy, lease, team, hook, typed, kills, slow,
                        others>>
<1>1. PICK ok \in BOOLEAN :
        /\ Exec(<<"notified", r>>, ok)
        /\ Proceed(r, IF ok THEN "done" ELSE "recording", "pending", "notified",
                   "ok")
  BY DEF Notify
<1>2. Goes(r, IF ok THEN "done" ELSE "recording", "pending", "notified", "ok")
  BY <1>1, ProceedIs DEF Goes, LeaderSteps, Status
<1>3. QED BY <1>1, <1>2 DEF Notify, LeaderAt

LEMMA DecideIs ==
  ASSUME TypeOK, NEW r \in Request, Decide(r)
  PROVE  /\ leader[r].step = "deciding"
         /\ \/ /\ view[r].status = "none"
               /\ Goes(r, "done", "none", "failed", leader[r].outcome)
            \/ /\ view[r].status # "none"
               /\ Goes(r, "recording", view[r].status, "failed",
                       leader[r].outcome)
         /\ UNCHANGED <<log, view, lock, copy, lease, team, hook, typed, why,
                        faults, kills, slow, others>>
<1> DEFINE status == view[r].status
           outcome == leader[r].outcome
<1>1. status \in Status /\ outcome \in {"none", "ok", "failed"}
  BY RecordOf, CallOf
<1>2. Proceed(r, IF status = "none" THEN "done" ELSE "recording", status,
              "failed", outcome)
  BY DEF Decide
<1> HIDE DEF status, outcome
<1>3. \/ status = "none" /\ Goes(r, "done", "none", "failed", outcome)
      \/ status # "none" /\ Goes(r, "recording", status, "failed", outcome)
  BY <1>1, <1>2, ProceedIs DEF Goes, LeaderSteps
<1>4. QED BY <1>3 DEF Decide, LeaderAt, status, outcome

LEMMA RecordStatusIs ==
  ASSUME TypeOK, NEW r \in Request, RecordStatus(r)
  PROVE  /\ leader[r].step = "recording" /\ lock = Nobody
         /\ \/ /\ Recordable(r) /\ Acquire(r)
               /\ Goes(r, "writing", leader[r].seen, leader[r].to,
                       leader[r].outcome)
            \/ /\ ~Recordable(r) /\ UNCHANGED <<lock, copy>>
               /\ \/ /\ leader[r].to = "notified"
                     /\ Goes(r, "deciding", leader[r].seen, "failed",
                             leader[r].outcome)
                  \/ /\ leader[r].to = "failed"
                     /\ Goes(r, "done", leader[r].seen, "failed",
                             leader[r].outcome)
         /\ UNCHANGED <<log, view, lease, team, hook, typed, why, faults,
                        kills, slow, others>>
<1> DEFINE seen == leader[r].seen
           to == leader[r].to
           outcome == leader[r].outcome
<1>1. /\ seen \in Status /\ to \in {"notified", "failed"}
      /\ outcome \in {"none", "ok", "failed"}
  BY CallOf
<1>2. \/ /\ Recordable(r) /\ Acquire(r)
         /\ Proceed(r, "writing", seen, to, outcome)
      \/ /\ ~Recordable(r) /\ UNCHANGED <<lock, copy>> /\ lock = Nobody
         /\ Proceed(r, IF to = "notified" THEN "deciding" ELSE "done", seen,
                    "failed", outcome)
  BY DEF RecordStatus
<1> HIDE DEF seen, to, outcome
<1>3. \/ /\ Recordable(r) /\ Acquire(r)
         /\ Goes(r, "writing", seen, to, outcome)
      \/ /\ ~Recordable(r) /\ UNCHANGED <<lock, copy>> /\ lock = Nobody
         /\ \/ to = "notified" /\ Goes(r, "deciding", seen, "failed", outcome)
            \/ to = "failed" /\ Goes(r, "done", seen, "failed", outcome)
  BY <1>1, <1>2, ProceedIs DEF Goes, LeaderSteps
<1>4. QED
  BY <1>3 DEF RecordStatus, LeaderAt, Acquire, seen, to, outcome

LEMMA WriteRecordIs ==
  ASSUME TypeOK, NEW r \in Request, WriteRecord(r)
  PROVE  /\ leader[r].step = "writing"
         /\ Goes(r, "done", leader[r].seen, leader[r].to, leader[r].outcome)
         /\ Release /\ NotingLost
         /\ view' \in [Request -> Record]
         /\ view'[r].status = leader[r].to
         /\ view'[r].attempts > 0 => \/ copy[r].status # leader[r].to
                                     \/ copy[r].attempts > 0
         /\ \A s \in Request \ {r} : view'[s] = copy[s]
         /\ UNCHANGED <<log, lease, team, hook, typed, faults, kills, slow,
                        others>>
<1> DEFINE seen == leader[r].seen
           to == leader[r].to
           outcome == leader[r].outcome
           n == IF copy[r].status = to THEN copy[r].attempts
                ELSE copy[r].attempts + 1
<1>1. /\ seen \in Status /\ to \in {"notified", "failed"}
      /\ outcome \in {"none", "ok", "failed"} /\ n \in Nat
  BY CallOf, RecordOf
<1>2. /\ Proceed(r, "done", seen, to, outcome)
      /\ WriteBack(r, [status |-> to, attempts |-> n])
  BY DEF WriteRecord
<1>3. n > 0 => copy[r].status # to \/ copy[r].attempts > 0  OBVIOUS
<1> HIDE DEF seen, to, outcome, n
<1>4. /\ Goes(r, "done", seen, to, outcome)
      /\ view' \in [Request -> Record]
      /\ view'[r].status = to /\ view'[r].attempts = n
      /\ \A s \in Request \ {r} : view'[s] = copy[s]
  BY <1>1, <1>2, ProceedIs, WriteBackIs DEF Goes, LeaderSteps, Status
<1>5. QED
  BY <1>3, <1>4 DEF WriteRecord, LeaderAt, seen, to, outcome

LEMMA LeaderTimeoutIs ==
  ASSUME TypeOK, NEW r \in Request, LeaderTimeout(r)
  PROVE  /\ leader[r].step \in {"idle", "recording"} /\ slow' \in 0..MaxSlow
         /\ \E outcome \in {"failed", leader[r].outcome} :
              Goes(r, "done", leader[r].seen, leader[r].to, outcome)
         /\ \/ leader[r].step = "idle" /\ NotingOnly({}, "unrecorded")
            \/ leader[r].step = "recording" /\ NotingOnly({r}, "unrecorded")
         /\ UNCHANGED <<log, view, lock, copy, lease, team, hook, typed,
                        faults, kills, others>>
<1> DEFINE seen == leader[r].seen
           to == leader[r].to
           outcome == IF LeaderAt(r, "recording") /\ to = "failed"
                      THEN leader[r].outcome ELSE "failed"
<1>1. /\ seen \in Status /\ to \in {"notified", "failed"}
      /\ outcome \in {"none", "ok", "failed"}
      /\ outcome \in {"failed", leader[r].outcome}
  BY CallOf
<1>2. Proceed(r, "done", seen, to, outcome)  BY DEF LeaderTimeout
<1> HIDE DEF seen, to, outcome
<1>3. Goes(r, "done", seen, to, outcome)
  BY <1>1, <1>2, ProceedIs DEF Goes, LeaderSteps
<1>4. slow' \in 0..MaxSlow  BY DEF LeaderTimeout, TypeOK
<1>5. QED
  BY <1>1, <1>3, <1>4 DEF LeaderTimeout, LeaderAt, seen, to

LEMMA KillLeaderIs ==
  ASSUME TypeOK, NEW r \in Request, KillLeader(r)
  PROVE  /\ leader[r].step \notin {"idle", "done"} /\ kills' \in 0..MaxKills
         /\ Goes(r, "done", "none", "failed", "none")
         /\ UNCHANGED <<log, view, lock, copy, lease, team, hook, typed, why,
                        faults, slow, others>>
<1>1. kills' \in 0..MaxKills  BY DEF KillLeader, TypeOK
<1>2. QED BY <1>1, ProceedIs DEF KillLeader, Goes, LeaderSteps, Status

-----------------------------------------------------------------------------
(* What each action does to the records of the drains.                     *)

\* The drain h goes on so, the others stay.
Turns(h, step, claims, req, result) ==
  /\ hook' \in [Hook -> Drain]
  /\ hook'[h].step = step /\ hook'[h].claims = claims
  /\ hook'[h].req = req /\ hook'[h].result = result
  /\ \A g \in Hook \ {h} : hook'[g] = hook[g]

\* The drain h ends.
Stops(h) ==
  Turns(h, "idle", {}, Nobody, "none") /\ hook'[h].again = {}

LEMMA StopsIs ==
  ASSUME TypeOK, NEW h \in Hook, hook' = [hook EXCEPT ![h] = NoDrain]
  PROVE  Stops(h)
BY NoDrainIs DEF TypeOK, Stops, Turns

LEMMA BeginDrainIs ==
  ASSUME TypeOK, NEW h \in Hook, BeginDrain(h)
  PROVE  /\ hook[h].step = "idle" /\ Acquire(h)
         /\ Turns(h, "reading", {}, Nobody, "none") /\ hook'[h].again = {}
         /\ UNCHANGED <<log, view, lease, team, leader, typed, why, faults,
                        kills, slow, others>>
BY SetHookIs DEF BeginDrain, HookAt, Turns, HookSteps

LEMMA SkipAllIs ==
  ASSUME TypeOK, NEW h \in Hook, SkipAll(h)
  PROVE  /\ hook[h].step = "reading" /\ Release /\ Stops(h)
         /\ UNCHANGED <<log, view, lease, team, leader, typed, why, faults,
                        kills, slow, others>>
BY StopsIs DEF SkipAll, HookAt

LEMMA ClaimIs ==
  ASSUME TypeOK, NEW h \in Hook, Claim(h)
  PROVE  /\ hook[h].step = "reading"
         /\ \E claims \in SUBSET Request :
              /\ claims # {}
              /\ \A r \in claims : copy[r].status = "pending" /\ lease[r] = Nobody
              /\ Turns(h, "claimed", claims, Nobody, "none")
              /\ \A r \in hook'[h].again :
                   r \in claims /\ copy[r].attempts > 0
              /\ \A r \in Request :
                   lease'[r] = IF r \in claims THEN h ELSE lease[r]
         /\ lease' \in [Request -> Hook \cup {Nobody}]
         /\ view' = copy /\ view' \in [Request -> Record]
         /\ Release /\ NotingLost
         /\ UNCHANGED <<log, team, leader, typed, faults, kills, slow,
                        others>>
<1>1. PICK claims \in (SUBSET {r \in Request : /\ copy[r].status = "pending"
                                               /\ lease[r] = Nobody}) \ {{}} :
        /\ lease' = [r \in Request |-> IF r \in claims THEN h ELSE lease[r]]
        /\ SetHook(h, "claimed", claims,
                   {r \in claims : copy[r].attempts > 0}, Nobody, "none")
  BY DEF Claim
<1> DEFINE again == {r \in claims : copy[r].attempts > 0}
<1>2. claims \in SUBSET Request /\ again \in SUBSET Request /\ claims # {}
  BY <1>1
<1>3. \A r \in claims : copy[r].status = "pending" /\ lease[r] = Nobody
  BY <1>1
<1>4. \A r \in again : r \in claims /\ copy[r].attempts > 0  OBVIOUS
<1>5. SetHook(h, "claimed", claims, again, Nobody, "none")  BY <1>1
<1>6. /\ lease' \in [Request -> Hook \cup {Nobody}]
      /\ \A r \in Request : lease'[r] = IF r \in claims THEN h ELSE lease[r]
  BY <1>1 DEF TypeOK
<1>7. /\ "claimed" \in HookSteps /\ Nobody \in Request \cup {Nobody}
      /\ "none" \in {"none", "failed", "unconfirmed", "confirmed"}
  BY DEF HookSteps
<1> HIDE DEF again
<1>8. Turns(h, "claimed", claims, Nobody, "none") /\ hook'[h].again = again
  BY <1>2, <1>5, <1>7, SetHookIs DEF Turns
<1>9. view' = copy /\ view' \in [Request -> Record]  BY DEF Claim, TypeOK
<1>10. QED
  BY <1>2, <1>3, <1>4, <1>6, <1>8, <1>9 DEF Claim, HookAt

LEMMA InjectIs ==
  ASSUME TypeOK, NEW h \in Hook, Inject(h)
  PROVE  /\ hook[h].step = "claimed"
         /\ \E r \in hook[h].claims,
               result \in {"failed", "unconfirmed", "confirmed"} :
              /\ r \in Request
              /\ typed' \in [Request -> Nat]
              /\ typed'[r] \in {typed[r], typed[r] + 1}
              /\ \A s \in Request \ {r} : typed'[s] = typed[s]
              /\ result # "failed" /\ r \notin hook[h].again => typed'[r] > 0
              /\ Turns(h, "typing", hook[h].claims, r, result)
              /\ hook'[h].again = hook[h].again
         /\ UNCHANGED <<log, view, lock, copy, lease, team, leader, why,
                        faults, kills, slow, others>>
<1> DEFINE claims == hook[h].claims
           again == hook[h].again
<1>1. PICK r \in claims, result \in {"failed", "unconfirmed", "confirmed"} :
        /\ \E sent \in (IF result = "failed" \/ r \in again THEN {0}
                        ELSE {}) \cup {1} :
             typed' = [typed EXCEPT ![r] = typed[r] + sent]
        /\ SetHook(h, "typing", claims, again, r, result)
  BY DEF Inject
<1>2. PICK sent \in (IF result = "failed" \/ r \in again THEN {0}
                     ELSE {}) \cup {1} :
        typed' = [typed EXCEPT ![r] = typed[r] + sent]
  BY <1>1
<1>3. claims \in SUBSET Request /\ again \in SUBSET Request  BY DrainOf
<1>4. /\ typed' \in [Request -> Nat] /\ typed'[r] \in {typed[r], typed[r] + 1}
      /\ \A s \in Request \ {r} : typed'[s] = typed[s]
      /\ result # "failed" /\ r \notin again => typed'[r] > 0
  BY <1>2, <1>3 DEF TypeOK
<1>5. "typing" \in HookSteps /\ r \in Request \cup {Nobody} /\ r \in Request
      /\ result \in {"none", "failed", "unconfirmed", "confirmed"}
  BY <1>3 DEF HookSteps
<1> HIDE DEF claims, again
<1>6. Turns(h, "typing", claims, r, result) /\ hook'[h].again = again
  BY <1>1, <1>3, <1>5, SetHookIs DEF Turns
<1>7. QED BY <1>4, <1>5, <1>6 DEF Inject, HookAt, claims, again

\* A drain that goes on with the request in hand.
LEMMA SameTurn ==
  ASSUME TypeOK, NEW h \in Hook, NEW step \in HookSteps,
         SetHook(h, step, hook[h].claims, hook[h].again, hook[h].req,
                 hook[h].result)
  PROVE  /\ Turns(h, step, hook[h].claims, hook[h].req, hook[h].result)
         /\ hook'[h].again = hook[h].again
<1> DEFINE claims == hook[h].claims
           again == hook[h].again
           req == hook[h].req
           result == hook[h].result
<1>1. /\ claims \in SUBSET Request /\ again \in SUBSET Request
      /\ req \in Request \cup {Nobody}
      /\ result \in {"none", "failed", "unconfirmed", "confirmed"}
  BY DrainOf
<1>2. SetHook(h, step, claims, again, req, result)  OBVIOUS
<1> HIDE DEF claims, again, req, result
<1>3. Turns(h, step, claims, req, result) /\ hook'[h].again = again
  BY <1>1, <1>2, SetHookIs DEF Turns
<1>4. QED BY <1>3 DEF claims, again, req, result

LEMMA VerifyIs ==
  ASSUME TypeOK, NEW h \in Hook, Verify(h)
  PROVE  /\ hook[h].step = "typing"
         /\ \/ /\ hook[h].result = "confirmed"
               /\ \E ok \in BOOLEAN : Exec(<<"delivered", hook[h].req>>, ok)
            \/ UNCHANGED <<log, view, faults>>
         /\ Turns(h, "typed", hook[h].claims, hook[h].req, hook[h].result)
         /\ hook'[h].again = hook[h].again
         /\ NotingLost
         /\ UNCHANGED <<lock, copy, lease, team, leader, typed, kills, slow,
                        others>>
<1>1. "typed" \in HookSteps  BY DEF HookSteps
<1>2. QED BY <1>1, SameTurn DEF Verify, HookAt

LEMMA RereadIs ==
  ASSUME TypeOK, NEW h \in Hook, Reread(h)
  PROVE  /\ hook[h].step = "typed"
         /\ \/ /\ StillPending(h) /\ Acquire(h)
               /\ Turns(h, "finalizing", hook[h].claims, hook[h].req,
                        hook[h].result)
               /\ hook'[h].again = hook[h].again
               /\ UNCHANGED lease
            \/ /\ ~StillPending(h) /\ Finished(h) /\ lock = Nobody
               /\ UNCHANGED <<lock, copy>>
         /\ UNCHANGED <<log, view, team, leader, typed, why, faults, kills,
                        slow, others>>
<1>1. "finalizing" \in HookSteps  BY DEF HookSteps
<1>2. QED BY <1>1, SameTurn DEF Reread, HookAt

LEMMA LockTimeoutIs ==
  ASSUME TypeOK, NEW h \in Hook, LockTimeout(h)
  PROVE  /\ hook[h].step = "typed" /\ slow' \in 0..MaxSlow
         /\ lease' \in [Request -> Hook \cup {Nobody}]
         /\ \A r \in Request :
              lease'[r] = IF lease[r] = h THEN Nobody ELSE lease[r]
         /\ Stops(h) /\ NotingOnly({hook[h].req}, "unrecorded")
         /\ UNCHANGED <<log, view, lock, copy, team, leader, typed, faults,
                        kills, others>>
<1>1. slow' \in 0..MaxSlow  BY DEF LockTimeout, TypeOK
<1>2. /\ lease' \in [Request -> Hook \cup {Nobody}]
      /\ \A r \in Request :
           lease'[r] = IF lease[r] = h THEN Nobody ELSE lease[r]
  BY DEF LockTimeout, TypeOK
<1>3. QED BY <1>1, <1>2, StopsIs DEF LockTimeout, HookAt

LEMMA FinalizeIs ==
  ASSUME TypeOK, NEW h \in Hook, Finalize(h)
  PROVE  /\ hook[h].step = "finalizing"
         /\ \/ Retrying(h) /\ UNCHANGED <<log, view, faults>>
            \/ /\ ~Retrying(h)
               /\ \E ok \in BOOLEAN : Exec(<<Verdict(h), hook[h].req>>, ok)
         /\ Turns(h, "writing", hook[h].claims, hook[h].req, hook[h].result)
         /\ hook'[h].again = hook[h].again
         /\ NotingLost
         /\ UNCHANGED <<lock, copy, lease, team, leader, typed, kills, slow,
                        others>>
<1>1. "writing" \in HookSteps  BY DEF HookSteps
<1>2. QED BY <1>1, SameTurn DEF Finalize, HookAt

LEMMA WriteFinalIs ==
  ASSUME TypeOK, NEW h \in Hook, hook[h].req \in Request, WriteFinal(h)
  PROVE  LET r == hook[h].req IN
         /\ hook[h].step = "writing"
         /\ view' \in [Request -> Record]
         /\ view'[r].status = IF Retrying(h) THEN "pending" ELSE Verdict(h)
         /\ view'[r].attempts = copy[r].attempts + 1
         /\ \A s \in Request \ {r} : view'[s] = copy[s]
         /\ Noting(IF Retrying(h) THEN {r} ELSE {}, "retried")
         /\ Release /\ Finished(h)
         /\ UNCHANGED <<log, team, leader, typed, faults, kills, slow,
                        others>>
<1> DEFINE r == hook[h].req
           status == IF Retrying(h) THEN "pending" ELSE Verdict(h)
           n == copy[r].attempts + 1
<1>1. status \in Status /\ n \in Nat  BY RecordOf DEF Verdict, Status
<1>2. WriteBack(r, [status |-> status, attempts |-> n])  BY DEF WriteFinal
<1> HIDE DEF status, n
<1>3. /\ view' \in [Request -> Record]
      /\ view'[r].status = status /\ view'[r].attempts = n
      /\ \A s \in Request \ {r} : view'[s] = copy[s]
  BY <1>1, <1>2, WriteBackIs
<1>4. QED BY <1>3 DEF WriteFinal, HookAt, status, n

LEMMA KillHookIs ==
  ASSUME TypeOK, NEW h \in Hook, KillHook(h)
  PROVE  /\ hook[h].step # "idle" /\ kills' \in 0..MaxKills /\ Stops(h)
         /\ NotingOnly({hook[h].req} \ {Nobody}, "unrecorded")
         /\ UNCHANGED <<log, view, lock, copy, lease, team, leader, typed,
                        faults, slow, others>>
<1>1. kills' \in 0..MaxKills  BY DEF KillHook, TypeOK
<1>2. QED BY <1>1, StopsIs DEF KillHook, HookAt

LEMMA ExpireLeaseIs ==
  ASSUME TypeOK, NEW r \in Request, ExpireLease(r)
  PROVE  /\ lease[r] \in Hook
         /\ lease' \in [Request -> Hook \cup {Nobody}] /\ lease'[r] = Nobody
         /\ \A s \in Request \ {r} : lease'[s] = lease[s]
         /\ \/ Dead(lease[r], r) /\ UNCHANGED <<slow, why>>
            \/ slow' \in 0..MaxSlow /\ NotingOnly({r}, "stolen")
         /\ UNCHANGED <<log, view, lock, copy, team, leader, hook, typed,
                        faults, kills, others>>
BY DEF ExpireLease, TypeOK

\* What the steps that leave dispatch.json alone add to the history.
LEMMA FallbackNotes ==
  ASSUME TypeOK, NEW r \in Request, Fallback(r)
  PROVE  \A s \in Request :
           why'[s] = why[s] \cup IF s \in {r} THEN {"fallback"} ELSE {}
<1>1. NotingOnly({r}, "fallback")  BY FallbackIs
<1>2. "fallback" \in Cause  BY DEF Cause
<1>3. QED BY <1>1, <1>2, NotingOnlyIs

LEMMA LeaderTimeoutNotes ==
  ASSUME TypeOK, NEW r \in Request, LeaderTimeout(r)
  PROVE  /\ \A s \in Request :
              /\ why[s] \subseteq why'[s]
              /\ "reverted" \in why'[s] => "reverted" \in why[s]
         /\ leader[r].step = "recording" => "unrecorded" \in why'[r]
<1>1. \/ leader[r].step = "idle" /\ NotingOnly({}, "unrecorded")
      \/ leader[r].step = "recording" /\ NotingOnly({r}, "unrecorded")
  BY LeaderTimeoutIs
<1>2. "unrecorded" \in Cause  BY DEF Cause
<1>3. CASE leader[r].step = "idle" /\ NotingOnly({}, "unrecorded")
  BY <1>2, <1>3, NotingOnlyIs
<1>4. CASE leader[r].step = "recording" /\ NotingOnly({r}, "unrecorded")
  BY <1>2, <1>4, NotingOnlyIs
<1>5. QED BY <1>1, <1>3, <1>4

LEMMA LockTimeoutNotes ==
  ASSUME TypeOK, NEW h \in Hook, LockTimeout(h)
  PROVE  \A r \in Request :
           why'[r] = why[r] \cup IF r \in {hook[h].req} THEN {"unrecorded"}
                                ELSE {}
<1>1. NotingOnly({hook[h].req}, "unrecorded")  BY LockTimeoutIs
<1>2. "unrecorded" \in Cause  BY DEF Cause
<1>3. QED BY <1>1, <1>2, NotingOnlyIs

LEMMA KillHookNotes ==
  ASSUME TypeOK, NEW h \in Hook, KillHook(h)
  PROVE  \A r \in Request :
           why'[r] = why[r] \cup IF r \in {hook[h].req} \ {Nobody}
                                THEN {"unrecorded"} ELSE {}
<1>1. NotingOnly({hook[h].req} \ {Nobody}, "unrecorded")  BY KillHookIs
<1>2. "unrecorded" \in Cause  BY DEF Cause
<1>3. QED BY <1>1, <1>2, NotingOnlyIs

LEMMA ExpireLeaseNotes ==
  ASSUME TypeOK, NEW r \in Request, ExpireLease(r)
  PROVE  /\ \A s \in Request :
              /\ why[s] \subseteq why'[s]
              /\ "reverted" \in why'[s] => "reverted" \in why[s]
         /\ Dead(lease[r], r) \/ "stolen" \in why'[r]
<1>1. (Dead(lease[r], r) /\ UNCHANGED why) \/ NotingOnly({r}, "stolen")
  BY ExpireLeaseIs
<1>2. "stolen" \in Cause  BY DEF Cause
<1>3. CASE NotingOnly({r}, "stolen")  BY <1>2, <1>3, NotingOnlyIs
<1>4. QED BY <1>1, <1>3

LEMMA RewriteIs ==
  ASSUME TypeOK, Rewrite
  PROVE  /\ view' = Shown(log) /\ view' \in [Request -> Record] /\ NotingLost
         /\ others' \in 0..MaxOther
         /\ UNCHANGED <<log, lock, copy, lease, team, leader, hook, typed,
                        faults, kills, slow>>
<1>1. others' \in 0..MaxOther  BY DEF Rewrite, TypeOK
<1>2. QED BY <1>1, ShownIs DEF Rewrite

LEMMA NoWriterIs ==
  /\ NoWriter \in Writer /\ NoWriter.step = "idle"
  /\ \A r \in Request : NoWriter.copy[r].status = "none"
                       /\ NoWriter.copy[r].attempts = 0
BY EmptyIs DEF NoWriter, Writer

LEMMA TheirReadIs ==
  ASSUME TypeOK, NEW t \in Team, TheirRead(t)
  PROVE  /\ team' \in [Team -> Writer] /\ team'[t].copy = view
         /\ \A u \in Team \ {t} : team'[u] = team[u]
         /\ others' \in 0..MaxOther
         /\ UNCHANGED <<log, view, lock, copy, lease, leader, hook, typed, why,
                        faults, kills, slow>>
<1> DEFINE w == [step |-> "writing", copy |-> view]
<1>1. w \in Writer /\ w.copy = view  BY DEF Writer, TypeOK
<1>2. team' = [team EXCEPT ![t] = w] /\ team \in [Team -> Writer]
  BY DEF TheirRead, TypeOK
<1>3. others' \in 0..MaxOther  BY DEF TheirRead, TypeOK
<1> HIDE DEF w
<1>4. QED BY <1>1, <1>2, <1>3 DEF TheirRead

LEMMA TheirWriteIs ==
  ASSUME TypeOK, NEW t \in Team, TheirWrite(t)
  PROVE  /\ team' \in [Team -> Writer] /\ team'[t] = NoWriter
         /\ \A u \in Team \ {t} : team'[u] = team[u]
         /\ view' = team[t].copy /\ view' \in [Request -> Record]
         /\ why' \in [Request -> SUBSET Cause]
         /\ \A r \in Request :
              /\ Told(r)
              /\ view'[r] # view[r] => "overwritten" \in why'[r]
         /\ UNCHANGED <<log, lock, copy, lease, leader, hook, typed, faults,
                        kills, slow, others>>
<1>1. team' = [team EXCEPT ![t] = NoWriter] /\ team \in [Team -> Writer]
  BY DEF TheirWrite, TypeOK
<1>2. "overwritten" \in Cause  BY DEF Cause
<1>3. Noting({r \in Request : view'[r] # view[r]}, "overwritten")
  BY DEF TheirWrite
<1>4. /\ why' \in [Request -> SUBSET Cause]
      /\ \A r \in Request :
           /\ Told(r)
           /\ r \in {q \in Request : view'[q] # view[q]} =>
                "overwritten" \in why'[r]
  BY <1>2, <1>3, NotingIs
<1>5. view' = team[t].copy /\ view' \in [Request -> Record]
  BY <1>1 DEF TheirWrite, Writer
<1>6. QED BY <1>1, <1>4, <1>5, NoWriterIs DEF TheirWrite

\* This team's processes leave the writers of the others alone.
LEMMA TeamStays ==
  /\ \A r \in Request :
       Enqueue(r) \/ LeaderStep(r) \/ LeaderTimeout(r) \/ KillLeader(r) =>
         UNCHANGED team
  /\ \A h \in Hook :
       HookStep(h) \/ LockTimeout(h) \/ KillHook(h) => UNCHANGED team
BY DEF Enqueue, LeaderStep, Queue, QueueLocally, Receive, Fallback,
       MarkNotified, Notify, Decide, RecordStatus, WriteRecord, LeaderTimeout,
       KillLeader, HookStep, BeginDrain, SkipAll, Claim, Inject, Verify,
       Reread, Finalize, WriteFinal, LockTimeout, KillHook

\* What may have had a request typed again is never forgotten.
LEMMA HistoryGrows ==
  ASSUME TypeOK, [Next]_vars, NEW r \in Request
  PROVE  why[r] \subseteq why'[r]
<1>1. \A R, cause : Noting(R, cause) \/ NotingOnly(R, cause) =>
                      why[r] \subseteq why'[r]
  BY DEF Noting, NotingOnly
<1>2. NotingLost => why[r] \subseteq why'[r]  BY <1>1 DEF NotingLost
<1>3. ASSUME NEW s \in Request,
             \/ Enqueue(s) \/ LeaderStep(s) \/ LeaderTimeout(s)
             \/ ExpireLease(s) \/ KillLeader(s)
      PROVE  why[r] \subseteq why'[r]
  BY <1>1, <1>2, <1>3
     DEF Enqueue, LeaderStep, Queue, QueueLocally, Receive, Fallback,
         MarkNotified, Notify, Decide, RecordStatus, WriteRecord,
         LeaderTimeout, ExpireLease, KillLeader
<1>4. ASSUME NEW h \in Hook, HookStep(h) \/ LockTimeout(h) \/ KillHook(h)
      PROVE  why[r] \subseteq why'[r]
  BY <1>1, <1>2, <1>4
     DEF HookStep, BeginDrain, SkipAll, Claim, Inject, Verify, Reread, Finalize,
         WriteFinal, LockTimeout, KillHook
<1>5. ASSUME NEW t \in Team, TheirRead(t) \/ TheirWrite(t)
      PROVE  why[r] \subseteq why'[r]
  BY <1>1, <1>5 DEF TheirRead, TheirWrite
<1>6. CASE Rewrite \/ BreakLock \/ UNCHANGED vars
  BY <1>2, <1>6 DEF Rewrite, BreakLock, vars
<1>7. QED BY <1>3, <1>4, <1>5, <1>6 DEF Next

-----------------------------------------------------------------------------
(* Types, and who holds the lock.                                          *)

\* A drain that has read the requests holds the lock, and what it types is one
\* of its claims, which was pending when it was read again.
OrderlyDrain(h) ==
  LET d == hook[h] IN
  /\ d.step \in {"reading", "finalizing", "writing"} => lock = h
  /\ d.req # Nobody <=> d.step \in {"typing", "typed", "finalizing", "writing"}
  /\ d.req # Nobody => d.req \in d.claims
  /\ d.step \in {"idle", "reading"} => d.claims = {}
  /\ d.step \in {"finalizing", "writing"} => copy[d.req].status = "pending"

\* So does the leader that adds or records a request.
OrderlyCall(r) ==
  leader[r].step \in {"queueing", "unqueued", "writing"} => lock = r

BaseInv ==
  /\ TypeOK
  /\ \A h \in Hook : OrderlyDrain(h)
  /\ \A r \in Request : OrderlyCall(r)

LEMMA InitBaseInv == Init => BaseInv
<1> SUFFICES ASSUME Init  PROVE BaseInv
  OBVIOUS
<1>1. TypeOK
  BY EmptyIs, NoCallIs, NoDrainIs, NoWriterIs DEF Init, TypeOK
<1>2. \A h \in Hook : OrderlyDrain(h)
  BY NoDrainIs DEF Init, OrderlyDrain
<1>3. \A r \in Request : OrderlyCall(r)
  BY NoCallIs DEF Init, OrderlyCall
<1>4. QED BY <1>1, <1>2, <1>3 DEF BaseInv

\* The lock is taken when it is free, and let go by its holder.
LEMMA OthersKeepOrder ==
  ASSUME BaseInv, NEW who,
         \/ UNCHANGED <<lock, copy>>
         \/ lock = Nobody
         \/ lock = who
  PROVE  /\ \A g \in Hook \ {who} :
              hook'[g] = hook[g] => OrderlyDrain(g)'
         /\ \A s \in Request \ {who} :
              leader'[s] = leader[s] => OrderlyCall(s)'
<1>1. ASSUME NEW g \in Hook \ {who}, hook'[g] = hook[g]
      PROVE  OrderlyDrain(g)'
  <2>1. OrderlyDrain(g)  BY DEF BaseInv
  <2>2. CASE UNCHANGED <<lock, copy>>  BY <1>1, <2>1, <2>2 DEF OrderlyDrain
  <2>3. CASE lock # g  BY <1>1, <2>1, <2>3 DEF OrderlyDrain
  <2>4. QED BY <2>2, <2>3
<1>2. ASSUME NEW s \in Request \ {who}, leader'[s] = leader[s]
      PROVE  OrderlyCall(s)'
  <2>1. OrderlyCall(s)  BY DEF BaseInv
  <2>2. CASE UNCHANGED <<lock, copy>>  BY <1>2, <2>1, <2>2 DEF OrderlyCall
  <2>3. CASE lock # s  BY <1>2, <2>1, <2>3 DEF OrderlyCall
  <2>4. QED BY <2>2, <2>3
<1>3. QED BY <1>1, <1>2

\* A step of the leader's call for r.
LEMMA LeaderKeepsBase ==
  ASSUME BaseInv, NEW r \in Request, TypeOK', hook' = hook,
         \A s \in Request \ {r} : leader'[s] = leader[s],
         OrderlyCall(r)',
         UNCHANGED <<lock, copy>> \/ lock \in {Nobody, r}
  PROVE  BaseInv'
<1>1. /\ \A g \in Hook \ {r} : hook'[g] = hook[g] => OrderlyDrain(g)'
      /\ \A s \in Request \ {r} : leader'[s] = leader[s] => OrderlyCall(s)'
  BY OthersKeepOrder
<1>2. \A g \in Hook : g # r /\ hook'[g] = hook[g]  OBVIOUS
<1>3. QED BY <1>1, <1>2 DEF BaseInv

\* A step of the drain h.
LEMMA DrainKeepsBase ==
  ASSUME BaseInv, NEW h \in Hook, TypeOK', leader' = leader,
         \A g \in Hook \ {h} : hook'[g] = hook[g],
         OrderlyDrain(h)',
         UNCHANGED <<lock, copy>> \/ lock \in {Nobody, h}
  PROVE  BaseInv'
<1>1. /\ \A g \in Hook \ {h} : hook'[g] = hook[g] => OrderlyDrain(g)'
      /\ \A s \in Request \ {h} : leader'[s] = leader[s] => OrderlyCall(s)'
  BY OthersKeepOrder
<1>2. \A s \in Request : s # h /\ leader'[s] = leader[s]  OBVIOUS
<1>3. QED BY <1>1, <1>2 DEF BaseInv

LEMMA LeaderKeepsOrder ==
  ASSUME BaseInv, NEW r \in Request,
         Enqueue(r) \/ LeaderStep(r) \/ LeaderTimeout(r) \/ KillLeader(r)
  PROVE  BaseInv'
<1> USE DEF Goes
<1>0. TypeOK /\ OrderlyCall(r)  BY DEF BaseInv
<1>1. CASE Enqueue(r)
  <2>1. TypeOK' /\ OrderlyCall(r)' /\ hook' = hook /\ lock = Nobody
    BY <1>0, <1>1, EnqueueIs, AcquireIs DEF TypeOK, OrderlyCall
  <2>2. QED BY <1>0, <1>1, <2>1, EnqueueIs, LeaderKeepsBase
<1>2. CASE Queue(r)
  <2>1. PICK ok \in BOOLEAN :
          /\ Exec(<<"queued", r>>, ok)
          /\ ok => Release
          /\ ~ok => UNCHANGED <<lock, copy>>
          /\ Goes(r, IF ok THEN "waiting" ELSE "unqueued", "none", "failed",
                  "none")
    BY <1>0, <1>2, QueueIs
  <2>2. <<"queued", r>> \in DispatchEvent  BY DEF DispatchEvent
  <2>3. /\ log' \subseteq DispatchEvent /\ view' \in [Request -> Record]
        /\ faults' \in 0..MaxFaults
    BY <1>0, <2>1, <2>2, ExecIs
  <2>4. /\ why' \in [Request -> SUBSET Cause]
        /\ UNCHANGED <<lease, team, hook, typed, kills, slow, others>>
        /\ lock = r
    BY <1>0, <1>2, QueueIs, NotingLostIs DEF OrderlyCall
  <2>5. TypeOK'
    BY <1>0, <2>1, <2>3, <2>4, ReleaseIs DEF TypeOK
  <2>6. OrderlyCall(r)'  BY <2>1, <2>4 DEF OrderlyCall
  <2>7. QED BY <2>1, <2>4, <2>5, <2>6, LeaderKeepsBase
<1>3. CASE QueueLocally(r)
  <2>1. TypeOK'
    BY <1>0, <1>3, QueueLocallyIs, NotingLostIs, ReleaseIs DEF TypeOK
  <2>2. OrderlyCall(r)' /\ hook' = hook /\ lock = r
    BY <1>0, <1>3, QueueLocallyIs DEF OrderlyCall
  <2>3. QED BY <1>0, <1>3, <2>1, <2>2, QueueLocallyIs, LeaderKeepsBase
<1>4. CASE Receive(r)
  <2>1. TypeOK' /\ OrderlyCall(r)' /\ UNCHANGED <<hook, lock, copy>>
    BY <1>0, <1>4, ReceiveIs DEF TypeOK, OrderlyCall
  <2>2. QED BY <1>0, <1>4, <2>1, ReceiveIs, LeaderKeepsBase
<1>5. CASE Fallback(r)
  <2>1. "fallback" \in Cause  BY DEF Cause
  <2>2. why' \in [Request -> SUBSET Cause]
    BY <1>0, <1>5, <2>1, FallbackIs, NotingOnlyIs
  <2>3. TypeOK' /\ OrderlyCall(r)' /\ UNCHANGED <<hook, lock, copy>>
    BY <1>0, <1>5, <2>2, FallbackIs DEF TypeOK, OrderlyCall
  <2>4. QED BY <1>0, <1>5, <2>3, FallbackIs, LeaderKeepsBase
<1>6. CASE MarkNotified(r)
  <2>1. TypeOK' /\ OrderlyCall(r)' /\ UNCHANGED <<hook, lock, copy>>
    BY <1>0, <1>6, MarkNotifiedIs DEF TypeOK, OrderlyCall
  <2>2. QED BY <1>0, <1>6, <2>1, MarkNotifiedIs, LeaderKeepsBase
<1>7. CASE Notify(r)
  <2>1. PICK ok \in BOOLEAN :
          /\ Exec(<<"notified", r>>, ok)
          /\ Goes(r, IF ok THEN "done" ELSE "recording", "pending", "notified",
                  "ok")
    BY <1>0, <1>7, NotifyIs
  <2>2. <<"notified", r>> \in DispatchEvent  BY DEF DispatchEvent
  <2>3. /\ log' \subseteq DispatchEvent /\ view' \in [Request -> Record]
        /\ faults' \in 0..MaxFaults
    BY <1>0, <2>1, <2>2, ExecIs
  <2>4. /\ why' \in [Request -> SUBSET Cause]
        /\ UNCHANGED <<lock, copy, lease, team, hook, typed, kills, slow,
                       others>>
    BY <1>0, <1>7, NotifyIs, NotingLostIs
  <2>5. TypeOK' /\ OrderlyCall(r)'
    BY <1>0, <2>1, <2>3, <2>4 DEF TypeOK, OrderlyCall
  <2>6. QED BY <2>1, <2>4, <2>5, LeaderKeepsBase
<1>8. CASE Decide(r)
  <2>1. TypeOK' /\ OrderlyCall(r)' /\ UNCHANGED <<hook, lock, copy>>
    BY <1>0, <1>8, DecideIs DEF TypeOK, OrderlyCall
  <2>2. QED BY <1>0, <1>8, <2>1, DecideIs, LeaderKeepsBase
<1>9. CASE RecordStatus(r)
  <2>1. TypeOK' /\ OrderlyCall(r)' /\ hook' = hook /\ lock = Nobody
    BY <1>0, <1>9, RecordStatusIs, AcquireIs DEF TypeOK, OrderlyCall
  <2>2. QED BY <1>0, <1>9, <2>1, RecordStatusIs, LeaderKeepsBase
<1>10. CASE WriteRecord(r)
  <2>1. TypeOK'
    BY <1>0, <1>10, WriteRecordIs, NotingLostIs, ReleaseIs DEF TypeOK
  <2>2. OrderlyCall(r)' /\ hook' = hook /\ lock = r
    BY <1>0, <1>10, WriteRecordIs DEF OrderlyCall
  <2>3. QED BY <1>0, <1>10, <2>1, <2>2, WriteRecordIs, LeaderKeepsBase
<1>11. CASE LeaderTimeout(r)
  <2>1. "unrecorded" \in Cause  BY DEF Cause
  <2>2. why' \in [Request -> SUBSET Cause]
    BY <1>0, <1>11, <2>1, LeaderTimeoutIs, NotingOnlyIs
  <2>3. TypeOK' /\ OrderlyCall(r)' /\ UNCHANGED <<hook, lock, copy>>
    BY <1>0, <1>11, <2>2, LeaderTimeoutIs DEF TypeOK, OrderlyCall
  <2>4. QED BY <1>0, <1>11, <2>3, LeaderTimeoutIs, LeaderKeepsBase
<1>12. CASE KillLeader(r)
  <2>1. TypeOK' /\ OrderlyCall(r)' /\ UNCHANGED <<hook, lock, copy>>
    BY <1>0, <1>12, KillLeaderIs DEF TypeOK, OrderlyCall
  <2>2. QED BY <1>0, <1>12, <2>1, KillLeaderIs, LeaderKeepsBase
<1>13. QED
  BY <1>1, <1>2, <1>3, <1>4, <1>5, <1>6, <1>7, <1>8, <1>9, <1>10, <1>11, <1>12
     DEF LeaderStep

LEMMA DrainsKeepOrder ==
  ASSUME BaseInv, NEW h \in Hook, HookStep(h) \/ LockTimeout(h) \/ KillHook(h)
  PROVE  BaseInv'
<1> USE DEF Turns, Stops
<1>0. TypeOK /\ OrderlyDrain(h)  BY DEF BaseInv
<1>1. /\ hook[h].claims \in SUBSET Request
      /\ hook[h].req \in Request \cup {Nobody}
  BY <1>0, DrainOf
<1>2. CASE BeginDrain(h)
  <2>1. TypeOK' /\ OrderlyDrain(h)' /\ leader' = leader /\ lock = Nobody
    BY <1>0, <1>2, BeginDrainIs, AcquireIs DEF TypeOK, OrderlyDrain
  <2>2. QED BY <1>0, <1>2, <2>1, BeginDrainIs, DrainKeepsBase
<1>3. CASE SkipAll(h)
  <2>1. TypeOK' /\ OrderlyDrain(h)' /\ leader' = leader /\ lock = h
    BY <1>0, <1>3, SkipAllIs, ReleaseIs DEF TypeOK, OrderlyDrain
  <2>2. QED BY <1>0, <1>3, <2>1, SkipAllIs, DrainKeepsBase
<1>4. CASE Claim(h)
  <2>1. TypeOK'
    BY <1>0, <1>4, ClaimIs, ReleaseIs, NotingLostIs DEF TypeOK
  <2>2. OrderlyDrain(h)' /\ leader' = leader /\ lock = h
    BY <1>0, <1>4, ClaimIs DEF OrderlyDrain
  <2>3. QED BY <1>0, <1>4, <2>1, <2>2, ClaimIs, DrainKeepsBase
<1>5. CASE Inject(h)
  <2>1. TypeOK'  BY <1>0, <1>5, InjectIs DEF TypeOK
  <2>2. OrderlyDrain(h)' /\ UNCHANGED <<leader, lock, copy>>
    BY <1>0, <1>5, InjectIs DEF OrderlyDrain
  <2>3. QED BY <1>0, <1>5, <2>1, <2>2, InjectIs, DrainKeepsBase
<1>6. CASE Verify(h)
  <2>1. hook[h].req \in Request
    BY <1>0, <1>1, <1>6, VerifyIs DEF OrderlyDrain
  <2>2. <<"delivered", hook[h].req>> \in DispatchEvent
    BY <2>1 DEF DispatchEvent
  <2>3. /\ log' \subseteq DispatchEvent /\ view' \in [Request -> Record]
        /\ faults' \in 0..MaxFaults
    <3>1. CASE UNCHANGED <<log, view, faults>>  BY <1>0, <3>1 DEF TypeOK
    <3>2. CASE \E ok \in BOOLEAN : Exec(<<"delivered", hook[h].req>>, ok)
      BY <1>0, <2>2, <3>2, ExecIs
    <3>3. QED BY <1>0, <1>6, <3>1, <3>2, VerifyIs
  <2>4. TypeOK'
    <3>1. why' \in [Request -> SUBSET Cause]
      BY <1>0, <1>6, VerifyIs, NotingLostIs
    <3>2. /\ hook' \in [Hook -> Drain]
          /\ UNCHANGED <<lock, copy, lease, team, leader, typed, kills, slow,
                         others>>
      BY <1>0, <1>6, VerifyIs
    <3>3. QED BY <1>0, <2>3, <3>1, <3>2 DEF TypeOK
  <2>5. OrderlyDrain(h)' /\ UNCHANGED <<leader, lock, copy>>
    BY <1>0, <1>6, VerifyIs DEF OrderlyDrain
  <2>6. QED BY <1>0, <1>6, <2>4, <2>5, VerifyIs, DrainKeepsBase
<1>7. CASE Reread(h)
  <2>1. hook[h].req \in Request
    BY <1>0, <1>1, <1>7, RereadIs DEF OrderlyDrain
  <2>2. CASE /\ StillPending(h) /\ Acquire(h)
             /\ Turns(h, "finalizing", hook[h].claims, hook[h].req,
                      hook[h].result)
             /\ hook'[h].again = hook[h].again
             /\ UNCHANGED lease
    <3>1. TypeOK' /\ leader' = leader /\ lock = Nobody
      BY <1>0, <1>7, <2>2, RereadIs, AcquireIs DEF TypeOK
    <3>2. OrderlyDrain(h)'
      BY <1>0, <1>7, <2>1, <2>2, RereadIs, AcquireIs
         DEF OrderlyDrain, StillPending
    <3>3. QED BY <2>2, <3>1, <3>2, DrainKeepsBase
  <2>3. CASE ~StillPending(h) /\ Finished(h) /\ UNCHANGED <<lock, copy>>
    <3>1. TypeOK' /\ leader' = leader
      BY <1>0, <1>7, <2>1, <2>3, RereadIs, FinishedIs DEF TypeOK
    <3>2. OrderlyDrain(h)'
      BY <1>0, <2>1, <2>3, FinishedIs DEF OrderlyDrain
    <3>3. QED BY <1>0, <2>1, <2>3, <3>1, <3>2, FinishedIs, DrainKeepsBase
  <2>4. QED BY <1>0, <1>7, <2>2, <2>3, RereadIs
<1>8. CASE LockTimeout(h)
  <2>1. "unrecorded" \in Cause  BY DEF Cause
  <2>2. why' \in [Request -> SUBSET Cause]
    BY <1>0, <1>8, <2>1, LockTimeoutIs, NotingOnlyIs
  <2>3. /\ slow' \in 0..MaxSlow /\ lease' \in [Request -> Hook \cup {Nobody}]
        /\ Stops(h)
        /\ UNCHANGED <<log, view, lock, copy, team, leader, typed, faults,
                       kills, others>>
    BY <1>0, <1>8, LockTimeoutIs
  <2>4. TypeOK'  BY <1>0, <2>2, <2>3 DEF TypeOK
  <2>5. OrderlyDrain(h)'  BY <2>3 DEF OrderlyDrain
  <2>6. QED BY <2>3, <2>4, <2>5, DrainKeepsBase
<1>9. CASE Finalize(h)
  <2>1. hook[h].req \in Request
    BY <1>0, <1>1, <1>9, FinalizeIs DEF OrderlyDrain
  <2>2. <<Verdict(h), hook[h].req>> \in DispatchEvent
    BY <2>1 DEF DispatchEvent, Verdict
  <2>3. /\ log' \subseteq DispatchEvent /\ view' \in [Request -> Record]
        /\ faults' \in 0..MaxFaults
    <3>1. CASE UNCHANGED <<log, view, faults>>  BY <1>0, <3>1 DEF TypeOK
    <3>2. CASE \E ok \in BOOLEAN : Exec(<<Verdict(h), hook[h].req>>, ok)
      BY <1>0, <2>2, <3>2, ExecIs
    <3>3. QED BY <1>0, <1>9, <3>1, <3>2, FinalizeIs
  <2>4. TypeOK'
    <3>1. why' \in [Request -> SUBSET Cause]
      BY <1>0, <1>9, FinalizeIs, NotingLostIs
    <3>2. /\ hook' \in [Hook -> Drain]
          /\ UNCHANGED <<lock, copy, lease, team, leader, typed, kills, slow,
                         others>>
      BY <1>0, <1>9, FinalizeIs
    <3>3. QED BY <1>0, <2>3, <3>1, <3>2 DEF TypeOK
  <2>5. OrderlyDrain(h)' /\ UNCHANGED <<leader, lock, copy>>
    BY <1>0, <1>9, FinalizeIs DEF OrderlyDrain
  <2>6. QED BY <1>0, <1>9, <2>4, <2>5, FinalizeIs, DrainKeepsBase
<1>10. CASE WriteFinal(h)
  <2>1. hook[h].req \in Request
    BY <1>0, <1>1, <1>10 DEF OrderlyDrain, WriteFinal, HookAt
  <2>2. "retried" \in Cause  BY DEF Cause
  <2>3. why' \in [Request -> SUBSET Cause]
    BY <1>0, <1>10, <2>1, <2>2, WriteFinalIs, NotingIs
  <2>4. TypeOK'
    <3>1. /\ view' \in [Request -> Record] /\ Release /\ Finished(h)
          /\ UNCHANGED <<log, team, leader, typed, faults, kills, slow,
                         others>>
      BY <1>0, <1>10, <2>1, WriteFinalIs
    <3>2. /\ hook' \in [Hook -> Drain]
          /\ lease' \in [Request -> Hook \cup {Nobody}]
      BY <1>0, <2>1, <3>1, FinishedIs
    <3>3. QED BY <1>0, <2>3, <3>1, <3>2, ReleaseIs DEF TypeOK
  <2>5. OrderlyDrain(h)' /\ leader' = leader /\ lock = h
    BY <1>0, <1>10, <2>1, WriteFinalIs, FinishedIs DEF OrderlyDrain
  <2>6. QED
    BY <1>0, <1>10, <2>1, <2>4, <2>5, WriteFinalIs, FinishedIs, DrainKeepsBase
<1>11. CASE KillHook(h)
  <2>1. "unrecorded" \in Cause  BY DEF Cause
  <2>2. why' \in [Request -> SUBSET Cause]
    BY <1>0, <1>11, <2>1, KillHookIs, NotingOnlyIs
  <2>3. TypeOK' /\ OrderlyDrain(h)' /\ UNCHANGED <<leader, lock, copy>>
    BY <1>0, <1>11, <2>2, KillHookIs DEF TypeOK, OrderlyDrain
  <2>4. QED BY <1>0, <1>11, <2>3, KillHookIs, DrainKeepsBase
<1>12. QED
  BY <1>2, <1>3, <1>4, <1>5, <1>6, <1>7, <1>8, <1>9, <1>10, <1>11 DEF HookStep

LEMMA NextKeepsBase == BaseInv /\ [Next]_vars => BaseInv'
<1> SUFFICES ASSUME BaseInv, [Next]_vars  PROVE BaseInv'
  OBVIOUS
<1>0. TypeOK  BY DEF BaseInv
<1>1. CASE UNCHANGED vars
  BY <1>1 DEF vars, BaseInv, TypeOK, OrderlyDrain, OrderlyCall
<1>2. ASSUME TypeOK', UNCHANGED <<lock, copy, leader, hook>>  PROVE BaseInv'
  BY <1>2 DEF BaseInv, OrderlyDrain, OrderlyCall
<1>3. ASSUME NEW r \in Request, ExpireLease(r)  PROVE BaseInv'
  <2>1. why' \in [Request -> SUBSET Cause]
    <3>1. CASE UNCHANGED why  BY <1>0, <3>1 DEF TypeOK
    <3>2. CASE NotingOnly({r}, "stolen")
      <4>1. "stolen" \in Cause  BY DEF Cause
      <4>2. QED BY <1>0, <3>2, <4>1, NotingOnlyIs
    <3>3. QED BY <1>0, <1>3, <3>1, <3>2, ExpireLeaseIs
  <2>2. TypeOK' /\ UNCHANGED <<lock, copy, leader, hook>>
    BY <1>0, <1>3, <2>1, ExpireLeaseIs DEF TypeOK
  <2>3. QED BY <1>2, <2>2
<1>4. CASE Rewrite
  <2>1. TypeOK' /\ UNCHANGED <<lock, copy, leader, hook>>
    BY <1>0, <1>4, RewriteIs, NotingLostIs DEF TypeOK
  <2>2. QED BY <1>2, <2>1
<1>5. CASE BreakLock
  <2>1. TypeOK'  BY <1>0, <1>5, ReleaseIs DEF TypeOK, BreakLock
  <2>2. UNCHANGED <<leader, hook>>  BY <1>5 DEF BreakLock
  <2>3. lock \in Hook => hook[lock].step = "idle"
    BY <1>5 DEF BreakLock, HookAt
  <2>4. lock \in Request => leader[lock].step = "done"
    BY <1>5 DEF BreakLock, LeaderAt
  <2>5. \A h \in Hook : OrderlyDrain(h)'
    BY <2>2, <2>3 DEF BaseInv, OrderlyDrain
  <2>6. \A r \in Request : OrderlyCall(r)'
    BY <2>2, <2>4 DEF BaseInv, OrderlyCall
  <2>7. QED BY <2>1, <2>5, <2>6 DEF BaseInv
<1>6. ASSUME NEW t \in Team, TheirRead(t) \/ TheirWrite(t)  PROVE BaseInv'
  <2>1. TypeOK' /\ UNCHANGED <<lock, copy, leader, hook>>
    BY <1>0, <1>6, TheirReadIs, TheirWriteIs DEF TypeOK
  <2>2. QED BY <1>2, <2>1
<1>7. QED
  BY <1>1, <1>3, <1>4, <1>5, <1>6, LeaderKeepsOrder, DrainsKeepOrder DEF Next

LEMMA OrderIsKept == Spec => []BaseInv
<1>1. QED BY InitBaseInv, NextKeepsBase, PTL DEF Spec

\* Requests, leases, calls and drains have their types: every record that the
\* leader or a drain passes on to its next step, and dispatch.json with what the
\* engine or a holder of the lock writes to it.
THEOREM TypeCorrect == Spec => []TypeOK
<1>1. BaseInv => TypeOK  BY DEF BaseInv
<1>2. QED BY <1>1, OrderIsKept, PTL

-----------------------------------------------------------------------------
(* What is said to be typed was typed.                                     *)

\* A record that says so, or counts an attempt that did not fail, is right.
Backed(record, r) ==
  /\ record.status \in {"notified", "delivered"} => typed[r] > 0
  /\ record.attempts > 0 => typed[r] > 0 \/ record.status = "failed"

LogSaid(r) ==
  <<"notified", r>> \in log \/ <<"delivered", r>> \in log => typed[r] > 0

ViewSaid(r) == Backed(view[r], r)

CopySaid(r) == Backed(copy[r], r)

TeamSaid(t, r) == Backed(team[t].copy[r], r)

CallSaid(r) ==
  \/ leader[r].outcome = "ok" \/ leader[r].to = "notified"
  \/ leader[r].step \in {"marking", "notifying"}
  => typed[r] > 0

DrainSaid(h, r) ==
  \/ r \in hook[h].again
  \/ hook[h].req = r /\ hook[h].result \in {"unconfirmed", "confirmed"}
  => typed[r] > 0

SaidInv ==
  \A r \in Request :
    /\ LogSaid(r) /\ ViewSaid(r) /\ CopySaid(r) /\ CallSaid(r)
    /\ \A h \in Hook : DrainSaid(h, r)
    /\ \A t \in Team : TeamSaid(t, r)

LEMMA SaidInvIsTyped == SaidInv => SaidIsTyped
BY DEF SaidInv, SaidIsTyped, ViewSaid, Backed, CallSaid

LEMMA InitSaidInv == Init => SaidInv
<1> SUFFICES ASSUME Init, NEW r \in Request
             PROVE  /\ LogSaid(r) /\ ViewSaid(r) /\ CopySaid(r) /\ CallSaid(r)
                    /\ \A h \in Hook : DrainSaid(h, r)
                    /\ \A t \in Team : TeamSaid(t, r)
  BY DEF SaidInv
<1>1. LogSaid(r) /\ ViewSaid(r) /\ CopySaid(r) /\ CallSaid(r)
  BY EmptyIs, NoCallIs DEF Init, LogSaid, ViewSaid, CopySaid, Backed, CallSaid
<1>2. \A h \in Hook : DrainSaid(h, r)  BY NoDrainIs DEF Init, DrainSaid
<1>3. \A t \in Team : TeamSaid(t, r)
  BY NoWriterIs DEF Init, TeamSaid, Backed
<1>4. QED BY <1>1, <1>2, <1>3

\* What is left alone stays right, for nothing that was typed is forgotten.
LEMMA SaidKept ==
  ASSUME BaseInv, SaidInv, TypeOK', \A r \in Request : typed'[r] >= typed[r]
  PROVE  /\ log' = log => \A r \in Request : LogSaid(r)'
         /\ view' = view => \A r \in Request : ViewSaid(r)'
         /\ copy' \in {copy, view} => \A r \in Request : CopySaid(r)'
         /\ \A r \in Request : leader'[r] = leader[r] => CallSaid(r)'
         /\ \A r \in Request : view'[r] = copy[r] => ViewSaid(r)'
         /\ \A h \in Hook, r \in Request :
              hook'[h] = hook[h] => DrainSaid(h, r)'
         /\ \A t \in Team, r \in Request :
              team'[t] = team[t] => TeamSaid(t, r)'
<1> USE RecordOf DEF SaidInv, BaseInv
<1>1. \A r \in Request : typed[r] > 0 => typed'[r] > 0
  BY DEF TypeOK
<1>2. log' = log => \A r \in Request : LogSaid(r)'
  BY <1>1 DEF LogSaid
<1>3. view' = view => \A r \in Request : ViewSaid(r)'
  BY <1>1 DEF ViewSaid, Backed
<1>4. copy' \in {copy, view} => \A r \in Request : CopySaid(r)'
  BY <1>1 DEF ViewSaid, CopySaid, Backed
<1>5. \A r \in Request : leader'[r] = leader[r] => CallSaid(r)'
  BY <1>1 DEF CallSaid
<1>6. \A r \in Request : view'[r] = copy[r] => ViewSaid(r)'
  BY <1>1 DEF ViewSaid, CopySaid, Backed
<1>7. \A h \in Hook, r \in Request : hook'[h] = hook[h] => DrainSaid(h, r)'
  BY <1>1 DEF DrainSaid
<1>8. ASSUME NEW t \in Team, NEW r \in Request, team'[t] = team[t]
      PROVE  TeamSaid(t, r)'
  <2>1. team[t].copy[r].attempts \in Nat  BY DEF TypeOK, Writer, Record
  <2>2. TeamSaid(t, r)  OBVIOUS
  <2>3. QED BY <1>1, <1>8, <2>1, <2>2 DEF TeamSaid, Backed
<1>9. QED BY <1>2, <1>3, <1>4, <1>5, <1>6, <1>7, <1>8

LEMMA ReleaseSaid ==
  ASSUME Release  PROVE \A r \in Request : CopySaid(r)'
BY ReleaseIs DEF CopySaid, Backed

\* dispatch.json says what the log says.
LEMMA ShownSaid ==
  ASSUME view' = Shown(log'), \A r \in Request : LogSaid(r)'
  PROVE  \A r \in Request : ViewSaid(r)'
<1>1. \A r \in Request : /\ view'[r].attempts = 0
                         /\ view'[r].status = LogStatus(log', r)
  BY ShownIs
<1>2. \A r \in Request :
        /\ LogStatus(log', r) = "notified" => <<"notified", r>> \in log'
        /\ LogStatus(log', r) = "delivered" => <<"delivered", r>> \in log'
  BY DEF LogStatus
<1>3. ASSUME NEW r \in Request  PROVE ViewSaid(r)'
  <2>1. view'[r].attempts = 0 /\ view'[r].status = LogStatus(log', r)
    BY <1>1
  <2>2. \/ <<"notified", r>> \in log' \/ <<"delivered", r>> \in log'
        => typed'[r] > 0
    BY DEF LogSaid
  <2>3. view'[r].status \in {"notified", "delivered"} => typed'[r] > 0
    BY <1>2, <2>1, <2>2
  <2>4. view'[r].attempts > 0 => FALSE
    BY <2>1
  <2>5. QED BY <2>3, <2>4 DEF ViewSaid, Backed
<1>4. QED BY <1>3

LEMMA ExecSaid ==
  ASSUME BaseInv, SaidInv, TypeOK', NEW e \in DispatchEvent,
         NEW ok \in BOOLEAN, Exec(e, ok), typed' = typed,
         e[1] \in {"notified", "delivered"} => typed[e[2]] > 0
  PROVE  \A r \in Request : LogSaid(r)' /\ ViewSaid(r)'
<1>1. log' \in {log, log \cup {e}} /\ view' \in {view, Shown(log')}
  BY ExecIs DEF BaseInv
<1>2. \A r \in Request : LogSaid(r)'
  BY <1>1 DEF SaidInv, LogSaid
<1>3. view' = view => \A r \in Request : ViewSaid(r)'
  BY DEF SaidInv, ViewSaid, Backed
<1>4. QED BY <1>1, <1>2, <1>3, ShownSaid

LEMMA LeaderKeepsSaid ==
  ASSUME BaseInv, SaidInv, TypeOK', NEW r \in Request,
         Enqueue(r) \/ LeaderStep(r) \/ LeaderTimeout(r) \/ KillLeader(r)
  PROVE  SaidInv'
<1> USE DEF Goes
<1>0. TypeOK /\ UNCHANGED team  BY TeamStays DEF BaseInv
<1>1. LogSaid(r) /\ ViewSaid(r) /\ CopySaid(r) /\ CallSaid(r)
  BY DEF SaidInv
<1>2. typed[r] \in Nat  BY <1>0, RecordOf
<1>3. ASSUME \A s \in Request : typed'[s] >= typed[s], UNCHANGED hook,
             \A s \in Request : LogSaid(s)' /\ ViewSaid(s)' /\ CopySaid(s)',
             \A s \in Request \ {r} : leader'[s] = leader[s], CallSaid(r)'
      PROVE  SaidInv'
  BY <1>0, <1>3, SaidKept DEF SaidInv
<1>4. ASSUME UNCHANGED <<log, view, typed, hook>>,
             \A s \in Request : CopySaid(s)',
             \A s \in Request \ {r} : leader'[s] = leader[s], CallSaid(r)'
      PROVE  SaidInv'
  <2>1. \A s \in Request : typed'[s] >= typed[s]  BY <1>0, <1>4, RecordOf
  <2>2. QED BY <1>3, <1>4, <2>1, SaidKept
<1>5. ASSUME UNCHANGED <<log, view, copy, typed, hook>>,
             \A s \in Request \ {r} : leader'[s] = leader[s], CallSaid(r)'
      PROVE  SaidInv'
  <2>1. \A s \in Request : typed'[s] >= typed[s]  BY <1>0, <1>5, RecordOf
  <2>2. QED BY <1>4, <1>5, <2>1, SaidKept
<1>6. CASE Enqueue(r)
  <2>1. /\ copy' = view /\ UNCHANGED <<log, view, typed, hook>>
        /\ \A s \in Request \ {r} : leader'[s] = leader[s]
    BY <1>0, <1>6, EnqueueIs, AcquireIs
  <2>2. CallSaid(r)'  BY <1>0, <1>6, EnqueueIs DEF CallSaid
  <2>3. \A s \in Request : typed'[s] >= typed[s]  BY <1>0, <2>1, RecordOf
  <2>4. QED BY <1>4, <2>1, <2>2, <2>3, SaidKept
<1>7. CASE Queue(r)
  <2>1. PICK ok \in BOOLEAN :
          /\ Exec(<<"queued", r>>, ok)
          /\ ok => Release
          /\ ~ok => UNCHANGED <<lock, copy>>
          /\ Goes(r, IF ok THEN "waiting" ELSE "unqueued", "none", "failed",
                  "none")
    BY <1>0, <1>7, QueueIs
  <2>2. UNCHANGED <<typed, hook>>  BY <1>0, <1>7, QueueIs
  <2>3. <<"queued", r>> \in DispatchEvent  BY DEF DispatchEvent
  <2>4. \A s \in Request : LogSaid(s)' /\ ViewSaid(s)'
    BY <2>1, <2>2, <2>3, ExecSaid
  <2>5. \A s \in Request : typed'[s] >= typed[s]  BY <1>0, <2>2, RecordOf
  <2>6. \A s \in Request : CopySaid(s)'
    BY <2>1, <2>5, ReleaseSaid, SaidKept
  <2>7. CallSaid(r)'  BY <2>1 DEF CallSaid
  <2>8. QED BY <1>3, <2>1, <2>2, <2>4, <2>5, <2>6, <2>7
<1>8. CASE QueueLocally(r)
  <2>1. /\ view'[r].status = "pending" /\ view'[r].attempts = 0
        /\ \A s \in Request \ {r} : view'[s] = copy[s]
        /\ Goes(r, "waiting", "none", "failed", "none") /\ Release
        /\ UNCHANGED <<log, hook, typed>>
    BY <1>0, <1>8, QueueLocallyIs
  <2>2. \A s \in Request : typed'[s] >= typed[s]  BY <1>0, <2>1, RecordOf
  <2>3. ViewSaid(r)'  BY <2>1 DEF ViewSaid, Backed
  <2>4. \A s \in Request : LogSaid(s)' /\ ViewSaid(s)'
    BY <2>1, <2>2, <2>3, SaidKept
  <2>5. CallSaid(r)'  BY <2>1 DEF CallSaid
  <2>6. QED BY <1>3, <2>1, <2>2, <2>4, <2>5, ReleaseSaid
<1>9. CASE Receive(r)
  <2>1. CallSaid(r)'
    BY <1>0, <1>1, <1>9, ReceiveIs DEF CallSaid, ViewSaid, Backed
  <2>2. QED BY <1>0, <1>5, <1>9, <2>1, ReceiveIs
<1>10. CASE Fallback(r)
  <2>1. /\ typed'[r] >= typed[r] /\ \A s \in Request \ {r} : typed'[s] = typed[s]
        /\ UNCHANGED <<log, view, copy, hook>>
    BY <1>0, <1>10, FallbackIs
  <2>2. \A s \in Request : typed'[s] >= typed[s]  BY <1>0, <2>1, RecordOf
  <2>3. \A s \in Request : LogSaid(s)' /\ ViewSaid(s)' /\ CopySaid(s)'
    BY <2>1, <2>2, SaidKept
  <2>4. /\ CallSaid(r)' /\ \A s \in Request \ {r} : leader'[s] = leader[s]
    BY <1>0, <1>10, FallbackIs DEF CallSaid
  <2>5. QED BY <1>3, <2>1, <2>2, <2>3, <2>4
<1>11. CASE MarkNotified(r)
  <2>1. CallSaid(r)'
    BY <1>0, <1>1, <1>11, MarkNotifiedIs DEF CallSaid
  <2>2. QED BY <1>0, <1>5, <1>11, <2>1, MarkNotifiedIs
<1>12. CASE Notify(r)
  <2>1. PICK ok \in BOOLEAN :
          /\ Exec(<<"notified", r>>, ok)
          /\ Goes(r, IF ok THEN "done" ELSE "recording", "pending", "notified",
                  "ok")
    BY <1>0, <1>12, NotifyIs
  <2>2. UNCHANGED <<copy, typed, hook>> /\ leader[r].step = "notifying"
    BY <1>0, <1>12, NotifyIs
  <2>3. <<"notified", r>> \in DispatchEvent  BY DEF DispatchEvent
  <2>4. typed[r] > 0  BY <1>1, <2>2 DEF CallSaid
  <2>5. \A s \in Request : LogSaid(s)' /\ ViewSaid(s)'
    BY <2>1, <2>2, <2>3, <2>4, ExecSaid
  <2>6. \A s \in Request : typed'[s] >= typed[s]  BY <1>0, <2>2, RecordOf
  <2>7. \A s \in Request : CopySaid(s)'  BY <2>2, <2>6, SaidKept
  <2>8. CallSaid(r)'  BY <2>1, <2>2, <2>4 DEF CallSaid
  <2>9. QED BY <1>3, <2>1, <2>2, <2>5, <2>6, <2>7, <2>8
<1>13. CASE Decide(r)
  <2>1. CallSaid(r)'
    BY <1>0, <1>1, <1>13, DecideIs DEF CallSaid
  <2>2. QED BY <1>0, <1>5, <1>13, <2>1, DecideIs
<1>14. CASE RecordStatus(r)
  <2>1. /\ copy' \in {copy, view} /\ UNCHANGED <<log, view, typed, hook>>
        /\ \A s \in Request \ {r} : leader'[s] = leader[s]
    BY <1>0, <1>14, RecordStatusIs, AcquireIs
  <2>2. CallSaid(r)'  BY <1>0, <1>1, <1>14, RecordStatusIs DEF CallSaid
  <2>3. \A s \in Request : typed'[s] >= typed[s]  BY <1>0, <2>1, RecordOf
  <2>4. QED BY <1>4, <2>1, <2>2, <2>3, SaidKept
<1>15. CASE WriteRecord(r)
  <2>1. /\ Goes(r, "done", leader[r].seen, leader[r].to, leader[r].outcome)
        /\ Release
        /\ view'[r].status = leader[r].to
        /\ \A s \in Request \ {r} : view'[s] = copy[s]
        /\ UNCHANGED <<log, hook, typed>>
    BY <1>0, <1>15, WriteRecordIs
  <2>2. \A s \in Request : typed'[s] >= typed[s]  BY <1>0, <2>1, RecordOf
  <2>3. leader[r].to \in {"notified", "failed"}  BY <1>0, CallOf
  <2>4. ViewSaid(r)'
    BY <1>1, <2>1, <2>3 DEF ViewSaid, Backed, CallSaid
  <2>5. \A s \in Request : LogSaid(s)' /\ ViewSaid(s)'
    BY <2>1, <2>2, <2>4, SaidKept
  <2>6. CallSaid(r)'  BY <1>1, <2>1 DEF CallSaid
  <2>7. QED BY <1>3, <2>1, <2>2, <2>5, <2>6, ReleaseSaid
<1>16. CASE LeaderTimeout(r)
  <2>1. CallSaid(r)'
    BY <1>0, <1>1, <1>16, LeaderTimeoutIs DEF CallSaid
  <2>2. QED BY <1>0, <1>5, <1>16, <2>1, LeaderTimeoutIs
<1>17. CASE KillLeader(r)
  <2>1. CallSaid(r)'
    BY <1>0, <1>17, KillLeaderIs DEF CallSaid
  <2>2. QED BY <1>0, <1>5, <1>17, <2>1, KillLeaderIs
<1>18. QED
  BY <1>6, <1>7, <1>8, <1>9, <1>10, <1>11, <1>12, <1>13, <1>14, <1>15, <1>16,
     <1>17 DEF LeaderStep

LEMMA DrainsKeepSaid ==
  ASSUME BaseInv, SaidInv, TypeOK', NEW h \in Hook,
         HookStep(h) \/ LockTimeout(h) \/ KillHook(h)
  PROVE  SaidInv'
<1> USE DEF Turns, Stops
<1>0. TypeOK /\ OrderlyDrain(h) /\ UNCHANGED team  BY TeamStays DEF BaseInv
<1>1. /\ hook[h].claims \in SUBSET Request
      /\ hook[h].req \in Request \cup {Nobody}
      /\ hook[h].result \in {"none", "failed", "unconfirmed", "confirmed"}
  BY <1>0, DrainOf
<1>2. \A r \in Request : DrainSaid(h, r)  BY DEF SaidInv
<1>3. ASSUME \A r \in Request : typed'[r] >= typed[r], UNCHANGED leader,
             \A r \in Request : LogSaid(r)' /\ ViewSaid(r)' /\ CopySaid(r)',
             \A g \in Hook \ {h} : hook'[g] = hook[g],
             \A r \in Request : DrainSaid(h, r)'
      PROVE  SaidInv'
  BY <1>0, <1>3, SaidKept DEF SaidInv
<1>4. ASSUME UNCHANGED <<log, view, typed, leader>>,
             \A r \in Request : CopySaid(r)',
             \A g \in Hook \ {h} : hook'[g] = hook[g],
             \A r \in Request : DrainSaid(h, r)'
      PROVE  SaidInv'
  <2>1. \A r \in Request : typed'[r] >= typed[r]  BY <1>0, <1>4, RecordOf
  <2>2. QED BY <1>3, <1>4, <2>1, SaidKept
<1>5. CASE BeginDrain(h)
  <2>1. /\ copy' = view /\ UNCHANGED <<log, view, typed, leader>>
        /\ \A g \in Hook \ {h} : hook'[g] = hook[g]
        /\ hook'[h].req = Nobody /\ hook'[h].again = {}
    BY <1>0, <1>5, BeginDrainIs, AcquireIs
  <2>2. \A r \in Request : DrainSaid(h, r)'  BY <2>1 DEF DrainSaid
  <2>3. \A r \in Request : typed'[r] >= typed[r]  BY <1>0, <2>1, RecordOf
  <2>4. QED BY <1>4, <2>1, <2>2, <2>3, SaidKept
<1>6. CASE SkipAll(h)
  <2>1. /\ Release /\ UNCHANGED <<log, view, typed, leader>> /\ Stops(h)
    BY <1>0, <1>6, SkipAllIs
  <2>2. \A r \in Request : DrainSaid(h, r)'  BY <2>1 DEF DrainSaid
  <2>3. QED BY <1>4, <2>1, <2>2, ReleaseSaid
<1>7. CASE Claim(h)
  <2>1. PICK claims \in SUBSET Request :
          /\ claims # {}
          /\ \A r \in claims : copy[r].status = "pending" /\ lease[r] = Nobody
          /\ Turns(h, "claimed", claims, Nobody, "none")
          /\ \A r \in hook'[h].again :
               r \in claims /\ copy[r].attempts > 0
    BY <1>0, <1>7, ClaimIs
  <2>2. Release /\ view' = copy /\ UNCHANGED <<log, leader, typed>>
    BY <1>0, <1>7, ClaimIs
  <2>3. \A r \in Request : typed'[r] >= typed[r]  BY <1>0, <2>2, RecordOf
  <2>4. \A r \in Request : LogSaid(r)' /\ ViewSaid(r)'
    BY <2>2, <2>3, SaidKept
  <2>5. ASSUME NEW r \in Request  PROVE DrainSaid(h, r)'
    <3>1. r \in hook'[h].again => typed[r] > 0
      BY <2>1 DEF SaidInv, CopySaid, Backed
    <3>2. QED BY <2>1, <2>2, <3>1 DEF DrainSaid
  <2>6. QED BY <1>3, <2>1, <2>2, <2>3, <2>4, <2>5, ReleaseSaid
<1>8. CASE Inject(h)
  <2>1. PICK r \in hook[h].claims,
             result \in {"failed", "unconfirmed", "confirmed"} :
          /\ r \in Request
          /\ typed'[r] \in {typed[r], typed[r] + 1}
          /\ \A s \in Request \ {r} : typed'[s] = typed[s]
          /\ result # "failed" /\ r \notin hook[h].again => typed'[r] > 0
          /\ Turns(h, "typing", hook[h].claims, r, result)
          /\ hook'[h].again = hook[h].again
    BY <1>0, <1>8, InjectIs
  <2>2. UNCHANGED <<log, view, copy, leader>>  BY <1>0, <1>8, InjectIs
  <2>3. \A s \in Request : typed[s] \in Nat  BY <1>0, RecordOf
  <2>4. \A s \in Request : typed'[s] >= typed[s]  BY <2>1, <2>3
  <2>5. ASSUME NEW s \in Request  PROVE DrainSaid(h, s)'
    <3>1. s \in hook[h].again => typed'[s] > 0
      BY <1>2, <2>1, <2>3 DEF DrainSaid
    <3>2. QED BY <2>1, <3>1 DEF DrainSaid
  <2>6. \A s \in Request : LogSaid(s)' /\ ViewSaid(s)' /\ CopySaid(s)'
    BY <2>2, <2>4, SaidKept
  <2>7. QED BY <1>3, <2>1, <2>2, <2>4, <2>5, <2>6
<1>9. CASE Verify(h)
  <2>1. /\ Turns(h, "typed", hook[h].claims, hook[h].req, hook[h].result)
        /\ hook'[h].again = hook[h].again
        /\ UNCHANGED <<copy, leader, typed>>
        /\ hook[h].req \in Request
    BY <1>0, <1>1, <1>9, VerifyIs DEF OrderlyDrain
  <2>2. \A r \in Request : typed'[r] >= typed[r]  BY <1>0, <2>1, RecordOf
  <2>3. CASE UNCHANGED <<log, view, faults>>
    BY <1>2, <1>3, <2>1, <2>2, <2>3, SaidKept DEF DrainSaid
  <2>4. CASE /\ hook[h].result = "confirmed"
             /\ \E ok \in BOOLEAN : Exec(<<"delivered", hook[h].req>>, ok)
    <3>1. typed[hook[h].req] > 0  BY <1>2, <2>1, <2>4 DEF DrainSaid
    <3>2. <<"delivered", hook[h].req>> \in DispatchEvent
      BY <2>1 DEF DispatchEvent
    <3>3. \A r \in Request : LogSaid(r)' /\ ViewSaid(r)'
      BY <2>1, <2>4, <3>1, <3>2, ExecSaid
    <3>4. \A r \in Request : DrainSaid(h, r)'  BY <1>2, <2>1 DEF DrainSaid
    <3>5. QED BY <1>3, <2>1, <2>2, <3>3, <3>4, SaidKept
  <2>5. QED BY <1>0, <1>9, <2>3, <2>4, VerifyIs
<1>10. CASE Reread(h)
  <2>1. hook[h].req \in Request /\ UNCHANGED <<log, view, leader, typed>>
    BY <1>0, <1>1, <1>10, RereadIs DEF OrderlyDrain
  <2>2. \A r \in Request : typed'[r] >= typed[r]  BY <1>0, <2>1, RecordOf
  <2>3. CASE /\ StillPending(h) /\ Acquire(h)
             /\ Turns(h, "finalizing", hook[h].claims, hook[h].req,
                      hook[h].result)
             /\ hook'[h].again = hook[h].again
    <3>1. \A r \in Request : DrainSaid(h, r)'
      BY <1>2, <2>1, <2>3 DEF DrainSaid
    <3>2. copy' = view  BY <2>3 DEF Acquire
    <3>3. QED BY <1>4, <2>1, <2>2, <2>3, <3>1, <3>2, SaidKept
  <2>4. CASE ~StillPending(h) /\ Finished(h) /\ UNCHANGED <<lock, copy>>
    <3>1. /\ hook'[h].req = Nobody /\ hook'[h].again \subseteq hook[h].again
          /\ \A g \in Hook \ {h} : hook'[g] = hook[g]
      BY <1>0, <2>1, <2>4, FinishedIs
    <3>2. \A r \in Request : DrainSaid(h, r)'
      BY <1>2, <2>1, <3>1 DEF DrainSaid
    <3>3. QED BY <1>4, <2>1, <2>2, <2>4, <3>1, <3>2, SaidKept
  <2>5. QED BY <1>0, <1>10, <2>3, <2>4, RereadIs
<1>11. CASE Finalize(h)
  <2>1. /\ Turns(h, "writing", hook[h].claims, hook[h].req, hook[h].result)
        /\ hook'[h].again = hook[h].again
        /\ UNCHANGED <<copy, leader, typed>>
        /\ hook[h].req \in Request
    BY <1>0, <1>1, <1>11, FinalizeIs DEF OrderlyDrain
  <2>2. \A r \in Request : typed'[r] >= typed[r]  BY <1>0, <2>1, RecordOf
  <2>3. CASE UNCHANGED <<log, view, faults>>
    BY <1>2, <1>3, <2>1, <2>2, <2>3, SaidKept DEF DrainSaid
  <2>4. CASE \E ok \in BOOLEAN : Exec(<<Verdict(h), hook[h].req>>, ok)
    <3>1. /\ Verdict(h) = "notified" => typed[hook[h].req] > 0
          /\ Verdict(h) \in {"notified", "failed"}
      BY <1>2, <2>1 DEF DrainSaid, Verdict
    <3>2. <<Verdict(h), hook[h].req>> \in DispatchEvent
      BY <2>1, <3>1 DEF DispatchEvent
    <3>3. \A r \in Request : LogSaid(r)' /\ ViewSaid(r)'
      BY <2>1, <2>4, <3>1, <3>2, ExecSaid
    <3>4. \A r \in Request : DrainSaid(h, r)'  BY <1>2, <2>1 DEF DrainSaid
    <3>5. QED BY <1>3, <2>1, <2>2, <3>3, <3>4, SaidKept
  <2>5. QED BY <1>0, <1>11, <2>3, <2>4, FinalizeIs
<1>12. CASE WriteFinal(h)
  <2>1. hook[h].req \in Request
    BY <1>0, <1>1, <1>12 DEF OrderlyDrain, WriteFinal, HookAt
  <2> DEFINE r == hook[h].req
  <2>2. /\ view'[r].status = IF Retrying(h) THEN "pending" ELSE Verdict(h)
        /\ \A s \in Request \ {r} : view'[s] = copy[s]
        /\ Release /\ Finished(h)
        /\ UNCHANGED <<log, leader, typed>>
    BY <1>0, <1>12, <2>1, WriteFinalIs
  <2>3. \A s \in Request : typed'[s] >= typed[s]  BY <1>0, <2>2, RecordOf
  <2>4. /\ Retrying(h) => typed[r] > 0
        /\ Verdict(h) = "notified" => typed[r] > 0
        /\ Verdict(h) \in {"notified", "failed"}
    BY <1>2, <2>1 DEF DrainSaid, Verdict, Retrying
  <2>5. ASSUME NEW s \in Request, s = r  PROVE ViewSaid(s)'
    BY <2>2, <2>4, <2>5 DEF ViewSaid, Backed
  <2>6. \A s \in Request : LogSaid(s)' /\ ViewSaid(s)'
    BY <2>2, <2>3, <2>5, SaidKept
  <2>7. /\ hook'[h].req = Nobody /\ hook'[h].again \subseteq hook[h].again
        /\ \A g \in Hook \ {h} : hook'[g] = hook[g]
    BY <1>0, <2>1, <2>2, FinishedIs
  <2>8. \A s \in Request : DrainSaid(h, s)'
    BY <1>2, <2>2, <2>7 DEF DrainSaid
  <2>9. QED BY <1>3, <2>2, <2>3, <2>6, <2>7, <2>8, ReleaseSaid
<1>13. CASE LockTimeout(h) \/ KillHook(h)
  <2>1. /\ UNCHANGED <<log, view, copy, typed, leader>> /\ Stops(h)
    BY <1>0, <1>13, LockTimeoutIs, KillHookIs
  <2>2. \A r \in Request : DrainSaid(h, r)'  BY <2>1 DEF DrainSaid
  <2>3. \A r \in Request : typed'[r] >= typed[r]  BY <1>0, <2>1, RecordOf
  <2>4. QED BY <1>4, <2>1, <2>2, <2>3, SaidKept
<1>14. QED
  BY <1>5, <1>6, <1>7, <1>8, <1>9, <1>10, <1>11, <1>12, <1>13 DEF HookStep

LEMMA NextKeepsSaid == BaseInv /\ BaseInv' /\ SaidInv /\ [Next]_vars => SaidInv'
<1> SUFFICES ASSUME BaseInv, BaseInv', SaidInv, [Next]_vars  PROVE SaidInv'
  OBVIOUS
<1>0. TypeOK /\ TypeOK'  BY DEF BaseInv
<1>1. ASSUME UNCHANGED <<log, typed, leader, hook>>,
             \/ view' \in {view, Shown(log)}
             \/ \A r \in Request : ViewSaid(r)',
             \A r \in Request : CopySaid(r)' \/ copy' = copy,
             team' = team \/ \A t \in Team, r \in Request : TeamSaid(t, r)'
      PROVE  SaidInv'
  <2>1. \A r \in Request : typed'[r] >= typed[r]  BY <1>0, <1>1, RecordOf
  <2>2. \A r \in Request : LogSaid(r)' /\ ViewSaid(r)'
    BY <1>0, <1>1, <2>1, SaidKept, ShownSaid
  <2>3. QED BY <1>0, <1>1, <2>1, <2>2, SaidKept DEF SaidInv
<1>2. CASE UNCHANGED vars  BY <1>1, <1>2 DEF vars
<1>3. ASSUME NEW r \in Request, ExpireLease(r)  PROVE SaidInv'
  BY <1>0, <1>1, <1>3, ExpireLeaseIs
<1>4. CASE Rewrite  BY <1>0, <1>1, <1>4, RewriteIs
<1>5. CASE BreakLock
  <2>1. UNCHANGED <<log, view, team, typed, leader, hook>> /\ Release
    BY <1>5 DEF BreakLock
  <2>2. QED BY <1>1, <2>1, ReleaseSaid
<1>6. ASSUME NEW t \in Team, TheirRead(t)  PROVE SaidInv'
  <2>1. /\ UNCHANGED <<log, view, copy, typed, leader, hook>>
        /\ team'[t].copy = view
        /\ \A u \in Team \ {t} : team'[u] = team[u]
    BY <1>0, <1>6, TheirReadIs
  <2>2. \A r \in Request : TeamSaid(t, r)'
    BY <2>1 DEF SaidInv, ViewSaid, TeamSaid, Backed
  <2>3. \A u \in Team \ {t}, r \in Request : TeamSaid(u, r)'
    BY <2>1 DEF SaidInv, TeamSaid, Backed
  <2>4. QED BY <1>1, <2>1, <2>2, <2>3
<1>7. ASSUME NEW t \in Team, TheirWrite(t)  PROVE SaidInv'
  <2>1. /\ UNCHANGED <<log, copy, typed, leader, hook>>
        /\ view' = team[t].copy /\ team'[t] = NoWriter
        /\ \A u \in Team \ {t} : team'[u] = team[u]
    BY <1>0, <1>7, TheirWriteIs
  <2>2. \A r \in Request : ViewSaid(r)'
    BY <2>1 DEF SaidInv, ViewSaid, TeamSaid, Backed
  <2>3. \A r \in Request : TeamSaid(t, r)'
    BY <2>1, NoWriterIs DEF TeamSaid, Backed
  <2>4. \A u \in Team \ {t}, r \in Request : TeamSaid(u, r)'
    BY <2>1 DEF SaidInv, TeamSaid, Backed
  <2>5. QED BY <1>1, <2>1, <2>2, <2>3, <2>4
<1>8. QED
  BY <1>0, <1>2, <1>3, <1>4, <1>5, <1>6, <1>7, LeaderKeepsSaid, DrainsKeepSaid
     DEF Next

\* Whatever dispatch.json shows as notified or delivered was typed into the
\* pane, and so was what the caller is told was sent: the engine is told only
\* after typing, an attempt counts only when it typed or has failed, and records
\* written back from an old copy were right when they were read.
THEOREM SaidWasTyped == Spec => []SaidIsTyped
<1>1. Init => SaidInv  BY InitSaidInv
<1>2. BaseInv /\ BaseInv' /\ SaidInv /\ [Next]_vars => SaidInv'
  BY NextKeepsSaid
<1>3. SaidInv => SaidIsTyped  BY SaidInvIsTyped
<1>4. QED BY <1>1, <1>2, <1>3, OrderIsKept, PTL DEF Spec

-----------------------------------------------------------------------------
(* A request is typed once.                                                *)

\* Nothing happened but retries.
Clean(r) == why[r] \subseteq {"retried"}

Claimed(r) == \E h \in Hook : r \in hook[h].claims

InHand(r) == \E h \in Hook : hook[h].req = r

Owned(r) == \A h \in Hook : r \in hook[h].claims => lease[r] = h

\* A drain may type it, now or later.
Open(r) == Rank(view[r].status) < 2 \/ Claimed(r)

\* What a writer holds is behind what dispatch.json says, but for attempts.
Behind(r) ==
  /\ copy[r].attempts = view[r].attempts
  /\ Rank(copy[r].status) <= Rank(view[r].status)

\* Every typing but the one in hand is counted as an attempt, and only its
\* claimant types a request, as long as the leader has not typed it and
\* dispatch.json has lost nothing.
Counted(r) ==
  /\ Owned(r)
  /\ leader[r].step \in {"idle", "queueing", "unqueued", "waiting", "fallback",
                         "done"}
  /\ lock # Nobody => Behind(r)
  /\ Claimed(r) => Rank(view[r].status) >= 1
  /\ typed[r] <= MaxUnconfirmed
  /\ InHand(r) => typed[r] <= view[r].attempts + 1
  /\ ~InHand(r) /\ Open(r) => typed[r] <= view[r].attempts
  /\ Open(r) => view[r].attempts < MaxUnconfirmed
  /\ why[r] = {} => typed[r] <= 1 /\ (~InHand(r) /\ Open(r) => typed[r] = 0)

OnceInv == \A r \in Request : Clean(r) => Counted(r)

LEMMA OnceInvIsTyped == BaseInv /\ OnceInv => TypedOnce
<1> SUFFICES ASSUME BaseInv, OnceInv, NEW r \in Request
             PROVE  /\ typed[r] > 1 => why[r] # {}
                    /\ why[r] = {"retried"} => typed[r] <= MaxUnconfirmed
  BY DEF TypedOnce
<1>1. typed[r] \in Nat  BY RecordOf DEF BaseInv
<1>2. Clean(r) => Counted(r)  BY DEF OnceInv
<1>3. QED BY <1>1, <1>2 DEF Clean, Counted

LEMMA InitOnceInv == Init => OnceInv
<1> SUFFICES ASSUME Init, NEW r \in Request  PROVE Counted(r)
  BY DEF OnceInv
<1>1. ~Claimed(r) /\ ~InHand(r) /\ Owned(r)
  BY NoDrainIs DEF Init, Claimed, InHand, Owned
<1>2. /\ typed[r] = 0 /\ view[r].attempts = 0 /\ lock = Nobody
      /\ leader[r].step = "idle"
  BY EmptyIs, NoCallIs DEF Init
<1>3. QED BY <1>1, <1>2 DEF Counted

LEMMA StillCounted ==
  ASSUME BaseInv, BaseInv', NEW r \in Request, Counted(r),
         why[r] \subseteq why'[r], typed'[r] = typed[r],
         view'[r].attempts = view[r].attempts,
         Rank(view'[r].status) >= Rank(view[r].status),
         leader'[r].step \in {"idle", "queueing", "unqueued", "waiting",
                              "fallback", "done"},
         Claimed(r)' => Claimed(r), InHand(r)' <=> InHand(r), Owned(r)',
         lock' # Nobody => Behind(r)'
  PROVE  Counted(r)'
<1>1. /\ Rank(view[r].status) \in 0..2 /\ Rank(view'[r].status) \in 0..2
      /\ view[r].attempts \in Nat /\ typed[r] \in Nat
  <2>1. view[r].status \in Status /\ view[r].attempts \in Nat /\ typed[r] \in Nat
    BY RecordOf DEF BaseInv
  <2>2. view'[r].status \in Status  BY DEF BaseInv, TypeOK, Record
  <2>3. QED BY <2>1, <2>2, RankIs
<1>2. Open(r)' => Open(r)  BY <1>1 DEF Open
<1>3. Claimed(r)' => Rank(view'[r].status) >= 1  BY <1>1 DEF Counted
<1>4. QED BY <1>1, <1>2, <1>3 DEF Counted

\* dispatch.json rewritten by the engine, or by the holder of the lock.
LEMMA ViewCounts ==
  ASSUME BaseInv, BaseInv', NEW r \in Request, Counted(r), Clean(r)', Told(r),
         view' \in {view, Shown(log')} \/ (lock # Nobody /\ view'[r] = copy[r])
  PROVE  /\ view'[r].attempts = view[r].attempts
         /\ Rank(view'[r].status) >= Rank(view[r].status)
<1>1. /\ view[r].status \in Status /\ view[r].attempts \in Nat
      /\ view'[r].status \in Status /\ view'[r].attempts \in Nat
  BY DEF BaseInv, TypeOK, Record
<1>2. Rank(view[r].status) \in 0..2 /\ Rank(view'[r].status) \in 0..2
  BY <1>1, RankIs
<1>3. /\ view'[r].attempts >= view[r].attempts
      /\ Rank(view'[r].status) >= Rank(view[r].status)
  BY <1>1, <1>2 DEF Told, Clean
<1>4. view'[r].attempts \in {view[r].attempts, 0}
  BY ShownIs DEF Counted, Behind
<1>5. QED BY <1>1, <1>3, <1>4

\* A step that has the request neither claimed nor typed.
LEMMA StepCounts ==
  ASSUME BaseInv, BaseInv', NEW r \in Request, Counted(r), Clean(r)',
         Claimed(r)' => Claimed(r), InHand(r)' <=> InHand(r), Owned(r)',
         typed'[r] = typed[r],
         \/ UNCHANGED why /\ UNCHANGED view
         \/ UNCHANGED view /\ why[r] \subseteq why'[r]
         \/ /\ Told(r)
            /\ \/ view' \in {view, Shown(log')}
               \/ lock # Nobody /\ view'[r] = copy[r]
         \/ Told(r) /\ view'[r].attempts = 0 /\ lock' = Nobody,
         leader'[r].step \in {"idle", "queueing", "unqueued", "waiting",
                              "fallback", "done"},
         \/ lock' = Nobody
         \/ copy' = view /\ view' = view
         \/ UNCHANGED <<lock, copy>> /\ view' \in {view, Shown(log')}
  PROVE  Counted(r)'
<1>1. /\ view[r].status \in Status /\ view[r].attempts \in Nat
      /\ view'[r].status \in Status /\ view'[r].attempts \in Nat
      /\ copy[r].status \in Status
  BY DEF BaseInv, TypeOK, Record
<1>2. /\ Rank(view[r].status) \in 0..2 /\ Rank(view'[r].status) \in 0..2
      /\ Rank(copy[r].status) \in 0..2
  BY <1>1, RankIs
<1>3. why[r] \subseteq why'[r]  BY DEF Told
<1>4. /\ view'[r].attempts = view[r].attempts
      /\ Rank(view'[r].status) >= Rank(view[r].status)
  <2>1. CASE UNCHANGED view  BY <1>2, <2>1
  <2>2. CASE Told(r) /\ view'[r].attempts = 0 /\ lock' = Nobody
    BY <1>1, <1>2, <2>2 DEF Told, Clean
  <2>3. CASE /\ Told(r)
             /\ \/ view' \in {view, Shown(log')}
                \/ lock # Nobody /\ view'[r] = copy[r]
    BY <2>3, ViewCounts
  <2>4. QED BY <2>1, <2>2, <2>3
<1>5. lock' # Nobody => Behind(r)'
  <2>1. CASE copy' = view /\ view' = view  BY <1>2, <2>1 DEF Behind
  <2>2. CASE UNCHANGED <<lock, copy>>
    <3>1. lock # Nobody => Behind(r)  BY DEF Counted
    <3>2. QED BY <1>2, <1>4, <2>2, <3>1 DEF Behind
  <2>3. QED BY <2>1, <2>2
<1>6. QED BY <1>3, <1>4, <1>5, StillCounted

\* A step that leaves the drains and leases alone.
LEMMA LeaderCounts ==
  ASSUME BaseInv, BaseInv', NEW r \in Request, Counted(r), Clean(r)',
         UNCHANGED <<hook, lease>>, typed'[r] = typed[r],
         \/ UNCHANGED why /\ UNCHANGED view
         \/ UNCHANGED view /\ why[r] \subseteq why'[r]
         \/ /\ Told(r)
            /\ \/ view' \in {view, Shown(log')}
               \/ lock # Nobody /\ view'[r] = copy[r]
         \/ Told(r) /\ view'[r].attempts = 0 /\ lock' = Nobody,
         leader'[r].step \in {"idle", "queueing", "unqueued", "waiting",
                              "fallback", "done"},
         \/ lock' = Nobody
         \/ copy' = view /\ view' = view
         \/ UNCHANGED <<lock, copy>> /\ view' \in {view, Shown(log')}
  PROVE  Counted(r)'
<1>1. /\ Claimed(r)' <=> Claimed(r)
      /\ InHand(r)' <=> InHand(r)
      /\ Owned(r)'
  BY DEF Claimed, InHand, Owned, Counted
<1>2. QED BY <1>1, StepCounts

LEMMA LeaderKeepsOnce ==
  ASSUME BaseInv, BaseInv', OnceInv, NEW s \in Request, NEW r \in Request,
         Clean(r)',
         Enqueue(s) \/ LeaderStep(s) \/ LeaderTimeout(s) \/ KillLeader(s)
  PROVE  Counted(r)'
<1> USE DEF Goes
<1> DEFINE Early == {"idle", "queueing", "unqueued", "waiting", "fallback",
                     "done"}
<1>0. TypeOK /\ OrderlyCall(s)  BY DEF BaseInv
<1>1. why[r] \subseteq why'[r] => Clean(r) /\ Counted(r)
  BY DEF OnceInv, Clean
<1>2. Told(r) => why[r] \subseteq why'[r]  BY DEF Told
<1>3. Clean(r) => leader[r].step \in Early  BY DEF OnceInv, Counted
<1>4. ASSUME UNCHANGED <<view, hook, lease, typed>>,
             why[r] \subseteq why'[r], leader'[r].step \in Early,
             \/ UNCHANGED <<lock, copy>>
             \/ copy' = view
      PROVE  Counted(r)'
  BY <1>1, <1>4, LeaderCounts
<1>5. ASSUME UNCHANGED <<hook, lease, typed>>, Told(r),
             leader'[r].step \in Early,
             \/ view' \in {view, Shown(log')} /\ UNCHANGED <<lock, copy>>
             \/ view' \in {view, Shown(log')} /\ lock' = Nobody
             \/ lock # Nobody /\ view'[r] = copy[r] /\ lock' = Nobody
             \/ view'[r].attempts = 0 /\ lock' = Nobody
      PROVE  Counted(r)'
  <2>1. Counted(r)  BY <1>1, <1>2, <1>5
  <2>2. QED BY <1>5, <2>1, LeaderCounts
<1>6. CASE Enqueue(s)
  <2>1. /\ UNCHANGED <<view, hook, lease, typed, why>> /\ copy' = view
        /\ r = s => leader'[r].step = "queueing"
        /\ r # s => leader'[r] = leader[r]
    BY <1>0, <1>6, EnqueueIs, AcquireIs
  <2>2. leader'[r].step \in Early  BY <1>1, <1>3, <2>1
  <2>3. QED BY <1>4, <2>1, <2>2
<1>7. CASE Queue(s)
  <2>1. PICK ok \in BOOLEAN :
          /\ Exec(<<"queued", s>>, ok)
          /\ ok => Release
          /\ ~ok => UNCHANGED <<lock, copy>>
          /\ Goes(s, IF ok THEN "waiting" ELSE "unqueued", "none", "failed",
                  "none")
    BY <1>0, <1>7, QueueIs
  <2>2. UNCHANGED <<hook, lease, typed>> /\ Told(r)
    BY <1>0, <1>7, QueueIs, NotingLostIs
  <2>3. <<"queued", s>> \in DispatchEvent  BY DEF DispatchEvent
  <2>4. view' \in {view, Shown(log')}  BY <1>0, <2>1, <2>3, ExecIs
  <2>5. leader'[r].step \in Early  BY <1>1, <1>2, <1>3, <2>1, <2>2
  <2>6. QED BY <1>5, <2>1, <2>2, <2>4, <2>5, ReleaseIs
<1>8. CASE QueueLocally(s)
  <2>1. /\ UNCHANGED <<hook, lease, typed>> /\ Told(r)
        /\ lock = s /\ lock' = Nobody
        /\ r = s => view'[r].attempts = 0 /\ leader'[r].step = "waiting"
        /\ r # s => view'[r] = copy[r] /\ leader'[r] = leader[r]
    BY <1>0, <1>8, QueueLocallyIs, NotingLostIs, ReleaseIs DEF OrderlyCall
  <2>2. leader'[r].step \in Early  BY <1>1, <1>2, <1>3, <2>1
  <2>3. QED BY <1>5, <2>1, <2>2
<1>9. CASE Receive(s)
  <2>1. /\ UNCHANGED <<view, lock, copy, hook, lease, typed, why>>
        /\ r = s => leader'[r].step \in {"done", "fallback"}
        /\ r # s => leader'[r] = leader[r]
    BY <1>0, <1>9, ReceiveIs
  <2>2. leader'[r].step \in Early  BY <1>1, <1>3, <2>1
  <2>3. QED BY <1>4, <2>1, <2>2
<1>10. CASE Fallback(s)
  <2>1. /\ UNCHANGED <<view, lock, copy, hook, lease>>
        /\ typed'[r] = typed[r] \/ r = s
        /\ why'[r] = why[r] \cup IF r \in {s} THEN {"fallback"} ELSE {}
        /\ r # s => leader'[r] = leader[r]
    <3>1. why'[r] = why[r] \cup IF r \in {s} THEN {"fallback"} ELSE {}
      BY <1>0, <1>10, FallbackNotes
    <3>2. QED BY <1>0, <1>10, <3>1, FallbackIs
  <2>2. r # s  BY <2>1 DEF Clean
  <2>3. typed'[r] = typed[r] /\ why[r] \subseteq why'[r]  BY <2>1, <2>2
  <2>4. leader'[r].step \in Early  BY <1>1, <1>3, <2>1, <2>2, <2>3
  <2>5. QED BY <1>1, <2>1, <2>3, <2>4, LeaderCounts
<1>11. CASE MarkNotified(s)
  <2>1. /\ UNCHANGED <<view, lock, copy, hook, lease, typed, why>>
        /\ leader[s].step = "marking"
        /\ r # s => leader'[r] = leader[r]
    BY <1>0, <1>11, MarkNotifiedIs
  <2>2. leader'[r].step \in Early  BY <1>1, <1>3, <2>1
  <2>3. QED BY <1>4, <2>1, <2>2
<1>12. CASE Notify(s)
  <2>1. PICK ok \in BOOLEAN :
          /\ Exec(<<"notified", s>>, ok)
          /\ Goes(s, IF ok THEN "done" ELSE "recording", "pending", "notified",
                  "ok")
    BY <1>0, <1>12, NotifyIs
  <2>2. /\ UNCHANGED <<lock, copy, hook, lease, typed>> /\ Told(r)
        /\ leader[s].step = "notifying"
    BY <1>0, <1>12, NotifyIs, NotingLostIs
  <2>3. <<"notified", s>> \in DispatchEvent  BY DEF DispatchEvent
  <2>4. view' \in {view, Shown(log')}  BY <1>0, <2>1, <2>3, ExecIs
  <2>5. leader'[r].step \in Early  BY <1>1, <1>2, <1>3, <2>1, <2>2
  <2>6. QED BY <1>5, <2>2, <2>4, <2>5
<1>13. CASE Decide(s)
  <2>1. /\ UNCHANGED <<view, lock, copy, hook, lease, typed, why>>
        /\ leader[s].step = "deciding"
        /\ r # s => leader'[r] = leader[r]
    BY <1>0, <1>13, DecideIs
  <2>2. leader'[r].step \in Early  BY <1>1, <1>3, <2>1
  <2>3. QED BY <1>4, <2>1, <2>2
<1>14. CASE RecordStatus(s)
  <2>1. /\ UNCHANGED <<view, hook, lease, typed, why>>
        /\ copy' = view \/ UNCHANGED <<lock, copy>>
        /\ leader[s].step = "recording"
        /\ r # s => leader'[r] = leader[r]
    BY <1>0, <1>14, RecordStatusIs, AcquireIs
  <2>2. leader'[r].step \in Early  BY <1>1, <1>3, <2>1
  <2>3. QED BY <1>4, <2>1, <2>2
<1>15. CASE WriteRecord(s)
  <2>1. /\ UNCHANGED <<hook, lease, typed>> /\ Told(r)
        /\ lock = s /\ lock' = Nobody /\ leader[s].step = "writing"
        /\ r # s => view'[r] = copy[r] /\ leader'[r] = leader[r]
    BY <1>0, <1>15, WriteRecordIs, NotingLostIs, ReleaseIs DEF OrderlyCall
  <2>2. r # s /\ leader'[r].step \in Early  BY <1>1, <1>2, <1>3, <2>1
  <2>3. QED BY <1>5, <2>1, <2>2
<1>16. CASE LeaderTimeout(s)
  <2>1. /\ UNCHANGED <<view, lock, copy, hook, lease, typed>>
        /\ r = s => leader'[r].step = "done"
        /\ r # s => leader'[r] = leader[r]
    BY <1>0, <1>16, LeaderTimeoutIs
  <2>2. why[r] \subseteq why'[r]
    BY <1>0, <1>16, LeaderTimeoutIs, LeaderTimeoutNotes
  <2>3. leader'[r].step \in Early  BY <1>1, <1>3, <2>1, <2>2
  <2>4. QED BY <1>4, <2>1, <2>2, <2>3
<1>17. CASE KillLeader(s)
  <2>1. /\ UNCHANGED <<view, lock, copy, hook, lease, typed, why>>
        /\ r = s => leader'[r].step = "done"
        /\ r # s => leader'[r] = leader[r]
    BY <1>0, <1>17, KillLeaderIs
  <2>2. leader'[r].step \in Early  BY <1>1, <1>3, <2>1
  <2>3. QED BY <1>4, <2>1, <2>2
<1>18. QED
  BY <1>6, <1>7, <1>8, <1>9, <1>10, <1>11, <1>12, <1>13, <1>14, <1>15, <1>16,
     <1>17 DEF LeaderStep

\* A step of the drain h that claims no request anew.
LEMMA DrainCounts ==
  ASSUME BaseInv, BaseInv', NEW h \in Hook, NEW r \in Request, Counted(r),
         Clean(r)', UNCHANGED <<typed, leader>>,
         \A g \in Hook \ {h} : hook'[g] = hook[g],
         r \in hook'[h].claims => r \in hook[h].claims,
         hook'[h].req = r <=> hook[h].req = r,
         lease'[r] = lease[r] \/ (lease[r] = h /\ r \notin hook'[h].claims),
         \/ UNCHANGED view /\ why[r] \subseteq why'[r]
         \/ /\ Told(r)
            /\ \/ view' \in {view, Shown(log')}
               \/ lock # Nobody /\ view'[r] = copy[r],
         \/ lock' = Nobody
         \/ copy' = view /\ view' = view
         \/ UNCHANGED <<lock, copy>> /\ view' \in {view, Shown(log')}
  PROVE  Counted(r)'
<1>1. Claimed(r)' => Claimed(r)  BY DEF Claimed
<1>2. InHand(r)' <=> InHand(r)  BY DEF InHand
<1>3. Owned(r)'  BY DEF Owned, Counted
<1>4. leader'[r].step \in {"idle", "queueing", "unqueued", "waiting",
                           "fallback", "done"}
  BY DEF Counted
<1>5. QED BY <1>1, <1>2, <1>3, <1>4, StepCounts

LEMMA DrainsKeepOnce ==
  ASSUME BaseInv, BaseInv', OnceInv, NEW h \in Hook, NEW r \in Request,
         Clean(r)', HookStep(h) \/ LockTimeout(h) \/ KillHook(h)
  PROVE  Counted(r)'
<1> USE DEF Turns, Stops
<1>0. TypeOK /\ OrderlyDrain(h)  BY DEF BaseInv
<1>1. why[r] \subseteq why'[r] => Clean(r) /\ Counted(r)
  BY DEF OnceInv, Clean
<1>2. Told(r) => why[r] \subseteq why'[r]  BY DEF Told
<1>3. ASSUME NEW g \in Hook, r \in hook[g].claims, Counted(r)
      PROVE  /\ lease[r] = g
             /\ \A f \in Hook : r \in hook[f].claims => f = g
             /\ \A f \in Hook : hook[f].req = r => f = g
  <2>1. \A f \in Hook : r \in hook[f].claims => f = g
    BY <1>3 DEF Counted, Owned
  <2>2. \A f \in Hook : hook[f].req = r => r \in hook[f].claims
    BY DEF BaseInv, OrderlyDrain
  <2>3. QED BY <1>3, <2>1, <2>2 DEF Counted, Owned
<1>4. CASE BeginDrain(h)
  <2>1. /\ UNCHANGED <<view, typed, leader, lease, why>> /\ copy' = view
        /\ \A g \in Hook \ {h} : hook'[g] = hook[g]
        /\ hook'[h].claims = {} /\ hook'[h].req = Nobody
        /\ hook[h].step = "idle"
    BY <1>0, <1>4, BeginDrainIs, AcquireIs
  <2>2. hook[h].req = Nobody  BY <1>0, <2>1 DEF OrderlyDrain
  <2>3. QED BY <1>1, <2>1, <2>2, DrainCounts
<1>5. CASE SkipAll(h)
  <2>1. /\ UNCHANGED <<view, typed, leader, lease, why>> /\ lock' = Nobody
        /\ \A g \in Hook \ {h} : hook'[g] = hook[g]
        /\ hook'[h].claims = {} /\ hook'[h].req = Nobody
        /\ hook[h].step = "reading"
    BY <1>0, <1>5, SkipAllIs, ReleaseIs
  <2>2. hook[h].req = Nobody  BY <1>0, <2>1 DEF OrderlyDrain
  <2>3. QED BY <1>1, <2>1, <2>2, DrainCounts
<1>6. CASE Claim(h)
  <2>1. PICK claims \in SUBSET Request :
          /\ \A s \in claims : copy[s].status = "pending" /\ lease[s] = Nobody
          /\ Turns(h, "claimed", claims, Nobody, "none")
          /\ \A s \in Request :
               lease'[s] = IF s \in claims THEN h ELSE lease[s]
    BY <1>0, <1>6, ClaimIs
  <2>2. /\ view' = copy /\ lock' = Nobody /\ Told(r)
        /\ UNCHANGED <<typed, leader>> /\ hook[h].step = "reading"
    BY <1>0, <1>6, ClaimIs, ReleaseIs, NotingLostIs
  <2>3. Counted(r)  BY <1>1, <1>2, <2>2
  <2>4. lock = h /\ hook[h].claims = {} /\ hook[h].req = Nobody
    BY <1>0, <2>2 DEF OrderlyDrain
  <2>5. CASE r \notin claims
    BY <2>1, <2>2, <2>3, <2>4, <2>5, DrainCounts
  <2>6. CASE r \in claims
    <3>1. /\ view'[r].attempts = view[r].attempts
          /\ Rank(view'[r].status) >= Rank(view[r].status)
      BY <2>2, <2>3, <2>4, ViewCounts
    <3>2. Rank(view[r].status) \in 0..2 /\ Rank(view'[r].status) = 1
      BY <1>0, <2>1, <2>2, <2>6, RecordOf, RankIs
    <3>3. Open(r)  BY <3>1, <3>2 DEF Open
    <3>4. ~Claimed(r)
      BY <2>1, <2>3, <2>6 DEF Counted, Owned, Claimed
    <3>5. ~InHand(r)
      BY <3>4 DEF InHand, Claimed, BaseInv, OrderlyDrain
    <3>6. Owned(r)'
      BY <2>1, <2>6, <3>4 DEF Owned, Claimed
    <3>7. ~InHand(r)'
      BY <2>1, <3>5 DEF InHand
    <3>8. leader'[r] = leader[r] /\ typed'[r] = typed[r] /\ lock' = Nobody
      BY <2>2
    <3>9. why'[r] = {} => why[r] = {}  BY <1>2, <2>2
    <3>10. QED
      BY <1>0, <2>3, <3>1, <3>2, <3>3, <3>5, <3>6, <3>7, <3>8, <3>9, RecordOf
         DEF Counted
  <2>7. QED BY <2>5, <2>6
<1>7. CASE Inject(h)
  <2>1. PICK q \in hook[h].claims,
             result \in {"failed", "unconfirmed", "confirmed"} :
          /\ q \in Request /\ typed'[q] \in {typed[q], typed[q] + 1}
          /\ \A s \in Request \ {q} : typed'[s] = typed[s]
          /\ Turns(h, "typing", hook[h].claims, q, result)
    BY <1>0, <1>7, InjectIs
  <2>2. /\ UNCHANGED <<view, lock, copy, lease, leader, why>>
        /\ hook[h].step = "claimed"
    BY <1>0, <1>7, InjectIs
  <2>3. Counted(r)  BY <1>1, <2>2
  <2>4. hook[h].req = Nobody  BY <1>0, <2>2 DEF OrderlyDrain
  <2>5. Owned(r)' /\ (Claimed(r)' <=> Claimed(r))
    BY <2>1, <2>2, <2>3 DEF Counted, Owned, Claimed
  <2>6. lock' # Nobody => Behind(r)'
    BY <2>2, <2>3 DEF Counted, Behind
  <2>7. CASE r # q
    <3>1. InHand(r)' <=> InHand(r)  BY <2>1, <2>4, <2>7 DEF InHand
    <3>2. /\ view[r].status \in Status
          /\ typed'[r] = typed[r]
      BY <1>0, <2>1, <2>7, RecordOf
    <3>3. Rank(view'[r].status) >= Rank(view[r].status)
      BY <2>2, <3>2, RankIs
    <3>4. leader'[r].step \in {"idle", "queueing", "unqueued", "waiting",
                               "fallback", "done"}
      BY <2>2, <2>3 DEF Counted
    <3>5. QED BY <2>2, <2>3, <2>5, <2>6, <3>1, <3>2, <3>3, <3>4, StillCounted
  <2>8. CASE r = q
    <3>1. Claimed(r) /\ Open(r) /\ InHand(r)'
      BY <2>1, <2>8 DEF Claimed, Open, InHand
    <3>2. ~InHand(r)
      <4>1. \A g \in Hook : hook[g].req = r => g = h
        BY <1>3, <2>1, <2>3, <2>8
      <4>2. QED BY <2>4, <4>1 DEF InHand
    <3>3. /\ typed[r] <= view[r].attempts /\ view[r].attempts < MaxUnconfirmed
          /\ why[r] = {} => typed[r] = 0
          /\ Rank(view[r].status) >= 1
      BY <2>3, <3>1, <3>2 DEF Counted
    <3>4. /\ typed[r] \in Nat /\ view[r].attempts \in Nat
          /\ typed'[r] \in {typed[r], typed[r] + 1}
      BY <1>0, <2>1, <2>8, RecordOf
    <3>5. QED
      BY <2>2, <2>3, <2>5, <2>6, <3>1, <3>3, <3>4 DEF Counted, Open
  <2>9. QED BY <2>7, <2>8
<1>8. CASE Verify(h)
  <2>1. /\ Turns(h, "typed", hook[h].claims, hook[h].req, hook[h].result)
        /\ UNCHANGED <<lock, copy, lease, leader, typed>> /\ Told(r)
        /\ hook[h].step = "typing"
    BY <1>0, <1>8, VerifyIs, NotingLostIs
  <2>2. hook[h].req \in Request  BY <1>0, <2>1, DrainOf DEF OrderlyDrain
  <2>3. <<"delivered", hook[h].req>> \in DispatchEvent
    BY <2>2 DEF DispatchEvent
  <2>4. view' \in {view, Shown(log')}
    BY <1>0, <1>8, <2>3, VerifyIs, ExecIs
  <2>5. QED BY <1>1, <1>2, <2>1, <2>4, DrainCounts
<1>9. CASE Reread(h)
  <2>1. UNCHANGED <<view, leader, typed, why>> /\ hook[h].step = "typed"
    BY <1>0, <1>9, RereadIs
  <2>2. hook[h].req \in Request /\ hook[h].req \in hook[h].claims
    BY <1>0, <2>1, DrainOf DEF OrderlyDrain
  <2>3. Counted(r)  BY <1>1, <2>1
  <2>4. CASE /\ Acquire(h)
             /\ Turns(h, "finalizing", hook[h].claims, hook[h].req,
                      hook[h].result)
             /\ UNCHANGED lease
    BY <1>0, <2>1, <2>3, <2>4, AcquireIs, DrainCounts
  <2>5. CASE ~StillPending(h) /\ Finished(h) /\ UNCHANGED <<lock, copy>>
    <3>1. /\ hook'[h].claims = hook[h].claims \ {hook[h].req}
          /\ hook'[h].req = Nobody
          /\ \A g \in Hook \ {h} : hook'[g] = hook[g]
          /\ \A s \in Request : lease'[s] = IF s = hook[h].req /\ lease[s] = h
                                            THEN Nobody ELSE lease[s]
      BY <1>0, <2>2, <2>5, FinishedIs
    <3>2. CASE r # hook[h].req
      BY <2>1, <2>3, <2>5, <3>1, <3>2, DrainCounts
    <3>3. CASE r = hook[h].req
      <4>1. /\ \A g \in Hook : r \in hook[g].claims => g = h
            /\ \A g \in Hook : hook[g].req = r => g = h
        BY <1>3, <2>2, <2>3, <3>3
      <4>2. ~Claimed(r)' /\ ~InHand(r)' /\ Owned(r)'
        BY <3>1, <3>3, <4>1 DEF Claimed, InHand, Owned
      <4>3. Rank(view[r].status) = 2
        <5>1. Rank(view[r].status) >= 1
          BY <2>2, <2>3, <3>3 DEF Counted, Claimed
        <5>2. view[r].status # "pending"  BY <2>5, <3>3 DEF StillPending
        <5>3. view[r].status \in Status  BY <1>0, RecordOf
        <5>4. QED BY <5>1, <5>2, <5>3, RankIs DEF Status
      <4>4. ~Open(r)'  BY <2>1, <4>2, <4>3 DEF Open
      <4>5. lock' # Nobody => Behind(r)'
        BY <2>1, <2>3, <2>5 DEF Counted, Behind
      <4>6. QED BY <2>1, <2>3, <4>2, <4>3, <4>4, <4>5 DEF Counted
    <3>4. QED BY <3>2, <3>3
  <2>6. QED BY <1>0, <1>9, <2>4, <2>5, RereadIs
<1>10. CASE LockTimeout(h)
  <2>1. /\ Stops(h) /\ UNCHANGED <<view, lock, copy, leader, typed>>
        /\ why'[r] = why[r] \cup IF r \in {hook[h].req} THEN {"unrecorded"}
                                 ELSE {}
        /\ lease'[r] = IF lease[r] = h THEN Nobody ELSE lease[r]
    <3>1. why'[r] = why[r] \cup IF r \in {hook[h].req} THEN {"unrecorded"}
                                ELSE {}
      BY <1>0, <1>10, LockTimeoutNotes
    <3>2. \A q \in Request :
            lease'[q] = IF lease[q] = h THEN Nobody ELSE lease[q]
      BY <1>0, <1>10, LockTimeoutIs
    <3>3. lease'[r] = IF lease[r] = h THEN Nobody ELSE lease[r]  BY <3>2
    <3>4. Stops(h) /\ UNCHANGED <<view, lock, copy, leader, typed>>
      BY <1>0, <1>10, LockTimeoutIs
    <3>5. QED BY <3>1, <3>3, <3>4
  <2>2. r # hook[h].req /\ why[r] \subseteq why'[r]  BY <2>1 DEF Clean
  <2>3. QED BY <1>1, <2>1, <2>2, DrainCounts
<1>11. CASE Finalize(h)
  <2>1. /\ Turns(h, "writing", hook[h].claims, hook[h].req, hook[h].result)
        /\ UNCHANGED <<lock, copy, lease, leader, typed>> /\ Told(r)
        /\ hook[h].step = "finalizing"
    BY <1>0, <1>11, FinalizeIs, NotingLostIs
  <2>2. hook[h].req \in Request  BY <1>0, <2>1, DrainOf DEF OrderlyDrain
  <2>3. <<Verdict(h), hook[h].req>> \in DispatchEvent
    BY <2>2 DEF DispatchEvent, Verdict
  <2>4. view' \in {view, Shown(log')}
    BY <1>0, <1>11, <2>3, FinalizeIs, ExecIs
  <2>5. QED BY <1>1, <1>2, <2>1, <2>4, DrainCounts
<1>12. CASE WriteFinal(h)
  <2>1. hook[h].step = "writing"  BY <1>12 DEF WriteFinal, HookAt
  <2>2. /\ hook[h].req \in Request /\ hook[h].req \in hook[h].claims
        /\ lock = h /\ copy[hook[h].req].status = "pending"
    BY <1>0, <2>1, DrainOf DEF OrderlyDrain
  <2>3. /\ view'[hook[h].req].status = IF Retrying(h) THEN "pending"
                                       ELSE Verdict(h)
        /\ view'[hook[h].req].attempts = copy[hook[h].req].attempts + 1
        /\ \A s \in Request \ {hook[h].req} : view'[s] = copy[s]
        /\ Release /\ Finished(h) /\ UNCHANGED <<leader, typed>>
        /\ Noting(IF Retrying(h) THEN {hook[h].req} ELSE {}, "retried")
    BY <1>0, <1>12, <2>2, WriteFinalIs
  <2>4. /\ Told(r) /\ lock' = Nobody
        /\ r = hook[h].req /\ Retrying(h) => "retried" \in why'[r]
    BY <1>0, <2>3, NotingIs, ReleaseIs DEF Cause
  <2>5. Counted(r)  BY <1>1, <1>2, <2>4
  <2>6. /\ hook'[h].claims = hook[h].claims \ {hook[h].req}
        /\ hook'[h].req = Nobody
        /\ \A g \in Hook \ {h} : hook'[g] = hook[g]
        /\ \A s \in Request : lease'[s] = IF s = hook[h].req /\ lease[s] = h
                                          THEN Nobody ELSE lease[s]
    BY <1>0, <2>2, <2>3, FinishedIs
  <2>7. CASE r # hook[h].req
    BY <2>2, <2>3, <2>4, <2>5, <2>6, <2>7, DrainCounts
  <2>8. CASE r = hook[h].req
    <3>1. /\ \A g \in Hook : r \in hook[g].claims => g = h
          /\ \A g \in Hook : hook[g].req = r => g = h
      BY <1>3, <2>2, <2>5, <2>8
    <3>2. ~Claimed(r)' /\ ~InHand(r)' /\ Owned(r)'
      BY <2>6, <2>8, <3>1 DEF Claimed, InHand, Owned
    <3>3. InHand(r) /\ Behind(r)
      BY <2>2, <2>5, <2>8 DEF InHand, Counted
    <3>4. /\ typed[r] <= view[r].attempts + 1 /\ typed[r] <= MaxUnconfirmed
          /\ why[r] = {} => typed[r] <= 1
      BY <2>5, <3>3 DEF Counted
    <3>5. /\ typed'[r] = typed[r] /\ typed[r] \in Nat
          /\ view[r].attempts \in Nat /\ leader'[r] = leader[r]
          /\ view'[r].attempts = view[r].attempts + 1
      BY <1>0, <2>3, <2>8, <3>3, RecordOf DEF Behind
    <3>6. why'[r] = {} => why[r] = {} /\ ~Retrying(h)
      BY <1>2, <2>4, <2>8
    <3>7. CASE Retrying(h)
      <4>1. view'[r].attempts < MaxUnconfirmed
        BY <2>3, <2>8, <3>7 DEF Retrying
      <4>2. QED
        BY <2>4, <2>5, <3>2, <3>4, <3>5, <3>6, <3>7, <4>1 DEF Counted
    <3>8. CASE ~Retrying(h)
      <4>1. Rank(view'[r].status) = 2
        BY <2>3, <2>8, <3>8, RankIs DEF Verdict
      <4>2. ~Open(r)'  BY <3>2, <4>1 DEF Open
      <4>3. QED
        BY <2>4, <2>5, <3>2, <3>4, <3>5, <3>6, <4>1, <4>2 DEF Counted
    <3>9. QED BY <3>7, <3>8
  <2>9. QED BY <2>7, <2>8
<1>13. CASE KillHook(h)
  <2>1. /\ Stops(h) /\ UNCHANGED <<view, lock, copy, lease, leader, typed>>
        /\ why'[r] = why[r] \cup IF r \in {hook[h].req} \ {Nobody}
                                 THEN {"unrecorded"} ELSE {}
    BY <1>0, <1>13, KillHookIs, KillHookNotes
  <2>2. r # hook[h].req /\ why[r] \subseteq why'[r]  BY <2>1 DEF Clean
  <2>3. QED BY <1>1, <2>1, <2>2, DrainCounts
<1>14. QED
  BY <1>4, <1>5, <1>6, <1>7, <1>8, <1>9, <1>10, <1>11, <1>12, <1>13
     DEF HookStep

LEMMA NextKeepsOnce == BaseInv /\ BaseInv' /\ OnceInv /\ [Next]_vars => OnceInv'
<1> SUFFICES ASSUME BaseInv, BaseInv', OnceInv, [Next]_vars, NEW r \in Request,
                    Clean(r)'
             PROVE  Counted(r)'
  BY DEF OnceInv
<1>0. TypeOK  BY DEF BaseInv
<1>1. why[r] \subseteq why'[r] => Clean(r) /\ Counted(r)
  BY DEF OnceInv, Clean
<1>2. CASE UNCHANGED vars
  <2>1. UNCHANGED <<view, lock, copy, lease, leader, hook, typed, why>>
    BY <1>2 DEF vars
  <2>2. Counted(r)  BY <1>1, <2>1
  <2>3. QED
    BY <2>1, <2>2 DEF Counted, Owned, Claimed, InHand, Open, Behind
<1>3. ASSUME NEW s \in Request, ExpireLease(s)  PROVE Counted(r)'
  <2>1. /\ lease'[s] = Nobody /\ \A q \in Request \ {s} : lease'[q] = lease[q]
        /\ UNCHANGED <<view, lock, copy, leader, hook, typed>>
        /\ lease[s] \in Hook
    BY <1>0, <1>3, ExpireLeaseIs
  <2>2. /\ why[r] \subseteq why'[r]
        /\ Dead(lease[s], s) \/ "stolen" \in why'[s]
    BY <1>0, <1>3, ExpireLeaseNotes
  <2>3. Counted(r)  BY <1>1, <2>2
  <2>4. r = s => Dead(lease[r], r)  BY <2>2 DEF Clean
  <2>5. Owned(r)'  BY <2>1, <2>3, <2>4 DEF Counted, Owned, Dead
  <2>6. (Claimed(r)' <=> Claimed(r)) /\ (InHand(r)' <=> InHand(r))
    BY <2>1 DEF Claimed, InHand
  <2>7. why'[r] = {} => why[r] = {}  BY <2>2
  <2>8. (Behind(r)' <=> Behind(r)) /\ (Open(r)' <=> Open(r))
    BY <2>1, <2>6 DEF Behind, Open
  <2>9. QED BY <2>1, <2>3, <2>5, <2>6, <2>7, <2>8 DEF Counted
<1>4. CASE Rewrite
  <2>1. /\ view' = Shown(log) /\ Told(r)
        /\ UNCHANGED <<log, lock, copy, lease, leader, hook, typed>>
    BY <1>0, <1>4, RewriteIs, NotingLostIs
  <2>2. Counted(r)  BY <1>1, <2>1 DEF Told
  <2>3. leader'[r].step \in {"idle", "queueing", "unqueued", "waiting",
                             "fallback", "done"}
    BY <2>1, <2>2 DEF Counted
  <2>4. QED BY <2>1, <2>2, <2>3, LeaderCounts
<1>5. CASE BreakLock
  <2>1. /\ UNCHANGED <<view, lease, leader, hook, typed, why>>
        /\ lock' = Nobody
    BY <1>5, ReleaseIs DEF BreakLock
  <2>2. Counted(r)  BY <1>1, <2>1
  <2>3. leader'[r].step \in {"idle", "queueing", "unqueued", "waiting",
                             "fallback", "done"}
    BY <2>1, <2>2 DEF Counted
  <2>4. QED BY <2>1, <2>2, <2>3, LeaderCounts
<1>6. ASSUME NEW t \in Team, TheirRead(t) \/ TheirWrite(t)
      PROVE  Counted(r)'
  <2>1. UNCHANGED <<lock, copy, lease, leader, hook, typed>>
    BY <1>0, <1>6, TheirReadIs, TheirWriteIs
  <2>2. view'[r] = view[r]
    <3>1. "overwritten" \notin why'[r]  BY DEF Clean
    <3>2. QED BY <1>0, <1>6, <3>1, TheirReadIs, TheirWriteIs
  <2>3. why[r] \subseteq why'[r] /\ Counted(r)  BY <1>0, <1>1, HistoryGrows
  <2>4. why'[r] = {} => why[r] = {}  BY <2>3
  <2>5. QED
    BY <2>1, <2>2, <2>3, <2>4
       DEF Counted, Owned, Claimed, InHand, Open, Behind
<1>7. QED
  BY <1>2, <1>3, <1>4, <1>5, <1>6, LeaderKeepsOnce, DrainsKeepOnce DEF Next

\* A request is typed once, whatever drains run at the same time, unless for
\* one of the known causes; retries end with the last attempt allowed.
THEOREM OnceTyped == Spec => []TypedOnce
<1>1. BaseInv /\ OnceInv => TypedOnce  BY OnceInvIsTyped
<1>2. Spec => []OnceInv
  BY InitOnceInv, NextKeepsOnce, OrderIsKept, PTL DEF Spec
<1>3. QED BY <1>1, <1>2, OrderIsKept, PTL

-----------------------------------------------------------------------------
(* A failure that was reported is left alone.                              *)

\* The request was never queued.
Never(r) ==
  /\ <<"queued", r>> \notin log
  /\ view[r].status = "none" /\ copy[r].status = "none"
  /\ \A t \in Team : team[t].copy[r].status = "none"
  /\ ~Claimed(r)

Reverted(r) == "reverted" \in why[r]

\* What the leader knows of a request is no more than dispatch.json says, and
\* when it reports a failure the request is settled, or was never queued.
Reported(r) ==
  LET call == leader[r] IN
  /\ call.step \in {"idle", "queueing"} => Never(r)
  /\ call.step \notin {"idle", "queueing", "unqueued", "done"} =>
       Reverted(r) \/ Rank(view[r].status) >= 1
  /\ call.step \in {"fallback", "recording", "writing"} =>
       Reverted(r) \/ Rank(call.seen) <= Rank(view[r].status)
  /\ call.step \in {"recording", "writing"} => call.seen # "none"
  /\ call.step = "done" /\ call.outcome = "failed" =>
       \/ Never(r) \/ Rank(view[r].status) = 2
       \/ why[r] \cap {"unrecorded", "reverted"} # {}

FailInv == \A r \in Request : Reported(r)

LEMMA InitFailInv == Init => FailInv
<1> SUFFICES ASSUME Init, NEW r \in Request  PROVE Reported(r)
  BY DEF FailInv
<1>1. Never(r)  BY EmptyIs, NoDrainIs, NoWriterIs DEF Init, Never, Claimed
<1>2. leader[r].step = "idle"  BY NoCallIs DEF Init
<1>3. QED BY <1>1, <1>2 DEF Reported

LEMMA RankOfView ==
  ASSUME TypeOK, NEW r \in Request
  PROVE  /\ Rank(view[r].status) \in 0..2 /\ Rank(copy[r].status) \in 0..2
         /\ Rank(leader[r].seen) \in 0..2
BY RecordOf, CallOf, RankIs

\* A request that was never queued stays so.
LEMMA StillNever ==
  ASSUME NEW r \in Request, Never(r),
         log' = log \/ \E e : log' = log \cup {e} /\ e # <<"queued", r>>,
         \/ view'[r] \in {view[r], copy[r]} \/ view' = Shown(log')
         \/ \E t \in Team : view'[r] = team[t].copy[r],
         copy'[r] \in {copy[r], view[r]} \/ copy'[r].status = "none",
         \A t \in Team : \/ team'[t].copy[r] \in {team[t].copy[r], view[r]}
                        \/ team'[t].copy[r].status = "none",
         Claimed(r)' => Claimed(r)
  PROVE  Never(r)'
<1>1. <<"queued", r>> \notin log'  BY DEF Never
<1>2. view'[r].status = "none"
  <2>1. view' = Shown(log') => view'[r].status = LogStatus(log', r)
    BY ShownIs
  <2>2. LogStatus(log', r) = "none"  BY <1>1 DEF LogStatus
  <2>3. QED BY <2>1, <2>2 DEF Never
<1>3. copy'[r].status = "none"  BY DEF Never
<1>4. \A t \in Team : team'[t].copy[r].status = "none"  BY DEF Never
<1>5. QED BY <1>1, <1>2, <1>3, <1>4 DEF Never

LEMMA ToldNothing ==
  ASSUME TypeOK, NEW r \in Request, UNCHANGED view, why[r] \subseteq why'[r]
  PROVE  Told(r)
BY RankOfView, RecordOf DEF Told

\* A step that is not of the leader's call for r.
LEMMA StillReported ==
  ASSUME BaseInv, BaseInv', NEW r \in Request, Reported(r), Told(r),
         leader'[r] = leader[r], Never(r) => Never(r)'
  PROVE  Reported(r)'
<1>1. /\ Rank(view[r].status) \in 0..2 /\ Rank(view'[r].status) \in 0..2
      /\ Rank(leader[r].seen) \in 0..2
  <2>1. /\ view[r].status \in Status /\ view'[r].status \in Status
        /\ leader[r].seen \in Status
    BY DEF BaseInv, TypeOK, Record, Call
  <2>2. QED BY <2>1, RankIs
<1>2. /\ Reverted(r) => Reverted(r)'
      /\ Reverted(r)' \/ Rank(view'[r].status) >= Rank(view[r].status)
  BY <1>1 DEF Told, Reverted
<1>3. /\ leader'[r].step = leader[r].step /\ leader'[r].seen = leader[r].seen
      /\ leader'[r].outcome = leader[r].outcome
  OBVIOUS
<1>4. leader'[r].step \notin {"idle", "queueing", "unqueued", "done"} =>
        Reverted(r)' \/ Rank(view'[r].status) >= 1
  BY <1>1, <1>2, <1>3 DEF Reported
<1>5. leader'[r].step \in {"fallback", "recording", "writing"} =>
        Reverted(r)' \/ Rank(leader'[r].seen) <= Rank(view'[r].status)
  BY <1>1, <1>2, <1>3 DEF Reported
<1>6. leader'[r].step = "done" /\ leader'[r].outcome = "failed" =>
        \/ Never(r)' \/ Rank(view'[r].status) = 2
        \/ why'[r] \cap {"unrecorded", "reverted"} # {}
  <2>1. CASE Rank(view[r].status) = 2
    BY <1>1, <1>2, <2>1 DEF Reverted
  <2>2. CASE why[r] \cap {"unrecorded", "reverted"} # {}
    BY <2>2 DEF Told
  <2>3. QED BY <1>3, <2>1, <2>2 DEF Reported
<1>7. QED BY <1>3, <1>4, <1>5, <1>6 DEF Reported

LEMMA DrainsKeepReports ==
  ASSUME BaseInv, BaseInv', FailInv, NEW h \in Hook, NEW r \in Request,
         HookStep(h) \/ LockTimeout(h) \/ KillHook(h)
  PROVE  Reported(r)'
<1> USE DEF Turns, Stops
<1>0. TypeOK /\ OrderlyDrain(h) /\ Reported(r) /\ UNCHANGED team
  BY TeamStays DEF BaseInv, FailInv
<1>1. ASSUME Told(r), leader' = leader,
             \A g \in Hook \ {h} : hook'[g] = hook[g],
             hook'[h].claims \subseteq hook[h].claims,
             log' = log \/ \E e : log' = log \cup {e} /\ e # <<"queued", r>>,
             \/ view'[r] \in {view[r], copy[r]}
             \/ view' = Shown(log')
             \/ r \in hook[h].claims,
             copy'[r] \in {copy[r], view[r]} \/ copy'[r].status = "none"
      PROVE  Reported(r)'
  <2>1. Claimed(r)' => Claimed(r)  BY <1>1 DEF Claimed
  <2>2. r \in hook[h].claims => ~Never(r)  BY DEF Never, Claimed
  <2>3. Never(r) => Never(r)'  BY <1>0, <1>1, <2>1, <2>2, StillNever
  <2>4. QED BY <1>0, <1>1, <2>3, StillReported
<1>2. CASE BeginDrain(h)
  <2>1. /\ UNCHANGED <<log, view, leader, why>> /\ copy' = view
        /\ \A g \in Hook \ {h} : hook'[g] = hook[g]
        /\ hook'[h].claims = {}
    BY <1>0, <1>2, BeginDrainIs, AcquireIs
  <2>2. QED BY <1>0, <1>1, <2>1, ToldNothing
<1>3. CASE SkipAll(h)
  <2>1. /\ UNCHANGED <<log, view, leader, why>> /\ copy'[r].status = "none"
        /\ \A g \in Hook \ {h} : hook'[g] = hook[g]
        /\ hook'[h].claims = {}
    BY <1>0, <1>3, SkipAllIs, ReleaseIs
  <2>2. QED BY <1>0, <1>1, <2>1, ToldNothing
<1>4. CASE Claim(h)
  <2>1. PICK claims \in SUBSET Request :
          /\ \A s \in claims : copy[s].status = "pending"
          /\ Turns(h, "claimed", claims, Nobody, "none")
    BY <1>0, <1>4, ClaimIs
  <2>2. /\ UNCHANGED <<log, leader>> /\ view' = copy /\ Told(r)
        /\ copy'[r].status = "none"
    BY <1>0, <1>4, ClaimIs, NotingLostIs, ReleaseIs
  <2>3. ASSUME Never(r)  PROVE Never(r)'
    <3>1. r \notin claims  BY <2>1, <2>3 DEF Never
    <3>2. Claimed(r)' => Claimed(r)  BY <2>1, <3>1 DEF Claimed
    <3>3. QED BY <1>0, <2>2, <2>3, <3>2, StillNever
  <2>4. QED BY <1>0, <2>2, <2>3, StillReported
<1>5. CASE Inject(h)
  <2>1. /\ UNCHANGED <<log, view, leader, copy, why>>
        /\ \A g \in Hook \ {h} : hook'[g] = hook[g]
        /\ hook'[h].claims = hook[h].claims
    BY <1>0, <1>5, InjectIs
  <2>2. QED BY <1>0, <1>1, <2>1, ToldNothing
<1>6. CASE Verify(h)
  <2>1. /\ Turns(h, "typed", hook[h].claims, hook[h].req, hook[h].result)
        /\ UNCHANGED <<copy, leader>> /\ Told(r) /\ hook[h].step = "typing"
    BY <1>0, <1>6, VerifyIs, NotingLostIs
  <2>2. hook[h].req \in Request  BY <1>0, <2>1, DrainOf DEF OrderlyDrain
  <2>3. <<"delivered", hook[h].req>> \in DispatchEvent
    BY <2>2 DEF DispatchEvent
  <2>4. /\ log' \in {log, log \cup {<<"delivered", hook[h].req>>}}
        /\ view' \in {view, Shown(log')}
    BY <1>0, <1>6, <2>3, VerifyIs, ExecIs
  <2>5. <<"delivered", hook[h].req>> # <<"queued", r>>  OBVIOUS
  <2>6. QED BY <1>1, <2>1, <2>4, <2>5
<1>7. CASE Reread(h)
  <2>1. UNCHANGED <<log, view, leader, why>> /\ hook[h].step = "typed"
    BY <1>0, <1>7, RereadIs
  <2>2. hook[h].req \in Request  BY <1>0, <2>1, DrainOf DEF OrderlyDrain
  <2>3. copy' \in {copy, view} /\ hook'[h].claims \subseteq hook[h].claims
        /\ \A g \in Hook \ {h} : hook'[g] = hook[g]
    BY <1>0, <1>7, <2>2, RereadIs, AcquireIs, FinishedIs
  <2>4. QED BY <1>0, <1>1, <2>1, <2>3, ToldNothing
<1>8. CASE LockTimeout(h)
  <2>1. /\ Stops(h) /\ UNCHANGED <<log, view, copy, leader>>
        /\ why[r] \subseteq why'[r]
    <3>1. why[r] \subseteq why'[r]
      BY <1>0, <1>8, LockTimeoutNotes
    <3>2. QED BY <1>0, <1>8, <3>1, LockTimeoutIs
  <2>2. QED BY <1>0, <1>1, <2>1, ToldNothing
<1>9. CASE Finalize(h)
  <2>1. /\ Turns(h, "writing", hook[h].claims, hook[h].req, hook[h].result)
        /\ UNCHANGED <<copy, leader>> /\ Told(r) /\ hook[h].step = "finalizing"
    BY <1>0, <1>9, FinalizeIs, NotingLostIs
  <2>2. hook[h].req \in Request  BY <1>0, <2>1, DrainOf DEF OrderlyDrain
  <2>3. <<Verdict(h), hook[h].req>> \in DispatchEvent
    BY <2>2 DEF DispatchEvent, Verdict
  <2>4. /\ log' \in {log, log \cup {<<Verdict(h), hook[h].req>>}}
        /\ view' \in {view, Shown(log')}
    BY <1>0, <1>9, <2>3, FinalizeIs, ExecIs
  <2>5. <<Verdict(h), hook[h].req>> # <<"queued", r>>  BY DEF Verdict
  <2>6. QED BY <1>1, <2>1, <2>4, <2>5
<1>10. CASE WriteFinal(h)
  <2>1. hook[h].step = "writing"  BY <1>10 DEF WriteFinal, HookAt
  <2>2. hook[h].req \in Request /\ hook[h].req \in hook[h].claims
    BY <1>0, <2>1, DrainOf DEF OrderlyDrain
  <2>3. /\ \A s \in Request \ {hook[h].req} : view'[s] = copy[s]
        /\ Release /\ Finished(h) /\ UNCHANGED <<log, leader>> /\ Told(r)
    BY <1>0, <1>10, <2>2, WriteFinalIs, NotingIs DEF Cause
  <2>4. /\ copy'[r].status = "none" /\ hook'[h].claims \subseteq hook[h].claims
        /\ \A g \in Hook \ {h} : hook'[g] = hook[g]
    BY <1>0, <2>2, <2>3, ReleaseIs, FinishedIs
  <2>5. QED BY <1>1, <2>2, <2>3, <2>4
<1>11. CASE KillHook(h)
  <2>1. /\ Stops(h) /\ UNCHANGED <<log, view, copy, leader>>
        /\ why[r] \subseteq why'[r]
    <3>1. why[r] \subseteq why'[r]
      BY <1>0, <1>11, KillHookNotes
    <3>2. QED BY <1>0, <1>11, <3>1, KillHookIs
  <2>2. QED BY <1>0, <1>1, <2>1, ToldNothing
<1>12. QED
  BY <1>2, <1>3, <1>4, <1>5, <1>6, <1>7, <1>8, <1>9, <1>10, <1>11 DEF HookStep

LEMMA LeaderKeepsReports ==
  ASSUME BaseInv, BaseInv', FailInv, NEW s \in Request, NEW r \in Request,
         Enqueue(s) \/ LeaderStep(s) \/ LeaderTimeout(s) \/ KillLeader(s)
  PROVE  Reported(r)'
<1> USE DEF Goes
<1>0. TypeOK /\ OrderlyCall(s) /\ Reported(r) /\ Reported(s) /\ UNCHANGED team
  BY TeamStays DEF BaseInv, FailInv
<1>1. /\ Rank(view[s].status) \in 0..2 /\ Rank(view'[s].status) \in 0..2
      /\ Rank(leader[s].seen) \in 0..2 /\ view[s].status \in Status
      /\ leader[s].seen \in Status
  <2>1. /\ view[s].status \in Status /\ view'[s].status \in Status
        /\ leader[s].seen \in Status
    BY DEF BaseInv, TypeOK, Record, Call
  <2>2. QED BY <2>1, RankIs
<1>2. Rank("none") = 0 /\ Rank("pending") = 1 /\ Rank("failed") = 2
  BY RankIs
<1>3. ASSUME r # s, Told(r), leader'[r] = leader[r], UNCHANGED hook,
             log' = log \/ \E e : log' = log \cup {e} /\ e # <<"queued", r>>,
             view'[r] \in {view[r], copy[r]} \/ view' = Shown(log'),
             copy'[r] \in {copy[r], view[r]} \/ copy'[r].status = "none"
      PROVE  Reported(r)'
  <2>1. Claimed(r)' => Claimed(r)  BY <1>3 DEF Claimed
  <2>2. Never(r) => Never(r)'  BY <1>0, <1>3, <2>1, StillNever
  <2>3. QED BY <1>0, <1>3, <2>2, StillReported
<1>4. ASSUME r # s, UNCHANGED <<log, view, hook>>, why[r] \subseteq why'[r],
             leader'[r] = leader[r],
             copy'[r] \in {copy[r], view[r]}
      PROVE  Reported(r)'
  BY <1>0, <1>3, <1>4, ToldNothing
<1>5. CASE Enqueue(s)
  <2>1. /\ UNCHANGED <<log, view, hook, why>> /\ copy' = view
        /\ Goes(s, "queueing", "none", "failed", "none")
        /\ leader[s].step = "idle"
    BY <1>0, <1>5, EnqueueIs, AcquireIs
  <2>2. Never(s)'
    <3>1. Never(s)  BY <1>0, <2>1 DEF Reported
    <3>2. Claimed(s)' => Claimed(s)  BY <2>1 DEF Claimed
    <3>3. QED BY <1>0, <2>1, <3>1, <3>2, StillNever
  <2>3. Reported(s)'  BY <2>1, <2>2 DEF Reported
  <2>4. QED BY <1>4, <2>1, <2>3
<1>6. CASE Queue(s)
  <2>1. PICK ok \in BOOLEAN :
          /\ Exec(<<"queued", s>>, ok)
          /\ ok => Release
          /\ ~ok => UNCHANGED <<lock, copy>>
          /\ Goes(s, IF ok THEN "waiting" ELSE "unqueued", "none", "failed",
                  "none")
    BY <1>0, <1>6, QueueIs
  <2>2. UNCHANGED hook /\ Told(r)  BY <1>0, <1>6, QueueIs, NotingLostIs
  <2>3. <<"queued", s>> \in DispatchEvent  BY DEF DispatchEvent
  <2>4. /\ log' \in {log, log \cup {<<"queued", s>>}}
        /\ view' \in {view, Shown(log')}
    BY <1>0, <2>1, <2>3, ExecIs
  <2>5. CASE r # s
    <3>1. <<"queued", s>> # <<"queued", r>>  BY <2>5
    <3>2. copy'[r] = copy[r] \/ copy'[r].status = "none"
      BY <2>1, ReleaseIs
    <3>3. QED BY <1>3, <2>1, <2>2, <2>4, <2>5, <3>1, <3>2
  <2>6. CASE ~ok
    BY <2>1, <2>5, <2>6 DEF Reported
  <2>7. CASE ok
    <3>1. log' = log \cup {<<"queued", s>>} /\ view' = Shown(log')
      BY <2>1, <2>7 DEF Exec
    <3>2. view'[s].status = LogStatus(log', s)  BY <3>1, ShownIs
    <3>3. LogStatus(log', s) \in Status \ {"none"}
      BY <3>1 DEF LogStatus, Status
    <3>4. Rank(view'[s].status) >= 1
      BY <3>2, <3>3, RankIs DEF Status
    <3>5. QED BY <2>1, <2>5, <2>7, <3>4 DEF Reported
  <2>8. QED BY <2>5, <2>6, <2>7
<1>7. CASE QueueLocally(s)
  <2>1. /\ UNCHANGED <<log, hook>> /\ Told(r) /\ copy'[r].status = "none"
        /\ Goes(s, "waiting", "none", "failed", "none")
        /\ view'[s].status = "pending"
        /\ r # s => view'[r] = copy[r]
    BY <1>0, <1>7, QueueLocallyIs, NotingLostIs, ReleaseIs
  <2>2. Reported(s)'  BY <1>2, <2>1 DEF Reported
  <2>3. QED BY <1>3, <2>1, <2>2
<1>8. CASE Receive(s)
  <2>1. /\ UNCHANGED <<log, view, copy, hook, why>>
        /\ leader[s].step = "waiting"
        /\ \/ Goes(s, "done", view[s].status, "failed", "ok")
           \/ Goes(s, "fallback", view[s].status, "failed", "none")
    BY <1>0, <1>8, ReceiveIs
  <2>2. Reverted(s) \/ Rank(view[s].status) >= 1
    BY <1>0, <2>1 DEF Reported
  <2>3. leader'[s].seen = view'[s].status /\ leader'[s].outcome # "failed"
        /\ leader'[s].step \in {"done", "fallback"}
    BY <2>1
  <2>4. Reported(s)'
    BY <1>1, <2>1, <2>2, <2>3 DEF Reported, Reverted
  <2>5. QED BY <1>4, <2>1, <2>4
<1>9. CASE Fallback(s)
  <2>1. /\ UNCHANGED <<log, view, copy, hook>> /\ leader[s].step = "fallback"
        /\ why[r] \subseteq why'[r] /\ why[s] \subseteq why'[s]
        /\ \A q \in Request \ {s} : leader'[q] = leader[q]
        /\ leader'[s].step \in {"marking", "deciding", "recording"}
        /\ leader'[s].step = "recording" =>
             leader[s].seen = "failed" /\ leader'[s].seen = "failed"
    <3>1. /\ why[r] \subseteq why'[r] /\ why[s] \subseteq why'[s]
      BY <1>0, <1>9, FallbackNotes
    <3>2. QED BY <1>0, <1>9, <3>1, FallbackIs
  <2>2. /\ Reverted(s) \/ Rank(view[s].status) >= 1
        /\ Reverted(s) \/ Rank(leader[s].seen) <= Rank(view[s].status)
    BY <1>0, <2>1 DEF Reported
  <2>3. Reverted(s) => Reverted(s)'  BY <2>1 DEF Reverted
  <2>4. Reported(s)'  BY <2>1, <2>2, <2>3 DEF Reported
  <2>5. QED BY <1>4, <2>1, <2>4
<1>10. CASE MarkNotified(s)
  <2>1. /\ UNCHANGED <<log, view, copy, hook, why>>
        /\ leader[s].step = "marking"
        /\ \A q \in Request \ {s} : leader'[q] = leader[q]
        /\ leader'[s].step \in {"done", "deciding", "notifying"}
        /\ leader'[s].outcome = "ok"
    BY <1>0, <1>10, MarkNotifiedIs
  <2>2. Reported(s)'  BY <1>0, <2>1 DEF Reported, Reverted
  <2>3. QED BY <1>4, <2>1, <2>2
<1>11. CASE Notify(s)
  <2>1. PICK ok \in BOOLEAN :
          /\ Exec(<<"notified", s>>, ok)
          /\ Goes(s, IF ok THEN "done" ELSE "recording", "pending", "notified",
                  "ok")
    BY <1>0, <1>11, NotifyIs
  <2>2. /\ UNCHANGED <<copy, hook>> /\ Told(r) /\ Told(s)
        /\ leader[s].step = "notifying"
    BY <1>0, <1>11, NotifyIs, NotingLostIs
  <2>3. <<"notified", s>> \in DispatchEvent  BY DEF DispatchEvent
  <2>4. /\ log' \in {log, log \cup {<<"notified", s>>}}
        /\ view' \in {view, Shown(log')}
    BY <1>0, <2>1, <2>3, ExecIs
  <2>5. CASE r # s
    <3>1. <<"notified", s>> # <<"queued", r>>  OBVIOUS
    <3>2. QED BY <1>3, <2>1, <2>2, <2>4, <2>5, <3>1
  <2>6. Reverted(s)' \/ Rank(view'[s].status) >= 1
    <3>1. Reverted(s) \/ Rank(view[s].status) >= 1
      BY <1>0, <2>2 DEF Reported
    <3>2. QED BY <1>1, <2>2, <3>1 DEF Told, Reverted
  <2>7. Reported(s)'  BY <1>2, <2>1, <2>6 DEF Reported
  <2>8. QED BY <2>5, <2>7
<1>12. CASE Decide(s)
  <2>1. /\ UNCHANGED <<log, view, copy, hook, why>>
        /\ leader[s].step = "deciding"
        /\ \A q \in Request \ {s} : leader'[q] = leader[q]
        /\ leader'[s].seen = view[s].status
        /\ \/ leader'[s].step = "done" /\ view[s].status = "none"
           \/ leader'[s].step = "recording" /\ view[s].status # "none"
    BY <1>0, <1>12, DecideIs
  <2>2. Reverted(s) \/ Rank(view[s].status) >= 1
    BY <1>0, <2>1 DEF Reported
  <2>3. leader'[s].step = "done" => Reverted(s)
    BY <1>2, <2>1, <2>2
  <2>4. Reported(s)'
    BY <1>1, <2>1, <2>2, <2>3 DEF Reported, Reverted
  <2>5. QED BY <1>4, <2>1, <2>4
<1>13. CASE RecordStatus(s)
  <2>1. /\ UNCHANGED <<log, view, hook, why>> /\ copy' \in {copy, view}
        /\ leader[s].step = "recording"
        /\ \A q \in Request \ {s} : leader'[q] = leader[q]
        /\ leader'[s].seen = leader[s].seen
        /\ \/ leader'[s].step \in {"writing", "deciding"}
           \/ /\ leader'[s].step = "done" /\ leader[s].to = "failed"
              /\ ~Recordable(s)
    BY <1>0, <1>13, RecordStatusIs, AcquireIs
  <2>2. /\ Reverted(s) \/ Rank(view[s].status) >= 1
        /\ Reverted(s) \/ Rank(leader[s].seen) <= Rank(view[s].status)
        /\ leader[s].seen # "none"
    BY <1>0, <2>1 DEF Reported
  <2>3. ASSUME leader'[s].step = "done", ~Reverted(s)
        PROVE  Rank(view[s].status) = 2
    <3>1. ~Recordable(s) /\ leader[s].to = "failed"  BY <2>1, <2>3
    <3>2. CASE view[s].status = "pending"
      <4>1. leader[s].seen = "pending"
        BY <1>1, <1>2, <2>2, <2>3, <3>2, RankIs DEF Status
      <4>2. QED BY <3>1, <3>2, <4>1 DEF Recordable, CanTransition
    <3>3. QED BY <1>1, <1>2, <2>2, <2>3, <3>2, RankIs DEF Status
  <2>4. Reported(s)'
    BY <2>1, <2>2, <2>3 DEF Reported, Reverted
  <2>5. QED BY <1>4, <2>1, <2>4
<1>14. CASE WriteRecord(s)
  <2>1. /\ UNCHANGED <<log, hook>> /\ Told(r) /\ copy'[r].status = "none"
        /\ \A q \in Request \ {s} : leader'[q] = leader[q]
        /\ leader'[s].step = "done"
        /\ view'[s].status = leader[s].to
        /\ r # s => view'[r] = copy[r]
    BY <1>0, <1>14, WriteRecordIs, NotingLostIs, ReleaseIs
  <2>2. leader[s].to \in {"notified", "failed"}  BY <1>0, CallOf
  <2>3. Rank(view'[s].status) = 2  BY <2>1, <2>2, RankIs
  <2>4. Reported(s)'  BY <2>1, <2>3 DEF Reported
  <2>5. QED BY <1>3, <2>1, <2>4
<1>15. CASE LeaderTimeout(s)
  <2>1. /\ UNCHANGED <<log, view, copy, hook>>
        /\ \A q \in Request \ {s} : leader'[q] = leader[q]
        /\ leader'[s].step = "done"
        /\ leader[s].step \in {"idle", "recording"}
    BY <1>0, <1>15, LeaderTimeoutIs
  <2>2. /\ why[r] \subseteq why'[r]
        /\ leader[s].step = "recording" => "unrecorded" \in why'[s]
    BY <1>0, <1>15, LeaderTimeoutIs, LeaderTimeoutNotes
  <2>3. leader[s].step = "idle" => Never(s)'
    <3>1. leader[s].step = "idle" => Never(s)  BY <1>0 DEF Reported
    <3>2. QED BY <1>0, <2>1, <3>1 DEF Never, Claimed
  <2>4. Reported(s)'  BY <2>1, <2>2, <2>3 DEF Reported
  <2>5. QED BY <1>4, <2>1, <2>2, <2>4
<1>16. CASE KillLeader(s)
  <2>1. /\ UNCHANGED <<log, view, copy, hook, why>>
        /\ Goes(s, "done", "none", "failed", "none")
    BY <1>0, <1>16, KillLeaderIs
  <2>2. Reported(s)'  BY <2>1 DEF Reported
  <2>3. QED BY <1>4, <2>1, <2>2
<1>17. QED
  BY <1>5, <1>6, <1>7, <1>8, <1>9, <1>10, <1>11, <1>12, <1>13, <1>14, <1>15,
     <1>16 DEF LeaderStep

LEMMA NextKeepsReports ==
  BaseInv /\ BaseInv' /\ FailInv /\ [Next]_vars => FailInv'
<1> SUFFICES ASSUME BaseInv, BaseInv', FailInv, [Next]_vars, NEW r \in Request
             PROVE  Reported(r)'
  BY DEF FailInv
<1>0. TypeOK /\ Reported(r)  BY DEF BaseInv, FailInv
<1>1. ASSUME Told(r), UNCHANGED <<log, leader, hook>>,
             \/ view' = view \/ view' = Shown(log')
             \/ \E t \in Team : view'[r] = team[t].copy[r],
             copy' = copy \/ copy'[r].status = "none",
             \A t \in Team :
               \/ team'[t].copy[r] \in {team[t].copy[r], view[r]}
               \/ team'[t].copy[r].status = "none"
      PROVE  Reported(r)'
  <2>1. Claimed(r)' => Claimed(r)  BY <1>1 DEF Claimed
  <2>2. Never(r) => Never(r)'  BY <1>1, <2>1, StillNever
  <2>3. QED BY <1>0, <1>1, <2>2, StillReported
<1>2. CASE UNCHANGED vars
  <2>1. UNCHANGED <<log, view, copy, team, leader, hook, why>>  BY <1>2 DEF vars
  <2>2. QED BY <1>0, <1>1, <2>1, ToldNothing
<1>3. ASSUME NEW s \in Request, ExpireLease(s)  PROVE Reported(r)'
  <2>1. UNCHANGED <<log, view, copy, team, leader, hook>>
    BY <1>0, <1>3, ExpireLeaseIs
  <2>2. why[r] \subseteq why'[r]  BY <1>0, HistoryGrows
  <2>3. QED BY <1>0, <1>1, <2>1, <2>2, ToldNothing
<1>4. CASE Rewrite
  BY <1>0, <1>1, <1>4, RewriteIs, NotingLostIs
<1>5. CASE BreakLock
  <2>1. /\ UNCHANGED <<log, view, team, leader, hook, why>>
        /\ copy'[r].status = "none"
    BY <1>5, ReleaseIs DEF BreakLock
  <2>2. QED BY <1>0, <1>1, <2>1, ToldNothing
<1>6. ASSUME NEW t \in Team, TheirRead(t)  PROVE Reported(r)'
  <2>1. /\ UNCHANGED <<log, view, copy, leader, hook, why>>
        /\ team'[t].copy = view
        /\ \A u \in Team \ {t} : team'[u] = team[u]
    BY <1>0, <1>6, TheirReadIs
  <2>2. \A u \in Team : team'[u].copy[r] \in {team[u].copy[r], view[r]}
    BY <2>1
  <2>3. QED BY <1>0, <1>1, <2>1, <2>2, ToldNothing
<1>7. ASSUME NEW t \in Team, TheirWrite(t)  PROVE Reported(r)'
  <2>1. /\ UNCHANGED <<log, copy, leader, hook>> /\ Told(r)
        /\ view' = team[t].copy /\ team'[t] = NoWriter
        /\ \A u \in Team \ {t} : team'[u] = team[u]
    BY <1>0, <1>7, TheirWriteIs
  <2>2. \A u \in Team : \/ team'[u].copy[r] \in {team[u].copy[r], view[r]}
                        \/ team'[u].copy[r].status = "none"
    BY <2>1, NoWriterIs
  <2>3. QED BY <1>1, <2>1, <2>2
<1>8. QED
  BY <1>2, <1>3, <1>4, <1>5, <1>6, <1>7, LeaderKeepsReports, DrainsKeepReports
     DEF Next

\* A lease is taken for a request that is pending in the copy of the holder of
\* the lock, which is then written back.
LEMMA LeaseTaken ==
  ASSUME BaseInv, [Next]_vars, NEW r \in Request,
         lease'[r] \notin {lease[r], Nobody}
  PROVE  copy[r].status = "pending" /\ view' = copy /\ Told(r)
<1>0. TypeOK  BY DEF BaseInv
<1>1. ~UNCHANGED lease  OBVIOUS
<1>2. ASSUME NEW s \in Request,
             Enqueue(s) \/ LeaderStep(s) \/ LeaderTimeout(s) \/ KillLeader(s)
      PROVE  UNCHANGED lease
  BY <1>0, <1>2, EnqueueIs, QueueIs, QueueLocallyIs, ReceiveIs, FallbackIs,
     MarkNotifiedIs, NotifyIs, DecideIs, RecordStatusIs, WriteRecordIs,
     LeaderTimeoutIs, KillLeaderIs DEF LeaderStep
<1>3. ASSUME NEW s \in Request, ExpireLease(s)
      PROVE  lease'[r] \in {lease[r], Nobody}
  BY <1>0, <1>3, ExpireLeaseIs
<1>4. ASSUME NEW h \in Hook, HookStep(h) \/ LockTimeout(h) \/ KillHook(h),
             ~Claim(h)
      PROVE  lease'[r] \in {lease[r], Nobody}
  <2>1. OrderlyDrain(h)  BY DEF BaseInv
  <2>2. CASE Reread(h) \/ WriteFinal(h)
    <3>1. hook[h].step \in {"typed", "writing"}
      BY <2>2 DEF Reread, WriteFinal, HookAt
    <3>2. hook[h].req \in Request
      BY <1>0, <2>1, <3>1, DrainOf DEF OrderlyDrain
    <3>3. Finished(h) \/ UNCHANGED lease
      BY <1>0, <2>2, <3>2, RereadIs, WriteFinalIs
    <3>4. QED BY <1>0, <3>2, <3>3, FinishedIs
  <2>3. CASE LockTimeout(h)  BY <1>0, <2>3, LockTimeoutIs
  <2>4. CASE \/ BeginDrain(h) \/ SkipAll(h) \/ Inject(h) \/ Verify(h)
             \/ Finalize(h) \/ KillHook(h)
    BY <1>0, <2>4, BeginDrainIs, SkipAllIs, InjectIs, VerifyIs, FinalizeIs,
       KillHookIs
  <2>5. QED BY <1>4, <2>2, <2>3, <2>4 DEF HookStep
<1>5. PICK h \in Hook : Claim(h)
  <2>1. /\ ~Rewrite /\ ~BreakLock /\ ~UNCHANGED vars
        /\ \A t \in Team : ~TheirRead(t) /\ ~TheirWrite(t)
    BY <1>1 DEF Rewrite, BreakLock, vars, TheirRead, TheirWrite
  <2>2. QED BY <1>1, <1>2, <1>3, <1>4, <2>1 DEF Next
<1>6. PICK claims \in SUBSET Request :
        /\ \A s \in claims : copy[s].status = "pending"
        /\ lease'[r] = IF r \in claims THEN h ELSE lease[r]
  BY <1>0, <1>5, ClaimIs
<1>7. QED BY <1>0, <1>5, <1>6, ClaimIs, NotingLostIs

\* A request that the leader reported as failed is claimed by no later drain,
\* unless it could not record the failure or dispatch.json lost it.
THEOREM FailureIsLeft == Spec => FailedIsLeft
<1>1. ASSUME BaseInv, FailInv, [Next]_vars
      PROVE  [\A r \in Request :
                /\ lease'[r] \notin {lease[r], Nobody}
                /\ leader[r].step = "done"
                /\ leader[r].outcome = "failed"
                => why'[r] \cap {"unrecorded", "reverted"} # {}]_vars
  <2> SUFFICES ASSUME NEW r \in Request,
                      lease'[r] \notin {lease[r], Nobody},
                      leader[r].step = "done", leader[r].outcome = "failed"
               PROVE  why'[r] \cap {"unrecorded", "reverted"} # {}
    OBVIOUS
  <2>1. copy[r].status = "pending" /\ view' = copy /\ Told(r)
    BY <1>1, LeaseTaken
  <2>2. Reported(r)  BY <1>1 DEF FailInv
  <2>3. \/ Rank(view[r].status) = 2
        \/ why[r] \cap {"unrecorded", "reverted"} # {}
    BY <2>1, <2>2 DEF Reported, Never
  <2>4. Rank(view'[r].status) = 1  BY <2>1, RankIs
  <2>5. QED BY <2>1, <2>3, <2>4 DEF Told
<1>2. Spec => []FailInv
  BY InitFailInv, NextKeepsReports, OrderIsKept, PTL DEF Spec
<1>3. QED BY <1>1, <1>2, OrderIsKept, PTL DEF Spec, FailedIsLeft

-----------------------------------------------------------------------------
(* What dispatch.json may lose.                                            *)

\* A request in the log is in dispatch.json, and in what a writer holds, if no
\* other team has overwritten it.
Shows(r) ==
  /\ leader[r].step # "unqueued"
  /\ leader[r].step \in {"idle", "queueing"} => <<"queued", r>> \notin log
  /\ <<"queued", r>> \in log /\ "overwritten" \notin why[r] =>
       view[r].status # "none" /\ (lock # Nobody => copy[r].status # "none")

ShowsInv == faults = 0 => \A r \in Request : Shows(r)

LEMMA InitShowsInv == Init => ShowsInv
BY NoCallIs DEF Init, ShowsInv, Shows

LEMMA StatusRank ==
  ASSUME NEW L, NEW r
  PROVE  /\ Rank(LogStatus(L, r)) \in 0..2
         /\ LogStatus(L, r) = "none" <=> <<"queued", r>> \notin L
         /\ LogStatus(L, r) = "none" <=> Rank(LogStatus(L, r)) = 0
         /\ LogStatus(L, r) = "pending" <=> Rank(LogStatus(L, r)) = 1
<1>1. LogStatus(L, r) \in Status  BY StatusOfLog
<1>2. LogStatus(L, r) = "none" <=> <<"queued", r>> \notin L  BY DEF LogStatus
<1>3. QED BY <1>1, <1>2, RankIs DEF Status

LEMMA StillShows ==
  ASSUME NEW r \in Request, Shows(r),
         leader'[r].step # "unqueued",
         leader'[r].step \in {"idle", "queueing"} =>
           leader[r].step \in {"idle", "queueing"},
         log' = log \/ \E e : log' = log \cup {e} /\ e # <<"queued", r>>,
         why[r] \subseteq why'[r],
         \/ view'[r] = view[r] \/ view' = Shown(log')
         \/ lock # Nobody /\ view'[r] = copy[r]
         \/ view'[r].status # "none",
         lock' = Nobody \/ UNCHANGED <<lock, copy>> \/ copy' = view
  PROVE  Shows(r)'
<1>1. <<"queued", r>> \in log' => <<"queued", r>> \in log  OBVIOUS
<1>2. ASSUME <<"queued", r>> \in log', "overwritten" \notin why'[r]
      PROVE  /\ view'[r].status # "none"
             /\ lock' # Nobody => copy'[r].status # "none"
  <2>1. view' = Shown(log') => view'[r].status = LogStatus(log', r)
    BY ShownIs
  <2>2. LogStatus(log', r) # "none"  BY <1>2, StatusRank
  <2>3. /\ view[r].status # "none"
        /\ lock # Nobody => copy[r].status # "none"
    BY <1>1, <1>2 DEF Shows
  <2>4. QED BY <2>1, <2>2, <2>3
<1>3. leader'[r].step \in {"idle", "queueing"} => <<"queued", r>> \notin log'
  BY <1>1 DEF Shows
<1>4. QED BY <1>2, <1>3 DEF Shows

LEMMA LeaderKeepsShows ==
  ASSUME BaseInv, BaseInv', ShowsInv, faults' = 0, NEW s \in Request,
         NEW r \in Request, why[r] \subseteq why'[r],
         Enqueue(s) \/ LeaderStep(s) \/ LeaderTimeout(s) \/ KillLeader(s)
  PROVE  Shows(r)'
<1> USE DEF Goes
<1>0. TypeOK /\ OrderlyCall(s)  BY DEF BaseInv
<1>1. faults = 0 => Shows(r) /\ Shows(s)  BY DEF ShowsInv
<1>2. ASSUME UNCHANGED <<log, view, faults>>,
             UNCHANGED <<lock, copy>> \/ copy' = view,
             \A q \in Request \ {s} : leader'[q] = leader[q],
             leader'[s].step \notin {"idle", "unqueued"},
             leader'[s].step = "queueing" => leader[s].step = "idle"
      PROVE  Shows(r)'
  <2>1. Shows(r)  BY <1>1, <1>2
  <2>2. leader'[r].step # "unqueued"  BY <1>2, <2>1 DEF Shows
  <2>3. leader'[r].step \in {"idle", "queueing"} =>
          leader[r].step \in {"idle", "queueing"}
    BY <1>2
  <2>4. QED BY <1>2, <2>1, <2>2, <2>3, StillShows
<1>3. CASE Enqueue(s)
  BY <1>0, <1>2, <1>3, EnqueueIs, AcquireIs
<1>4. CASE Queue(s)
  <2>1. PICK ok \in BOOLEAN :
          /\ Exec(<<"queued", s>>, ok)
          /\ ok => Release
          /\ ~ok => UNCHANGED <<lock, copy>>
          /\ Goes(s, IF ok THEN "waiting" ELSE "unqueued", "none", "failed",
                  "none")
    BY <1>0, <1>4, QueueIs
  <2>2. <<"queued", s>> \in DispatchEvent  BY DEF DispatchEvent
  <2>3. AcceptsDispatch(log, <<"queued", s>>)  BY DEF AcceptsDispatch
  <2>4. faults = 0 /\ log' = log \cup {<<"queued", s>>} /\ view' = Shown(log')
    BY <1>0, <2>1, <2>2, <2>3, ExecIs DEF TypeOK
  <2>5. ok
    <3>1. ~ok => \/ ~AcceptsDispatch(log, <<"queued", s>>)
                 \/ faults' = faults + 1
      BY <2>1 DEF Exec
    <3>2. QED BY <2>3, <2>4, <3>1
  <2>6. lock' = Nobody /\ leader'[s].step = "waiting"
    BY <2>1, <2>5, ReleaseIs
  <2>7. CASE r = s
    <3>1. view'[r].status = LogStatus(log', r)  BY <2>4, ShownIs
    <3>2. view'[r].status # "none"
      <4>1. <<"queued", r>> \in log'  BY <2>4, <2>7
      <4>2. LogStatus(log', r) # "none"  BY <4>1 DEF LogStatus
      <4>3. QED BY <3>1, <4>2
    <3>3. QED BY <2>6, <2>7, <3>2 DEF Shows
  <2>8. CASE r # s
    <3>1. Shows(r) /\ <<"queued", s>> # <<"queued", r>>
      BY <1>1, <2>4, <2>8
    <3>2. leader'[r] = leader[r]  BY <2>1, <2>8
    <3>3. leader'[r].step # "unqueued"  BY <3>1, <3>2 DEF Shows
    <3>4. QED BY <2>4, <2>6, <3>1, <3>2, <3>3, StillShows
  <2>9. QED BY <2>7, <2>8
<1>5. CASE QueueLocally(s)
  BY <1>0, <1>1, <1>5, QueueLocallyIs DEF Shows
<1>6. CASE Receive(s)
  BY <1>0, <1>2, <1>6, ReceiveIs
<1>7. CASE Fallback(s)
  BY <1>0, <1>2, <1>7, FallbackIs
<1>8. CASE MarkNotified(s)
  BY <1>0, <1>2, <1>8, MarkNotifiedIs
<1>9. CASE Notify(s)
  <2>1. PICK ok \in BOOLEAN :
          /\ Exec(<<"notified", s>>, ok)
          /\ Goes(s, IF ok THEN "done" ELSE "recording", "pending", "notified",
                  "ok")
    BY <1>0, <1>9, NotifyIs
  <2>2. UNCHANGED <<lock, copy>>  BY <1>0, <1>9, NotifyIs
  <2>3. <<"notified", s>> \in DispatchEvent  BY DEF DispatchEvent
  <2>4. /\ log' \in {log, log \cup {<<"notified", s>>}}
        /\ view' \in {view, Shown(log')} /\ faults = 0
    BY <1>0, <2>1, <2>3, ExecIs DEF TypeOK
  <2>5. Shows(r) /\ <<"notified", s>> # <<"queued", r>>  BY <1>1, <2>4
  <2>6. /\ leader'[r].step # "unqueued"
        /\ leader'[r].step \in {"idle", "queueing"} =>
             leader[r].step \in {"idle", "queueing"}
    BY <2>1, <2>5 DEF Shows
  <2>7. QED BY <2>2, <2>4, <2>5, <2>6, StillShows
<1>10. CASE Decide(s)
  BY <1>0, <1>2, <1>10, DecideIs
<1>11. CASE RecordStatus(s)
  BY <1>0, <1>2, <1>11, RecordStatusIs, AcquireIs
<1>12. CASE WriteRecord(s)
  <2>1. /\ UNCHANGED <<log, faults>> /\ lock' = Nobody /\ lock = s
        /\ leader'[s].step = "done"
        /\ view'[s].status = leader[s].to
        /\ \A q \in Request \ {s} : leader'[q] = leader[q]
        /\ r # s => view'[r] = copy[r]
    BY <1>0, <1>12, WriteRecordIs, ReleaseIs DEF OrderlyCall
  <2>2. view'[s].status # "none"  BY <1>0, <2>1, CallOf
  <2>3. Shows(r)  BY <1>1, <2>1
  <2>4. /\ leader'[r].step # "unqueued"
        /\ leader'[r].step \in {"idle", "queueing"} =>
             leader[r].step \in {"idle", "queueing"}
    BY <2>1, <2>3 DEF Shows
  <2>5. (lock # Nobody /\ view'[r] = copy[r]) \/ view'[r].status # "none"
    BY <2>1, <2>2
  <2>6. QED BY <2>1, <2>3, <2>4, <2>5, StillShows
<1>13. CASE LeaderTimeout(s)
  BY <1>0, <1>2, <1>13, LeaderTimeoutIs
<1>14. CASE KillLeader(s)
  BY <1>0, <1>2, <1>14, KillLeaderIs
<1>15. QED
  BY <1>3, <1>4, <1>5, <1>6, <1>7, <1>8, <1>9, <1>10, <1>11, <1>12, <1>13,
     <1>14 DEF LeaderStep

LEMMA DrainsKeepShows ==
  ASSUME BaseInv, BaseInv', ShowsInv, faults' = 0, NEW h \in Hook,
         NEW r \in Request, why[r] \subseteq why'[r],
         HookStep(h) \/ LockTimeout(h) \/ KillHook(h)
  PROVE  Shows(r)'
<1>0. TypeOK /\ OrderlyDrain(h)  BY DEF BaseInv
<1>1. ASSUME leader' = leader, faults = 0,
             log' = log \/ \E e : log' = log \cup {e} /\ e # <<"queued", r>>,
             \/ view'[r] = view[r] \/ view' = Shown(log')
             \/ lock # Nobody /\ view'[r] = copy[r]
             \/ view'[r].status # "none",
             lock' = Nobody \/ UNCHANGED <<lock, copy>> \/ copy' = view
      PROVE  Shows(r)'
  <2>1. Shows(r)  BY <1>1 DEF ShowsInv
  <2>2. leader'[r].step # "unqueued"  BY <1>1, <2>1 DEF Shows
  <2>3. QED BY <1>1, <2>1, <2>2, StillShows
<1>2. CASE \/ BeginDrain(h) \/ SkipAll(h) \/ Inject(h) \/ Reread(h)
           \/ LockTimeout(h) \/ KillHook(h)
  <2>1. UNCHANGED <<log, view, leader, faults>>
    BY <1>0, <1>2, BeginDrainIs, SkipAllIs, InjectIs, RereadIs, LockTimeoutIs,
       KillHookIs
  <2>2. lock' = Nobody \/ UNCHANGED <<lock, copy>> \/ copy' = view
    BY <1>0, <1>2, BeginDrainIs, SkipAllIs, InjectIs, RereadIs, LockTimeoutIs,
       KillHookIs, AcquireIs, ReleaseIs
  <2>3. QED BY <1>1, <2>1, <2>2
<1>3. CASE Claim(h)
  <2>1. /\ UNCHANGED <<log, leader, faults>> /\ view' = copy /\ lock' = Nobody
        /\ hook[h].step = "reading"
    BY <1>0, <1>3, ClaimIs, ReleaseIs
  <2>2. lock # Nobody  BY <1>0, <2>1 DEF OrderlyDrain
  <2>3. QED BY <1>1, <2>1, <2>2
<1>4. CASE Verify(h) \/ Finalize(h)
  <2>1. /\ UNCHANGED <<lock, copy, leader>>
        /\ hook[h].step \in {"typing", "finalizing"}
    BY <1>0, <1>4, VerifyIs, FinalizeIs
  <2>2. hook[h].req \in Request  BY <1>0, <2>1, DrainOf DEF OrderlyDrain
  <2>3. \/ UNCHANGED <<log, view, faults>>
        \/ \E ok \in BOOLEAN, e \in DispatchEvent :
             e[1] # "queued" /\ Exec(e, ok)
    <3>1. /\ <<"delivered", hook[h].req>> \in DispatchEvent
          /\ <<Verdict(h), hook[h].req>> \in DispatchEvent
          /\ Verdict(h) # "queued"
      BY <2>2 DEF DispatchEvent, Verdict
    <3>2. QED BY <1>0, <1>4, <3>1, VerifyIs, FinalizeIs
  <2>4. CASE UNCHANGED <<log, view, faults>>  BY <1>1, <2>1, <2>4
  <2>5. ASSUME NEW ok \in BOOLEAN, NEW e \in DispatchEvent, e[1] # "queued",
               Exec(e, ok)
        PROVE  Shows(r)'
    <3>1. /\ log' \in {log, log \cup {e}} /\ view' \in {view, Shown(log')}
          /\ faults = 0
      BY <1>0, <2>5, ExecIs DEF TypeOK
    <3>2. e # <<"queued", r>>  BY <2>5
    <3>3. QED BY <1>1, <2>1, <3>1, <3>2
  <2>6. QED BY <2>3, <2>4, <2>5
<1>5. CASE WriteFinal(h)
  <2>1. hook[h].step = "writing"  BY <1>5 DEF WriteFinal, HookAt
  <2>2. hook[h].req \in Request /\ lock = h
    BY <1>0, <2>1, DrainOf DEF OrderlyDrain
  <2>3. /\ UNCHANGED <<log, leader, faults>> /\ lock' = Nobody
        /\ view'[hook[h].req].status = IF Retrying(h) THEN "pending"
                                       ELSE Verdict(h)
        /\ \A s \in Request \ {hook[h].req} : view'[s] = copy[s]
    BY <1>0, <1>5, <2>2, WriteFinalIs, ReleaseIs
  <2>4. r = hook[h].req => view'[r].status # "none"
    BY <2>3 DEF Verdict
  <2>5. r # hook[h].req => lock # Nobody /\ view'[r] = copy[r]
    BY <2>2, <2>3
  <2>6. QED BY <1>1, <2>3, <2>4, <2>5
<1>6. QED BY <1>2, <1>3, <1>4, <1>5 DEF HookStep

LEMMA NextKeepsShows == BaseInv /\ BaseInv' /\ ShowsInv /\ [Next]_vars => ShowsInv'
<1> SUFFICES ASSUME BaseInv, BaseInv', ShowsInv, [Next]_vars, faults' = 0,
                    NEW r \in Request
             PROVE  Shows(r)'
  BY DEF ShowsInv
<1>0. TypeOK  BY DEF BaseInv
<1> why[r] \subseteq why'[r]  BY <1>0, HistoryGrows
<1>1. ASSUME UNCHANGED <<log, leader, faults>>,
             view' = view \/ view' = Shown(log'),
             lock' = Nobody \/ UNCHANGED <<lock, copy>>
      PROVE  Shows(r)'
  <2>1. Shows(r)  BY <1>1 DEF ShowsInv
  <2>2. leader'[r].step # "unqueued"  BY <1>1, <2>1 DEF Shows
  <2>3. QED BY <1>1, <2>1, <2>2, StillShows
<1>2. CASE UNCHANGED vars
  <2>1. UNCHANGED <<log, view, lock, copy, leader, faults>>  BY <1>2 DEF vars
  <2>2. QED BY <1>1, <2>1
<1>3. ASSUME NEW s \in Request, ExpireLease(s)  PROVE Shows(r)'
  BY <1>0, <1>1, <1>3, ExpireLeaseIs
<1>4. CASE Rewrite
  BY <1>0, <1>1, <1>4, RewriteIs
<1>5. CASE BreakLock
  BY <1>1, <1>5, ReleaseIs DEF BreakLock
<1>6. ASSUME NEW t \in Team, TheirRead(t) \/ TheirWrite(t)
      PROVE  Shows(r)'
  <2>1. UNCHANGED <<log, lock, copy, leader, faults>>
    BY <1>0, <1>6, TheirReadIs, TheirWriteIs
  <2>2. view'[r] = view[r] \/ "overwritten" \in why'[r]
    BY <1>0, <1>6, TheirReadIs, TheirWriteIs
  <2>3. Shows(r)  BY <2>1 DEF ShowsInv
  <2>4. QED BY <2>1, <2>2, <2>3 DEF Shows
<1>7. QED
  BY <1>2, <1>3, <1>4, <1>5, <1>6, LeaderKeepsShows, DrainsKeepShows DEF Next

\* A drain is about to write its verdict on the request.
HookWrites(r) ==
  \E h \in Hook : hook[h].step = "writing" /\ hook[h].req = r /\ ~Retrying(h)

\* The lock is held by a process that may still write.
Alive ==
  \/ lock \in Hook /\ hook[lock].step # "idle"
  \/ lock \in Request /\ leader[lock].step # "done"

\* As long as the leader has not typed the request itself and no other team has
\* overwritten it, dispatch.json, the log and what is written back agree on how
\* far it came.
Left(r) == why[r] \cap {"fallback", "overwritten"} = {}

Faithful(r) ==
  /\ ~Reverted(r)
  /\ Rank(view[r].status) = Rank(LogStatus(log, r))
  /\ leader[r].step \in {"idle", "queueing", "waiting", "fallback", "done"}
  /\ Alive => HookWrites(r) \/ Rank(copy[r].status) = Rank(view[r].status)
  /\ HookWrites(r) => Rank(LogStatus(log, r)) = 2

FaithfulInv ==
  faults = 0 => \A r \in Request : Left(r) => Faithful(r)

LEMMA FaithfulLosesLittle == ShowsInv /\ FaithfulInv => LostAfterFallback
BY DEF ShowsInv, Shows, FaithfulInv, Left, Faithful, Reverted, LostAfterFallback

LEMMA InitFaithfulInv == Init => FaithfulInv
<1> SUFFICES ASSUME Init, NEW r \in Request  PROVE Faithful(r)
  BY DEF FaithfulInv
<1>1. ~Reverted(r) /\ leader[r].step = "idle" /\ lock = Nobody
  BY NoCallIs DEF Init, Reverted
<1>2. view[r].status = "none" /\ LogStatus(log, r) = "none"
  BY EmptyIs DEF Init, LogStatus
<1>3. ~HookWrites(r)  BY NoDrainIs DEF Init, HookWrites
<1>4. ~Alive  BY <1>1 DEF Alive
<1>5. QED BY <1>1, <1>2, <1>3, <1>4 DEF Faithful

\* What an event about one request says of another, and of the same.
LEMMA LogGrows ==
  ASSUME NEW L, NEW e, NEW r
  PROVE  /\ Rank(LogStatus(L \cup {e}, r)) >= Rank(LogStatus(L, r))
         /\ e[2] # r => LogStatus(L \cup {e}, r) = LogStatus(L, r)
         /\ AcceptsDispatch(L, e) /\ e = <<"delivered", r>> =>
              Rank(LogStatus(L \cup {e}, r)) = Rank(LogStatus(L, r))
         /\ /\ e \in {<<"notified", r>>, <<"failed", r>>}
            /\ Rank(LogStatus(L, r)) = 1
            => AcceptsDispatch(L, e) /\ Rank(LogStatus(L \cup {e}, r)) = 2
<1>1. /\ Rank("none") = 0 /\ Rank("pending") = 1 /\ Rank("notified") = 2
      /\ Rank("delivered") = 2 /\ Rank("failed") = 2
  BY RankIs
<1>2. Rank(LogStatus(L \cup {e}, r)) >= Rank(LogStatus(L, r))
  BY <1>1 DEF LogStatus
<1>3. e[2] # r => LogStatus(L \cup {e}, r) = LogStatus(L, r)
  BY DEF LogStatus
<1>4. AcceptsDispatch(L, e) /\ e = <<"delivered", r>> =>
        Rank(LogStatus(L \cup {e}, r)) = Rank(LogStatus(L, r))
  BY <1>1 DEF LogStatus, AcceptsDispatch
<1>5. /\ e \in {<<"notified", r>>, <<"failed", r>>}
      /\ Rank(LogStatus(L, r)) = 1
      => AcceptsDispatch(L, e) /\ Rank(LogStatus(L \cup {e}, r)) = 2
  BY <1>1 DEF LogStatus, AcceptsDispatch
<1>6. QED BY <1>2, <1>3, <1>4, <1>5

\* Who writes a verdict holds the lock.
LEMMA WriterHolds ==
  BaseInv => \A r \in Request : HookWrites(r) =>
    /\ lock \in Hook /\ hook[lock].step = "writing" /\ hook[lock].req = r
    /\ ~Retrying(lock)
BY DEF BaseInv, OrderlyDrain, HookWrites

LEMMA NextWriterHolds ==
  ASSUME BaseInv'
  PROVE  \A r \in Request : HookWrites(r)' =>
           lock' \in Hook /\ hook'[lock'].step = "writing"
BY DEF BaseInv, OrderlyDrain, HookWrites

\* A step after which the request came no further.
LEMMA StillFaithful ==
  ASSUME BaseInv, BaseInv', NEW r \in Request, Faithful(r),
         Reverted(r)' => \/ Reverted(r)
                         \/ Rank(view'[r].status) < Rank(view[r].status),
         leader'[r].step \in {"idle", "queueing", "waiting", "fallback", "done"},
         Rank(LogStatus(log', r)) = Rank(LogStatus(log, r)),
         \/ view'[r] = view[r] \/ view' = Shown(log')
         \/ Alive /\ ~HookWrites(r) /\ view'[r] = copy[r],
         \/ lock' = Nobody
         \/ copy' = view /\ view' = view /\ ~HookWrites(r)'
         \/ /\ UNCHANGED <<lock, copy>>
            /\ HookWrites(r)' => HookWrites(r)
            /\ Alive' => Alive /\ (HookWrites(r) => HookWrites(r)')
  PROVE  Faithful(r)'
<1>1. /\ Rank(view[r].status) \in 0..2 /\ Rank(view'[r].status) \in 0..2
      /\ Rank(copy[r].status) \in 0..2 /\ Rank(LogStatus(log, r)) \in 0..2
  <2>1. /\ view[r].status \in Status /\ view'[r].status \in Status
        /\ copy[r].status \in Status
    BY DEF BaseInv, TypeOK, Record
  <2>2. QED BY <2>1, RankIs, StatusRank
<1>2. Rank(view'[r].status) = Rank(view[r].status)
  <2>1. view' = Shown(log') => view'[r].status = LogStatus(log', r)
    BY ShownIs
  <2>2. QED BY <2>1 DEF Faithful
<1>3. ~Reverted(r)'  BY <1>1, <1>2 DEF Faithful
<1>4. CASE lock' = Nobody
  <2>1. ~HookWrites(r)'  BY <1>4, NextWriterHolds
  <2>2. ~Alive'  BY <1>4 DEF Alive
  <2>3. QED BY <1>2, <1>3, <2>1, <2>2 DEF Faithful
<1>5. CASE copy' = view /\ view' = view /\ ~HookWrites(r)'
  BY <1>2, <1>3, <1>5 DEF Faithful
<1>6. CASE /\ UNCHANGED <<lock, copy>>
           /\ HookWrites(r)' => HookWrites(r)
           /\ Alive' => Alive /\ (HookWrites(r) => HookWrites(r)')
  BY <1>2, <1>3, <1>6 DEF Faithful
<1>7. QED BY <1>4, <1>5, <1>6

LEMMA LeaderKeepsFaithful ==
  ASSUME BaseInv, BaseInv', ShowsInv, FaithfulInv, faults' = 0,
         NEW s \in Request, NEW r \in Request, Left(r)',
         Enqueue(s) \/ LeaderStep(s) \/ LeaderTimeout(s) \/ KillLeader(s)
  PROVE  Faithful(r)'
<1> USE DEF Goes
<1> DEFINE Early == {"idle", "queueing", "waiting", "fallback", "done"}
<1>0. TypeOK /\ OrderlyCall(s)  BY DEF BaseInv
<1>1. faults = 0 /\ why[r] \subseteq why'[r] => Faithful(r)
  BY DEF FaithfulInv, Left
<1>2. Faithful(r) => leader[r].step \in Early  BY DEF Faithful
<1>3. UNCHANGED <<hook, lock, copy>> =>
        /\ HookWrites(r)' <=> HookWrites(r)
        /\ /\ leader[s].step # "done"
           /\ \A q \in Request \ {s} : leader'[q] = leader[q]
           => (Alive' => Alive)
  BY DEF HookWrites, Retrying, Alive
<1>4. ASSUME UNCHANGED <<log, view, hook, faults>>,
             why[r] \subseteq why'[r], Reverted(r)' => Reverted(r),
             \/ UNCHANGED <<lock, copy>>
             \/ copy' = view /\ lock' = s,
             \A q \in Request \ {s} : leader'[q] = leader[q],
             leader[s].step # "done",
             (leader[s].step \in Early /\ leader'[s].step \in Early) \/ r # s
      PROVE  Faithful(r)'
  <2>1. Faithful(r)  BY <1>1, <1>4
  <2>2. leader'[r].step \in Early  BY <1>2, <1>4, <2>1
  <2>3. lock' = s => ~HookWrites(r)'  BY NextWriterHolds
  <2>4. QED BY <1>3, <1>4, <2>1, <2>2, <2>3, StillFaithful
<1>5. CASE Enqueue(s)
  BY <1>0, <1>4, <1>5, EnqueueIs, AcquireIs DEF Reverted
<1>6. CASE Queue(s)
  <2>1. PICK ok \in BOOLEAN :
          /\ Exec(<<"queued", s>>, ok)
          /\ ok => Release
          /\ ~ok => UNCHANGED <<lock, copy>>
          /\ Goes(s, IF ok THEN "waiting" ELSE "unqueued", "none", "failed",
                  "none")
    BY <1>0, <1>6, QueueIs
  <2>2. <<"queued", s>> \in DispatchEvent  BY DEF DispatchEvent
  <2>3. AcceptsDispatch(log, <<"queued", s>>)  BY DEF AcceptsDispatch
  <2>4. faults = 0 /\ log' = log \cup {<<"queued", s>>} /\ view' = Shown(log')
    BY <1>0, <2>1, <2>2, <2>3, ExecIs DEF TypeOK
  <2>5. ok
    <3>1. ~ok => \/ ~AcceptsDispatch(log, <<"queued", s>>)
                 \/ faults' = faults + 1
      BY <2>1 DEF Exec
    <3>2. QED BY <2>3, <2>4, <3>1
  <2>6. lock' = Nobody /\ leader'[s].step = "waiting"
    BY <2>1, <2>5, ReleaseIs
  <2>7. /\ Told(r)
        /\ Reverted(r)' => \/ Reverted(r)
                           \/ Rank(view'[r].status) < Rank(view[r].status)
    BY <1>0, <1>6, QueueIs, NotingLostIs DEF Reverted
  <2>8. Faithful(r)  BY <1>1, <2>4, <2>7 DEF Told
  <2>9. CASE r # s
    <3>1. LogStatus(log', r) = LogStatus(log, r)
      <4>1. LogStatus(log \cup {<<"queued", s>>}, r) = LogStatus(log, r)
        BY <2>9, LogGrows
      <4>2. QED BY <2>4, <4>1
    <3>2. leader'[r].step \in Early  BY <1>2, <2>1, <2>8, <2>9
    <3>3. QED BY <2>4, <2>6, <2>7, <2>8, <3>1, <3>2, StillFaithful
  <2>10. CASE r = s
    <3>1. view'[r].status = LogStatus(log', r)  BY <2>4, ShownIs
    <3>2. Rank(view'[r].status) >= Rank(view[r].status)
      <4>1. Rank(LogStatus(log \cup {<<"queued", s>>}, r))
              >= Rank(LogStatus(log, r))
        BY LogGrows
      <4>2. QED BY <2>4, <2>8, <3>1, <4>1 DEF Faithful
    <3>3. /\ Rank(view'[r].status) \in 0..2
          /\ Rank(view[r].status) \in 0..2
      BY <1>0, <3>1, StatusRank, RankOfView
    <3>4. ~Reverted(r)'  BY <2>7, <2>8, <3>2, <3>3 DEF Faithful
    <3>5. ~HookWrites(r)'  BY <2>6, NextWriterHolds
    <3>6. ~Alive'  BY <2>6 DEF Alive
    <3>7. QED BY <2>6, <2>10, <3>1, <3>4, <3>5, <3>6 DEF Faithful
  <2>11. QED BY <2>9, <2>10
<1>7. CASE QueueLocally(s)
  BY <1>0, <1>7, QueueLocallyIs DEF ShowsInv, Shows
<1>8. CASE Receive(s)
  <2>1. /\ UNCHANGED <<log, view, hook, faults, lock, copy, why>>
        /\ \A q \in Request \ {s} : leader'[q] = leader[q]
        /\ leader[s].step = "waiting" /\ leader'[s].step \in Early
    BY <1>0, <1>8, ReceiveIs
  <2>2. QED BY <1>4, <2>1 DEF Reverted
<1>9. CASE Fallback(s)
  <2>1. /\ UNCHANGED <<log, view, hook, faults, lock, copy>>
        /\ \A q \in Request \ {s} : leader'[q] = leader[q]
        /\ leader[s].step = "fallback"
        /\ why'[r] = why[r] \cup IF r \in {s} THEN {"fallback"} ELSE {}
    BY <1>0, <1>9, FallbackIs, FallbackNotes
  <2>2. r # s  BY <2>1 DEF Left
  <2>3. QED BY <1>4, <2>1, <2>2 DEF Reverted
<1>10. CASE MarkNotified(s)
  <2>1. /\ UNCHANGED <<log, view, hook, faults, lock, copy, why>>
        /\ \A q \in Request \ {s} : leader'[q] = leader[q]
        /\ leader[s].step = "marking"
    BY <1>0, <1>10, MarkNotifiedIs
  <2>2. r # s  BY <1>1, <1>2, <2>1
  <2>3. QED BY <1>4, <2>1, <2>2 DEF Reverted
<1>11. CASE Notify(s)
  <2>1. PICK ok \in BOOLEAN :
          /\ Exec(<<"notified", s>>, ok)
          /\ Goes(s, IF ok THEN "done" ELSE "recording", "pending", "notified",
                  "ok")
    BY <1>0, <1>11, NotifyIs
  <2>2. /\ UNCHANGED <<lock, copy, hook>> /\ leader[s].step = "notifying"
        /\ Told(r)
        /\ Reverted(r)' => \/ Reverted(r)
                           \/ Rank(view'[r].status) < Rank(view[r].status)
    BY <1>0, <1>11, NotifyIs, NotingLostIs DEF Reverted
  <2>3. <<"notified", s>> \in DispatchEvent  BY DEF DispatchEvent
  <2>4. /\ log' \in {log, log \cup {<<"notified", s>>}}
        /\ view' \in {view, Shown(log')} /\ faults = 0
    BY <1>0, <2>1, <2>3, ExecIs DEF TypeOK
  <2>5. Faithful(r)  BY <1>1, <2>2, <2>4 DEF Told
  <2>6. r # s /\ leader'[r].step \in Early  BY <1>2, <2>1, <2>2, <2>5
  <2>7. LogStatus(log', r) = LogStatus(log, r)
    <3>1. LogStatus(log \cup {<<"notified", s>>}, r) = LogStatus(log, r)
      BY <2>6, LogGrows
    <3>2. QED BY <2>4, <3>1
  <2>8. QED
    BY <1>3, <2>1, <2>2, <2>4, <2>5, <2>6, <2>7, StillFaithful
<1>12. CASE Decide(s)
  <2>1. /\ UNCHANGED <<log, view, hook, faults, lock, copy, why>>
        /\ \A q \in Request \ {s} : leader'[q] = leader[q]
        /\ leader[s].step = "deciding"
    BY <1>0, <1>12, DecideIs
  <2>2. r # s  BY <1>1, <1>2, <2>1
  <2>3. QED BY <1>4, <2>1, <2>2 DEF Reverted
<1>13. CASE RecordStatus(s)
  <2>1. /\ UNCHANGED <<log, view, hook, faults, why>>
        /\ UNCHANGED <<lock, copy>> \/ (copy' = view /\ lock' = s)
        /\ \A q \in Request \ {s} : leader'[q] = leader[q]
        /\ leader[s].step = "recording"
    BY <1>0, <1>13, RecordStatusIs, AcquireIs
  <2>2. r # s  BY <1>1, <1>2, <2>1
  <2>3. QED BY <1>4, <2>1, <2>2 DEF Reverted
<1>14. CASE WriteRecord(s)
  <2>1. /\ UNCHANGED <<log, hook, faults>> /\ lock' = Nobody /\ lock = s
        /\ \A q \in Request \ {s} : leader'[q] = leader[q] /\ view'[q] = copy[q]
        /\ leader[s].step = "writing" /\ Told(r)
        /\ Reverted(r)' => \/ Reverted(r)
                           \/ Rank(view'[r].status) < Rank(view[r].status)
    BY <1>0, <1>14, WriteRecordIs, ReleaseIs, NotingLostIs
       DEF OrderlyCall, Reverted
  <2>2. Faithful(r)  BY <1>1, <2>1 DEF Told
  <2>3. r # s /\ leader'[r].step \in Early  BY <1>2, <2>1, <2>2
  <2>4. Alive /\ ~HookWrites(r)  BY <2>1, WriterHolds DEF Alive
  <2>5. QED BY <2>1, <2>2, <2>3, <2>4, StillFaithful
<1>15. CASE LeaderTimeout(s)
  <2>1. /\ UNCHANGED <<log, view, hook, faults, lock, copy>>
        /\ \A q \in Request \ {s} : leader'[q] = leader[q]
        /\ leader[s].step \in {"idle", "recording"}
        /\ leader'[s].step = "done"
    BY <1>0, <1>15, LeaderTimeoutIs
  <2>2. why[r] \subseteq why'[r] /\ (Reverted(r)' => Reverted(r))
    BY <1>0, <1>15, LeaderTimeoutIs, LeaderTimeoutNotes DEF Reverted
  <2>3. r = s => leader[s].step = "idle"  BY <1>1, <1>2, <2>1, <2>2
  <2>4. QED BY <1>4, <2>1, <2>2, <2>3
<1>16. CASE KillLeader(s)
  <2>1. /\ UNCHANGED <<log, view, hook, faults, lock, copy, why>>
        /\ \A q \in Request \ {s} : leader'[q] = leader[q]
        /\ leader[s].step # "done" /\ leader'[s].step = "done"
    BY <1>0, <1>16, KillLeaderIs
  <2>2. r = s => leader[s].step \in Early  BY <1>1, <1>2, <2>1
  <2>3. QED BY <1>4, <2>1, <2>2 DEF Reverted
<1>17. QED
  BY <1>5, <1>6, <1>7, <1>8, <1>9, <1>10, <1>11, <1>12, <1>13, <1>14, <1>15,
     <1>16 DEF LeaderStep

LEMMA DrainsKeepFaithful ==
  ASSUME BaseInv, BaseInv', FaithfulInv, faults' = 0, NEW h \in Hook,
         NEW r \in Request, Left(r)',
         HookStep(h) \/ LockTimeout(h) \/ KillHook(h)
  PROVE  Faithful(r)'
<1> USE DEF Turns, Stops
<1>0. TypeOK /\ OrderlyDrain(h)  BY DEF BaseInv
<1>1. faults = 0 /\ why[r] \subseteq why'[r] => Faithful(r)
  BY DEF FaithfulInv, Left
<1>2. Faithful(r) => leader[r].step \in {"idle", "queueing", "waiting",
                                         "fallback", "done"}
  BY DEF Faithful
<1>3. lock = h /\ hook[h].step # "idle" => Alive  BY DEF Alive
<1>4. lock = h /\ hook[h].step # "writing" => ~HookWrites(r)
  BY WriterHolds
<1>5. lock' = h /\ hook'[h].step # "writing" => ~HookWrites(r)'
  BY NextWriterHolds
\* The drain leaves the lock and dispatch.json alone.
<1>6. ASSUME UNCHANGED <<lock, copy, leader>>,
             \A g \in Hook \ {h} : hook'[g] = hook[g],
             hook[h].step \notin {"idle", "writing"},
             hook'[h].step # "writing"
      PROVE  /\ HookWrites(r)' <=> HookWrites(r)
             /\ Alive' => Alive
  BY <1>6 DEF HookWrites, Retrying, Alive
<1>7. ASSUME UNCHANGED <<log, view, lock, copy, leader, faults>>,
             why[r] \subseteq why'[r], Reverted(r)' => Reverted(r),
             \A g \in Hook \ {h} : hook'[g] = hook[g],
             hook[h].step \notin {"idle", "writing"},
             hook'[h].step # "writing"
      PROVE  Faithful(r)'
  <2>1. Faithful(r)  BY <1>1, <1>7
  <2>2. QED BY <1>2, <1>6, <1>7, <2>1, StillFaithful
<1>8. ASSUME UNCHANGED <<log, leader, faults>>, lock' = Nobody,
             Told(r),
             Reverted(r)' => \/ Reverted(r)
                             \/ Rank(view'[r].status) < Rank(view[r].status),
             \/ view'[r] = view[r]
             \/ lock = h /\ hook[h].step = "reading" /\ view'[r] = copy[r]
      PROVE  Faithful(r)'
  <2>1. Faithful(r)  BY <1>1, <1>8 DEF Told
  <2>2. QED BY <1>2, <1>3, <1>4, <1>8, <2>1, StillFaithful
<1>9. CASE BeginDrain(h)
  <2>1. /\ UNCHANGED <<log, view, leader, why, faults>> /\ copy' = view
        /\ lock' = h /\ hook'[h].step = "reading"
    BY <1>0, <1>9, BeginDrainIs, AcquireIs
  <2>2. Faithful(r)  BY <1>1, <2>1
  <2>3. QED BY <1>2, <1>5, <2>1, <2>2, StillFaithful DEF Reverted
<1>10. CASE SkipAll(h)
  <2>1. UNCHANGED <<log, view, leader, why, faults>> /\ lock' = Nobody
    BY <1>0, <1>10, SkipAllIs, ReleaseIs
  <2>2. QED BY <1>0, <1>8, <2>1, ToldNothing DEF Reverted
<1>11. CASE Claim(h)
  <2>1. /\ UNCHANGED <<log, leader, faults>> /\ lock' = Nobody /\ view' = copy
        /\ hook[h].step = "reading" /\ Told(r)
        /\ Reverted(r)' => \/ Reverted(r)
                           \/ Rank(view'[r].status) < Rank(view[r].status)
    BY <1>0, <1>11, ClaimIs, ReleaseIs, NotingLostIs DEF Reverted
  <2>2. lock = h  BY <1>0, <2>1 DEF OrderlyDrain
  <2>3. QED BY <1>8, <2>1, <2>2
<1>12. CASE Inject(h)
  <2>1. /\ UNCHANGED <<log, view, lock, copy, leader, why, faults>>
        /\ \A g \in Hook \ {h} : hook'[g] = hook[g]
        /\ hook[h].step = "claimed" /\ hook'[h].step = "typing"
    BY <1>0, <1>12, InjectIs
  <2>2. QED BY <1>7, <2>1 DEF Reverted
<1>13. CASE Verify(h)
  <2>1. /\ UNCHANGED <<lock, copy, leader>> /\ Told(r)
        /\ \A g \in Hook \ {h} : hook'[g] = hook[g]
        /\ hook[h].step = "typing" /\ hook'[h].step = "typed"
        /\ Reverted(r)' => \/ Reverted(r)
                           \/ Rank(view'[r].status) < Rank(view[r].status)
    BY <1>0, <1>13, VerifyIs, NotingLostIs DEF Reverted
  <2>2. hook[h].req \in Request  BY <1>0, <2>1, DrainOf DEF OrderlyDrain
  <2>3. <<"delivered", hook[h].req>> \in DispatchEvent
    BY <2>2 DEF DispatchEvent
  <2>4. /\ faults = 0 /\ view' \in {view, Shown(log')}
        /\ \/ log' = log
           \/ /\ log' = log \cup {<<"delivered", hook[h].req>>}
              /\ AcceptsDispatch(log, <<"delivered", hook[h].req>>)
    BY <1>0, <1>13, <2>3, VerifyIs, ExecIs DEF TypeOK
  <2>5. Rank(LogStatus(log', r)) = Rank(LogStatus(log, r))
    <3> DEFINE e == <<"delivered", hook[h].req>>
    <3>1. e[2] = hook[h].req /\ (hook[h].req = r => e = <<"delivered", r>>)
      OBVIOUS
    <3>2. log' = log \/ (log' = log \cup {e} /\ AcceptsDispatch(log, e))
      BY <2>4
    <3> HIDE DEF e
    <3>3. AcceptsDispatch(log, e) =>
            Rank(LogStatus(log \cup {e}, r)) = Rank(LogStatus(log, r))
      <4>1. CASE hook[h].req = r  BY <3>1, <4>1, LogGrows
      <4>2. CASE hook[h].req # r
        <5>1. LogStatus(log \cup {e}, r) = LogStatus(log, r)
          BY <3>1, <4>2, LogGrows
        <5>2. QED BY <5>1
      <4>3. QED BY <4>1, <4>2
    <3>4. QED BY <3>2, <3>3
  <2>6. Faithful(r)  BY <1>1, <2>1, <2>4 DEF Told
  <2>7. QED BY <1>2, <1>6, <2>1, <2>4, <2>5, <2>6, StillFaithful
<1>14. CASE Reread(h)
  <2>1. /\ UNCHANGED <<log, view, leader, why, faults>>
        /\ hook[h].step = "typed"
    BY <1>0, <1>14, RereadIs
  <2>2. hook[h].req \in Request  BY <1>0, <2>1, DrainOf DEF OrderlyDrain
  <2>3. CASE Acquire(h) /\ hook'[h].step = "finalizing"
    <3>1. Faithful(r)  BY <1>1, <2>1
    <3>2. lock' = h /\ copy' = view  BY <1>0, <2>3, AcquireIs
    <3>3. QED BY <1>2, <1>5, <2>1, <2>3, <3>1, <3>2, StillFaithful DEF Reverted
  <2>4. CASE Finished(h) /\ UNCHANGED <<lock, copy>>
    <3>1. /\ \A g \in Hook \ {h} : hook'[g] = hook[g]
          /\ hook'[h].step # "writing"
      BY <1>0, <2>2, <2>4, FinishedIs
    <3>2. QED BY <1>7, <2>1, <2>4, <3>1 DEF Reverted
  <2>5. QED BY <1>0, <1>14, <2>3, <2>4, RereadIs
<1>15. CASE LockTimeout(h)
  <2>1. /\ UNCHANGED <<log, view, lock, copy, leader, faults>>
        /\ \A g \in Hook \ {h} : hook'[g] = hook[g]
        /\ hook[h].step = "typed" /\ hook'[h].step = "idle"
    BY <1>0, <1>15, LockTimeoutIs
  <2>2. why[r] \subseteq why'[r] /\ (Reverted(r)' => Reverted(r))
    BY <1>0, <1>15, LockTimeoutIs, LockTimeoutNotes DEF Reverted
  <2>3. QED BY <1>7, <2>1, <2>2
<1>16. CASE Finalize(h)
  <2>1. /\ UNCHANGED <<lock, copy, leader>> /\ Told(r)
        /\ hook[h].step = "finalizing"
        /\ Turns(h, "writing", hook[h].claims, hook[h].req, hook[h].result)
        /\ Reverted(r)' => \/ Reverted(r)
                           \/ Rank(view'[r].status) < Rank(view[r].status)
    BY <1>0, <1>16, FinalizeIs, NotingLostIs DEF Reverted
  <2>2. /\ hook[h].req \in Request /\ lock = h
        /\ copy[hook[h].req].status = "pending"
    BY <1>0, <2>1, DrainOf DEF OrderlyDrain
  <2> DEFINE e == <<Verdict(h), hook[h].req>>
  <2>3. e \in DispatchEvent /\ e[2] = hook[h].req
        /\ e \in {<<"notified", hook[h].req>>, <<"failed", hook[h].req>>}
    BY <2>2 DEF DispatchEvent, Verdict
  <2>4. /\ faults = 0
        /\ \/ Retrying(h) /\ UNCHANGED <<log, view>>
           \/ /\ ~Retrying(h)
              /\ IF AcceptsDispatch(log, e)
                 THEN log' = log \cup {e} /\ view' = Shown(log')
                 ELSE UNCHANGED <<log, view>>
    <3>1. CASE Retrying(h) /\ UNCHANGED <<log, view, faults>>
      BY <3>1
    <3>2. ASSUME NEW ok \in BOOLEAN, Exec(e, ok)
          PROVE  /\ faults = 0
                 /\ IF AcceptsDispatch(log, e)
                    THEN log' = log \cup {e} /\ view' = Shown(log')
                    ELSE UNCHANGED <<log, view>>
      <4> HIDE DEF e
      <4>1. faults <= faults' /\ faults \in Nat
        BY <1>0, <2>3, <3>2, ExecIs DEF TypeOK
      <4>2. QED BY <1>0, <2>3, <3>2, <4>1, ExecIs
    <3>3. QED BY <1>0, <1>16, <3>1, <3>2, FinalizeIs
  <2> HIDE DEF e
  <2>5. Faithful(r)  BY <1>1, <2>1, <2>4 DEF Told
  <2>6. Alive /\ ~HookWrites(r) /\ Alive'
    <3>1. Alive'  BY <2>1, <2>2 DEF Alive
    <3>2. QED BY <1>3, <1>4, <2>1, <2>2, <3>1
  <2>7. HookWrites(r)' <=> hook[h].req = r /\ ~Retrying(h)
    <3>1. \A g \in Hook \ {h} : hook'[g].step # "writing"
      BY <2>1, <2>2 DEF BaseInv, OrderlyDrain
    <3>2. Retrying(h)' <=> Retrying(h)  BY <2>1 DEF Retrying
    <3>3. QED BY <2>1, <3>1, <3>2 DEF HookWrites
  <2>8. CASE hook[h].req # r \/ Retrying(h)
    <3>1. LogStatus(log', r) = LogStatus(log, r)
      <4>1. hook[h].req # r =>
              LogStatus(log \cup {e}, r) = LogStatus(log, r)
        BY <2>3, LogGrows
      <4>2. QED BY <2>4, <2>8, <4>1
    <3>2. leader'[r].step \in {"idle", "queueing", "waiting", "fallback",
                               "done"}
      BY <1>2, <2>1, <2>5
    <3>3. view'[r] = view[r] \/ view' = Shown(log')  BY <2>4
    <3>4. ~HookWrites(r)'  BY <2>7, <2>8
    <3>5. QED BY <2>1, <2>5, <2>6, <3>1, <3>2, <3>3, <3>4, StillFaithful
  <2>9. CASE hook[h].req = r /\ ~Retrying(h)
    <3>1. Rank(LogStatus(log, r)) = 1
      BY <2>2, <2>5, <2>6, <2>9, RankIs DEF Faithful
    <3>2. AcceptsDispatch(log, e) /\ Rank(LogStatus(log \cup {e}, r)) = 2
      <4>1. e \in {<<"notified", r>>, <<"failed", r>>}  BY <2>3, <2>9
      <4>2. QED BY <3>1, <4>1, LogGrows
    <3>3. log' = log \cup {e} /\ view' = Shown(log')
      BY <2>4, <2>9, <3>2
    <3>4. view'[r].status = LogStatus(log', r)  BY <3>3, ShownIs
    <3>5. Rank(view'[r].status) = 2 /\ Rank(view[r].status) = 1
      BY <2>5, <3>1, <3>2, <3>3, <3>4 DEF Faithful
    <3>6. ~Reverted(r)'  BY <2>1, <2>5, <3>5 DEF Faithful
    <3>7. leader'[r] = leader[r]  BY <2>1
    <3>8. QED
      BY <1>2, <2>5, <2>7, <2>9, <3>2, <3>3, <3>4, <3>6, <3>7 DEF Faithful
  <2>10. QED BY <2>8, <2>9
<1>17. CASE WriteFinal(h)
  <2>1. hook[h].step = "writing"  BY <1>17 DEF WriteFinal, HookAt
  <2>2. /\ hook[h].req \in Request /\ lock = h
        /\ copy[hook[h].req].status = "pending"
    BY <1>0, <2>1, DrainOf DEF OrderlyDrain
  <2>3. /\ UNCHANGED <<log, leader, faults>> /\ lock' = Nobody
        /\ view'[hook[h].req].status = IF Retrying(h) THEN "pending"
                                       ELSE Verdict(h)
        /\ \A s \in Request \ {hook[h].req} : view'[s] = copy[s]
        /\ Noting(IF Retrying(h) THEN {hook[h].req} ELSE {}, "retried")
    BY <1>0, <1>17, <2>2, WriteFinalIs, ReleaseIs
  <2>4. /\ Told(r)
        /\ Reverted(r)' => \/ Reverted(r)
                           \/ Rank(view'[r].status) < Rank(view[r].status)
    BY <1>0, <2>3, NotingIs DEF Cause, Reverted
  <2>5. Faithful(r) /\ Alive
    BY <1>1, <1>3, <2>1, <2>2, <2>3, <2>4 DEF Told
  <2>6. Rank(view'[r].status) = Rank(view[r].status)
    <3>1. CASE r # hook[h].req
      <4>1. ~HookWrites(r)  BY <2>2, <3>1, WriterHolds
      <4>2. QED BY <2>3, <2>5, <3>1, <4>1 DEF Faithful
    <3>2. CASE r = hook[h].req /\ Retrying(h)
      <4>1. ~HookWrites(r)  BY <2>2, <3>2, WriterHolds
      <4>2. QED BY <2>2, <2>3, <2>5, <3>2, <4>1 DEF Faithful
    <3>3. CASE r = hook[h].req /\ ~Retrying(h)
      <4>1. HookWrites(r)  BY <2>1, <3>3 DEF HookWrites
      <4>2. Rank(view'[r].status) = 2
        BY <2>3, <3>3, RankIs DEF Verdict
      <4>3. QED BY <2>5, <4>1, <4>2 DEF Faithful
    <3>4. QED BY <3>1, <3>2, <3>3
  <2>7. ~Reverted(r)'
    BY <1>0, <2>4, <2>5, <2>6, RankOfView DEF Faithful
  <2>8. ~Alive' /\ ~HookWrites(r)'
    BY <2>3, NextWriterHolds DEF Alive
  <2>9. QED BY <1>2, <2>3, <2>5, <2>6, <2>7, <2>8 DEF Faithful
<1>18. CASE KillHook(h)
  <2>1. /\ UNCHANGED <<log, view, lock, copy, leader, faults>>
        /\ \A g \in Hook \ {h} : hook'[g] = hook[g]
        /\ hook[h].step # "idle" /\ hook'[h].step = "idle"
    BY <1>0, <1>18, KillHookIs
  <2>2. why[r] \subseteq why'[r] /\ (Reverted(r)' => Reverted(r))
    BY <1>0, <1>18, KillHookIs, KillHookNotes DEF Reverted
  <2>3. CASE lock # h
    <3>1. hook[h].step # "writing"  BY <1>0, <2>3 DEF OrderlyDrain
    <3>2. QED BY <1>7, <2>1, <2>2, <3>1
  <2>4. CASE lock = h
    <3>1. ~Alive'  BY <2>1, <2>4 DEF Alive
    <3>2. ~HookWrites(r)'  BY <1>5, <2>1, <2>4
    <3>3. Faithful(r)  BY <1>1, <2>1, <2>2
    <3>4. QED BY <1>2, <2>1, <2>2, <3>1, <3>2, <3>3, StillFaithful
  <2>5. QED BY <2>3, <2>4
<1>19. QED
  BY <1>9, <1>10, <1>11, <1>12, <1>13, <1>14, <1>15, <1>16, <1>17, <1>18
     DEF HookStep

LEMMA NextKeepsFaithful ==
  BaseInv /\ BaseInv' /\ ShowsInv /\ FaithfulInv /\ [Next]_vars => FaithfulInv'
<1> SUFFICES ASSUME BaseInv, BaseInv', ShowsInv, FaithfulInv, [Next]_vars,
                    faults' = 0, NEW r \in Request, Left(r)'
             PROVE  Faithful(r)'
  BY DEF FaithfulInv
<1>0. TypeOK  BY DEF BaseInv
<1>1. faults = 0 /\ why[r] \subseteq why'[r] => Faithful(r)
  BY DEF FaithfulInv, Left
<1>2. ASSUME UNCHANGED <<log, leader, hook, faults>>,
             why[r] \subseteq why'[r],
             Reverted(r)' => \/ Reverted(r)
                             \/ Rank(view'[r].status) < Rank(view[r].status),
             view' = view \/ view' = Shown(log'),
             lock' = Nobody \/ UNCHANGED <<lock, copy>>
      PROVE  Faithful(r)'
  <2>1. Faithful(r)  BY <1>1, <1>2
  <2>2. leader'[r].step \in {"idle", "queueing", "waiting", "fallback", "done"}
    BY <1>2, <2>1 DEF Faithful
  <2>3. UNCHANGED <<lock, copy>> =>
          (HookWrites(r)' <=> HookWrites(r)) /\ (Alive' => Alive)
    BY <1>2 DEF HookWrites, Retrying, Alive
  <2>4. QED BY <1>2, <2>1, <2>2, <2>3, StillFaithful
<1>3. CASE UNCHANGED vars
  <2>1. UNCHANGED <<log, view, lock, copy, leader, hook, why, faults>>
    BY <1>3 DEF vars
  <2>2. QED BY <1>2, <2>1 DEF Reverted
<1>4. ASSUME NEW s \in Request, ExpireLease(s)  PROVE Faithful(r)'
  <2>1. UNCHANGED <<log, view, lock, copy, leader, hook, faults>>
    BY <1>0, <1>4, ExpireLeaseIs
  <2>2. why[r] \subseteq why'[r] /\ (Reverted(r)' => Reverted(r))
    BY <1>0, <1>4, ExpireLeaseIs, ExpireLeaseNotes DEF Reverted
  <2>3. QED BY <1>2, <2>1, <2>2
<1>5. CASE Rewrite
  <2>1. /\ UNCHANGED <<log, lock, copy, leader, hook, faults>>
        /\ view' = Shown(log') /\ Told(r)
        /\ Reverted(r)' => \/ Reverted(r)
                           \/ Rank(view'[r].status) < Rank(view[r].status)
    BY <1>0, <1>5, RewriteIs, NotingLostIs DEF Reverted
  <2>2. QED BY <1>2, <2>1 DEF Told
<1>6. CASE BreakLock
  <2>1. UNCHANGED <<log, view, leader, hook, why, faults>> /\ lock' = Nobody
    BY <1>6, ReleaseIs DEF BreakLock
  <2>2. QED BY <1>2, <2>1 DEF Reverted
<1>7. ASSUME NEW t \in Team, TheirRead(t) \/ TheirWrite(t)
      PROVE  Faithful(r)'
  <2>1. UNCHANGED <<log, lock, copy, leader, hook, faults>>
    BY <1>0, <1>7, TheirReadIs, TheirWriteIs
  <2>2. view'[r] = view[r]
    <3>1. "overwritten" \notin why'[r]  BY DEF Left
    <3>2. QED BY <1>0, <1>7, <3>1, TheirReadIs, TheirWriteIs
  <2>3. Reverted(r)' => Reverted(r)
    <3>1. ASSUME TheirWrite(t)  PROVE Reverted(r)' => Reverted(r)
      <4>1. "overwritten" \in Cause  BY DEF Cause
      <4>2. Noting({q \in Request : view'[q] # view[q]}, "overwritten")
        BY <3>1 DEF TheirWrite
      <4>3. "reverted" \in why'[r] => 
              \/ "reverted" \in why[r]
              \/ Rank(view'[r].status) < Rank(view[r].status)
        BY <1>0, <4>1, <4>2, NotingIs
      <4>4. Rank(view[r].status) \in 0..2  BY <1>0, RankOfView
      <4>5. QED BY <2>2, <4>3, <4>4 DEF Reverted
    <3>2. QED BY <1>0, <1>7, <3>1, TheirReadIs DEF Reverted
  <2>4. Faithful(r)  BY <1>0, <1>1, <2>1, HistoryGrows
  <2>5. (HookWrites(r)' <=> HookWrites(r)) /\ (Alive' <=> Alive)
    BY <2>1 DEF HookWrites, Retrying, Alive
  <2>6. QED BY <2>1, <2>2, <2>3, <2>4, <2>5 DEF Faithful
<1>8. QED
  BY <1>3, <1>4, <1>5, <1>6, <1>7, LeaderKeepsFaithful, DrainsKeepFaithful
     DEF Next

\* As long as engine commands succeed, dispatch.json drops no request that no
\* other team has overwritten, and forgets what became of one only if the leader
\* took to typing it itself.
THEOREM LittleLost == Spec => []LostAfterFallback
<1>1. ShowsInv /\ FaithfulInv => LostAfterFallback  BY FaithfulLosesLittle
<1>2. Spec => []ShowsInv
  BY InitShowsInv, NextKeepsShows, OrderIsKept, PTL DEF Spec
<1>3. Spec => []FaithfulInv
  BY <1>2, InitFaithfulInv, NextKeepsFaithful, OrderIsKept, PTL DEF Spec
<1>4. QED BY <1>1, <1>2, <1>3, PTL
=============================================================================
