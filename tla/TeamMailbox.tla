---------------------------- MODULE TeamMailbox ----------------------------
(***************************************************************************)
(* The messages of one worker: how they are kept and how the worker is     *)
(* told (src/team/state/mailbox.ts, state.ts, mcp-comm.ts, runtime.ts,     *)
(* api-interop.ts, scripts/notify-hook/team-dispatch.ts).                  *)
(*                                                                         *)
(* A message is in the log of the Rust engine, shown in mailbox.json, and  *)
(* in the file mailbox/<worker>.json, the legacy mailbox; readers go by    *)
(* the first once it exists.  Whoever handles a message that the worker    *)
(* has not been told of, its sender or the monitor, queues a dispatch      *)
(* request, waits for the notify hook to type it, and types it itself      *)
(* when the hook has not.  TeamDispatch has the requests in detail; here   *)
(* a request is settled in one step.                                       *)
(***************************************************************************)
EXTENDS Naturals, FiniteSets

CONSTANTS
  Sender,       \* processes that send to the worker
  Monitor,      \* the process that runs monitorTeam
  Nobody,
  Body,         \* what messages say
  MaxMessages,  \* bound: messages created
  MaxSends,     \* bound: messages sent, deduplicated ones included
  MaxFaults     \* bound: engine calls that fail or time out, processes
                \* killed

ASSUME ConstantAssumption ==
  /\ Monitor \notin Sender /\ Nobody \notin Sender \cup {Monitor} \cup Body
  /\ {MaxMessages, MaxSends, MaxFaults} \subseteq Nat

VARIABLES
  body,      \* message -> what it says
  log,       \* the engine's mailbox
  compat,    \* mailbox.json exists
  legacy,    \* the worker's own file
  lock,      \* who holds the mailbox lock
  request,   \* messages with a pending dispatch request
  call,      \* handler -> what it does
  hook,      \* the drain of the notify hook: the message in hand
  worker,    \* the worker's acknowledgement under way
  snapshot,  \* mailboxNotifiedByMessageId of the last monitor snapshot
  seen,      \* messages that the worker has listed
  typed,     \* history: messages that were typed
  again,     \* history: typed once more, and not among the excused:
  excused,   \* history: two had the message in hand at once, or the first who
             \* typed it did not get to record it
  sends, faults

vars == <<body, log, compat, legacy, lock, request, call, hook, worker,
          snapshot, seen, typed, again, excused, sends, faults>>

engine == <<log, compat>>

history == <<typed, again, excused>>

bounds == <<sends, faults>>

-----------------------------------------------------------------------------
Id == 1..MaxMessages

Handler == Sender \cup {Monitor}

Mailbox == [known : SUBSET Id, notified : SUBSET Id, delivered : SUBSET Id]

Empty == [known |-> {}, notified |-> {}, delivered |-> {}]

\* What a handler knows of a request: "delivered" counts as notified, "failed" as
\* none.
Receipt == {"none", "pending", "notified"}

Step == {"idle", "create", "shadow", "queue", "wait", "type", "mark", "write",
         "settle", "next"}

\* receipt: the status of the request it waits for; told: it has typed the
\* message; todo, next: of the monitor's round
Call == [step : Step, id : Id \cup {0}, receipt : Receipt, told : BOOLEAN,
         todo : SUBSET Id, next : SUBSET Id]

NoCall == [step |-> "idle", id |-> 0, receipt |-> "none", told |-> FALSE,
           todo |-> {}, next |-> {}]

NoHook == [id |-> 0, did |-> FALSE]

NoAck == [step |-> "idle", id |-> 0]

TypeOK ==
  /\ body \in [Id -> Body \cup {Nobody}]
  /\ {log, legacy} \subseteq Mailbox
  /\ log.notified \cup log.delivered \subseteq log.known
  /\ compat \in BOOLEAN
  /\ lock \in Handler \cup {Nobody}
  /\ request \subseteq Id
  /\ call \in [Handler -> Call]
  /\ hook \in [id : Id \cup {0}, did : BOOLEAN]
  /\ worker \in [step : {"idle", "write", "settle"}, id : Id \cup {0}]
  /\ snapshot \subseteq Id /\ seen \subseteq Id
  /\ typed \subseteq Id /\ again \subseteq Id /\ excused \subseteq Id
  /\ sends \in 0..MaxSends /\ faults \in 0..MaxFaults

Init ==
  /\ body = [i \in Id |-> Nobody]
  /\ log = Empty /\ legacy = Empty
  /\ compat \in BOOLEAN
  /\ lock = Nobody
  /\ request = {}
  /\ call = [h \in Handler |-> NoCall]
  /\ hook = NoHook
  /\ worker = NoAck
  /\ snapshot = {} /\ seen = {}
  /\ typed = {} /\ again = {} /\ excused = {}
  /\ sends = 0 /\ faults = 0

-----------------------------------------------------------------------------
\* readMailbox
View == IF compat THEN log ELSE legacy

Pending(m) == m.known \ m.delivered

At(h, step) == call[h].step = step

Goto(h, step) == call' = [call EXCEPT ![h].step = step]

Fault == faults < MaxFaults /\ faults' = faults + 1

\* One call of the engine.  It reports success, or not: because it refuses the
\* command, fails, or is too late though it has carried the command out.
Exec(legal, new, ok) ==
  \/ /\ legal /\ ok
     /\ log' = new /\ compat' = TRUE
     /\ UNCHANGED faults
  \/ /\ legal /\ ~ok
     /\ Fault
     /\ (log' = new /\ compat' = TRUE) \/ UNCHANGED engine
  \/ ~legal /\ ~ok /\ UNCHANGED <<engine, faults>>

Notified(m, i) == [m EXCEPT !.notified = @ \cup {i}]

Delivered(m, i) == [m EXCEPT !.delivered = @ \cup {i}]

\* Mutant: the engine marks what it was never told of.
MarkableAlways(i) == i \notin log.delivered

\* The engine marks what it has, until that is delivered.
Markable(i) == i \in Pending(log)

\* Those who wait for the request of message i get its status.
Settled(calls, i, status) ==
  [h \in Handler |->
     IF calls[h].id = i /\ calls[h].receipt = "pending"
     THEN [calls[h] EXCEPT !.receipt = status] ELSE calls[h]]

Type(i, excuse) ==
  /\ typed' = typed \cup {i}
  /\ excused' = excused \cup excuse
  /\ again' = again \cup (({i} \cap typed) \ excused')

InHand(h) == {call[h].id} \cup call[h].todo

\* Messages that h takes in hand although another has them there.
Shared(h, ids) ==
  ids \cap ({hook.id} \cup UNION {InHand(g) : g \in Handler \ {h}})

\* The end of what a handler does for one message.
Finish(h, ok) ==
  IF h = Monitor
  THEN [NoCall EXCEPT !.step = "next", !.todo = call[h].todo,
                      !.next = call[h].next \cup
                               IF ok THEN {call[h].id} ELSE {}]
  ELSE NoCall

-----------------------------------------------------------------------------
(* sendDirectMessage                                                       *)

Undelivered == Pending(View) \cup (Pending(legacy) \ View.known)

\* Mutant: the legacy mailbox is not looked at.
DuplicatesInView(b) == {i \in Pending(View) : body[i] = b}

\* The same message, not yet delivered, in either place.
Duplicates(b) == {i \in Undelivered : body[i] = b}

\* An old message is found, and need not be told again when it is marked; that
\* the monitor has told it in spite of a failed mark is not seen here.
Resend(p, b) ==
  /\ At(p, "idle")
  /\ sends < MaxSends /\ sends' = sends + 1
  /\ lock = Nobody
  /\ \E i \in Duplicates(b) :
       IF i \in View.notified \/ (i \notin View.known /\ i \in legacy.notified)
       THEN UNCHANGED <<call, excused>>
       ELSE /\ call' = [call EXCEPT ![p].step = "queue", ![p].id = i]
            /\ excused' = excused \cup Shared(p, {i}) \cup ({i} \ View.notified)
  /\ UNCHANGED <<body, engine, legacy, lock, request, hook, worker, snapshot,
                 seen, typed, again, faults>>

Send(p, b) ==
  /\ At(p, "idle")
  /\ sends < MaxSends /\ sends' = sends + 1
  /\ lock = Nobody /\ lock' = p
  /\ Duplicates(b) = {}
  /\ \E i \in Id :
       /\ body[i] = Nobody /\ \A j \in Id : j < i => body[j] # Nobody
       /\ body' = [body EXCEPT ![i] = b]
       /\ call' = [call EXCEPT ![p].step = "create", ![p].id = i]
  /\ UNCHANGED <<engine, legacy, request, hook, worker, snapshot, seen,
                 history, faults>>

Create(p) ==
  /\ At(p, "create")
  /\ \E ok \in BOOLEAN :
       Exec(TRUE, [log EXCEPT !.known = @ \cup {call[p].id}], ok)
  /\ Goto(p, "shadow")
  /\ UNCHANGED <<body, legacy, lock, request, hook, worker, snapshot, seen,
                 history, sends>>

Release(p) == lock' = IF lock = p THEN Nobody ELSE lock

\* The message is added to the legacy mailbox, whatever the engine said.
Shadow(p) ==
  /\ At(p, "shadow")
  /\ legacy' = [legacy EXCEPT !.known = @ \cup {call[p].id}]
  /\ Goto(p, "queue")
  /\ Release(p)
  /\ UNCHANGED <<body, engine, request, hook, worker, snapshot, seen, history,
                 bounds>>

-----------------------------------------------------------------------------
(* enqueueDispatchRequest, waitForDispatchReceipt,                         *)
(* finalizeHookPreferredMailboxDispatch                                    *)

\* A pending request for the message is shared.  The engine's command for a new
\* one makes mailbox.json, if there was none.
Queue(h) ==
  /\ At(h, "queue")
  /\ LET i == call[h].id IN
     \/ /\ i \in request
        /\ UNCHANGED <<request, engine, faults>>
     \/ /\ i \notin request
        /\ request' = request \cup {i}
        /\ \E ok \in BOOLEAN : Exec(TRUE, log, ok)
  /\ call' = [call EXCEPT ![h].step = "wait", ![h].receipt = "pending"]
  /\ UNCHANGED <<body, legacy, lock, hook, worker, snapshot, seen, history,
                 sends>>

\* The answer, or none in time.
Receive(h) ==
  /\ At(h, "wait")
  /\ LET got == call[h].receipt IN
     Goto(h, IF got = "notified" THEN "mark" ELSE "type")
  /\ UNCHANGED <<body, engine, legacy, lock, request, hook, worker, snapshot,
                 seen, history, bounds>>

\* The hook has typed the message, or is about to say so.
Late(h) ==
  \/ hook.id = call[h].id /\ hook.did
  \/ call[h].receipt = "notified"

Fallback(h) ==
  /\ At(h, "type")
  /\ Type(call[h].id, IF Late(h) THEN {call[h].id} ELSE {})
  /\ call' = [call EXCEPT ![h].step = "mark", ![h].told = TRUE]
  /\ UNCHANGED <<body, engine, legacy, lock, request, hook, worker, snapshot,
                 seen, bounds>>

\* The pane does not take it: a request that is still pending fails.
FallbackFails(h) ==
  /\ At(h, "type")
  /\ LET i == call[h].id
         after == [call EXCEPT ![h] = Finish(h, FALSE)] IN
     IF call[h].receipt = "pending"
     THEN /\ request' = request \ {i}
          /\ call' = Settled(after, i, "none")
     ELSE call' = after /\ UNCHANGED request
  /\ UNCHANGED <<body, engine, legacy, lock, hook, worker, snapshot, seen,
                 history, bounds>>

\* markMessageNotified: the engine first, then a copy of what readers see.
Mark(h) ==
  /\ At(h, "mark")
  /\ LET i == call[h].id IN
     \E ok \in BOOLEAN : Exec(Markable(i), Notified(log, i), ok)
  /\ Goto(h, "write")
  /\ UNCHANGED <<body, legacy, lock, request, hook, worker, snapshot, seen,
                 history, sends>>

WriteMark(h) ==
  /\ At(h, "write")
  /\ lock = Nobody
  /\ LET i == call[h].id IN
     legacy' = IF i \in View.known THEN Notified(View, i) ELSE legacy
  /\ Goto(h, "settle")
  /\ UNCHANGED <<body, engine, lock, request, hook, worker, snapshot, seen,
                 history, bounds>>

\* markDispatchRequestNotified, unless the request is settled.
Settle(h) ==
  /\ At(h, "settle")
  /\ LET i == call[h].id
         after == [call EXCEPT ![h] = Finish(h, TRUE)] IN
     /\ IF call[h].receipt = "pending"
        THEN /\ request' = request \ {i}
             /\ call' = Settled(after, i, "notified")
        ELSE call' = after /\ UNCHANGED request
     /\ excused' = excused \cup IF h = Monitor \/ i \in View.notified
                              THEN {} ELSE {i}
  /\ UNCHANGED <<body, engine, legacy, lock, hook, worker, snapshot, seen,
                 typed, again, bounds>>

-----------------------------------------------------------------------------
(* deliverPendingMailboxMessages                                           *)

\* Mutant: the monitor forgets what it has told.
ToldByMark == View.notified

\* Notified by their mark, or in the last snapshot.
Told == View.notified \cup snapshot

Poll ==
  /\ At(Monitor, "idle")
  /\ LET todo == Pending(View) \ Told IN
     /\ call' = [call EXCEPT ![Monitor].step = "next",
                             ![Monitor].todo = todo,
                             ![Monitor].next = Pending(View) \cap Told]
     /\ excused' = excused \cup Shared(Monitor, todo)
  /\ UNCHANGED <<body, engine, legacy, lock, request, hook, worker, snapshot,
                 seen, typed, again, bounds>>

\* The list was read before the first of them was handled.
Take(i) ==
  /\ At(Monitor, "next")
  /\ i \in call[Monitor].todo /\ \A j \in call[Monitor].todo : i <= j
  /\ call' = [call EXCEPT ![Monitor].step = "queue", ![Monitor].id = i,
                          ![Monitor].todo = @ \ {i}]
  /\ UNCHANGED <<body, engine, legacy, lock, request, hook, worker, snapshot,
                 seen, history, bounds>>

SaveSnapshot ==
  /\ At(Monitor, "next")
  /\ call[Monitor].todo = {}
  /\ snapshot' = call[Monitor].next
  /\ call' = [call EXCEPT ![Monitor] = NoCall]
  /\ UNCHANGED <<body, engine, legacy, lock, request, hook, worker, seen,
                 history, bounds>>

-----------------------------------------------------------------------------
(* The notify hook.                                                        *)

\* A process that waits for the request leaves the message to the hook; one
\* that will queue another, or is past its wait, does not.
Waits(h, i) == At(h, "wait") /\ call[h].id = i

HookType(i, did) ==
  /\ hook = NoHook
  /\ i \in request
  /\ hook' = [id |-> i, did |-> did]
  /\ IF did
     THEN Type(i, {j \in {i} : \E h \in Handler :
                                 j \in InHand(h) /\ ~Waits(h, j)})
     ELSE UNCHANGED history
  /\ UNCHANGED <<body, engine, legacy, lock, request, call, worker, snapshot,
                 seen, bounds>>

\* Mutant: a request is marked notified although it could not be typed.
ConfirmedAlways == TRUE

Confirmed == hook.did

\* What it has typed, unless another has marked it.
Unrecorded == IF hook.did THEN {hook.id} \ View.notified ELSE {}

\* A request that was settled meanwhile is left alone.
HookSkip ==
  /\ hook.id # 0
  /\ hook.id \notin request
  /\ excused' = excused \cup Unrecorded
  /\ hook' = NoHook
  /\ UNCHANGED <<body, engine, legacy, lock, request, call, worker, snapshot,
                 seen, typed, again, bounds>>

\* Without mailbox.json the legacy mailbox is marked, too.
HookNotified ==
  /\ hook.id \in request
  /\ Confirmed
  /\ LET i == hook.id IN
     /\ request' = request \ {i}
     /\ call' = Settled(call, i, "notified")
     /\ \E ok \in BOOLEAN : Exec(Markable(i), Notified(log, i), ok)
     /\ IF compat \/ i \notin legacy.known THEN UNCHANGED legacy
        ELSE lock = Nobody /\ legacy' = Notified(legacy, i)
     /\ excused' = excused \cup IF i \in (View.notified)' THEN {} ELSE {i}
  /\ hook' = NoHook
  /\ UNCHANGED <<body, lock, worker, snapshot, seen, typed, again, sends>>

\* It failed, or could not be confirmed and may be tried again.
HookUnconfirmed(retry) ==
  /\ hook.id \in request
  /\ IF retry THEN UNCHANGED <<request, call>>
     ELSE /\ request' = request \ {hook.id}
          /\ call' = Settled(call, hook.id, "none")
  /\ excused' = excused \cup Unrecorded
  /\ hook' = NoHook
  /\ UNCHANGED <<body, engine, legacy, lock, worker, snapshot, seen, typed,
                 again, bounds>>

-----------------------------------------------------------------------------
(* The worker: mailbox-list and mailbox-mark-delivered.                    *)

List ==
  /\ ~(Pending(View) \subseteq seen)
  /\ seen' = seen \cup Pending(View)
  /\ UNCHANGED <<body, engine, legacy, lock, request, call, hook, worker,
                 snapshot, history, bounds>>

\* markMessageDelivered: what is not there, or is delivered, needs no mark.
Acknowledge(i) ==
  /\ worker = NoAck
  /\ i \in seen
  /\ \/ /\ i \in Pending(View)
        /\ \E ok \in BOOLEAN : Exec(Markable(i), Delivered(log, i), ok)
        /\ worker' = [step |-> "write", id |-> i]
     \/ /\ i \notin Pending(View)
        /\ worker' = [step |-> "settle", id |-> i]
        /\ UNCHANGED <<engine, faults>>
  /\ UNCHANGED <<body, legacy, lock, request, call, hook, snapshot, seen,
                 history, sends>>

AckWrite ==
  /\ worker.step = "write"
  /\ lock = Nobody
  /\ LET i == worker.id IN
     legacy' = IF i \in View.known THEN Delivered(View, i) ELSE legacy
  /\ worker' = [worker EXCEPT !.step = "settle"]
  /\ UNCHANGED <<body, engine, lock, request, call, hook, snapshot, seen,
                 history, bounds>>

\* markLatestMailboxDispatchDelivered: what the worker has read is notified.
AckSettle ==
  /\ worker.step = "settle"
  /\ LET i == worker.id IN
     IF i \in request
     THEN /\ request' = request \ {i}
          /\ call' = Settled(call, i, "notified")
     ELSE UNCHANGED <<request, call>>
  /\ worker' = NoAck
  /\ UNCHANGED <<body, engine, legacy, lock, hook, snapshot, seen, history,
                 bounds>>

-----------------------------------------------------------------------------
(* What goes wrong.                                                        *)

Kill(h) ==
  /\ ~At(h, "idle")
  /\ Fault
  /\ call' = [call EXCEPT ![h] = NoCall]
  /\ excused' = excused \cup (call[h].next \ (View.notified \cup snapshot))
                        \cup IF call[h].told THEN {call[h].id} ELSE {}
  /\ UNCHANGED <<body, engine, legacy, lock, request, hook, worker, snapshot,
                 seen, typed, again, sends>>

KillHook ==
  /\ hook.id # 0
  /\ Fault
  /\ hook' = NoHook
  /\ excused' = excused \cup Unrecorded
  /\ UNCHANGED <<body, engine, legacy, lock, request, call, worker, snapshot,
                 seen, typed, again, sends>>

\* The lock of a killed holder gets stale and is removed.
BreakLock ==
  /\ lock # Nobody
  /\ call[lock].step \notin {"create", "shadow"}
  /\ lock' = Nobody
  /\ UNCHANGED <<body, engine, legacy, request, call, hook, worker, snapshot,
                 seen, history, bounds>>

Handle(h) ==
  \/ Queue(h) \/ Receive(h) \/ Fallback(h) \/ FallbackFails(h)
  \/ Mark(h) \/ WriteMark(h) \/ Settle(h)

Next ==
  \/ \E p \in Sender :
       \/ \E b \in Body : Send(p, b) \/ Resend(p, b)
       \/ Create(p) \/ Shadow(p)
  \/ \E h \in Handler : Handle(h) \/ Kill(h)
  \/ Poll \/ (\E i \in Id : Take(i)) \/ SaveSnapshot
  \/ \E i \in Id, did \in BOOLEAN : HookType(i, did)
  \/ HookSkip \/ HookNotified \/ KillHook
  \/ \E retry \in BOOLEAN : HookUnconfirmed(retry)
  \/ List \/ (\E i \in Id : Acknowledge(i)) \/ AckWrite \/ AckSettle
  \/ BreakLock

Spec == Init /\ [][Next]_vars

-----------------------------------------------------------------------------
(* Properties.                                                             *)

\* What counts as notified, by either mark or in the monitor's snapshot, has
\* been typed into the worker's pane, or the worker has read it by itself.
NotifiedWasTold ==
  log.notified \cup legacy.notified \cup snapshot
    \subseteq seen \cup typed

\* A message is typed twice only when two had it in hand at once, or when the
\* first who typed it did not get to record it.
TypedOnce == again = {}

\* Nothing is sent twice: of the messages not yet delivered no two, by the same
\* sender, say the same, wherever they are kept.
SentOnce ==
  \A i, j \in Undelivered : body[i] = body[j] => i = j
=============================================================================
