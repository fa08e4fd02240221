-------------------------- MODULE TeamMailboxProofs --------------------------
(***************************************************************************)
(* Proofs about TeamMailbox, for any number of senders, messages and       *)
(* faults: the types of every record that is passed on, that what counts   *)
(* as notified was told, that a message is typed once, and that none is    *)
(* sent twice.                                                             *)
(*                                                                         *)
(* The first part says what each action does to the two mailboxes and to   *)
(* the calls in hand; the invariants after it use only that.               *)
(***************************************************************************)
EXTENDS TeamMailbox, TLAPS

-----------------------------------------------------------------------------
(* The two mailboxes.                                                      *)

\* A mark is on a message that is there; without mailbox.json the engine has
\* nothing.
Boxed ==
  /\ log \in Mailbox /\ legacy \in Mailbox /\ compat \in BOOLEAN
  /\ log.notified \cup log.delivered \subseteq log.known
  /\ legacy.notified \cup legacy.delivered \subseteq legacy.known
  /\ ~compat => log = Empty

\* What a step may do to the mailboxes: only what is new becomes pending, and a
\* mark is kept as long as its message is pending.
Boxes(new, marks) ==
  /\ Boxed'
  /\ Undelivered' \subseteq Undelivered \cup new
  /\ (Pending(View))' \subseteq Pending(View) \cup new
  /\ View.notified \cap (Pending(View))' \subseteq (View.notified)' \cup new
  /\ (View.notified)' \subseteq View.notified \cup marks
  /\ (log.notified \cup legacy.notified)'
       \subseteq log.notified \cup legacy.notified \cup marks
  /\ (log.known \cup legacy.known)'
       \subseteq log.known \cup legacy.known \cup new

LEMMA SameBoxes == ASSUME Boxed, UNCHANGED <<engine, legacy>>
                   PROVE  Boxes({}, {})
BY DEF Boxed, Boxes, Undelivered, Pending, View, engine

LEMMA NotifiedIs ==
  ASSUME NEW m \in Mailbox, NEW i \in Id
  PROVE  /\ Notified(m, i) \in Mailbox
         /\ Notified(m, i).known = m.known
         /\ Notified(m, i).notified = m.notified \cup {i}
         /\ Notified(m, i).delivered = m.delivered
BY DEF Notified, Mailbox

LEMMA DeliveredIs ==
  ASSUME NEW m \in Mailbox, NEW i \in Id
  PROVE  /\ Delivered(m, i) \in Mailbox
         /\ Delivered(m, i).known = m.known
         /\ Delivered(m, i).notified = m.notified
         /\ Delivered(m, i).delivered = m.delivered \cup {i}
BY DEF Delivered, Mailbox

LEMMA ExecIs ==
  ASSUME faults \in 0..MaxFaults, NEW legal \in BOOLEAN, NEW new,
         NEW ok \in BOOLEAN, Exec(legal, new, ok)
  PROVE  /\ (legal /\ log' = new /\ compat' = TRUE) \/ UNCHANGED <<log, compat>>
         /\ faults' \in 0..MaxFaults
BY ConstantAssumption DEF Exec, Fault, engine

\* The engine marks a message that it has, and only mailbox.json shows those.
LEMMA MarkableIs ==
  ASSUME Boxed, NEW i \in Id, Markable(i)
  PROVE  compat /\ i \in log.known /\ i \notin log.delivered
BY DEF Boxed, Markable, Pending, Empty

LEMMA MarkBoxes ==
  ASSUME Boxed, NEW i \in Id, UNCHANGED legacy,
         \/ Markable(i) /\ log' = Notified(log, i) /\ compat' = TRUE
         \/ UNCHANGED <<log, compat>>
  PROVE  Boxes({}, {i})
<1>1. CASE UNCHANGED <<log, compat>>
  BY <1>1 DEF Boxed, Boxes, Undelivered, Pending, View
<1>2. CASE Markable(i) /\ log' = Notified(log, i) /\ compat' = TRUE
  <2>1. /\ compat /\ i \in log.known /\ log' \in Mailbox
        /\ log'.known = log.known /\ log'.delivered = log.delivered
        /\ log'.notified = log.notified \cup {i}
    BY <1>2, MarkableIs, NotifiedIs DEF Boxed
  <2>2. QED
    BY <1>2, <2>1 DEF Boxed, Boxes, Undelivered, Pending, View
<1>3. QED BY <1>1, <1>2

LEMMA AckBoxes ==
  ASSUME Boxed, NEW i \in Id, UNCHANGED legacy,
         \/ Markable(i) /\ log' = Delivered(log, i) /\ compat' = TRUE
         \/ UNCHANGED <<log, compat>>
  PROVE  Boxes({}, {})
<1>1. CASE UNCHANGED <<log, compat>>
  BY <1>1 DEF Boxed, Boxes, Undelivered, Pending, View
<1>2. CASE Markable(i) /\ log' = Delivered(log, i) /\ compat' = TRUE
  <2>1. /\ compat /\ i \in log.known /\ log' \in Mailbox
        /\ log'.known = log.known /\ log'.notified = log.notified
        /\ log'.delivered = log.delivered \cup {i}
    BY <1>2, MarkableIs, DeliveredIs DEF Boxed
  <2>2. QED
    BY <1>2, <2>1 DEF Boxed, Boxes, Undelivered, Pending, View
<1>3. QED BY <1>1, <1>2

\* The copies that follow a mark of the engine.
LEMMA CopyMarkBoxes ==
  ASSUME Boxed, NEW i \in Id, UNCHANGED <<log, compat>>,
         legacy' = IF i \in View.known THEN Notified(View, i) ELSE legacy
  PROVE  Boxes({}, {i})
<1>1. View \in Mailbox  BY DEF Boxed, View
<1>2. CASE i \in View.known
  <2>1. /\ legacy' \in Mailbox /\ legacy'.known = View.known
        /\ legacy'.delivered = View.delivered
        /\ legacy'.notified = View.notified \cup {i}
    BY <1>1, <1>2, NotifiedIs
  <2>2. QED BY <1>2, <2>1 DEF Boxed, Boxes, Undelivered, Pending, View
<1>3. CASE i \notin View.known
  <2>1. Boxes({}, {})  BY <1>3, SameBoxes DEF engine
  <2>2. QED BY <2>1 DEF Boxes
<1>4. QED BY <1>2, <1>3

LEMMA CopyAckBoxes ==
  ASSUME Boxed, NEW i \in Id, UNCHANGED <<log, compat>>,
         legacy' = IF i \in View.known THEN Delivered(View, i) ELSE legacy
  PROVE  Boxes({}, {})
<1>1. View \in Mailbox  BY DEF Boxed, View
<1>2. CASE i \in View.known
  <2>1. /\ legacy' \in Mailbox /\ legacy'.known = View.known
        /\ legacy'.delivered = View.delivered \cup {i}
        /\ legacy'.notified = View.notified
    BY <1>1, <1>2, DeliveredIs
  <2>2. QED BY <1>2, <2>1 DEF Boxed, Boxes, Undelivered, Pending, View
<1>3. CASE i \notin View.known  BY <1>3, SameBoxes DEF engine
<1>4. QED BY <1>2, <1>3

-----------------------------------------------------------------------------
(* What each action does.                                                  *)

\* What a call in hand is like at each of its steps.
Orderly(h) ==
  /\ call[h].step = "idle" => call[h].id = 0 /\ call[h].todo = {}
                              /\ call[h].next = {}
  /\ call[h].step = "next" => call[h].id = 0
  /\ call[h].step \notin {"idle", "next"} => call[h].id \in Id
  /\ h # Monitor => call[h].step # "next" /\ call[h].todo = {}
                    /\ call[h].next = {}
  /\ call[h].step \in {"create", "shadow"} => h # Monitor /\ lock = h
  /\ call[h].told => call[h].step \in {"mark", "write", "settle"}
  /\ call[h].step \in {"mark", "write", "settle"} =>
       call[h].told \/ call[h].receipt = "notified"
  /\ call[h].step \in {"idle", "next", "create", "shadow", "queue"} =>
       call[h].receipt = "none"
  /\ call[h].id \notin call[h].todo

BaseInv ==
  /\ TypeOK /\ Boxed
  /\ \A h \in Handler : Orderly(h)
  /\ hook.did => hook.id # 0
  /\ worker.step # "idle" => worker.id \in Id

Fields(c, step, id, receipt, told, todo, next) ==
  /\ c.step = step /\ c.id = id /\ c.receipt = receipt /\ c.told = told
  /\ c.todo = todo /\ c.next = next

\* Handler h comes to have these fields, the others keep theirs.
Goes(h, step, id, receipt, told, todo, next) ==
  /\ call' \in [Handler -> Call]
  /\ Fields(call'[h], step, id, receipt, told, todo, next)
  /\ \A g \in Handler \ {h} : call'[g] = call[g]

\* The same, when a request for message i is settled as well.
Tells(g, i, status) ==
  /\ call'[g].step = call[g].step /\ call'[g].id = call[g].id
  /\ call'[g].told = call[g].told /\ call'[g].todo = call[g].todo
  /\ call'[g].next = call[g].next
  /\ call'[g].receipt = IF call[g].id = i /\ call[g].receipt = "pending"
                        THEN status ELSE call[g].receipt

LEMMA HandlerIs == Monitor \in Handler /\ Sender \subseteq Handler
BY DEF Handler

LEMMA CallOf ==
  ASSUME TypeOK, NEW h \in Handler
  PROVE  /\ call \in [Handler -> Call] /\ call[h] \in Call
         /\ call[h].step \in Step /\ call[h].id \in Id \cup {0}
         /\ call[h].receipt \in Receipt /\ call[h].told \in BOOLEAN
         /\ call[h].todo \subseteq Id /\ call[h].next \subseteq Id
BY DEF TypeOK, Call

LEMMA NoCallIs == /\ NoCall \in Call
                  /\ Fields(NoCall, "idle", 0, "none", FALSE, {}, {})
BY DEF NoCall, Call, Fields, Step, Receipt

LEMMA ResetIs ==
  ASSUME TypeOK, NEW h \in Handler, call' = [call EXCEPT ![h] = NoCall]
  PROVE  Goes(h, "idle", 0, "none", FALSE, {}, {})
BY NoCallIs, CallOf DEF Goes

LEMMA GotoIs ==
  ASSUME TypeOK, NEW h \in Handler, NEW step \in Step, Goto(h, step)
  PROVE  Goes(h, step, call[h].id, call[h].receipt, call[h].told,
              call[h].todo, call[h].next)
BY CallOf DEF Goes, Goto, Fields, Call

LEMMA FinishIs ==
  ASSUME TypeOK, NEW h \in Handler, call[h].id \in Id, NEW ok \in BOOLEAN
  PROVE  /\ Finish(h, ok) \in Call
         /\ h # Monitor =>
              Fields(Finish(h, ok), "idle", 0, "none", FALSE, {}, {})
         /\ h = Monitor =>
              Fields(Finish(h, ok), "next", 0, "none", FALSE, call[h].todo,
                     call[h].next \cup IF ok THEN {call[h].id} ELSE {})
<1>1. CASE h # Monitor  BY <1>1, NoCallIs DEF Finish
<1>2. CASE h = Monitor
  <2> DEFINE next == call[h].next \cup IF ok THEN {call[h].id} ELSE {}
             c == [NoCall EXCEPT !.step = "next", !.todo = call[h].todo,
                                 !.next = next]
  <2>1. Finish(h, ok) = c  BY <1>2 DEF Finish
  <2>2. call[h].todo \in SUBSET Id /\ next \in SUBSET Id  BY CallOf
  <2> HIDE DEF next
  <2>3. c \in Call /\ Fields(c, "next", 0, "none", FALSE, call[h].todo, next)
    BY <2>2 DEF NoCall, Call, Fields, Step, Receipt
  <2>4. QED BY <1>2, <2>1, <2>3 DEF next
<1>3. QED BY <1>1, <1>2

LEMMA SettledIs ==
  ASSUME NEW calls \in [Handler -> Call], NEW i, NEW status \in Receipt
  PROVE  /\ Settled(calls, i, status) \in [Handler -> Call]
         /\ \A g \in Handler :
              Fields(Settled(calls, i, status)[g], calls[g].step, calls[g].id,
                     IF calls[g].id = i /\ calls[g].receipt = "pending"
                     THEN status ELSE calls[g].receipt,
                     calls[g].told, calls[g].todo, calls[g].next)
<1> SUFFICES ASSUME NEW g \in Handler
             PROVE  LET c == IF calls[g].id = i /\ calls[g].receipt = "pending"
                             THEN [calls[g] EXCEPT !.receipt = status]
                             ELSE calls[g] IN
                    /\ c \in Call
                    /\ Fields(c, calls[g].step, calls[g].id,
                         IF calls[g].id = i /\ calls[g].receipt = "pending"
                         THEN status ELSE calls[g].receipt,
                         calls[g].told, calls[g].todo, calls[g].next)
  BY DEF Settled
<1>1. calls[g] \in Call  OBVIOUS
<1>2. QED BY <1>1 DEF Call, Fields

LEMMA NoteIs ==
  ASSUME TypeOK, NEW i \in Id, NEW excuse \in SUBSET Id, Type(i, excuse)
  PROVE  /\ typed' = typed \cup {i} /\ excused' = excused \cup excuse
         /\ again \subseteq again'
         /\ again' \subseteq again \cup IF i \in typed /\ i \notin excused'
                                        THEN {i} ELSE {}
         /\ typed' \subseteq Id /\ again' \subseteq Id /\ excused' \subseteq Id
BY DEF Type, TypeOK

LEMMA SharedIs ==
  ASSUME TypeOK, NEW h \in Handler, NEW ids \in SUBSET Id
  PROVE  /\ Shared(h, ids) \subseteq ids
         /\ \A i \in ids \ Shared(h, ids) :
              hook.id # i /\ \A g \in Handler \ {h} : i \notin InHand(g)
BY DEF Shared

LEMMA ViewIs ==
  ASSUME Boxed
  PROVE  /\ View \in Mailbox /\ Pending(View) \subseteq Id
         /\ View.known \subseteq Id /\ View.notified \subseteq View.known
         /\ Undelivered \subseteq Id
BY DEF Boxed, View, Pending, Undelivered, Mailbox

\* An old message is sent once more: nothing, or it is taken in hand, and
\* excused.
LEMMA ResendIs ==
  ASSUME BaseInv, NEW p \in Sender, NEW b \in Body, Resend(p, b)
  PROVE  /\ call[p].step = "idle" /\ sends' \in 0..MaxSends
         /\ \/ UNCHANGED <<call, excused>>
            \/ \E i \in Undelivered :
                 /\ Goes(p, "queue", i, "none", FALSE, {}, {})
                 /\ excused \cup {i} = excused'
         /\ UNCHANGED <<body, engine, legacy, lock, request, hook, worker,
                        snapshot, seen, typed, again, faults>>
<1>1. PICK i \in Duplicates(b) :
        IF i \in View.notified \/ (i \notin View.known /\ i \in legacy.notified)
        THEN UNCHANGED <<call, excused>>
        ELSE /\ call' = [call EXCEPT ![p].step = "queue", ![p].id = i]
             /\ excused' = excused \cup Shared(p, {i}) \cup ({i} \ View.notified)
  BY DEF Resend
<1>2. /\ i \in Undelivered /\ i \in Id /\ p \in Handler /\ p # Monitor
      /\ call[p].step = "idle"
  BY <1>1, ViewIs, HandlerIs, ConstantAssumption
     DEF BaseInv, Duplicates, Resend, At
<1>3. sends' \in 0..MaxSends  BY ConstantAssumption DEF Resend, BaseInv, TypeOK
<1>4. CASE UNCHANGED <<call, excused>>
  BY <1>2, <1>3, <1>4 DEF Resend
<1>5. CASE /\ i \notin View.notified
           /\ call' = [call EXCEPT ![p].step = "queue", ![p].id = i]
           /\ excused' = excused \cup Shared(p, {i}) \cup ({i} \ View.notified)
  <2>1. Shared(p, {i}) \subseteq {i}  BY <1>2, SharedIs DEF BaseInv
  <2>2. excused \cup {i} = excused'  BY <1>5, <2>1
  <2>3. /\ call[p].id = 0 /\ call[p].todo = {} /\ call[p].next = {}
        /\ call[p].receipt = "none" /\ call[p].told = FALSE
    BY <1>2, CallOf DEF BaseInv, Orderly
  <2>4. Goes(p, "queue", i, "none", FALSE, {}, {})
    BY <1>2, <1>5, <2>3, CallOf DEF Goes, Fields, Call, Step, BaseInv
  <2>5. QED BY <1>2, <1>3, <2>2, <2>4 DEF Resend
<1>6. QED BY <1>1, <1>4, <1>5

LEMMA SendIs ==
  ASSUME BaseInv, NEW p \in Sender, NEW b \in Body, Send(p, b)
  PROVE  /\ call[p].step = "idle" /\ sends' \in 0..MaxSends
         /\ lock = Nobody /\ lock' = p /\ Duplicates(b) = {}
         /\ \E i \in Id :
              /\ body[i] = Nobody /\ body' = [body EXCEPT ![i] = b]
              /\ body' \in [Id -> Body \cup {Nobody}]
              /\ Goes(p, "create", i, "none", FALSE, {}, {})
         /\ UNCHANGED <<engine, legacy, request, hook, worker, snapshot, seen,
                        history, faults>>
<1>1. PICK i \in Id :
        /\ body[i] = Nobody /\ body' = [body EXCEPT ![i] = b]
        /\ call' = [call EXCEPT ![p].step = "create", ![p].id = i]
  BY DEF Send
<1>2. p \in Handler /\ call[p].step = "idle"
  BY HandlerIs DEF Send, At
<1>3. sends' \in 0..MaxSends  BY ConstantAssumption DEF Send, BaseInv, TypeOK
<1>4. /\ call[p].id = 0 /\ call[p].todo = {} /\ call[p].next = {}
      /\ call[p].receipt = "none" /\ call[p].told = FALSE
  BY <1>2, CallOf DEF BaseInv, Orderly
<1>5. Goes(p, "create", i, "none", FALSE, {}, {})
  BY <1>1, <1>2, <1>4, CallOf DEF Goes, Fields, Call, Step, BaseInv
<1>6. body' \in [Id -> Body \cup {Nobody}]  BY <1>1 DEF BaseInv, TypeOK
<1>7. QED BY <1>1, <1>2, <1>3, <1>5, <1>6 DEF Send

LEMMA CreateIs ==
  ASSUME BaseInv, NEW p \in Sender, Create(p)
  PROVE  /\ call[p].step = "create" /\ call[p].id \in Id
         /\ Goes(p, "shadow", call[p].id, "none", FALSE, {}, {})
         /\ Boxes({call[p].id}, {}) /\ faults' \in 0..MaxFaults
         /\ UNCHANGED <<body, legacy, lock, request, hook, worker, snapshot,
                        seen, history, sends>>
<1> DEFINE new == [log EXCEPT !.known = @ \cup {call[p].id}]
<1>1. /\ p \in Handler /\ call[p].step = "create" /\ call[p].id \in Id
      /\ call[p].receipt = "none" /\ call[p].told = FALSE
      /\ call[p].todo = {} /\ call[p].next = {} /\ p # Monitor
  BY HandlerIs, CallOf, ConstantAssumption DEF Create, At, BaseInv, Orderly
<1>2. Goes(p, "shadow", call[p].id, "none", FALSE, {}, {})
  BY <1>1, GotoIs DEF Create, BaseInv, Step
<1>3. /\ (log' = new /\ compat' = TRUE) \/ UNCHANGED <<log, compat>>
      /\ faults' \in 0..MaxFaults /\ legacy' = legacy
  <2>1. PICK ok \in BOOLEAN : Exec(TRUE, new, ok)  BY DEF Create
  <2>2. faults \in 0..MaxFaults  BY DEF BaseInv, TypeOK
  <2> HIDE DEF new
  <2>3. QED BY <2>1, <2>2, ExecIs DEF Create
<1>4. CASE UNCHANGED <<log, compat>>
  <2>1. Boxes({}, {})  BY <1>3, <1>4, SameBoxes DEF engine, BaseInv
  <2>2. Boxes({call[p].id}, {})  BY <2>1 DEF Boxes
  <2>3. QED BY <1>1, <1>2, <1>3, <2>2 DEF Create
<1>5. CASE log' = new /\ compat' = TRUE
  <2>1. /\ new \in Mailbox /\ new.known = log.known \cup {call[p].id}
        /\ new.notified = log.notified /\ new.delivered = log.delivered
    BY <1>1 DEF BaseInv, Boxed, Mailbox
  <2>2. Boxed /\ (~compat => log.known = {} /\ log.delivered = {})
    BY DEF BaseInv, Boxed, Empty
  <2> HIDE DEF new
  <2>3. Boxes({call[p].id}, {})
    BY <1>3, <1>5, <2>1, <2>2
       DEF Boxed, Boxes, Undelivered, Pending, View
  <2>4. QED BY <1>1, <1>2, <1>3, <2>3 DEF Create
<1>6. QED BY <1>3, <1>4, <1>5

LEMMA ShadowIs ==
  ASSUME BaseInv, NEW p \in Sender, Shadow(p)
  PROVE  /\ call[p].step = "shadow" /\ call[p].id \in Id
         /\ Goes(p, "queue", call[p].id, "none", FALSE, {}, {})
         /\ Boxes({call[p].id}, {}) /\ lock' = Nobody /\ lock = p
         /\ UNCHANGED <<body, engine, request, hook, worker, snapshot, seen,
                        history, bounds>>
<1>1. /\ p \in Handler /\ call[p].step = "shadow" /\ call[p].id \in Id
      /\ call[p].receipt = "none" /\ call[p].told = FALSE
      /\ call[p].todo = {} /\ call[p].next = {} /\ p # Monitor /\ lock = p
  BY HandlerIs, CallOf, ConstantAssumption DEF Shadow, At, BaseInv, Orderly
<1>2. Goes(p, "queue", call[p].id, "none", FALSE, {}, {})
  BY <1>1, GotoIs DEF Shadow, BaseInv, Step
<1>3. /\ legacy' \in Mailbox /\ legacy'.known = legacy.known \cup {call[p].id}
      /\ legacy'.notified = legacy.notified
      /\ legacy'.delivered = legacy.delivered
  BY <1>1 DEF Shadow, BaseInv, Boxed, Mailbox
<1>4. Boxes({call[p].id}, {})
  BY <1>3 DEF Shadow, BaseInv, Boxed, Boxes, Undelivered, Pending, View, engine
<1>5. QED BY <1>1, <1>2, <1>4 DEF Shadow, Release

\* A handler at work on a message keeps its place among the handlers.
Advances(h, step, receipt, told) ==
  Goes(h, step, call[h].id, receipt, told, call[h].todo, call[h].next)

LEMMA QueueIs ==
  ASSUME BaseInv, NEW h \in Handler, Queue(h)
  PROVE  /\ call[h].step = "queue" /\ call[h].id \in Id
         /\ Advances(h, "wait", "pending", FALSE)
         /\ request' = request \cup {call[h].id}
         /\ Boxes({}, {}) /\ faults' \in 0..MaxFaults
         /\ UNCHANGED <<body, legacy, lock, hook, worker, snapshot, seen,
                        history, sends>>
<1>1. /\ call[h].step = "queue" /\ call[h].id \in Id /\ call[h].told = FALSE
  BY CallOf DEF Queue, At, BaseInv, Orderly
<1>2. Advances(h, "wait", "pending", FALSE)
  BY <1>1, CallOf
     DEF Queue, Advances, Goes, Fields, Call, Step, Receipt, BaseInv
<1>3. /\ request' = request \cup {call[h].id} /\ legacy' = legacy
      /\ faults' \in 0..MaxFaults
      /\ (log' = log /\ compat' = TRUE) \/ UNCHANGED <<log, compat>>
  <2>1. faults \in 0..MaxFaults  BY DEF BaseInv, TypeOK
  <2>2. CASE call[h].id \in request /\ UNCHANGED <<request, engine, faults>>
    BY <2>1, <2>2 DEF Queue, engine
  <2>3. CASE /\ request' = request \cup {call[h].id}
             /\ \E ok \in BOOLEAN : Exec(TRUE, log, ok)
    <3>1. PICK ok \in BOOLEAN : Exec(TRUE, log, ok)  BY <2>3
    <3>2. /\ faults' \in 0..MaxFaults
          /\ (log' = log /\ compat' = TRUE) \/ UNCHANGED <<log, compat>>
      BY <2>1, <3>1, ExecIs
    <3>3. QED BY <2>3, <3>2 DEF Queue
  <2>4. QED BY <2>2, <2>3 DEF Queue
<1>4. Boxes({}, {})
  <2>1. Boxed /\ (~compat => log.known = {} /\ log.delivered = {})
    BY DEF BaseInv, Boxed, Empty
  <2>2. QED BY <1>3, <2>1 DEF Boxed, Boxes, Undelivered, Pending, View
<1>5. QED BY <1>1, <1>2, <1>3, <1>4 DEF Queue

LEMMA ReceiveIs ==
  ASSUME BaseInv, NEW h \in Handler, Receive(h)
  PROVE  /\ call[h].step = "wait" /\ call[h].id \in Id
         /\ \/ /\ call[h].receipt = "notified"
               /\ Advances(h, "mark", "notified", FALSE)
            \/ /\ call[h].receipt # "notified"
               /\ Advances(h, "type", call[h].receipt, FALSE)
         /\ UNCHANGED <<body, engine, legacy, lock, request, hook, worker,
                        snapshot, seen, history, bounds>>
<1>1. call[h].step = "wait" /\ call[h].id \in Id /\ call[h].told = FALSE
  BY CallOf DEF Receive, At, BaseInv, Orderly
<1>2. CASE call[h].receipt = "notified"
  <2>1. Goto(h, "mark")  BY <1>2 DEF Receive
  <2>2. Advances(h, "mark", "notified", FALSE)
    BY <1>1, <1>2, <2>1, GotoIs DEF Advances, BaseInv, Step
  <2>3. QED BY <1>1, <1>2, <2>2 DEF Receive
<1>3. CASE call[h].receipt # "notified"
  <2>1. Goto(h, "type")  BY <1>3 DEF Receive
  <2>2. Advances(h, "type", call[h].receipt, FALSE)
    BY <1>1, <1>3, <2>1, GotoIs DEF Advances, BaseInv, Step
  <2>3. QED BY <1>1, <1>3, <2>2 DEF Receive
<1>4. QED BY <1>2, <1>3

LEMMA FallbackIs ==
  ASSUME BaseInv, NEW h \in Handler, Fallback(h)
  PROVE  /\ call[h].step = "type" /\ call[h].id \in Id
         /\ Advances(h, "mark", call[h].receipt, TRUE)
         /\ Type(call[h].id, IF Late(h) THEN {call[h].id} ELSE {})
         /\ UNCHANGED <<body, engine, legacy, lock, request, hook, worker,
                        snapshot, seen, bounds>>
<1>1. call[h].step = "type" /\ call[h].id \in Id
  BY CallOf DEF Fallback, At, BaseInv, Orderly
<1>2. Advances(h, "mark", call[h].receipt, TRUE)
  BY <1>1, CallOf DEF Fallback, Advances, Goes, Fields, Call, Step, BaseInv
<1>3. QED BY <1>1, <1>2 DEF Fallback

\* Handler h is done with its message, settling the request if it still waits.
Ends(h, ok, status) ==
  /\ call' \in [Handler -> Call]
  /\ h # Monitor =>
       Fields(call'[h], "idle", 0, "none", FALSE, {}, {})
  /\ h = Monitor =>
       Fields(call'[h], "next", 0, "none", FALSE, call[h].todo,
              call[h].next \cup IF ok THEN {call[h].id} ELSE {})
  /\ \A g \in Handler \ {h} :
       IF call[h].receipt = "pending" THEN Tells(g, call[h].id, status)
       ELSE call'[g] = call[g]
  /\ request' = IF call[h].receipt = "pending" THEN request \ {call[h].id}
                ELSE request

LEMMA EndsIs ==
  ASSUME TypeOK, NEW h \in Handler, call[h].id \in Id, NEW ok \in BOOLEAN,
         NEW status \in Receipt,
         LET i == call[h].id
             after == [call EXCEPT ![h] = Finish(h, ok)] IN
         IF call[h].receipt = "pending"
         THEN request' = request \ {i} /\ call' = Settled(after, i, status)
         ELSE call' = after /\ UNCHANGED request
  PROVE  Ends(h, ok, status)
<1> DEFINE i == call[h].id
           f == Finish(h, ok)
           after == [call EXCEPT ![h] = f]
<1>1. /\ f \in Call
      /\ h # Monitor => Fields(f, "idle", 0, "none", FALSE, {}, {})
      /\ h = Monitor =>
           Fields(f, "next", 0, "none", FALSE, call[h].todo,
                  call[h].next \cup IF ok THEN {call[h].id} ELSE {})
  BY FinishIs
<1> HIDE DEF f
<1>2. /\ after \in [Handler -> Call] /\ after[h] = f
      /\ \A g \in Handler \ {h} : after[g] = call[g]
  BY <1>1, CallOf
<1>3. f.id = 0 /\ f.receipt = "none"  BY <1>1 DEF Fields
<1>4. CASE call[h].receipt = "pending"
  <2>1. request' = request \ {i} /\ call' = Settled(after, i, status)
    BY <1>4 DEF f
  <2> HIDE DEF after
  <2>2. /\ call' \in [Handler -> Call]
        /\ \A g \in Handler :
             Fields(call'[g], after[g].step, after[g].id,
                    IF after[g].id = i /\ after[g].receipt = "pending"
                    THEN status ELSE after[g].receipt,
                    after[g].told, after[g].todo, after[g].next)
    BY <1>2, <2>1, SettledIs
  <2>3. /\ h # Monitor =>
             Fields(call'[h], "idle", 0, "none", FALSE, {}, {})
        /\ h = Monitor =>
             Fields(call'[h], "next", 0, "none", FALSE, call[h].todo,
                    call[h].next \cup IF ok THEN {call[h].id} ELSE {})
    BY <1>1, <1>2, <1>3, <2>2 DEF Fields
  <2>4. \A g \in Handler \ {h} : Tells(g, i, status)
    BY <1>2, <2>2 DEF Fields, Tells
  <2>5. QED BY <1>4, <2>1, <2>2, <2>3, <2>4 DEF Ends
<1>5. CASE call[h].receipt # "pending"
  <2>1. call' = after /\ UNCHANGED request  BY <1>5 DEF f
  <2> HIDE DEF after
  <2>2. QED BY <1>1, <1>2, <1>5, <2>1 DEF Ends
<1>6. QED BY <1>4, <1>5

LEMMA FallbackFailsIs ==
  ASSUME BaseInv, NEW h \in Handler, FallbackFails(h)
  PROVE  /\ call[h].step = "type" /\ call[h].id \in Id
         /\ Ends(h, FALSE, "none")
         /\ UNCHANGED <<body, engine, legacy, lock, hook, worker, snapshot,
                        seen, history, bounds>>
<1>1. call[h].step = "type" /\ call[h].id \in Id
  BY CallOf DEF FallbackFails, At, BaseInv, Orderly
<1>2. Ends(h, FALSE, "none")
  BY <1>1, EndsIs DEF FallbackFails, BaseInv, Receipt
<1>3. QED BY <1>1, <1>2 DEF FallbackFails

LEMMA MarkIs ==
  ASSUME BaseInv, NEW h \in Handler, Mark(h)
  PROVE  /\ call[h].step = "mark" /\ call[h].id \in Id
         /\ Advances(h, "write", call[h].receipt, call[h].told)
         /\ Boxes({}, {call[h].id}) /\ faults' \in 0..MaxFaults
         /\ UNCHANGED <<body, legacy, lock, request, hook, worker, snapshot,
                        seen, history, sends>>
<1> DEFINE i == call[h].id
<1>1. call[h].step = "mark" /\ i \in Id
  BY CallOf DEF Mark, At, BaseInv, Orderly
<1>2. Advances(h, "write", call[h].receipt, call[h].told)
  BY <1>1, GotoIs DEF Mark, Advances, BaseInv, Step
<1>3. /\ (Markable(i) /\ log' = Notified(log, i) /\ compat' = TRUE)
           \/ UNCHANGED <<log, compat>>
      /\ faults' \in 0..MaxFaults /\ legacy' = legacy
  <2>1. PICK ok \in BOOLEAN : Exec(Markable(i), Notified(log, i), ok)
    BY DEF Mark
  <2>2. faults \in 0..MaxFaults  BY DEF BaseInv, TypeOK
  <2>3. Markable(i) \in BOOLEAN  BY DEF Markable
  <2>4. QED BY <2>1, <2>2, <2>3, ExecIs DEF Mark
<1>4. Boxes({}, {i})  BY <1>1, <1>3, MarkBoxes DEF BaseInv
<1>5. QED BY <1>1, <1>2, <1>3, <1>4 DEF Mark

LEMMA WriteMarkIs ==
  ASSUME BaseInv, NEW h \in Handler, WriteMark(h)
  PROVE  /\ call[h].step = "write" /\ call[h].id \in Id /\ lock = Nobody
         /\ Advances(h, "settle", call[h].receipt, call[h].told)
         /\ Boxes({}, {call[h].id})
         /\ UNCHANGED <<body, engine, lock, request, hook, worker, snapshot,
                        seen, history, bounds>>
<1>1. call[h].step = "write" /\ call[h].id \in Id
  BY CallOf DEF WriteMark, At, BaseInv, Orderly
<1>2. Advances(h, "settle", call[h].receipt, call[h].told)
  BY <1>1, GotoIs DEF WriteMark, Advances, BaseInv, Step
<1>3. Boxes({}, {call[h].id})
  BY <1>1, CopyMarkBoxes DEF WriteMark, BaseInv, engine
<1>4. QED BY <1>1, <1>2, <1>3 DEF WriteMark

LEMMA SettleIs ==
  ASSUME BaseInv, NEW h \in Handler, Settle(h)
  PROVE  /\ call[h].step = "settle" /\ call[h].id \in Id
         /\ Ends(h, TRUE, "notified")
         /\ excused' = excused \cup IF h = Monitor \/ call[h].id \in View.notified
                                    THEN {} ELSE {call[h].id}
         /\ UNCHANGED <<body, engine, legacy, lock, hook, worker, snapshot,
                        seen, typed, again, bounds>>
<1>1. call[h].step = "settle" /\ call[h].id \in Id
  BY CallOf DEF Settle, At, BaseInv, Orderly
<1>2. Ends(h, TRUE, "notified")
  BY <1>1, EndsIs DEF Settle, BaseInv, Receipt
<1>3. QED BY <1>1, <1>2 DEF Settle

LEMMA PollIs ==
  ASSUME BaseInv, Poll
  PROVE  /\ call[Monitor].step = "idle"
         /\ Goes(Monitor, "next", 0, "none", FALSE, Pending(View) \ Told,
                 Pending(View) \cap Told)
         /\ excused' \subseteq Id /\ excused \subseteq excused'
         /\ \A i \in (Pending(View) \ Told) \ excused' :
              hook.id # i /\ \A g \in Handler \ {Monitor} : i \notin InHand(g)
         /\ UNCHANGED <<body, engine, legacy, lock, request, hook, worker,
                        snapshot, seen, typed, again, bounds>>
<1> DEFINE todo == Pending(View) \ Told
           next == Pending(View) \cap Told
<1>1. call[Monitor].step = "idle" /\ Monitor \in Handler
  BY HandlerIs DEF Poll, At
<1>2. todo \in SUBSET Id /\ next \in SUBSET Id  BY ViewIs DEF BaseInv
<1>3. /\ call' = [call EXCEPT ![Monitor].step = "next",
                              ![Monitor].todo = todo, ![Monitor].next = next]
      /\ excused' = excused \cup Shared(Monitor, todo)
  BY DEF Poll
<1> HIDE DEF todo, next
<1>4. /\ call[Monitor].id = 0 /\ call[Monitor].receipt = "none"
      /\ call[Monitor].told = FALSE
  BY <1>1, CallOf DEF BaseInv, Orderly
<1>5. Goes(Monitor, "next", 0, "none", FALSE, todo, next)
  BY <1>1, <1>2, <1>3, <1>4, CallOf DEF Goes, Fields, Call, Step, BaseInv
<1>6. /\ Shared(Monitor, todo) \subseteq todo
      /\ \A i \in todo \ Shared(Monitor, todo) :
           hook.id # i /\ \A g \in Handler \ {Monitor} : i \notin InHand(g)
  BY <1>1, <1>2, SharedIs DEF BaseInv
<1>7. excused \subseteq Id  BY DEF BaseInv, TypeOK
<1>8. QED BY <1>1, <1>2, <1>3, <1>5, <1>6, <1>7 DEF Poll, todo, next

LEMMA TakeIs ==
  ASSUME BaseInv, NEW i \in Id, Take(i)
  PROVE  /\ call[Monitor].step = "next" /\ i \in call[Monitor].todo
         /\ Goes(Monitor, "queue", i, "none", FALSE, call[Monitor].todo \ {i},
                 call[Monitor].next)
         /\ UNCHANGED <<body, engine, legacy, lock, request, hook, worker,
                        snapshot, seen, history, bounds>>
<1>1. call[Monitor].step = "next" /\ Monitor \in Handler
  BY HandlerIs DEF Take, At
<1>2. call[Monitor].receipt = "none" /\ call[Monitor].told = FALSE
  BY <1>1, CallOf DEF BaseInv, Orderly
<1>3. Goes(Monitor, "queue", i, "none", FALSE, call[Monitor].todo \ {i},
           call[Monitor].next)
  BY <1>1, <1>2, CallOf DEF Take, Goes, Fields, Call, Step, BaseInv
<1>4. QED BY <1>1, <1>3 DEF Take

LEMMA SaveSnapshotIs ==
  ASSUME BaseInv, SaveSnapshot
  PROVE  /\ call[Monitor].step = "next" /\ call[Monitor].todo = {}
         /\ snapshot' = call[Monitor].next /\ snapshot' \subseteq Id
         /\ Goes(Monitor, "idle", 0, "none", FALSE, {}, {})
         /\ UNCHANGED <<body, engine, legacy, lock, request, hook, worker,
                        seen, history, bounds>>
BY HandlerIs, CallOf, ResetIs DEF SaveSnapshot, At, BaseInv

LEMMA HookTypeIs ==
  ASSUME BaseInv, NEW i \in Id, NEW did \in BOOLEAN, HookType(i, did)
  PROVE  /\ hook.id = 0 /\ hook.did = FALSE /\ i \in request
         /\ hook'.id = i /\ hook'.did = did
         /\ hook' \in [id : Id \cup {0}, did : BOOLEAN]
         /\ IF did
            THEN \E excuse \in SUBSET Id :
                   /\ Type(i, excuse)
                   /\ \A h \in Handler :
                        i \in InHand(h) /\ ~Waits(h, i) => i \in excuse
            ELSE UNCHANGED history
         /\ UNCHANGED <<body, engine, legacy, lock, request, call, worker,
                        snapshot, seen, bounds>>
<1> DEFINE excuse == {j \in {i} : \E h \in Handler :
                                    j \in InHand(h) /\ ~Waits(h, j)}
<1>1. hook.id = 0 /\ hook.did = FALSE  BY DEF HookType, NoHook
<1>2. /\ hook'.id = i /\ hook'.did = did
      /\ hook' \in [id : Id \cup {0}, did : BOOLEAN]
  BY DEF HookType
<1>3. excuse \in SUBSET Id
      /\ \A h \in Handler : i \in InHand(h) /\ ~Waits(h, i) => i \in excuse
  OBVIOUS
<1>4. did => Type(i, excuse)  BY DEF HookType
<1>5. ~did => UNCHANGED history  BY DEF HookType
<1> HIDE DEF excuse
<1>6. QED BY <1>1, <1>2, <1>3, <1>4, <1>5 DEF HookType

\* The hook has nothing in hand any more.
Freed == hook'.id = 0 /\ hook'.did = FALSE
         /\ hook' \in [id : Id \cup {0}, did : BOOLEAN]

LEMMA UnrecordedIs ==
  ASSUME BaseInv, hook.id # 0
  PROVE  /\ hook.id \in Id /\ Unrecorded \subseteq Id
         /\ hook.did /\ hook.id \notin View.notified => hook.id \in Unrecorded
BY DEF BaseInv, TypeOK, Unrecorded

LEMMA HookSkipIs ==
  ASSUME BaseInv, HookSkip
  PROVE  /\ hook.id \in Id \ request /\ Freed
         /\ excused' = excused \cup Unrecorded
         /\ UNCHANGED <<body, engine, legacy, lock, request, call, worker,
                        snapshot, seen, typed, again, bounds>>
BY UnrecordedIs DEF HookSkip, Freed, NoHook

LEMMA KillHookIs ==
  ASSUME BaseInv, KillHook
  PROVE  /\ hook.id \in Id /\ Freed /\ faults' \in 0..MaxFaults
         /\ excused' = excused \cup Unrecorded
         /\ UNCHANGED <<body, engine, legacy, lock, request, call, worker,
                        snapshot, seen, typed, again, sends>>
<1>1. faults' \in 0..MaxFaults
  BY ConstantAssumption DEF KillHook, Fault, BaseInv, TypeOK
<1>2. QED BY <1>1, UnrecordedIs DEF KillHook, Freed, NoHook

\* A request for message i is settled, and those who wait for it are told.
Settles(i, status) ==
  /\ call' \in [Handler -> Call]
  /\ \A g \in Handler : Tells(g, i, status)
  /\ request' = request \ {i}

LEMMA SettlesIs ==
  ASSUME TypeOK, NEW i, NEW status \in Receipt, request' = request \ {i},
         call' = Settled(call, i, status)
  PROVE  Settles(i, status)
<1>1. call \in [Handler -> Call]  BY DEF TypeOK
<1>2. QED BY <1>1, SettledIs DEF Settles, Tells, Fields

LEMMA HookNotifiedIs ==
  ASSUME BaseInv, HookNotified
  PROVE  /\ hook.id \in Id \cap request /\ hook.did /\ Freed
         /\ Settles(hook.id, "notified") /\ Boxes({}, {hook.id})
         /\ excused' = excused \cup IF hook.id \in (View.notified)' THEN {}
                                    ELSE {hook.id}
         /\ faults' \in 0..MaxFaults
         /\ UNCHANGED <<body, lock, worker, snapshot, seen, typed, again,
                        sends>>
<1> DEFINE i == hook.id
<1>1. i \in Id \cap request /\ hook.did
  BY DEF HookNotified, BaseInv, TypeOK, Confirmed
<1>2. Freed  BY DEF HookNotified, Freed, NoHook
<1>3. Settles(i, "notified")
  BY SettlesIs DEF HookNotified, BaseInv, Receipt
<1>4. /\ (Markable(i) /\ log' = Notified(log, i) /\ compat' = TRUE)
           \/ UNCHANGED <<log, compat>>
      /\ faults' \in 0..MaxFaults
  <2>1. PICK ok \in BOOLEAN : Exec(Markable(i), Notified(log, i), ok)
    BY DEF HookNotified
  <2>2. faults \in 0..MaxFaults  BY DEF BaseInv, TypeOK
  <2>3. Markable(i) \in BOOLEAN  BY DEF Markable
  <2>4. QED BY <2>1, <2>2, <2>3, ExecIs
<1>5. Boxes({}, {i})
  <2>1. CASE UNCHANGED legacy
    BY <1>1, <1>4, <2>1, MarkBoxes DEF BaseInv
  <2>2. CASE ~compat /\ i \in legacy.known /\ legacy' = Notified(legacy, i)
    <3>1. ~Markable(i)  BY <1>1, <2>2, MarkableIs DEF BaseInv
    <3>2. View = legacy  BY <2>2 DEF View
    <3>3. UNCHANGED <<log, compat>>  BY <1>4, <3>1
    <3>4. legacy' = IF i \in View.known THEN Notified(View, i) ELSE legacy
      BY <2>2, <3>2
    <3>5. QED BY <1>1, <3>3, <3>4, CopyMarkBoxes DEF BaseInv
  <2>3. QED BY <2>1, <2>2 DEF HookNotified, BaseInv, Boxed
<1>6. QED BY <1>1, <1>2, <1>3, <1>4, <1>5 DEF HookNotified

LEMMA HookUnconfirmedIs ==
  ASSUME BaseInv, NEW retry \in BOOLEAN, HookUnconfirmed(retry)
  PROVE  /\ hook.id \in Id \cap request /\ Freed
         /\ UNCHANGED <<request, call>> \/ Settles(hook.id, "none")
         /\ excused' = excused \cup Unrecorded
         /\ UNCHANGED <<body, engine, legacy, lock, worker, snapshot, seen,
                        typed, again, bounds>>
<1>1. hook.id \in Id \cap request  BY DEF HookUnconfirmed, BaseInv, TypeOK
<1>2. Freed  BY DEF HookUnconfirmed, Freed, NoHook
<1>3. UNCHANGED <<request, call>> \/ Settles(hook.id, "none")
  BY SettlesIs DEF HookUnconfirmed, BaseInv, Receipt
<1>4. QED BY <1>1, <1>2, <1>3 DEF HookUnconfirmed

LEMMA ListIs ==
  ASSUME BaseInv, List
  PROVE  /\ seen' = seen \cup Pending(View) /\ seen' \subseteq Id
         /\ UNCHANGED <<body, engine, legacy, lock, request, call, hook, worker,
                        snapshot, history, bounds>>
BY ViewIs DEF List, BaseInv, TypeOK

LEMMA AcknowledgeIs ==
  ASSUME BaseInv, NEW i \in Id, Acknowledge(i)
  PROVE  /\ i \in seen /\ worker'.id = i
         /\ worker' \in [step : {"idle", "write", "settle"}, id : Id \cup {0}]
         /\ Boxes({}, {}) /\ faults' \in 0..MaxFaults
         /\ UNCHANGED <<body, legacy, lock, request, call, hook, snapshot, seen,
                        history, sends>>
<1>1. /\ worker'.id = i
      /\ worker' \in [step : {"idle", "write", "settle"}, id : Id \cup {0}]
  BY DEF Acknowledge
<1>2. faults \in 0..MaxFaults  BY DEF BaseInv, TypeOK
<1>3. /\ (Markable(i) /\ log' = Delivered(log, i) /\ compat' = TRUE)
           \/ UNCHANGED <<log, compat>>
      /\ faults' \in 0..MaxFaults
  <2>1. CASE UNCHANGED <<engine, faults>>  BY <1>2, <2>1 DEF engine
  <2>2. CASE \E ok \in BOOLEAN : Exec(Markable(i), Delivered(log, i), ok)
    <3>1. PICK ok \in BOOLEAN : Exec(Markable(i), Delivered(log, i), ok)
      BY <2>2
    <3>2. Markable(i) \in BOOLEAN  BY DEF Markable
    <3>3. QED BY <1>2, <3>1, <3>2, ExecIs
  <2>3. QED BY <2>1, <2>2 DEF Acknowledge
<1>4. Boxes({}, {})  BY <1>3, AckBoxes DEF Acknowledge, BaseInv
<1>5. QED BY <1>1, <1>3, <1>4 DEF Acknowledge

LEMMA AckWriteIs ==
  ASSUME BaseInv, AckWrite
  PROVE  /\ worker.step = "write" /\ lock = Nobody /\ worker'.id = worker.id
         /\ worker.id \in Id /\ worker'.step = "settle"
         /\ worker' \in [step : {"idle", "write", "settle"}, id : Id \cup {0}]
         /\ Boxes({}, {})
         /\ UNCHANGED <<body, engine, lock, request, call, hook, snapshot, seen,
                        history, bounds>>
<1>1. worker.step = "write" /\ worker.id \in Id  BY DEF AckWrite, BaseInv
<1>2. /\ worker'.id = worker.id /\ worker'.step = "settle"
      /\ worker' \in [step : {"idle", "write", "settle"}, id : Id \cup {0}]
  BY DEF AckWrite, BaseInv, TypeOK
<1>3. Boxes({}, {})
  BY <1>1, CopyAckBoxes DEF AckWrite, BaseInv, engine
<1>4. QED BY <1>1, <1>2, <1>3 DEF AckWrite

LEMMA AckSettleIs ==
  ASSUME BaseInv, AckSettle
  PROVE  /\ worker.id \in Id /\ worker'.id = 0 /\ worker'.step = "idle"
         /\ worker' \in [step : {"idle", "write", "settle"}, id : Id \cup {0}]
         /\ UNCHANGED <<request, call>> \/ Settles(worker.id, "notified")
         /\ UNCHANGED <<body, engine, legacy, lock, hook, snapshot, seen,
                        history, bounds>>
<1>1. worker.id \in Id  BY DEF AckSettle, BaseInv
<1>2. /\ worker'.id = 0 /\ worker'.step = "idle"
      /\ worker' \in [step : {"idle", "write", "settle"}, id : Id \cup {0}]
  BY DEF AckSettle, NoAck
<1>3. UNCHANGED <<request, call>> \/ Settles(worker.id, "notified")
  BY SettlesIs DEF AckSettle, BaseInv, Receipt
<1>4. QED BY <1>1, <1>2, <1>3 DEF AckSettle

LEMMA KillIs ==
  ASSUME BaseInv, NEW h \in Handler, Kill(h)
  PROVE  /\ Goes(h, "idle", 0, "none", FALSE, {}, {})
         /\ faults' \in 0..MaxFaults
         /\ excused' = excused \cup (call[h].next \ (View.notified \cup snapshot))
                               \cup IF call[h].told THEN {call[h].id} ELSE {}
         /\ excused' \subseteq Id
         /\ UNCHANGED <<body, engine, legacy, lock, request, hook, worker,
                        snapshot, seen, typed, again, sends>>
<1>1. Goes(h, "idle", 0, "none", FALSE, {}, {})
  BY ResetIs DEF Kill, BaseInv
<1>2. faults' \in 0..MaxFaults
  BY ConstantAssumption DEF Kill, Fault, BaseInv, TypeOK
<1>3. call[h].told => call[h].id \in Id  BY CallOf DEF BaseInv, Orderly
<1>4. call[h].next \subseteq Id /\ excused \subseteq Id
  BY CallOf DEF BaseInv, TypeOK
<1>5. QED BY <1>1, <1>2, <1>3, <1>4 DEF Kill

LEMMA BreakLockIs ==
  ASSUME BaseInv, BreakLock
  PROVE  /\ call[lock].step \notin {"create", "shadow"} /\ lock' = Nobody
         /\ lock \in Handler
         /\ UNCHANGED <<body, engine, legacy, request, call, hook, worker,
                        snapshot, seen, history, bounds>>
BY DEF BreakLock, BaseInv, TypeOK

-----------------------------------------------------------------------------
(* Types, and what the steps of a call rely on.                            *)

LEMMA GoesKeepsOrder ==
  ASSUME BaseInv, NEW h \in Handler, NEW step, NEW id, NEW receipt, NEW told,
         NEW todo, NEW next, Goes(h, step, id, receipt, told, todo, next),
         Orderly(h)',
         \A g \in Handler \ {h} :
           lock' = lock \/ call[g].step \notin {"create", "shadow"}
  PROVE  \A g \in Handler : Orderly(g)'
<1> SUFFICES ASSUME NEW g \in Handler \ {h}  PROVE Orderly(g)'
  OBVIOUS
<1>1. call'[g] = call[g] /\ Orderly(g)  BY DEF Goes, BaseInv
<1>2. QED BY <1>1 DEF Orderly

LEMMA TellsKeepsOrder ==
  ASSUME BaseInv, NEW g \in Handler, NEW i, NEW status \in {"notified", "none"},
         Tells(g, i, status), UNCHANGED lock
  PROVE  Orderly(g)'
<1>1. Orderly(g)  BY DEF BaseInv
<1>2. QED BY <1>1 DEF Orderly, Tells

LEMMA SettlesKeepsOrder ==
  ASSUME BaseInv, NEW i, NEW status \in {"notified", "none"}, UNCHANGED lock,
         UNCHANGED <<request, call>> \/ Settles(i, status)
  PROVE  /\ \A g \in Handler : Orderly(g)'
         /\ call' \in [Handler -> Call] /\ request' \subseteq Id
<1>1. CASE UNCHANGED <<request, call>>
  <2>1. TypeOK /\ \A g \in Handler : Orderly(g)  BY DEF BaseInv
  <2>2. QED BY <1>1, <2>1 DEF Orderly, TypeOK
<1>2. CASE Settles(i, status)
  <2>1. \A g \in Handler : Orderly(g)'
    BY <1>2, TellsKeepsOrder DEF Settles
  <2>2. QED BY <1>2, <2>1 DEF Settles, BaseInv, TypeOK
<1>3. QED BY <1>1, <1>2

LEMMA EndsKeepsOrder ==
  ASSUME BaseInv, NEW h \in Handler, NEW ok, NEW status \in {"notified", "none"},
         Ends(h, ok, status), UNCHANGED lock
  PROVE  /\ \A g \in Handler : Orderly(g)'
         /\ call' \in [Handler -> Call] /\ request' \subseteq Id
<1>1. Orderly(h) /\ call[h].todo \subseteq Id  BY CallOf DEF BaseInv
<1>2. Orderly(h)'
  <2>1. CASE h = Monitor
    <3>1. Fields(call'[h], "next", 0, "none", FALSE, call[h].todo,
                 call[h].next \cup IF ok THEN {call[h].id} ELSE {})
      BY <2>1 DEF Ends
    <3>2. 0 \notin call[h].todo  BY <1>1 DEF Id
    <3>3. QED BY <2>1, <3>1, <3>2 DEF Orderly, Fields
  <2>2. CASE h # Monitor
    <3>1. Fields(call'[h], "idle", 0, "none", FALSE, {}, {})
      BY <2>2 DEF Ends
    <3>2. QED BY <2>2, <3>1 DEF Orderly, Fields
  <2>3. QED BY <2>1, <2>2
<1>3. ASSUME NEW g \in Handler \ {h}  PROVE Orderly(g)'
  <2>1. CASE call'[g] = call[g]  BY <2>1 DEF BaseInv, Orderly
  <2>2. CASE Tells(g, call[h].id, status)  BY <2>2, TellsKeepsOrder
  <2>3. QED BY <2>1, <2>2 DEF Ends
<1>4. request' \subseteq Id  BY DEF Ends, BaseInv, TypeOK
<1>5. QED BY <1>2, <1>3, <1>4 DEF Ends

LEMMA InitBase == Init => BaseInv
<1> SUFFICES ASSUME Init  PROVE BaseInv
  OBVIOUS
<1>1. Empty \in Mailbox /\ Empty.notified = {} /\ Empty.delivered = {}
  BY DEF Empty, Mailbox
<1>2. TypeOK
  <2>1. call \in [Handler -> Call]  BY NoCallIs DEF Init
  <2>2. /\ hook \in [id : Id \cup {0}, did : BOOLEAN]
        /\ worker \in [step : {"idle", "write", "settle"}, id : Id \cup {0}]
    BY DEF Init, NoHook, NoAck
  <2>3. sends \in 0..MaxSends /\ faults \in 0..MaxFaults
    BY ConstantAssumption DEF Init
  <2>4. QED BY <1>1, <2>1, <2>2, <2>3 DEF Init, TypeOK
<1>3. Boxed  BY <1>1 DEF Init, Boxed
<1>4. \A h \in Handler : Orderly(h)
  BY NoCallIs DEF Init, Orderly, Fields
<1>5. QED BY <1>2, <1>3, <1>4 DEF Init, BaseInv, NoHook, NoAck

SenderStep(p) ==
  \/ \E b \in Body : Send(p, b) \/ Resend(p, b)
  \/ Create(p) \/ Shadow(p)

LEMMA SendersKeepBase ==
  ASSUME BaseInv, NEW p \in Sender, SenderStep(p)
  PROVE  BaseInv'
<1>0. /\ TypeOK /\ Boxed /\ p \in Handler /\ p # Monitor
      /\ hook.did => hook.id # 0
      /\ worker.step # "idle" => worker.id \in Id
  BY HandlerIs, ConstantAssumption DEF BaseInv
<1>1. ASSUME NEW b \in Body, Send(p, b)  PROVE BaseInv'
  <2>1. /\ sends' \in 0..MaxSends /\ lock = Nobody /\ lock' = p
        /\ UNCHANGED <<engine, legacy, request, hook, worker, snapshot, seen,
                       history, faults>>
    BY <1>1, SendIs
  <2>2. PICK i \in Id : /\ body' \in [Id -> Body \cup {Nobody}]
                        /\ Goes(p, "create", i, "none", FALSE, {}, {})
    BY <1>1, SendIs
  <2>3. Orderly(p)'  BY <1>0, <2>1, <2>2 DEF Goes, Fields, Orderly
  <2>4. \A g \in Handler : call[g].step \notin {"create", "shadow"}
    BY <2>1, ConstantAssumption DEF BaseInv, Orderly, Handler
  <2>5. \A g \in Handler : Orderly(g)'
    BY <1>0, <2>2, <2>3, <2>4, GoesKeepsOrder
  <2>6. Boxed'  BY <1>0, <2>1, SameBoxes DEF Boxes
  <2>7. TypeOK'
    BY <1>0, <2>1, <2>2, <2>6 DEF TypeOK, Boxed, Goes, history
  <2>8. QED BY <1>0, <2>1, <2>5, <2>6, <2>7 DEF BaseInv
<1>2. ASSUME NEW b \in Body, Resend(p, b)  PROVE BaseInv'
  <2>1. /\ sends' \in 0..MaxSends
        /\ UNCHANGED <<body, engine, legacy, lock, request, hook, worker,
                       snapshot, seen, typed, again, faults>>
    BY <1>2, ResendIs
  <2>2. /\ \A g \in Handler : Orderly(g)'
        /\ call' \in [Handler -> Call] /\ excused' \subseteq Id
    <3>1. CASE UNCHANGED <<call, excused>>
      BY <1>0, <2>1, <3>1 DEF BaseInv, Orderly, TypeOK
    <3>2. CASE \E i \in Undelivered :
                 /\ Goes(p, "queue", i, "none", FALSE, {}, {})
                 /\ excused \cup {i} = excused'
      <4>1. PICK i \in Undelivered :
              /\ Goes(p, "queue", i, "none", FALSE, {}, {})
              /\ excused \cup {i} = excused'
        BY <3>2
      <4>2. i \in Id  BY <1>0, <4>1, ViewIs
      <4>3. Orderly(p)'  BY <1>0, <4>1, <4>2 DEF Goes, Fields, Orderly
      <4>4. \A g \in Handler : Orderly(g)'
        BY <1>0, <2>1, <4>1, <4>3, GoesKeepsOrder
      <4>5. QED BY <1>0, <4>1, <4>2, <4>4 DEF Goes, TypeOK
    <3>3. QED BY <1>2, <3>1, <3>2, ResendIs
  <2>3. Boxed'  BY <1>0, <2>1, SameBoxes DEF Boxes
  <2>4. TypeOK'  BY <1>0, <2>1, <2>2, <2>3 DEF TypeOK, Boxed
  <2>5. QED BY <1>0, <2>1, <2>2, <2>3, <2>4 DEF BaseInv
<1>3. CASE Create(p)
  <2>1. /\ call[p].step = "create" /\ call[p].id \in Id
        /\ Goes(p, "shadow", call[p].id, "none", FALSE, {}, {})
        /\ Boxes({call[p].id}, {}) /\ faults' \in 0..MaxFaults
        /\ UNCHANGED <<body, legacy, lock, request, hook, worker, snapshot,
                       seen, history, sends>>
    BY <1>3, CreateIs
  <2>2. Orderly(p)'  BY <1>0, <2>1 DEF Goes, Fields, Orderly, BaseInv
  <2>3. \A g \in Handler : Orderly(g)'
    BY <1>0, <2>1, <2>2, GoesKeepsOrder
  <2>4. TypeOK' /\ Boxed'
    BY <1>0, <2>1 DEF TypeOK, Boxes, Boxed, Goes, history
  <2>5. QED BY <1>0, <2>1, <2>3, <2>4 DEF BaseInv
<1>4. CASE Shadow(p)
  <2>1. /\ call[p].step = "shadow" /\ call[p].id \in Id
        /\ Goes(p, "queue", call[p].id, "none", FALSE, {}, {})
        /\ Boxes({call[p].id}, {}) /\ lock' = Nobody /\ lock = p
        /\ UNCHANGED <<body, engine, request, hook, worker, snapshot, seen,
                       history, bounds>>
    BY <1>4, ShadowIs
  <2>2. Orderly(p)'  BY <1>0, <2>1 DEF Goes, Fields, Orderly
  <2>3. \A g \in Handler \ {p} : call[g].step \notin {"create", "shadow"}
    BY <2>1 DEF BaseInv, Orderly
  <2>4. \A g \in Handler : Orderly(g)'
    BY <1>0, <2>1, <2>2, <2>3, GoesKeepsOrder
  <2>5. TypeOK' /\ Boxed'
    BY <1>0, <2>1 DEF TypeOK, Boxes, Boxed, Goes, history, bounds
  <2>6. QED BY <1>0, <2>1, <2>4, <2>5 DEF BaseInv
<1>5. QED BY <1>1, <1>2, <1>3, <1>4 DEF SenderStep

LEMMA HandlersKeepBase ==
  ASSUME BaseInv, NEW h \in Handler, Handle(h) \/ Kill(h)
  PROVE  BaseInv'
<1>0. /\ TypeOK /\ Boxed /\ Orderly(h)
      /\ hook.did => hook.id # 0
      /\ worker.step # "idle" => worker.id \in Id
  BY DEF BaseInv
<1>1. CASE Queue(h)
  <2>1. /\ call[h].step = "queue" /\ call[h].id \in Id
        /\ Advances(h, "wait", "pending", FALSE)
        /\ request' = request \cup {call[h].id}
        /\ Boxes({}, {}) /\ faults' \in 0..MaxFaults
        /\ UNCHANGED <<body, legacy, lock, hook, worker, snapshot, seen,
                       history, sends>>
    BY <1>1, QueueIs
  <2>2. Orderly(h)'
    BY <1>0, <2>1 DEF Advances, Goes, Fields, Orderly
  <2>3. \A g \in Handler : Orderly(g)'
    BY <2>1, <2>2, GoesKeepsOrder DEF Advances
  <2>4. TypeOK' /\ Boxed'
    BY <1>0, <2>1 DEF TypeOK, Boxes, Boxed, Advances, Goes, history
  <2>5. QED BY <1>0, <2>1, <2>3, <2>4 DEF BaseInv
<1>2. CASE Receive(h)
  <2>1. /\ call[h].step = "wait" /\ call[h].id \in Id
        /\ UNCHANGED <<body, engine, legacy, lock, request, hook, worker,
                       snapshot, seen, history, bounds>>
    BY <1>2, ReceiveIs
  <2>2. PICK step \in {"mark", "type"} :
          /\ Advances(h, step, call[h].receipt, FALSE)
          /\ step = "mark" => call[h].receipt = "notified"
    BY <1>2, ReceiveIs
  <2>3. Orderly(h)'
    BY <1>0, <2>1, <2>2 DEF Advances, Goes, Fields, Orderly
  <2>4. \A g \in Handler : Orderly(g)'
    BY <2>1, <2>2, <2>3, GoesKeepsOrder DEF Advances
  <2>5. Boxed'  BY <1>0, <2>1, SameBoxes DEF Boxes
  <2>6. TypeOK'
    BY <1>0, <2>1, <2>2, <2>5 DEF TypeOK, Boxed, Advances, Goes, history, bounds
  <2>7. QED BY <1>0, <2>1, <2>4, <2>5, <2>6 DEF BaseInv
<1>3. CASE Fallback(h)
  <2>1. /\ call[h].step = "type" /\ call[h].id \in Id
        /\ Advances(h, "mark", call[h].receipt, TRUE)
        /\ Type(call[h].id, IF Late(h) THEN {call[h].id} ELSE {})
        /\ UNCHANGED <<body, engine, legacy, lock, request, hook, worker,
                       snapshot, seen, bounds>>
    BY <1>3, FallbackIs
  <2>2. typed' \subseteq Id /\ again' \subseteq Id /\ excused' \subseteq Id
    BY <1>0, <2>1, NoteIs
  <2>3. Orderly(h)'
    BY <1>0, <2>1 DEF Advances, Goes, Fields, Orderly
  <2>4. \A g \in Handler : Orderly(g)'
    BY <2>1, <2>3, GoesKeepsOrder DEF Advances
  <2>5. Boxed'  BY <1>0, <2>1, SameBoxes DEF Boxes
  <2>6. TypeOK'
    BY <1>0, <2>1, <2>2, <2>5 DEF TypeOK, Boxed, Advances, Goes, bounds
  <2>7. QED BY <1>0, <2>1, <2>4, <2>5, <2>6 DEF BaseInv
<1>4. CASE FallbackFails(h)
  <2>1. /\ Ends(h, FALSE, "none")
        /\ UNCHANGED <<body, engine, legacy, lock, hook, worker, snapshot,
                       seen, history, bounds>>
    BY <1>4, FallbackFailsIs
  <2>2. /\ \A g \in Handler : Orderly(g)'
        /\ call' \in [Handler -> Call] /\ request' \subseteq Id
    BY <2>1, EndsKeepsOrder
  <2>3. Boxed'  BY <1>0, <2>1, SameBoxes DEF Boxes
  <2>4. TypeOK'
    BY <1>0, <2>1, <2>2, <2>3 DEF TypeOK, Boxed, history, bounds
  <2>5. QED BY <1>0, <2>1, <2>2, <2>3, <2>4 DEF BaseInv
<1>5. CASE Mark(h)
  <2>1. /\ call[h].step = "mark" /\ call[h].id \in Id
        /\ Advances(h, "write", call[h].receipt, call[h].told)
        /\ Boxes({}, {call[h].id}) /\ faults' \in 0..MaxFaults
        /\ UNCHANGED <<body, legacy, lock, request, hook, worker, snapshot,
                       seen, history, sends>>
    BY <1>5, MarkIs
  <2>2. Orderly(h)'
    BY <1>0, <2>1 DEF Advances, Goes, Fields, Orderly
  <2>3. \A g \in Handler : Orderly(g)'
    BY <2>1, <2>2, GoesKeepsOrder DEF Advances
  <2>4. TypeOK' /\ Boxed'
    BY <1>0, <2>1 DEF TypeOK, Boxes, Boxed, Advances, Goes, history
  <2>5. QED BY <1>0, <2>1, <2>3, <2>4 DEF BaseInv
<1>6. CASE WriteMark(h)
  <2>1. /\ call[h].step = "write" /\ call[h].id \in Id
        /\ Advances(h, "settle", call[h].receipt, call[h].told)
        /\ Boxes({}, {call[h].id})
        /\ UNCHANGED <<body, engine, lock, request, hook, worker, snapshot,
                       seen, history, bounds>>
    BY <1>6, WriteMarkIs
  <2>2. Orderly(h)'
    BY <1>0, <2>1 DEF Advances, Goes, Fields, Orderly
  <2>3. \A g \in Handler : Orderly(g)'
    BY <2>1, <2>2, GoesKeepsOrder DEF Advances
  <2>4. TypeOK' /\ Boxed'
    BY <1>0, <2>1 DEF TypeOK, Boxes, Boxed, Advances, Goes, history, bounds
  <2>5. QED BY <1>0, <2>1, <2>3, <2>4 DEF BaseInv
<1>7. CASE Settle(h)
  <2>1. /\ call[h].id \in Id /\ Ends(h, TRUE, "notified")
        /\ excused' = excused \cup IF h = Monitor \/ call[h].id \in View.notified
                                   THEN {} ELSE {call[h].id}
        /\ UNCHANGED <<body, engine, legacy, lock, hook, worker, snapshot,
                       seen, typed, again, bounds>>
    BY <1>7, SettleIs
  <2>2. /\ \A g \in Handler : Orderly(g)'
        /\ call' \in [Handler -> Call] /\ request' \subseteq Id
    BY <2>1, EndsKeepsOrder
  <2>3. Boxed'  BY <1>0, <2>1, SameBoxes DEF Boxes
  <2>4. excused' \subseteq Id  BY <1>0, <2>1 DEF TypeOK
  <2>5. TypeOK'
    BY <1>0, <2>1, <2>2, <2>3, <2>4 DEF TypeOK, Boxed, bounds
  <2>6. QED BY <1>0, <2>1, <2>2, <2>3, <2>5 DEF BaseInv
<1>8. CASE Kill(h)
  <2>1. /\ Goes(h, "idle", 0, "none", FALSE, {}, {})
        /\ faults' \in 0..MaxFaults /\ excused' \subseteq Id
        /\ UNCHANGED <<body, engine, legacy, lock, request, hook, worker,
                       snapshot, seen, typed, again, sends>>
    BY <1>8, KillIs
  <2>2. Orderly(h)'  BY <2>1 DEF Goes, Fields, Orderly
  <2>3. \A g \in Handler : Orderly(g)'  BY <2>1, <2>2, GoesKeepsOrder
  <2>4. Boxed'  BY <1>0, <2>1, SameBoxes DEF Boxes
  <2>5. TypeOK'  BY <1>0, <2>1, <2>4 DEF TypeOK, Boxed, Goes
  <2>6. QED BY <1>0, <2>1, <2>3, <2>4, <2>5 DEF BaseInv
<1>9. QED
  BY <1>1, <1>2, <1>3, <1>4, <1>5, <1>6, <1>7, <1>8 DEF Handle

MonitorStep == Poll \/ (\E i \in Id : Take(i)) \/ SaveSnapshot

LEMMA MonitorKeepsBase == ASSUME BaseInv, MonitorStep  PROVE BaseInv'
<1>0. /\ TypeOK /\ Boxed /\ Monitor \in Handler /\ Orderly(Monitor)
      /\ hook.did => hook.id # 0
      /\ worker.step # "idle" => worker.id \in Id
      /\ 0 \notin Id
  BY HandlerIs DEF BaseInv, Id
<1>1. CASE Poll
  <2>1. /\ Goes(Monitor, "next", 0, "none", FALSE, Pending(View) \ Told,
                Pending(View) \cap Told)
        /\ excused' \subseteq Id
        /\ UNCHANGED <<body, engine, legacy, lock, request, hook, worker,
                       snapshot, seen, typed, again, bounds>>
    BY <1>1, PollIs
  <2>2. Orderly(Monitor)'
    BY <1>0, <2>1, ViewIs DEF Goes, Fields, Orderly
  <2>3. \A g \in Handler : Orderly(g)'
    BY <1>0, <2>1, <2>2, GoesKeepsOrder
  <2>4. Boxed'  BY <1>0, <2>1, SameBoxes DEF Boxes
  <2>5. TypeOK'  BY <1>0, <2>1, <2>4 DEF TypeOK, Boxed, Goes, bounds
  <2>6. QED BY <1>0, <2>1, <2>3, <2>4, <2>5 DEF BaseInv
<1>2. ASSUME NEW i \in Id, Take(i)  PROVE BaseInv'
  <2>1. /\ call[Monitor].step = "next"
        /\ Goes(Monitor, "queue", i, "none", FALSE, call[Monitor].todo \ {i},
                call[Monitor].next)
        /\ UNCHANGED <<body, engine, legacy, lock, request, hook, worker,
                       snapshot, seen, history, bounds>>
    BY <1>2, TakeIs
  <2>2. Orderly(Monitor)'  BY <1>0, <2>1 DEF Goes, Fields, Orderly
  <2>3. \A g \in Handler : Orderly(g)'
    BY <1>0, <2>1, <2>2, GoesKeepsOrder
  <2>4. Boxed'  BY <1>0, <2>1, SameBoxes DEF Boxes
  <2>5. TypeOK'  BY <1>0, <2>1, <2>4 DEF TypeOK, Boxed, Goes, history, bounds
  <2>6. QED BY <1>0, <2>1, <2>3, <2>4, <2>5 DEF BaseInv
<1>3. CASE SaveSnapshot
  <2>1. /\ Goes(Monitor, "idle", 0, "none", FALSE, {}, {})
        /\ snapshot' \subseteq Id
        /\ UNCHANGED <<body, engine, legacy, lock, request, hook, worker,
                       seen, history, bounds>>
    BY <1>3, SaveSnapshotIs
  <2>2. Orderly(Monitor)'  BY <1>0, <2>1 DEF Goes, Fields, Orderly
  <2>3. \A g \in Handler : Orderly(g)'
    BY <1>0, <2>1, <2>2, GoesKeepsOrder
  <2>4. Boxed'  BY <1>0, <2>1, SameBoxes DEF Boxes
  <2>5. TypeOK'  BY <1>0, <2>1, <2>4 DEF TypeOK, Boxed, Goes, history, bounds
  <2>6. QED BY <1>0, <2>1, <2>3, <2>4, <2>5 DEF BaseInv
<1>4. QED BY <1>1, <1>2, <1>3 DEF MonitorStep

HookStep ==
  \/ \E i \in Id, did \in BOOLEAN : HookType(i, did)
  \/ HookSkip \/ HookNotified \/ KillHook
  \/ \E retry \in BOOLEAN : HookUnconfirmed(retry)

LEMMA HookKeepsBase == ASSUME BaseInv, HookStep  PROVE BaseInv'
<1>0. /\ TypeOK /\ Boxed /\ (\A g \in Handler : Orderly(g))
      /\ worker.step # "idle" => worker.id \in Id
      /\ 0 \notin Id
  BY DEF BaseInv, Id
<1>1. ASSUME NEW i \in Id, NEW did \in BOOLEAN, HookType(i, did)
      PROVE  BaseInv'
  <2>1. /\ hook'.id = i /\ hook' \in [id : Id \cup {0}, did : BOOLEAN]
        /\ UNCHANGED <<body, engine, legacy, lock, request, call, worker,
                       snapshot, seen, bounds>>
    BY <1>1, HookTypeIs
  <2>2. typed' \subseteq Id /\ again' \subseteq Id /\ excused' \subseteq Id
    <3>1. CASE UNCHANGED history  BY <1>0, <3>1 DEF TypeOK, history
    <3>2. CASE \E excuse \in SUBSET Id : Type(i, excuse)
      BY <1>0, <3>2, NoteIs
    <3>3. QED BY <1>1, <3>1, <3>2, HookTypeIs
  <2>3. Boxed'  BY <1>0, <2>1, SameBoxes DEF Boxes
  <2>4. TypeOK'  BY <1>0, <2>1, <2>2, <2>3 DEF TypeOK, Boxed, bounds
  <2>5. QED BY <1>0, <2>1, <2>3, <2>4 DEF BaseInv, Orderly
<1>2. CASE HookSkip \/ KillHook
  <2>1. /\ hook.id \in Id /\ Freed /\ excused' = excused \cup Unrecorded
        /\ faults' \in 0..MaxFaults
        /\ UNCHANGED <<body, engine, legacy, lock, request, call, worker,
                       snapshot, seen, typed, again, sends>>
    BY <1>0, <1>2, HookSkipIs, KillHookIs DEF bounds, TypeOK
  <2>2. excused' \subseteq Id
    BY <1>0, <2>1, UnrecordedIs DEF TypeOK
  <2>3. Boxed'  BY <1>0, <2>1, SameBoxes DEF Boxes
  <2>4. TypeOK'  BY <1>0, <2>1, <2>2, <2>3 DEF TypeOK, Boxed, Freed
  <2>5. QED BY <1>0, <2>1, <2>3, <2>4 DEF BaseInv, Orderly, Freed
<1>3. CASE HookNotified
  <2>1. /\ hook.id \in Id /\ Freed
        /\ Settles(hook.id, "notified") /\ Boxes({}, {hook.id})
        /\ faults' \in 0..MaxFaults
        /\ UNCHANGED <<body, lock, worker, snapshot, seen, typed, again, sends>>
    BY <1>3, HookNotifiedIs
  <2>2. excused' \subseteq Id
    BY <1>0, <1>3, <2>1, HookNotifiedIs DEF TypeOK
  <2>3. /\ \A g \in Handler : Orderly(g)'
        /\ call' \in [Handler -> Call] /\ request' \subseteq Id
    BY <2>1, SettlesKeepsOrder
  <2>4. TypeOK' /\ Boxed'
    BY <1>0, <2>1, <2>2, <2>3 DEF TypeOK, Boxes, Boxed, Freed
  <2>5. QED BY <1>0, <2>1, <2>3, <2>4 DEF BaseInv, Freed
<1>4. ASSUME NEW retry \in BOOLEAN, HookUnconfirmed(retry)  PROVE BaseInv'
  <2>1. /\ hook.id \in Id /\ Freed
        /\ UNCHANGED <<request, call>> \/ Settles(hook.id, "none")
        /\ excused' = excused \cup Unrecorded
        /\ UNCHANGED <<body, engine, legacy, lock, worker, snapshot, seen,
                       typed, again, bounds>>
    BY <1>4, HookUnconfirmedIs
  <2>2. excused' \subseteq Id
    BY <1>0, <2>1, UnrecordedIs DEF TypeOK
  <2>3. /\ \A g \in Handler : Orderly(g)'
        /\ call' \in [Handler -> Call] /\ request' \subseteq Id
    BY <2>1, SettlesKeepsOrder
  <2>4. Boxed'  BY <1>0, <2>1, SameBoxes DEF Boxes
  <2>5. TypeOK'
    BY <1>0, <2>1, <2>2, <2>3, <2>4 DEF TypeOK, Boxed, Freed, bounds
  <2>6. QED BY <1>0, <2>1, <2>3, <2>4, <2>5 DEF BaseInv, Freed
<1>5. QED BY <1>1, <1>2, <1>3, <1>4 DEF HookStep

WorkerStep ==
  List \/ (\E i \in Id : Acknowledge(i)) \/ AckWrite \/ AckSettle \/ BreakLock

LEMMA WorkerKeepsBase == ASSUME BaseInv, WorkerStep  PROVE BaseInv'
<1>0. /\ TypeOK /\ Boxed /\ (\A g \in Handler : Orderly(g))
      /\ hook.did => hook.id # 0
      /\ worker.step # "idle" => worker.id \in Id
  BY DEF BaseInv
<1>1. CASE List
  <2>1. /\ seen' \subseteq Id
        /\ UNCHANGED <<body, engine, legacy, lock, request, call, hook, worker,
                       snapshot, history, bounds>>
    BY <1>1, ListIs
  <2>2. Boxed'  BY <1>0, <2>1, SameBoxes DEF Boxes
  <2>3. TypeOK'  BY <1>0, <2>1, <2>2 DEF TypeOK, Boxed, history, bounds
  <2>4. QED BY <1>0, <2>1, <2>2, <2>3 DEF BaseInv, Orderly
<1>2. ASSUME NEW i \in Id, Acknowledge(i)  PROVE BaseInv'
  <2>1. /\ worker'.id = i
        /\ worker' \in [step : {"idle", "write", "settle"}, id : Id \cup {0}]
        /\ Boxes({}, {}) /\ faults' \in 0..MaxFaults
        /\ UNCHANGED <<body, legacy, lock, request, call, hook, snapshot, seen,
                       history, sends>>
    BY <1>2, AcknowledgeIs
  <2>2. TypeOK' /\ Boxed'
    BY <1>0, <2>1 DEF TypeOK, Boxes, Boxed, history
  <2>3. QED BY <1>0, <2>1, <2>2 DEF BaseInv, Orderly
<1>3. CASE AckWrite
  <2>1. /\ worker'.id = worker.id /\ worker.id \in Id
        /\ worker' \in [step : {"idle", "write", "settle"}, id : Id \cup {0}]
        /\ Boxes({}, {})
        /\ UNCHANGED <<body, engine, lock, request, call, hook, snapshot, seen,
                       history, bounds>>
    BY <1>3, AckWriteIs
  <2>2. TypeOK' /\ Boxed'
    BY <1>0, <2>1 DEF TypeOK, Boxes, Boxed, history, bounds
  <2>3. QED BY <1>0, <2>1, <2>2 DEF BaseInv, Orderly
<1>4. CASE AckSettle
  <2>1. /\ worker'.step = "idle"
        /\ worker' \in [step : {"idle", "write", "settle"}, id : Id \cup {0}]
        /\ UNCHANGED <<request, call>> \/ Settles(worker.id, "notified")
        /\ UNCHANGED <<body, engine, legacy, lock, hook, snapshot, seen,
                       history, bounds>>
    BY <1>4, AckSettleIs
  <2>2. /\ \A g \in Handler : Orderly(g)'
        /\ call' \in [Handler -> Call] /\ request' \subseteq Id
    BY <2>1, SettlesKeepsOrder
  <2>3. Boxed'  BY <1>0, <2>1, SameBoxes DEF Boxes
  <2>4. TypeOK'
    BY <1>0, <2>1, <2>2, <2>3 DEF TypeOK, Boxed, history, bounds
  <2>5. QED BY <1>0, <2>1, <2>2, <2>3, <2>4 DEF BaseInv
<1>5. CASE BreakLock
  <2>1. /\ call[lock].step \notin {"create", "shadow"} /\ lock' = Nobody
        /\ UNCHANGED <<body, engine, legacy, request, call, hook, worker,
                       snapshot, seen, history, bounds>>
    BY <1>5, BreakLockIs
  <2>2. \A g \in Handler : Orderly(g)'  BY <1>0, <2>1 DEF Orderly
  <2>3. Boxed'  BY <1>0, <2>1, SameBoxes DEF Boxes
  <2>4. TypeOK'  BY <1>0, <2>1, <2>3 DEF TypeOK, Boxed, history, bounds
  <2>5. QED BY <1>0, <2>1, <2>2, <2>3, <2>4 DEF BaseInv
<1>6. QED BY <1>1, <1>2, <1>3, <1>4, <1>5 DEF WorkerStep

\* Every step is one of these.
LEMMA NextIs ==
  ASSUME Next
  PROVE  \/ \E p \in Sender : SenderStep(p)
         \/ \E h \in Handler : Handle(h) \/ Kill(h)
         \/ MonitorStep \/ HookStep \/ WorkerStep
BY DEF Next, SenderStep, MonitorStep, HookStep, WorkerStep

LEMMA NextKeepsBase == BaseInv /\ [Next]_vars => BaseInv'
<1> SUFFICES ASSUME BaseInv, [Next]_vars  PROVE BaseInv'
  OBVIOUS
<1>1. CASE UNCHANGED vars
  BY <1>1
     DEF BaseInv, TypeOK, Boxed, Orderly, vars, engine, history, bounds
<1>2. CASE Next
  BY <1>2, NextIs, SendersKeepBase, HandlersKeepBase, MonitorKeepsBase,
     HookKeepsBase, WorkerKeepsBase
<1>3. QED BY <1>1, <1>2

LEMMA BaseIsKept == Spec => []BaseInv
BY InitBase, NextKeepsBase, PTL DEF Spec

\* The mailboxes, requests and calls have their types: whatever a sender, the
\* monitor, the hook or the worker passes on to its next step.
THEOREM TypeCorrect == Spec => []TypeOK
<1>1. BaseInv => TypeOK  BY DEF BaseInv
<1>2. QED BY <1>1, BaseIsKept, PTL

-----------------------------------------------------------------------------
(* NotifiedWasTold.                                                        *)

\* The worker has read the message, or it was typed into its pane.
Heard == seen \cup typed

\* Nobody has a message down as notified that it has not heard of.
Honest(h) ==
  /\ call[h].next \subseteq Heard
  /\ call[h].receipt = "notified" => call[h].id \in Heard
  /\ call[h].told => call[h].id \in Heard

ToldInv ==
  /\ log.notified \cup legacy.notified \cup snapshot \subseteq Heard
  /\ \A h \in Handler : Honest(h)
  /\ hook.did => hook.id \in typed
  /\ worker.step # "idle" => worker.id \in seen

LEMMA InitToldInv == Init => ToldInv
BY NoCallIs
   DEF Init, ToldInv, Empty, Heard, Honest, Fields, NoHook, NoAck

\* Whoever marks a message has typed it or was told that another has.
LEMMA MarkerHasTold ==
  ASSUME BaseInv, ToldInv, NEW h \in Handler,
         call[h].step \in {"mark", "write", "settle"}
  PROVE  call[h].id \in Heard
BY DEF BaseInv, Orderly, ToldInv, Honest

LEMMA SettlingIsHonest ==
  ASSUME ToldInv, NEW g \in Handler, NEW i, NEW status \in {"notified", "none"},
         Tells(g, i, status), status = "notified" => i \in Heard,
         Heard \subseteq Heard'
  PROVE  Honest(g)'
<1>1. Honest(g)  BY DEF ToldInv
<1>2. QED BY <1>1 DEF Honest, Tells

LEMMA SettlesIsHonest ==
  ASSUME ToldInv, NEW i, NEW status \in {"notified", "none"},
         status = "notified" => i \in Heard, Heard \subseteq Heard',
         UNCHANGED <<request, call>> \/ Settles(i, status)
  PROVE  \A g \in Handler : Honest(g)'
<1> SUFFICES ASSUME NEW g \in Handler  PROVE Honest(g)'
  OBVIOUS
<1>1. CASE UNCHANGED <<request, call>>  BY <1>1 DEF ToldInv, Honest
<1>2. CASE Settles(i, status)  BY <1>2, SettlingIsHonest DEF Settles
<1>3. QED BY <1>1, <1>2

LEMMA EndsIsHonest ==
  ASSUME BaseInv, ToldInv, NEW h \in Handler, NEW ok \in BOOLEAN,
         NEW status \in {"notified", "none"}, Ends(h, ok, status),
         status = "notified" \/ ok => call[h].id \in Heard, UNCHANGED Heard
  PROVE  \A g \in Handler : Honest(g)'
<1>1. Honest(h)' 
  <2>1. Honest(h)  BY DEF ToldInv
  <2>2. call'[h].next \subseteq call[h].next \cup IF ok THEN {call[h].id} ELSE {}
    BY DEF Ends, Fields
  <2>3. call'[h].receipt = "none" /\ call'[h].told = FALSE
    BY DEF Ends, Fields
  <2>4. QED BY <2>1, <2>2, <2>3 DEF Honest
<1>2. ASSUME NEW g \in Handler \ {h}  PROVE Honest(g)'
  <2>1. CASE call'[g] = call[g]  BY <2>1 DEF ToldInv, Honest
  <2>2. CASE Tells(g, call[h].id, status)  BY <2>2, SettlingIsHonest
  <2>3. QED BY <2>1, <2>2 DEF Ends
<1>3. QED BY <1>1, <1>2

LEMMA GoesIsHonest ==
  ASSUME ToldInv, NEW h \in Handler, Honest(h)', Heard \subseteq Heard',
         \A g \in Handler \ {h} : call'[g] = call[g]
  PROVE  \A g \in Handler : Honest(g)'
BY DEF ToldInv, Honest

LEMMA SendersStayHonest ==
  ASSUME BaseInv, ToldInv, NEW p \in Sender, SenderStep(p)
  PROVE  ToldInv'
<1>0. p \in Handler  BY HandlerIs
<1>1. ASSUME NEW b \in Body, Send(p, b)  PROVE ToldInv'
  <2>1. UNCHANGED <<engine, legacy, hook, worker, snapshot, seen, history>>
    BY <1>1, SendIs
  <2>2. PICK i \in Id : Goes(p, "create", i, "none", FALSE, {}, {})
    BY <1>1, SendIs
  <2>3. UNCHANGED Heard  BY <2>1 DEF Heard, history
  <2>4. Honest(p)'  BY <2>2 DEF Goes, Fields, Honest
  <2>5. \A g \in Handler : Honest(g)'
    BY <1>0, <2>2, <2>3, <2>4, GoesIsHonest DEF Goes
  <2>6. QED BY <2>1, <2>3, <2>5 DEF ToldInv, engine, history
<1>2. ASSUME NEW b \in Body, Resend(p, b)  PROVE ToldInv'
  <2>1. UNCHANGED <<engine, legacy, hook, worker, snapshot, seen, typed>>
    BY <1>2, ResendIs
  <2>2. UNCHANGED Heard  BY <2>1 DEF Heard
  <2>3. \A g \in Handler : Honest(g)'
    <3>1. CASE UNCHANGED call  BY <2>2, <3>1 DEF ToldInv, Honest
    <3>2. ASSUME NEW i \in Undelivered,
                 Goes(p, "queue", i, "none", FALSE, {}, {})
          PROVE  \A g \in Handler : Honest(g)'
      <4>1. Honest(p)'  BY <3>2 DEF Goes, Fields, Honest
      <4>2. QED BY <1>0, <2>2, <3>2, <4>1, GoesIsHonest DEF Goes
    <3>3. QED BY <1>2, <3>1, <3>2, ResendIs
  <2>4. QED BY <2>1, <2>2, <2>3 DEF ToldInv, engine
<1>3. CASE Create(p) \/ Shadow(p)
  <2>1. /\ Boxes({call[p].id}, {})
        /\ UNCHANGED <<hook, worker, snapshot, seen, history>>
    BY <1>3, CreateIs, ShadowIs
  <2>2. UNCHANGED Heard  BY <2>1 DEF Heard, history
  <2>3. PICK step : Goes(p, step, call[p].id, "none", FALSE, {}, {})
    BY <1>3, CreateIs, ShadowIs
  <2>4. Honest(p)'  BY <2>3 DEF Goes, Fields, Honest
  <2>5. \A g \in Handler : Honest(g)'
    BY <1>0, <2>2, <2>3, <2>4, GoesIsHonest DEF Goes
  <2>6. QED BY <2>1, <2>2, <2>5 DEF ToldInv, Boxes, history
<1>4. QED BY <1>1, <1>2, <1>3 DEF SenderStep

LEMMA HandlersStayHonest ==
  ASSUME BaseInv, ToldInv, NEW h \in Handler, Handle(h) \/ Kill(h)
  PROVE  ToldInv'
<1>0. Honest(h) /\ call[h].told \in BOOLEAN
  BY CallOf DEF ToldInv, BaseInv
<1>1. CASE Queue(h) \/ Receive(h) \/ Mark(h) \/ WriteMark(h)
  <2>1. /\ Boxes({}, {call[h].id} \cap Heard)
        /\ UNCHANGED <<hook, worker, snapshot, seen, typed>>
    <3>1. CASE Queue(h)
      BY <3>1, QueueIs DEF Boxes, history
    <3>2. CASE Receive(h)
      <4>1. UNCHANGED <<engine, legacy, hook, worker, snapshot, seen, history>>
        BY <3>2, ReceiveIs
      <4>2. Boxes({}, {})  BY <4>1, SameBoxes DEF BaseInv
      <4>3. QED BY <4>1, <4>2 DEF Boxes, history
    <3>3. CASE Mark(h) \/ WriteMark(h)
      <4>1. /\ call[h].step \in {"mark", "write"} /\ Boxes({}, {call[h].id})
            /\ UNCHANGED <<hook, worker, snapshot, seen, history>>
        BY <3>3, MarkIs, WriteMarkIs
      <4>2. {call[h].id} \cap Heard = {call[h].id}
        BY <4>1, MarkerHasTold
      <4>3. QED BY <4>1, <4>2 DEF history
    <3>4. QED BY <1>1, <3>1, <3>2, <3>3
  <2>2. UNCHANGED Heard  BY <2>1 DEF Heard
  <2>3. Honest(h)' /\ \A g \in Handler \ {h} : call'[g] = call[g]
    <3>1. CASE Queue(h)
      <4>1. Advances(h, "wait", "pending", FALSE)  BY <3>1, QueueIs
      <4>2. QED BY <1>0, <2>2, <4>1 DEF Advances, Goes, Fields, Honest
    <3>2. CASE Receive(h)
      <4>1. \/ /\ call[h].receipt = "notified"
               /\ Advances(h, "mark", "notified", FALSE)
            \/ Advances(h, "type", call[h].receipt, FALSE)
        BY <3>2, ReceiveIs
      <4>2. QED BY <1>0, <2>2, <4>1 DEF Advances, Goes, Fields, Honest
    <3>3. CASE Mark(h) \/ WriteMark(h)
      <4>1. PICK step : Advances(h, step, call[h].receipt, call[h].told)
        BY <3>3, MarkIs, WriteMarkIs
      <4>2. QED BY <1>0, <2>2, <4>1 DEF Advances, Goes, Fields, Honest
    <3>4. QED BY <1>1, <3>1, <3>2, <3>3
  <2>4. \A g \in Handler : Honest(g)'  BY <2>2, <2>3, GoesIsHonest
  <2>5. QED BY <2>1, <2>2, <2>4 DEF ToldInv, Boxes
<1>2. CASE Fallback(h)
  <2>1. /\ Advances(h, "mark", call[h].receipt, TRUE) /\ call[h].id \in Id
        /\ Type(call[h].id, IF Late(h) THEN {call[h].id} ELSE {})
        /\ UNCHANGED <<engine, legacy, hook, worker, snapshot, seen>>
    BY <1>2, FallbackIs
  <2>2. typed' = typed \cup {call[h].id}  BY <2>1 DEF Type
  <2>3. Heard \subseteq Heard' /\ call[h].id \in Heard'
    BY <2>1, <2>2 DEF Heard
  <2>4. Honest(h)'
    BY <1>0, <2>1, <2>3 DEF Advances, Goes, Fields, Honest
  <2>5. \A g \in Handler : Honest(g)'
    BY <2>1, <2>3, <2>4, GoesIsHonest DEF Advances, Goes
  <2>6. QED BY <2>1, <2>2, <2>3, <2>5 DEF ToldInv, engine
<1>3. CASE FallbackFails(h) \/ Settle(h)
  <2>1. UNCHANGED <<engine, legacy, hook, worker, snapshot, seen, typed>>
    BY <1>3, FallbackFailsIs, SettleIs DEF history
  <2>2. UNCHANGED Heard  BY <2>1 DEF Heard
  <2>3. \A g \in Handler : Honest(g)'
    <3>1. CASE FallbackFails(h)
      <4>1. Ends(h, FALSE, "none")  BY <3>1, FallbackFailsIs
      <4>2. QED BY <2>2, <4>1, EndsIsHonest
    <3>2. CASE Settle(h)
      <4>1. Ends(h, TRUE, "notified") /\ call[h].step = "settle"
        BY <3>2, SettleIs
      <4>2. call[h].id \in Heard  BY <4>1, MarkerHasTold
      <4>3. QED BY <2>2, <4>1, <4>2, EndsIsHonest
    <3>3. QED BY <1>3, <3>1, <3>2
  <2>4. QED BY <2>1, <2>2, <2>3 DEF ToldInv, engine
<1>4. CASE Kill(h)
  <2>1. /\ Goes(h, "idle", 0, "none", FALSE, {}, {})
        /\ UNCHANGED <<engine, legacy, hook, worker, snapshot, seen, typed>>
    BY <1>4, KillIs
  <2>2. UNCHANGED Heard  BY <2>1 DEF Heard
  <2>3. Honest(h)'  BY <2>1 DEF Goes, Fields, Honest
  <2>4. \A g \in Handler : Honest(g)'
    BY <2>1, <2>2, <2>3, GoesIsHonest DEF Goes
  <2>5. QED BY <2>1, <2>2, <2>4 DEF ToldInv, engine
<1>5. QED BY <1>1, <1>2, <1>3, <1>4 DEF Handle

LEMMA OthersStayHonest ==
  ASSUME BaseInv, ToldInv, MonitorStep \/ HookStep \/ WorkerStep
  PROVE  ToldInv'
<1>0. Monitor \in Handler /\ Honest(Monitor)  BY HandlerIs DEF ToldInv
<1>1. CASE Poll
  <2>1. /\ Goes(Monitor, "next", 0, "none", FALSE, Pending(View) \ Told,
                Pending(View) \cap Told)
        /\ UNCHANGED <<engine, legacy, hook, worker, snapshot, seen, typed>>
    BY <1>1, PollIs
  <2>2. UNCHANGED Heard  BY <2>1 DEF Heard
  <2>3. Told \subseteq Heard  BY DEF Told, View, ToldInv
  <2>4. Honest(Monitor)'  BY <2>1, <2>2, <2>3 DEF Goes, Fields, Honest
  <2>5. \A g \in Handler : Honest(g)'
    BY <1>0, <2>1, <2>2, <2>4, GoesIsHonest DEF Goes
  <2>6. QED BY <2>1, <2>2, <2>5 DEF ToldInv, engine
<1>2. ASSUME NEW i \in Id, Take(i)  PROVE ToldInv'
  <2>1. /\ Goes(Monitor, "queue", i, "none", FALSE, call[Monitor].todo \ {i},
                call[Monitor].next)
        /\ UNCHANGED <<engine, legacy, hook, worker, snapshot, seen, history>>
    BY <1>2, TakeIs
  <2>2. UNCHANGED Heard  BY <2>1 DEF Heard, history
  <2>3. Honest(Monitor)'  BY <1>0, <2>1, <2>2 DEF Goes, Fields, Honest
  <2>4. \A g \in Handler : Honest(g)'
    BY <1>0, <2>1, <2>2, <2>3, GoesIsHonest DEF Goes
  <2>5. QED BY <2>1, <2>2, <2>4 DEF ToldInv, engine, history
<1>3. CASE SaveSnapshot
  <2>1. /\ Goes(Monitor, "idle", 0, "none", FALSE, {}, {})
        /\ snapshot' = call[Monitor].next
        /\ UNCHANGED <<engine, legacy, hook, worker, seen, history>>
    BY <1>3, SaveSnapshotIs
  <2>2. UNCHANGED Heard  BY <2>1 DEF Heard, history
  <2>3. Honest(Monitor)'  BY <2>1 DEF Goes, Fields, Honest
  <2>4. \A g \in Handler : Honest(g)'
    BY <1>0, <2>1, <2>2, <2>3, GoesIsHonest DEF Goes
  <2>5. QED BY <1>0, <2>1, <2>2, <2>4 DEF ToldInv, Honest, engine, history
<1>4. ASSUME NEW i \in Id, NEW did \in BOOLEAN, HookType(i, did)
      PROVE  ToldInv'
  <2>1. /\ hook'.id = i /\ hook'.did = did
        /\ UNCHANGED <<engine, legacy, call, worker, snapshot, seen>>
    BY <1>4, HookTypeIs
  <2>2. IF did THEN typed' = typed \cup {i} ELSE typed' = typed
    BY <1>4, HookTypeIs DEF Type, history
  <2>3. Heard \subseteq Heard'  BY <2>1, <2>2 DEF Heard
  <2>4. \A g \in Handler : Honest(g)'  BY <2>1, <2>3 DEF ToldInv, Honest
  <2>5. QED BY <2>1, <2>2, <2>3, <2>4 DEF ToldInv, engine
<1>5. CASE HookSkip \/ KillHook
  <2>1. /\ Freed
        /\ UNCHANGED <<engine, legacy, call, worker, snapshot, seen, typed>>
    BY <1>5, HookSkipIs, KillHookIs
  <2>2. QED BY <2>1 DEF ToldInv, Honest, Heard, Freed, engine
<1>6. CASE HookNotified
  <2>1. /\ hook.did /\ Freed /\ Settles(hook.id, "notified")
        /\ Boxes({}, {hook.id})
        /\ UNCHANGED <<worker, snapshot, seen, typed>>
    BY <1>6, HookNotifiedIs
  <2>2. UNCHANGED Heard /\ hook.id \in Heard  BY <2>1 DEF Heard, ToldInv
  <2>3. \A g \in Handler : Honest(g)'  BY <2>1, <2>2, SettlesIsHonest
  <2>4. QED BY <2>1, <2>2, <2>3 DEF ToldInv, Boxes, Freed
<1>7. ASSUME NEW retry \in BOOLEAN, HookUnconfirmed(retry)  PROVE ToldInv'
  <2>1. /\ Freed
        /\ UNCHANGED <<request, call>> \/ Settles(hook.id, "none")
        /\ UNCHANGED <<engine, legacy, worker, snapshot, seen, typed>>
    BY <1>7, HookUnconfirmedIs
  <2>2. UNCHANGED Heard  BY <2>1 DEF Heard
  <2>3. \A g \in Handler : Honest(g)'  BY <2>1, <2>2, SettlesIsHonest
  <2>4. QED BY <2>1, <2>2, <2>3 DEF ToldInv, Freed, engine
<1>8. CASE List
  <2>1. /\ seen \subseteq seen'
        /\ UNCHANGED <<engine, legacy, call, hook, worker, snapshot, history>>
    BY <1>8, ListIs
  <2>2. Heard \subseteq Heard'  BY <2>1 DEF Heard, history
  <2>3. QED BY <2>1, <2>2 DEF ToldInv, Honest, engine, history
<1>9. ASSUME NEW i \in Id, Acknowledge(i)  PROVE ToldInv'
  <2>1. /\ i \in seen /\ worker'.id = i /\ Boxes({}, {})
        /\ UNCHANGED <<call, hook, snapshot, seen, history>>
    BY <1>9, AcknowledgeIs
  <2>2. QED BY <2>1 DEF ToldInv, Honest, Heard, Boxes, history
<1>10. CASE AckWrite
  <2>1. /\ worker.step = "write" /\ worker'.id = worker.id /\ Boxes({}, {})
        /\ UNCHANGED <<call, hook, snapshot, seen, history>>
    BY <1>10, AckWriteIs
  <2>2. QED BY <2>1 DEF ToldInv, Honest, Heard, Boxes, history
<1>11. CASE AckSettle
  <2>1. /\ worker'.step = "idle"
        /\ UNCHANGED <<request, call>> \/ Settles(worker.id, "notified")
        /\ UNCHANGED <<engine, legacy, hook, snapshot, seen, history>>
    BY <1>11, AckSettleIs
  <2>2. UNCHANGED Heard /\ worker.id \in Heard
    BY <1>11, <2>1 DEF Heard, ToldInv, AckSettle, history
  <2>3. \A g \in Handler : Honest(g)'  BY <2>1, <2>2, SettlesIsHonest
  <2>4. QED BY <2>1, <2>2, <2>3 DEF ToldInv, engine, history
<1>12. CASE BreakLock
  <2>1. UNCHANGED <<engine, legacy, call, hook, worker, snapshot, seen, history>>
    BY <1>12, BreakLockIs
  <2>2. QED BY <2>1 DEF ToldInv, Honest, Heard, engine, history
<1>13. QED
  BY <1>1, <1>2, <1>3, <1>4, <1>5, <1>6, <1>7, <1>8, <1>9, <1>10, <1>11, <1>12
     DEF MonitorStep, HookStep, WorkerStep

LEMMA NextKeepsTold == BaseInv /\ ToldInv /\ [Next]_vars => ToldInv'
<1> SUFFICES ASSUME BaseInv, ToldInv, [Next]_vars  PROVE ToldInv'
  OBVIOUS
<1>1. CASE UNCHANGED vars
  BY <1>1 DEF ToldInv, Honest, Heard, vars, engine, history
<1>2. CASE Next
  BY <1>2, NextIs, SendersStayHonest, HandlersStayHonest, OthersStayHonest
<1>3. QED BY <1>1, <1>2

\* What counts as notified, by a mark or in the monitor's snapshot, was typed
\* into the worker's pane or read by the worker: a mark follows a typing, the
\* hook's report of one, or an acknowledgement, whoever is killed in between.
THEOREM NotifiedAreTold == Spec => []NotifiedWasTold
<1>1. ToldInv => NotifiedWasTold  BY DEF ToldInv, NotifiedWasTold, Heard
<1>2. QED BY <1>1, InitToldInv, NextKeepsTold, BaseIsKept, PTL DEF Spec

-----------------------------------------------------------------------------
(* TypedOnce.                                                              *)

\* Handler h has message i in hand, and has not asked for it to be typed; or
\* it has.
Early(h, i) ==
  \/ i \in call[h].todo
  \/ call[h].id = i /\ call[h].step \in {"create", "shadow", "queue"}

Past(h, i) ==
  call[h].id = i /\ call[h].step \in {"wait", "type", "mark", "write", "settle"}

Waiting(h, i) == call[h].id = i /\ call[h].step \in {"wait", "type"}

\* The hook, or a handler, has typed it and is yet to say so.
Typing(i) == hook.id = i /\ hook.did

Telling(i) == \E h \in Handler : call[h].told /\ call[h].id = i

\* The monitor has no reason to take it in hand.
Recorded(i) ==
  \/ i \in View.notified \/ i \notin Pending(View)
  \/ i \in snapshot /\ At(Monitor, "idle")
  \/ i \in call[Monitor].next

\* One handler has it in hand, and as long as it waits only the hook types; what
\* was typed is about to be recorded, or is.
Plain(i) ==
  /\ \A g, h \in Handler : i \in InHand(g) /\ i \in InHand(h) => g = h
  /\ \A h \in Handler : Early(h, i) => i \notin typed \cup View.notified
  /\ \A h \in Handler :
       Past(h, i) /\ i \in request => call[h].receipt = "pending"
  /\ \A h \in Handler : Waiting(h, i) /\ call[h].receipt # "notified" =>
       i \notin View.notified /\ (i \in typed => Typing(i))
  /\ i \in typed => Typing(i) \/ Telling(i) \/ Recorded(i)
  /\ i \in typed /\ i \in request => Typing(i) \/ Telling(i)
  /\ i \in request /\ i \in View.notified => Telling(i)

\* A number that no message has yet is nowhere.
Unused(i) ==
  /\ \A h \in Handler : i \notin InHand(h)
  /\ i \notin request \cup typed \cup log.known \cup legacy.known

OnceInv ==
  /\ again = {}
  /\ \A i \in Id : i \notin excused => Plain(i)
  /\ \A i \in Id : body[i] = Nobody => Unused(i)

LEMMA InitOnceInv == Init => OnceInv
<1> SUFFICES ASSUME Init  PROVE OnceInv
  OBVIOUS
<1>1. /\ \A h \in Handler : Fields(call[h], "idle", 0, "none", FALSE, {}, {})
      /\ View.notified = {} /\ log.known = {} /\ legacy.known = {}
  BY NoCallIs DEF Init, View, Empty
<1>2. 0 \notin Id  BY DEF Id
<1>3. \A i \in Id : Plain(i)
  BY <1>1, <1>2 DEF Init, Plain, Early, Past, Waiting, InHand, Fields
<1>4. \A i \in Id : Unused(i)
  BY <1>1, <1>2 DEF Init, Unused, InHand, Fields
<1>5. QED BY <1>3, <1>4 DEF Init, OnceInv

LEMMA HandIs ==
  ASSUME BaseInv, NEW h \in Handler, NEW i \in Id
  PROVE  /\ i \in InHand(h) <=> Early(h, i) \/ Past(h, i)
         /\ ~(Early(h, i) /\ Past(h, i))
         /\ call[h].told /\ call[h].id = i => Past(h, i) /\ ~Waiting(h, i)
<1>1. Orderly(h) /\ call[h].step \in Step /\ 0 \notin Id
  BY CallOf DEF BaseInv, Id
<1>2. QED BY <1>1 DEF InHand, Early, Past, Waiting, Orderly, Step

\* What a step of another message leaves as it is.
SameHands(i) ==
  \A g \in Handler :
    /\ (i \in InHand(g))' => i \in InHand(g)
    /\ Early(g, i)' => Early(g, i)
    /\ Past(g, i)' => Past(g, i) /\ call'[g].receipt = call[g].receipt
    /\ Waiting(g, i)' => Waiting(g, i)
    /\ call[g].told /\ call[g].id = i => call'[g].told /\ call'[g].id = i

LEMMA SteadyIsPlain ==
  ASSUME NEW i \in Id, Plain(i), SameHands(i),
         i \in request' => i \in request, Typing(i) => Typing(i)',
         i \in typed' <=> i \in typed,
         i \in (View.notified)' => i \in View.notified,
         i \in typed /\ Recorded(i) => Recorded(i)'
  PROVE  Plain(i)'
<1>1. Telling(i) => Telling(i)'  BY DEF Telling, SameHands
<1>2. \A h \in Handler : Early(h, i)' => i \notin (typed \cup View.notified)'
  BY DEF Plain, SameHands
<1>3. \A g, h \in Handler : (i \in InHand(g))' /\ (i \in InHand(h))' => g = h
  BY DEF Plain, SameHands
<1>4. \A h \in Handler :
        Past(h, i)' /\ i \in request' => call'[h].receipt = "pending"
  BY DEF Plain, SameHands
<1>5. \A h \in Handler : Waiting(h, i)' /\ call'[h].receipt # "notified" =>
        i \notin (View.notified)' /\ (i \in typed' => Typing(i)')
  <2> SUFFICES ASSUME NEW h \in Handler, Waiting(h, i)',
                      call'[h].receipt # "notified"
               PROVE  i \notin (View.notified)' /\ (i \in typed' => Typing(i)')
    OBVIOUS
  <2>1. Past(h, i)'  BY DEF Waiting, Past
  <2>2. Waiting(h, i) /\ call[h].receipt # "notified"  BY <2>1 DEF SameHands
  <2>3. QED BY <2>2 DEF Plain
<1>6. /\ i \in typed' => Typing(i)' \/ Telling(i)' \/ Recorded(i)'
      /\ i \in typed' /\ i \in request' => Typing(i)' \/ Telling(i)'
      /\ i \in request' /\ i \in (View.notified)' => Telling(i)'
  BY <1>1 DEF Plain
<1>7. QED BY <1>2, <1>3, <1>4, <1>5, <1>6 DEF Plain

LEMMA SameCallsAreSameHands ==
  ASSUME NEW i \in Id, UNCHANGED call
  PROVE  SameHands(i)
BY DEF SameHands, InHand, Early, Past, Waiting

LEMMA OtherGoesAreSameHands ==
  ASSUME NEW i \in Id, NEW h \in Handler, call[h].id # i, call'[h].id # i,
         i \in call'[h].todo => i \in call[h].todo,
         \A g \in Handler \ {h} :
           \/ call'[g] = call[g]
           \/ \E m, status : m # i /\ Tells(g, m, status)
  PROVE  SameHands(i)
<1>1. ASSUME NEW g \in Handler \ {h}, call'[g] = call[g]
      PROVE  /\ (i \in InHand(g))' => i \in InHand(g)
             /\ Early(g, i)' => Early(g, i)
             /\ Past(g, i)' => Past(g, i) /\ call'[g].receipt = call[g].receipt
             /\ Waiting(g, i)' => Waiting(g, i)
             /\ call[g].told /\ call[g].id = i => call'[g].told /\ call'[g].id = i
  BY <1>1 DEF InHand, Early, Past, Waiting
<1>2. ASSUME NEW g \in Handler \ {h}, NEW m, NEW status, m # i,
             Tells(g, m, status)
      PROVE  /\ (i \in InHand(g))' => i \in InHand(g)
             /\ Early(g, i)' => Early(g, i)
             /\ Past(g, i)' => Past(g, i) /\ call'[g].receipt = call[g].receipt
             /\ Waiting(g, i)' => Waiting(g, i)
             /\ call[g].told /\ call[g].id = i => call'[g].told /\ call'[g].id = i
  BY <1>2 DEF Tells, InHand, Early, Past, Waiting
<1>3. /\ (i \in InHand(h))' => i \in InHand(h)
      /\ Early(h, i)' => Early(h, i)
      /\ ~(Past(h, i)') /\ ~(Waiting(h, i)')
  BY DEF InHand, Early, Past, Waiting
<1>4. QED BY <1>1, <1>2, <1>3 DEF SameHands

LEMMA OtherSettlesAreSameHands ==
  ASSUME NEW i \in Id, NEW m, NEW status, m # i,
         UNCHANGED <<request, call>> \/ Settles(m, status)
  PROVE  SameHands(i)
<1>1. CASE UNCHANGED <<request, call>>  BY <1>1, SameCallsAreSameHands
<1>2. CASE Settles(m, status)
  BY <1>2 DEF Settles, SameHands, Tells, InHand, Early, Past, Waiting
<1>3. QED BY <1>1, <1>2

LEMMA BoxesKeepRecorded ==
  ASSUME BaseInv, NEW i \in Id, NEW new, NEW marks, Boxes(new, marks),
         i \notin new, UNCHANGED snapshot,
         At(Monitor, "idle") => At(Monitor, "idle")',
         i \in call[Monitor].next => i \in call'[Monitor].next,
         Recorded(i)
  PROVE  Recorded(i)'
BY DEF Recorded, Boxes

LEMMA SendersKeepPlain ==
  ASSUME BaseInv, OnceInv, NEW p \in Sender, SenderStep(p), NEW i \in Id,
         i \notin excused'
  PROVE  Plain(i)'
<1>0. /\ p \in Handler /\ p # Monitor /\ Boxed /\ 0 \notin Id
  BY HandlerIs, ConstantAssumption DEF BaseInv, Id
<1>1. ASSUME NEW b \in Body, Send(p, b)  PROVE Plain(i)'
  <2>1. /\ call[p].step = "idle"
        /\ UNCHANGED <<engine, legacy, request, hook, snapshot, history>>
    BY <1>1, SendIs
  <2>2. PICK m \in Id :
          /\ body[m] = Nobody /\ Goes(p, "create", m, "none", FALSE, {}, {})
    BY <1>1, SendIs
  <2>3. Plain(i)  BY <2>1 DEF OnceInv, history
  <2>4. call[p].id = 0 /\ call[p].todo = {}  BY <1>0, <2>1 DEF BaseInv, Orderly
  <2>5. CASE i = m
    <3>1. Unused(i)  BY <2>2, <2>5 DEF OnceInv
    <3>2. \A g \in Handler \ {p} : i \notin (InHand(g))'
      BY <2>2, <3>1 DEF Goes, Unused, InHand
    <3>3. \A g \in Handler \ {p} : ~Early(g, i)' /\ ~Past(g, i)'
      BY <3>2 DEF InHand, Early, Past
    <3>4. ~Past(p, i)' /\ \A g \in Handler : ~Waiting(g, i)'
      BY <2>2, <3>3 DEF Goes, Fields, Past, Waiting
    <3>5. i \notin (request \cup typed)' /\ i \notin (View.notified)'
      <4>1. View.notified \subseteq log.known \cup legacy.known
        BY <1>0 DEF Boxed, View
      <4>2. View' = View  BY <2>1 DEF View, engine
      <4>3. QED BY <2>1, <3>1, <4>1, <4>2 DEF Unused, history
    <3>6. QED BY <3>2, <3>3, <3>4, <3>5 DEF Plain
  <2>6. CASE i # m
    <3>1. SameHands(i)
      BY <1>0, <2>2, <2>4, <2>6, OtherGoesAreSameHands DEF Goes, Fields
    <3>2. UNCHANGED <<View, typed, request>> /\ (Typing(i) <=> Typing(i)')
      BY <2>1 DEF View, engine, history, Typing
    <3>3. UNCHANGED call[Monitor]  BY <1>0, <2>2, HandlerIs DEF Goes
    <3>4. Recorded(i) => Recorded(i)'
      BY <2>1, <3>2, <3>3 DEF Recorded, Pending, At
    <3>5. QED BY <2>3, <3>1, <3>2, <3>4, SteadyIsPlain
  <2>7. QED BY <2>5, <2>6
<1>2. ASSUME NEW b \in Body, Resend(p, b)  PROVE Plain(i)'
  <2>1. /\ call[p].step = "idle"
        /\ UNCHANGED <<engine, legacy, request, hook, snapshot, typed>>
    BY <1>2, ResendIs
  <2>2. call[p].id = 0 /\ call[p].todo = {}  BY <1>0, <2>1 DEF BaseInv, Orderly
  <2>3. Plain(i) /\ SameHands(i) /\ UNCHANGED call[Monitor]
    <3>1. CASE UNCHANGED <<call, excused>>
      BY <3>1, SameCallsAreSameHands DEF OnceInv
    <3>2. ASSUME NEW m \in Undelivered, excused \cup {m} = excused',
                 Goes(p, "queue", m, "none", FALSE, {}, {})
          PROVE  Plain(i) /\ SameHands(i) /\ UNCHANGED call[Monitor]
      <4>1. i # m /\ Plain(i)  BY <3>2 DEF OnceInv
      <4>2. SameHands(i)
        BY <1>0, <2>2, <3>2, <4>1, OtherGoesAreSameHands DEF Goes, Fields
      <4>3. QED BY <1>0, <3>2, <4>1, <4>2, HandlerIs DEF Goes
    <3>3. QED BY <1>2, <3>1, <3>2, ResendIs
  <2>4. UNCHANGED <<View, typed, request>> /\ (Typing(i) <=> Typing(i)')
    BY <2>1 DEF View, engine, Typing
  <2>5. Recorded(i) => Recorded(i)'
    BY <2>1, <2>3, <2>4 DEF Recorded, Pending, At
  <2>6. QED BY <2>3, <2>4, <2>5, SteadyIsPlain
<1>3. CASE Create(p) \/ Shadow(p)
  <2>1. /\ call[p].step \in {"create", "shadow"} /\ call[p].id \in Id
        /\ Boxes({call[p].id}, {})
        /\ UNCHANGED <<request, hook, snapshot, history>>
    BY <1>3, CreateIs, ShadowIs
  <2>2. PICK step \in {"shadow", "queue"} :
          Goes(p, step, call[p].id, "none", FALSE, {}, {})
    BY <1>3, CreateIs, ShadowIs
  <2>3. Plain(i)  BY <2>1 DEF OnceInv, history
  <2>4. call[p].todo = {} /\ ~call[p].told
    BY <1>0, <2>1, CallOf DEF BaseInv, Orderly
  <2>5. SameHands(i)
    <3>1. /\ (i \in InHand(p))' => i \in InHand(p)
          /\ Early(p, i)' => Early(p, i)
          /\ ~(Past(p, i)') /\ ~(Waiting(p, i)') /\ ~call[p].told
      BY <2>1, <2>2, <2>4 DEF Goes, Fields, InHand, Early, Past, Waiting
    <3>2. \A g \in Handler \ {p} : call'[g] = call[g]  BY <2>2 DEF Goes
    <3>3. QED BY <3>1, <3>2 DEF SameHands, InHand, Early, Past, Waiting
  <2>6. call'[Monitor] = call[Monitor]  BY <1>0, <2>2, HandlerIs DEF Goes
  <2>7. i \in typed /\ Recorded(i) => Recorded(i)'
    <3>1. CASE i = call[p].id
      BY <1>0, <2>1, <2>3, <3>1 DEF Plain, Early
    <3>2. CASE i # call[p].id
      BY <2>1, <2>6, <3>2, BoxesKeepRecorded DEF At
    <3>3. QED BY <3>1, <3>2
  <2>8. /\ i \in (View.notified)' => i \in View.notified
        /\ UNCHANGED <<typed, request>> /\ (Typing(i) <=> Typing(i)')
    BY <2>1 DEF Boxes, history, Typing
  <2>9. QED BY <2>3, <2>5, <2>7, <2>8, SteadyIsPlain
<1>4. QED BY <1>1, <1>2, <1>3 DEF SenderStep

\* A handler that goes on with the only message it has in hand.
LEMMA QueueKeepsPlain ==
  ASSUME BaseInv, OnceInv, NEW h \in Handler, Queue(h), NEW i \in Id,
         i \notin excused'
  PROVE  Plain(i)'
<1>1. /\ call[h].step = "queue" /\ call[h].id \in Id
      /\ Advances(h, "wait", "pending", FALSE)
      /\ request' = request \cup {call[h].id} /\ Boxes({}, {})
      /\ UNCHANGED <<hook, snapshot, history>>
  BY QueueIs
<1>2. Plain(i) /\ Orderly(h)  BY <1>1 DEF OnceInv, history, BaseInv
<1>3. /\ i \in (View.notified)' => i \in View.notified
      /\ UNCHANGED typed /\ (Typing(i) <=> Typing(i)')
  BY <1>1 DEF Boxes, history, Typing
<1>4. Recorded(i) => Recorded(i)'
  <2>1. At(Monitor, "idle") => At(Monitor, "idle")'
    BY <1>1, HandlerIs DEF Advances, Goes, Fields, At
  <2>2. i \in call[Monitor].next => i \in call'[Monitor].next
    BY <1>1, HandlerIs DEF Advances, Goes, Fields
  <2>3. QED BY <1>1, <2>1, <2>2, BoxesKeepRecorded
<1>5. CASE i # call[h].id
  <2>1. SameHands(i)
    BY <1>1, <1>5, OtherGoesAreSameHands DEF Advances, Goes, Fields
  <2>2. QED BY <1>1, <1>2, <1>3, <1>4, <1>5, <2>1, SteadyIsPlain
<1>6. CASE i = call[h].id
  <2>1. i \notin typed \cup View.notified /\ i \notin call[h].todo
    BY <1>1, <1>2, <1>6 DEF Plain, Early, Orderly
  <2>2. \A g \in Handler \ {h} : call'[g] = call[g] /\ i \notin InHand(g)
    BY <1>1, <1>2, <1>6 DEF Advances, Goes, Plain, InHand
  <2>3. \A g \in Handler \ {h} :
          i \notin (InHand(g))' /\ ~Early(g, i)' /\ ~Past(g, i)'
          /\ ~Waiting(g, i)'
    BY <2>2 DEF InHand, Early, Past, Waiting
  <2>4. ~Early(h, i)' /\ call'[h].receipt = "pending"
    BY <1>1, <1>6, <2>1 DEF Advances, Goes, Fields, Early
  <2>5. i \notin typed' /\ i \notin (View.notified)'  BY <1>3, <2>1
  <2>6. QED BY <2>3, <2>4, <2>5 DEF Plain
<1>7. QED BY <1>5, <1>6

\* What the handlers do alike: only h moves, with its message still in hand.
Moves(h) ==
  /\ \A g \in Handler \ {h} : call'[g] = call[g]
  /\ call[h].step \notin {"idle", "next"} /\ call'[h].step # "idle"
  /\ call'[h].id = call[h].id /\ call'[h].todo = call[h].todo
  /\ call'[h].next = call[h].next

LEMMA MovesAlone ==
  ASSUME BaseInv, NEW h \in Handler, Moves(h), UNCHANGED snapshot,
         NEW marks, Boxes({}, marks), NEW i \in Id, Plain(i)
  PROVE  /\ call[h].id # i => SameHands(i)
         /\ Recorded(i) => Recorded(i)'
         /\ call[h].id = i =>
              /\ i \notin call[h].todo /\ i \notin call'[h].todo
              /\ \A g \in Handler \ {h} :
                   i \notin InHand(g) /\ call'[g] = call[g]
<1>1. call[h].id # i => SameHands(i)
  BY OtherGoesAreSameHands DEF Moves
<1>2. Recorded(i) => Recorded(i)'
  <2>1. At(Monitor, "idle") => At(Monitor, "idle")'
    BY HandlerIs DEF Moves, At
  <2>2. i \in call[Monitor].next => i \in call'[Monitor].next
    BY HandlerIs DEF Moves
  <2>3. QED BY <2>1, <2>2, BoxesKeepRecorded
<1>3. call[h].id = i =>
        /\ i \notin call[h].todo
        /\ \A g \in Handler \ {h} : i \notin InHand(g)
  BY DEF Plain, BaseInv, Orderly, InHand
<1>4. QED BY <1>1, <1>2, <1>3 DEF Moves

\* Only h has message i in hand.
LEMMA SoloIsPlain ==
  ASSUME NEW h \in Handler, NEW i \in Id,
         \A g \in Handler \ {h} : i \notin InHand(g) /\ call'[g] = call[g],
         call'[h].id = i, i \notin call'[h].todo,
         call'[h].step \in {"wait", "type", "mark", "write", "settle"},
         i \in request' => call'[h].receipt = "pending",
         call'[h].step \in {"wait", "type"} /\ call'[h].receipt # "notified" =>
           i \notin (View.notified)' /\ (i \in typed' => Typing(i)'),
         i \in typed' => Typing(i)' \/ call'[h].told \/ Recorded(i)',
         i \in typed' /\ i \in request' => Typing(i)' \/ call'[h].told,
         i \in request' /\ i \in (View.notified)' => call'[h].told
  PROVE  Plain(i)'
<1>1. \A g \in Handler \ {h} :
        /\ i \notin (InHand(g))' /\ ~(Early(g, i)') /\ ~(Past(g, i)')
        /\ ~(Waiting(g, i)')
  BY DEF InHand, Early, Past, Waiting
<1>2. ~(Early(h, i)') /\ (Waiting(h, i)' => call'[h].step \in {"wait", "type"})
  BY DEF Early, Waiting
<1>3. call'[h].told => Telling(i)'  BY DEF Telling
<1>4. QED BY <1>1, <1>2, <1>3 DEF Plain

\* Nobody has it in hand.
LEMMA FreeIsPlain ==
  ASSUME NEW i \in Id, \A g \in Handler : (i \notin InHand(g))',
         i \in typed' => Typing(i)' \/ Recorded(i)',
         i \in request' =>
           i \notin (View.notified)' /\ (i \in typed' => Typing(i)')
  PROVE  Plain(i)'
<1>1. \A g \in Handler :
        ~(Early(g, i)') /\ ~(Past(g, i)') /\ ~(Waiting(g, i)')
  BY DEF InHand, Early, Past, Waiting
<1>2. QED BY <1>1 DEF Plain

\* A message that only h has in hand is told by h or by nobody.
LEMMA SoloTells ==
  ASSUME BaseInv, NEW h \in Handler, NEW i \in Id, i \in InHand(h), Plain(i),
         Telling(i)
  PROVE  call[h].told /\ call[h].id = i
BY DEF Telling, Plain, InHand

LEMMA AdvancesKeepPlain ==
  ASSUME BaseInv, OnceInv, NEW h \in Handler, NEW i \in Id, i \notin excused',
         Receive(h) \/ Fallback(h) \/ Mark(h) \/ WriteMark(h)
  PROVE  Plain(i)'
<1>0. BaseInv /\ Boxed /\ Orderly(h)  BY DEF BaseInv
<1>1. CASE Receive(h)
  <2>1. /\ call[h].step = "wait" /\ call[h].id \in Id
        /\ UNCHANGED <<engine, legacy, request, hook, snapshot, history>>
    BY <1>1, ReceiveIs
  <2>2. PICK step \in {"mark", "type"} :
          /\ Advances(h, step, call[h].receipt, FALSE)
          /\ step = "mark" => call[h].receipt = "notified"
    BY <1>1, ReceiveIs
  <2>3. Plain(i) /\ Boxes({}, {}) /\ ~call[h].told
    BY <1>0, <2>1, SameBoxes, CallOf DEF OnceInv, history, BaseInv, Orderly
  <2>4. /\ call[h].id # i => SameHands(i)
        /\ Recorded(i) => Recorded(i)'
        /\ call[h].id = i =>
             /\ i \notin call[h].todo /\ i \notin call'[h].todo
             /\ \A g \in Handler \ {h} :
                  i \notin InHand(g) /\ call'[g] = call[g]
    <3>1. Moves(h)  BY <2>1, <2>2 DEF Advances, Goes, Fields, Moves
    <3>2. QED BY <2>1, <2>3, <3>1, MovesAlone
  <2>5. /\ call'[h].id = call[h].id /\ call'[h].step = step
        /\ call'[h].receipt = call[h].receipt /\ call'[h].told = FALSE
    BY <2>1, <2>2 DEF Advances, Goes, Fields
  <2>6. UNCHANGED <<View, request, typed>> /\ (Typing(i) <=> Typing(i)')
    BY <2>1 DEF View, engine, history, Typing
  <2>7. CASE call[h].id # i
    BY <2>3, <2>4, <2>6, <2>7, SteadyIsPlain
  <2>8. CASE call[h].id = i
    <3>1. ~Telling(i)
      BY <2>3, <2>8, SoloTells DEF InHand
    <3>2. Waiting(h, i) /\ Past(h, i)  BY <2>1, <2>8 DEF Waiting, Past
    <3>3. /\ i \in request => call[h].receipt = "pending"
          /\ call[h].receipt # "notified" =>
               i \notin View.notified /\ (i \in typed => Typing(i))
          /\ i \in typed => Typing(i) \/ Recorded(i)
          /\ i \in typed /\ i \in request => Typing(i)
          /\ ~(i \in request /\ i \in View.notified)
      BY <2>3, <3>1, <3>2 DEF Plain
    <3>4. QED BY <2>2, <2>4, <2>6, <2>8, <2>5, <3>3, SoloIsPlain
  <2>9. QED BY <2>7, <2>8
<1>2. CASE Fallback(h)
  <2>1. /\ call[h].step = "type" /\ call[h].id \in Id
        /\ Advances(h, "mark", call[h].receipt, TRUE)
        /\ Type(call[h].id, IF Late(h) THEN {call[h].id} ELSE {})
        /\ UNCHANGED <<engine, legacy, request, hook, snapshot>>
    BY <1>2, FallbackIs
  <2>2. /\ typed' = typed \cup {call[h].id}
        /\ excused' = excused \cup IF Late(h) THEN {call[h].id} ELSE {}
    BY <2>1 DEF Type
  <2>3. Plain(i) /\ Boxes({}, {})
    BY <1>0, <2>1, <2>2, SameBoxes DEF OnceInv
  <2>4. /\ call[h].id # i => SameHands(i)
        /\ Recorded(i) => Recorded(i)'
        /\ call[h].id = i =>
             /\ i \notin call[h].todo /\ i \notin call'[h].todo
             /\ \A g \in Handler \ {h} :
                  i \notin InHand(g) /\ call'[g] = call[g]
    <3>1. Moves(h)  BY <2>1 DEF Advances, Goes, Fields, Moves
    <3>2. QED BY <2>1, <2>3, <3>1, MovesAlone
  <2>5. /\ call'[h].id = call[h].id /\ call'[h].step = "mark"
        /\ call'[h].receipt = call[h].receipt /\ call'[h].told = TRUE
    BY <2>1 DEF Advances, Goes, Fields
  <2>6. UNCHANGED <<View, request>> /\ (Typing(i) <=> Typing(i)')
    BY <2>1 DEF View, engine, Typing
  <2>7. CASE call[h].id # i
    BY <2>2, <2>3, <2>4, <2>6, <2>7, SteadyIsPlain
  <2>8. CASE call[h].id = i
    <3>1. Past(h, i)  BY <2>1, <2>8 DEF Past
    <3>2. i \in request => call[h].receipt = "pending"
      BY <2>3, <3>1 DEF Plain
    <3>3. QED BY <2>4, <2>6, <2>8, <2>5, <3>2, SoloIsPlain
  <2>9. QED BY <2>7, <2>8
<1>3. CASE Mark(h) \/ WriteMark(h)
  <2>1. /\ call[h].step \in {"mark", "write"} /\ call[h].id \in Id
        /\ Boxes({}, {call[h].id})
        /\ UNCHANGED <<request, hook, snapshot, history>>
    BY <1>3, MarkIs, WriteMarkIs
  <2>2. PICK step \in {"write", "settle"} :
          Advances(h, step, call[h].receipt, call[h].told)
    BY <1>3, MarkIs, WriteMarkIs
  <2>3. Plain(i)  BY <2>1 DEF OnceInv, history
  <2>4. /\ call[h].id # i => SameHands(i)
        /\ Recorded(i) => Recorded(i)'
        /\ call[h].id = i =>
             /\ i \notin call[h].todo /\ i \notin call'[h].todo
             /\ \A g \in Handler \ {h} :
                  i \notin InHand(g) /\ call'[g] = call[g]
    <3>1. Moves(h)  BY <2>1, <2>2 DEF Advances, Goes, Fields, Moves
    <3>2. QED BY <2>1, <2>3, <3>1, MovesAlone
  <2>5. /\ call'[h].id = call[h].id /\ call'[h].step = step
        /\ call'[h].receipt = call[h].receipt /\ call'[h].told = call[h].told
    BY <2>1, <2>2 DEF Advances, Goes, Fields
  <2>6. UNCHANGED <<request, typed>> /\ (Typing(i) <=> Typing(i)')
    BY <2>1 DEF history, Typing
  <2>7. CASE call[h].id # i
    <3>1. i \in (View.notified)' => i \in View.notified
      BY <2>1, <2>7 DEF Boxes
    <3>2. QED BY <2>3, <2>4, <2>6, <2>7, <3>1, SteadyIsPlain
  <2>8. CASE call[h].id = i
    <3>1. Telling(i) => call[h].told
      BY <2>3, <2>8, SoloTells DEF InHand
    <3>2. Past(h, i)  BY <2>1, <2>8 DEF Past
    <3>3. i \in request => call[h].receipt = "pending"
      BY <2>3, <3>2 DEF Plain
    <3>4. i \in request => call[h].told
      BY <1>0, <2>1, <3>3 DEF Orderly
    <3>5. i \in typed => Typing(i) \/ call[h].told \/ Recorded(i)
      BY <2>3, <3>1 DEF Plain
    <3>6. QED BY <2>2, <2>4, <2>6, <2>8, <2>5, <3>3, <3>4, <3>5, SoloIsPlain
  <2>9. QED BY <2>7, <2>8
<1>4. QED BY <1>1, <1>2, <1>3

\* The end of what a handler does for a message: it has no other in hand than
\* before, and what it tells of the message is known to the monitor.
LEMMA EndsKeepPlain ==
  ASSUME BaseInv, OnceInv, NEW h \in Handler, NEW i \in Id, i \notin excused',
         FallbackFails(h) \/ Settle(h)
  PROVE  Plain(i)'
<1>1. /\ call[h].step \in {"type", "settle"} /\ call[h].id \in Id
      /\ UNCHANGED <<engine, legacy, hook, snapshot, typed>>
      /\ excused \subseteq excused'
  BY FallbackFailsIs, SettleIs DEF history
<1>2. PICK ok \in BOOLEAN, status \in {"notified", "none"} :
        Ends(h, ok, status) /\ (Settle(h) => ok = TRUE)
  <2>1. CASE Settle(h)
    <3>1. Ends(h, TRUE, "notified")  BY <2>1, SettleIs
    <3>2. QED BY <2>1, <3>1
  <2>2. CASE ~Settle(h)
    <3>1. Ends(h, FALSE, "none")  BY <2>2, FallbackFailsIs
    <3>2. QED BY <2>2, <3>1
  <2>3. QED BY <2>1, <2>2
<1>3. /\ Plain(i) /\ Orderly(h) /\ Boxes({}, {}) /\ 0 \notin Id
      /\ call[h].todo \subseteq Id
  BY <1>1, SameBoxes, CallOf DEF OnceInv, BaseInv, Id
<1>4. /\ call'[h].id = 0
      /\ i \in call'[h].todo => i \in call[h].todo
      /\ \A g \in Handler \ {h} :
           call'[g] = call[g] \/ Tells(g, call[h].id, status)
  BY <1>2 DEF Ends, Fields
<1>5. UNCHANGED View /\ (Typing(i) <=> Typing(i)')
  BY <1>1 DEF View, engine, Typing
<1>6. Recorded(i) => Recorded(i)'
  <2>1. At(Monitor, "idle") => At(Monitor, "idle")'
    BY <1>1, <1>4, HandlerIs DEF At, Tells
  <2>2. i \in call[Monitor].next => i \in call'[Monitor].next
    BY <1>2, <1>4, HandlerIs DEF Ends, Fields, Tells
  <2>3. QED BY <1>1, <1>3, <2>1, <2>2, BoxesKeepRecorded
<1>7. CASE call[h].id # i
  <2>1. SameHands(i)
    BY <1>1, <1>3, <1>4, <1>7, OtherGoesAreSameHands
  <2>2. i \in request' => i \in request  BY <1>2 DEF Ends
  <2>3. QED BY <1>1, <1>3, <1>5, <1>6, <2>1, <2>2, SteadyIsPlain
<1>8. CASE call[h].id = i
  <2>1. \A g \in Handler : (i \notin InHand(g))'
    <3>1. i \notin (InHand(h))'
      BY <1>3, <1>4, <1>8 DEF InHand, Orderly
    <3>2. \A g \in Handler \ {h} : i \notin InHand(g)
      BY <1>3, <1>8 DEF Plain, InHand
    <3>3. \A g \in Handler \ {h} : (i \notin InHand(g))'
      BY <1>4, <3>2 DEF InHand, Tells
    <3>4. QED BY <3>1, <3>3
  <2>2. i \in request => call[h].receipt = "pending"
    BY <1>1, <1>3, <1>8 DEF Plain, Past
  <2>3. i \notin request'  BY <1>2, <1>8, <2>2 DEF Ends
  <2>4. i \in typed => Typing(i) \/ Recorded(i) \/ call[h].told
    BY <1>3, <1>8, SoloTells DEF Plain, InHand
  <2>5. call[h].told => Recorded(i)'
    <3>1. call[h].told => Settle(h)
      BY <1>1, <1>3, FallbackFailsIs DEF Orderly
    <3>2. ASSUME Settle(h)  PROVE Recorded(i)'
      <4>1. h = Monitor \/ i \in View.notified
        BY <1>8, <3>2, SettleIs
      <4>2. CASE h = Monitor
        <5>1. i \in call'[Monitor].next
          BY <1>2, <1>8, <3>2, <4>2 DEF Ends, Fields
        <5>2. QED BY <5>1 DEF Recorded
      <4>3. CASE i \in View.notified
        BY <1>5, <4>3 DEF Recorded
      <4>4. QED BY <4>1, <4>2, <4>3
    <3>3. QED BY <3>1, <3>2
  <2>6. i \in typed' => Typing(i)' \/ Recorded(i)'
    BY <1>1, <1>5, <1>6, <2>4, <2>5
  <2>7. QED BY <2>1, <2>3, <2>6, FreeIsPlain
<1>9. QED BY <1>7, <1>8

LEMMA KillKeepsPlain ==
  ASSUME BaseInv, OnceInv, NEW h \in Handler, NEW i \in Id, i \notin excused',
         Kill(h)
  PROVE  Plain(i)'
<1>1. /\ Goes(h, "idle", 0, "none", FALSE, {}, {})
      /\ excused' = excused \cup (call[h].next \ (View.notified \cup snapshot))
                            \cup IF call[h].told THEN {call[h].id} ELSE {}
      /\ UNCHANGED <<engine, legacy, request, hook, snapshot, typed>>
  BY KillIs
<1>2. /\ Plain(i) /\ Boxes({}, {}) /\ 0 \notin Id
      /\ i \in call[h].next => i \in View.notified \cup snapshot
      /\ ~(call[h].told /\ call[h].id = i)
  BY <1>1, SameBoxes DEF OnceInv, BaseInv, Id
<1>3. /\ \A g \in Handler \ {h} : call'[g] = call[g]
      /\ call'[h].id = 0 /\ call'[h].todo = {} /\ call'[h].step = "idle"
  BY <1>1 DEF Goes, Fields
<1>4. UNCHANGED View /\ (Typing(i) <=> Typing(i)')
  BY <1>1 DEF View, engine, Typing
<1>5. Recorded(i) => Recorded(i)'
  <2>1. At(Monitor, "idle") => At(Monitor, "idle")'
    BY <1>3, HandlerIs DEF At
  <2>2. CASE i \in call[Monitor].next /\ h = Monitor
    BY <1>1, <1>2, <1>3, <1>4, <2>2 DEF Recorded, At
  <2>3. CASE ~(i \in call[Monitor].next /\ h = Monitor)
    <3>1. i \in call[Monitor].next => i \in call'[Monitor].next
      BY <1>3, <2>3, HandlerIs
    <3>2. QED BY <1>1, <1>2, <2>1, <3>1, BoxesKeepRecorded
  <2>4. QED BY <2>2, <2>3
<1>6. CASE i \notin InHand(h)
  <2>1. SameHands(i)
    BY <1>2, <1>3, <1>6, OtherGoesAreSameHands DEF InHand
  <2>2. QED BY <1>1, <1>2, <1>4, <1>5, <2>1, SteadyIsPlain
<1>7. CASE i \in InHand(h)
  <2>1. \A g \in Handler : (i \notin InHand(g))'
    <3>1. i \notin (InHand(h))'  BY <1>2, <1>3 DEF InHand
    <3>2. \A g \in Handler \ {h} : (i \notin InHand(g))'
      BY <1>2, <1>3, <1>7 DEF Plain, InHand
    <3>3. QED BY <3>1, <3>2
  <2>2. ~Telling(i)  BY <1>2, <1>7, SoloTells
  <2>3. /\ i \in typed => Typing(i) \/ Recorded(i)
        /\ i \in request => i \notin View.notified /\ (i \in typed => Typing(i))
    BY <1>2, <2>2 DEF Plain
  <2>4. QED BY <1>1, <1>4, <1>5, <2>1, <2>3, FreeIsPlain
<1>8. QED BY <1>6, <1>7

\* The monitor takes in hand what nobody has, and nobody has recorded.
LEMMA MonitorKeepsPlain ==
  ASSUME BaseInv, OnceInv, MonitorStep, NEW i \in Id, i \notin excused'
  PROVE  Plain(i)'
<1>0. Monitor \in Handler /\ Orderly(Monitor) /\ 0 \notin Id /\ Boxed
  BY HandlerIs DEF BaseInv, Id
<1>1. CASE Poll
  <2>1. /\ call[Monitor].step = "idle"
        /\ Goes(Monitor, "next", 0, "none", FALSE, Pending(View) \ Told,
                Pending(View) \cap Told)
        /\ excused \subseteq excused'
        /\ \A m \in (Pending(View) \ Told) \ excused' :
             hook.id # m /\ \A g \in Handler \ {Monitor} : m \notin InHand(g)
        /\ UNCHANGED <<engine, legacy, request, hook, snapshot, typed>>
    BY <1>1, PollIs
  <2>2. Plain(i) /\ Boxes({}, {})  BY <1>0, <2>1, SameBoxes DEF OnceInv
  <2>3. /\ call[Monitor].id = 0 /\ call[Monitor].todo = {}
        /\ call[Monitor].next = {}
    BY <1>0, <2>1 DEF Orderly
  <2>4. /\ \A g \in Handler \ {Monitor} : call'[g] = call[g]
        /\ call'[Monitor].id = 0
        /\ call'[Monitor].todo = Pending(View) \ Told
        /\ call'[Monitor].next = Pending(View) \cap Told
        /\ call'[Monitor].step = "next"
    BY <2>1 DEF Goes, Fields
  <2>5. UNCHANGED View /\ (Typing(i) <=> Typing(i)')
    BY <2>1 DEF View, engine, Typing
  <2>6. CASE i \notin Pending(View) \ Told
    <3>1. SameHands(i)
      BY <1>0, <2>3, <2>4, <2>6, OtherGoesAreSameHands
    <3>2. Recorded(i) => Recorded(i)'
      BY <2>4, <2>5, <2>6 DEF Recorded, Pending
    <3>3. QED BY <2>1, <2>2, <2>5, <3>1, <3>2, SteadyIsPlain
  <2>7. CASE i \in Pending(View) \ Told
    <3>1. hook.id # i /\ \A g \in Handler : i \notin InHand(g)
      BY <1>0, <2>1, <2>3, <2>7 DEF InHand
    <3>2. ~Typing(i) /\ ~Telling(i) /\ ~Recorded(i)
      BY <2>3, <2>7, <3>1 DEF Typing, Telling, Recorded, Told, InHand
    <3>3. i \notin typed \cup View.notified
      BY <2>2, <2>7, <3>2 DEF Plain, Told
    <3>4. \A g \in Handler \ {Monitor} :
            i \notin (InHand(g))' /\ ~(Early(g, i)') /\ ~(Past(g, i)')
            /\ ~(Waiting(g, i)')
      BY <2>4, <3>1 DEF InHand, Early, Past, Waiting
    <3>5. ~(Past(Monitor, i)') /\ ~(Waiting(Monitor, i)')
      BY <1>0, <2>4 DEF Past, Waiting
    <3>6. i \notin typed' /\ i \notin (View.notified)'
      BY <2>1, <2>5, <3>3
    <3>7. QED BY <3>4, <3>5, <3>6 DEF Plain
  <2>8. QED BY <2>6, <2>7
<1>2. ASSUME NEW m \in Id, Take(m)  PROVE Plain(i)'
  <2>1. /\ call[Monitor].step = "next" /\ m \in call[Monitor].todo
        /\ Goes(Monitor, "queue", m, "none", FALSE, call[Monitor].todo \ {m},
                call[Monitor].next)
        /\ UNCHANGED <<engine, legacy, request, hook, snapshot, history>>
    BY <1>2, TakeIs
  <2>2. Plain(i) /\ Boxes({}, {})
    BY <1>0, <2>1, SameBoxes DEF OnceInv, history
  <2>3. /\ \A g \in Handler \ {Monitor} : call'[g] = call[g]
        /\ call'[Monitor].id = m /\ call'[Monitor].step = "queue"
        /\ call'[Monitor].todo = call[Monitor].todo \ {m}
        /\ call'[Monitor].next = call[Monitor].next
    BY <2>1 DEF Goes, Fields
  <2>4. ~call[Monitor].told  BY <1>0, <2>1, CallOf DEF Orderly, BaseInv
  <2>5. SameHands(i)
    <3>1. /\ (i \in InHand(Monitor))' => i \in InHand(Monitor)
          /\ Early(Monitor, i)' => Early(Monitor, i)
          /\ ~(Past(Monitor, i)') /\ ~(Waiting(Monitor, i)')
      BY <2>1, <2>3 DEF InHand, Early, Past, Waiting
    <3>2. QED
      BY <2>3, <2>4, <3>1 DEF SameHands, InHand, Early, Past, Waiting
  <2>6. Recorded(i) => Recorded(i)'
    BY <2>1, <2>2, <2>3, BoxesKeepRecorded DEF At
  <2>7. /\ i \in (View.notified)' => i \in View.notified
        /\ UNCHANGED <<request, typed>> /\ (Typing(i) <=> Typing(i)')
    BY <2>1, <2>2 DEF Boxes, history, Typing
  <2>8. QED BY <2>2, <2>5, <2>6, <2>7, SteadyIsPlain
<1>3. CASE SaveSnapshot
  <2>1. /\ call[Monitor].step = "next" /\ call[Monitor].todo = {}
        /\ snapshot' = call[Monitor].next
        /\ Goes(Monitor, "idle", 0, "none", FALSE, {}, {})
        /\ UNCHANGED <<engine, legacy, request, hook, history>>
    BY <1>3, SaveSnapshotIs
  <2>2. Plain(i)  BY <2>1 DEF OnceInv, history
  <2>3. call[Monitor].id = 0  BY <1>0, <2>1 DEF Orderly
  <2>4. /\ \A g \in Handler \ {Monitor} : call'[g] = call[g]
        /\ call'[Monitor].id = 0 /\ call'[Monitor].step = "idle"
        /\ call'[Monitor].todo = {}
    BY <2>1 DEF Goes, Fields
  <2>5. SameHands(i)
    BY <1>0, <2>3, <2>4, OtherGoesAreSameHands
  <2>6. UNCHANGED <<View, typed, request>> /\ (Typing(i) <=> Typing(i)')
    BY <2>1 DEF View, engine, history, Typing
  <2>7. Recorded(i) => Recorded(i)'
    BY <2>1, <2>4, <2>6 DEF Recorded, Pending, At
  <2>8. QED BY <2>2, <2>5, <2>6, <2>7, SteadyIsPlain
<1>4. QED BY <1>1, <1>2, <1>3 DEF MonitorStep

\* The request for the message is settled.
LEMMA SettledIsPlain ==
  ASSUME NEW i \in Id, Plain(i), NEW status, Settles(i, status),
         \A h \in Handler : Early(h, i) => i \notin typed' /\ i \notin (View.notified)',
         \A h \in Handler : Waiting(h, i) /\ call'[h].receipt # "notified" =>
           i \notin (View.notified)' /\ (i \in typed' => Typing(i)'),
         i \in typed' => Typing(i)' \/ Telling(i) \/ Recorded(i)'
  PROVE  Plain(i)'
<1>1. \A h \in Handler :
        /\ (i \in InHand(h))' <=> i \in InHand(h)
        /\ Early(h, i)' <=> Early(h, i)
        /\ Waiting(h, i)' <=> Waiting(h, i)
        /\ call'[h].told = call[h].told /\ call'[h].id = call[h].id
  BY DEF Settles, Tells, InHand, Early, Waiting
<1>2. i \notin request'  BY DEF Settles
<1>3. Telling(i) => Telling(i)'  BY <1>1 DEF Telling
<1>4. \A g, h \in Handler : (i \in InHand(g))' /\ (i \in InHand(h))' => g = h
  BY <1>1 DEF Plain
<1>5. \A h \in Handler : Early(h, i)' => i \notin (typed \cup View.notified)'
  BY <1>1
<1>6. \A h \in Handler : Waiting(h, i)' /\ call'[h].receipt # "notified" =>
        i \notin (View.notified)' /\ (i \in typed' => Typing(i)')
  BY <1>1
<1>7. QED BY <1>2, <1>3, <1>4, <1>5, <1>6 DEF Plain

LEMMA SettlesKeepMonitor ==
  ASSUME NEW m, NEW status, UNCHANGED <<request, call>> \/ Settles(m, status)
  PROVE  /\ At(Monitor, "idle") => At(Monitor, "idle")'
         /\ call'[Monitor].next = call[Monitor].next
         /\ request' \subseteq request
BY HandlerIs DEF Settles, Tells, At

\* The hook types only what a handler waits for, or nobody has in hand.
LEMMA HookTypeKeepsPlain ==
  ASSUME BaseInv, OnceInv, NEW m \in Id, NEW did \in BOOLEAN, HookType(m, did),
         NEW i \in Id, i \notin excused'
  PROVE  Plain(i)'
<1>1. /\ hook.did = FALSE /\ m \in request /\ hook'.id = m /\ hook'.did = did
      /\ UNCHANGED <<engine, legacy, request, call, snapshot>>
  BY HookTypeIs
<1>2. /\ excused \subseteq excused'
      /\ typed' = IF did THEN typed \cup {m} ELSE typed
      /\ did /\ m \notin excused' =>
           \A h \in Handler : m \in InHand(h) => Waits(h, m)
  <2>1. CASE did
    <3>1. PICK excuse \in SUBSET Id :
            /\ Type(m, excuse)
            /\ \A h \in Handler : m \in InHand(h) /\ ~Waits(h, m) => m \in excuse
      BY <2>1, HookTypeIs
    <3>2. QED BY <2>1, <3>1 DEF Type
  <2>2. CASE ~did
    <3>1. UNCHANGED history  BY <2>2, HookTypeIs
    <3>2. QED BY <2>2, <3>1 DEF history
  <2>3. QED BY <2>1, <2>2
<1>3. Plain(i) /\ UNCHANGED View  BY <1>1, <1>2 DEF OnceInv, View, engine
<1>4. /\ SameHands(i) /\ ~Typing(i)
      /\ Recorded(i) => Recorded(i)'
  <2>1. SameHands(i)  BY <1>1, SameCallsAreSameHands
  <2>2. QED BY <1>1, <1>3, <2>1 DEF Typing, Recorded, At
<1>5. CASE i # m \/ ~did
  BY <1>1, <1>2, <1>3, <1>4, <1>5, SteadyIsPlain
<1>6. CASE i = m /\ did
  <2>1. Typing(i)'  BY <1>1, <1>6 DEF Typing
  <2>2. \A h \in Handler : i \in InHand(h) => Waits(h, i)  BY <1>2, <1>6
  <2>3. \A h \in Handler : ~Early(h, i)
    <3> SUFFICES ASSUME NEW h \in Handler, Early(h, i)  PROVE FALSE
      OBVIOUS
    <3>1. Waits(h, i)  BY <2>2, HandIs
    <3>2. Past(h, i)  BY <3>1 DEF Waits, At, Past
    <3>3. QED BY <3>2, HandIs
  <2>4. \A h \in Handler : /\ InHand(h)' = InHand(h)
                           /\ Early(h, i)' <=> Early(h, i)
                           /\ Past(h, i)' <=> Past(h, i)
                           /\ Waiting(h, i)' <=> Waiting(h, i)
    BY <1>1 DEF InHand, Early, Past, Waiting
  <2>5. Telling(i)' <=> Telling(i)  BY <1>1 DEF Telling
  <2>6. QED BY <1>1, <1>3, <2>1, <2>3, <2>4, <2>5 DEF Plain
<1>7. QED BY <1>5, <1>6

\* What the hook has typed and lets go of is recorded, or excused.
LEMMA HookKeepsPlain ==
  ASSUME BaseInv, ToldInv, OnceInv, HookStep, NEW i \in Id, i \notin excused'
  PROVE  Plain(i)'
<1>1. CASE \E m \in Id, did \in BOOLEAN : HookType(m, did)
  BY <1>1, HookTypeKeepsPlain
<1>2. CASE \/ HookSkip \/ KillHook
           \/ \E retry \in BOOLEAN : HookUnconfirmed(retry)
  <2>1. /\ hook.id \in Id /\ Freed
        /\ excused' = excused \cup Unrecorded
        /\ UNCHANGED <<request, call>> \/ Settles(hook.id, "none")
        /\ UNCHANGED <<engine, legacy, snapshot, typed>>
    BY <1>2, HookSkipIs, KillHookIs, HookUnconfirmedIs
  <2>2. /\ Plain(i) /\ UNCHANGED View
        /\ Typing(i) => i \in View.notified
    BY <2>1 DEF OnceInv, View, engine, Typing, Unrecorded
  <2>3. Recorded(i) => Recorded(i)'
    <3>1. /\ At(Monitor, "idle") => At(Monitor, "idle")'
          /\ call'[Monitor].next = call[Monitor].next
      BY <2>1, SettlesKeepMonitor
    <3>2. QED BY <2>1, <2>2, <3>1 DEF Recorded
  <2>4. CASE ~Typing(i) /\ (UNCHANGED <<request, call>> \/ hook.id # i)
    <3>1. SameHands(i) /\ (i \in request' => i \in request)
      BY <2>1, <2>4, SameCallsAreSameHands, OtherSettlesAreSameHands,
         SettlesKeepMonitor
    <3>2. QED BY <2>1, <2>2, <2>3, <2>4, <3>1, SteadyIsPlain
  <2>5. CASE Typing(i) /\ UNCHANGED <<request, call>>
    <3>1. i \in View.notified  BY <2>2, <2>5
    <3>2. Recorded(i)'  BY <2>2, <3>1 DEF Recorded
    <3>3. i \in request => Telling(i)  BY <2>2, <3>1 DEF Plain
    <3>4. \A h \in Handler : ~(Waiting(h, i) /\ call[h].receipt # "notified")
      BY <2>2, <3>1 DEF Plain
    <3>5. \A h \in Handler : /\ InHand(h)' = InHand(h)
                             /\ Early(h, i)' <=> Early(h, i)
                             /\ Past(h, i)' <=> Past(h, i)
                             /\ Waiting(h, i)' <=> Waiting(h, i)
      BY <2>5 DEF InHand, Early, Past, Waiting
    <3>6. Telling(i)' <=> Telling(i)  BY <2>5 DEF Telling
    <3>7. QED BY <2>1, <2>2, <2>5, <3>2, <3>3, <3>4, <3>5, <3>6 DEF Plain
  <2>6. CASE hook.id = i /\ Settles(i, "none")
    <3>1. \A h \in Handler : Early(h, i) => i \notin typed' /\ i \notin (View.notified)'
      BY <2>1, <2>2 DEF Plain
    <3>2. ASSUME NEW h \in Handler, Waiting(h, i),
                 call'[h].receipt # "notified"
          PROVE  i \notin (View.notified)' /\ (i \in typed' => Typing(i)')
      <4>1. call[h].receipt # "notified"
        BY <2>6, <3>2 DEF Settles, Tells
      <4>2. i \notin View.notified /\ (i \in typed => Typing(i))
        BY <2>2, <3>2, <4>1 DEF Plain
      <4>3. QED BY <2>1, <2>2, <4>2
    <3>3. i \in typed' => Telling(i) \/ Recorded(i)'
      BY <2>1, <2>2, <2>3 DEF Plain, Recorded
    <3>4. QED BY <2>2, <2>6, <3>1, <3>2, <3>3, SettledIsPlain
  <2>7. QED BY <2>1, <2>4, <2>5, <2>6 DEF Typing
<1>3. CASE HookNotified
  <2>1. /\ hook.id \in Id \cap request /\ hook.did /\ Freed
        /\ Settles(hook.id, "notified") /\ Boxes({}, {hook.id})
        /\ excused' = excused \cup IF hook.id \in (View.notified)' THEN {}
                                   ELSE {hook.id}
        /\ UNCHANGED <<snapshot, typed>>
    BY <1>3, HookNotifiedIs
  <2>2. Plain(i)  BY <2>1 DEF OnceInv
  <2>3. CASE hook.id # i
    <3>1. /\ At(Monitor, "idle") => At(Monitor, "idle")'
          /\ call'[Monitor].next = call[Monitor].next
          /\ request' \subseteq request
      BY <2>1, SettlesKeepMonitor
    <3>2. Recorded(i) => Recorded(i)'
      BY <2>1, <3>1, BoxesKeepRecorded
    <3>3. SameHands(i)  BY <2>1, <2>3, OtherSettlesAreSameHands
    <3>4. i \in (View.notified)' => i \in View.notified
      BY <2>1, <2>3 DEF Boxes
    <3>5. QED BY <2>1, <2>2, <2>3, <3>1, <3>2, <3>3, <3>4, SteadyIsPlain DEF Typing
  <2>4. CASE hook.id = i
    <3>1. i \in (View.notified)' /\ i \in typed
      BY <2>1, <2>4 DEF ToldInv
    <3>2. Recorded(i)'  BY <3>1 DEF Recorded
    <3>3. \A h \in Handler : ~Early(h, i)  BY <2>2, <3>1 DEF Plain
    <3>4. ASSUME NEW h \in Handler, Waiting(h, i)
          PROVE  call'[h].receipt = "notified"
      <4>1. Past(h, i)  BY <3>4 DEF Waiting, Past
      <4>2. call[h].receipt = "pending"  BY <2>1, <2>2, <2>4, <4>1 DEF Plain
      <4>3. QED BY <2>1, <2>4, <3>4, <4>2 DEF Settles, Tells, Waiting
    <3>5. QED BY <2>1, <2>2, <2>4, <3>2, <3>3, <3>4, SettledIsPlain
  <2>5. QED BY <2>3, <2>4
<1>4. QED BY <1>1, <1>2, <1>3 DEF HookStep

LEMMA WorkerKeepsPlain ==
  ASSUME BaseInv, OnceInv, WorkerStep, NEW i \in Id, i \notin excused'
  PROVE  Plain(i)'
<1>1. CASE List \/ BreakLock \/ AckWrite \/ \E m \in Id : Acknowledge(m)
  <2>1. /\ Boxes({}, {})
        /\ UNCHANGED <<request, call, hook, snapshot, history>>
    <3>1. CASE List
      BY <3>1, ListIs, SameBoxes DEF BaseInv
    <3>2. CASE BreakLock
      BY <3>2, BreakLockIs, SameBoxes DEF BaseInv
    <3>3. CASE AckWrite
      BY <3>3, AckWriteIs
    <3>4. CASE \E m \in Id : Acknowledge(m)
      BY <3>4, AcknowledgeIs
    <3>5. QED BY <1>1, <3>1, <3>2, <3>3, <3>4
  <2>2. Plain(i) /\ SameHands(i)
    BY <2>1, SameCallsAreSameHands DEF OnceInv, history
  <2>3. Recorded(i) => Recorded(i)'
    BY <2>1, BoxesKeepRecorded DEF At
  <2>4. i \in (View.notified)' => i \in View.notified  BY <2>1 DEF Boxes
  <2>5. UNCHANGED <<request, typed>> /\ (Typing(i) <=> Typing(i)')
    BY <2>1 DEF history, Typing
  <2>6. QED BY <2>2, <2>3, <2>4, <2>5, SteadyIsPlain
<1>2. CASE AckSettle
  <2>1. /\ UNCHANGED <<request, call>> \/ Settles(worker.id, "notified")
        /\ UNCHANGED <<engine, legacy, hook, snapshot, history>>
    BY <1>2, AckSettleIs
  <2>2. /\ Plain(i) /\ UNCHANGED <<View, typed>>
        /\ Typing(i) <=> Typing(i)'
    BY <2>1 DEF OnceInv, View, engine, history, Typing
  <2>3. Recorded(i) => Recorded(i)'
    <3>1. /\ At(Monitor, "idle") => At(Monitor, "idle")'
          /\ call'[Monitor].next = call[Monitor].next
      BY <2>1, SettlesKeepMonitor
    <3>2. QED BY <2>1, <2>2, <3>1 DEF Recorded
  <2>4. CASE UNCHANGED <<request, call>> \/ worker.id # i
    <3>1. SameHands(i) /\ (i \in request' => i \in request)
      BY <2>1, <2>4, SameCallsAreSameHands, OtherSettlesAreSameHands,
         SettlesKeepMonitor
    <3>2. QED BY <2>2, <2>3, <3>1, SteadyIsPlain
  <2>5. CASE worker.id = i /\ Settles(i, "notified")
    <3>1. \A h \in Handler : Early(h, i) => i \notin typed' /\ i \notin (View.notified)'
      BY <2>2 DEF Plain
    <3>2. ASSUME NEW h \in Handler, Waiting(h, i),
                 call'[h].receipt # "notified"
          PROVE  i \notin (View.notified)' /\ (i \in typed' => Typing(i)')
      <4>1. call[h].receipt # "notified"
        BY <2>5, <3>2 DEF Settles, Tells
      <4>2. QED BY <2>2, <3>2, <4>1 DEF Plain
    <3>3. i \in typed' => Typing(i)' \/ Telling(i) \/ Recorded(i)'
      BY <2>2, <2>3 DEF Plain
    <3>4. QED BY <2>2, <2>5, <3>1, <3>2, <3>3, SettledIsPlain
  <2>6. QED BY <2>1, <2>4, <2>5
<1>3. QED BY <1>1, <1>2 DEF WorkerStep

\* Who types a message again had it in hand with another, or comes after a
\* typing that was not recorded.
LEMMA NobodyTypesAgain ==
  ASSUME BaseInv, OnceInv, Next
  PROVE  again' = {}
<1>0. again = {}  BY DEF OnceInv
<1>1. ASSUME NEW h \in Handler, Fallback(h)  PROVE again' = {}
  <2> DEFINE m == call[h].id
  <2>1. /\ call[h].step = "type" /\ m \in Id
        /\ Type(m, IF Late(h) THEN {m} ELSE {})
    BY <1>1, FallbackIs
  <2>2. /\ again' \subseteq IF m \in typed /\ m \notin excused' THEN {m} ELSE {}
        /\ excused' = excused \cup IF Late(h) THEN {m} ELSE {}
    BY <1>0, <2>1, NoteIs DEF BaseInv
  <2>3. ASSUME m \in typed, m \notin excused'  PROVE FALSE
    <3>1. Plain(m) /\ ~Late(h)  BY <2>1, <2>2, <2>3 DEF OnceInv
    <3>2. Waiting(h, m)  BY <2>1 DEF Waiting
    <3>3. call[h].receipt # "notified" /\ ~Typing(m)
      BY <3>1 DEF Late, Typing
    <3>4. QED BY <2>3, <3>1, <3>2, <3>3 DEF Plain
  <2>4. QED BY <2>2, <2>3
<1>2. ASSUME NEW m \in Id, HookType(m, TRUE)  PROVE again' = {}
  <2>1. hook.did = FALSE /\ m \in request  BY <1>2, HookTypeIs
  <2>2. PICK excuse \in SUBSET Id :
          /\ Type(m, excuse)
          /\ \A h \in Handler : m \in InHand(h) /\ ~Waits(h, m) => m \in excuse
    BY <1>2, HookTypeIs
  <2>3. /\ again' \subseteq IF m \in typed /\ m \notin excused' THEN {m} ELSE {}
        /\ excused' = excused \cup excuse
    BY <1>0, <2>2, NoteIs DEF BaseInv
  <2>4. ASSUME m \in typed, m \notin excused'  PROVE FALSE
    <3>1. Plain(m)  BY <2>3, <2>4 DEF OnceInv
    <3>2. Telling(m)  BY <2>1, <2>4, <3>1 DEF Plain, Typing
    <3>3. PICK h \in Handler : call[h].told /\ call[h].id = m
      BY <3>2 DEF Telling
    <3>4. m \in InHand(h) /\ ~Waits(h, m)
      BY <3>3 DEF InHand, Waits, At, BaseInv, Orderly
    <3>5. QED BY <2>2, <2>3, <2>4, <3>4
  <2>5. QED BY <2>3, <2>4
<1>3. CASE \E p \in Sender : SenderStep(p)
  <2>1. PICK p \in Sender : SenderStep(p)  BY <1>3
  <2>2. QED BY <1>0, <2>1, SendIs, ResendIs, CreateIs, ShadowIs
            DEF SenderStep, history
<1>4. ASSUME NEW h \in Handler, Handle(h) \/ Kill(h), ~Fallback(h)
      PROVE  again' = {}
  <2>1. \/ Queue(h) \/ Receive(h) \/ FallbackFails(h) \/ Mark(h) \/ WriteMark(h)
        \/ Settle(h) \/ Kill(h)
    BY <1>4 DEF Handle
  <2>2. CASE Queue(h) \/ Receive(h) \/ FallbackFails(h)
    BY <1>0, <2>2, QueueIs, ReceiveIs, FallbackFailsIs DEF history
  <2>3. CASE Mark(h) \/ WriteMark(h)
    BY <1>0, <2>3, MarkIs, WriteMarkIs DEF history
  <2>4. CASE Settle(h) \/ Kill(h)  BY <1>0, <2>4, SettleIs, KillIs
  <2>5. QED BY <2>1, <2>2, <2>3, <2>4
<1>5. CASE MonitorStep
  BY <1>0, <1>5, PollIs, TakeIs, SaveSnapshotIs DEF MonitorStep, history
<1>6. ASSUME NEW m \in Id, HookType(m, FALSE)  PROVE again' = {}
  BY <1>0, <1>6, HookTypeIs DEF history
<1>7. CASE \/ HookSkip \/ KillHook \/ HookNotified
           \/ \E retry \in BOOLEAN : HookUnconfirmed(retry)
  BY <1>0, <1>7, HookSkipIs, KillHookIs, HookNotifiedIs, HookUnconfirmedIs
<1>8. CASE WorkerStep
  BY <1>0, <1>8, ListIs, AcknowledgeIs, AckWriteIs, AckSettleIs, BreakLockIs
     DEF WorkerStep, history
<1>9. HookStep => again' = {}  BY <1>2, <1>6, <1>7 DEF HookStep
<1>10. QED BY <1>1, <1>3, <1>4, <1>5, <1>8, <1>9, NextIs

LEMMA StaysUnused ==
  ASSUME NEW i \in Id, Unused(i),
         \A h \in Handler : (i \in InHand(h))' => i \in InHand(h),
         i \notin request' \cup typed',
         NEW new, NEW marks, Boxes(new, marks), i \notin new
  PROVE  Unused(i)'
BY DEF Unused, Boxes

\* What is in a mailbox has been created.
LEMMA KnownIsUsed ==
  ASSUME BaseInv, NEW i \in Id, Unused(i)
  PROVE  i \notin Undelivered /\ i \notin Pending(View) /\ 0 # i
BY DEF Unused, Undelivered, Pending, View, Id

LEMMA SendersKeepUnused ==
  ASSUME BaseInv, OnceInv, NEW p \in Sender, SenderStep(p), NEW i \in Id,
         body'[i] = Nobody
  PROVE  Unused(i)'
<1>0. p \in Handler /\ Boxed /\ body \in [Id -> Body \cup {Nobody}]
  BY HandlerIs DEF BaseInv, TypeOK
<1>1. ASSUME NEW b \in Body, Send(p, b)  PROVE Unused(i)'
  <2>1. UNCHANGED <<engine, legacy, request, history>>  BY <1>1, SendIs
  <2>2. PICK m \in Id : /\ body' = [body EXCEPT ![m] = b]
                        /\ Goes(p, "create", m, "none", FALSE, {}, {})
    BY <1>1, SendIs
  <2>3. i # m /\ body[i] = Nobody  BY <1>0, <2>2, ConstantAssumption
  <2>4. Unused(i) /\ Boxes({}, {})
    BY <1>0, <2>1, <2>3, SameBoxes DEF OnceInv
  <2>5. \A h \in Handler : (i \in InHand(h))' => i \in InHand(h)
    BY <2>2, <2>3 DEF Goes, Fields, InHand
  <2>6. i \notin request' \cup typed'  BY <2>1, <2>4 DEF Unused, history
  <2>7. QED BY <2>4, <2>5, <2>6, StaysUnused
<1>2. ASSUME NEW b \in Body, Resend(p, b)  PROVE Unused(i)'
  <2>1. UNCHANGED <<body, engine, legacy, request, typed>>  BY <1>2, ResendIs
  <2>2. Unused(i) /\ Boxes({}, {})  BY <1>0, <2>1, SameBoxes DEF OnceInv
  <2>3. \A h \in Handler : (i \in InHand(h))' => i \in InHand(h)
    <3>1. CASE UNCHANGED call  BY <3>1 DEF InHand
    <3>2. ASSUME NEW m \in Undelivered,
                 Goes(p, "queue", m, "none", FALSE, {}, {})
          PROVE  \A h \in Handler : (i \in InHand(h))' => i \in InHand(h)
      <4>1. i # m  BY <2>2, KnownIsUsed
      <4>2. QED BY <3>2, <4>1 DEF Goes, Fields, InHand
    <3>3. QED BY <1>2, <3>1, <3>2, ResendIs
  <2>4. i \notin request' \cup typed'  BY <2>1, <2>2 DEF Unused
  <2>5. QED BY <2>2, <2>3, <2>4, StaysUnused
<1>3. CASE Create(p) \/ Shadow(p)
  <2>1. /\ Boxes({call[p].id}, {}) /\ UNCHANGED <<body, request, history>>
    BY <1>3, CreateIs, ShadowIs
  <2>2. PICK step : Goes(p, step, call[p].id, "none", FALSE, {}, {})
    BY <1>3, CreateIs, ShadowIs
  <2>3. Unused(i)  BY <2>1 DEF OnceInv
  <2>4. i # call[p].id  BY <1>0, <2>3 DEF Unused, InHand
  <2>5. \A h \in Handler : (i \in InHand(h))' => i \in InHand(h)
    BY <2>2 DEF Goes, Fields, InHand
  <2>6. i \notin request' \cup typed'  BY <2>1, <2>3 DEF Unused, history
  <2>7. QED BY <2>1, <2>3, <2>4, <2>5, <2>6, StaysUnused
<1>4. QED BY <1>1, <1>2, <1>3 DEF SenderStep

LEMMA HandlersKeepUnused ==
  ASSUME BaseInv, OnceInv, NEW h \in Handler, Handle(h) \/ Kill(h), NEW i \in Id,
         body'[i] = Nobody
  PROVE  Unused(i)'
<1>0. Boxed /\ UNCHANGED body
  <2>1. CASE Queue(h) \/ Receive(h) \/ FallbackFails(h) \/ Fallback(h)
    BY <2>1, QueueIs, ReceiveIs, FallbackFailsIs, FallbackIs DEF BaseInv
  <2>2. CASE Mark(h) \/ WriteMark(h) \/ Settle(h) \/ Kill(h)
    BY <2>2, MarkIs, WriteMarkIs, SettleIs, KillIs DEF BaseInv
  <2>3. QED BY <2>1, <2>2 DEF Handle
<1>1. Unused(i) /\ 0 # i  BY <1>0, KnownIsUsed DEF OnceInv
<1>2. i # call[h].id /\ i \notin call[h].todo  BY <1>1 DEF Unused, InHand
<1>3. CASE Queue(h) \/ Receive(h) \/ Fallback(h) \/ Mark(h) \/ WriteMark(h)
  <2>1. PICK step, receipt, told : Advances(h, step, receipt, told)
    <3>1. CASE Queue(h) \/ Receive(h) \/ Fallback(h)
      BY <3>1, QueueIs, ReceiveIs, FallbackIs
    <3>2. CASE Mark(h) \/ WriteMark(h)  BY <3>2, MarkIs, WriteMarkIs
    <3>3. QED BY <1>3, <3>1, <3>2
  <2>2. \A g \in Handler : (i \in InHand(g))' => i \in InHand(g)
    BY <2>1 DEF Advances, Goes, Fields, InHand
  <2>3. i \notin request' \cup typed' /\ \E marks : Boxes({}, marks)
    <3>1. CASE Queue(h)
      BY <1>1, <1>2, <3>1, QueueIs DEF Unused, history
    <3>2. CASE Receive(h)
      BY <1>0, <1>1, <3>2, ReceiveIs, SameBoxes DEF Unused, history
    <3>3. CASE Fallback(h)
      <4>1. /\ Type(call[h].id, IF Late(h) THEN {call[h].id} ELSE {})
            /\ UNCHANGED <<engine, legacy, request>>
        BY <3>3, FallbackIs
      <4>2. typed' = typed \cup {call[h].id}  BY <4>1 DEF Type
      <4>3. QED BY <1>0, <1>1, <1>2, <4>1, <4>2, SameBoxes DEF Unused
    <3>4. CASE Mark(h)
      BY <1>1, <3>4, MarkIs DEF Unused, history
    <3>5. CASE WriteMark(h)
      BY <1>1, <3>5, WriteMarkIs DEF Unused, history
    <3>6. QED BY <1>3, <3>1, <3>2, <3>3, <3>4, <3>5
  <2>4. QED BY <1>1, <2>2, <2>3, StaysUnused
<1>4. CASE FallbackFails(h) \/ Settle(h)
  <2>1. /\ UNCHANGED <<engine, legacy, typed>>
        /\ \E ok, status : Ends(h, ok, status)
    BY <1>4, FallbackFailsIs, SettleIs DEF history
  <2>2. PICK ok, status : Ends(h, ok, status)  BY <2>1
  <2>3. (InHand(h))' \subseteq {0} \cup call[h].todo
    BY <2>2 DEF Ends, Fields, InHand
  <2>4. \A g \in Handler \ {h} : (InHand(g))' = InHand(g)
    BY <2>2 DEF Ends, Tells, InHand
  <2>5. request' \subseteq request  BY <2>2 DEF Ends
  <2>6. Boxes({}, {})  BY <1>0, <2>1, SameBoxes
  <2>7. QED BY <1>1, <1>2, <2>1, <2>3, <2>4, <2>5, <2>6 DEF Unused, Boxes
<1>5. CASE Kill(h)
  <2>1. /\ Goes(h, "idle", 0, "none", FALSE, {}, {})
        /\ UNCHANGED <<engine, legacy, request, typed>>
    BY <1>5, KillIs
  <2>2. \A g \in Handler : (i \in InHand(g))' => i \in InHand(g)
    BY <1>1, <2>1 DEF Goes, Fields, InHand
  <2>3. i \notin request' \cup typed' /\ Boxes({}, {})
    BY <1>0, <1>1, <2>1, SameBoxes DEF Unused
  <2>4. QED BY <1>1, <2>2, <2>3, StaysUnused
<1>6. QED BY <1>3, <1>4, <1>5 DEF Handle

LEMMA OthersKeepUnused ==
  ASSUME BaseInv, OnceInv, MonitorStep \/ HookStep \/ WorkerStep, NEW i \in Id,
         body'[i] = Nobody
  PROVE  Unused(i)'
<1>0. Monitor \in Handler /\ Boxed /\ 0 # i  BY HandlerIs DEF BaseInv, Id
<1>1. CASE MonitorStep
  <2>1. UNCHANGED <<body, engine, legacy, request, typed>>
    BY <1>1, PollIs, TakeIs, SaveSnapshotIs DEF MonitorStep, history
  <2>2. Unused(i) /\ Boxes({}, {})  BY <1>0, <2>1, SameBoxes DEF OnceInv
  <2>3. \A g \in Handler : (i \in InHand(g))' => i \in InHand(g)
    <3>1. CASE Poll
      <4>1. Goes(Monitor, "next", 0, "none", FALSE, Pending(View) \ Told,
                 Pending(View) \cap Told)
        BY <3>1, PollIs
      <4>2. i \notin Pending(View)  BY <2>2, KnownIsUsed
      <4>3. QED BY <1>0, <4>1, <4>2 DEF Goes, Fields, InHand
    <3>2. ASSUME NEW m \in Id, Take(m)
          PROVE  \A g \in Handler : (i \in InHand(g))' => i \in InHand(g)
      <4>1. /\ m \in call[Monitor].todo
            /\ Goes(Monitor, "queue", m, "none", FALSE,
                    call[Monitor].todo \ {m}, call[Monitor].next)
        BY <3>2, TakeIs
      <4>2. QED BY <1>0, <4>1 DEF Goes, Fields, InHand
    <3>3. CASE SaveSnapshot
      <4>1. Goes(Monitor, "idle", 0, "none", FALSE, {}, {})
        BY <3>3, SaveSnapshotIs
      <4>2. QED BY <1>0, <4>1 DEF Goes, Fields, InHand
    <3>4. QED BY <1>1, <3>1, <3>2, <3>3 DEF MonitorStep
  <2>4. i \notin request' \cup typed'  BY <2>1, <2>2 DEF Unused
  <2>5. QED BY <2>2, <2>3, <2>4, StaysUnused
<1>2. ASSUME NEW m \in Id, NEW did \in BOOLEAN, HookType(m, did)
      PROVE  Unused(i)'
  <2>1. /\ m \in request
        /\ UNCHANGED <<body, engine, legacy, request, call>>
    BY <1>2, HookTypeIs
  <2>2. typed' = typed \/ typed' = typed \cup {m}
    BY <1>2, HookTypeIs DEF Type, history
  <2>3. Unused(i) /\ Boxes({}, {})  BY <1>0, <2>1, SameBoxes DEF OnceInv
  <2>4. i \notin request' \cup typed'  BY <2>1, <2>2, <2>3 DEF Unused
  <2>5. QED BY <2>1, <2>3, <2>4, StaysUnused DEF InHand
<1>3. CASE \/ WorkerStep \/ HookSkip \/ KillHook \/ HookNotified
           \/ \E retry \in BOOLEAN : HookUnconfirmed(retry)
  <2>1. /\ UNCHANGED <<body, typed>> /\ \E marks : Boxes({}, marks)
        /\ \E m, status : UNCHANGED <<request, call>> \/ Settles(m, status)
    <3>1. CASE HookSkip \/ KillHook
      BY <1>0, <3>1, HookSkipIs, KillHookIs, SameBoxes
    <3>2. CASE HookNotified  BY <3>2, HookNotifiedIs
    <3>3. CASE \E retry \in BOOLEAN : HookUnconfirmed(retry)
      BY <1>0, <3>3, HookUnconfirmedIs, SameBoxes
    <3>4. CASE List \/ BreakLock
      BY <1>0, <3>4, ListIs, BreakLockIs, SameBoxes DEF history
    <3>5. CASE AckWrite \/ \E m \in Id : Acknowledge(m)
      BY <3>5, AckWriteIs, AcknowledgeIs DEF history
    <3>6. CASE AckSettle
      BY <1>0, <3>6, AckSettleIs, SameBoxes DEF history
    <3>7. QED BY <1>3, <3>1, <3>2, <3>3, <3>4, <3>5, <3>6 DEF WorkerStep
  <2>2. Unused(i)  BY <2>1 DEF OnceInv
  <2>3. /\ \A g \in Handler : (InHand(g))' = InHand(g)
        /\ request' \subseteq request
    BY <2>1 DEF Settles, Tells, InHand
  <2>4. i \notin request' \cup typed'  BY <2>1, <2>2, <2>3 DEF Unused
  <2>5. QED BY <2>1, <2>2, <2>3, <2>4, StaysUnused
<1>4. QED BY <1>1, <1>2, <1>3 DEF HookStep

LEMMA NextKeepsOnce == BaseInv /\ ToldInv /\ OnceInv /\ [Next]_vars => OnceInv'
<1> SUFFICES ASSUME BaseInv, ToldInv, OnceInv, [Next]_vars  PROVE OnceInv'
  OBVIOUS
<1>1. CASE UNCHANGED vars
  <2>1. \A i \in Id : Plain(i)' <=> Plain(i)
    BY <1>1 DEF vars, engine, history, Plain, Early, Past, Waiting, Typing,
                Telling, Recorded, InHand, View, Pending, At
  <2>2. \A i \in Id : Unused(i)' <=> Unused(i)
    BY <1>1 DEF vars, engine, history, Unused, InHand
  <2>3. UNCHANGED <<body, again, excused>>  BY <1>1 DEF vars
  <2>4. QED BY <2>1, <2>2, <2>3 DEF OnceInv
<1>2. CASE Next
  <2>1. ASSUME NEW i \in Id, i \notin excused'  PROVE Plain(i)'
    <3>1. ASSUME NEW h \in Handler, Handle(h) \/ Kill(h)  PROVE Plain(i)'
      <4>1. CASE Queue(h)  BY <2>1, <4>1, QueueKeepsPlain
      <4>2. CASE Receive(h) \/ Fallback(h) \/ Mark(h) \/ WriteMark(h)
        BY <2>1, <4>2, AdvancesKeepPlain
      <4>3. CASE FallbackFails(h) \/ Settle(h)
        BY <2>1, <4>3, EndsKeepPlain
      <4>4. CASE Kill(h)  BY <2>1, <4>4, KillKeepsPlain
      <4>5. QED BY <3>1, <4>1, <4>2, <4>3, <4>4 DEF Handle
    <3>2. QED
      BY <1>2, <2>1, <3>1, NextIs, SendersKeepPlain, MonitorKeepsPlain,
         HookKeepsPlain, WorkerKeepsPlain
  <2>2. ASSUME NEW i \in Id, body'[i] = Nobody  PROVE Unused(i)'
    BY <1>2, <2>2, NextIs, SendersKeepUnused, HandlersKeepUnused,
       OthersKeepUnused
  <2>3. again' = {}  BY <1>2, NobodyTypesAgain
  <2>4. QED BY <2>1, <2>2, <2>3 DEF OnceInv
<1>3. QED BY <1>1, <1>2

LEMMA OnceIsKept == Spec => [](BaseInv /\ ToldInv /\ OnceInv)
BY InitBase, NextKeepsBase, InitToldInv, NextKeepsTold, InitOnceInv,
   NextKeepsOnce, PTL DEF Spec

\* No message is typed a second time, unless two had it in hand at once or its
\* first typing went unrecorded: the request, the hook's mark and the monitor's
\* round hand it from one to the next.
THEOREM OnceTyped == Spec => []TypedOnce
<1>1. OnceInv => TypedOnce  BY DEF OnceInv, TypedOnce
<1>2. QED BY <1>1, OnceIsKept, PTL

-----------------------------------------------------------------------------
(* SentOnce.                                                               *)

Saves(p) == call[p].step \in {"create", "shadow"}

\* No message not yet delivered says what the one under way will say.
SentInv ==
  /\ SentOnce
  /\ \A p \in Handler : Saves(p) =>
       \A j \in Undelivered : body[j] = body[call[p].id] => j = call[p].id

LEMMA StaysSent ==
  ASSUME SentInv, UNCHANGED body, Undelivered' \subseteq Undelivered,
         \A g \in Handler : Saves(g)' => Saves(g) /\ call'[g].id = call[g].id
  PROVE  SentInv'
BY DEF SentInv, SentOnce

\* Only the holder of the lock adds a message.
LEMMA OneSaves ==
  ASSUME BaseInv, NEW g \in Handler, Saves(g)
  PROVE  lock = g /\ lock # Nobody
BY ConstantAssumption DEF BaseInv, Orderly, Saves, Handler

LEMMA SendersKeepSent ==
  ASSUME BaseInv, OnceInv, SentInv, NEW p \in Sender, SenderStep(p)
  PROVE  SentInv'
<1>0. p \in Handler /\ Boxed /\ body \in [Id -> Body \cup {Nobody}]
  BY HandlerIs DEF BaseInv, TypeOK
<1>1. ASSUME NEW b \in Body, Send(p, b)  PROVE SentInv'
  <2>1. lock = Nobody /\ Duplicates(b) = {} /\ UNCHANGED <<engine, legacy>>
    BY <1>1, SendIs
  <2>2. PICK m \in Id :
          /\ body[m] = Nobody /\ body' = [body EXCEPT ![m] = b]
          /\ Goes(p, "create", m, "none", FALSE, {}, {})
    BY <1>1, SendIs
  <2>3. Undelivered' = Undelivered
    BY <2>1 DEF Undelivered, Pending, View, engine
  <2>4. /\ m \notin Undelivered /\ Undelivered \subseteq Id /\ body'[m] = b
        /\ \A j \in Undelivered : body'[j] = body[j] /\ body[j] # b
    <3>1. m \notin Undelivered  BY <2>2, KnownIsUsed DEF OnceInv
    <3>2. Undelivered \subseteq Id  BY <1>0, ViewIs
    <3>3. \A j \in Undelivered : body[j] # b  BY <2>1 DEF Duplicates
    <3>4. QED BY <1>0, <2>2, <3>1, <3>2, <3>3
  <2>5. \A g \in Handler \ {p} : ~(Saves(g)')
    <3> SUFFICES ASSUME NEW g \in Handler \ {p}, Saves(g)'  PROVE FALSE
      OBVIOUS
    <3>1. Saves(g)  BY <2>2 DEF Goes, Saves
    <3>2. QED BY <2>1, <3>1, OneSaves
  <2>6. call'[p].id = m  BY <2>2 DEF Goes, Fields
  <2>7. SentOnce'  BY <2>3, <2>4 DEF SentInv, SentOnce
  <2>8. \A j \in Undelivered' : body'[j] = body'[m] => j = m  BY <2>3, <2>4
  <2>9. QED BY <2>5, <2>6, <2>7, <2>8 DEF SentInv
<1>2. ASSUME NEW b \in Body, Resend(p, b)  PROVE SentInv'
  <2>1. UNCHANGED <<body, engine, legacy>>  BY <1>2, ResendIs
  <2>2. Undelivered' = Undelivered
    BY <2>1 DEF Undelivered, Pending, View, engine
  <2>3. \A g \in Handler : Saves(g)' => Saves(g) /\ call'[g].id = call[g].id
    <3>1. CASE UNCHANGED call  BY <3>1 DEF Saves
    <3>2. ASSUME NEW m \in Undelivered,
                 Goes(p, "queue", m, "none", FALSE, {}, {})
          PROVE  \A g \in Handler : Saves(g)' =>
                   Saves(g) /\ call'[g].id = call[g].id
      BY <3>2 DEF Goes, Fields, Saves
    <3>3. QED BY <1>2, <3>1, <3>2, ResendIs
  <2>4. QED BY <2>1, <2>2, <2>3, StaysSent
<1>3. CASE Create(p) \/ Shadow(p)
  <2> DEFINE m == call[p].id
  <2>1. /\ Saves(p) /\ Boxes({m}, {}) /\ UNCHANGED body
    BY <1>3, CreateIs, ShadowIs DEF Saves
  <2>2. PICK step : Goes(p, step, m, "none", FALSE, {}, {})
    BY <1>3, CreateIs, ShadowIs
  <2>3. Undelivered' \subseteq Undelivered \cup {m}  BY <2>1 DEF Boxes
  <2>4. \A j \in Undelivered' : body'[j] = body'[m] => j = m
    BY <1>0, <2>1, <2>3 DEF SentInv
  <2>5. SentOnce'  BY <2>1, <2>3, <2>4 DEF SentInv, SentOnce
  <2>6. \A g \in Handler \ {p} : ~(Saves(g)')
    <3> SUFFICES ASSUME NEW g \in Handler \ {p}, Saves(g)'  PROVE FALSE
      OBVIOUS
    <3>1. Saves(g)  BY <2>2 DEF Goes, Saves
    <3>2. QED BY <1>0, <2>1, <3>1, OneSaves
  <2>7. call'[p].id = m  BY <2>2 DEF Goes, Fields
  <2>8. QED BY <2>4, <2>5, <2>6, <2>7 DEF SentInv
<1>4. QED BY <1>1, <1>2, <1>3 DEF SenderStep

LEMMA HandlersKeepSent ==
  ASSUME BaseInv, SentInv, NEW h \in Handler, Handle(h) \/ Kill(h)
  PROVE  SentInv'
<1>1. CASE Queue(h) \/ Receive(h) \/ Fallback(h) \/ Mark(h) \/ WriteMark(h)
  <2>1. UNCHANGED body /\ \E marks : Boxes({}, marks)
    <3>1. CASE Queue(h)  BY <3>1, QueueIs
    <3>2. CASE Receive(h) \/ Fallback(h)
      BY <3>2, ReceiveIs, FallbackIs, SameBoxes DEF BaseInv
    <3>3. CASE Mark(h) \/ WriteMark(h)  BY <3>3, MarkIs, WriteMarkIs
    <3>4. QED BY <1>1, <3>1, <3>2, <3>3
  <2>2. PICK step \in {"wait", "type", "mark", "write", "settle"},
             receipt \in Receipt, told \in BOOLEAN :
          Advances(h, step, receipt, told)
    <3>1. call[h].receipt \in Receipt /\ call[h].told \in BOOLEAN
      BY CallOf DEF BaseInv
    <3>2. CASE Queue(h)  BY <3>2, QueueIs DEF Receipt
    <3>3. CASE Receive(h)
      <4>1. \/ Advances(h, "mark", "notified", FALSE)
            \/ Advances(h, "type", call[h].receipt, FALSE)
        BY <3>3, ReceiveIs
      <4>2. QED BY <3>1, <4>1 DEF Receipt
    <3>4. CASE Fallback(h)  BY <3>1, <3>4, FallbackIs
    <3>5. CASE Mark(h) \/ WriteMark(h)  BY <3>1, <3>5, MarkIs, WriteMarkIs
    <3>6. QED BY <1>1, <3>2, <3>3, <3>4, <3>5
  <2>3. \A g \in Handler : Saves(g)' => Saves(g) /\ call'[g].id = call[g].id
    BY <2>2 DEF Advances, Goes, Fields, Saves
  <2>4. Undelivered' \subseteq Undelivered  BY <2>1 DEF Boxes
  <2>5. QED BY <2>1, <2>3, <2>4, StaysSent
<1>2. CASE FallbackFails(h) \/ Settle(h)
  <2>1. UNCHANGED <<body, engine, legacy>> /\ \E ok, status : Ends(h, ok, status)
    BY <1>2, FallbackFailsIs, SettleIs
  <2>2. \A g \in Handler : Saves(g)' => Saves(g) /\ call'[g].id = call[g].id
    <3>1. ~(Saves(h)')  BY <2>1 DEF Ends, Fields, Saves
    <3>2. \A g \in Handler \ {h} :
            Saves(g)' => Saves(g) /\ call'[g].id = call[g].id
      BY <2>1 DEF Ends, Tells, Saves
    <3>3. QED BY <3>1, <3>2
  <2>3. Undelivered' \subseteq Undelivered
    BY <2>1 DEF Undelivered, Pending, View, engine
  <2>4. QED BY <2>1, <2>2, <2>3, StaysSent
<1>3. CASE Kill(h)
  <2>1. /\ Goes(h, "idle", 0, "none", FALSE, {}, {})
        /\ UNCHANGED <<body, engine, legacy>>
    BY <1>3, KillIs
  <2>2. \A g \in Handler : Saves(g)' => Saves(g) /\ call'[g].id = call[g].id
    BY <2>1 DEF Goes, Fields, Saves
  <2>3. Undelivered' \subseteq Undelivered
    BY <2>1 DEF Undelivered, Pending, View, engine
  <2>4. QED BY <2>1, <2>2, <2>3, StaysSent
<1>4. QED BY <1>1, <1>2, <1>3 DEF Handle

LEMMA OthersKeepSent ==
  ASSUME BaseInv, SentInv, MonitorStep \/ HookStep \/ WorkerStep
  PROVE  SentInv'
<1>0. Monitor \in Handler /\ Boxed  BY HandlerIs DEF BaseInv
<1>1. CASE MonitorStep
  <2>1. UNCHANGED <<body, engine, legacy>>
    BY <1>1, PollIs, TakeIs, SaveSnapshotIs DEF MonitorStep
  <2>2. \A g \in Handler : Saves(g)' => Saves(g) /\ call'[g].id = call[g].id
    <3>1. /\ \A g \in Handler \ {Monitor} : call'[g] = call[g]
          /\ call'[Monitor].step \in {"idle", "next", "queue"}
      BY <1>1, PollIs, TakeIs, SaveSnapshotIs DEF MonitorStep, Goes, Fields
    <3>2. QED BY <3>1 DEF Saves
  <2>3. Undelivered' \subseteq Undelivered
    BY <2>1 DEF Undelivered, Pending, View, engine
  <2>4. QED BY <2>1, <2>2, <2>3, StaysSent
<1>2. CASE HookStep \/ WorkerStep
  <2>1. /\ UNCHANGED body /\ \E marks : Boxes({}, marks)
        /\ \E m, status : UNCHANGED <<request, call>> \/ Settles(m, status)
    <3>1. CASE \/ HookSkip \/ KillHook
               \/ \E m \in Id, did \in BOOLEAN : HookType(m, did)
      BY <1>0, <3>1, HookSkipIs, KillHookIs, HookTypeIs, SameBoxes
    <3>2. CASE HookNotified  BY <3>2, HookNotifiedIs
    <3>3. CASE \E retry \in BOOLEAN : HookUnconfirmed(retry)
      BY <1>0, <3>3, HookUnconfirmedIs, SameBoxes
    <3>4. CASE List \/ BreakLock
      BY <1>0, <3>4, ListIs, BreakLockIs, SameBoxes
    <3>5. CASE AckWrite \/ \E m \in Id : Acknowledge(m)
      BY <3>5, AckWriteIs, AcknowledgeIs
    <3>6. CASE AckSettle
      BY <1>0, <3>6, AckSettleIs, SameBoxes
    <3>7. QED BY <1>2, <3>1, <3>2, <3>3, <3>4, <3>5, <3>6
              DEF HookStep, WorkerStep
  <2>2. \A g \in Handler : Saves(g)' => Saves(g) /\ call'[g].id = call[g].id
    BY <2>1 DEF Settles, Tells, Saves
  <2>3. Undelivered' \subseteq Undelivered  BY <2>1 DEF Boxes
  <2>4. QED BY <2>1, <2>2, <2>3, StaysSent
<1>3. QED BY <1>1, <1>2

\* Of the messages that the worker has not acknowledged no two say the same:
\* the sender looks for one in both mailboxes and keeps the lock until its own
\* is in them, whatever the engine answers.
THEOREM SentOnceEach == Spec => []SentOnce
<1>1. Init => SentInv
  BY NoCallIs DEF Init, SentInv, SentOnce, Saves, Fields, Undelivered, Pending,
                  View, Empty
<1>2. BaseInv /\ OnceInv /\ SentInv /\ [Next]_vars => SentInv'
  <2> SUFFICES ASSUME BaseInv, OnceInv, SentInv, [Next]_vars  PROVE SentInv'
    OBVIOUS
  <2>1. CASE UNCHANGED vars
    BY <2>1 DEF SentInv, SentOnce, Saves, Undelivered, Pending, View, vars,
                engine
  <2>2. CASE Next
    BY <2>2, NextIs, SendersKeepSent, HandlersKeepSent, OthersKeepSent
  <2>3. QED BY <2>1, <2>2
<1>3. SentInv => SentOnce  BY DEF SentInv
<1>4. QED BY <1>1, <1>2, <1>3, OnceIsKept, PTL DEF Spec
=============================================================================
