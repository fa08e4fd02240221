---------------------------- MODULE RuntimeEvents ----------------------------
(***************************************************************************)
(* The events of the Rust runtime engine (crates/omg-runtime-core) and     *)
(* which of them it accepts.  The event log is modelled as the set of its  *)
(* events: those of one dispatch request, message or leader can be put in  *)
(* order by their kinds, and those of different ones do not interact.      *)
(* Events that change nothing (SnapshotCaptured, ReplayRequested) are      *)
(* left out.                                                               *)
(***************************************************************************)
CONSTANTS
  Request,   \* dispatch request ids
  Message,   \* mailbox message ids
  Owner      \* leaders that may acquire authority

DispatchEvent == {"queued", "notified", "delivered", "failed"} \X Request

MailEvent == {"created", "mailNotified", "mailDelivered"} \X Message

AuthorityEvent == {"acquired", "renewed"} \X Owner

Event == DispatchEvent \cup MailEvent \cup AuthorityEvent

\* What an engine knows: the log, and the mailbox, which is loaded from a file
\* of its own.
Memory == [log : SUBSET Event, mail : SUBSET MailEvent]

Fresh == [log |-> {}, mail |-> {}]

\* The mailbox that replaying the log builds: marks of unknown messages fail.
Replayed(log) ==
  {e \in log \cap MailEvent : <<"created", e[2]>> \in log}

\* Requests and messages are created under ids never used before.
AcceptsDispatch(log, e) ==
  LET Has(kind) == <<kind, e[2]>> \in log
      Ended == Has("delivered") \/ Has("failed")
  IN
  /\ e[1] = "notified" => Has("queued") /\ ~Has("notified") /\ ~Ended
  /\ e[1] = "delivered" => Has("notified") /\ ~Ended
  /\ e[1] = "failed" => Has("queued") /\ ~Ended

AcceptsMail(mail, e) ==
  e[1] \in {"mailNotified", "mailDelivered"} =>
    /\ <<"created", e[2]>> \in mail
    /\ <<"mailDelivered", e[2]>> \notin mail

AcceptsAuthority(log, e) ==
  /\ e[1] = "acquired" =>
       \A o \in Owner : <<"acquired", o>> \in log => o = e[2]
  /\ e[1] = "renewed" => <<"acquired", e[2]>> \in log

\* Mutant: leaders are not told apart.
AcceptsAnyLeader(memory, e) ==
  /\ AcceptsDispatch(memory.log, e)
  /\ AcceptsMail(memory.mail, e)

Accepts(memory, e) ==
  /\ AcceptsDispatch(memory.log, e)
  /\ AcceptsMail(memory.mail, e)
  /\ AcceptsAuthority(memory.log, e)

\* Mutant: every event is applied to the mailbox.
ProcessedAsMail(memory, e) ==
  [log |-> memory.log \cup {e}, mail |-> memory.mail \cup {e}]

Processed(memory, e) ==
  [log |-> memory.log \cup {e},
   mail |-> IF e \in MailEvent THEN memory.mail \cup {e} ELSE memory.mail]

\* The logs in which every request went one way, and one leader led.
Legal(log) ==
  /\ \A r \in Request :
       /\ \A kind \in {"notified", "delivered", "failed"} :
            <<kind, r>> \in log => <<"queued", r>> \in log
       /\ <<"delivered", r>> \in log =>
            <<"notified", r>> \in log /\ <<"failed", r>> \notin log
  /\ \A o \in Owner :
       /\ <<"renewed", o>> \in log => <<"acquired", o>> \in log
       /\ <<"acquired", o>> \in log =>
            \A other \in Owner : <<"acquired", other>> \in log => other = o
=============================================================================
