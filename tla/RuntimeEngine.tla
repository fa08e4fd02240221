---------------------------- MODULE RuntimeEngine ----------------------------
(***************************************************************************)
(* One `omg-runtime exec` per command (crates/omg-runtime/src/main.rs):    *)
(* load the event log, process the command, persist, write the             *)
(* compatibility view.  engine.lock is held shared by the load and         *)
(* exclusive by the persist, in between it is free; the view is written    *)
(* without it.  Every file is written in place, so it is empty for a       *)
(* while, and the caller's timeout may kill the process at any step:       *)
(*                                                                         *)
(*   Start -> Load -> Persist -> WriteEvents -> EmptyMailbox               *)
(*         -> WriteMailbox -> EmptyView -> WriteView -> EmptyCopy          *)
(*         -> WriteCopy                                                    *)
(***************************************************************************)
EXTENDS RuntimeEvents, Naturals

CONSTANTS
  Exec,        \* exec processes that may run at the same time
  NoEvent,
  MaxCommands, \* bound: number of commands issued
  MaxKills     \* bound: number of processes killed

ASSUME ConstantAssumption ==
  /\ MaxCommands \in Nat
  /\ MaxKills \in Nat
  /\ NoEvent \notin Event

VARIABLES
  events,   \* events.json
  mailbox,  \* mailbox.json, which persist and the view both write
  view,     \* dispatch.json of the view
  exec,     \* process -> where it stands
  issued,   \* ids of the requests and messages created so far
  commands, \* number of commands issued so far
  acked,    \* history: events of the commands that exited successfully
  broken,   \* history: what has gone wrong, see Fault
  kills     \* number of processes killed so far

vars == <<events, mailbox, view, exec, issued, commands, acked, broken,
          kills>>

-----------------------------------------------------------------------------
File(S) == [readable : BOOLEAN, content : SUBSET S]

\* A file that is missing, empty or cannot be parsed.
Unreadable == [readable |-> FALSE, content |-> {}]

Holding(S) == [readable |-> TRUE, content |-> S]

\* Persisting: these steps hold engine.lock exclusively.
Persisting == {"torn", "written", "mailTorn"}

Viewing == {"persisted", "viewTorn", "viewed", "copyTorn"}

Step == {"idle", "started", "loaded"} \cup Persisting \cup Viewing

\* "stale": another process has begun to persist since this one loaded, or,
\* once it has persisted itself, since then.
Process == [step : Step, cmd : Event \cup {NoEvent}, memory : Memory,
            stale : BOOLEAN]

Idle == [step |-> "idle", cmd |-> NoEvent, memory |-> Fresh, stale |-> FALSE]

\* lostUpdate: a process persisted what it had loaded before another persisted
\* emptied:    a process was killed while events.json was empty
\* mixed:      killed after events.json and before mailbox.json was written
\* staleView:  a process wrote the view after another had persisted
\* noView:     killed after it had persisted and before dispatch.json was
\*             rewritten
Fault == {"lostUpdate", "emptied", "mixed", "staleView", "noView"}

TypeOK ==
  /\ events \in File(Event)
  /\ mailbox \in File(MailEvent)
  /\ view \in File(DispatchEvent)
  /\ exec \in [Exec -> Process]
  /\ issued \subseteq Request \cup Message
  /\ commands \in Nat
  /\ acked \subseteq Event
  /\ broken \subseteq Fault
  /\ kills \in Nat

Init ==
  /\ events = Unreadable
  /\ mailbox = Unreadable
  /\ view = Unreadable
  /\ exec = [p \in Exec |-> Idle]
  /\ issued = {}
  /\ commands = 0
  /\ acked = {}
  /\ broken = {}
  /\ kills = 0

-----------------------------------------------------------------------------
At(p, step) == exec[p].step = step

Goto(p, step) ==
  exec' = [exec EXCEPT ![p] = [step |-> step, cmd |-> exec[p].cmd,
                               memory |-> exec[p].memory,
                               stale |-> exec[p].stale]]

Unlocked == \A p \in Exec : exec[p].step \notin Persisting

\* A file written in place.  If another process has written it since it was
\* emptied, what is left may be a mixture of the two.
Overwritten(file, content) ==
  {Holding(content)} \cup IF file.readable THEN {Unreadable} ELSE {}

\* A command; ids of requests and messages are drawn at random.
Start(p, e) ==
  /\ At(p, "idle")
  /\ commands < MaxCommands
  /\ commands' = commands + 1
  /\ e[1] \in {"queued", "created"} => e[2] \notin issued
  /\ issued' = IF e[1] \in {"queued", "created"} THEN issued \cup {e[2]}
               ELSE issued
  /\ exec' = [exec EXCEPT ![p] = [step |-> "started", cmd |-> e,
                                  memory |-> Fresh, stale |-> FALSE]]
  /\ UNCHANGED <<events, mailbox, view, acked, broken, kills>>

\* Mutant: any unreadable file makes a new engine.
OnDiskOrFresh ==
  IF ~events.readable \/ ~mailbox.readable THEN Fresh
  ELSE [log |-> events.content, mail |-> mailbox.content]

\* Mutant: an unreadable mailbox counts as empty.
OnDiskOrNoMail ==
  IF ~events.readable THEN Fresh
  ELSE [log |-> events.content,
        mail |-> IF mailbox.readable THEN mailbox.content ELSE {}]

\* A log that cannot be read counts as a new one; a mailbox that cannot be
\* read is rebuilt from the log.
OnDisk ==
  IF ~events.readable THEN Fresh
  ELSE [log |-> events.content,
        mail |-> IF mailbox.readable THEN mailbox.content
                 ELSE Replayed(events.content)]

\* load and process: a command that is refused ends here and writes nothing.
Load(p) ==
  /\ At(p, "started")
  /\ Unlocked
  /\ exec' = [exec EXCEPT ![p] =
                IF Accepts(OnDisk, exec[p].cmd)
                THEN [step |-> "loaded", cmd |-> exec[p].cmd,
                      memory |-> Processed(OnDisk, exec[p].cmd),
                      stale |-> FALSE]
                ELSE Idle]
  /\ UNCHANGED <<events, mailbox, view, issued, commands, acked, broken, kills>>

\* persist takes the lock; opening events.json for writing empties it.
Persist(p) ==
  /\ At(p, "loaded")
  /\ Unlocked
  /\ events' = Unreadable
  /\ exec' = [q \in Exec |->
                IF q = p
                THEN [step |-> "torn", cmd |-> exec[p].cmd,
                      memory |-> exec[p].memory, stale |-> FALSE]
                ELSE [step |-> exec[q].step, cmd |-> exec[q].cmd,
                      memory |-> exec[q].memory, stale |-> TRUE]]
  /\ broken' = IF exec[p].stale THEN broken \cup {"lostUpdate"} ELSE broken
  /\ UNCHANGED <<mailbox, view, issued, commands, acked, kills>>

WriteEvents(p) ==
  /\ At(p, "torn")
  /\ events' = Holding(exec[p].memory.log)
  /\ Goto(p, "written")
  /\ UNCHANGED <<mailbox, view, issued, commands, acked, broken, kills>>

EmptyMailbox(p) ==
  /\ At(p, "written")
  /\ mailbox' = Unreadable
  /\ Goto(p, "mailTorn")
  /\ UNCHANGED <<events, view, issued, commands, acked, broken, kills>>

\* The last write of persist; the lock is released.
WriteMailbox(p) ==
  /\ At(p, "mailTorn")
  /\ mailbox' \in Overwritten(mailbox, exec[p].memory.mail)
  /\ Goto(p, "persisted")
  /\ UNCHANGED <<events, view, issued, commands, acked, broken, kills>>

EmptyView(p) ==
  /\ At(p, "persisted")
  /\ view' = Unreadable
  /\ Goto(p, "viewTorn")
  /\ UNCHANGED <<events, mailbox, issued, commands, acked, broken, kills>>

Outdated(p) ==
  IF exec[p].stale THEN broken \cup {"staleView"} ELSE broken

\* Mutant: the view is written from the log as it was loaded.
WriteViewAsLoaded(p) ==
  /\ At(p, "viewTorn")
  /\ view' \in Overwritten(view, (exec[p].memory.log \ {exec[p].cmd})
                                  \cap DispatchEvent)
  /\ Goto(p, "viewed")
  /\ broken' = Outdated(p)
  /\ UNCHANGED <<events, mailbox, issued, commands, acked, kills>>

WriteView(p) ==
  /\ At(p, "viewTorn")
  /\ view' \in Overwritten(view, exec[p].memory.log \cap DispatchEvent)
  /\ Goto(p, "viewed")
  /\ broken' = Outdated(p)
  /\ UNCHANGED <<events, mailbox, issued, commands, acked, kills>>

EmptyCopy(p) ==
  /\ At(p, "viewed")
  /\ mailbox' = Unreadable
  /\ Goto(p, "copyTorn")
  /\ UNCHANGED <<events, view, issued, commands, acked, broken, kills>>

\* mailbox.json once more; then the process prints its event and exits.
WriteCopy(p) ==
  /\ At(p, "copyTorn")
  /\ mailbox' \in Overwritten(mailbox, exec[p].memory.mail)
  /\ exec' = [exec EXCEPT ![p] = Idle]
  /\ acked' = acked \cup {exec[p].cmd}
  /\ broken' = Outdated(p)
  /\ UNCHANGED <<events, view, issued, commands, kills>>

\* The caller's timeout.  The operating system releases the lock.
Kill(p) ==
  /\ ~At(p, "idle")
  /\ kills < MaxKills
  /\ kills' = kills + 1
  /\ exec' = [exec EXCEPT ![p] = Idle]
  /\ broken' = broken
       \cup (IF At(p, "torn") THEN {"emptied"} ELSE {})
       \cup (IF At(p, "written") THEN {"mixed"} ELSE {})
       \cup (IF exec[p].step \in {"torn", "written", "mailTorn", "persisted"}
             THEN {"noView"} ELSE {})
  /\ UNCHANGED <<events, mailbox, view, issued, commands, acked>>

Next ==
  \E p \in Exec :
    \/ \E e \in Event : Start(p, e)
    \/ Load(p)
    \/ Persist(p) \/ WriteEvents(p) \/ EmptyMailbox(p) \/ WriteMailbox(p)
    \/ EmptyView(p) \/ WriteView(p) \/ EmptyCopy(p) \/ WriteCopy(p)
    \/ Kill(p)

Spec == Init /\ [][Next]_vars

-----------------------------------------------------------------------------
(* Properties.                                                             *)

\* The log as of the last persist that began: what it is about to write
\* counts as written.
Log ==
  IF events.readable THEN events.content
  ELSE IF \E p \in Exec : At(p, "torn")
       THEN exec[CHOOSE p \in Exec : At(p, "torn")].memory.log
  ELSE {}

\* A command that returned successfully is never forgotten, unless a process
\* persisted a log it had loaded before another persisted, or was killed while
\* events.json was empty.  Kills at every other step lose nothing
\* acknowledged.
AckedIsKept ==
  broken \cap {"lostUpdate", "emptied"} = {} => acked \subseteq Log

\* load prefers mailbox.json to the log.  Between commands the two agree, or
\* mailbox.json is unreadable and the log is used, unless a process wrote its
\* view after another had persisted or was killed between writing the two
\* files.  A mailbox cut short by a kill repairs itself.
MailboxFollowsLog ==
  /\ broken \cap {"staleView", "mixed", "emptied"} = {}
  /\ Unlocked
  /\ mailbox.readable
  => mailbox.content = Replayed(Log)

\* dispatch.json, from which the team layer reads the requests, shows the log
\* whenever no command is under way, unless a process wrote its view late or
\* was killed before it.
ViewFollowsLog ==
  /\ broken \cap {"staleView", "noView", "emptied"} = {}
  /\ \A p \in Exec : exec[p].step \notin Persisting \cup Viewing
  /\ view.readable
  => view.content = Log \cap DispatchEvent

Abstract ==
  INSTANCE EventLog WITH
    log <- Log,
    sound <- broken \cap {"lostUpdate", "emptied"} = {}

\* The engine is the log its callers rely on, and even a lost update or a
\* log cut short leaves a log that an engine could have written: no request
\* is both delivered and failed in it, and no two leaders hold authority.
ImplementsEventLog == Abstract!Spec
=============================================================================
