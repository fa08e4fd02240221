------------------------- MODULE RuntimeEngineProofs -------------------------
(***************************************************************************)
(* Theorems about RuntimeEngine, for any processes, requests, messages and *)
(* leaders and any number of kills: which accident costs what, and that    *)
(* the engine implements EventLog.                                         *)
(***************************************************************************)
EXTENDS RuntimeEngine, TLAPS

USE ConstantAssumption

-----------------------------------------------------------------------------
(* Events and logs.                                                        *)

LEMMA ProcessedIsMemory ==
  ASSUME NEW memory \in Memory, NEW e \in Event
  PROVE  Processed(memory, e) \in Memory
BY DEF Processed, Memory

\* What is loaded can be processed further.
LEMMA OnDiskIsMemory == TypeOK => OnDisk \in Memory
BY DEF TypeOK, OnDisk, Memory, Fresh, File, Replayed

\* A log stays one that an engine could have written.
LEMMA AcceptedIsLegal ==
  ASSUME NEW L \in SUBSET Event, Legal(L), NEW e \in Event,
         AcceptsDispatch(L, e), AcceptsAuthority(L, e)
  PROVE  Legal(L \cup {e})
<1> DEFINE M == L \cup {e}
<1>1. ASSUME NEW r \in Request,
             NEW kind \in {"notified", "delivered", "failed"},
             <<kind, r>> \in M
      PROVE  <<"queued", r>> \in M
  <2>1. CASE <<kind, r>> \in L  BY <2>1 DEF Legal
  <2>2. CASE e = <<kind, r>>
    <3>1. e[1] = kind /\ e[2] = r  BY <2>2
    <3>2. CASE kind = "delivered"
      <4>1. <<"notified", r>> \in L  BY <3>1, <3>2 DEF AcceptsDispatch
      <4>2. QED BY <4>1 DEF Legal
    <3>3. CASE kind # "delivered"
      BY <3>1, <3>3 DEF AcceptsDispatch
    <3>4. QED BY <3>2, <3>3
  <2>3. QED BY <1>1, <2>1, <2>2
<1>2. ASSUME NEW r \in Request, <<"delivered", r>> \in M
      PROVE  <<"notified", r>> \in M /\ <<"failed", r>> \notin M
  <2>1. CASE e = <<"delivered", r>>
    <3>1. e[1] = "delivered" /\ e[2] = r  BY <2>1
    <3>2. <<"notified", r>> \in L /\ <<"failed", r>> \notin L
      BY <3>1 DEF AcceptsDispatch
    <3>3. QED BY <2>1, <3>2
  <2>2. CASE e # <<"delivered", r>>
    <3>1. <<"delivered", r>> \in L  BY <1>2, <2>2
    <3>2. <<"notified", r>> \in L /\ <<"failed", r>> \notin L
      BY <3>1 DEF Legal
    <3>3. e # <<"failed", r>>  BY <3>1 DEF AcceptsDispatch
    <3>4. QED BY <3>2, <3>3
  <2>3. QED BY <2>1, <2>2
<1>3. ASSUME NEW o \in Owner, <<"renewed", o>> \in M
      PROVE  <<"acquired", o>> \in M
  <2>1. CASE e = <<"renewed", o>>
    <3>1. e[1] = "renewed" /\ e[2] = o  BY <2>1
    <3>2. QED BY <3>1 DEF AcceptsAuthority
  <2>2. CASE <<"renewed", o>> \in L  BY <2>2 DEF Legal
  <2>3. QED BY <1>3, <2>1, <2>2
<1>4. ASSUME NEW o \in Owner, <<"acquired", o>> \in M,
             NEW other \in Owner, <<"acquired", other>> \in M
      PROVE  other = o
  <2>1. ASSUME NEW x \in Owner, e = <<"acquired", x>>,
               NEW y \in Owner, <<"acquired", y>> \in L
        PROVE  y = x
    <3>1. e[1] = "acquired" /\ e[2] = x  BY <2>1
    <3>2. QED BY <2>1, <3>1 DEF AcceptsAuthority
  <2>2. CASE <<"acquired", o>> \in L /\ <<"acquired", other>> \in L
    BY <2>2 DEF Legal
  <2>3. CASE e = <<"acquired", o>> /\ e = <<"acquired", other>>
    <3>1. e[2] = o /\ e[2] = other  BY <2>3
    <3>2. QED BY <3>1
  <2>4. QED BY <1>4, <2>1, <2>2, <2>3
<1>5. QED BY <1>1, <1>2, <1>3, <1>4 DEF Legal

\* Every mark in the log is of a message that the log knows.
Closed(L) == L \cap MailEvent = Replayed(L)

LEMMA ProcessedMail ==
  ASSUME NEW memory \in Memory, NEW e \in Event, AcceptsMail(memory.mail, e),
         Closed(memory.log), memory.mail = Replayed(memory.log)
  PROVE  /\ Closed(Processed(memory, e).log)
         /\ Processed(memory, e).mail = Replayed(Processed(memory, e).log)
<1> DEFINE L == memory.log
           M == memory.log \cup {e}
<1>0. /\ Processed(memory, e).log = M
      /\ Processed(memory, e).mail =
           IF e \in MailEvent THEN memory.mail \cup {e} ELSE memory.mail
  BY DEF Processed
<1>1. CASE e \in MailEvent
  <2>1. <<"created", e[2]>> \in M
    <3>1. CASE e[1] = "created"  BY <1>1, <3>1 DEF MailEvent
    <3>2. CASE e[1] # "created"
      BY <1>1, <3>2 DEF MailEvent, AcceptsMail, Replayed
    <3>3. QED BY <3>1, <3>2
  <2>2. M \cap MailEvent \subseteq Replayed(M)
    BY <1>1, <2>1 DEF Closed, Replayed
  <2>3. Replayed(M) \subseteq M \cap MailEvent  BY DEF Replayed
  <2>4. (L \cap MailEvent) \cup {e} = M \cap MailEvent  BY <1>1
  <2>5. QED BY <1>0, <1>1, <2>2, <2>3, <2>4 DEF Closed
<1>2. CASE e \notin MailEvent
  <2>1. M \cap MailEvent = L \cap MailEvent  BY <1>2
  <2>2. \A d \in MailEvent : <<"created", d[2]>> \in MailEvent
    BY DEF MailEvent
  <2>3. Replayed(M) = Replayed(L)  BY <1>2, <2>1, <2>2 DEF Replayed
  <2>4. QED BY <1>0, <1>2, <2>1, <2>3 DEF Closed
<1>3. QED BY <1>1, <1>2

-----------------------------------------------------------------------------
(* Types.                                                                  *)

\* A process that runs has a command.
CmdKnown == \A p \in Exec : exec[p].step # "idle" => exec[p].cmd \in Event

LEMMA InitTypeOK == Init => TypeOK /\ CmdKnown
BY DEF Init, TypeOK, CmdKnown, Unreadable, File, Idle, Process, Memory, Fresh,
       Step

LEMMA IdleIsProcess == Idle \in Process
BY DEF Idle, Process, Memory, Fresh, Step

LEMMA GotoIsProcess ==
  ASSUME TypeOK, CmdKnown, NEW p \in Exec, NEW step \in Step,
         ~At(p, "idle"), Goto(p, step)
  PROVE  exec' \in [Exec -> Process] /\ CmdKnown'
BY DEF TypeOK, CmdKnown, At, Goto, Process

LEMMA NextKeepsTypes == TypeOK /\ CmdKnown /\ [Next]_vars => TypeOK' /\ CmdKnown'
<1> SUFFICES ASSUME TypeOK, CmdKnown, [Next]_vars PROVE TypeOK' /\ CmdKnown'
  OBVIOUS
<1>u. Unreadable \in File(Event) /\ Unreadable \in File(MailEvent)
      /\ Unreadable \in File(DispatchEvent)
  BY DEF Unreadable, File
<1>h. \A S : \A T \in SUBSET S : Holding(T) \in File(S)
  BY DEF Holding, File
<1>m. \A p \in Exec : /\ exec[p].memory.log \in SUBSET Event
                      /\ exec[p].memory.mail \in SUBSET MailEvent
  BY DEF TypeOK, Process, Memory
<1>s. {"torn", "written", "mailTorn", "persisted", "viewTorn", "viewed",
       "copyTorn"} \subseteq Step
  BY DEF Step, Persisting, Viewing
<1>1. CASE UNCHANGED vars  BY <1>1 DEF vars, TypeOK, CmdKnown
<1>2. ASSUME NEW p \in Exec, NEW e \in Event, Start(p, e)
      PROVE  TypeOK' /\ CmdKnown'
  <2>1. [step |-> "started", cmd |-> e, memory |-> Fresh, stale |-> FALSE]
           \in Process
    BY DEF Process, Memory, Fresh, Step
  <2>2. exec' \in [Exec -> Process] /\ CmdKnown'
    BY <1>2, <2>1 DEF Start, TypeOK, CmdKnown
  <2>3. issued' \subseteq Request \cup Message
    <3>1. e[1] \in {"queued", "created"} => e[2] \in Request \cup Message
      BY DEF Event, DispatchEvent, MailEvent, AuthorityEvent
    <3>2. QED BY <1>2, <3>1 DEF Start, TypeOK
  <2>4. commands' \in Nat  BY <1>2 DEF Start, TypeOK
  <2>5. QED BY <1>2, <2>2, <2>3, <2>4 DEF Start, TypeOK
<1>3. ASSUME NEW p \in Exec, Load(p) PROVE TypeOK' /\ CmdKnown'
  <2>1. exec[p].cmd \in Event  BY <1>3 DEF Load, At, CmdKnown
  <2>2. [step |-> "loaded", cmd |-> exec[p].cmd,
         memory |-> Processed(OnDisk, exec[p].cmd), stale |-> FALSE] \in Process
    BY <2>1, OnDiskIsMemory, ProcessedIsMemory DEF Process, Step
  <2>3. exec' \in [Exec -> Process] /\ CmdKnown'
    <3>1. CASE Accepts(OnDisk, exec[p].cmd)
      BY <1>3, <2>1, <2>2, <3>1 DEF Load, TypeOK, CmdKnown
    <3>2. CASE ~Accepts(OnDisk, exec[p].cmd)
      BY <1>3, <3>2, IdleIsProcess DEF Load, TypeOK, CmdKnown, Idle
    <3>3. QED BY <3>1, <3>2
  <2>4. QED BY <1>3, <2>3 DEF Load, TypeOK
<1>4. ASSUME NEW p \in Exec, Persist(p) PROVE TypeOK' /\ CmdKnown'
  <2>1. exec' \in [Exec -> Process] /\ CmdKnown'
    BY <1>4, <1>s DEF Persist, At, TypeOK, CmdKnown, Process
  <2>2. QED BY <1>4, <1>u, <2>1 DEF Persist, TypeOK, Fault
<1>5. ASSUME NEW p \in Exec, WriteEvents(p) \/ EmptyMailbox(p) \/ EmptyView(p)
                             \/ EmptyCopy(p)
      PROVE  TypeOK' /\ CmdKnown'
  <2>1. exec' \in [Exec -> Process] /\ CmdKnown'
    BY <1>5, <1>s, GotoIsProcess
       DEF WriteEvents, EmptyMailbox, EmptyView, EmptyCopy, At
  <2>2. QED
    BY <1>5, <1>u, <1>h, <1>m, <2>1
       DEF WriteEvents, EmptyMailbox, EmptyView, EmptyCopy, TypeOK
<1>6. ASSUME NEW p \in Exec, WriteMailbox(p) \/ WriteView(p)
      PROVE  TypeOK' /\ CmdKnown'
  <2>1. exec' \in [Exec -> Process] /\ CmdKnown'
    BY <1>6, <1>s, GotoIsProcess DEF WriteMailbox, WriteView, At
  <2>2. mailbox' \in File(MailEvent)
    BY <1>6, <1>u, <1>h, <1>m
       DEF WriteMailbox, WriteView, Overwritten, TypeOK
  <2>3. view' \in File(DispatchEvent)
    BY <1>6, <1>u, <1>h, <1>m
       DEF WriteMailbox, WriteView, Overwritten, TypeOK
  <2>4. QED
    BY <1>6, <2>1, <2>2, <2>3
       DEF WriteMailbox, WriteView, Outdated, TypeOK, Fault
<1>7. ASSUME NEW p \in Exec, WriteCopy(p) PROVE TypeOK' /\ CmdKnown'
  <2>1. exec' \in [Exec -> Process] /\ CmdKnown'
    BY <1>7, IdleIsProcess DEF WriteCopy, TypeOK, CmdKnown, Idle
  <2>2. mailbox' \in File(MailEvent)
    BY <1>7, <1>u, <1>h, <1>m DEF WriteCopy, Overwritten
  <2>3. acked' \subseteq Event
    BY <1>7 DEF WriteCopy, At, TypeOK, CmdKnown
  <2>4. QED BY <1>7, <2>1, <2>2, <2>3 DEF WriteCopy, Outdated, TypeOK, Fault
<1>8. ASSUME NEW p \in Exec, Kill(p) PROVE TypeOK' /\ CmdKnown'
  <2>1. exec' \in [Exec -> Process] /\ CmdKnown'
    BY <1>8, IdleIsProcess DEF Kill, TypeOK, CmdKnown, Idle
  <2>2. broken' \subseteq Fault  BY <1>8 DEF Kill, TypeOK, Fault
  <2>3. QED BY <1>8, <2>1, <2>2 DEF Kill, TypeOK
<1>9. QED
  BY <1>1, <1>2, <1>3, <1>4, <1>5, <1>6, <1>7, <1>8 DEF Next

\* Every reachable state is well typed.
THEOREM TypeCorrect == Spec => []TypeOK
<1>1. Spec => [](TypeOK /\ CmdKnown)
  BY InitTypeOK, NextKeepsTypes, PTL DEF Spec
<1>2. QED BY <1>1, PTL

-----------------------------------------------------------------------------
(* Who holds the lock, and whose log is on file.                           *)

HasPersisted(p) == exec[p].step \in Persisting \cup Viewing

Current(p) == HasPersisted(p) /\ ~exec[p].stale

\* Nobody begins to persist while another does.
HolderCurrent == \A p \in Exec : exec[p].step \in Persisting => ~exec[p].stale

OneCurrent == \A p, q \in Exec : Current(p) /\ Current(q) => p = q

CurrentWrote ==
  \A p \in Exec : Current(p) =>
    IF exec[p].step = "torn" THEN ~events.readable
    ELSE events = Holding(exec[p].memory.log)

SInv == TypeOK /\ CmdKnown /\ HolderCurrent /\ OneCurrent /\ CurrentWrote

LEMMA InitSInv == Init => SInv
BY InitTypeOK
   DEF Init, SInv, HolderCurrent, OneCurrent, CurrentWrote, Current,
       HasPersisted, Idle, Persisting, Viewing

\* A process moves on without a change of what it holds.
Moves(p, step) ==
  /\ exec'[p].step = step /\ exec'[p].cmd = exec[p].cmd
  /\ exec'[p].memory = exec[p].memory /\ exec'[p].stale = exec[p].stale
  /\ \A q \in Exec \ {p} : exec'[q] = exec[q]

LEMMA GotoMoves ==
  ASSUME TypeOK, NEW p \in Exec, NEW step, Goto(p, step)
  PROVE  Moves(p, step)
BY DEF Goto, Moves, TypeOK, Process

\* The steps of a process that has persisted, up to its last.
Carries(p, step) ==
  \/ WriteEvents(p) /\ step = "written"
  \/ EmptyMailbox(p) /\ step = "mailTorn"
  \/ WriteMailbox(p) /\ step = "persisted"
  \/ EmptyView(p) /\ step = "viewTorn"
  \/ WriteView(p) /\ step = "viewed"
  \/ EmptyCopy(p) /\ step = "copyTorn"

\* A process has not persisted by this step, or is no more.
Outside(p) ==
  /\ exec'[p].step \in {"idle", "started", "loaded"}
  /\ \A q \in Exec \ {p} : exec'[q] = exec[q]

LEMMA StepsOutside ==
  ASSUME TypeOK, NEW p \in Exec,
         \/ \E e \in Event : Start(p, e)
         \/ Load(p) \/ WriteCopy(p) \/ Kill(p)
  PROVE  Outside(p) /\ events' = events
BY DEF TypeOK, Start, Load, WriteCopy, Kill, Outside, Idle

\* What Persist does to the processes.
Persists(p) ==
  /\ exec'[p].step = "torn" /\ exec'[p].cmd = exec[p].cmd
  /\ exec'[p].memory = exec[p].memory /\ ~exec'[p].stale
  /\ \A q \in Exec \ {p} :
       /\ exec'[q].step = exec[q].step /\ exec'[q].cmd = exec[q].cmd
       /\ exec'[q].memory = exec[q].memory /\ exec'[q].stale

LEMMA PersistPersists ==
  ASSUME NEW p \in Exec, Persist(p)
  PROVE  Persists(p) /\ events' = Unreadable
BY DEF Persist, Persists

LEMMA NextKeepsSInv == SInv /\ [Next]_vars => SInv'
<1> SUFFICES ASSUME SInv, [Next]_vars
             PROVE  HolderCurrent' /\ OneCurrent' /\ CurrentWrote'
  BY NextKeepsTypes DEF SInv
<1>t. TypeOK  BY DEF SInv
<1> USE DEF HolderCurrent, OneCurrent, CurrentWrote, Current, HasPersisted,
            Persisting, Viewing
<1>1. CASE UNCHANGED vars  BY <1>1 DEF vars, SInv
<1>2. ASSUME NEW p \in Exec,
             \/ \E e \in Event : Start(p, e)
             \/ Load(p) \/ WriteCopy(p) \/ Kill(p)
      PROVE  HolderCurrent' /\ OneCurrent' /\ CurrentWrote'
  BY <1>2, <1>t, StepsOutside DEF SInv, Outside
<1>3. ASSUME NEW p \in Exec, Persist(p)
      PROVE  HolderCurrent' /\ OneCurrent' /\ CurrentWrote'
  <2>1. \A q \in Exec : exec[q].step \notin Persisting
    BY <1>3 DEF Persist, Unlocked
  <2>2. QED
    BY <1>3, <1>t, <2>1, PersistPersists DEF SInv, Persists, Unreadable
<1>4. ASSUME NEW p \in Exec, WriteEvents(p)
      PROVE  HolderCurrent' /\ OneCurrent' /\ CurrentWrote'
  <2>1. Moves(p, "written") /\ exec[p].step = "torn"
        /\ events' = Holding(exec[p].memory.log)
    BY <1>4, <1>t, GotoMoves DEF WriteEvents, At
  <2>2. QED BY <2>1 DEF SInv, Moves
<1>5. ASSUME NEW p \in Exec, NEW step, Carries(p, step), step # "written"
      PROVE  HolderCurrent' /\ OneCurrent' /\ CurrentWrote'
  <2>1. /\ Moves(p, step) /\ events' = events
        /\ exec[p].step \in {"written", "mailTorn", "persisted", "viewTorn",
                             "viewed"}
        /\ step \in {"mailTorn", "persisted", "viewTorn", "viewed", "copyTorn"}
        /\ step = "mailTorn" => exec[p].step = "written"
    BY <1>5, <1>t, GotoMoves
       DEF Carries, EmptyMailbox, WriteMailbox, EmptyView, WriteView, EmptyCopy, At
  <2>2. QED BY <2>1 DEF SInv, Moves
<1>6. QED BY <1>1, <1>2, <1>3, <1>4, <1>5 DEF Next, Carries

-----------------------------------------------------------------------------
(* The log.                                                                *)

\* What Log amounts to when one process at most is writing.
LogIs ==
  /\ events.readable => Log = events.content
  /\ \A p \in Exec : Current(p) => Log = exec[p].memory.log
  /\ ~events.readable /\ (\A p \in Exec : ~At(p, "torn")) => Log = {}

LEMMA LogMapped == SInv => LogIs
<1> SUFFICES ASSUME SInv PROVE LogIs
  OBVIOUS
<1>1. ASSUME NEW p \in Exec, Current(p) PROVE Log = exec[p].memory.log
  <2>1. CASE exec[p].step = "torn"
    <3>1. ~events.readable  BY <1>1, <2>1 DEF SInv, CurrentWrote
    <3>2. \A q \in Exec : At(q, "torn") => q = p
      BY <1>1
         DEF SInv, HolderCurrent, OneCurrent, At, Current, HasPersisted,
             Persisting
    <3>3. At(p, "torn")  BY <2>1 DEF At
    <3>4. (CHOOSE q \in Exec : At(q, "torn")) = p  BY <3>2, <3>3
    <3>5. QED BY <3>1, <3>3, <3>4 DEF Log
  <2>2. CASE exec[p].step # "torn"
    <3>1. events = Holding(exec[p].memory.log)
      BY <1>1, <2>2 DEF SInv, CurrentWrote
    <3>2. QED BY <3>1 DEF Log, Holding
  <2>3. QED BY <2>1, <2>2
<1>2. QED BY <1>1 DEF LogIs, Log

LEMMA LogMappedNext == SInv' => LogIs'
BY LogMapped, PTL

\* The log changes when a process begins to persist, and is lost when one is
\* killed before it has written events.json.
LogStep ==
  \/ \E p \in Exec : Persist(p) /\ Log' = exec[p].memory.log
  \/ \E p \in Exec : Kill(p) /\ At(p, "torn") /\ Log' = {}
  \/ /\ Log' = Log
     /\ \A p \in Exec : ~Persist(p) /\ ~(Kill(p) /\ At(p, "torn"))

LEMMA NextLogStep ==
  ASSUME SInv, [Next]_vars
  PROVE  LogStep
<1>t. TypeOK /\ SInv'  BY NextKeepsSInv DEF SInv
<1>l. LogIs /\ LogIs'  BY <1>t, LogMapped, LogMappedNext
<1>1. ASSUME NEW p \in Exec, Persist(p) PROVE LogStep
  <2>1. Persists(p)  BY <1>1, PersistPersists
  <2>2. Current(p)'
    BY <2>1 DEF Persists, Current, HasPersisted, Persisting
  <2>3. Log' = exec[p].memory.log  BY <1>l, <2>1, <2>2 DEF LogIs, Persists
  <2>4. QED BY <1>1, <2>3 DEF LogStep
<1>2. ASSUME NEW p \in Exec, Kill(p), At(p, "torn") PROVE LogStep
  <2>1. Outside(p) /\ events' = events  BY <1>2, <1>t, StepsOutside
  <2>2. Current(p)
    BY <1>2 DEF At, SInv, HolderCurrent, Current, HasPersisted, Persisting
  <2>3. ~events.readable  BY <1>2, <2>2 DEF SInv, CurrentWrote, At
  <2>4. \A q \in Exec : At(q, "torn") => q = p
    BY <2>2
       DEF At, SInv, HolderCurrent, OneCurrent, Current, HasPersisted,
           Persisting
  <2>5. \A q \in Exec : ~At(q, "torn")'
    BY <2>1, <2>4 DEF Outside, At
  <2>6. Log' = {}  BY <1>l, <2>1, <2>3, <2>5 DEF LogIs
  <2>7. QED BY <1>2, <2>6 DEF LogStep
<1>3. CASE \A p \in Exec : ~Persist(p) /\ ~(Kill(p) /\ At(p, "torn"))
  <2> SUFFICES Log' = Log
    BY <1>3 DEF LogStep
  <2>1. CASE \E p \in Exec : WriteEvents(p)
    <3>1. PICK p \in Exec : WriteEvents(p)  BY <2>1
    <3>2. Current(p)
      BY <3>1 DEF WriteEvents, At, SInv, HolderCurrent, Current, HasPersisted,
                  Persisting
    <3>3. events' = Holding(exec[p].memory.log)
      BY <3>1 DEF WriteEvents
    <3>4. QED BY <3>2, <3>3, <1>l DEF LogIs, Holding
  <2>2. CASE ~\E p \in Exec : WriteEvents(p)
    <3>1. events' = events
      BY <1>3, <2>2
         DEF Next, Start, Load, EmptyMailbox, WriteMailbox, EmptyView,
             WriteView, EmptyCopy, WriteCopy, Kill, vars
    <3> DEFINE Same ==
                 \A q \in Exec :
                   /\ exec'[q].step = "torn" <=> exec[q].step = "torn"
                   /\ exec[q].step = "torn" => exec'[q].memory = exec[q].memory
    <3>2. Same
      <4>1. CASE UNCHANGED vars  BY <4>1 DEF vars
      <4>2. ASSUME NEW p \in Exec,
                   \/ \E e \in Event : Start(p, e)
                   \/ Load(p) \/ WriteCopy(p) \/ Kill(p)
            PROVE  Same
        BY <4>2, <1>3, <1>t, StepsOutside
           DEF Outside, At, Start, Load, WriteCopy
      <4>3. ASSUME NEW p \in Exec, NEW step, Carries(p, step), step # "written"
            PROVE  Same
        <5>1. Moves(p, step) /\ exec[p].step # "torn" /\ step # "torn"
          BY <4>3, <1>t, GotoMoves
             DEF Carries, EmptyMailbox, WriteMailbox, EmptyView, WriteView, EmptyCopy,
                 At
        <5>2. QED BY <5>1 DEF Moves
      <4>4. QED BY <1>3, <2>2, <4>1, <4>2, <4>3 DEF Next, Carries
    <3>3. CASE events.readable  BY <1>l, <3>1, <3>3 DEF LogIs
    <3>4. CASE ~events.readable /\ \A q \in Exec : ~At(q, "torn")
      BY <1>l, <3>1, <3>2, <3>4 DEF LogIs, At
    <3>5. ASSUME NEW q \in Exec, At(q, "torn") PROVE Log' = Log
      <4>1. Current(q) /\ Current(q)'
        BY <3>2, <3>5, <1>t
           DEF At, SInv, HolderCurrent, Current, HasPersisted, Persisting
      <4>2. QED BY <1>l, <3>2, <3>5, <4>1 DEF LogIs, At
    <3>6. QED BY <3>3, <3>4, <3>5
  <2>3. QED BY <2>1, <2>2
<1>4. QED BY <1>1, <1>2, <1>3

LEMMA UnlockedLog == SInv /\ Unlocked => OnDisk.log = Log
BY DEF Unlocked, OnDisk, Log, At, Persisting, Fresh

LEMMA CarriesMoves ==
  ASSUME TypeOK, NEW p \in Exec, NEW step, Carries(p, step)
  PROVE  /\ Moves(p, step) /\ HasPersisted(p)
         /\ step \in (Persisting \cup Viewing) \ {"torn"}
         /\ exec[p].step \in Viewing => step \in Viewing
         /\ acked' = acked
         /\ broken' = broken \/ (broken' = Outdated(p) /\ WriteView(p))
BY GotoMoves
   DEF Carries, WriteEvents, EmptyMailbox, WriteMailbox, EmptyView, WriteView,
       EmptyCopy, At, HasPersisted, Persisting, Viewing

\* Only Persist and a kill in its midst change the log.
LEMMA SameLog ==
  ASSUME TypeOK, LogStep, NEW p \in Exec, exec[p].step # "torn", Outside(p)
  PROVE  Log' = Log
<1>1. \A q \in Exec : ~Persist(q)
  BY PersistPersists DEF Outside, Persists, Persist, At
<1>2. ASSUME NEW q \in Exec, Kill(q), At(q, "torn") PROVE FALSE
  <2>1. exec'[q].step = "idle"  BY <1>2 DEF Kill, TypeOK, Idle
  <2>2. QED BY <1>2, <2>1 DEF Outside, At
<1>3. QED BY <1>1, <1>2 DEF LogStep

LEMMA CarriesKeepsLog ==
  ASSUME TypeOK, LogStep, NEW p \in Exec, NEW step, Carries(p, step)
  PROVE  Log' = Log
<1>1. Moves(p, step) /\ step \in (Persisting \cup Viewing) \ {"torn"}
  BY CarriesMoves
<1>2. \A q \in Exec : ~Persist(q)
  BY <1>1, PersistPersists DEF Moves, Persists, Persist, At
<1>3. ASSUME NEW q \in Exec, Kill(q), At(q, "torn") PROVE FALSE
  <2>1. exec'[q].step = "idle"  BY <1>3 DEF Kill, TypeOK, Idle
  <2>2. QED BY <1>1, <1>3, <2>1 DEF Moves, At, Persisting, Viewing
<1>4. QED BY <1>2, <1>3 DEF LogStep

-----------------------------------------------------------------------------
(* What was acknowledged is kept, and EventLog is implemented.             *)

Sound == broken \cap {"lostUpdate", "emptied"} = {}

HasLoaded(p) == HasPersisted(p) \/ exec[p].step = "loaded"

LegalLogs ==
  /\ Legal(Log)
  /\ \A p \in Exec : HasLoaded(p) => Legal(exec[p].memory.log)

\* A process about to persist adds its event to the log, unless another has
\* persisted since it loaded.
LoadedFromLog ==
  Sound =>
    \A p \in Exec : At(p, "loaded") /\ ~exec[p].stale =>
      /\ exec[p].memory.log = Log \cup {exec[p].cmd}
      /\ AcceptsDispatch(Log, exec[p].cmd)
      /\ AcceptsAuthority(Log, exec[p].cmd)

PersistedIsKept ==
  Sound => /\ acked \subseteq Log
           /\ \A p \in Exec : HasPersisted(p) => exec[p].cmd \in Log

LInv == SInv /\ LegalLogs /\ LoadedFromLog /\ PersistedIsKept

LEMMA InitLInv == Init => LInv
<1> SUFFICES ASSUME Init PROVE LInv
  OBVIOUS
<1>1. SInv  BY InitSInv
<1>2. Log = {}  BY DEF Init, Log, Unreadable, At, Idle
<1>3. Legal({})  BY DEF Legal
<1>4. QED
  BY <1>1, <1>2, <1>3
     DEF Init, LInv, LegalLogs, LoadedFromLog, PersistedIsKept, HasLoaded,
         HasPersisted, At, Idle, Persisting, Viewing

LEMMA SoundOnce == [Next]_vars /\ Sound' => Sound
BY DEF Sound, Next, Start, Load, Persist, WriteEvents, EmptyMailbox,
       WriteMailbox, EmptyView, WriteView, EmptyCopy, WriteCopy, Kill, Outdated,
       vars

LEMMA NextKeepsLInv == LInv /\ [Next]_vars => LInv'
<1> SUFFICES ASSUME LInv, [Next]_vars
             PROVE  LegalLogs' /\ LoadedFromLog' /\ PersistedIsKept'
  BY NextKeepsSInv DEF LInv
<1> DEFINE Kept == LegalLogs' /\ LoadedFromLog' /\ PersistedIsKept'
<1>t. TypeOK /\ SInv /\ SInv'  BY NextKeepsSInv DEF LInv, SInv
<1>s. LogStep /\ (Sound' => Sound)  BY <1>t, NextLogStep, SoundOnce
<1> USE DEF LegalLogs, LoadedFromLog, PersistedIsKept, HasLoaded, HasPersisted,
            At
<1>1. CASE UNCHANGED vars
  <2>1. Log' = Log  BY <1>1 DEF vars, Log
  <2>2. QED BY <1>1, <2>1 DEF vars, LInv, Sound
<1>2. ASSUME NEW p \in Exec, NEW e \in Event, Start(p, e) PROVE Kept
  <2>1. Outside(p) /\ exec'[p].step = "started"
        /\ acked' = acked
    BY <1>2, <1>t, StepsOutside DEF Start, TypeOK
  <2>2. Log' = Log
    BY <1>2, <1>s, <1>t, <2>1, SameLog DEF Start
  <2>3. QED
    BY <1>s, <2>1, <2>2 DEF LInv, Outside, Persisting, Viewing
<1>3. ASSUME NEW p \in Exec, Load(p) PROVE Kept
  <2>1. Outside(p) /\ acked' = acked
    BY <1>3, <1>t, StepsOutside DEF Load
  <2>2. Log' = Log
    BY <1>3, <1>s, <1>t, <2>1, SameLog DEF Load
  <2>3. OnDisk.log = Log  BY <1>3, <1>t, UnlockedLog DEF Load
  <2>4. exec[p].cmd \in Event /\ Log \in SUBSET Event
    <3>1. exec[p].cmd \in Event  BY <1>3, <1>t DEF Load, SInv, CmdKnown
    <3>2. OnDisk.log \in SUBSET Event  BY <1>t, OnDiskIsMemory DEF Memory
    <3>3. QED BY <2>3, <3>1, <3>2
  <2>5. CASE Accepts(OnDisk, exec[p].cmd)
    <3>1. /\ exec'[p].step = "loaded" /\ exec'[p].cmd = exec[p].cmd
          /\ exec'[p].memory = Processed(OnDisk, exec[p].cmd)
      BY <1>3, <1>t, <2>5 DEF Load, TypeOK
    <3>2. /\ AcceptsDispatch(Log, exec[p].cmd)
          /\ AcceptsAuthority(Log, exec[p].cmd)
      BY <2>3, <2>5 DEF Accepts
    <3>3. exec'[p].memory.log = Log \cup {exec[p].cmd}
      BY <2>3, <3>1 DEF Processed
    <3>4. Legal(Log \cup {exec[p].cmd})
      BY <2>4, <3>2, AcceptedIsLegal DEF LInv
    <3>5. QED
      BY <1>s, <2>1, <2>2, <3>1, <3>2, <3>3, <3>4
         DEF LInv, Outside, Persisting, Viewing
  <2>6. CASE ~Accepts(OnDisk, exec[p].cmd)
    <3>1. exec'[p].step = "idle"  BY <1>3, <1>t, <2>6 DEF Load, TypeOK, Idle
    <3>2. QED
      BY <1>s, <2>1, <2>2, <3>1 DEF LInv, Outside, Persisting, Viewing
  <2>7. QED BY <2>5, <2>6
<1>4. ASSUME NEW p \in Exec, Persist(p) PROVE Kept
  <2>1. Persists(p) /\ exec[p].step = "loaded" /\ acked' = acked
    BY <1>4, PersistPersists DEF Persist
  <2>2. Log' = exec[p].memory.log
    <3>1. \A q \in Exec : Persist(q) => q = p
      BY <1>4, <2>1 DEF Persist, Persists
    <3>2. \A q \in Exec : ~Kill(q)
      BY <1>4, <1>t, <2>1, StepsOutside DEF Persists, Outside
    <3>3. QED BY <1>4, <1>s, <3>1, <3>2 DEF LogStep
  <2>3. LegalLogs'
    BY <2>1, <2>2 DEF LInv, Persists, Persisting, Viewing
  <2>4. ASSUME Sound' PROVE /\ ~exec[p].stale
                            /\ Log' = Log \cup {exec[p].cmd}
    <3>1. ~exec[p].stale  BY <1>4, <2>4 DEF Persist, Sound
    <3>2. QED BY <1>s, <2>1, <2>2, <2>4, <3>1 DEF LInv
  <2>5. LoadedFromLog'
    BY <2>1 DEF Persists
  <2>6. PersistedIsKept'
    BY <1>s, <2>1, <2>4 DEF LInv, Persists, Persisting, Viewing
  <2>7. QED BY <2>3, <2>5, <2>6
<1>5. ASSUME NEW p \in Exec, NEW step, Carries(p, step) PROVE Kept
  <2>1. /\ Moves(p, step) /\ HasPersisted(p) /\ acked' = acked
        /\ step \in Persisting \cup Viewing
    BY <1>5, <1>t, CarriesMoves
  <2>2. Log' = Log  BY <1>5, <1>s, <1>t, CarriesKeepsLog
  <2>3. QED BY <1>s, <2>1, <2>2 DEF LInv, Moves, Persisting, Viewing
<1>6. ASSUME NEW p \in Exec, WriteCopy(p) PROVE Kept
  <2>1. /\ Outside(p) /\ exec'[p].step = "idle" /\ HasPersisted(p)
        /\ acked' = acked \cup {exec[p].cmd}
    BY <1>6, <1>t, StepsOutside DEF WriteCopy, TypeOK, Idle, Viewing
  <2>2. Log' = Log
    BY <1>6, <1>s, <1>t, <2>1, SameLog DEF WriteCopy
  <2>3. QED
    BY <1>s, <2>1, <2>2 DEF LInv, Outside, Persisting, Viewing
<1>7. ASSUME NEW p \in Exec, Kill(p) PROVE Kept
  <2>1. Outside(p) /\ exec'[p].step = "idle" /\ acked' = acked
    BY <1>7, <1>t, StepsOutside DEF Kill, TypeOK, Idle
  <2>2. Legal(Log')
    <3>1. \A q \in Exec : ~Persist(q)
      BY <2>1, PersistPersists DEF Outside, Persists, Persist
    <3>2. Legal({})  BY DEF Legal
    <3>3. QED BY <1>s, <3>1, <3>2 DEF LogStep, LInv
  <2>3. Sound' => Log' = Log
    <3>1. ASSUME Sound', NEW q \in Exec, Kill(q), exec[q].step = "torn"
          PROVE  FALSE
      BY <3>1 DEF Kill, Sound
    <3>2. \A q \in Exec : ~Persist(q)
      BY <2>1, PersistPersists DEF Outside, Persists, Persist
    <3>3. QED BY <1>s, <3>1, <3>2 DEF LogStep
  <2>4. QED BY <1>s, <2>1, <2>2, <2>3 DEF LInv, Outside, Persisting, Viewing
<1>8. QED
  BY <1>1, <1>2, <1>3, <1>4, <1>5, <1>6, <1>7 DEF Next, Carries

\* A command that returned successfully is in the log, unless a process
\* persisted over another or was killed while events.json was empty.
THEOREM AckedKept == Spec => []AckedIsKept
<1>1. LInv => AckedIsKept  BY DEF LInv, PersistedIsKept, Sound, AckedIsKept
<1>2. QED BY <1>1, InitLInv, NextKeepsLInv, PTL DEF Spec

LogTypeOK == Log \in SUBSET Event

LEMMA LogTyped == TypeOK => LogTypeOK
<1> SUFFICES ASSUME TypeOK PROVE LogTypeOK
  OBVIOUS
<1>1. CASE events.readable  BY <1>1 DEF Log, LogTypeOK, TypeOK, File
<1>2. \A p \in Exec : exec[p].memory.log \in SUBSET Event
  BY DEF TypeOK, Process, Memory
<1>3. QED BY <1>1, <1>2 DEF Log, LogTypeOK

LEMMA LogTypedNext == TypeOK' => LogTypeOK'
BY LogTyped, PTL

LEMMA InitImplements == Init => Abstract!Init
BY DEF Init, Abstract!Init, Log, Unreadable, At, Idle

LEMMA StepImplements ==
  ASSUME LInv, [Next]_vars
  PROVE  [Abstract!Next]_<<Log, acked, Sound>>
<1>t. TypeOK /\ SInv /\ LInv' /\ LogStep
  BY NextKeepsLInv, NextLogStep DEF LInv, SInv
<1>l. Log' \in SUBSET Event  BY <1>t, LogTypedNext DEF LInv, SInv, LogTypeOK
<1>1. CASE UNCHANGED vars
  <2>1. Log' = Log  BY <1>1 DEF vars, Log, At
  <2>2. QED BY <1>1, <2>1 DEF vars, Sound
<1>2. ASSUME NEW p \in Exec, (\E e \in Event : Start(p, e)) \/ Load(p)
      PROVE  UNCHANGED <<Log, acked, Sound>>
  <2>1. Log' = Log
    BY <1>2, <1>t, StepsOutside, SameLog DEF Start, Load, At
  <2>2. QED BY <1>2, <2>1 DEF Start, Load, Sound
<1>3. ASSUME NEW p \in Exec, Persist(p)
      PROVE  Abstract!Commit \/ Abstract!Disturb
  <2>1. /\ Persists(p) /\ exec[p].step = "loaded" /\ acked' = acked
        /\ Sound' = (Sound /\ ~exec[p].stale)
    BY <1>3, PersistPersists DEF Persist, At, Sound
  <2>2. Log' = exec[p].memory.log
    <3>1. \A q \in Exec : Persist(q) => q = p
      BY <1>3, <2>1 DEF Persist, Persists, At
    <3>2. \A q \in Exec : ~Kill(q)
      BY <1>3, <1>t, <2>1, StepsOutside DEF Persists, Outside
    <3>3. QED BY <1>3, <1>t, <3>1, <3>2 DEF LogStep
  <2>3. CASE Sound'
    <3>1. /\ Log' = Log \cup {exec[p].cmd}
          /\ AcceptsDispatch(Log, exec[p].cmd)
          /\ AcceptsAuthority(Log, exec[p].cmd)
      BY <2>1, <2>2, <2>3 DEF LInv, LoadedFromLog, At
    <3>2. exec[p].cmd \in Event  BY <1>t, <2>1 DEF SInv, CmdKnown
    <3>3. Abstract!Commit
      BY <2>1, <2>3, <3>1, <3>2
         DEF Abstract!Commit, Sound, AcceptsDispatch, AcceptsAuthority,
             Abstract!AcceptsDispatch, Abstract!AcceptsAuthority,
             Event, DispatchEvent, MailEvent, AuthorityEvent, Abstract!Event,
             Abstract!DispatchEvent, Abstract!MailEvent,
             Abstract!AuthorityEvent
    <3>4. QED BY <3>3
  <2>4. CASE ~Sound'
    BY <1>l, <1>t, <2>1, <2>4
       DEF Abstract!Disturb, LInv, LegalLogs, Sound, Legal, Abstract!Legal,
           Event, DispatchEvent, MailEvent, AuthorityEvent, Abstract!Event,
           Abstract!DispatchEvent, Abstract!MailEvent, Abstract!AuthorityEvent
  <2>5. QED BY <2>3, <2>4
<1>4. ASSUME NEW p \in Exec, NEW step, Carries(p, step)
      PROVE  UNCHANGED <<Log, acked, Sound>>
  <2>1. Log' = Log  BY <1>4, <1>t, CarriesKeepsLog
  <2>2. QED BY <1>4, <1>t, <2>1, CarriesMoves DEF Sound, Outdated
<1>5. ASSUME NEW p \in Exec, WriteCopy(p) PROVE Abstract!Acknowledge
  <2>1. Log' = Log
    BY <1>5, <1>t, StepsOutside, SameLog DEF WriteCopy, At
  <2>2. /\ acked' = acked \cup {exec[p].cmd} /\ HasPersisted(p)
        /\ Sound' = Sound
    BY <1>5 DEF WriteCopy, At, HasPersisted, Viewing, Sound, Outdated
  <2>3. exec[p].cmd \in Event /\ (Sound => exec[p].cmd \in Log)
    BY <1>t, <2>2
       DEF SInv, CmdKnown, LInv, PersistedIsKept, HasPersisted, Persisting,
           Viewing
  <2>4. QED
    BY <2>1, <2>2, <2>3
       DEF Abstract!Acknowledge, Sound, Event, DispatchEvent, MailEvent,
           AuthorityEvent, Abstract!Event, Abstract!DispatchEvent,
           Abstract!MailEvent, Abstract!AuthorityEvent
<1>6. ASSUME NEW p \in Exec, Kill(p)
      PROVE  Abstract!Disturb \/ UNCHANGED <<Log, acked, Sound>>
  <2>1. Outside(p) /\ acked' = acked  BY <1>6, <1>t, StepsOutside DEF Kill
  <2>2. CASE At(p, "torn")
    <3>1. ~Sound'  BY <1>6, <2>2 DEF Kill, Sound
    <3>2. QED
      BY <1>l, <1>t, <2>1, <3>1
         DEF Abstract!Disturb, LInv, LegalLogs, Sound, Legal, Abstract!Legal,
             Event, DispatchEvent, MailEvent, AuthorityEvent, Abstract!Event,
             Abstract!DispatchEvent, Abstract!MailEvent,
             Abstract!AuthorityEvent
  <2>3. CASE ~At(p, "torn")
    <3>1. Log' = Log  BY <1>t, <2>1, <2>3, SameLog DEF At
    <3>2. Sound' = Sound  BY <1>6, <2>3 DEF Kill, Sound
    <3>3. QED BY <2>1, <3>1, <3>2
  <2>4. QED BY <2>2, <2>3
<1>7. QED
  BY <1>1, <1>2, <1>3, <1>4, <1>5, <1>6
     DEF Next, Carries, Abstract!Next

\* To its callers the engine is one log that takes one command at a time, until
\* an update is lost or the log is cut short; and what it then holds is still a
\* log that an engine could have written.
THEOREM Refinement == Spec => ImplementsEventLog
<1>1. LInv /\ [Next]_vars => [Abstract!Next]_<<Log, acked, Sound>>
  BY StepImplements
<1>2. QED
  BY <1>1, InitImplements, InitLInv, NextKeepsLInv, PTL
     DEF Spec, ImplementsEventLog, Abstract!Spec, Sound

-----------------------------------------------------------------------------
(* mailbox.json.                                                           *)

MailSound == broken \cap {"staleView", "mixed", "emptied"} = {}

\* The memory of every process agrees with itself, and knows the messages that
\* its log marks.
LogsAgree ==
  /\ Closed(Log)
  /\ \A p \in Exec : HasLoaded(p) =>
       /\ Closed(exec[p].memory.log)
       /\ exec[p].memory.mail = Replayed(exec[p].memory.log)

\* mailbox.json agrees with the log but while it is rewritten.
CopyAgrees ==
  /\ \A p \in Exec : At(p, "mailTorn") => ~mailbox.readable
  /\ Unlocked /\ mailbox.readable => mailbox.content = Replayed(Log)

MInv == SInv /\ (MailSound => LogsAgree /\ CopyAgrees)

LEMMA ClosedEmpty == Closed({}) /\ Replayed({}) = {}
BY DEF Closed, Replayed

LEMMA InitMInv == Init => MInv
<1> SUFFICES ASSUME Init PROVE LogsAgree /\ CopyAgrees
  BY InitSInv DEF MInv
<1>1. Log = {}  BY DEF Init, Log, Unreadable, At, Idle
<1>2. QED
  BY <1>1, ClosedEmpty
     DEF Init, LogsAgree, CopyAgrees, HasLoaded, HasPersisted, At, Idle,
         Unreadable, Persisting, Viewing

LEMMA MailSoundOnce == [Next]_vars /\ MailSound' => MailSound
BY DEF MailSound, Next, Start, Load, Persist, WriteEvents, EmptyMailbox,
       WriteMailbox, EmptyView, WriteView, EmptyCopy, WriteCopy, Kill, Outdated,
       vars

\* What a process loads agrees with itself.
LEMMA OnDiskAgrees ==
  ASSUME SInv, LogsAgree, CopyAgrees, Unlocked
  PROVE  Closed(OnDisk.log) /\ OnDisk.mail = Replayed(OnDisk.log)
<1>1. OnDisk.log = Log  BY UnlockedLog
<1>2. CASE ~events.readable
  <2>1. OnDisk = Fresh  BY <1>2 DEF OnDisk
  <2>2. OnDisk.log = {} /\ OnDisk.mail = {}  BY <2>1 DEF Fresh
  <2>3. QED BY <2>2, ClosedEmpty
<1>3. CASE events.readable
  <2>1. Log = events.content  BY <1>3 DEF Log
  <2>2. OnDisk.mail = IF mailbox.readable THEN mailbox.content
                      ELSE Replayed(events.content)
    BY <1>3 DEF OnDisk
  <2>3. QED BY <1>1, <2>1, <2>2 DEF LogsAgree, CopyAgrees
<1>4. QED BY <1>2, <1>3

LEMMA NextKeepsLogsAgree ==
  ASSUME SInv, LogsAgree, CopyAgrees, [Next]_vars, MailSound'
  PROVE  LogsAgree'
<1>t. TypeOK /\ LogStep  BY NextLogStep DEF SInv
<1> USE DEF LogsAgree, HasLoaded, HasPersisted
<1>l. Closed(Log')
  <2>1. ASSUME NEW p \in Exec, Persist(p) PROVE Closed(exec[p].memory.log)
    BY <2>1 DEF Persist, At
  <2>2. ASSUME NEW p \in Exec, Kill(p), At(p, "torn") PROVE FALSE
    BY <2>2 DEF Kill, MailSound
  <2>3. QED BY <1>t, <2>1, <2>2 DEF LogStep
<1>1. CASE UNCHANGED vars  BY <1>1, <1>l DEF vars
<1>2. ASSUME NEW p \in Exec,
             (\E e \in Event : Start(p, e)) \/ WriteCopy(p) \/ Kill(p)
      PROVE  LogsAgree'
  <2>1. Outside(p) /\ exec'[p].step \in {"started", "idle"}
    BY <1>2, <1>t, StepsOutside DEF Start, WriteCopy, Kill, TypeOK, Idle
  <2>2. QED BY <1>l, <2>1 DEF Outside, Persisting, Viewing
<1>3. ASSUME NEW p \in Exec, Load(p) PROVE LogsAgree'
  <2>1. Outside(p)  BY <1>3, <1>t, StepsOutside
  <2>2. CASE Accepts(OnDisk, exec[p].cmd)
    <3>1. exec'[p].memory = Processed(OnDisk, exec[p].cmd)
      BY <1>3, <1>t, <2>2 DEF Load, TypeOK
    <3>2. exec[p].cmd \in Event  BY <1>3 DEF Load, At, SInv, CmdKnown
    <3>3. Closed(OnDisk.log) /\ OnDisk.mail = Replayed(OnDisk.log)
      BY <1>3, OnDiskAgrees DEF Load
    <3>4. /\ Closed(exec'[p].memory.log)
          /\ exec'[p].memory.mail = Replayed(exec'[p].memory.log)
      BY <1>t, <2>2, <3>1, <3>2, <3>3, OnDiskIsMemory, ProcessedMail
         DEF Accepts
    <3>5. QED BY <1>l, <2>1, <3>4 DEF Outside
  <2>3. CASE ~Accepts(OnDisk, exec[p].cmd)
    <3>1. exec'[p].step = "idle"  BY <1>3, <1>t, <2>3 DEF Load, TypeOK, Idle
    <3>2. QED BY <1>l, <2>1, <3>1 DEF Outside, Persisting, Viewing
  <2>4. QED BY <2>2, <2>3
<1>4. ASSUME NEW p \in Exec, Persist(p) PROVE LogsAgree'
  <2>1. Persists(p) /\ exec[p].step = "loaded"
    BY <1>4, PersistPersists DEF Persist, At
  <2>2. QED BY <1>l, <2>1 DEF Persists
<1>5. ASSUME NEW p \in Exec, NEW step, Carries(p, step) PROVE LogsAgree'
  <2>1. Moves(p, step) /\ HasPersisted(p)  BY <1>5, <1>t, CarriesMoves
  <2>2. QED BY <1>l, <2>1 DEF Moves
<1>6. QED BY <1>1, <1>2, <1>3, <1>4, <1>5 DEF Next, Carries

LEMMA NextKeepsCopyAgrees ==
  ASSUME SInv, LogsAgree, CopyAgrees, [Next]_vars, MailSound'
  PROVE  CopyAgrees'
<1>t. TypeOK /\ SInv' /\ LogStep  BY NextKeepsSInv, NextLogStep DEF SInv
<1>l. LogIs  BY LogMapped
<1> USE DEF CopyAgrees, At, Unlocked
<1>1. CASE UNCHANGED vars
  <2>1. Log' = Log  BY <1>1 DEF vars, Log
  <2>2. QED BY <1>1, <2>1 DEF vars
\* Those who keep the mailbox, and hold the lock afterwards if they did before.
<1>2. ASSUME NEW p \in Exec, (\E e \in Event : Start(p, e)) \/ Load(p)
      PROVE  CopyAgrees'
  <2>1. Outside(p) /\ mailbox' = mailbox
        /\ exec[p].step \in {"idle", "started"}
    BY <1>2, <1>t, StepsOutside DEF Start, Load
  <2>2. Log' = Log  BY <1>t, <2>1, SameLog
  <2>3. QED BY <2>1, <2>2 DEF Outside, Persisting
<1>3. ASSUME NEW p \in Exec, NEW step, Carries(p, step),
             EmptyView(p) \/ WriteView(p)
      PROVE  CopyAgrees'
  <2>1. /\ Moves(p, step) /\ mailbox' = mailbox
        /\ exec[p].step \notin Persisting /\ step \notin Persisting
    BY <1>3, <1>t, CarriesMoves
       DEF EmptyView, WriteView, Persisting, Viewing
  <2>2. Log' = Log  BY <1>3, <1>t, CarriesKeepsLog
  <2>3. QED BY <2>1, <2>2 DEF Moves, Persisting
\* Those who hold the lock afterwards.
<1>4. ASSUME NEW p \in Exec, Persist(p) PROVE CopyAgrees'
  BY <1>4, PersistPersists DEF Persist, Persists, Persisting
<1>5. ASSUME NEW p \in Exec, WriteEvents(p) PROVE CopyAgrees'
  <2>1. Moves(p, "written") /\ mailbox' = mailbox
    BY <1>5, <1>t, CarriesMoves DEF Carries, WriteEvents
  <2>2. QED BY <2>1 DEF Moves, Persisting
\* Those who empty the mailbox.
<1>6. ASSUME NEW p \in Exec, EmptyMailbox(p) \/ EmptyCopy(p)
      PROVE  CopyAgrees'
  BY <1>6 DEF EmptyMailbox, EmptyCopy, Unreadable
\* Those who write it.
<1>7. ASSUME NEW p \in Exec, WriteMailbox(p) \/ WriteCopy(p)
      PROVE  CopyAgrees'
  <2>1. Current(p)
    <3>1. CASE WriteMailbox(p)
      BY <3>1
         DEF WriteMailbox, SInv, HolderCurrent, Current, HasPersisted,
             Persisting
    <3>2. CASE WriteCopy(p)
      BY <3>2
         DEF WriteCopy, Outdated, MailSound, Current, HasPersisted, Viewing
    <3>3. QED BY <1>7, <3>1, <3>2
  <2>2. \A q \in Exec \ {p} : exec[q].step \notin Persisting
    BY <2>1
       DEF SInv, HolderCurrent, OneCurrent, Current, HasPersisted
  <2>3. /\ exec'[p].step \in {"persisted", "idle"}
        /\ \A q \in Exec \ {p} : exec'[q] = exec[q]
    BY <1>7, <1>t DEF WriteMailbox, WriteCopy, Goto, TypeOK, Idle
  <2>4. Log' = Log
    <3>1. CASE WriteMailbox(p)
      BY <1>t, <3>1, CarriesKeepsLog DEF Carries
    <3>2. CASE WriteCopy(p)
      BY <1>t, <3>2, StepsOutside, SameLog DEF WriteCopy
    <3>3. QED BY <1>7, <3>1, <3>2
  <2>5. mailbox' \in Overwritten(mailbox, exec[p].memory.mail)
    BY <1>7 DEF WriteMailbox, WriteCopy
  <2>6. mailbox'.readable => mailbox'.content = Replayed(Log)
    <3>1. exec[p].memory.mail = Replayed(Log)
      BY <1>l, <2>1 DEF LogIs, LogsAgree, HasLoaded, Current
    <3>2. QED BY <2>5, <3>1 DEF Overwritten, Holding, Unreadable
  <2>7. QED BY <2>2, <2>3, <2>4, <2>6 DEF Persisting
<1>8. ASSUME NEW p \in Exec, Kill(p) PROVE CopyAgrees'
  <2>1. Outside(p) /\ mailbox' = mailbox  BY <1>8, <1>t, StepsOutside DEF Kill
  <2>2. exec[p].step \notin {"torn", "written"}
    BY <1>8 DEF Kill, MailSound
  <2>3. Log' = Log  BY <1>t, <2>1, <2>2, SameLog
  <2>4. CASE exec[p].step = "mailTorn"
    BY <2>1, <2>4 DEF Outside
  <2>5. CASE exec[p].step # "mailTorn"
    BY <2>1, <2>2, <2>3, <2>5 DEF Outside, Persisting
  <2>6. QED BY <2>4, <2>5
<1>9. QED
  BY <1>1, <1>2, <1>3, <1>4, <1>5, <1>6, <1>7, <1>8 DEF Next, Carries

LEMMA NextKeepsMInv == MInv /\ [Next]_vars => MInv'
BY NextKeepsSInv, MailSoundOnce, NextKeepsLogsAgree, NextKeepsCopyAgrees
   DEF MInv

\* mailbox.json, which load prefers to the log, agrees with it whenever the lock
\* is free, unless a process wrote it late or was killed half way.
THEOREM MailboxKept == Spec => []MailboxFollowsLog
<1>1. MInv => MailboxFollowsLog
  BY DEF MInv, CopyAgrees, MailSound, MailboxFollowsLog
<1>2. QED BY <1>1, InitMInv, NextKeepsMInv, PTL DEF Spec

-----------------------------------------------------------------------------
(* dispatch.json.                                                          *)

ViewSound == broken \cap {"staleView", "noView", "emptied"} = {}

\* A process that has changed the log and has not yet begun to show it.
Unshown == \E p \in Exec : exec[p].step \in Persisting \cup {"persisted"}

ViewAgrees ==
  ViewSound /\ ~Unshown /\ view.readable
    => view.content = Log \cap DispatchEvent

VInv == SInv /\ ViewAgrees

LEMMA InitVInv == Init => VInv
BY InitSInv DEF Init, VInv, ViewAgrees, Unreadable

LEMMA NextKeepsVInv == VInv /\ [Next]_vars => VInv'
<1> SUFFICES ASSUME VInv, [Next]_vars, ViewSound', ~Unshown', view'.readable
             PROVE  view'.content = Log' \cap DispatchEvent
  BY NextKeepsSInv DEF VInv, ViewAgrees
<1> DEFINE Agrees == view'.content = Log' \cap DispatchEvent
<1>t. TypeOK /\ SInv /\ LogStep  BY NextLogStep DEF VInv, SInv
<1>l. LogIs  BY <1>t, LogMapped
<1>v. ViewSound
  BY DEF ViewSound, Next, Start, Load, Persist, WriteEvents, EmptyMailbox,
         WriteMailbox, EmptyView, WriteView, EmptyCopy, WriteCopy, Kill,
         Outdated, vars
<1> USE DEF Unshown, At
<1>1. CASE UNCHANGED vars
  <2>1. Log' = Log  BY <1>1 DEF vars, Log
  <2>2. QED BY <1>1, <1>v, <2>1 DEF vars, VInv, ViewAgrees
<1>2. ASSUME NEW p \in Exec,
             \/ \E e \in Event : Start(p, e)
             \/ Load(p) \/ WriteCopy(p)
      PROVE  Agrees
  <2>1. /\ Outside(p) /\ view' = view
        /\ exec[p].step \in {"idle", "started", "copyTorn"}
    BY <1>2, <1>t, StepsOutside DEF Start, Load, WriteCopy
  <2>2. Log' = Log  BY <1>t, <2>1, SameLog
  <2>3. ~Unshown  BY <2>1 DEF Outside, Persisting
  <2>4. QED BY <1>v, <2>1, <2>2, <2>3 DEF VInv, ViewAgrees
<1>3. ASSUME NEW p \in Exec, Persist(p) PROVE FALSE
  BY <1>3, PersistPersists DEF Persists, Persisting
<1>4. ASSUME NEW p \in Exec, WriteEvents(p) \/ EmptyMailbox(p) \/ WriteMailbox(p)
      PROVE  FALSE
  BY <1>4, <1>t, CarriesMoves
     DEF Carries, Moves, WriteEvents, EmptyMailbox, WriteMailbox, Persisting
<1>5. ASSUME NEW p \in Exec, EmptyView(p) PROVE FALSE
  BY <1>5 DEF EmptyView, Unreadable
<1>6. ASSUME NEW p \in Exec, WriteView(p) PROVE Agrees
  <2>1. Current(p)
    BY <1>6 DEF WriteView, Outdated, ViewSound, Current, HasPersisted, Viewing
  <2>2. Log' = Log  BY <1>6, <1>t, CarriesKeepsLog DEF Carries
  <2>3. view'.content = exec[p].memory.log \cap DispatchEvent
    BY <1>6 DEF WriteView, Overwritten, Holding, Unreadable
  <2>4. QED BY <1>l, <2>1, <2>2, <2>3 DEF LogIs
<1>7. ASSUME NEW p \in Exec, EmptyCopy(p) PROVE Agrees
  <2>1. Moves(p, "copyTorn") /\ view' = view /\ exec[p].step = "viewed"
    BY <1>7, <1>t, CarriesMoves DEF Carries, EmptyCopy
  <2>2. Log' = Log  BY <1>7, <1>t, CarriesKeepsLog DEF Carries
  <2>3. ~Unshown  BY <2>1 DEF Moves, Persisting
  <2>4. QED BY <1>v, <2>1, <2>2, <2>3 DEF VInv, ViewAgrees
<1>8. ASSUME NEW p \in Exec, Kill(p) PROVE Agrees
  <2>1. Outside(p) /\ view' = view  BY <1>8, <1>t, StepsOutside DEF Kill
  <2>2. exec[p].step \notin Persisting \cup {"persisted"}
    BY <1>8 DEF Kill, ViewSound, Persisting
  <2>3. Log' = Log  BY <1>t, <2>1, <2>2, SameLog DEF Persisting
  <2>4. ~Unshown  BY <2>1, <2>2 DEF Outside
  <2>5. QED BY <1>v, <2>1, <2>3, <2>4 DEF VInv, ViewAgrees
<1>9. QED
  BY <1>1, <1>2, <1>3, <1>4, <1>5, <1>6, <1>7, <1>8 DEF Next

\* dispatch.json shows the log whenever no command is under way, unless a
\* process wrote it late or was killed before it.
THEOREM ViewKept == Spec => []ViewFollowsLog
<1>1. VInv => ViewFollowsLog
  BY DEF VInv, ViewAgrees, ViewSound, Unshown, ViewFollowsLog, Viewing
<1>2. QED BY <1>1, InitVInv, NextKeepsVInv, PTL DEF Spec
=============================================================================
