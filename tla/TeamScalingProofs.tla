------------------------- MODULE TeamScalingProofs -------------------------
(***************************************************************************)
(* Theorems about TeamScaling, for any numbers of processes, workers,      *)
(* operations and faults.  Three invariants, each on top of the one before *)
(* it: what an operation holds at each of its steps (BaseInv, always), who *)
(* holds which lock (LInv, until a lock is lost), and how the copies that  *)
(* operations work on agree with the file (RInv, until a change is lost).  *)
(***************************************************************************)
EXTENDS TeamScaling, FiniteSetTheorems, TLAPS

LEMMA Constants ==
  /\ FirstWorkers \in Nat \ {0} /\ MaxWorkers \in Nat
  /\ FirstWorkers <= MaxWorkers
  /\ MaxCalls \in Nat /\ MaxFaults \in Nat /\ Nobody \notin Proc
BY ConstantAssumption

-----------------------------------------------------------------------------
(* Numbers and sets.                                                       *)

\* A set of numbers that is not empty has a least one.
LEMMA Least ==
  ASSUME NEW S \in SUBSET Nat, S # {}
  PROVE  \E n \in S : \A m \in S : n <= m
<1>1. PICK n \in S : \A m \in S : ~(<<m, n>> \in OpToRel(<, Nat))
  BY NatLessThanWellFounded, WFMin, Zenon
<1>2. \A m \in S : ~(m < n)
  BY <1>1 DEF OpToRel
<1>3. QED BY <1>2

LEMMA FirstIs ==
  ASSUME NEW S \in SUBSET Worker, NEW v \in S
  PROVE  /\ First(S, v.index) \in S
         /\ First(S, v.index).index = v.index
<1> DEFINE P == {w.pane : w \in {u \in S : u.index = v.index}}
<1>1. P \subseteq Nat /\ P # {}
  BY DEF Worker
<1>2. PICK n \in P : \A m \in P : n <= m
  BY <1>1, Least
<1>3. \E w \in S :
        w.index = v.index /\ \A u \in S : u.index = v.index => w.pane <= u.pane
  BY <1>2
<1>4. QED BY <1>3 DEF First

\* There is a number for the next task, if the numbers in use are bounded.
LEMMA NextTaskIs ==
  ASSUME NEW c \in Config, NEW b \in Nat, tasks \subseteq Task,
         \A t \in tasks : t.id <= b
  PROVE  /\ NextTask(c) \in Nat /\ NextTask(c) >= c.nextTask
         /\ \A t \in tasks : t.id < NextTask(c)
<1> DEFINE C == {c.nextTask} \cup {t.id + 1 : t \in tasks}
           U == {n \in Nat : n >= c.nextTask /\ \A t \in tasks : n > t.id}
<1>1. c.nextTask \in Nat /\ \A t \in tasks : t.id \in Nat
  BY DEF Config, Task
<1>2. IF c.nextTask > b THEN c.nextTask \in U ELSE b + 1 \in U
  BY <1>1
<1>3. PICK n \in U : \A m \in U : n <= m
  BY <1>2, Least
<1>4. n \in C
  <2>1. SUFFICES ASSUME n # c.nextTask, \A t \in tasks : t.id + 1 # n PROVE FALSE
    OBVIOUS
  <2>2. n - 1 \in U
    BY <1>1, <2>1
  <2>3. QED BY <1>3, <2>2
<1>5. \E m \in C : m >= c.nextTask /\ \A t \in tasks : m > t.id
  BY <1>4
<1>6. C \subseteq Nat  BY <1>1
<1>7. QED BY <1>1, <1>5, <1>6 DEF NextTask

\* The image of a finite set.
LEMMA ImageIsFinite ==
  ASSUME NEW S, IsFiniteSet(S), NEW T, NEW f \in [S -> T],
         \A y \in T : \E x \in S : f[x] = y
  PROVE  IsFiniteSet(T) /\ Cardinality(T) <= Cardinality(S)
<1>1. f \in Surjection(S, T)  BY DEF Surjection
<1>2. QED BY <1>1, FS_Surjection

-----------------------------------------------------------------------------
(* What operations hold at each of their steps.                            *)

Sound(c) == IsFiniteSet(c.workers) /\ (c = NoTeam \/ c.nextTask > 0)

Opened(S, n) == \A w \in S : w.pane <= n

\* The workers a team starts with.
Crew(S) ==
  /\ \A w \in S : w.index \in 1..FirstWorkers
  /\ \A i \in 1..FirstWorkers : \E w \in S : w.index = i
  /\ \A v, w \in S : v.index = w.index => v = w

TaskStep == {"makeTask", "readTask", "writeTask", "countTask"}

\* P are the live panes, and n panes have been opened so far.
ProperUp(c, P, n) ==
  /\ c.step \in {"read", "open", "notify", "save", "undo", "revert"}
                  \cup TaskStep
  /\ c.step = "read" => c.copy = NoTeam
  /\ c.step # "read" => /\ c.copy.nextTask > 0 /\ c.left > 0
                        /\ c.copy.nextIndex = c.first + Cardinality(c.added)
  /\ c.step \in TaskStep \cup {"read"} => c.added = {}
  /\ c.step \in TaskStep \cup {"read", "open"} => c.fresh = NoWorker
  /\ c.step \in {"read", "makeTask", "readTask", "writeTask"} => c.made = {}
  /\ c.step \in {"notify", "save"} => c.fresh.pane > 0
  /\ c.fresh # NoWorker => c.fresh.index = c.copy.nextIndex
  /\ c.fresh.pane <= n
  /\ IsFiniteSet(c.added) /\ c.added \subseteq c.copy.workers
  /\ \A w \in c.added : c.first <= w.index /\ w.index < c.copy.nextIndex
  /\ c.step = "revert" => P \cap (c.added \cup {c.fresh}) = {}

ProperDown(c, P) ==
  /\ c.step \in {"read", "drain", "wait", "kill", "save"}
  /\ c.step = "read" => c.copy = NoTeam
  /\ c.step # "read" => c.targets # c.copy.workers /\ c.targets # {}
  /\ c.targets \subseteq c.copy.workers
  /\ c.step = "save" => P \cap c.targets = {}

ProperStart(c, P) ==
  /\ c.step \in {"sweep", "read", "open", "save", "notify", "kill", "clean"}
                  \cup TaskStep
  /\ c.step \in {"sweep", "read"} => c.copy = NoTeam
  /\ c.step \notin {"sweep", "read"} =>
                        /\ Crew(c.copy.workers)
                        /\ c.copy.nextIndex = FirstWorkers + 1
                        /\ c.copy.nextTask = 1
  /\ c.step \in TaskStep \cup {"open"} => \A w \in c.copy.workers : w.pane = 0
  /\ c.step \in {"save", "notify", "kill"} =>
       \A w \in c.copy.workers : w.pane > 0
  /\ c.step = "clean" => P \cap c.copy.workers = {}

ProperStop(c, P) ==
  /\ c.step \in {"read", "save", "kill", "clean"}
  /\ c.step = "read" => c.copy = NoTeam
  /\ c.step = "clean" => P \cap c.copy.workers = {}

Proper(c, P, n) ==
  /\ c.op = "none" => c = NoCall
  /\ c.op = "create" => c.step \in TaskStep /\ c.copy = NoTeam
  /\ c.op = "up" => ProperUp(c, P, n)
  /\ c.op = "down" => ProperDown(c, P)
  /\ c.op = "start" => ProperStart(c, P)
  /\ c.op = "stop" => ProperStop(c, P)
  /\ Sound(c.copy) /\ Opened(c.copy.workers, n)
  /\ Sound(c.taskCopy) /\ Opened(c.taskCopy.workers, n)
  /\ c.step \in {"writeTask", "countTask"} => c.taskCopy.nextTask > 0 /\ c.id > 0

FileInv == Sound(config) /\ Opened(config.workers, spawned)

PaneInv ==
  /\ \A w \in panes : 0 < w.pane /\ w.pane <= spawned
  /\ \A v, w \in panes : v.pane = w.pane => v = w

TaskInv ==
  /\ \E b \in Nat : \A t \in tasks : t.id <= b
  /\ \A t, u \in tasks : t.id = u.id => t = u

BaseInv ==
  /\ TypeOK /\ FileInv /\ PaneInv /\ TaskInv
  /\ \A p \in Proc : Proper(call[p], panes, spawned)

LEMMA NoCallIs ==
  /\ NoCall \in Call /\ NoTeam \in Config /\ NoWorker \in Worker
  /\ NoCall.op = "none" /\ NoCall.step = "idle" /\ NoCall.copy = NoTeam
  /\ NoCall.taskCopy = NoTeam /\ NoCall.id = 0 /\ NoCall.first = 0
  /\ NoCall.left = 0 /\ NoCall.fresh = NoWorker /\ NoCall.added = {}
  /\ NoCall.made = {} /\ NoCall.how = "none" /\ NoCall.targets = {}
  /\ NoCall.occupied = {}
  /\ NoTeam.workers = {} /\ NoTeam.nextIndex = 0 /\ NoTeam.nextTask = 0
  /\ NoWorker.index = 0 /\ NoWorker.pane = 0
  /\ Sound(NoTeam) /\ \A n \in Nat : Opened(NoTeam.workers, n)
<1>1. NoTeam \in Config /\ NoWorker \in Worker
  BY DEF NoTeam, Config, NoWorker, Worker
<1>2. NoCall \in Call
  BY <1>1 DEF NoCall, Call, Operation, Step
<1>3. Sound(NoTeam) /\ \A n \in Nat : Opened(NoTeam.workers, n)
  BY FS_EmptySet DEF Sound, Opened, NoTeam
<1>4. QED BY <1>1, <1>2, <1>3 DEF NoCall, NoTeam, NoWorker

LEMMA CallOf ==
  ASSUME TypeOK, NEW p \in Proc
  PROVE  /\ call \in [Proc -> Call] /\ call[p] \in Call
         /\ call[p].op \in Operation /\ call[p].step \in Step
         /\ call[p].copy \in Config /\ call[p].taskCopy \in Config
         /\ call[p].id \in Nat /\ call[p].first \in Nat /\ call[p].left \in Nat
         /\ call[p].fresh \in Worker /\ call[p].added \subseteq Worker
         /\ call[p].made \subseteq Task
         /\ call[p].how \in {"none", "named", "counted", "forced"}
         /\ call[p].targets \subseteq Worker /\ call[p].occupied \subseteq Nat
BY DEF TypeOK, Call

LEMMA ConfigOf ==
  ASSUME NEW c \in Config
  PROVE  /\ c.workers \subseteq Worker /\ c.nextIndex \in Nat
         /\ c.nextTask \in Nat
         /\ \A w \in c.workers : w.index \in Nat /\ w.pane \in Nat
BY DEF Config, Worker

\* The call of p changes, the others stay.
Goes(p) ==
  /\ call' \in [Proc -> Call]
  /\ \A q \in Proc \ {p} : call'[q] = call[q]

SameJob(p) ==
  /\ call'[p].op = call[p].op /\ call'[p].how = call[p].how
  /\ call'[p].targets = call[p].targets
  /\ call'[p].occupied = call[p].occupied

SameTask(p) ==
  /\ call'[p].taskCopy = call[p].taskCopy /\ call'[p].id = call[p].id
  /\ call'[p].made = call[p].made

SameTeam(p) ==
  /\ call'[p].copy = call[p].copy /\ call'[p].first = call[p].first
  /\ call'[p].left = call[p].left /\ call'[p].added = call[p].added

Turns(p, step) ==
  /\ Goes(p) /\ SameJob(p) /\ SameTask(p) /\ SameTeam(p)
  /\ call'[p].fresh = call[p].fresh /\ call'[p].step = step

LEMMA GotoIs ==
  ASSUME TypeOK, NEW p \in Proc, NEW step \in Step, Goto(p, step)
  PROVE  Turns(p, step)
BY CallOf DEF Goto, Turns, Goes, SameJob, SameTask, SameTeam, Call

LEMMA EndIs ==
  ASSUME TypeOK, NEW p \in Proc, End(p)
  PROVE  Goes(p) /\ call'[p] = NoCall
BY CallOf, NoCallIs DEF End, Goes

Begun(p, op, step) ==
  /\ Goes(p) /\ call[p] = NoCall
  /\ call'[p].op = op /\ call'[p].step = step /\ call'[p].copy = NoTeam
  /\ call'[p].taskCopy = NoTeam /\ call'[p].id = 0 /\ call'[p].first = 0
  /\ call'[p].left = 0 /\ call'[p].fresh = NoWorker /\ call'[p].added = {}
  /\ call'[p].made = {} /\ call'[p].how = "none" /\ call'[p].targets = {}
  /\ call'[p].occupied = {}

LEMMA BeginIs ==
  ASSUME BaseInv, NEW p \in Proc, NEW op \in Operation, NEW step \in Step,
         Begin(p, op, step)
  PROVE  /\ Begun(p, op, step)
         /\ calls' \in 0..MaxCalls /\ faults' = faults
<1> DEFINE c == [NoCall EXCEPT !.op = op, !.step = step]
<1>1. call' = [call EXCEPT ![p] = c]  BY DEF Begin
<1>2. /\ c \in Call
      /\ c.op = op /\ c.step = step /\ c.copy = NoTeam
      /\ c.taskCopy = NoTeam /\ c.id = 0 /\ c.first = 0
      /\ c.left = 0 /\ c.fresh = NoWorker /\ c.added = {}
      /\ c.made = {} /\ c.how = "none" /\ c.targets = {}
      /\ c.occupied = {}
  BY NoCallIs DEF NoCall, Call
<1> HIDE DEF c
<1>3. call[p] = NoCall  BY DEF BaseInv, Proper, Begin
<1>4. call' \in [Proc -> Call] /\ call'[p] = c
      /\ \A q \in Proc \ {p} : call'[q] = call[q]
  BY <1>1, <1>2 DEF BaseInv, TypeOK
<1>5. calls' \in 0..MaxCalls /\ faults' = faults
  BY Constants DEF Begin, BaseInv, TypeOK
<1>6. QED BY <1>2, <1>3, <1>4, <1>5 DEF Begun, Goes

LEMMA FaultIs ==
  ASSUME TypeOK, Fault
  PROVE  faults' \in 0..MaxFaults /\ faults' # faults
BY Constants DEF TypeOK, Fault

-----------------------------------------------------------------------------
(* BaseInv is kept by what an operation does to each part of the state.    *)

FileOK == config \in Config /\ writer \in Operation /\ FileInv

TasksOK == tasks \subseteq Task /\ written \in Nat /\ TaskInv

PanesOK ==
  /\ panes \subseteq Worker /\ busy \subseteq {w.pane : w \in panes}
  /\ spawned \in Nat /\ PaneInv

FilesOK ==
  /\ working \subseteq Nat /\ draining \subseteq Nat /\ masked \subseteq Nat
  /\ over \in BOOLEAN

LockOK == lock \in [Lock -> Proc \cup {Nobody}]

BoundsOK == calls \in 0..MaxCalls /\ faults \in 0..MaxFaults

\* Panes close, and those that open are new.
Grown ==
  /\ spawned' \in Nat /\ spawned <= spawned'
  /\ \A w \in panes' : w \in panes \/ w.pane > spawned

LEMMA BaseIs ==
  ASSUME BaseInv
  PROVE  /\ TypeOK /\ FileOK /\ TasksOK /\ PanesOK /\ FilesOK /\ LockOK
         /\ BoundsOK /\ why \subseteq Cause /\ spawned \in Nat
         /\ \A p \in Proc : Proper(call[p], panes, spawned)
BY DEF BaseInv, TypeOK, FileOK, TasksOK, PanesOK, FilesOK, LockOK, BoundsOK

LEMMA OpenedGrows ==
  ASSUME NEW S \in SUBSET Worker, NEW m \in Nat, NEW n \in Nat, m <= n,
         Opened(S, m)
  PROVE  Opened(S, n)
BY DEF Opened, Worker

\* What an operation may do as far as its own call goes, it may do when panes
\* have been closed and others opened.
LEMMA ProperStays ==
  ASSUME NEW c \in Call, NEW P \in SUBSET Worker, NEW Q \in SUBSET Worker,
         NEW m \in Nat, NEW n \in Nat, m <= n,
         \A w \in Q : w \in P \/ w.pane > m,
         Proper(c, P, m)
  PROVE  Proper(c, Q, n)
<1>1. /\ c.copy \in Config /\ c.taskCopy \in Config /\ c.fresh \in Worker
      /\ c.added \subseteq Worker /\ c.targets \subseteq Worker
  BY DEF Call
<1>2. \A S \in SUBSET Worker :
        Opened(S, m) /\ P \cap S = {} => Q \cap S = {}
  BY DEF Opened, Worker
<1>3. \A S \in SUBSET Worker : Opened(S, m) => Opened(S, n)
  BY OpenedGrows
<1>4. c.copy.workers \subseteq Worker /\ c.taskCopy.workers \subseteq Worker
  BY <1>1, ConfigOf
<1>5. Opened(c.copy.workers, m) /\ Opened(c.taskCopy.workers, m)
  BY DEF Proper
<1>6. Opened(c.copy.workers, n) /\ Opened(c.taskCopy.workers, n)
  BY <1>3, <1>4, <1>5
<1>7. \A S \in SUBSET c.copy.workers : P \cap S = {} => Q \cap S = {}
  BY <1>2, <1>4, <1>5 DEF Opened
<1>8. ASSUME c.op = "up" PROVE ProperUp(c, Q, n)
  <2>1. ProperUp(c, P, m)  BY <1>8 DEF Proper
  <2>2. c.fresh.pane \in Nat /\ c.fresh.pane <= m
    BY <1>1, <2>1 DEF ProperUp, Worker
  <2>3. c.fresh.pane <= n  BY <2>2
  <2>4. P \cap (c.added \cup {c.fresh}) = {} =>
          Q \cap (c.added \cup {c.fresh}) = {}
    <3>1. c.added \subseteq c.copy.workers  BY <2>1 DEF ProperUp
    <3>2. Opened(c.added \cup {c.fresh}, m)  BY <1>5, <2>2, <3>1 DEF Opened
    <3>3. c.added \cup {c.fresh} \in SUBSET Worker  BY <1>1
    <3>4. QED BY <1>2, <3>2, <3>3
  <2>5. QED BY <2>1, <2>3, <2>4 DEF ProperUp
<1>9. ASSUME c.op = "down" PROVE ProperDown(c, Q)
  <2>1. ProperDown(c, P)  BY <1>9 DEF Proper
  <2>2. QED BY <1>7, <2>1 DEF ProperDown
<1>10. c.op = "start" => ProperStart(c, Q)
  BY <1>7 DEF Proper, ProperStart
<1>11. c.op = "stop" => ProperStop(c, Q)
  BY <1>7 DEF Proper, ProperStop
<1>12. QED BY <1>6, <1>8, <1>9, <1>10, <1>11 DEF Proper

\* A step of p's operation keeps BaseInv.
LEMMA BaseStep ==
  ASSUME BaseInv, NEW p \in Proc, Goes(p), Grown, FileOK', TasksOK', PanesOK',
         FilesOK', LockOK', BoundsOK', (why \subseteq Cause)',
         Proper(call'[p], panes', spawned')
  PROVE  BaseInv'
<1>1. TypeOK'
  BY DEF TypeOK, Goes, FileOK, TasksOK, PanesOK, FilesOK, LockOK, BoundsOK
<1>2. ASSUME NEW q \in Proc PROVE Proper(call'[q], panes', spawned')
  <2>1. CASE q = p  BY <2>1
  <2>2. CASE q # p
    <3>1. call'[q] = call[q] /\ call[q] \in Call
          /\ Proper(call[q], panes, spawned)
      BY <2>2, BaseIs, CallOf DEF Goes
    <3>2. panes \in SUBSET Worker /\ panes' \in SUBSET Worker
          /\ spawned \in Nat
      BY BaseIs DEF PanesOK
    <3>3. QED BY <3>1, <3>2, ProperStays DEF Grown
  <2>3. QED BY <2>1, <2>2
<1>3. QED BY <1>1, <1>2 DEF BaseInv, FileOK, PanesOK, TasksOK

LEMMA FileStays ==
  ASSUME BaseInv, UNCHANGED file, Grown
  PROVE  FileOK'
<1>1. config \in Config /\ writer \in Operation /\ Sound(config)
      /\ Opened(config.workers, spawned) /\ spawned \in Nat
  BY BaseIs DEF FileOK, FileInv
<1>2. Opened(config.workers, spawned')
  BY <1>1, OpenedGrows, ConfigOf DEF Grown
<1>3. QED BY <1>1, <1>2 DEF FileOK, FileInv, file

LEMMA TasksStay ==
  ASSUME BaseInv, UNCHANGED <<tasks, written>>
  PROVE  TasksOK'
BY BaseIs DEF TasksOK, TaskInv

LEMMA PanesStay ==
  ASSUME BaseInv, UNCHANGED members
  PROVE  PanesOK' /\ Grown
BY BaseIs DEF PanesOK, PaneInv, Grown, members

LEMMA FilesStay ==
  ASSUME BaseInv, UNCHANGED files
  PROVE  FilesOK'
BY BaseIs DEF FilesOK, files, status

LEMMA BoundsStay ==
  ASSUME BaseInv, UNCHANGED bounds
  PROVE  BoundsOK'
BY BaseIs DEF BoundsOK, bounds

LEMMA LockStays ==
  ASSUME BaseInv, NEW p \in Proc, NEW l \in Lock,
         UNCHANGED lock \/ Give(l, p) \/ Take(l, p)
  PROVE  LockOK'
BY BaseIs DEF LockOK, Give, Take

\* Panes are closed.
LEMMA CloseIs ==
  ASSUME BaseInv, NEW S, Close(S)
  PROVE  PanesOK' /\ Grown /\ panes' = panes \ S
BY BaseIs DEF PanesOK, PaneInv, Grown, Close

\* Members are saved.
LEMMA SaveIs ==
  ASSUME BaseInv, NEW p \in Proc, NEW new \in Config, Sound(new),
         Opened(new.workers, spawned), Write(p, new), UNCHANGED members
  PROVE  FileOK' /\ config' = new
BY BaseIs, CallOf DEF FileOK, FileInv, Write, members

LEMMA CauseIs ==
  ASSUME NEW p, NEW c
  PROVE  Crossed(p, c) \subseteq {"crossed"}
BY DEF Crossed

-----------------------------------------------------------------------------
(* What each step does to the call.                                        *)

LEMMA CallIn ==
  ASSUME BaseInv, NEW p \in Proc
  PROVE  call \in [Proc -> Call] /\ call[p] \in Call
BY BaseIs, CallOf

LEMMA StepsAre ==
  /\ {"writeTask", "countTask", "open", "makeTask", "notify", "drain", "clean",
      "save", "undo", "kill", "readTask", "revert", "read", "wait", "sweep"}
        \subseteq Step
  /\ {"create", "up", "down", "start", "stop"} \subseteq Operation
BY DEF Step, Operation

LEMMA ReadTaskIs ==
  ASSUME BaseInv, NEW p \in Proc, ReadTask(p), config # NoTeam
  PROVE  /\ Goes(p) /\ SameJob(p) /\ SameTeam(p)
         /\ call'[p].fresh = call[p].fresh /\ call'[p].made = call[p].made
         /\ call'[p].step = "writeTask" /\ call'[p].taskCopy = config
         /\ call'[p].id = NextTask(config) /\ NextTask(config) \in Nat
         /\ NextTask(config) >= config.nextTask
         /\ \A t \in tasks : t.id < NextTask(config)
<1>1. config \in Config /\ tasks \subseteq Task
      /\ \E b \in Nat : \A t \in tasks : t.id <= b
  BY BaseIs DEF FileOK, TasksOK, TaskInv
<1>2. /\ NextTask(config) \in Nat /\ NextTask(config) >= config.nextTask
      /\ \A t \in tasks : t.id < NextTask(config)
  BY <1>1, NextTaskIs
<1>3. call' = [call EXCEPT ![p].step = "writeTask", ![p].taskCopy = config,
                           ![p].id = NextTask(config)]
  BY DEF ReadTask
<1>4. config \in Config /\ NextTask(config) \in Nat
  BY <1>1, <1>2
<1>5. call \in [Proc -> Call] /\ call[p] \in Call /\ "writeTask" \in Step
  BY CallIn, StepsAre
<1>6. /\ Goes(p) /\ SameJob(p) /\ SameTeam(p)
      /\ call'[p].fresh = call[p].fresh /\ call'[p].made = call[p].made
      /\ call'[p].step = "writeTask" /\ call'[p].taskCopy = config
      /\ call'[p].id = NextTask(config)
  BY <1>3, <1>4, <1>5 DEF Goes, SameJob, SameTeam, Call
<1>7. QED BY <1>2, <1>6

NewTask(p) == [id |-> call[p].id, made |-> written + 1]

LEMMA WriteTaskIs ==
  ASSUME BaseInv, NEW p \in Proc, WriteTask(p)
  PROVE  /\ Goes(p) /\ SameJob(p) /\ SameTeam(p)
         /\ call'[p].fresh = call[p].fresh /\ call'[p].step = "countTask"
         /\ call'[p].taskCopy = call[p].taskCopy /\ call'[p].id = call[p].id
         /\ call'[p].made = IF call[p].op = "up" THEN {NewTask(p)} ELSE {}
         /\ NewTask(p) \in Task /\ NewTask(p).id = call[p].id
         /\ tasks' = {t \in tasks : t.id # call[p].id} \cup {NewTask(p)}
<1>1. call[p].id > 0 /\ written \in Nat
  BY BaseIs DEF WriteTask, Proper, TasksOK
<1>2. NewTask(p) \in Task /\ NewTask(p).id = call[p].id
  BY <1>1, BaseIs, CallOf DEF NewTask, Task
<1>3. call' = [call EXCEPT ![p].step = "countTask",
                    ![p].made = IF call[p].op = "up" THEN {NewTask(p)} ELSE {}]
      /\ tasks' = {t \in tasks : t.id # call[p].id} \cup {NewTask(p)}
  BY DEF WriteTask, NewTask
<1>4. call \in [Proc -> Call] /\ call[p] \in Call /\ "countTask" \in Step
  BY CallIn, StepsAre
<1> HIDE DEF NewTask
<1>5. QED
  BY <1>2, <1>3, <1>4 DEF Goes, SameJob, SameTeam, Call

LEMMA CountTaskIs ==
  ASSUME BaseInv, NEW p \in Proc, CountTask(p), call[p].op # "create"
  PROVE  /\ Goes(p) /\ SameJob(p) /\ SameTeam(p)
         /\ call'[p].fresh = call[p].fresh /\ call'[p].made = call[p].made
         /\ call'[p].step = "open" /\ call'[p].taskCopy = NoTeam
         /\ call'[p].id = 0
<1>1. call' = [call EXCEPT ![p].step = "open", ![p].id = 0,
                           ![p].taskCopy = NoTeam]
  BY DEF CountTask
<1>2. call \in [Proc -> Call] /\ call[p] \in Call /\ "open" \in Step
      /\ NoTeam \in Config
  BY CallIn, StepsAre, NoCallIs
<1>3. QED
  BY <1>1, <1>2 DEF Goes, SameJob, SameTeam, Call

LEMMA ReadUpIs ==
  ASSUME BaseInv, NEW p \in Proc, ReadUp(p), ~End(p)
  PROVE  /\ Goes(p) /\ SameJob(p) /\ SameTask(p)
         /\ call'[p].fresh = call[p].fresh /\ call'[p].added = call[p].added
         /\ call'[p].copy = config /\ config # NoTeam
         /\ call'[p].first = config.nextIndex
         /\ call'[p].left > 0
         /\ Cardinality(config.workers) + call'[p].left <= MaxWorkers
         /\ call'[p].step \in {"makeTask", "open"}
         /\ UNCHANGED lock
<1>1. PICK n \in 1..(MaxWorkers - Cardinality(config.workers)),
           step \in {"makeTask", "open"} :
          /\ config # NoTeam
          /\ call' = [call EXCEPT ![p].step = step, ![p].copy = config,
                                  ![p].first = config.nextIndex,
                                  ![p].left = n]
          /\ UNCHANGED lock
  BY DEF ReadUp
<1>2. Cardinality(config.workers) \in Nat /\ config \in Config
      /\ MaxWorkers \in Nat
  BY BaseIs, FS_CardinalityType, Constants DEF FileOK, FileInv, Sound
<1>3. n \in Nat /\ n > 0 /\ Cardinality(config.workers) + n <= MaxWorkers
  BY <1>2
<1>4. call \in [Proc -> Call] /\ call[p] \in Call /\ step \in Step
      /\ config.nextIndex \in Nat
  BY <1>2, CallIn, StepsAre, ConfigOf
<1>5. QED
  BY <1>1, <1>2, <1>3, <1>4 DEF Goes, SameJob, SameTask, Call

NewWorker(p) ==
  [index |-> call[p].first + Cardinality(call[p].added), pane |-> spawned + 1]

LEMMA OpenPaneIs ==
  ASSUME BaseInv, NEW p \in Proc, OpenPane(p), ~Goto(p, "undo")
  PROVE  /\ Goes(p) /\ SameJob(p) /\ SameTask(p) /\ SameTeam(p)
         /\ call'[p].fresh = NewWorker(p) /\ call'[p].step = "notify"
         /\ NewWorker(p) \in Worker
         /\ NewWorker(p).index = call[p].copy.nextIndex
         /\ NewWorker(p).pane = spawned + 1
         /\ panes' = panes \cup {NewWorker(p)} /\ spawned' = spawned + 1
         /\ UNCHANGED busy
<1>1. ProperUp(call[p], panes, spawned)
  BY BaseIs DEF Proper, OpenPane, At
<1>2. call[p].copy.nextIndex = call[p].first + Cardinality(call[p].added)
      /\ call[p].copy.nextIndex \in Nat /\ spawned \in Nat
  BY <1>1, BaseIs, CallOf, ConfigOf DEF ProperUp, OpenPane, At
<1>3. NewWorker(p) \in Worker
      /\ NewWorker(p).index = call[p].copy.nextIndex
      /\ NewWorker(p).pane = spawned + 1
  BY <1>2 DEF NewWorker, Worker
<1>4. call' = [call EXCEPT ![p].step = "notify", ![p].fresh = NewWorker(p)]
      /\ Open({NewWorker(p)})
  BY DEF OpenPane, NewWorker
<1>5. Cardinality({NewWorker(p)}) = 1
  BY FS_Singleton
<1>6. call \in [Proc -> Call] /\ call[p] \in Call /\ "notify" \in Step
  BY CallIn, StepsAre
<1>7. /\ Goes(p) /\ SameJob(p) /\ SameTask(p) /\ SameTeam(p)
      /\ call'[p].fresh = NewWorker(p) /\ call'[p].step = "notify"
  BY <1>3, <1>4, <1>6 DEF Goes, SameJob, SameTask, SameTeam, Call
<1>8. QED BY <1>3, <1>4, <1>5, <1>7 DEF Open

LEMMA OpenPaneFails ==
  ASSUME BaseInv, NEW p \in Proc, OpenPane(p), Goto(p, "undo")
  PROVE  UNCHANGED members
<1>1. call'[p].step = "undo"
  BY GotoIs, StepsAre, BaseIs DEF Turns
<1>2. ASSUME call' = [call EXCEPT ![p].step = "notify",
                                 ![p].fresh = NewWorker(p)]
      PROVE  FALSE
  BY <1>1, <1>2, CallIn DEF Call
<1>3. QED BY <1>2 DEF OpenPane, NewWorker

Grow(p) ==
  [call[p].copy EXCEPT !.workers = @ \cup {call[p].fresh},
                       !.nextIndex = call[p].fresh.index + 1]

LEMMA GrowIs ==
  ASSUME TypeOK, NEW p \in Proc
  PROVE  /\ Grow(p) \in Config
         /\ Grow(p).workers = call[p].copy.workers \cup {call[p].fresh}
         /\ Grow(p).nextIndex = call[p].fresh.index + 1
         /\ Grow(p).nextTask = call[p].copy.nextTask
<1>1. call[p].copy \in Config /\ call[p].fresh \in Worker
  BY CallOf
<1>2. call[p].copy.workers \cup {call[p].fresh} \subseteq Worker
      /\ call[p].fresh.index + 1 \in Nat
  BY <1>1, ConfigOf DEF Worker
<1> HIDE DEF Worker
<1>3. QED BY <1>1, <1>2 DEF Grow, Config

LEMMA SaveUpIs ==
  ASSUME BaseInv, NEW p \in Proc, SaveUp(p), call[p].left # 1
  PROVE  /\ Goes(p) /\ SameJob(p) /\ SameTask(p)
         /\ call'[p].first = call[p].first /\ call'[p].copy = Grow(p)
         /\ call'[p].added = call[p].added \cup {call[p].fresh}
         /\ call'[p].fresh = NoWorker /\ call'[p].left = call[p].left - 1
         /\ call'[p].left > 0 /\ call'[p].step = "open"
         /\ UNCHANGED lock
<1>1. ProperUp(call[p], panes, spawned)
  BY BaseIs DEF Proper, SaveUp, At
<1>2. call[p].left > 0 /\ call[p].left \in Nat
  BY <1>1, BaseIs, CallOf DEF ProperUp, SaveUp, At
<1>3. call' = [call EXCEPT ![p].step = "open", ![p].copy = Grow(p),
                           ![p].added = @ \cup {call[p].fresh},
                           ![p].fresh = NoWorker,
                           ![p].left = @ - 1]
      /\ UNCHANGED lock
  BY DEF SaveUp, Grow
<1>4. call[p].left - 1 \in Nat /\ call[p].left - 1 > 0
  BY <1>2
<1>5. call \in [Proc -> Call] /\ call[p] \in Call /\ "open" \in Step
      /\ NoWorker \in Worker /\ Grow(p) \in Config
  BY CallIn, StepsAre, NoCallIs, GrowIs, BaseIs
<1>6. QED
  BY <1>3, <1>4, <1>5 DEF Goes, SameJob, SameTask, Call

LEMMA PickIs ==
  ASSUME BaseInv, NEW p \in Proc, Pick(p), ~End(p)
  PROVE  /\ Goes(p) /\ SameTask(p)
         /\ call'[p].fresh = call[p].fresh /\ call'[p].added = call[p].added
         /\ call'[p].op = "down" /\ call'[p].copy = config
         /\ call'[p].step = "drain" /\ call'[p].occupied = Seen
         /\ call'[p].targets \subseteq config.workers
         /\ call'[p].targets \notin {{}, config.workers}
         /\ call'[p].how = "counted" => call'[p].targets \subseteq Idle(config)
         /\ UNCHANGED lock
<1>1. PICK pick \in Pickable(config) :
        /\ pick.targets \notin {{}, config.workers}
        /\ call' = [call EXCEPT ![p].step = "drain", ![p].copy = config,
                                ![p].how = pick.how,
                                ![p].targets = pick.targets,
                                ![p].occupied = Seen]
        /\ UNCHANGED lock
  BY DEF Pick
<1>2. config \in Config /\ config.workers \subseteq Worker
  BY BaseIs, ConfigOf DEF FileOK
<1>3. {First(config.workers, i) : i \in Numbers(config.workers)}
         \subseteq config.workers
  BY <1>2, FirstIs DEF Numbers
<1>4. /\ pick.how \in {"named", "counted", "forced"}
      /\ pick.targets \subseteq config.workers
      /\ pick.how = "counted" => pick.targets \subseteq Idle(config)
  BY <1>3 DEF Pickable, Idle
<1>5. Seen \subseteq Nat
  BY BaseIs DEF PanesOK, Worker, Seen
<1> HIDE DEF Worker, Seen
<1>6. call \in [Proc -> Call] /\ call[p] \in Call /\ "drain" \in Step
      /\ call[p].op = "down"
  BY CallIn, StepsAre DEF Pick, At
<1>7. pick.targets \subseteq Worker
  BY <1>2, <1>4
<1>8. /\ Goes(p) /\ SameTask(p)
      /\ call'[p].fresh = call[p].fresh /\ call'[p].added = call[p].added
      /\ call'[p].op = "down" /\ call'[p].copy = config
      /\ call'[p].step = "drain" /\ call'[p].occupied = Seen
      /\ call'[p].targets = pick.targets /\ call'[p].how = pick.how
  BY <1>1, <1>2, <1>4, <1>5, <1>6, <1>7 DEF Goes, SameTask, Call
<1>9. QED BY <1>1, <1>4, <1>8

LEMMA DrainIs ==
  ASSUME BaseInv, NEW p \in Proc, Drain(p)
  PROVE  /\ Goes(p) /\ SameTask(p) /\ SameTeam(p)
         /\ call'[p].fresh = call[p].fresh
         /\ call'[p].op = "down" /\ call'[p].how = call[p].how
         /\ call'[p].targets = call[p].targets
         /\ call'[p].occupied = busy
         /\ call'[p].step \in {"kill", "wait"}
<1> DEFINE step == IF call[p].how = "forced" THEN "kill" ELSE "wait"
<1>1. call' = [call EXCEPT ![p].step = step, ![p].occupied = busy]
      /\ call[p].op = "down"
  BY DEF Drain, At
<1>2. busy \subseteq Nat
  BY BaseIs DEF PanesOK, Worker
<1>3. call \in [Proc -> Call] /\ call[p] \in Call /\ step \in Step
      /\ step \in {"kill", "wait"}
  BY CallIn, StepsAre
<1> HIDE DEF step
<1>4. QED
  BY <1>1, <1>2, <1>3 DEF Goes, SameTask, SameTeam, Call

FirstTeam ==
  [workers |-> [index : 1..FirstWorkers, pane : {0}],
   nextIndex |-> FirstWorkers + 1, nextTask |-> 1]

LEMMA FirstTeamIs ==
  /\ FirstTeam \in Config /\ Sound(FirstTeam) /\ Crew(FirstTeam.workers)
  /\ FirstTeam.nextIndex = FirstWorkers + 1 /\ FirstTeam.nextTask = 1
  /\ \A w \in FirstTeam.workers : w.pane = 0
  /\ \A n \in Nat : Opened(FirstTeam.workers, n)
  /\ Cardinality(FirstTeam.workers) <= MaxWorkers
<1> DEFINE S == [index : 1..FirstWorkers, pane : {0}]
<1> DEFINE f == [i \in 1..FirstWorkers |-> [index |-> i, pane |-> 0]]
<1>1. FirstTeam.workers = S /\ FirstTeam.nextIndex = FirstWorkers + 1
      /\ FirstTeam.nextTask = 1
  BY DEF FirstTeam
<1>2. \A w \in S : w.index \in 1..FirstWorkers /\ w.pane = 0 /\ w \in Worker
  BY Constants DEF Worker
<1>3. \A i \in 1..FirstWorkers : f[i] \in S /\ f[i].index = i
  OBVIOUS
<1>4. \A v, w \in S : v.index = w.index => v = w
  OBVIOUS
<1>5. IsFiniteSet(S) /\ Cardinality(S) <= FirstWorkers
  <2>1. IsFiniteSet(1..FirstWorkers) /\ Cardinality(1..FirstWorkers) = FirstWorkers
    BY Constants, FS_Interval
  <2>2. \A y \in S : \E i \in 1..FirstWorkers : f[i] = y
    OBVIOUS
  <2>3. f \in [1..FirstWorkers -> S]
    OBVIOUS
  <2> HIDE DEF f, S
  <2>4. QED BY <2>1, <2>2, <2>3, ImageIsFinite
<1>6. FirstTeam \in Config
  <2>1. S \subseteq Worker /\ FirstWorkers + 1 \in Nat
    BY <1>2, Constants
  <2> HIDE DEF S
  <2>2. [workers |-> S, nextIndex |-> FirstWorkers + 1, nextTask |-> 1]
          \in Config
    BY <2>1 DEF Config
  <2>3. QED BY <2>2 DEF FirstTeam, S
<1> HIDE DEF f, S
<1>7. Sound(FirstTeam)
  BY <1>1, <1>5 DEF Sound
<1>8. Crew(FirstTeam.workers)
  BY <1>1, <1>2, <1>3, <1>4 DEF Crew
<1>9. \A n \in Nat : Opened(FirstTeam.workers, n)
  BY <1>1, <1>2 DEF Opened
<1>10. Cardinality(S) \in Nat
  BY <1>5, FS_CardinalityType
<1>11. QED
  BY <1>1, <1>2, <1>5, <1>6, <1>7, <1>8, <1>9, <1>10, Constants

LEMMA InitTeamIs ==
  ASSUME BaseInv, NEW p \in Proc, InitTeam(p)
  PROVE  /\ Goes(p) /\ SameJob(p) /\ SameTask(p)
         /\ call'[p].fresh = call[p].fresh /\ call'[p].added = call[p].added
         /\ call'[p].first = call[p].first /\ call'[p].left = call[p].left
         /\ call'[p].copy = FirstTeam
         /\ call'[p].step \in {"makeTask", "open"}
         /\ Write(p, FirstTeam)
<1>1. PICK step \in {"makeTask", "open"} :
        /\ Write(p, FirstTeam)
        /\ call' = [call EXCEPT ![p].step = step, ![p].copy = FirstTeam]
  BY DEF InitTeam, FirstTeam
<1>2. call \in [Proc -> Call] /\ call[p] \in Call /\ step \in Step
      /\ FirstTeam \in Config
  BY CallIn, StepsAre, FirstTeamIs
<1>3. QED
  BY <1>1, <1>2 DEF Goes, SameJob, SameTask, Call

NewSession(p) ==
  {[w EXCEPT !.pane = spawned + w.index] : w \in call[p].copy.workers}

LEMMA OpenSessionIs ==
  ASSUME BaseInv, NEW p \in Proc, OpenSession(p), ~Goto(p, "clean")
  PROVE  /\ Goes(p) /\ SameJob(p) /\ SameTask(p)
         /\ call'[p].fresh = call[p].fresh /\ call'[p].added = call[p].added
         /\ call'[p].first = call[p].first /\ call'[p].left = call[p].left
         /\ call'[p].step = "save"
         /\ call'[p].copy.workers = NewSession(p)
         /\ call'[p].copy.nextIndex = call[p].copy.nextIndex
         /\ call'[p].copy.nextTask = call[p].copy.nextTask
         /\ Open(NewSession(p)) /\ NewSession(p) \subseteq Worker
<1>1. call[p].copy \in Config /\ call[p].copy.workers \subseteq Worker
      /\ spawned \in Nat
  BY BaseIs, CallOf, ConfigOf
<1>2. NewSession(p) \subseteq Worker
  BY <1>1 DEF NewSession, Worker
<1>3. call' = [call EXCEPT ![p].step = "save",
                           ![p].copy.workers = NewSession(p)]
      /\ Open(NewSession(p))
  BY DEF OpenSession, NewSession
<1>4. call \in [Proc -> Call] /\ call[p] \in Call /\ "save" \in Step
  BY CallIn, StepsAre
<1>5. QED
  BY <1>2, <1>3, <1>4 DEF Goes, SameJob, SameTask, Call, Config

LEMMA OpenSessionFails ==
  ASSUME BaseInv, NEW p \in Proc, OpenSession(p), Goto(p, "clean")
  PROVE  UNCHANGED members
<1>1. call'[p].step = "clean"
  BY GotoIs, StepsAre, BaseIs DEF Turns
<1>2. ASSUME call' = [call EXCEPT ![p].step = "save",
                                 ![p].copy.workers = NewSession(p)]
      PROVE  FALSE
  BY <1>1, <1>2, CallIn DEF Call
<1>3. QED BY <1>2 DEF OpenSession, NewSession

LEMMA ReadStopIs ==
  ASSUME BaseInv, NEW p \in Proc, ReadStop(p), ~End(p)
  PROVE  /\ Goes(p) /\ SameJob(p) /\ SameTask(p)
         /\ call'[p].fresh = call[p].fresh /\ call'[p].added = call[p].added
         /\ call'[p].first = call[p].first /\ call'[p].left = call[p].left
         /\ call'[p].copy = config
         /\ call'[p].step = IF config = NoTeam THEN "clean" ELSE "save"
<1>1. call' = [call EXCEPT ![p].copy = config,
                   ![p].step = IF config = NoTeam THEN "clean" ELSE "save"]
      /\ config \in Config
  BY BaseIs DEF ReadStop, FileOK
<1>2. call \in [Proc -> Call] /\ call[p] \in Call
      /\ "clean" \in Step /\ "save" \in Step
  BY CallIn, StepsAre
<1>3. QED
  BY <1>1, <1>2 DEF Goes, SameJob, SameTask, Call

-----------------------------------------------------------------------------
(* Every step keeps BaseInv.                                               *)

LEMMA NoCallProper ==
  ASSUME NEW P, NEW n \in Nat
  PROVE  Proper(NoCall, P, n)
<1>1. NoCall.op = "none" /\ NoCall.step = "idle"
      /\ NoCall.copy = NoTeam /\ NoCall.taskCopy = NoTeam
      /\ Sound(NoTeam) /\ Opened(NoTeam.workers, n)
  BY NoCallIs
<1>2. QED BY <1>1 DEF Proper

\* An operation changes its call, and perhaps who holds a lock.
LEMMA BaseCall ==
  ASSUME BaseInv, NEW p \in Proc, Goes(p),
         UNCHANGED <<file, tasks, files, members, written>>,
         BoundsOK', LockOK', (why \subseteq Cause)',
         Proper(call'[p], panes, spawned)
  PROVE  BaseInv'
<1>1. UNCHANGED files /\ UNCHANGED members /\ UNCHANGED <<tasks, written>>
      /\ UNCHANGED file
  OBVIOUS
<1>2. Proper(call'[p], panes', spawned')
  BY DEF members
<1>3. FilesOK' /\ PanesOK' /\ Grown /\ TasksOK'
  BY <1>1, FilesStay, PanesStay, TasksStay
<1>4. FileOK'
  BY <1>1, <1>3, FileStays
<1>5. QED BY <1>2, <1>3, <1>4, BaseStep

\* It writes the configuration.
LEMMA BaseSave ==
  ASSUME BaseInv, NEW p \in Proc, Goes(p),
         UNCHANGED <<tasks, files, members, written, bounds>>, LockOK',
         NEW read, NEW new \in Config, Save(p, read, new), Sound(new),
         Opened(new.workers, spawned), Proper(call'[p], panes, spawned)
  PROVE  BaseInv'
<1>1. UNCHANGED files /\ UNCHANGED members /\ UNCHANGED <<tasks, written>>
      /\ UNCHANGED bounds
  OBVIOUS
<1>2. Proper(call'[p], panes', spawned')
  BY DEF members
<1>3. FilesOK' /\ PanesOK' /\ Grown /\ TasksOK' /\ BoundsOK'
  BY <1>1, FilesStay, PanesStay, TasksStay, BoundsStay
<1>4. FileOK'
  BY <1>1, SaveIs DEF Save
<1>5. (why \subseteq Cause)'
  BY BaseIs, CauseIs DEF Save, Cause
<1>6. QED BY <1>2, <1>3, <1>4, <1>5, BaseStep

\* It opens panes, or closes some.
LEMMA BasePanes ==
  ASSUME BaseInv, NEW p \in Proc, Goes(p),
         UNCHANGED <<file, files, written, bounds, why>>,
         TasksOK', LockOK', PanesOK', Grown, Proper(call'[p], panes', spawned')
  PROVE  BaseInv'
<1>1. UNCHANGED files /\ UNCHANGED bounds /\ UNCHANGED file
  OBVIOUS
<1>2. FilesOK' /\ BoundsOK' /\ FileOK'
  BY <1>1, FilesStay, BoundsStay, FileStays
<1>3. QED BY <1>2, BaseIs, BaseStep

\* It removes the team's directory.
LEMMA BaseRemoved ==
  ASSUME BaseInv, NEW p \in Proc, Goes(p),
         UNCHANGED <<members, written, bounds>>,
         NEW cause, cause \subseteq Cause, RemoveDirectory(p, cause),
         NEW new \in Config, Write(p, new), Sound(new),
         Opened(new.workers, spawned), Proper(call'[p], panes, spawned)
  PROVE  BaseInv'
<1>1. UNCHANGED members /\ UNCHANGED bounds /\ written' = written
  OBVIOUS
<1>2. Proper(call'[p], panes', spawned')
  BY DEF members
<1>3. PanesOK' /\ Grown /\ BoundsOK'
  BY <1>1, PanesStay, BoundsStay
<1>4. FileOK'
  BY <1>1, SaveIs
<1>5. (why \subseteq Cause)' /\ FilesOK' /\ LockOK'
  <2>1. Numbers(panes) \subseteq Nat
    BY BaseIs DEF PanesOK, Worker, Numbers
  <2>2. QED BY <2>1, BaseIs DEF RemoveDirectory, Cause, FilesOK, LockOK
<1>6. TasksOK'
  BY <1>1, BaseIs DEF RemoveDirectory, TasksOK, TaskInv
<1>7. QED BY <1>2, <1>3, <1>4, <1>5, <1>6, BaseStep

LEMMA BaseBegins ==
  ASSUME BaseInv, NEW p \in Proc,
         BeginCreate(p) \/ BeginUp(p) \/ BeginDown(p) \/ BeginStart(p)
           \/ BeginStop(p)
  PROVE  BaseInv'
<1>1. PICK op \in {"create", "up", "down", "start", "stop"},
           step \in {"makeTask", "read", "sweep"} :
        /\ Begin(p, op, step)
        /\ step = "makeTask" <=> op = "create"
        /\ step = "sweep" <=> op = "start"
  BY DEF BeginCreate, BeginUp, BeginDown, BeginStart, BeginStop
<1>2. Begun(p, op, step) /\ calls' \in 0..MaxCalls /\ faults' = faults
  BY <1>1, BeginIs, StepsAre
<1>3. UNCHANGED <<file, tasks, files, members, written, why>>
  BY DEF BeginCreate, BeginUp, BeginDown, BeginStart, BeginStop
<1>4. UNCHANGED lock \/ Take("scaling", p)
  BY DEF BeginCreate, BeginUp, BeginDown, BeginStart, BeginStop
<1>5. LockOK'
  BY <1>4, LockStays DEF Lock
<1>6. Proper(call'[p], panes, spawned)
  <2>1. /\ NoTeam.workers = {} /\ NoWorker.pane = 0 /\ Sound(NoTeam)
        /\ Opened(NoTeam.workers, spawned) /\ spawned \in Nat
    BY NoCallIs, BaseIs
  <2>2. ProperUp(call'[p], panes, spawned) \/ step # "read"
    BY <1>2, <2>1, FS_EmptySet DEF Begun, ProperUp, TaskStep
  <2>3. ProperDown(call'[p], panes) \/ step # "read"
    BY <1>2, <2>1 DEF Begun, ProperDown
  <2>4. ProperStart(call'[p], panes) \/ step # "sweep"
    BY <1>2, <2>1 DEF Begun, ProperStart, TaskStep
  <2>5. ProperStop(call'[p], panes) \/ step # "read"
    BY <1>2, <2>1 DEF Begun, ProperStop
  <2>6. QED
    BY <1>1, <1>2, <2>1, <2>2, <2>3, <2>4, <2>5 DEF Begun, Proper, TaskStep
<1>7. BoundsOK' /\ (why \subseteq Cause)'
  BY <1>2, <1>3, BaseIs DEF BoundsOK
<1>8. QED BY <1>2, <1>3, <1>5, <1>6, <1>7, BaseCall DEF Begun

\* The operation ends.
LEMMA BaseEnds ==
  ASSUME BaseInv, NEW p \in Proc, End(p),
         UNCHANGED <<file, tasks, files, members, written>>,
         BoundsOK', LockOK', (why \subseteq Cause)'
  PROVE  BaseInv'
<1>1. Goes(p) /\ call'[p] = NoCall
  BY BaseIs, EndIs
<1>2. Proper(call'[p], panes, spawned)
  BY <1>1, BaseIs, NoCallProper
<1>3. QED BY <1>1, <1>2, BaseCall

LEMMA BaseEndsSave ==
  ASSUME BaseInv, NEW p \in Proc, End(p),
         UNCHANGED <<tasks, files, members, written, bounds>>, LockOK',
         NEW read, NEW new \in Config, Save(p, read, new), Sound(new),
         Opened(new.workers, spawned)
  PROVE  BaseInv'
<1>1. Goes(p) /\ call'[p] = NoCall
  BY BaseIs, EndIs
<1>2. Proper(call'[p], panes, spawned)
  BY <1>1, BaseIs, NoCallProper
<1>3. QED BY <1>1, <1>2, BaseSave

\* createTask goes on, and leaves what its caller holds alone.
LEMMA TaskMoves ==
  ASSUME NEW c \in Call, NEW d \in Call, NEW P, NEW n \in Nat, Proper(c, P, n),
         c.step \in TaskStep, d.op = c.op, d.copy = c.copy,
         d.first = c.first, d.left = c.left, d.added = c.added,
         d.fresh = c.fresh,
         d.step \in TaskStep \/ (d.step = "open" /\ d.op # "create"),
         d.op = "up" /\ d.step \in {"makeTask", "readTask", "writeTask"} =>
           d.made = {},
         Sound(d.taskCopy), Opened(d.taskCopy.workers, n),
         d.step \in {"writeTask", "countTask"} =>
           d.taskCopy.nextTask > 0 /\ d.id > 0
  PROVE  Proper(d, P, n)
<1>1. c.op \in {"create", "up", "start"}
  <2>1. c.op = "none" => c.step = "idle"
    BY NoCallIs DEF Proper
  <2>2. c.op \in Operation
    BY DEF Call
  <2>3. QED
    BY <2>1, <2>2 DEF Proper, ProperDown, ProperStop, TaskStep, Operation
<1>2. c.op = "up" => ProperUp(d, P, n)
  <2>1. SUFFICES ASSUME c.op = "up", ProperUp(c, P, n)
                  PROVE  ProperUp(d, P, n)
    BY DEF Proper
  <2>2. c.step # "read" /\ d.step # "read" /\ d.step # "revert"
        /\ d.step \notin {"notify", "save"}
    BY DEF TaskStep
  <2>3. c.added = {} /\ c.fresh = NoWorker
    BY <2>1 DEF ProperUp
  <2>4. QED BY <2>1, <2>2, <2>3 DEF ProperUp, TaskStep
<1>3. c.op = "start" => ProperStart(d, P)
  BY DEF Proper, ProperStart, TaskStep
<1>4. QED BY <1>1, <1>2, <1>3 DEF Proper, TaskStep

LEMMA BaseLockTasks ==
  ASSUME BaseInv, NEW p \in Proc, LockTasks(p)
  PROVE  BaseInv'
<1>1. Turns(p, "readTask") /\ call[p].step = "makeTask"
  BY GotoIs, StepsAre, BaseIs DEF LockTasks
<1>2. Proper(call[p], panes, spawned)
  BY BaseIs
<1>3. Proper(call'[p], panes, spawned)
  <2>1. call[p] \in Call /\ call'[p] \in Call /\ spawned \in Nat
        /\ Sound(call[p].taskCopy) /\ Opened(call[p].taskCopy.workers, spawned)
    BY <1>1, <1>2, CallIn, BaseIs DEF Turns, Goes, Proper
  <2>2. call[p].op = "up" => call[p].made = {}
    BY <1>1, <1>2 DEF Proper, ProperUp
  <2>3. QED
    BY <1>1, <1>2, <2>1, <2>2, TaskMoves
    DEF Turns, SameJob, SameTask, SameTeam, TaskStep
<1>4. LockOK'
  BY LockStays DEF LockTasks, Lock
<1>5. BoundsOK' /\ (why \subseteq Cause)'
  BY BoundsStay, BaseIs DEF LockTasks
<1>6. QED BY <1>1, <1>3, <1>4, <1>5, BaseCall DEF Turns, LockTasks

\* createTask fails before it has written anything.
LEMMA BaseThrows ==
  ASSUME BaseInv, NEW p \in Proc, TaskThrows(p),
         call[p].step \in {"makeTask", "readTask"},
         UNCHANGED <<file, tasks, files, members, written, why>>,
         BoundsOK', LockOK'
  PROVE  BaseInv'
<1>1. CASE call[p].op # "start"
  BY <1>1, BaseEnds, BaseIs DEF TaskThrows
<1>2. CASE call[p].op = "start"
  <2>1. Turns(p, "clean")
    BY <1>2, GotoIs, StepsAre, BaseIs DEF TaskThrows
  <2>2. Proper(call[p], panes, spawned) /\ ProperStart(call[p], panes)
    BY <1>2, BaseIs DEF Proper
  <2>3. \A w \in panes : w.pane > 0 /\ w.pane \in Nat
    BY BaseIs DEF PanesOK, PaneInv, Worker
  <2>4. \A w \in call[p].copy.workers : w.pane = 0
    BY <2>2 DEF ProperStart, TaskStep
  <2>5. panes \cap call[p].copy.workers = {}
    BY <2>3, <2>4
  <2>6. ProperStart(call'[p], panes)
    BY <2>1, <2>2, <2>5 DEF Turns, SameTeam, ProperStart, TaskStep
  <2>7. Proper(call'[p], panes, spawned)
    BY <1>2, <2>1, <2>2, <2>6
    DEF Turns, SameJob, SameTask, SameTeam, Proper
  <2>8. QED BY <2>1, <2>7, BaseCall, BaseIs DEF Turns
<1>3. QED BY <1>1, <1>2

LEMMA BaseReadTask ==
  ASSUME BaseInv, NEW p \in Proc, ReadTask(p)
  PROVE  BaseInv'
<1>1. UNCHANGED <<file, tasks, files, members, written, bounds, why>>
      /\ call[p].step = "readTask"
  BY DEF ReadTask
<1>2. BoundsOK' /\ (why \subseteq Cause)'
  BY <1>1, BoundsStay, BaseIs
<1>3. LockOK'
  BY BaseIs DEF ReadTask, LockOK
<1>4. CASE config = NoTeam
  BY <1>1, <1>2, <1>3, <1>4, BaseThrows DEF ReadTask
<1>5. CASE config # NoTeam
  <2>1. /\ Goes(p) /\ SameJob(p) /\ SameTeam(p)
        /\ call'[p].fresh = call[p].fresh /\ call'[p].made = call[p].made
        /\ call'[p].step = "writeTask" /\ call'[p].taskCopy = config
        /\ call'[p].id >= config.nextTask /\ call'[p].id \in Nat
    BY <1>5, ReadTaskIs
  <2>2. Sound(config) /\ Opened(config.workers, spawned)
        /\ config.nextTask \in Nat
    BY BaseIs, ConfigOf DEF FileOK, FileInv
  <2>3. call'[p].taskCopy.nextTask > 0 /\ call'[p].id > 0
    BY <1>5, <2>1, <2>2 DEF Sound
  <2>4. Proper(call[p], panes, spawned)
    BY BaseIs
  <2>5. Proper(call'[p], panes, spawned)
    <3>1. call[p] \in Call /\ call'[p] \in Call /\ spawned \in Nat
      BY <2>1, CallIn, BaseIs DEF Goes
    <3>2. call[p].op = "up" => call[p].made = {}
      BY <1>1, <2>4 DEF Proper, ProperUp
    <3>3. QED
      BY <1>1, <2>1, <2>2, <2>3, <2>4, <3>1, <3>2, TaskMoves
      DEF SameJob, SameTeam, TaskStep
  <2>6. QED BY <1>1, <1>2, <1>3, <2>1, <2>5, BaseCall
<1>6. QED BY <1>4, <1>5

LEMMA BaseWriteTask ==
  ASSUME BaseInv, NEW p \in Proc, WriteTask(p)
  PROVE  BaseInv'
<1>1. /\ UNCHANGED file /\ UNCHANGED files /\ UNCHANGED members
      /\ UNCHANGED lock /\ UNCHANGED bounds /\ UNCHANGED why
      /\ written' = written + 1 /\ call[p].step = "writeTask"
  BY DEF WriteTask
<1>2. /\ Goes(p) /\ SameJob(p) /\ SameTeam(p)
      /\ call'[p].fresh = call[p].fresh /\ call'[p].step = "countTask"
      /\ call'[p].taskCopy = call[p].taskCopy /\ call'[p].id = call[p].id
      /\ call'[p].made = IF call[p].op = "up" THEN {NewTask(p)} ELSE {}
      /\ NewTask(p) \in Task /\ NewTask(p).id = call[p].id
      /\ tasks' = {t \in tasks : t.id # call[p].id} \cup {NewTask(p)}
  BY WriteTaskIs
<1>3. PanesOK' /\ Grown /\ FilesOK' /\ BoundsOK' /\ (why \subseteq Cause)'
  BY <1>1, PanesStay, FilesStay, BoundsStay, BaseIs
<1>4. FileOK' /\ LockOK'
  BY <1>1, <1>3, FileStays, BaseIs DEF LockOK
<1>5. TasksOK'
  <2>1. PICK b \in Nat : \A t \in tasks : t.id <= b
    BY BaseIs DEF TasksOK, TaskInv
  <2>2. tasks \subseteq Task /\ written \in Nat
        /\ \A t, u \in tasks : t.id = u.id => t = u
    BY BaseIs DEF TasksOK, TaskInv
  <2>3. tasks' \subseteq Task /\ written' \in Nat
        /\ \A t, u \in tasks' : t.id = u.id => t = u
    BY <1>1, <1>2, <2>2
  <2>4. call[p].id \in Nat /\ \A t \in tasks : t.id \in Nat
    BY <1>2, <2>2 DEF Task
  <2>5. b + call[p].id \in Nat /\ \A t \in tasks' : t.id <= b + call[p].id
    BY <1>2, <2>1, <2>4
  <2>6. QED BY <2>3, <2>5 DEF TasksOK, TaskInv
<1>6. Proper(call[p], panes, spawned)
  BY BaseIs
<1>7. Proper(call'[p], panes', spawned')
  <2>1. call[p] \in Call /\ call'[p] \in Call /\ spawned \in Nat
    BY <1>2, CallIn, BaseIs DEF Goes
  <2>2. Sound(call[p].taskCopy) /\ Opened(call[p].taskCopy.workers, spawned)
        /\ call[p].taskCopy.nextTask > 0 /\ call[p].id > 0
    BY <1>1, <1>6 DEF Proper
  <2>3. Proper(call'[p], panes, spawned)
    BY <1>1, <1>2, <1>6, <2>1, <2>2, TaskMoves DEF SameJob, SameTeam, TaskStep
  <2>4. QED BY <1>1, <2>3 DEF members
<1>8. QED BY <1>2, <1>3, <1>4, <1>5, <1>7, BaseStep

LEMMA BaseCountTask ==
  ASSUME BaseInv, NEW p \in Proc, CountTask(p)
  PROVE  BaseInv'
<1> DEFINE c == call[p].taskCopy
           new == [c EXCEPT !.nextTask = call[p].id + 1]
<1>1. /\ call[p].step = "countTask" /\ Save(p, c, new) /\ Give("tasks", p)
      /\ UNCHANGED <<tasks, files, members, written, bounds>>
  BY DEF CountTask
<1>2. c \in Config /\ call[p].id \in Nat
  BY BaseIs, CallOf
<1>3. new \in Config /\ new.workers = c.workers /\ new.nextTask > 0
  BY <1>2 DEF Config
<1>4. Sound(new) /\ Opened(new.workers, spawned)
  BY <1>3, BaseIs DEF Proper, Sound
<1>5. LockOK'
  BY <1>1, LockStays DEF Lock
<1> HIDE DEF new
<1>6. CASE call[p].op = "create"
  <2>1. End(p)  BY <1>6 DEF CountTask
  <2>2. QED BY <1>1, <1>3, <1>4, <1>5, <2>1, BaseEndsSave
<1>7. CASE call[p].op # "create"
  <2>1. /\ Goes(p) /\ SameJob(p) /\ SameTeam(p)
        /\ call'[p].fresh = call[p].fresh /\ call'[p].made = call[p].made
        /\ call'[p].step = "open" /\ call'[p].taskCopy = NoTeam
        /\ call'[p].id = 0
    BY <1>7, CountTaskIs
  <2>2. Proper(call[p], panes, spawned) /\ Sound(NoTeam)
        /\ Opened(NoTeam.workers, spawned)
    BY BaseIs, NoCallIs
  <2>5. call[p] \in Call /\ call'[p] \in Call /\ spawned \in Nat
    BY <2>1, CallIn, BaseIs DEF Goes
  <2>3. Proper(call'[p], panes, spawned)
    BY <1>1, <1>7, <2>1, <2>2, <2>5, TaskMoves
    DEF SameJob, SameTeam, TaskStep
  <2>4. QED BY <1>1, <1>3, <1>4, <1>5, <2>1, <2>3, BaseSave
<1>8. QED BY <1>6, <1>7

LEMMA BaseTaskTimeout ==
  ASSUME BaseInv, NEW p \in Proc, TaskTimeout(p)
  PROVE  BaseInv'
<1>1. BoundsOK'
  BY FaultIs, BaseIs DEF TaskTimeout, BoundsOK
<1>2. LockOK'
  BY LockStays DEF TaskTimeout, Lock
<1>3. QED BY <1>1, <1>2, BaseThrows DEF TaskTimeout

LEMMA BaseReadUp ==
  ASSUME BaseInv, NEW p \in Proc, ReadUp(p)
  PROVE  BaseInv'
<1>1. /\ UNCHANGED <<file, tasks, files, members, written>>
      /\ UNCHANGED bounds /\ UNCHANGED why
      /\ call[p].op = "up" /\ call[p].step = "read"
  BY DEF ReadUp, At
<1>2. LockOK' /\ BoundsOK' /\ (why \subseteq Cause)'
  BY <1>1, LockStays, BoundsStay, BaseIs DEF ReadUp, Lock
<1>3. CASE End(p)
  BY <1>1, <1>2, <1>3, BaseEnds
<1>4. CASE ~End(p)
  <2>1. /\ Goes(p) /\ SameJob(p) /\ SameTask(p)
        /\ call'[p].fresh = call[p].fresh /\ call'[p].added = call[p].added
        /\ call'[p].copy = config /\ config # NoTeam
        /\ call'[p].first = config.nextIndex
        /\ call'[p].left > 0
        /\ call'[p].step \in {"makeTask", "open"}
    BY <1>4, ReadUpIs
  <2>2. Proper(call[p], panes, spawned) /\ ProperUp(call[p], panes, spawned)
    BY <1>1, BaseIs DEF Proper
  <2>3. Sound(config) /\ Opened(config.workers, spawned)
        /\ config.nextIndex \in Nat /\ config.nextTask > 0
    BY <2>1, BaseIs, ConfigOf DEF FileOK, FileInv, Sound
  <2>4. call[p].added = {} /\ call[p].fresh = NoWorker /\ call[p].made = {}
        /\ call[p].fresh.pane <= spawned
    BY <1>1, <2>2 DEF ProperUp
  <2>5. ProperUp(call'[p], panes, spawned)
    BY <2>1, <2>3, <2>4, FS_EmptySet DEF ProperUp, SameTask, TaskStep
  <2>6. Proper(call'[p], panes, spawned)
    BY <1>1, <2>1, <2>2, <2>3, <2>5 DEF Proper, SameJob, SameTask, TaskStep
  <2>7. QED BY <1>1, <1>2, <2>1, <2>6, BaseCall
<1>5. QED BY <1>3, <1>4

LEMMA BaseOpenPane ==
  ASSUME BaseInv, NEW p \in Proc, OpenPane(p)
  PROVE  BaseInv'
<1>1. /\ UNCHANGED <<file, files, written, bounds, why>>
      /\ UNCHANGED <<tasks, written>> /\ UNCHANGED lock
      /\ call[p].op = "up" /\ call[p].step = "open"
  BY DEF OpenPane, At
<1>2. TasksOK' /\ LockOK'
  BY <1>1, TasksStay, BaseIs DEF LockOK
<1>3. Proper(call[p], panes, spawned) /\ ProperUp(call[p], panes, spawned)
      /\ spawned \in Nat
  BY <1>1, BaseIs DEF Proper
<1>4. CASE Goto(p, "undo")
  <2>2. Turns(p, "undo")
    BY <1>4, GotoIs, StepsAre, BaseIs
  <2>3. UNCHANGED members
    BY <1>4, OpenPaneFails
  <2>4. PanesOK' /\ Grown /\ panes' = panes /\ spawned' = spawned
    BY <2>3, PanesStay DEF members
  <2>5. ProperUp(call'[p], panes, spawned)
    BY <1>1, <1>3, <2>2 DEF ProperUp, Turns, SameTeam, SameTask, TaskStep
  <2>6. Proper(call'[p], panes, spawned)
    BY <1>1, <1>3, <2>2, <2>5
    DEF Proper, Turns, SameTeam, SameTask, SameJob, TaskStep
  <2>7. QED BY <1>1, <1>2, <2>2, <2>4, <2>6, BasePanes DEF Turns
<1>5. CASE ~Goto(p, "undo")
  <2>1. /\ Goes(p) /\ SameJob(p) /\ SameTask(p) /\ SameTeam(p)
        /\ call'[p].fresh = NewWorker(p) /\ call'[p].step = "notify"
        /\ NewWorker(p) \in Worker
        /\ NewWorker(p).index = call[p].copy.nextIndex
        /\ NewWorker(p).pane = spawned + 1
        /\ panes' = panes \cup {NewWorker(p)} /\ spawned' = spawned + 1
        /\ UNCHANGED busy
    BY <1>5, OpenPaneIs
  <2>2. PanesOK'
    BY <1>3, <2>1, BaseIs DEF PanesOK, PaneInv, Worker
  <2>3. Grown
    BY <1>3, <2>1 DEF Grown
  <2>4. Proper(call[p], panes', spawned') /\ ProperUp(call[p], panes', spawned')
    <3>1. panes \in SUBSET Worker /\ panes' \in SUBSET Worker
          /\ spawned' \in Nat /\ spawned <= spawned' /\ call[p] \in Call
      BY <2>2, <2>3, BaseIs, CallIn DEF PanesOK, Grown
    <3>2. Proper(call[p], panes', spawned')
      BY <1>3, <2>3, <3>1, ProperStays DEF Grown
    <3>3. QED BY <1>1, <3>2 DEF Proper
  <2>5. ProperUp(call'[p], panes', spawned')
    BY <1>1, <1>3, <2>1, <2>4 DEF ProperUp, SameTeam, SameTask, TaskStep
  <2>6. Proper(call'[p], panes', spawned')
    BY <1>1, <2>1, <2>4, <2>5 DEF Proper, SameTeam, SameTask, SameJob, TaskStep
  <2>7. QED BY <1>1, <1>2, <2>1, <2>2, <2>3, <2>6, BasePanes
<1>6. QED BY <1>4, <1>5

LEMMA BaseNotifyNew ==
  ASSUME BaseInv, NEW p \in Proc, NotifyNew(p)
  PROVE  BaseInv'
<1>1. /\ UNCHANGED <<file, tasks, files, members, written>>
      /\ UNCHANGED bounds
      /\ call[p].op = "up" /\ call[p].step = "notify"
  BY DEF NotifyNew, At
<1>2. LockOK' /\ BoundsOK' /\ (why \subseteq Cause)'
  BY <1>1, LockStays, BoundsStay, BaseIs DEF NotifyNew, Lock, Cause
<1>3. CASE End(p)
  BY <1>1, <1>2, <1>3, BaseEnds
<1>4. CASE ~End(p)
  <2>1. PICK step \in {"save", "undo"} : Turns(p, step)
    BY <1>4, GotoIs, StepsAre, BaseIs DEF NotifyNew
  <2>2. Proper(call[p], panes, spawned) /\ ProperUp(call[p], panes, spawned)
    BY <1>1, BaseIs DEF Proper
  <2>3. ProperUp(call'[p], panes, spawned)
    BY <1>1, <2>1, <2>2 DEF ProperUp, Turns, SameTeam, SameTask, TaskStep
  <2>4. Proper(call'[p], panes, spawned)
    BY <1>1, <2>1, <2>2, <2>3
    DEF Proper, Turns, SameTeam, SameTask, SameJob, TaskStep
  <2>5. QED BY <1>1, <1>2, <2>1, <2>4, BaseCall DEF Turns
<1>5. QED BY <1>3, <1>4

LEMMA BaseSaveUp ==
  ASSUME BaseInv, NEW p \in Proc, SaveUp(p)
  PROVE  BaseInv'
<1>1. /\ UNCHANGED <<tasks, files, members, written, bounds>>
      /\ call[p].op = "up" /\ call[p].step = "save"
      /\ Save(p, call[p].copy, Grow(p))
  BY DEF SaveUp, At, Grow
<1>2. LockOK'
  BY LockStays DEF SaveUp, Lock
<1>3. Proper(call[p], panes, spawned) /\ ProperUp(call[p], panes, spawned)
      /\ spawned \in Nat
  BY <1>1, BaseIs DEF Proper
<1>4. /\ Grow(p) \in Config
      /\ Grow(p).workers = call[p].copy.workers \cup {call[p].fresh}
      /\ Grow(p).nextIndex = call[p].fresh.index + 1
      /\ Grow(p).nextTask = call[p].copy.nextTask
  BY GrowIs, BaseIs
<1>5. Sound(Grow(p)) /\ Opened(Grow(p).workers, spawned)
  <2>1. IsFiniteSet(Grow(p).workers)
    <3>1. IsFiniteSet(call[p].copy.workers)
      BY <1>3 DEF Proper, Sound
    <3>2. IsFiniteSet(call[p].copy.workers \cup {call[p].fresh})
      BY <3>1, FS_AddElement
    <3>3. QED BY <1>4, <3>2
  <2>2. Grow(p).nextTask > 0
    BY <1>1, <1>3, <1>4 DEF ProperUp
  <2>3. QED BY <1>3, <1>4, <2>1, <2>2 DEF Proper, ProperUp, Sound, Opened
<1>6. CASE call[p].left = 1
  BY <1>1, <1>2, <1>4, <1>5, <1>6, BaseEndsSave DEF SaveUp
<1>7. CASE call[p].left # 1
  <2>1. /\ Goes(p) /\ SameJob(p) /\ SameTask(p)
        /\ call'[p].first = call[p].first /\ call'[p].copy = Grow(p)
        /\ call'[p].added = call[p].added \cup {call[p].fresh}
        /\ call'[p].fresh = NoWorker /\ call'[p].left = call[p].left - 1
        /\ call'[p].left > 0 /\ call'[p].step = "open"
    BY <1>7, SaveUpIs
  <2>2. /\ call[p].fresh \in Worker /\ call[p].added \subseteq Worker
        /\ call[p].first \in Nat /\ call[p].copy.nextIndex \in Nat
    BY BaseIs, CallOf, ConfigOf
  <2>3. /\ call[p].fresh.pane > 0
        /\ call[p].fresh # NoWorker => call[p].fresh.index = call[p].copy.nextIndex
        /\ IsFiniteSet(call[p].added) /\ call[p].added \subseteq call[p].copy.workers
        /\ \A w \in call[p].added :
              call[p].first <= w.index /\ w.index < call[p].copy.nextIndex
        /\ call[p].copy.nextIndex = call[p].first + Cardinality(call[p].added)
        /\ call[p].copy.nextTask > 0
    BY <1>1, <1>3 DEF ProperUp
  <2>4. call[p].fresh.index = call[p].copy.nextIndex
    BY <2>3, NoCallIs
  <2>5. call[p].fresh \notin call[p].added
    BY <2>2, <2>3, <2>4
  <2>6. /\ IsFiniteSet(call'[p].added)
        /\ Cardinality(call'[p].added) = Cardinality(call[p].added) + 1
        /\ Cardinality(call[p].added) \in Nat
    <3>1. IsFiniteSet(call[p].added)
      BY <2>3
    <3>2. /\ IsFiniteSet(call[p].added \cup {call[p].fresh})
          /\ Cardinality(call[p].added \cup {call[p].fresh})
               = Cardinality(call[p].added) + 1
      BY <2>5, <3>1, FS_AddElement
    <3>3. Cardinality(call[p].added) \in Nat
      BY <3>1, FS_CardinalityType
    <3>4. QED BY <2>1, <3>2, <3>3
  <2>7. call'[p].copy.nextIndex = call'[p].first + Cardinality(call'[p].added)
    BY <1>4, <2>1, <2>2, <2>3, <2>4, <2>6
  <2>8. call[p].first <= call[p].copy.nextIndex
    BY <2>2, <2>3, <2>6
  <2>9. call'[p].added \subseteq call'[p].copy.workers
        /\ \A w \in call'[p].added :
              call'[p].first <= w.index /\ w.index < call'[p].copy.nextIndex
    <3>1. \A w \in call[p].added : w.index \in Nat
      BY <2>2 DEF Worker
    <3>2. QED BY <1>4, <2>1, <2>2, <2>3, <2>4, <2>8, <3>1
  <2>10. ProperUp(call'[p], panes, spawned)
    BY <1>3, <1>4, <2>1, <2>3, <2>6, <2>7, <2>9, NoCallIs
    DEF ProperUp, SameTask, TaskStep
  <2>11. Proper(call'[p], panes, spawned)
    BY <1>1, <1>3, <1>5, <2>1, <2>10 DEF Proper, SameJob, SameTask, TaskStep
  <2>12. QED BY <1>1, <1>2, <1>4, <1>5, <2>1, <2>11, BaseSave
<1>8. QED BY <1>6, <1>7

LEMMA BaseUndo ==
  ASSUME BaseInv, NEW p \in Proc, Undo(p)
  PROVE  BaseInv'
<1>1. /\ UNCHANGED <<file, files, written, bounds, why>> /\ UNCHANGED lock
      /\ call[p].op = "up" /\ call[p].step = "undo"
      /\ tasks' \subseteq tasks /\ written' = written
  BY DEF Undo, At
<1>2. Turns(p, "revert")
  BY GotoIs, StepsAre, BaseIs DEF Undo
<1>3. PanesOK' /\ Grown /\ panes' = panes \ Undone(p)
  BY CloseIs DEF Undo
<1>4. TasksOK' /\ LockOK'
  BY <1>1, BaseIs DEF TasksOK, TaskInv, LockOK
<1>5. Proper(call[p], panes', spawned')
  <2>1. panes \in SUBSET Worker /\ panes' \in SUBSET Worker /\ spawned \in Nat
        /\ call[p] \in Call /\ Proper(call[p], panes, spawned)
    BY <1>3, BaseIs, CallIn DEF PanesOK
  <2>2. QED BY <1>3, <2>1, ProperStays DEF Grown
<1>6. ProperUp(call'[p], panes', spawned')
  BY <1>1, <1>2, <1>3, <1>5
  DEF Proper, ProperUp, Turns, SameTeam, SameTask, TaskStep, Undone
<1>7. Proper(call'[p], panes', spawned')
  BY <1>1, <1>2, <1>5, <1>6
  DEF Proper, Turns, SameTeam, SameTask, SameJob, TaskStep
<1>8. QED BY <1>1, <1>2, <1>3, <1>4, <1>7, BasePanes DEF Turns

Shrunk(c, S, i) == [c EXCEPT !.workers = S, !.nextIndex = i]

\* The team without those of its workers that are gone.
LEMMA ShrunkIs ==
  ASSUME NEW c \in Config, NEW S \in SUBSET c.workers, NEW i \in Nat,
         NEW n \in Nat, IsFiniteSet(c.workers), c.nextTask > 0,
         Opened(c.workers, n)
  PROVE  /\ Shrunk(c, S, i) \in Config /\ Sound(Shrunk(c, S, i))
         /\ Opened(Shrunk(c, S, i).workers, n)
         /\ Shrunk(c, S, i).workers = S /\ Shrunk(c, S, i).nextIndex = i
         /\ Shrunk(c, S, i).nextTask = c.nextTask
<1>1. /\ Shrunk(c, S, i) \in Config /\ Shrunk(c, S, i).workers = S
      /\ Shrunk(c, S, i).nextIndex = i /\ Shrunk(c, S, i).nextTask = c.nextTask
  BY DEF Config, Shrunk
<1>2. IsFiniteSet(S)
  BY FS_Subset
<1>3. Sound(Shrunk(c, S, i)) /\ Opened(Shrunk(c, S, i).workers, n)
  BY <1>1, <1>2 DEF Sound, Opened
<1>4. QED BY <1>1, <1>3

Gone(p) == {First(call[p].copy.workers, w.index) : w \in call[p].added}

LEMMA RevertIs ==
  ASSUME BaseInv, NEW p \in Proc, Revert(p)
  PROVE  \E new \in Config :
           /\ Save(p, call[p].copy, new)
           /\ Sound(new) /\ Opened(new.workers, spawned)
           /\ new.workers = call[p].copy.workers \ Gone(p)
           /\ new.nextIndex = call[p].first
           /\ new.nextTask = call[p].copy.nextTask
<1>1. call[p].op = "up" /\ call[p].step = "revert"
  BY DEF Revert, At
<1>2. Proper(call[p], panes, spawned) /\ ProperUp(call[p], panes, spawned)
      /\ spawned \in Nat
  BY <1>1, BaseIs DEF Proper
<1> DEFINE c == call[p].copy
           S == c.workers \ Gone(p)
           d == Shrunk(c, S, call[p].first)
<1>3. c \in Config /\ call[p].first \in Nat
  BY BaseIs, CallOf
<1>4. IsFiniteSet(c.workers) /\ c.nextTask > 0 /\ Opened(c.workers, spawned)
  BY <1>1, <1>2 DEF Proper, ProperUp, Sound
<1>5. Save(p, c, d)
  BY DEF Revert, Gone, Shrunk
<1>6. S \in SUBSET c.workers
  OBVIOUS
<1> HIDE DEF c, S
<1>7. /\ d \in Config /\ Sound(d) /\ Opened(d.workers, spawned)
      /\ d.workers = S /\ d.nextIndex = call[p].first /\ d.nextTask = c.nextTask
  BY <1>2, <1>3, <1>4, <1>6, ShrunkIs
<1> HIDE DEF d
<1>8. QED BY <1>5, <1>7 DEF c, S

LEMMA BaseRevert ==
  ASSUME BaseInv, NEW p \in Proc, Revert(p)
  PROVE  BaseInv'
<1>1. LockOK'
  BY LockStays DEF Revert, Lock
<1>2. QED BY <1>1, RevertIs, BaseEndsSave DEF Revert

LEMMA BasePick ==
  ASSUME BaseInv, NEW p \in Proc, Pick(p)
  PROVE  BaseInv'
<1>1. /\ UNCHANGED <<file, tasks, files, members, written>>
      /\ UNCHANGED bounds /\ UNCHANGED why
      /\ call[p].op = "down" /\ call[p].step = "read"
  BY DEF Pick, At
<1>2. LockOK' /\ BoundsOK' /\ (why \subseteq Cause)'
  BY <1>1, LockStays, BoundsStay, BaseIs DEF Pick, Lock
<1>3. CASE End(p)
  BY <1>1, <1>2, <1>3, BaseEnds
<1>4. CASE ~End(p)
  <2>1. /\ Goes(p) /\ SameTask(p)
        /\ call'[p].op = "down" /\ call'[p].copy = config
        /\ call'[p].step = "drain"
        /\ call'[p].targets \subseteq config.workers
        /\ call'[p].targets \notin {{}, config.workers}
    BY <1>4, PickIs
  <2>2. Proper(call[p], panes, spawned)
    BY BaseIs
  <2>3. Sound(config) /\ Opened(config.workers, spawned)
    BY BaseIs DEF FileOK, FileInv
  <2>4. ProperDown(call'[p], panes)
    BY <2>1 DEF ProperDown
  <2>5. Proper(call'[p], panes, spawned)
    BY <2>1, <2>2, <2>3, <2>4 DEF Proper, SameTask
  <2>6. QED BY <1>1, <1>2, <2>1, <2>5, BaseCall
<1>5. QED BY <1>3, <1>4

LEMMA BaseDrain ==
  ASSUME BaseInv, NEW p \in Proc, Drain(p)
  PROVE  BaseInv'
<1>1. /\ UNCHANGED file /\ UNCHANGED <<tasks, written>> /\ UNCHANGED members
      /\ UNCHANGED lock /\ UNCHANGED bounds /\ UNCHANGED why
      /\ call[p].op = "down" /\ call[p].step = "drain"
  BY DEF Drain, At
<1>2. /\ Goes(p) /\ SameTask(p) /\ SameTeam(p)
      /\ call'[p].op = "down" /\ call'[p].targets = call[p].targets
      /\ call'[p].step \in {"kill", "wait"}
  BY DrainIs
<1>3. PanesOK' /\ Grown /\ TasksOK' /\ BoundsOK' /\ (why \subseteq Cause)'
  BY <1>1, PanesStay, TasksStay, BoundsStay, BaseIs
<1>4. FileOK' /\ LockOK'
  BY <1>1, <1>3, FileStays, BaseIs DEF LockOK
<1>5. FilesOK'
  <2>1. Numbers(call[p].targets) \subseteq Nat
    BY BaseIs, CallOf DEF Numbers, Worker
  <2>2. QED BY <2>1, BaseIs DEF Drain, FilesOK
<1>6. Proper(call[p], panes, spawned)
  BY BaseIs
<1>7. Proper(call'[p], panes, spawned)
  BY <1>1, <1>2, <1>6 DEF SameTask, SameTeam, Proper, ProperDown
<1>8. Proper(call'[p], panes', spawned')
  BY <1>1, <1>7 DEF members
<1>9. QED BY <1>2, <1>3, <1>4, <1>5, <1>8, BaseStep

LEMMA BaseWaits ==
  ASSUME BaseInv, NEW p \in Proc, EndWait(p) \/ StopWaiting(p)
  PROVE  BaseInv'
<1>1. /\ UNCHANGED <<file, tasks, files, members, written>>
      /\ UNCHANGED bounds /\ UNCHANGED why /\ UNCHANGED lock
      /\ call[p].op = "down" /\ call[p].step = "wait" /\ Goto(p, "kill")
  BY DEF EndWait, StopWaiting, At
<1>2. LockOK' /\ BoundsOK' /\ (why \subseteq Cause)'
  BY <1>1, BoundsStay, BaseIs DEF LockOK
<1>3. Turns(p, "kill") /\ Proper(call[p], panes, spawned)
  BY <1>1, GotoIs, StepsAre, BaseIs
<1>4. Proper(call'[p], panes, spawned)
  BY <1>1, <1>3
  DEF Turns, SameJob, SameTask, SameTeam, Proper, ProperDown
<1>5. QED BY <1>1, <1>2, <1>3, <1>4, BaseCall DEF Turns

\* The panes of some workers are closed.
LEMMA BaseCloses ==
  ASSUME BaseInv, NEW p \in Proc, NEW S, Close(S),
         UNCHANGED <<file, tasks, files, written, bounds, why>>, LockOK',
         \/ End(p)
         \/ \E step \in Step :
              Goto(p, step) /\ (Proper(call[p], panes', spawned) =>
                                  Proper(call'[p], panes', spawned))
  PROVE  BaseInv'
<1>1. PanesOK' /\ Grown /\ panes' = panes \ S /\ spawned' = spawned
  BY CloseIs DEF Close
<1>2. UNCHANGED <<file, files, written, bounds, why>> /\ TasksOK'
  BY TasksStay
<1>3. spawned \in Nat
  BY BaseIs
<1>4. CASE End(p)
  <2>1. Goes(p) /\ call'[p] = NoCall
    BY <1>4, EndIs, BaseIs
  <2>2. Proper(call'[p], panes', spawned')
    BY <1>1, <1>3, <2>1, NoCallProper
  <2>3. QED BY <1>1, <1>2, <2>1, <2>2, BasePanes
<1>5. CASE ~End(p)
  <2>1. PICK step \in Step :
              Goto(p, step) /\ (Proper(call[p], panes', spawned) =>
                                  Proper(call'[p], panes', spawned))
    BY <1>5
  <2>2. Goes(p)
    BY <2>1, GotoIs, BaseIs DEF Turns
  <2>3. panes \in SUBSET Worker /\ panes' \in SUBSET Worker
        /\ call[p] \in Call /\ Proper(call[p], panes, spawned)
    BY <1>1, BaseIs, CallIn DEF PanesOK
  <2>4. Proper(call[p], panes', spawned)
    BY <1>1, <1>3, <2>3, ProperStays
  <2>5. QED BY <1>1, <1>2, <2>1, <2>2, <2>4, BasePanes
<1>6. QED BY <1>4, <1>5

LEMMA BaseTearDown ==
  ASSUME BaseInv, NEW p \in Proc, TearDown(p)
  PROVE  BaseInv'
<1>1. UNCHANGED <<file, tasks, files, written, bounds, why>>
      /\ call[p].op = "down" /\ call[p].step = "kill"
      /\ Close(call[p].targets)
  BY DEF TearDown, At
<1>2. LockOK'
  BY LockStays, BaseIs DEF TearDown, Lock, LockOK
<1>3. CASE End(p)
  BY <1>1, <1>2, <1>3, BaseCloses
<1>4. CASE Goto(p, "save")
  <2>1. Turns(p, "save") /\ "save" \in Step
    BY <1>4, GotoIs, StepsAre, BaseIs
  <2>2. panes' \cap call[p].targets = {}
    BY <1>1 DEF Close
  <2>3. Proper(call[p], panes', spawned) => Proper(call'[p], panes', spawned)
    BY <1>1, <2>1, <2>2
    DEF Turns, SameJob, SameTask, SameTeam, Proper, ProperDown
  <2>4. QED BY <1>1, <1>2, <1>4, <2>1, <2>3, BaseCloses
<1>5. QED BY <1>3, <1>4 DEF TearDown

SavedDown(p) ==
  LET S == {w \in call[p].copy.workers :
              w.index \notin Numbers(call[p].targets)} IN
  Shrunk(call[p].copy, S, call[p].copy.nextIndex)

LEMMA SaveDownIs ==
  ASSUME BaseInv, NEW p \in Proc, SaveDown(p)
  PROVE  \E new \in Config :
           /\ Save(p, call[p].copy, new)
           /\ Sound(new) /\ Opened(new.workers, spawned)
           /\ new.workers = {w \in call[p].copy.workers :
                               w.index \notin Numbers(call[p].targets)}
           /\ new.nextIndex = call[p].copy.nextIndex
           /\ new.nextTask = call[p].copy.nextTask
<1>1. call[p].op = "down" /\ call[p].step = "save"
  BY DEF SaveDown, At
<1>2. Proper(call[p], panes, spawned) /\ ProperDown(call[p], panes)
      /\ spawned \in Nat
  BY <1>1, BaseIs DEF Proper
<1> DEFINE c == call[p].copy
           S == {w \in c.workers : w.index \notin Numbers(call[p].targets)}
           d == [c EXCEPT !.workers = S]
<1>3. c \in Config /\ c.nextIndex \in Nat
  BY BaseIs, CallOf, ConfigOf
<1>4. IsFiniteSet(c.workers) /\ c.nextTask > 0 /\ Opened(c.workers, spawned)
  <2>1. c # NoTeam
    BY <1>1, <1>2, NoCallIs DEF ProperDown
  <2>2. QED BY <1>2, <2>1 DEF Proper, Sound
<1>5. Save(p, c, d)
  BY DEF SaveDown
<1>6. S \in SUBSET c.workers
  OBVIOUS
<1> HIDE DEF c, S
<1>7. d = Shrunk(c, S, c.nextIndex)
  BY <1>3 DEF Shrunk, Config
<1>8. /\ d \in Config /\ Sound(d) /\ Opened(d.workers, spawned)
      /\ d.workers = S /\ d.nextIndex = c.nextIndex /\ d.nextTask = c.nextTask
  BY <1>2, <1>3, <1>4, <1>6, <1>7, ShrunkIs
<1> HIDE DEF d
<1>9. QED BY <1>5, <1>8 DEF c, S

LEMMA BaseSaveDown ==
  ASSUME BaseInv, NEW p \in Proc, SaveDown(p)
  PROVE  BaseInv'
<1>1. LockOK'
  BY LockStays DEF SaveDown, Lock
<1>2. QED BY <1>1, SaveDownIs, BaseEndsSave DEF SaveDown

LEMMA TakenIs ==
  ASSUME NEW p
  PROVE  Taken(p) \subseteq {"restarted"}
BY DEF Taken

LEMMA BaseSweep ==
  ASSUME BaseInv, NEW p \in Proc, Sweep(p)
  PROVE  BaseInv'
<1>1. UNCHANGED <<members, written, bounds>>
      /\ call[p].op = "start" /\ call[p].step = "sweep"
      /\ (Goto(p, "read") \/ End(p))
  BY DEF Sweep, At
<1>2. Proper(call[p], panes, spawned)
  BY BaseIs
<1>3. Goes(p) /\ Proper(call'[p], panes, spawned)
  <2>1. CASE End(p)
    BY <2>1, EndIs, NoCallProper, BaseIs
  <2>2. CASE Goto(p, "read")
    <3>1. Turns(p, "read")
      BY <2>2, GotoIs, StepsAre, BaseIs
    <3>2. ProperStart(call'[p], panes)
      BY <1>1, <1>2, <3>1 DEF Turns, SameTeam, Proper, ProperStart, TaskStep
    <3>3. QED
      BY <1>1, <1>2, <3>1, <3>2
      DEF Turns, SameJob, SameTask, SameTeam, Proper, TaskStep
  <2>3. QED BY <1>1, <2>1, <2>2
<1>4. CASE Write(p, NoTeam) /\ RemoveDirectory(p, Taken(p))
  <2>1. NoTeam \in Config /\ Sound(NoTeam) /\ Opened(NoTeam.workers, spawned)
        /\ Taken(p) \subseteq Cause
    BY NoCallIs, TakenIs, BaseIs DEF Cause
  <2>2. QED BY <1>1, <1>3, <1>4, <2>1, BaseRemoved
<1>5. CASE UNCHANGED <<file, tasks, files, lock, why>>
  <2>1. LockOK' /\ BoundsOK' /\ (why \subseteq Cause)'
    BY <1>1, <1>5, BoundsStay, BaseIs DEF LockOK
  <2>2. QED BY <1>1, <1>3, <1>5, <2>1, BaseCall
<1>6. QED BY <1>4, <1>5 DEF Sweep

LEMMA BaseInitTeam ==
  ASSUME BaseInv, NEW p \in Proc, InitTeam(p)
  PROVE  BaseInv'
<1>1. /\ UNCHANGED members /\ UNCHANGED <<tasks, written>> /\ UNCHANGED bounds
      /\ UNCHANGED lock /\ UNCHANGED status /\ over' = FALSE
      /\ call[p].op = "start" /\ call[p].step = "read"
      /\ why' = why \cup Taken(p)
  BY DEF InitTeam, At
<1>2. /\ Goes(p) /\ SameJob(p) /\ SameTask(p)
      /\ call'[p].copy = FirstTeam
      /\ call'[p].step \in {"makeTask", "open"}
      /\ Write(p, FirstTeam)
  BY InitTeamIs
<1>3. (why \subseteq Cause)' /\ FilesOK' /\ LockOK'
  BY <1>1, TakenIs, BaseIs DEF Cause, FilesOK, LockOK, status
<1>4. /\ FirstTeam \in Config /\ Sound(FirstTeam) /\ Crew(FirstTeam.workers)
      /\ FirstTeam.nextIndex = FirstWorkers + 1 /\ FirstTeam.nextTask = 1
      /\ \A w \in FirstTeam.workers : w.pane = 0
      /\ Opened(FirstTeam.workers, spawned)
  BY FirstTeamIs, BaseIs
<1>5. Proper(call[p], panes, spawned)
  BY BaseIs
<1>6. ProperStart(call'[p], panes)
  BY <1>2, <1>4 DEF ProperStart, TaskStep
<1>7. Proper(call'[p], panes, spawned)
  BY <1>1, <1>2, <1>4, <1>5, <1>6 DEF Proper, SameJob, SameTask, TaskStep
<1>8. PanesOK' /\ Grown /\ TasksOK' /\ BoundsOK' /\ FileOK'
  BY <1>1, <1>2, <1>4, PanesStay, TasksStay, BoundsStay, SaveIs
<1>9. Proper(call'[p], panes', spawned')
  BY <1>1, <1>7 DEF members
<1>10. QED BY <1>2, <1>3, <1>8, <1>9, BaseStep

\* A session has one pane for each of the workers it opens it for.
LEMMA SessionIs ==
  ASSUME BaseInv, NEW p \in Proc, Crew(call[p].copy.workers),
         IsFiniteSet(call[p].copy.workers)
  PROVE  /\ IsFiniteSet(NewSession(p)) /\ Crew(NewSession(p))
         /\ Cardinality(NewSession(p)) \in Nat
         /\ Cardinality(NewSession(p)) = FirstWorkers
         /\ \A w \in NewSession(p) :
              /\ w.pane > spawned /\ w.pane <= spawned + FirstWorkers
              /\ w.pane = spawned + w.index
<1> DEFINE S == call[p].copy.workers
           new(w) == [w EXCEPT !.pane = spawned + w.index]
           f == [i \in 1..FirstWorkers |-> [index |-> i, pane |-> spawned + i]]
<1>1. S \subseteq Worker /\ spawned \in Nat /\ FirstWorkers \in Nat
  BY BaseIs, CallOf, ConfigOf, Constants
<1>2. \A w \in S : /\ new(w).index = w.index /\ new(w).pane = spawned + w.index
                   /\ new(w) = [index |-> w.index, pane |-> spawned + w.index]
  BY <1>1 DEF Worker
<1>3. NewSession(p) = {new(w) : w \in S}
  BY DEF NewSession
<1> HIDE DEF new
<1>4. \A v \in NewSession(p) :
        v.index \in 1..FirstWorkers /\ v.pane = spawned + v.index
        /\ v = f[v.index]
  BY <1>1, <1>2, <1>3 DEF Crew
<1>5. \A i \in 1..FirstWorkers : f[i] \in NewSession(p) /\ f[i].index = i
  BY <1>2, <1>3 DEF Crew
<1> HIDE DEF f, S
<1>6. Crew(NewSession(p))
  BY <1>4, <1>5 DEF Crew
<1>7. f \in Bijection(1..FirstWorkers, NewSession(p))
  <2>1. f \in [1..FirstWorkers -> NewSession(p)]
    BY <1>5 DEF f
  <2>2. \A i, j \in 1..FirstWorkers : f[i] = f[j] => i = j
    BY <1>5
  <2>3. \A v \in NewSession(p) : \E i \in 1..FirstWorkers : f[i] = v
    BY <1>4
  <2>4. QED BY <2>1, <2>2, <2>3 DEF Bijection, Injection, Surjection, IsInjective
<1>8. IsFiniteSet(1..FirstWorkers) /\ Cardinality(1..FirstWorkers) = FirstWorkers
  BY <1>1, Constants, FS_Interval
<1>9. IsFiniteSet(NewSession(p)) /\ Cardinality(NewSession(p)) = FirstWorkers
  BY <1>7, <1>8, FS_Bijection DEF ExistsBijection
<1>10. QED BY <1>1, <1>4, <1>6, <1>9

LEMMA BaseOpenSession ==
  ASSUME BaseInv, NEW p \in Proc, OpenSession(p)
  PROVE  BaseInv'
<1>1. /\ UNCHANGED <<file, files, written, bounds, why>>
      /\ UNCHANGED <<tasks, written>> /\ UNCHANGED lock
      /\ call[p].op = "start" /\ call[p].step = "open"
  BY DEF OpenSession, At
<1>2. TasksOK' /\ LockOK'
  BY <1>1, TasksStay, BaseIs DEF LockOK
<1>3. Proper(call[p], panes, spawned) /\ ProperStart(call[p], panes)
      /\ spawned \in Nat
  BY <1>1, BaseIs DEF Proper
<1>4. Crew(call[p].copy.workers) /\ IsFiniteSet(call[p].copy.workers)
      /\ \A w \in call[p].copy.workers : w.pane = 0
  BY <1>1, <1>3 DEF Proper, ProperStart, Sound
<1>5. CASE Goto(p, "clean")
  <2>1. Turns(p, "clean")
    BY <1>5, GotoIs, StepsAre, BaseIs
  <2>2. UNCHANGED members
    BY <1>5, OpenSessionFails
  <2>3. PanesOK' /\ Grown /\ panes' = panes /\ spawned' = spawned
    BY <2>2, PanesStay DEF members
  <2>4. panes \cap call[p].copy.workers = {}
    BY <1>4, BaseIs DEF PanesOK, PaneInv
  <2>5. ProperStart(call'[p], panes)
    BY <1>1, <1>3, <2>1, <2>4 DEF ProperStart, Turns, SameTeam, TaskStep
  <2>6. Proper(call'[p], panes, spawned)
    BY <1>1, <1>3, <2>1, <2>5
    DEF Proper, Turns, SameTeam, SameTask, SameJob, TaskStep
  <2>7. QED BY <1>1, <1>2, <2>1, <2>3, <2>6, BasePanes DEF Turns
<1>6. CASE ~Goto(p, "clean")
  <2>1. /\ Goes(p) /\ SameJob(p) /\ SameTask(p)
        /\ call'[p].step = "save"
        /\ call'[p].copy.workers = NewSession(p)
        /\ call'[p].copy.nextIndex = call[p].copy.nextIndex
        /\ call'[p].copy.nextTask = call[p].copy.nextTask
        /\ Open(NewSession(p)) /\ NewSession(p) \subseteq Worker
    BY <1>6, OpenSessionIs
  <2>2. /\ IsFiniteSet(NewSession(p)) /\ Crew(NewSession(p))
        /\ Cardinality(NewSession(p)) = FirstWorkers
        /\ \A w \in NewSession(p) :
              /\ w.pane > spawned /\ w.pane <= spawned + FirstWorkers
              /\ w.pane = spawned + w.index
    BY <1>4, SessionIs
  <2>3. /\ panes' = panes \cup NewSession(p) /\ busy' = busy
        /\ spawned' = spawned + FirstWorkers
    BY <2>1, <2>2 DEF Open
  <2>4. FirstWorkers \in Nat /\ \A w \in NewSession(p) : w.pane \in Nat
    BY <2>1, Constants DEF Worker
  <2>5. \A v, w \in NewSession(p) : v.pane = w.pane => v = w
    <3>1. \A w \in NewSession(p) : w.index \in Nat
      BY <2>1 DEF Worker
    <3>2. \A v, w \in NewSession(p) : v.pane = w.pane => v.index = w.index
      BY <1>3, <2>2, <3>1
    <3>3. QED BY <2>2, <3>2 DEF Crew
  <2>6. PanesOK'
    <3>1. /\ panes \subseteq Worker /\ busy \subseteq {w.pane : w \in panes}
          /\ \A w \in panes : 0 < w.pane /\ w.pane <= spawned /\ w.pane \in Nat
          /\ \A v, w \in panes : v.pane = w.pane => v = w
      BY BaseIs DEF PanesOK, PaneInv, Worker
    <3>2. \A w \in panes' : 0 < w.pane /\ w.pane <= spawned'
      BY <1>3, <2>2, <2>3, <2>4, <3>1
    <3>3. \A v, w \in panes' : v.pane = w.pane => v = w
      BY <1>3, <2>2, <2>3, <2>4, <2>5, <3>1
    <3>4. panes' \subseteq Worker /\ busy' \subseteq {w.pane : w \in panes'}
          /\ spawned' \in Nat
      BY <1>3, <2>1, <2>3, <2>4, <3>1
    <3>5. QED BY <3>2, <3>3, <3>4 DEF PanesOK, PaneInv
  <2>7. Grown
    BY <1>3, <2>2, <2>3, <2>4 DEF Grown
  <2>8. Proper(call[p], panes', spawned')
    <3>1. panes \in SUBSET Worker /\ panes' \in SUBSET Worker
          /\ spawned' \in Nat /\ spawned <= spawned' /\ call[p] \in Call
      BY <2>6, <2>7, BaseIs, CallIn DEF PanesOK, Grown
    <3>2. QED BY <1>3, <2>7, <3>1, ProperStays DEF Grown
  <2>9. \A w \in NewSession(p) : w.pane > 0
    BY <1>3, <2>2, <2>4
  <2>10. ProperStart(call'[p], panes')
    BY <1>1, <1>3, <2>1, <2>2, <2>9 DEF ProperStart, TaskStep
  <2>11. Sound(call'[p].copy) /\ Opened(call'[p].copy.workers, spawned')
    <3>1. call'[p].copy.nextTask > 0
      BY <1>1, <1>3, <2>1 DEF ProperStart
    <3>2. QED BY <2>1, <2>2, <2>3, <3>1 DEF Sound, Opened
  <2>12. Proper(call'[p], panes', spawned')
    BY <1>1, <2>1, <2>8, <2>10, <2>11 DEF Proper, SameTask, SameJob, TaskStep
  <2>13. QED BY <1>1, <1>2, <2>1, <2>6, <2>7, <2>12, BasePanes
<1>7. QED BY <1>5, <1>6

LEMMA BaseSaves ==
  ASSUME BaseInv, NEW p \in Proc, NEW read,
         call[p].op \in {"start", "stop"}, call[p].step \in {"save", "notify"},
         Save(p, read, call[p].copy),
         End(p) \/ Goto(p, "kill") \/ (call[p].op = "start" /\ Goto(p, "notify")),
         UNCHANGED <<tasks, files, members, lock, written, bounds>>
  PROVE  BaseInv'
<1>1. UNCHANGED <<tasks, files, members, written, bounds>> /\ LockOK'
  BY BaseIs DEF LockOK
<1>2. Proper(call[p], panes, spawned) /\ call[p].copy \in Config
  BY BaseIs, CallOf
<1>3. Sound(call[p].copy) /\ Opened(call[p].copy.workers, spawned)
  BY <1>2 DEF Proper
<1>4. CASE End(p)
  BY <1>1, <1>2, <1>3, <1>4, BaseEndsSave
<1>5. CASE ~End(p)
  <2>1. PICK step \in {"kill", "notify"} :
          Turns(p, step) /\ (step = "notify" => call[p].op = "start")
    BY <1>5, GotoIs, StepsAre, BaseIs
  <2>2. call[p].op = "start" => ProperStart(call'[p], panes)
    BY <1>2, <2>1 DEF Turns, SameTeam, Proper, ProperStart, TaskStep
  <2>3. call[p].op = "stop" => ProperStop(call'[p], panes)
    BY <1>2, <2>1 DEF Turns, SameTeam, Proper, ProperStop
  <2>4. Proper(call'[p], panes, spawned)
    BY <1>2, <2>1, <2>2, <2>3 DEF Turns, SameJob, SameTask, SameTeam, Proper
  <2>5. QED BY <1>1, <1>2, <1>3, <2>1, <2>4, BaseSave DEF Turns
<1>6. QED BY <1>4, <1>5

LEMMA BaseSaveStart ==
  ASSUME BaseInv, NEW p \in Proc,
         SaveStart(p) \/ NotifyAll(p) \/ SaveStop(p)
  PROVE  BaseInv'
<1>1. CASE SaveStart(p)
  BY <1>1, BaseSaves DEF SaveStart, At
<1>2. CASE NotifyAll(p)
  BY <1>2, BaseSaves DEF NotifyAll, At
<1>3. CASE SaveStop(p)
  <2>1. /\ UNCHANGED <<tasks, files, members, lock, written, bounds>>
        /\ call[p].op = "stop" /\ call[p].step = "save"
    BY <1>3 DEF SaveStop, At
  <2>2. CASE Save(p, call[p].copy, call[p].copy) /\ Goto(p, "kill")
    BY <2>1, <2>2, BaseSaves
  <2>3. CASE End(p) /\ UNCHANGED <<file, why>>
    <3>1. BoundsOK' /\ (why \subseteq Cause)' /\ LockOK'
      BY <2>1, <2>3, BoundsStay, BaseIs DEF LockOK
    <3>2. QED BY <2>1, <2>3, <3>1, BaseEnds
  <2>4. QED BY <1>3, <2>2, <2>3 DEF SaveStop
<1>4. QED BY <1>1, <1>2, <1>3

LEMMA BaseReadStop ==
  ASSUME BaseInv, NEW p \in Proc, ReadStop(p)
  PROVE  BaseInv'
<1>1. /\ UNCHANGED <<file, tasks, files, members, written>>
      /\ UNCHANGED bounds /\ UNCHANGED why /\ UNCHANGED lock
      /\ call[p].op = "stop" /\ call[p].step = "read"
  BY DEF ReadStop, At
<1>2. LockOK' /\ BoundsOK' /\ (why \subseteq Cause)'
  BY <1>1, BoundsStay, BaseIs DEF LockOK
<1>3. CASE End(p)
  BY <1>1, <1>2, <1>3, BaseEnds
<1>4. CASE ~End(p)
  <2>1. /\ Goes(p) /\ SameJob(p) /\ SameTask(p)
        /\ call'[p].copy = config
        /\ call'[p].step = IF config = NoTeam THEN "clean" ELSE "save"
    BY <1>4, ReadStopIs
  <2>2. Proper(call[p], panes, spawned)
    BY BaseIs
  <2>3. Sound(config) /\ Opened(config.workers, spawned)
    BY BaseIs DEF FileOK, FileInv
  <2>4. ProperStop(call'[p], panes)
    BY <2>1, NoCallIs DEF ProperStop
  <2>5. Proper(call'[p], panes, spawned)
    BY <1>1, <2>1, <2>2, <2>3, <2>4 DEF Proper, SameJob, SameTask
  <2>6. QED BY <1>1, <1>2, <2>1, <2>5, BaseCall
<1>5. QED BY <1>3, <1>4

LEMMA BaseCloseAll ==
  ASSUME BaseInv, NEW p \in Proc, CloseAll(p)
  PROVE  BaseInv'
<1> DEFINE S == IF call[p].op = "stop" THEN panes ELSE call[p].copy.workers
<1>1. /\ UNCHANGED <<file, tasks, files, written, bounds, why>>
      /\ UNCHANGED lock /\ Close(S) /\ Goto(p, "clean")
      /\ call[p].op \in {"start", "stop"} /\ call[p].step = "kill"
  BY DEF CloseAll
<1>2. LockOK'
  BY <1>1, BaseIs DEF LockOK
<1>3. Turns(p, "clean") /\ "clean" \in Step
  BY <1>1, GotoIs, StepsAre, BaseIs
<1>4. panes' \cap call[p].copy.workers = {}
  BY <1>1 DEF Close
<1>5. Proper(call[p], panes', spawned) => Proper(call'[p], panes', spawned)
  <2>1. SUFFICES ASSUME Proper(call[p], panes', spawned)
                 PROVE  Proper(call'[p], panes', spawned)
    OBVIOUS
  <2>2. call[p].op = "start" => ProperStart(call'[p], panes')
    BY <1>1, <1>3, <1>4, <2>1 DEF Turns, SameTeam, Proper, ProperStart, TaskStep
  <2>3. call[p].op = "stop" => ProperStop(call'[p], panes')
    BY <1>3, <1>4 DEF Turns, SameTeam, ProperStop
  <2>4. QED
    BY <1>1, <1>3, <2>1, <2>2, <2>3
    DEF Turns, SameJob, SameTask, SameTeam, Proper
<1>6. QED BY <1>1, <1>2, <1>3, <1>5, BaseCloses

LEMMA BaseCleanUp ==
  ASSUME BaseInv, NEW p \in Proc, CleanUp(p)
  PROVE  BaseInv'
<1>1. UNCHANGED <<members, written, bounds>> /\ Write(p, NoTeam)
      /\ RemoveDirectory(p, Crossed(p, call[p].copy)) /\ End(p)
  BY DEF CleanUp
<1>2. Goes(p) /\ call'[p] = NoCall
  BY <1>1, EndIs, BaseIs
<1>3. NoTeam \in Config /\ Sound(NoTeam) /\ Opened(NoTeam.workers, spawned)
      /\ Proper(NoCall, panes, spawned)
  BY NoCallIs, NoCallProper, BaseIs
<1>4. Crossed(p, call[p].copy) \subseteq Cause
  BY CauseIs DEF Cause
<1>5. QED BY <1>1, <1>2, <1>3, <1>4, BaseRemoved

LEMMA BaseKill ==
  ASSUME BaseInv, NEW p \in Proc, Kill(p)
  PROVE  BaseInv'
<1>1. /\ UNCHANGED <<file, tasks, files, members, written>> /\ End(p)
      /\ Fault /\ UNCHANGED <<lock, calls>> /\ why' = why \cup {"killed"}
  BY DEF Kill
<1>2. BoundsOK' /\ LockOK' /\ (why \subseteq Cause)'
  BY <1>1, FaultIs, BaseIs DEF BoundsOK, LockOK, Cause
<1>3. QED BY <1>1, <1>2, BaseEnds

LEMMA BaseWork ==
  ASSUME BaseInv, NEW w \in panes,
         BeginWork(w) \/ FinishWork(w) \/ \E p \in Proc : RecordIssue(p, w)
  PROVE  BaseInv'
<1>1. /\ UNCHANGED file /\ UNCHANGED <<tasks, written>> /\ UNCHANGED lock
      /\ UNCHANGED bounds /\ UNCHANGED why /\ UNCHANGED call
      /\ panes' = panes /\ spawned' = spawned
      /\ busy' \subseteq busy \cup {w.pane}
      /\ working' \subseteq working \cup {w.index}
      /\ draining' \subseteq draining /\ over' = over
      /\ masked' \subseteq masked \cup {w.index}
  BY DEF BeginWork, FinishWork, RecordIssue, members
<1>2. BoundsOK' /\ (why \subseteq Cause)' /\ TasksOK' /\ LockOK'
  BY <1>1, BoundsStay, TasksStay, BaseIs DEF LockOK
<1>3. PanesOK' /\ FilesOK'
  BY <1>1, BaseIs DEF PanesOK, PaneInv, FilesOK, Worker
<1>4. FileOK'
  BY <1>1, BaseIs DEF FileOK, FileInv, file
<1>5. \A p \in Proc : Proper(call[p], panes, spawned)
  BY BaseIs
<1>6. TypeOK'
  BY <1>1, <1>2, <1>3, <1>4, BaseIs
  DEF TypeOK, FileOK, TasksOK, PanesOK, FilesOK, LockOK, BoundsOK
<1>7. QED
  BY <1>1, <1>2, <1>3, <1>4, <1>5, <1>6
  DEF BaseInv, FileOK, TasksOK, PanesOK

LEMMA BasePhase ==
  ASSUME BaseInv, WritePhase
  PROVE  BaseInv'
<1>1. /\ UNCHANGED file /\ UNCHANGED <<tasks, written>> /\ UNCHANGED lock
      /\ UNCHANGED bounds /\ UNCHANGED why /\ UNCHANGED call
      /\ UNCHANGED members /\ UNCHANGED status /\ over' \in BOOLEAN
  BY DEF WritePhase
<1>2. BoundsOK' /\ (why \subseteq Cause)' /\ TasksOK' /\ LockOK'
      /\ PanesOK' /\ Grown
  BY <1>1, BoundsStay, TasksStay, PanesStay, BaseIs DEF LockOK
<1>3. FilesOK'
  BY <1>1, BaseIs DEF FilesOK, status
<1>4. FileOK'
  BY <1>1, <1>2, FileStays
<1>5. \A p \in Proc : Proper(call'[p], panes', spawned')
  BY <1>1, BaseIs DEF members
<1>6. TypeOK'
  BY <1>1, <1>2, <1>3, <1>4, BaseIs
  DEF TypeOK, FileOK, TasksOK, PanesOK, FilesOK, LockOK, BoundsOK
<1>7. QED
  BY <1>2, <1>3, <1>4, <1>5, <1>6 DEF BaseInv, FileOK, PanesOK, TasksOK

LEMMA BaseBreak ==
  ASSUME BaseInv, NEW l \in Lock, BreakLock(l)
  PROVE  BaseInv'
<1>1. /\ UNCHANGED file /\ UNCHANGED <<tasks, written>> /\ UNCHANGED files
      /\ UNCHANGED members /\ UNCHANGED call /\ calls' = calls
      /\ Fault \/ UNCHANGED faults
      /\ why' = why \/ why' = why \cup {"broken"}
      /\ lock' = [lock EXCEPT ![l] = Nobody]
  BY DEF BreakLock
<1>2. LockOK' /\ BoundsOK' /\ (why \subseteq Cause)'
  BY <1>1, FaultIs, BaseIs DEF LockOK, BoundsOK, Cause
<1>3. PanesOK' /\ Grown /\ FilesOK' /\ TasksOK'
  BY <1>1, PanesStay, FilesStay, TasksStay
<1>4. FileOK'
  BY <1>1, <1>3, FileStays
<1>5. \A p \in Proc : Proper(call'[p], panes', spawned')
  BY <1>1, BaseIs DEF members
<1>6. TypeOK'
  BY <1>1, <1>2, <1>3, <1>4, BaseIs
  DEF TypeOK, FileOK, TasksOK, PanesOK, FilesOK, LockOK, BoundsOK
<1>7. QED
  BY <1>2, <1>3, <1>4, <1>5, <1>6 DEF BaseInv, FileOK, TasksOK, PanesOK

\* One worker each has the numbers that the first workers of a team have.
LEMMA FirstPanesAre ==
  LET S == {[index |-> i, pane |-> i] : i \in 1..FirstWorkers} IN
  /\ S \subseteq Worker /\ IsFiniteSet(S) /\ Cardinality(S) = FirstWorkers
  /\ \A w \in S : w.index \in 1..FirstWorkers /\ w.pane = w.index
  /\ \A v, w \in S : v.pane = w.pane => v = w
  /\ S # {}
<1> DEFINE S == {[index |-> i, pane |-> i] : i \in 1..FirstWorkers}
<1> DEFINE f == [i \in 1..FirstWorkers |-> [index |-> i, pane |-> i]]
<1>1. FirstWorkers \in Nat /\ 1 \in 1..FirstWorkers
  BY Constants
<1>2. \A w \in S : w.index \in 1..FirstWorkers /\ w.pane = w.index
                   /\ w = f[w.index] /\ w \in Worker
  BY <1>1 DEF Worker
<1>3. \A i \in 1..FirstWorkers : f[i] \in S /\ f[i].index = i
  OBVIOUS
<1>4. f \in [1..FirstWorkers -> S]
  OBVIOUS
<1> HIDE DEF f, S
<1>5. f \in Bijection(1..FirstWorkers, S)
  BY <1>2, <1>3, <1>4 DEF Bijection, Injection, Surjection, IsInjective
<1>6. IsFiniteSet(1..FirstWorkers) /\ Cardinality(1..FirstWorkers) = FirstWorkers
  BY <1>1, Constants, FS_Interval
<1>7. IsFiniteSet(S) /\ Cardinality(S) = FirstWorkers
  BY <1>5, <1>6, FS_Bijection DEF ExistsBijection
<1>8. S # {} /\ S \subseteq Worker
      /\ \A v, w \in S : v.pane = w.pane => v = w
  BY <1>1, <1>2, <1>3
<1>9. QED BY <1>2, <1>7, <1>8 DEF S

LEMMA BaseInit ==
  ASSUME Init
  PROVE  BaseInv
<1> DEFINE S == {[index |-> i, pane |-> i] : i \in 1..FirstWorkers}
<1>1. /\ S \subseteq Worker /\ IsFiniteSet(S) /\ Cardinality(S) = FirstWorkers
      /\ \A w \in S : w.index \in 1..FirstWorkers /\ w.pane = w.index
      /\ \A v, w \in S : v.pane = w.pane => v = w
      /\ S # {} /\ FirstWorkers \in Nat
  BY FirstPanesAre, Constants
<1>2. panes = {} \/ panes = S
  BY DEF Init
<1> HIDE DEF S
<1>3. /\ spawned \in Nat /\ panes \subseteq Worker
      /\ panes = S => spawned = FirstWorkers
      /\ \A w \in panes : 0 < w.pane /\ w.pane <= spawned
      /\ \A v, w \in panes : v.pane = w.pane => v = w
  <2>1. spawned = Cardinality(panes)
    BY DEF Init
  <2>2. QED BY <1>1, <1>2, <2>1, FS_EmptySet
<1>4. config \in Config /\ Sound(config) /\ Opened(config.workers, spawned)
  <2>1. CASE panes = {}
    BY <1>3, <2>1, NoCallIs DEF Init
  <2>2. CASE panes # {}
    <3>1. config = [workers |-> panes, nextIndex |-> FirstWorkers + 1,
                    nextTask |-> 1] /\ panes = S
      BY <1>2, <2>2 DEF Init
    <3>2. QED BY <1>1, <1>3, <3>1 DEF Config, Sound, Opened
  <2>3. QED BY <2>1, <2>2
<1>5. \A p \in Proc : call[p] = NoCall
  BY DEF Init
<1>6. TypeOK
  <2>1. /\ writer = "none" /\ tasks = {} /\ working = {} /\ draining = {}
        /\ masked = {} /\ busy = {} /\ over = FALSE
        /\ written = 0 /\ calls = 0 /\ faults = 0 /\ why = {}
    BY DEF Init
  <2>2. call \in [Proc -> Call] /\ lock \in [Lock -> Proc \cup {Nobody}]
    BY NoCallIs DEF Init
  <2>3. /\ calls \in 0..MaxCalls /\ faults \in 0..MaxFaults /\ written \in Nat
    BY <2>1, Constants
  <2>4. /\ writer \in Operation /\ tasks \subseteq Task /\ why \subseteq Cause
        /\ working \subseteq Nat /\ draining \subseteq Nat /\ masked \subseteq Nat
        /\ over \in BOOLEAN /\ busy \subseteq {w.pane : w \in panes}
    BY <2>1 DEF Operation
  <2>5. QED BY <1>3, <1>4, <2>2, <2>3, <2>4 DEF TypeOK
<1>7. TaskInv
  BY DEF Init, TaskInv
<1>8. QED BY <1>3, <1>4, <1>5, <1>6, <1>7, NoCallProper
      DEF BaseInv, FileInv, PaneInv

LEMMA BaseNext ==
  ASSUME BaseInv, [Next]_vars
  PROVE  BaseInv'
<1>1. CASE UNCHANGED vars
  BY <1>1
  DEF BaseInv, TypeOK, FileInv, PaneInv, TaskInv, vars, file, files, members,
      bounds
<1>2. ASSUME NEW p \in Proc, BeginCreate(p) \/ LockTasks(p) \/ ReadTask(p)
               \/ WriteTask(p) \/ CountTask(p) \/ TaskTimeout(p)
      PROVE  BaseInv'
  BY <1>2, BaseBegins, BaseLockTasks, BaseReadTask, BaseWriteTask, BaseCountTask,
     BaseTaskTimeout
<1>3. ASSUME NEW p \in Proc, BeginUp(p) \/ ReadUp(p) \/ OpenPane(p)
               \/ NotifyNew(p) \/ SaveUp(p) \/ Undo(p) \/ Revert(p)
      PROVE  BaseInv'
  BY <1>3, BaseBegins, BaseReadUp, BaseOpenPane, BaseNotifyNew, BaseSaveUp,
     BaseUndo, BaseRevert
<1>4. ASSUME NEW p \in Proc, BeginDown(p) \/ Pick(p) \/ Drain(p) \/ EndWait(p)
               \/ StopWaiting(p) \/ TearDown(p) \/ SaveDown(p)
      PROVE  BaseInv'
  BY <1>4, BaseBegins, BasePick, BaseDrain, BaseWaits, BaseTearDown,
     BaseSaveDown
<1>5. ASSUME NEW p \in Proc, BeginStart(p) \/ Sweep(p) \/ InitTeam(p)
               \/ OpenSession(p) \/ SaveStart(p) \/ NotifyAll(p)
      PROVE  BaseInv'
  BY <1>5, BaseBegins, BaseSweep, BaseInitTeam, BaseOpenSession, BaseSaveStart
<1>6. ASSUME NEW p \in Proc, BeginStop(p) \/ ReadStop(p) \/ SaveStop(p)
               \/ CloseAll(p) \/ CleanUp(p) \/ Kill(p)
      PROVE  BaseInv'
  BY <1>6, BaseBegins, BaseReadStop, BaseSaveStart, BaseCloseAll, BaseCleanUp,
     BaseKill
<1>7. ASSUME NEW w \in panes, \/ BeginWork(w) \/ FinishWork(w)
                               \/ \E p \in Proc : RecordIssue(p, w)
      PROVE  BaseInv'
  BY <1>7, BaseWork
<1>8. CASE \E l \in Lock : BreakLock(l)
  BY <1>8, BaseBreak
<1>9. CASE WritePhase
  BY <1>9, BasePhase
<1>10. QED
  BY <1>1, <1>2, <1>3, <1>4, <1>5, <1>6, <1>7, <1>8, <1>9 DEF Next

LEMMA BaseHolds == Spec => []BaseInv
<1>1. Init => BaseInv
  BY BaseInit
<1>2. BaseInv /\ [Next]_vars => BaseInv'
  BY BaseNext
<1>3. QED BY <1>1, <1>2, PTL DEF Spec

\* The variables of a team's life keep their types, whatever is begun, killed,
\* or removed in the middle of something else.
THEOREM TypeCorrect == Spec => []TypeOK
<1>1. BaseInv => TypeOK
  BY DEF BaseInv
<1>2. QED BY <1>1, BaseHolds, PTL

-----------------------------------------------------------------------------
(* As long as no lock is lost, an operation holds the locks it works under, *)
(* and so no other one writes over its tasks.                               *)

Locked == why \cap {"broken", "removed"} = {}

Held == \A p \in Proc, l \in Lock : Holds(p, l) => lock[l] = p

Numbered(p) ==
  call[p].step = "writeTask" => \A t \in tasks : t.id < call[p].id

Made(p) ==
  call[p].op = "up" /\ call[p].step # "revert" => call[p].made \subseteq tasks

LBody == Held /\ \A p \in Proc : Numbered(p) /\ Made(p)

LInv == Locked => LBody

LEMMA WhyGrows ==
  ASSUME [Next]_vars
  PROVE  why \subseteq why'
<1>1. ASSUME NEW p \in Proc, BeginCreate(p) \/ LockTasks(p) \/ ReadTask(p)
               \/ WriteTask(p) \/ CountTask(p) \/ TaskTimeout(p)
               \/ BeginUp(p) \/ ReadUp(p) \/ OpenPane(p)
      PROVE  why \subseteq why'
  BY <1>1 DEF BeginCreate, LockTasks, ReadTask, WriteTask, CountTask, TaskTimeout,
              BeginUp, ReadUp, OpenPane, Save
<1>2. ASSUME NEW p \in Proc, NotifyNew(p) \/ SaveUp(p) \/ Undo(p) \/ Revert(p)
               \/ BeginDown(p) \/ Pick(p) \/ Drain(p) \/ EndWait(p)
               \/ StopWaiting(p) \/ TearDown(p) \/ SaveDown(p)
      PROVE  why \subseteq why'
  BY <1>2 DEF NotifyNew, SaveUp, Undo, Revert, BeginDown, Pick, Drain, EndWait,
              StopWaiting, TearDown, SaveDown, Save
<1>3. ASSUME NEW p \in Proc, BeginStart(p) \/ Sweep(p) \/ InitTeam(p)
               \/ OpenSession(p) \/ SaveStart(p) \/ NotifyAll(p) \/ BeginStop(p) \/ ReadStop(p)
               \/ SaveStop(p) \/ CloseAll(p) \/ CleanUp(p) \/ Kill(p)
      PROVE  why \subseteq why'
  BY <1>3 DEF BeginStart, Sweep, InitTeam, OpenSession, SaveStart, NotifyAll,
              BeginStop, ReadStop, SaveStop, CloseAll, CleanUp, Kill, Save,
              RemoveDirectory
<1>4. ASSUME NEW w \in panes, \/ BeginWork(w) \/ FinishWork(w)
                               \/ \E p \in Proc : RecordIssue(p, w)
      PROVE  why \subseteq why'
  BY <1>4 DEF BeginWork, FinishWork, RecordIssue
<1>5. ASSUME NEW l \in Lock, BreakLock(l)
      PROVE  why \subseteq why'
  BY <1>5 DEF BreakLock
<1>6. CASE WritePhase
  BY <1>6 DEF WritePhase
<1>7. QED BY <1>1, <1>2, <1>3, <1>4, <1>5, <1>6 DEF Next, vars

\* p gives and takes no lock that another has.
Minds(p) ==
  \A l \in Lock : lock'[l] = lock[l] \/ lock[l] \in {p, Nobody}

Holding(p) == \A l \in Lock : Holds(p, l)' => lock'[l] = p

LEMMA TwoLocks == "scaling" \in Lock /\ "tasks" \in Lock /\ Lock = {"scaling", "tasks"}
BY DEF Lock

LEMMA HoldsIs ==
  ASSUME NEW p \in Proc
  PROVE  /\ Holds(p, "scaling") <=> call[p].op \in {"up", "down"}
         /\ Holds(p, "tasks") <=>
              call[p].step \in {"readTask", "writeTask", "countTask"}
         /\ Holds(p, "scaling")' <=> call'[p].op \in {"up", "down"}
         /\ Holds(p, "tasks")' <=>
              call'[p].step \in {"readTask", "writeTask", "countTask"}
BY DEF Holds

LEMMA LocksMove ==
  ASSUME BaseInv, NEW p \in Proc, NEW l \in Lock,
         UNCHANGED lock \/ Give(l, p) \/ Take(l, p)
  PROVE  /\ Minds(p)
         /\ \A m \in Lock \ {l} : lock'[m] = lock[m]
         /\ UNCHANGED lock => lock'[l] = lock[l]
         /\ Take(l, p) => lock'[l] = p
BY BaseIs DEF Minds, Give, Take, LockOK

LEMMA LStep ==
  ASSUME BaseInv, LBody, NEW p \in Proc, Goes(p), Minds(p), Holding(p),
         Numbered(p)', Made(p)',
         \/ tasks' = tasks
         \/ call[p].step = "writeTask" /\ tasks \subseteq tasks'
         \/ call[p].op = "up" /\ tasks' \subseteq tasks
         \/ tasks' = {} /\ \A q \in Proc \ {p} : ~AtWork(q)
  PROVE  LBody'
<1>1. ASSUME NEW q \in Proc, q # p
      PROVE  /\ \A l \in Lock : Holds(q, l)' => lock'[l] = q
             /\ Numbered(q)' /\ Made(q)'
  <2>1. call'[q] = call[q] /\ q # Nobody
    BY <1>1, Constants DEF Goes
  <2>2. \A l \in Lock : Holds(q, l)' <=> Holds(q, l)
    BY <2>1, TwoLocks, HoldsIs
  <2>3. \A l \in Lock : Holds(q, l) => lock[l] = q
    BY DEF LBody, Held
  <2>4. \A l \in Lock : Holds(q, l) => lock'[l] = q
    BY <1>1, <2>1, <2>3 DEF Minds
  <2>5. Numbered(q) /\ Made(q)
    BY DEF LBody
  <2>6. CASE tasks' = tasks
    BY <2>1, <2>2, <2>4, <2>5, <2>6 DEF Numbered, Made
  <2>7. CASE call[p].step = "writeTask" /\ tasks \subseteq tasks'
    <3>1. Holds(p, "tasks") /\ lock["tasks"] = p
      BY <2>7, HoldsIs, TwoLocks DEF LBody, Held
    <3>2. ~Holds(q, "tasks")
      BY <1>1, <2>3, <3>1, TwoLocks
    <3>3. call[q].step # "writeTask"
      BY <3>2, HoldsIs
    <3>4. QED BY <2>1, <2>2, <2>4, <2>5, <2>7, <3>3 DEF Numbered, Made
  <2>8. CASE call[p].op = "up" /\ tasks' \subseteq tasks
    <3>1. Holds(p, "scaling") /\ lock["scaling"] = p
      BY <2>8, HoldsIs, TwoLocks DEF LBody, Held
    <3>2. ~Holds(q, "scaling")
      BY <1>1, <2>3, <3>1, TwoLocks
    <3>3. call[q].op # "up"
      BY <3>2, HoldsIs
    <3>4. QED BY <2>1, <2>2, <2>4, <2>5, <2>8, <3>3 DEF Numbered, Made
  <2>9. CASE tasks' = {} /\ ~AtWork(q)
    <3>1. ~Holds(q, "scaling") /\ ~Holds(q, "tasks")
      BY <2>9, TwoLocks DEF AtWork
    <3>2. call[q].op # "up" /\ call[q].step # "writeTask"
      BY <3>1, HoldsIs
    <3>3. QED BY <2>1, <2>2, <2>4, <3>2 DEF Numbered, Made
  <2>10. QED BY <1>1, <2>6, <2>7, <2>8, <2>9
<1>2. \A l \in Lock : Holds(p, l)' => lock'[l] = p
  BY DEF Holding
<1>3. QED BY <1>1, <1>2 DEF LBody, Held

\* An operation that ends holds nothing.
LEMMA LEnds ==
  ASSUME BaseInv, LBody, NEW p \in Proc, End(p), Minds(p),
         \/ tasks' = tasks
         \/ tasks' = {} /\ \A q \in Proc \ {p} : ~AtWork(q)
  PROVE  LBody'
<1>1. Goes(p) /\ call'[p] = NoCall
  BY EndIs, BaseIs
<1>2. call'[p].op = "none" /\ call'[p].step = "idle"
  BY <1>1, NoCallIs
<1>3. Holding(p)
  BY <1>2, HoldsIs, TwoLocks DEF Holding
<1>4. Numbered(p)' /\ Made(p)'
  BY <1>2 DEF Numbered, Made
<1>5. QED BY <1>1, <1>3, <1>4, LStep

\* An operation goes on to a step that needs the locks it has.
LEMMA LGoes ==
  ASSUME BaseInv, LBody, NEW p \in Proc, Goes(p), UNCHANGED lock,
         call'[p].op = call[p].op, call'[p].made = call[p].made,
         call[p].step # "revert",
         call'[p].step \notin {"readTask", "writeTask", "countTask"},
         \/ tasks' = tasks
         \/ call'[p].step = "revert" /\ call[p].op = "up" /\ tasks' \subseteq tasks
         \/ tasks' = {} /\ call[p].op # "up" /\ \A q \in Proc \ {p} : ~AtWork(q)
  PROVE  LBody'
<1>1. Minds(p) /\ \A l \in Lock : lock'[l] = lock[l]
  BY DEF Minds
<1>2. Holding(p)
  BY <1>1, HoldsIs, TwoLocks DEF Holding, LBody, Held
<1>3. Numbered(p)' /\ Made(p)'
  BY DEF LBody, Numbered, Made
<1>4. QED BY <1>1, <1>2, <1>3, LStep

LEMMA LBegins ==
  ASSUME BaseInv, LBody, NEW p \in Proc,
         BeginCreate(p) \/ BeginUp(p) \/ BeginDown(p) \/ BeginStart(p)
           \/ BeginStop(p)
  PROVE  LBody'
<1>1. PICK op \in {"create", "up", "down", "start", "stop"},
           step \in {"makeTask", "read", "sweep"} :
        /\ Begin(p, op, step)
        /\ UNCHANGED lock \/ Take("scaling", p)
        /\ op \in {"up", "down"} => Take("scaling", p)
  BY DEF BeginCreate, BeginUp, BeginDown, BeginStart, BeginStop
<1>2. Begun(p, op, step) /\ Goes(p) /\ tasks' = tasks
  BY <1>1, BeginIs, StepsAre
  DEF Begun, BeginCreate, BeginUp, BeginDown, BeginStart, BeginStop
<1>3. Minds(p) /\ (op \in {"up", "down"} => lock'["scaling"] = p)
  BY <1>1, LocksMove, TwoLocks
<1>4. Holding(p)
  BY <1>2, <1>3, HoldsIs, TwoLocks DEF Holding, Begun
<1>5. Numbered(p)' /\ Made(p)'
  BY <1>2 DEF Numbered, Made, Begun
<1>6. QED BY <1>2, <1>3, <1>4, <1>5, LStep

LEMMA LLockTasks ==
  ASSUME BaseInv, LBody, NEW p \in Proc, LockTasks(p)
  PROVE  LBody'
<1>1. Turns(p, "readTask") /\ call[p].step = "makeTask" /\ tasks' = tasks
      /\ Take("tasks", p)
  BY GotoIs, StepsAre, BaseIs DEF LockTasks
<1>2. Minds(p) /\ lock'["tasks"] = p /\ lock'["scaling"] = lock["scaling"]
  BY <1>1, LocksMove, TwoLocks
<1>3. Holding(p)
  BY <1>1, <1>2, HoldsIs, TwoLocks DEF Holding, Turns, SameJob, LBody, Held
<1>4. Numbered(p)' /\ Made(p)'
  BY <1>1 DEF Numbered, Made, Turns, SameJob, SameTask, LBody
<1>5. QED BY <1>1, <1>2, <1>3, <1>4, LStep DEF Turns

\* createTask fails.
LEMMA LThrows ==
  ASSUME BaseInv, LBody, NEW p \in Proc, TaskThrows(p),
         call[p].step \in {"makeTask", "readTask"}, Minds(p), tasks' = tasks
  PROVE  LBody'
<1>1. CASE call[p].op # "start"
  BY <1>1, LEnds DEF TaskThrows
<1>2. CASE call[p].op = "start"
  <2>1. Turns(p, "clean")
    BY <1>2, GotoIs, StepsAre, BaseIs DEF TaskThrows
  <2>2. Holding(p)
    BY <1>2, <2>1, HoldsIs, TwoLocks DEF Holding, Turns, SameJob
  <2>3. Numbered(p)' /\ Made(p)'
    BY <1>2, <2>1 DEF Numbered, Made, Turns, SameJob
  <2>4. QED BY <2>1, <2>2, <2>3, LStep DEF Turns
<1>3. QED BY <1>1, <1>2

LEMMA LReadTask ==
  ASSUME BaseInv, LBody, NEW p \in Proc, ReadTask(p)
  PROVE  LBody'
<1>1. tasks' = tasks /\ call[p].step = "readTask"
  BY DEF ReadTask
<1>2. CASE config = NoTeam
  <2>1. lock' = [l \in Lock |->
                   IF lock[l] = p /\ (l = "tasks" \/ call[p].op = "up")
                   THEN Nobody ELSE lock[l]]
        /\ TaskThrows(p)
    BY <1>2 DEF ReadTask
  <2>2. Minds(p)
    BY <2>1 DEF Minds
  <2>3. QED BY <1>1, <2>1, <2>2, LThrows
<1>3. CASE config # NoTeam
  <2>1. /\ Goes(p) /\ SameJob(p) /\ UNCHANGED lock
        /\ call'[p].made = call[p].made /\ call'[p].step = "writeTask"
        /\ call'[p].id = NextTask(config)
        /\ \A t \in tasks : t.id < NextTask(config)
    BY <1>3, ReadTaskIs DEF ReadTask
  <2>2. Minds(p)
    BY <2>1 DEF Minds
  <2>3. Holding(p)
    BY <1>1, <2>1, HoldsIs, TwoLocks DEF Holding, SameJob, LBody, Held
  <2>4. Numbered(p)' /\ Made(p)'
    BY <1>1, <2>1 DEF Numbered, Made, SameJob, LBody
  <2>5. QED BY <1>1, <2>1, <2>2, <2>3, <2>4, LStep
<1>4. QED BY <1>2, <1>3

\* The number of a new task is its own: no task is written over.
LEMMA WritesAnew ==
  ASSUME BaseInv, LBody, NEW p \in Proc, WriteTask(p)
  PROVE  tasks' = tasks \cup {NewTask(p)}
<1>1. \A t \in tasks : t.id < call[p].id
  BY DEF LBody, Numbered, WriteTask
<1>2. tasks' = {t \in tasks : t.id # call[p].id} \cup {NewTask(p)}
  BY WriteTaskIs
<1>3. \A t \in tasks : t.id \in Nat /\ call[p].id \in Nat
  BY BaseIs, CallOf DEF TasksOK, Task
<1>4. QED BY <1>1, <1>2, <1>3

LEMMA LWriteTask ==
  ASSUME BaseInv, LBody, NEW p \in Proc, WriteTask(p)
  PROVE  LBody'
<1>1. tasks' = tasks \cup {NewTask(p)} /\ UNCHANGED lock
      /\ call[p].step = "writeTask"
  BY WritesAnew DEF WriteTask
<1>2. /\ Goes(p) /\ SameJob(p) /\ call'[p].step = "countTask"
      /\ call'[p].made = IF call[p].op = "up" THEN {NewTask(p)} ELSE {}
  BY WriteTaskIs
<1>3. Minds(p)
  BY <1>1 DEF Minds
<1>4. Holding(p)
  BY <1>1, <1>2, HoldsIs, TwoLocks DEF Holding, SameJob, LBody, Held
<1>5. Numbered(p)' /\ Made(p)'
  BY <1>1, <1>2 DEF Numbered, Made, SameJob
<1>6. QED BY <1>1, <1>2, <1>3, <1>4, <1>5, LStep

LEMMA LCountTask ==
  ASSUME BaseInv, LBody, NEW p \in Proc, CountTask(p)
  PROVE  LBody'
<1>1. tasks' = tasks /\ call[p].step = "countTask" /\ Give("tasks", p)
  BY DEF CountTask
<1>2. Minds(p) /\ lock'["scaling"] = lock["scaling"]
  BY <1>1, LocksMove, TwoLocks
<1>3. CASE call[p].op = "create"
  BY <1>1, <1>2, <1>3, LEnds DEF CountTask
<1>4. CASE call[p].op # "create"
  <2>1. /\ Goes(p) /\ SameJob(p) /\ call'[p].made = call[p].made
        /\ call'[p].step = "open"
    BY <1>4, CountTaskIs
  <2>2. Holding(p)
    BY <1>2, <2>1, HoldsIs, TwoLocks DEF Holding, SameJob, LBody, Held
  <2>3. Numbered(p)' /\ Made(p)'
    BY <1>1, <2>1 DEF Numbered, Made, SameJob, LBody
  <2>4. QED BY <1>1, <1>2, <2>1, <2>2, <2>3, LStep
<1>5. QED BY <1>3, <1>4

LEMMA LTaskTimeout ==
  ASSUME BaseInv, LBody, NEW p \in Proc, TaskTimeout(p)
  PROVE  LBody'
<1>1. UNCHANGED lock \/ Give("scaling", p)
  BY DEF TaskTimeout
<1>2. Minds(p)
  BY <1>1, LocksMove, TwoLocks
<1>3. QED BY <1>2, LThrows DEF TaskTimeout

\* A step of an operation that leaves the tasks alone: it ends, or goes on with
\* the locks it has.
LEMMA LMoves ==
  ASSUME BaseInv, LBody, NEW p \in Proc, tasks' = tasks, NEW l \in Lock,
         \/ End(p) /\ (UNCHANGED lock \/ Give(l, p))
         \/ \E step \in {"save", "undo", "kill", "notify", "clean", "read"} :
              Goto(p, step) /\ UNCHANGED lock,
         call[p].step # "revert" \/ End(p)
  PROVE  LBody'
<1>1. CASE End(p)
  <2>1. UNCHANGED lock \/ Give(l, p) \/ ~End(p) \/ UNCHANGED lock
    OBVIOUS
  <2>2. Minds(p)
    BY <1>1, <2>1, LocksMove
  <2>3. QED BY <1>1, <2>2, LEnds
<1>2. CASE ~End(p)
  <2>1. PICK step \in {"save", "undo", "kill", "notify", "clean", "read"} :
          Goto(p, step) /\ UNCHANGED lock
    BY <1>2
  <2>2. Turns(p, step)
    BY <2>1, GotoIs, StepsAre, BaseIs
  <2>3. QED BY <1>2, <2>1, <2>2, LGoes DEF Turns, SameJob, SameTask
<1>3. QED BY <1>1, <1>2

LEMMA LUp ==
  ASSUME BaseInv, LBody, NEW p \in Proc,
         ReadUp(p) \/ OpenPane(p) \/ NotifyNew(p) \/ SaveUp(p) \/ Undo(p)
           \/ Revert(p)
  PROVE  LBody'
<1>1. CASE ReadUp(p)
  <2>1. tasks' = tasks /\ call[p].step = "read" /\ "scaling" \in Lock
    BY <1>1, TwoLocks DEF ReadUp, At
  <2>2. CASE End(p) /\ Give("scaling", p)
    BY <2>1, <2>2, LMoves
  <2>3. CASE ~End(p)
    <3>1. /\ Goes(p) /\ SameJob(p) /\ SameTask(p) /\ UNCHANGED lock
          /\ call'[p].step \in {"makeTask", "open"}
      BY <1>1, <2>3, ReadUpIs
    <3>2. QED BY <2>1, <3>1, LGoes DEF SameJob, SameTask
  <2>4. CASE End(p) /\ UNCHANGED lock
    BY <2>1, <2>4, LMoves
  <2>5. QED BY <1>1, <2>2, <2>3, <2>4 DEF ReadUp
<1>2. CASE OpenPane(p)
  <2>1. tasks' = tasks /\ call[p].step = "open" /\ UNCHANGED lock
    BY <1>2 DEF OpenPane, At
  <2>2. CASE Goto(p, "undo")
    BY <2>1, <2>2, LMoves, TwoLocks
  <2>3. CASE ~Goto(p, "undo")
    <3>1. /\ Goes(p) /\ SameJob(p) /\ SameTask(p)
          /\ call'[p].step = "notify"
      BY <1>2, <2>3, OpenPaneIs
    <3>2. QED BY <2>1, <3>1, LGoes DEF SameJob, SameTask
  <2>4. QED BY <2>2, <2>3
<1>3. CASE NotifyNew(p)
  <2>1. tasks' = tasks /\ call[p].step = "notify"
    BY <1>3 DEF NotifyNew, At
  <2>2. QED BY <1>3, <2>1, LMoves, TwoLocks DEF NotifyNew
<1>4. CASE SaveUp(p)
  <2>1. tasks' = tasks /\ call[p].step = "save"
    BY <1>4 DEF SaveUp, At
  <2>2. CASE call[p].left = 1
    BY <1>4, <2>1, <2>2, LMoves, TwoLocks DEF SaveUp
  <2>3. CASE call[p].left # 1
    <3>1. /\ Goes(p) /\ SameJob(p) /\ SameTask(p) /\ UNCHANGED lock
          /\ call'[p].step = "open"
      BY <1>4, <2>3, SaveUpIs
    <3>2. QED BY <2>1, <3>1, LGoes DEF SameJob, SameTask
  <2>4. QED BY <2>2, <2>3
<1>5. CASE Undo(p)
  <2>1. tasks' \subseteq tasks /\ call[p].step = "undo" /\ call[p].op = "up"
        /\ UNCHANGED lock
    BY <1>5 DEF Undo, At
  <2>2. Turns(p, "revert")
    BY <1>5, GotoIs, StepsAre, BaseIs DEF Undo
  <2>3. QED BY <2>1, <2>2, LGoes DEF Turns, SameJob, SameTask
<1>6. CASE Revert(p)
  BY <1>6, LMoves, TwoLocks DEF Revert
<1>7. QED BY <1>1, <1>2, <1>3, <1>4, <1>5, <1>6

LEMMA LDown ==
  ASSUME BaseInv, LBody, NEW p \in Proc,
         Pick(p) \/ Drain(p) \/ EndWait(p) \/ StopWaiting(p) \/ TearDown(p)
           \/ SaveDown(p)
  PROVE  LBody'
<1>1. CASE Pick(p)
  <2>1. tasks' = tasks /\ call[p].step = "read" /\ call[p].op = "down"
    BY <1>1 DEF Pick, At
  <2>2. CASE End(p) /\ Give("scaling", p)
    BY <2>1, <2>2, LMoves, TwoLocks
  <2>3. CASE ~End(p)
    <3>1. /\ Goes(p) /\ SameTask(p) /\ UNCHANGED lock
          /\ call'[p].op = "down" /\ call'[p].step = "drain"
      BY <1>1, <2>3, PickIs
    <3>2. QED BY <2>1, <3>1, LGoes DEF SameTask
  <2>4. CASE End(p) /\ UNCHANGED lock
    BY <2>1, <2>4, LMoves, TwoLocks
  <2>5. QED BY <1>1, <2>2, <2>3, <2>4 DEF Pick
<1>2. CASE Drain(p)
  <2>1. tasks' = tasks /\ UNCHANGED lock /\ call[p].op = "down"
        /\ call[p].step = "drain"
    BY <1>2 DEF Drain, At
  <2>2. Goes(p) /\ SameTask(p) /\ call'[p].op = "down"
        /\ call'[p].step \in {"kill", "wait"}
    BY <1>2, DrainIs
  <2>3. QED BY <2>1, <2>2, LGoes DEF SameTask
<1>3. CASE EndWait(p) \/ StopWaiting(p)
  BY <1>3, LMoves, TwoLocks DEF EndWait, StopWaiting, At
<1>4. CASE TearDown(p)
  BY <1>4, LMoves, TwoLocks DEF TearDown, At
<1>5. CASE SaveDown(p)
  BY <1>5, LMoves, TwoLocks DEF SaveDown
<1>6. QED BY <1>1, <1>2, <1>4, <1>5, <1>3

\* The team's directory is removed, and nobody else was at work.
LEMMA LRemoved ==
  ASSUME BaseInv, LBody, Locked', NEW p \in Proc, NEW cause,
         RemoveDirectory(p, cause), End(p) \/ (call[p].op = "start" /\ Goto(p, "read"))
  PROVE  LBody'
<1>1. \A q \in Proc \ {p} : ~AtWork(q)
  BY DEF RemoveDirectory, Locked
<1>2. Goes(p) /\ call'[p].op \in {"none", "start"}
      /\ call'[p].step \in {"idle", "read"}
  BY GotoIs, EndIs, StepsAre, NoCallIs, BaseIs DEF Turns, SameJob
<1>3. ASSUME NEW q \in Proc, NEW l \in Lock PROVE ~Holds(q, l)'
  <2>1. CASE q = p
    BY <1>2, <2>1, HoldsIs, TwoLocks
  <2>2. CASE q # p
    BY <1>1, <1>2, <2>2, HoldsIs, TwoLocks DEF AtWork, Goes
  <2>3. QED BY <2>1, <2>2
<1>4. ASSUME NEW q \in Proc PROVE Numbered(q)' /\ Made(q)'
  <2>1. call'[q].op # "up" /\ call'[q].step # "writeTask"
    BY <1>3, HoldsIs, TwoLocks
  <2>2. QED BY <2>1 DEF Numbered, Made
<1>5. QED BY <1>3, <1>4 DEF LBody, Held

LEMMA LCleans ==
  ASSUME BaseInv, LBody, Locked', NEW p \in Proc, Sweep(p) \/ CleanUp(p)
  PROVE  LBody'
<1>1. CASE CleanUp(p)
  BY <1>1, LRemoved DEF CleanUp
<1>2. CASE Sweep(p)
  <2>1. call[p].op = "start" /\ call[p].step = "sweep"
    BY <1>2 DEF Sweep, At
  <2>2. CASE RemoveDirectory(p, Taken(p)) /\ Goto(p, "read")
    BY <2>1, <2>2, LRemoved
  <2>3. CASE UNCHANGED <<file, tasks, files, lock, why>>
    BY <1>2, <2>1, <2>3, LMoves, TwoLocks DEF Sweep
  <2>4. QED BY <1>2, <2>2, <2>3 DEF Sweep
<1>3. QED BY <1>1, <1>2

LEMMA LStart ==
  ASSUME BaseInv, LBody, NEW p \in Proc,
         InitTeam(p) \/ OpenSession(p) \/ SaveStart(p) \/ NotifyAll(p)
           \/ ReadStop(p) \/ SaveStop(p) \/ CloseAll(p)
  PROVE  LBody'
<1>1. tasks' = tasks /\ UNCHANGED lock
      /\ call[p].step \in {"open", "save", "notify", "read", "kill"}
  BY DEF InitTeam, OpenSession, SaveStart, NotifyAll, ReadStop, SaveStop, CloseAll,
         At
<1>2. CASE InitTeam(p)
  <2>1. /\ Goes(p) /\ SameJob(p) /\ SameTask(p)
        /\ call'[p].step \in {"makeTask", "open"}
    BY <1>2, InitTeamIs
  <2>2. QED BY <1>1, <2>1, LGoes DEF SameJob, SameTask
<1>3. CASE OpenSession(p) /\ ~Goto(p, "clean")
  <2>1. /\ Goes(p) /\ SameJob(p) /\ SameTask(p)
        /\ call'[p].step = "save"
    BY <1>3, OpenSessionIs
  <2>2. QED BY <1>1, <2>1, LGoes DEF SameJob, SameTask
<1>4. CASE ReadStop(p) /\ ~End(p)
  <2>1. /\ Goes(p) /\ SameJob(p) /\ SameTask(p)
        /\ call'[p].step = IF config = NoTeam THEN "clean" ELSE "save"
    BY <1>4, ReadStopIs
  <2>2. QED BY <1>1, <2>1, LGoes DEF SameJob, SameTask
<1>5. CASE End(p) \/ Goto(p, "kill") \/ Goto(p, "notify") \/ Goto(p, "clean")
  BY <1>1, <1>5, LMoves, TwoLocks
<1>6. QED
  BY <1>3, <1>4, <1>5, <1>2 DEF SaveStart, NotifyAll, SaveStop, CloseAll

LEMMA LBreak ==
  ASSUME BaseInv, LBody, Locked', NEW l \in Lock, BreakLock(l)
  PROVE  LBody'
<1>1. lock' = [lock EXCEPT ![l] = Nobody] /\ tasks' = tasks /\ call' = call
      /\ ~Holds(lock[l], l) /\ lock[l] # Nobody
  BY DEF BreakLock, Locked
<1>2. lock[l] \in Proc /\ \A m \in Lock \ {l} : lock'[m] = lock[m]
  BY <1>1, BaseIs DEF LockOK
<1>3. ASSUME NEW q \in Proc, NEW m \in Lock, Holds(q, m)' PROVE lock'[m] = q
  <2>1. Holds(q, m)
    BY <1>1, <1>3, HoldsIs, TwoLocks
  <2>2. lock[m] = q
    BY <2>1 DEF LBody, Held
  <2>3. QED BY <1>1, <1>2, <2>1, <2>2
<1>4. QED BY <1>1, <1>3 DEF LBody, Held, Numbered, Made

LEMMA LNext ==
  ASSUME BaseInv, LInv, [Next]_vars
  PROVE  LInv'
<1> SUFFICES ASSUME Locked' PROVE LBody'
  BY DEF LInv
<1>1. LBody
  BY WhyGrows DEF LInv, Locked
<1>2. CASE UNCHANGED vars
  BY <1>1, <1>2 DEF LBody, Held, Numbered, Made, Holds, vars
<1>3. ASSUME NEW p \in Proc, BeginCreate(p) \/ BeginUp(p) \/ BeginDown(p)
               \/ BeginStart(p) \/ BeginStop(p)
      PROVE  LBody'
  BY <1>1, <1>3, LBegins
<1>4. ASSUME NEW p \in Proc, LockTasks(p) \/ ReadTask(p)
               \/ WriteTask(p) \/ CountTask(p) \/ TaskTimeout(p)
      PROVE  LBody'
  BY <1>1, <1>4, LLockTasks, LReadTask, LWriteTask, LCountTask, LTaskTimeout
<1>5. ASSUME NEW p \in Proc, ReadUp(p) \/ OpenPane(p) \/ NotifyNew(p)
               \/ SaveUp(p) \/ Undo(p) \/ Revert(p)
               \/ Pick(p) \/ Drain(p) \/ EndWait(p) \/ StopWaiting(p)
               \/ TearDown(p) \/ SaveDown(p)
      PROVE  LBody'
  BY <1>1, <1>5, LUp, LDown
<1>6. ASSUME NEW p \in Proc, Sweep(p) \/ CleanUp(p) \/ InitTeam(p)
               \/ OpenSession(p) \/ SaveStart(p) \/ NotifyAll(p) \/ ReadStop(p)
               \/ SaveStop(p) \/ CloseAll(p)
      PROVE  LBody'
  BY <1>1, <1>6, LCleans, LStart
<1>7. ASSUME NEW p \in Proc, Kill(p)
      PROVE  LBody'
  BY <1>1, <1>7, LEnds DEF Kill, Minds
<1>8. ASSUME UNCHANGED <<lock, call, tasks>>
      PROVE  LBody'
  BY <1>1, <1>8 DEF LBody, Held, Numbered, Made, Holds
<1>9. ASSUME NEW l \in Lock, BreakLock(l)
      PROVE  LBody'
  BY <1>1, <1>9, LBreak
<1>10. CASE \/ \E w \in panes : \/ BeginWork(w) \/ FinishWork(w)
                               \/ \E p \in Proc : RecordIssue(p, w)
            \/ WritePhase
  BY <1>8, <1>10 DEF BeginWork, FinishWork, RecordIssue, WritePhase
<1>11. QED
  BY <1>2, <1>3, <1>4, <1>5, <1>6, <1>7, <1>9, <1>10 DEF Next

LEMMA LHolds == Spec => [](BaseInv /\ LInv)
<1>1. Init => LInv
  <2>1. SUFFICES ASSUME Init PROVE LBody
    BY DEF LInv
  <2>2. \A p \in Proc : call[p] = NoCall
    BY <2>1 DEF Init
  <2>3. \A p \in Proc : call[p].op = "none" /\ call[p].step = "idle"
    BY <2>2, NoCallIs
  <2>4. QED BY <2>3 DEF LBody, Held, Holds, Numbered, Made
<1>2. BaseInv /\ LInv /\ [Next]_vars => LInv'
  BY LNext
<1>3. QED BY <1>1, <1>2, BaseHolds, PTL DEF Spec

LEMMA TasksMove ==
  ASSUME Next
  PROVE  \/ tasks' = tasks
         \/ \E p \in Proc :
              WriteTask(p) \/ Undo(p) \/ Sweep(p) \/ CleanUp(p)
<1>1. ASSUME NEW p \in Proc, BeginCreate(p) \/ LockTasks(p) \/ ReadTask(p)
               \/ CountTask(p) \/ TaskTimeout(p) \/ BeginUp(p) \/ ReadUp(p)
               \/ OpenPane(p) \/ NotifyNew(p) \/ SaveUp(p) \/ Revert(p)
      PROVE  tasks' = tasks
  BY <1>1 DEF BeginCreate, LockTasks, ReadTask, CountTask, TaskTimeout,
              BeginUp, ReadUp, OpenPane, NotifyNew, SaveUp, Revert
<1>2. ASSUME NEW p \in Proc, BeginDown(p) \/ Pick(p) \/ Drain(p) \/ EndWait(p)
               \/ StopWaiting(p) \/ TearDown(p) \/ SaveDown(p)
               \/ BeginStart(p) \/ InitTeam(p) \/ OpenSession(p)
               \/ SaveStart(p) \/ NotifyAll(p) \/ BeginStop(p) \/ ReadStop(p)
               \/ SaveStop(p) \/ CloseAll(p) \/ Kill(p)
      PROVE  tasks' = tasks
  BY <1>2 DEF BeginDown, Pick, Drain, EndWait, StopWaiting, TearDown, SaveDown,
              BeginStart, InitTeam, OpenSession, SaveStart, NotifyAll, BeginStop, ReadStop, SaveStop,
              CloseAll, Kill
<1>3. ASSUME \/ WritePhase
             \/ \E w \in panes : \/ BeginWork(w) \/ FinishWork(w)
                                \/ \E p \in Proc : RecordIssue(p, w)
      PROVE  tasks' = tasks
  BY <1>3 DEF BeginWork, FinishWork, RecordIssue, WritePhase
<1>4. ASSUME NEW l \in Lock, BreakLock(l)
      PROVE  tasks' = tasks
  BY <1>4 DEF BreakLock
<1>5. QED BY <1>1, <1>2, <1>3, <1>4 DEF Next

\* Whatever is scaled, started, killed or shut down at the same time, createTask
\* writes over no task, and a task's file goes with the team or by the scaleUp
\* that created it, unless a lock was lost to a timeout or with the directory.
THEOREM TasksKept == Spec => TasksAreKept
<1> DEFINE A == \A t \in tasks \ tasks' :
       \/ tasks' = {}
       \/ why \cap {"broken", "removed"} # {}
       \/ \E p \in Proc : At(p, "up", "undo") /\ t \in call[p].made
<1>1. ASSUME BaseInv, LInv, [Next]_vars PROVE A \/ UNCHANGED vars
  <2>1. SUFFICES ASSUME Next, Locked, NEW t \in tasks \ tasks', tasks' # {}
                 PROVE  \E p \in Proc :
                          At(p, "up", "undo") /\ t \in call[p].made
    BY <1>1 DEF Locked
  <2>2. LBody
    BY <1>1, <2>1 DEF LInv
  <2>3. ASSUME NEW p \in Proc, WriteTask(p) PROVE FALSE
    BY <1>1, <2>1, <2>2, <2>3, WritesAnew
  <2>4. ASSUME NEW p \in Proc, Undo(p)
        PROVE  At(p, "up", "undo") /\ t \in call[p].made
    <3>1. At(p, "up", "undo")
          /\ tasks' = {u \in tasks : \A made \in call[p].made : u.id # made.id}
      BY <2>4 DEF Undo
    <3>2. PICK made \in call[p].made : t.id = made.id
      BY <2>1, <3>1
    <3>3. call[p].made \subseteq tasks
      BY <2>2, <3>1 DEF LBody, Made, At
    <3>4. made = t
      BY <1>1, <2>1, <3>2, <3>3, BaseIs DEF TasksOK, TaskInv
    <3>5. QED BY <3>1, <3>2, <3>4
  <2>5. ASSUME NEW p \in Proc, Sweep(p) \/ CleanUp(p) PROVE FALSE
    BY <2>1, <2>5 DEF Sweep, CleanUp, RemoveDirectory
  <2>6. tasks' = tasks \/ \E p \in Proc :
          WriteTask(p) \/ Undo(p) \/ Sweep(p) \/ CleanUp(p)
    BY <2>1, TasksMove
  <2>7. QED BY <2>1, <2>3, <2>4, <2>5, <2>6
<1>2. QED BY <1>1, LHolds, PTL DEF Spec, TasksAreKept

-----------------------------------------------------------------------------
(* While nothing has gone wrong, the copies that operations work on agree   *)
(* with the file, or stand for members that they will not write over.       *)

Team ==
  \/ config = NoTeam
  \/ /\ config.workers # {} /\ config.nextIndex > FirstWorkers
     /\ \A w \in config.workers : w.index < config.nextIndex

Named == \A v, w \in config.workers : v.index = w.index => v = w

Manned ==
  /\ writer # "create" /\ Team /\ Named
  /\ Cardinality(config.workers) <= MaxWorkers

OnFile ==
  \A w \in panes : w \in config.workers \/ \E p \in Proc : w \in InHand(p)

Alive(p) ==
  \/ call[p].copy # NoTeam
  \/ call[p].step \in {"writeTask", "countTask"}
  => config # NoTeam

Starting(p) == call[p].op = "start" /\ call[p].copy # NoTeam

OneStart == \A p, q \in Proc : Starting(p) /\ Starting(q) => p = q

\* The first workers of a team have no pane until the start gives them theirs.
FirstOnly(p) ==
  Starting(p) => \A w \in config.workers :
    w.index <= FirstWorkers => w.pane = 0 \/ w \in call[p].copy.workers

\* What a scaling wrote, the next one has read.
InSync(p) ==
  writer \in {"up", "down"} =>
    /\ call[p].op \in {"up", "down"} /\ call[p].step # "read" =>
         SameMembers(config, call[p].copy)
    /\ call[p].op = "up" /\ call[p].step \in {"writeTask", "countTask"} =>
         SameMembers(config, call[p].taskCopy)

Growing(p) ==
  call[p].op = "up" /\ call[p].step # "read" =>
    /\ call[p].copy.nextIndex = config.nextIndex
    /\ call[p].first > FirstWorkers
    /\ call[p].added # {} => SameMembers(config, call[p].copy)
    /\ Cardinality(config.workers) + call[p].left <= MaxWorkers
    /\ \A w \in call[p].copy.workers \ call[p].added : w.index < call[p].first
    /\ call[p].copy.workers \ call[p].added # {}

Fits(p) == Alive(p) /\ FirstOnly(p) /\ InSync(p) /\ Growing(p)

\* A status file says that its worker is at work, but where it does not hold
\* what the worker last wrote.
TellsBusy ==
  \A w \in panes : w.pane \in busy /\ w.index \notin masked =>
    w.index \in working \cup draining

\* Those who were at work when they were picked are left alone; those who are at
\* work and were not when they were told to drain have said so since.
Spared(p) == call[p].op = "down" =>
  /\ call[p].step = "drain" /\ call[p].how = "counted" =>
       \A w \in call[p].targets \cap panes : w.pane \notin call[p].occupied
  /\ call[p].step = "wait" =>
       \A w \in call[p].targets \cap panes :
         w.pane \in busy /\ w.index \notin masked =>
           w.pane \in call[p].occupied \/ w.index \in working

RBody ==
  /\ Manned /\ OnFile /\ OneStart /\ TellsBusy
  /\ \A p \in Proc : Fits(p) /\ Spared(p)

RInv == why = {} => RBody

\* Both scale locks, or both task locks, are not held at the same time.
LEMMA OneScales ==
  ASSUME LBody, NEW p \in Proc, NEW q \in Proc,
         call[p].op \in {"up", "down"}, call[q].op \in {"up", "down"}
  PROVE  p = q
BY HoldsIs, TwoLocks DEF LBody, Held

LEMMA HandIs ==
  ASSUME NEW p \in Proc
  PROVE  /\ call[p].op = "up" => InHand(p) = call[p].added \cup {call[p].fresh}
         /\ call[p].op = "start" => InHand(p) = call[p].copy.workers
         /\ call[p].op \notin {"up", "start"} => InHand(p) = {}
         /\ call'[p].op = "up" =>
              InHand(p)' = call'[p].added \cup {call'[p].fresh}
         /\ call'[p].op = "start" => InHand(p)' = call'[p].copy.workers
         /\ call'[p].op \notin {"up", "start"} => InHand(p)' = {}
BY DEF InHand

\* A live pane is on file, in the hands of the start that opened it, or the
\* one that a scaleUp is just starting.
LEMMA PaneIs ==
  ASSUME BaseInv, RBody, NEW w \in panes
  PROVE  \/ w \in config.workers
         \/ \E p \in Proc : Starting(p) /\ w \in call[p].copy.workers
         \/ \E p \in Proc : /\ call[p].op = "up" /\ call[p].step # "read"
                           /\ w = call[p].fresh
                           /\ w.index = config.nextIndex
                           /\ call[p].copy # NoTeam
<1>1. SUFFICES ASSUME w \notin config.workers PROVE
         \/ \E p \in Proc : Starting(p) /\ w \in call[p].copy.workers
         \/ \E p \in Proc : /\ call[p].op = "up" /\ call[p].step # "read"
                           /\ w = call[p].fresh
                           /\ w.index = config.nextIndex
                           /\ call[p].copy # NoTeam
  OBVIOUS
<1>2. PICK p \in Proc : w \in InHand(p)
  BY <1>1 DEF RBody, OnFile
<1>3. Proper(call[p], panes, spawned) /\ w.pane > 0 /\ Fits(p)
  BY BaseIs DEF PanesOK, PaneInv, RBody
<1>4. CASE call[p].op = "up"
  <2>1. ProperUp(call[p], panes, spawned)
    BY <1>3, <1>4 DEF Proper
  <2>2. w \notin call[p].added
    <3>1. SUFFICES ASSUME w \in call[p].added PROVE FALSE
      OBVIOUS
    <3>2. call[p].step # "read" /\ w \in call[p].copy.workers
      BY <2>1, <3>1 DEF ProperUp
    <3>3. config.workers = call[p].copy.workers
      BY <1>3, <1>4, <3>1, <3>2 DEF Fits, Growing, SameMembers
    <3>4. QED BY <1>1, <3>2, <3>3
  <2>3. w = call[p].fresh /\ w # NoWorker
    BY <1>2, <1>3, <1>4, <2>2, HandIs, NoCallIs
  <2>4. call[p].step # "read" /\ w.index = call[p].copy.nextIndex
        /\ call[p].copy.nextTask > 0
    BY <2>1, <2>3 DEF ProperUp
  <2>5. QED BY <1>3, <1>4, <2>3, <2>4, NoCallIs DEF Fits, Growing
<1>5. CASE call[p].op = "start"
  BY <1>2, <1>5, HandIs, NoCallIs DEF Starting
<1>6. QED BY <1>2, <1>4, <1>5, HandIs

LEMMA StartingIs ==
  ASSUME BaseInv, RBody, NEW p \in Proc, Starting(p)
  PROVE  /\ config # NoTeam /\ config.nextIndex > FirstWorkers
         /\ Crew(call[p].copy.workers)
         /\ ProperStart(call[p], panes)
         /\ call[p].step \notin {"sweep", "read"}
<1>1. ProperStart(call[p], panes) /\ call[p].step \notin {"sweep", "read"}
  BY BaseIs DEF Proper, ProperStart, Starting
<1>2. config # NoTeam
  BY DEF RBody, Fits, Alive, Starting
<1>3. QED BY <1>1, <1>2 DEF ProperStart, RBody, Manned, Team

LEMMA NamesAreUnique ==
  ASSUME BaseInv, LBody, RBody,
         NEW v \in panes \cup config.workers, NEW w \in panes \cup config.workers,
         v.index = w.index, v.pane # 0, w.pane # 0
  PROVE  v = w
<1> DEFINE File(u) == u \in config.workers
           Start(u) == \E p \in Proc : Starting(p) /\ u \in call[p].copy.workers
           Up(u) == \E p \in Proc : /\ call[p].op = "up" /\ call[p].step # "read"
                                  /\ u = call[p].fresh
                                  /\ u.index = config.nextIndex
                                  /\ call[p].copy # NoTeam
<1>1. \A u \in panes \cup config.workers : File(u) \/ Start(u) \/ Up(u)
  BY PaneIs
<1>2. \A u \in panes \cup config.workers : u.index \in Nat /\ u.pane \in Nat
  BY BaseIs, ConfigOf DEF FileOK, PanesOK, Worker
<1>3. config.nextIndex \in Nat /\ FirstWorkers \in Nat
  BY BaseIs, ConfigOf, Constants DEF FileOK
<1>4. \A u : File(u) => u.index < config.nextIndex
  BY NoCallIs DEF RBody, Manned, Team
<1>5. \A u : Start(u) => u.index \in 1..FirstWorkers
                          /\ config.nextIndex > FirstWorkers
  BY StartingIs DEF Crew
<1>6. \A x, y : File(x) /\ File(y) /\ x.index = y.index => x = y
  BY DEF RBody, Manned, Named
<1>7. \A x, y : Start(x) /\ Start(y) /\ x.index = y.index => x = y
  BY StartingIs DEF RBody, OneStart, Crew
<1>8. \A x, y : Up(x) /\ Up(y) => x = y
  BY OneScales
<1>9. \A x, y :
        File(x) /\ Start(y) /\ x.index = y.index /\ x.pane # 0 => x = y
  <2>1. SUFFICES ASSUME NEW x \in config.workers, NEW y, NEW p \in Proc,
                        Starting(p), y \in call[p].copy.workers,
                        x.index = y.index, x.pane # 0
                 PROVE  x = y
    OBVIOUS
  <2>2. Crew(call[p].copy.workers)
    BY <2>1, StartingIs
  <2>3. x.index <= FirstWorkers
    BY <1>3, <2>1, <2>2 DEF Crew
  <2>4. x \in call[p].copy.workers
    BY <2>1, <2>3 DEF RBody, Fits, FirstOnly
  <2>5. QED BY <2>1, <2>2, <2>4 DEF Crew
<1>10. \A x : Up(x) => x.index = config.nextIndex
  OBVIOUS
<1> HIDE DEF File, Start, Up
<1>11. QED
  BY <1>1, <1>2, <1>3, <1>4, <1>5, <1>6, <1>7, <1>8, <1>9, <1>10

\* The members on file stay, and p opens no pane that it does not hold.
SameFile ==
  /\ config'.workers = config.workers /\ config'.nextIndex = config.nextIndex
  /\ config' = NoTeam <=> config = NoTeam
  /\ writer' = writer

LEMMA RStep ==
  ASSUME BaseInv, RBody, NEW p \in Proc, Goes(p), SameFile, Fits(p)', Spared(p)',
         Starting(p)' => Starting(p),
         \A w \in panes' : \/ w \in panes
                           \/ w.pane > spawned /\ w \in InHand(p)',
         busy' \subseteq busy,
         UNCHANGED status \/ (LBody /\ Drain(p)),
         \A w \in panes' \cap InHand(p) : w \in InHand(p)' \/ w \in config.workers
  PROVE  RBody'
<1>1. Manned'
  BY DEF RBody, Manned, Team, Named, SameFile
<1>2. \A q \in Proc \ {p} : call'[q] = call[q]
  BY DEF Goes
<1>3. OnFile'
  <2>1. \A q \in Proc \ {p} : InHand(q)' = InHand(q)
    BY <1>2 DEF InHand
  <2>2. QED BY <2>1 DEF RBody, OnFile, SameFile
<1>4. OneStart'
  BY <1>2 DEF RBody, OneStart, Starting
<1>5. \A w \in panes : w.pane <= spawned /\ w.pane \in Nat /\ spawned \in Nat
  BY BaseIs DEF PanesOK, PaneInv, Worker
<1>6. /\ masked' = masked
      /\ working \cup draining \subseteq working' \cup draining'
      /\ \A q \in Proc \ {p} : call[q].op = "down" => working' = working
  <2>1. CASE UNCHANGED status
    BY <2>1 DEF status
  <2>2. CASE LBody /\ Drain(p)
    BY <2>2, OneScales DEF Drain, At
  <2>3. QED BY <2>1, <2>2
<1>7. TellsBusy'
  <2>1. \A w \in panes' : w.pane \in busy => w \in panes
    BY <1>5, BaseIs DEF PanesOK
  <2>2. QED BY <1>6, <2>1 DEF RBody, TellsBusy
<1>8. ASSUME NEW q \in Proc PROVE Fits(q)' /\ Spared(q)'
  <2>1. CASE q = p
    BY <2>1
  <2>2. CASE q # p
    <3>1. call'[q] = call[q]
      BY <1>2, <2>2
    <3>2. Fits(q) /\ Spared(q)
      BY DEF RBody
    <3>3. Alive(q)' /\ FirstOnly(q)'
      BY <3>1, <3>2 DEF Fits, Alive, FirstOnly, Starting, SameFile
    <3>4. InSync(q)'
      BY <3>1, <3>2 DEF Fits, InSync, SameMembers, SameFile
    <3>5. Growing(q)'
      BY <3>1, <3>2 DEF Fits, Growing, SameMembers, SameFile
    <3>6. Spared(q)'
      <4>1. SUFFICES ASSUME call[q].op = "down", NEW w \in call[q].targets,
                            w \in panes'
                     PROVE  w \in panes
        BY <1>6, <2>2, <3>1, <3>2 DEF Spared
      <4>2. ProperDown(call[q], panes) /\ Opened(call[q].copy.workers, spawned)
        BY <4>1, BaseIs DEF Proper
      <4>3. w.pane <= spawned /\ w.pane \in Nat /\ spawned \in Nat
        BY <4>1, <4>2, BaseIs, CallOf DEF ProperDown, Opened, Worker
      <4>4. QED BY <4>1, <4>3
    <3>7. QED BY <3>3, <3>4, <3>5, <3>6 DEF Fits
  <2>3. QED BY <2>1, <2>2
<1>9. QED BY <1>1, <1>3, <1>4, <1>7, <1>8 DEF RBody

LEMMA EndFits ==
  ASSUME BaseInv, NEW p \in Proc, End(p)
  PROVE  /\ Goes(p) /\ Fits(p)' /\ Spared(p)' /\ ~Starting(p)'
         /\ InHand(p)' = {}
<1>1. Goes(p) /\ call'[p] = NoCall
  BY EndIs, BaseIs
<1>2. call'[p].op = "none" /\ call'[p].step = "idle" /\ call'[p].copy = NoTeam
  BY <1>1, NoCallIs
<1>3. Fits(p)' /\ Spared(p)' /\ ~Starting(p)'
  BY <1>2 DEF Fits, Alive, FirstOnly, Starting, InSync, Growing, Spared
<1>4. InHand(p)' = {}
  BY <1>2, HandIs
<1>5. QED BY <1>1, <1>3, <1>4

\* An operation goes on without a look at the file.
LEMMA TurnFits ==
  ASSUME BaseInv, RBody, NEW p \in Proc, NEW step \in Step, Goto(p, step), SameFile,
         call[p].step # "read" /\ step # "read",
         step \notin {"writeTask", "countTask", "drain", "wait"},
         panes' \subseteq panes
  PROVE  /\ Goes(p) /\ Fits(p)' /\ Spared(p)' /\ Starting(p)' = Starting(p)
         /\ InHand(p)' = InHand(p)
<1>1. Turns(p, step)
  BY GotoIs, BaseIs
<1>2. Fits(p) /\ Spared(p)
  BY DEF RBody
<1>3. Alive(p)' /\ FirstOnly(p)' /\ Starting(p)' = Starting(p)
  BY <1>1, <1>2
  DEF Fits, Alive, FirstOnly, Starting, SameFile, Turns, SameTeam, SameJob
<1>4. InSync(p)'
  BY <1>1, <1>2 DEF Fits, InSync, SameMembers, SameFile, Turns, SameTeam, SameJob
<1>5. Growing(p)'
  BY <1>1, <1>2 DEF Fits, Growing, SameMembers, SameFile, Turns, SameTeam, SameJob
<1>6. Spared(p)'
  BY <1>1, <1>2 DEF Spared, Turns, SameJob
<1>7. InHand(p)' = InHand(p)
  BY <1>1, HandIs DEF Turns, SameTeam, SameJob
<1>8. QED BY <1>1, <1>3, <1>4, <1>5, <1>6, <1>7 DEF Fits, Turns

LEMMA FileSame ==
  ASSUME UNCHANGED file
  PROVE  SameFile
BY DEF file, SameFile

\* An operation that holds no live pane ends.
LEMMA REnds ==
  ASSUME BaseInv, RBody, NEW p \in Proc, End(p), SameFile,
         panes' \subseteq panes, busy' \subseteq busy,
         UNCHANGED status,
         panes' \cap InHand(p) \subseteq config.workers
  PROVE  RBody'
BY EndFits, RStep

\* Another step of an operation that sees nothing new.
LEMMA RTurns ==
  ASSUME BaseInv, RBody, NEW p \in Proc, NEW step \in Step, Goto(p, step), SameFile,
         call[p].step # "read" /\ step # "read",
         step \notin {"writeTask", "countTask", "drain", "wait"},
         panes' \subseteq panes, busy' \subseteq busy,
         UNCHANGED status
  PROVE  RBody'
BY TurnFits, RStep

\* An operation's copy, or what it wrote last, is still what is on file.
LEMMA SaveSame ==
  ASSUME BaseInv, NEW p \in Proc, NEW read, NEW new, Save(p, read, new), why' = {},
         SameMembers(read, new), config # NoTeam, new # NoTeam,
         ~SameLock(call[p].op, writer) \/ SameMembers(config, read)
  PROVE  SameFile
<1>1. SameMembers(config, read)
  BY DEF Save, Crossed
<1>2. SameMembers(config, new)
  BY <1>1 DEF SameMembers
<1>3. QED BY <1>2 DEF Save, Write, SameFile, SameMembers

LEMMA HandEmpty ==
  ASSUME BaseInv, NEW p \in Proc,
         \/ call[p].op \in {"none", "create", "down", "stop"}
         \/ call[p].op = "up" /\ call[p].step \in TaskStep \cup {"read"}
         \/ /\ call[p].op = "start"
            /\ call[p].step \in TaskStep \cup {"sweep", "read", "open"}
  PROVE  panes \cap InHand(p) = {}
<1>1. /\ Proper(call[p], panes, spawned)
      /\ \A w \in panes : w.pane > 0 /\ w.pane \in Nat
  BY BaseIs DEF PanesOK, PaneInv, Worker
<1>2. CASE call[p].op = "up" /\ call[p].step \in TaskStep \cup {"read"}
  <2>1. call[p].added = {} /\ call[p].fresh = NoWorker
    BY <1>1, <1>2 DEF Proper, ProperUp
  <2>2. InHand(p) = {NoWorker}
    BY <1>2, <2>1, HandIs
  <2>3. QED BY <1>1, <2>2, NoCallIs
<1>3. CASE /\ call[p].op = "start"
           /\ call[p].step \in TaskStep \cup {"sweep", "read", "open"}
  <2>1. \A w \in call[p].copy.workers : w.pane = 0
    BY <1>1, <1>3, NoCallIs DEF Proper, ProperStart
  <2>2. QED BY <1>1, <1>3, <2>1, HandIs
<1>4. CASE call[p].op \in {"none", "create", "down", "stop"}
  BY <1>4, HandIs
<1>5. QED BY <1>2, <1>3, <1>4

LEMMA RBegins ==
  ASSUME BaseInv, RBody, NEW p \in Proc,
         BeginCreate(p) \/ BeginUp(p) \/ BeginDown(p) \/ BeginStart(p)
           \/ BeginStop(p)
  PROVE  RBody'
<1>1. PICK op \in {"create", "up", "down", "start", "stop"},
           step \in {"makeTask", "read", "sweep"} :
        /\ Begin(p, op, step)
        /\ step = "makeTask" <=> op = "create"
        /\ step = "sweep" <=> op = "start"
  BY DEF BeginCreate, BeginUp, BeginDown, BeginStart, BeginStop
<1>2. Begun(p, op, step)
  BY <1>1, BeginIs, StepsAre
<1>3. UNCHANGED file /\ UNCHANGED files /\ UNCHANGED members
  BY DEF BeginCreate, BeginUp, BeginDown, BeginStart, BeginStop
<1>4. Fits(p)' /\ Spared(p)' /\ ~Starting(p)'
  BY <1>1, <1>2
  DEF Begun, Fits, Alive, FirstOnly, Starting, InSync, Growing, Spared
<1>5. panes \cap InHand(p) = {}
  BY <1>2, NoCallIs, HandEmpty DEF Begun
<1>6. SameFile /\ panes' = panes /\ busy' = busy
      /\ UNCHANGED status
  BY <1>3, FileSame DEF files, members
<1>7. QED BY <1>2, <1>4, <1>5, <1>6, RStep DEF Begun

LEMMA RThrows ==
  ASSUME BaseInv, RBody, NEW p \in Proc, TaskThrows(p),
         call[p].step \in {"makeTask", "readTask"},
         UNCHANGED file, UNCHANGED files, UNCHANGED members
  PROVE  RBody'
<1>1. SameFile /\ panes' = panes /\ busy' = busy
      /\ UNCHANGED status
  BY FileSame DEF files, members
<1>2. CASE call[p].op # "start"
  <2>1. call[p].op \in Operation
    BY BaseIs, CallOf
  <2>2. panes \cap InHand(p) = {}
    BY <1>2, <2>1, HandEmpty DEF TaskStep, Operation
  <2>3. QED BY <1>1, <1>2, <2>2, REnds DEF TaskThrows
<1>3. CASE call[p].op = "start"
  BY <1>1, <1>3, RTurns, StepsAre DEF TaskThrows
<1>4. QED BY <1>2, <1>3

LEMMA RLockTasks ==
  ASSUME BaseInv, RBody, NEW p \in Proc, LockTasks(p)
  PROVE  RBody'
<1>1. UNCHANGED file /\ UNCHANGED files /\ UNCHANGED members
      /\ Goto(p, "readTask") /\ call[p].step = "makeTask"
  BY DEF LockTasks
<1>2. SameFile /\ panes' = panes /\ busy' = busy
      /\ UNCHANGED status
  BY <1>1, FileSame DEF files, members
<1>3. QED BY <1>1, <1>2, RTurns, StepsAre

LEMMA RReadTask ==
  ASSUME BaseInv, RBody, NEW p \in Proc, ReadTask(p)
  PROVE  RBody'
<1>1. UNCHANGED file /\ UNCHANGED files /\ UNCHANGED members
      /\ call[p].step = "readTask"
  BY DEF ReadTask
<1>2. SameFile /\ panes' = panes /\ busy' = busy
      /\ UNCHANGED status
  BY <1>1, FileSame DEF files, members
<1>3. CASE config = NoTeam
  BY <1>1, <1>3, RThrows DEF ReadTask
<1>4. CASE config # NoTeam
  <2>1. /\ Goes(p) /\ SameJob(p) /\ SameTeam(p)
        /\ call'[p].fresh = call[p].fresh
        /\ call'[p].step = "writeTask" /\ call'[p].taskCopy = config
    BY <1>4, ReadTaskIs
  <2>2. Fits(p)
    BY DEF RBody
  <2>3. Alive(p)' /\ FirstOnly(p)' /\ Starting(p)' = Starting(p)
    BY <1>2, <1>4, <2>1, <2>2
    DEF Fits, Alive, FirstOnly, Starting, SameFile, SameTeam, SameJob
  <2>4. InSync(p)'
    BY <1>1, <1>2, <2>1, <2>2
    DEF Fits, InSync, SameMembers, SameFile, SameTeam, SameJob
  <2>5. Growing(p)'
    BY <1>1, <1>2, <2>1, <2>2
    DEF Fits, Growing, SameMembers, SameFile, SameTeam, SameJob
  <2>6. Spared(p)'
    BY <2>1 DEF Spared
  <2>7. InHand(p)' = InHand(p)
    BY <2>1, HandIs DEF SameTeam, SameJob
  <2>8. QED BY <1>2, <2>1, <2>3, <2>4, <2>5, <2>6, <2>7, RStep DEF Fits
<1>5. QED BY <1>3, <1>4

LEMMA RWriteTask ==
  ASSUME BaseInv, RBody, NEW p \in Proc, WriteTask(p)
  PROVE  RBody'
<1>1. UNCHANGED file /\ UNCHANGED files /\ UNCHANGED members
      /\ call[p].step = "writeTask"
  BY DEF WriteTask
<1>2. SameFile /\ panes' = panes /\ busy' = busy
      /\ UNCHANGED status
  BY <1>1, FileSame DEF files, members
<1>3. /\ Goes(p) /\ SameJob(p) /\ SameTeam(p)
      /\ call'[p].fresh = call[p].fresh
      /\ call'[p].step = "countTask" /\ call'[p].taskCopy = call[p].taskCopy
  BY WriteTaskIs
<1>4. Fits(p)
  BY DEF RBody
<1>5. Alive(p)' /\ FirstOnly(p)' /\ Starting(p)' = Starting(p)
  BY <1>1, <1>2, <1>3, <1>4
  DEF Fits, Alive, FirstOnly, Starting, SameFile, SameTeam, SameJob
<1>6. InSync(p)'
  BY <1>1, <1>2, <1>3, <1>4
  DEF Fits, InSync, SameMembers, SameFile, SameTeam, SameJob
<1>7. Growing(p)'
  BY <1>1, <1>2, <1>3, <1>4
  DEF Fits, Growing, SameMembers, SameFile, SameTeam, SameJob
<1>8. Spared(p)'
  BY <1>3 DEF Spared
<1>9. InHand(p)' = InHand(p)
  BY <1>3, HandIs DEF SameTeam, SameJob
<1>10. QED BY <1>2, <1>3, <1>5, <1>6, <1>7, <1>8, <1>9, RStep DEF Fits

\* The counter is written with the members that the operation read, and they
\* are on file still.
LEMMA RCountTask ==
  ASSUME BaseInv, RBody, NEW p \in Proc, CountTask(p), why' = {}
  PROVE  RBody'
<1> DEFINE c == call[p].taskCopy
           new == [c EXCEPT !.nextTask = call[p].id + 1]
<1>1. /\ call[p].step = "countTask" /\ Save(p, c, new)
      /\ UNCHANGED files /\ UNCHANGED members
  BY DEF CountTask
<1>2. /\ Proper(call[p], panes, spawned) /\ c \in Config /\ call[p].id \in Nat
      /\ call[p].op \in Operation /\ Fits(p)
  BY BaseIs, CallOf DEF RBody
<1>3. /\ new.workers = c.workers /\ new.nextIndex = c.nextIndex
      /\ new.nextTask = call[p].id + 1
  BY <1>2 DEF Config
<1> HIDE DEF new
<1>4. new # NoTeam /\ SameMembers(c, new)
  BY <1>2, <1>3, NoCallIs DEF SameMembers
<1>5. config # NoTeam
  BY <1>1, <1>2 DEF Fits, Alive
<1>6. call[p].op \in {"create", "up", "start"}
  BY <1>1, <1>2, NoCallIs
  DEF Proper, ProperDown, ProperStop, TaskStep, Operation
<1>7. ~SameLock(call[p].op, writer) \/ SameMembers(config, c)
  <2>1. SUFFICES ASSUME SameLock(call[p].op, writer) PROVE SameMembers(config, c)
    OBVIOUS
  <2>2. writer # "create"
    BY DEF RBody, Manned
  <2>3. call[p].op = "up" /\ writer \in {"up", "down"}
    BY <1>6, <2>1, <2>2 DEF SameLock
  <2>4. QED BY <1>1, <1>2, <2>3 DEF Fits, InSync
<1>8. SameFile
  BY <1>1, <1>4, <1>5, <1>7, SaveSame
<1>9. panes' = panes /\ busy' = busy /\ UNCHANGED status
  BY <1>1 DEF files, members
<1>10. CASE call[p].op = "create"
  <2>1. End(p)
    BY <1>10 DEF CountTask
  <2>2. panes \cap InHand(p) = {}
    BY <1>10, HandEmpty
  <2>3. QED BY <1>8, <1>9, <2>1, <2>2, REnds
<1>11. CASE call[p].op # "create"
  <2>1. /\ Goes(p) /\ SameJob(p) /\ SameTeam(p)
        /\ call'[p].fresh = call[p].fresh /\ call'[p].step = "open"
    BY <1>11, CountTaskIs
  <2>2. Alive(p)' /\ FirstOnly(p)' /\ Starting(p)' = Starting(p)
    BY <1>2, <1>8, <2>1
    DEF Fits, Alive, FirstOnly, Starting, SameFile, SameTeam, SameJob
  <2>3. InSync(p)'
    BY <1>1, <1>2, <1>8, <2>1
    DEF Fits, InSync, SameMembers, SameFile, SameTeam, SameJob
  <2>4. Growing(p)'
    BY <1>1, <1>2, <1>8, <2>1
    DEF Fits, Growing, SameMembers, SameFile, SameTeam, SameJob
  <2>5. Spared(p)'
    BY <2>1 DEF Spared
  <2>6. InHand(p)' = InHand(p)
    BY <2>1, HandIs DEF SameTeam, SameJob
  <2>7. QED BY <1>8, <1>9, <2>1, <2>2, <2>3, <2>4, <2>5, <2>6, RStep DEF Fits
<1>12. QED BY <1>10, <1>11

LEMMA RTaskTimeout ==
  ASSUME BaseInv, RBody, NEW p \in Proc, TaskTimeout(p)
  PROVE  RBody'
BY RThrows DEF TaskTimeout

LEMMA RReadUp ==
  ASSUME BaseInv, RBody, NEW p \in Proc, ReadUp(p)
  PROVE  RBody'
<1>1. UNCHANGED file /\ UNCHANGED files /\ UNCHANGED members
      /\ call[p].step = "read" /\ call[p].op = "up"
  BY DEF ReadUp, At
<1>2. SameFile /\ panes' = panes /\ busy' = busy
      /\ UNCHANGED status
  BY <1>1, FileSame DEF files, members
<1>3. panes \cap InHand(p) = {}
  BY <1>1, HandEmpty
<1>4. CASE End(p)
  BY <1>2, <1>3, <1>4, REnds
<1>5. CASE ~End(p)
  <2>1. /\ Goes(p) /\ SameJob(p) /\ SameTask(p)
        /\ call'[p].fresh = call[p].fresh /\ call'[p].added = call[p].added
        /\ call'[p].copy = config /\ config # NoTeam
        /\ call'[p].first = config.nextIndex
        /\ Cardinality(config.workers) + call'[p].left <= MaxWorkers
        /\ call'[p].step \in {"makeTask", "open"}
    BY <1>5, ReadUpIs
  <2>2. call[p].added = {}
    BY <1>1, BaseIs DEF Proper, ProperUp
  <2>3. /\ config.workers # {} /\ config.nextIndex > FirstWorkers
        /\ \A w \in config.workers : w.index < config.nextIndex
    BY <2>1 DEF RBody, Manned, Team
  <2>4. Alive(p)' /\ FirstOnly(p)' /\ ~Starting(p)'
    BY <1>1, <1>2, <2>1 DEF Alive, FirstOnly, Starting, SameFile, SameJob
  <2>5. InSync(p)'
    BY <1>2, <2>1 DEF InSync, SameMembers, SameFile
  <2>6. Growing(p)'
    BY <1>2, <2>1, <2>2, <2>3 DEF Growing, SameFile
  <2>7. Spared(p)'
    BY <2>1 DEF Spared
  <2>8. QED BY <1>2, <1>3, <2>1, <2>4, <2>5, <2>6, <2>7, RStep DEF Fits
<1>6. QED BY <1>4, <1>5

LEMMA ROpenPane ==
  ASSUME BaseInv, RBody, NEW p \in Proc, OpenPane(p)
  PROVE  RBody'
<1>1. UNCHANGED file /\ UNCHANGED files
      /\ call[p].step = "open" /\ call[p].op = "up"
  BY DEF OpenPane, At
<1>2. SameFile /\ UNCHANGED status
  BY <1>1, FileSame DEF files
<1>3. CASE Goto(p, "undo")
  BY <1>1, <1>2, <1>3, OpenPaneFails, RTurns, StepsAre DEF members
<1>4. CASE ~Goto(p, "undo")
  <2>1. /\ Goes(p) /\ SameJob(p) /\ SameTask(p) /\ SameTeam(p)
        /\ call'[p].fresh = NewWorker(p) /\ call'[p].step = "notify"
        /\ NewWorker(p).pane = spawned + 1
        /\ panes' = panes \cup {NewWorker(p)} /\ busy' = busy
    BY <1>4, OpenPaneIs
  <2>2. call[p].fresh = NoWorker /\ spawned \in Nat
    BY <1>1, BaseIs DEF Proper, ProperUp
  <2>3. Fits(p)
    BY DEF RBody
  <2>4. Alive(p)' /\ FirstOnly(p)' /\ Starting(p)' = Starting(p)
    BY <1>2, <2>1, <2>3
    DEF Fits, Alive, FirstOnly, Starting, SameFile, SameTeam, SameJob
  <2>5. InSync(p)' /\ Growing(p)'
    BY <1>1, <1>2, <2>1, <2>3
    DEF Fits, InSync, Growing, SameMembers, SameFile, SameTeam, SameJob
  <2>6. Spared(p)'
    BY <2>1 DEF Spared
  <2>7. InHand(p)' = call[p].added \cup {NewWorker(p)}
        /\ InHand(p) = call[p].added \cup {NoWorker}
    BY <1>1, <2>1, <2>2, HandIs DEF SameTeam, SameJob
  <2>8. NoWorker \notin panes' /\ NewWorker(p).pane > spawned
    <3>1. \A w \in panes : w.pane > 0
      BY BaseIs DEF PanesOK, PaneInv
    <3>2. QED BY <2>1, <2>2, <3>1, NoCallIs
  <2>9. QED
    BY <1>2, <2>1, <2>4, <2>5, <2>6, <2>7, <2>8, RStep DEF Fits
<1>5. QED BY <1>3, <1>4

LEMMA RNotifyNew ==
  ASSUME BaseInv, RBody, NEW p \in Proc, NotifyNew(p), why' = {}
  PROVE  RBody'
<1>1. UNCHANGED file /\ UNCHANGED files /\ UNCHANGED members
      /\ call[p].step = "notify" /\ call[p].op = "up"
      /\ \E step \in {"save", "undo"} : Goto(p, step)
  BY DEF NotifyNew, At
<1>2. SameFile /\ panes' = panes /\ busy' = busy
      /\ UNCHANGED status
  BY <1>1, FileSame DEF files, members
<1>3. QED BY <1>1, <1>2, RTurns, StepsAre

LEMMA RUndo ==
  ASSUME BaseInv, RBody, NEW p \in Proc, Undo(p)
  PROVE  RBody'
<1>1. UNCHANGED file /\ UNCHANGED files /\ Close(Undone(p))
      /\ call[p].step = "undo" /\ call[p].op = "up" /\ Goto(p, "revert")
  BY DEF Undo, At
<1>2. SameFile /\ panes' \subseteq panes /\ busy' \subseteq busy
      /\ UNCHANGED status
  BY <1>1, FileSame DEF files, Close
<1>3. QED BY <1>1, <1>2, RTurns, StepsAre

LEMMA RPick ==
  ASSUME BaseInv, RBody, NEW p \in Proc, Pick(p)
  PROVE  RBody'
<1>1. UNCHANGED file /\ UNCHANGED files /\ UNCHANGED members
      /\ call[p].step = "read" /\ call[p].op = "down"
  BY DEF Pick, At
<1>2. SameFile /\ panes' = panes /\ busy' = busy
      /\ UNCHANGED status
  BY <1>1, FileSame DEF files, members
<1>3. panes \cap InHand(p) = {}
  BY <1>1, HandEmpty
<1>4. CASE End(p)
  BY <1>2, <1>3, <1>4, REnds
<1>5. CASE ~End(p)
  <2>1. /\ Goes(p)
        /\ call'[p].op = "down" /\ call'[p].copy = config
        /\ call'[p].step = "drain" /\ call'[p].occupied = Seen
        /\ call'[p].targets \subseteq config.workers
        /\ call'[p].targets # {}
        /\ call'[p].how = "counted" => call'[p].targets \subseteq Idle(config)
    BY <1>5, PickIs
  <2>2. config # NoTeam
    BY <2>1, NoCallIs
  <2>3. Alive(p)' /\ FirstOnly(p)' /\ ~Starting(p)' /\ Growing(p)'
    BY <1>2, <2>1, <2>2
    DEF Alive, FirstOnly, Starting, Growing, SameFile
  <2>4. InSync(p)'
    BY <1>2, <2>1 DEF InSync, SameMembers, SameFile
  <2>5. Spared(p)'
    <3>1. ASSUME NEW w \in panes, w \in Idle(config) PROVE w.pane \notin Seen
      <4>1. \A v \in panes : v.pane = w.pane => v = w
        BY BaseIs DEF PanesOK, PaneInv
      <4>2. w.pane \in Seen => w.pane \in busy /\ w.index \notin masked
        BY <4>1 DEF Seen
      <4>3. QED BY <3>1, <4>2 DEF Idle, RBody, TellsBusy
    <3>2. QED BY <1>2, <2>1, <3>1 DEF Spared
  <2>6. QED BY <1>2, <1>3, <2>1, <2>3, <2>4, <2>5, RStep DEF Fits
<1>6. QED BY <1>4, <1>5

LEMMA RDrain ==
  ASSUME BaseInv, LBody, RBody, NEW p \in Proc, Drain(p)
  PROVE  RBody'
<1>1. UNCHANGED file /\ UNCHANGED members
      /\ call[p].step = "drain" /\ call[p].op = "down"
  BY DEF Drain, At
<1>2. SameFile /\ panes' = panes /\ busy' = busy
  BY <1>1, FileSame DEF members
<1>3. /\ Goes(p) /\ SameTeam(p)
      /\ call'[p].op = "down" /\ call'[p].occupied = busy
      /\ call'[p].step \in {"kill", "wait"}
  BY DrainIs
<1>4. Fits(p)
  BY DEF RBody
<1>5. Alive(p)' /\ FirstOnly(p)' /\ Growing(p)' /\ ~Starting(p)'
  BY <1>1, <1>2, <1>3, <1>4
  DEF Fits, Alive, FirstOnly, Growing, Starting, SameFile, SameTeam
<1>6. InSync(p)'
  BY <1>1, <1>2, <1>3, <1>4 DEF Fits, InSync, SameMembers, SameFile, SameTeam
<1>7. Spared(p)'
  BY <1>2, <1>3 DEF Spared
<1>8. panes \cap InHand(p) = {}
  BY <1>1, HandEmpty
<1>9. QED BY <1>2, <1>3, <1>5, <1>6, <1>7, <1>8, RStep DEF Fits

LEMMA RWaits ==
  ASSUME BaseInv, RBody, NEW p \in Proc, EndWait(p) \/ StopWaiting(p)
  PROVE  RBody'
<1>1. UNCHANGED file /\ UNCHANGED files /\ UNCHANGED members
      /\ call[p].step = "wait" /\ Goto(p, "kill")
  BY DEF EndWait, StopWaiting, At
<1>2. SameFile /\ panes' = panes /\ busy' = busy /\ UNCHANGED status
  BY <1>1, FileSame DEF files, members
<1>3. QED BY <1>1, <1>2, RTurns, StepsAre

LEMMA RTearDown ==
  ASSUME BaseInv, RBody, NEW p \in Proc, TearDown(p)
  PROVE  RBody'
<1>1. UNCHANGED file /\ UNCHANGED files /\ Close(call[p].targets)
      /\ call[p].step = "kill" /\ call[p].op = "down"
      /\ (Goto(p, "save") \/ End(p))
  BY DEF TearDown, At
<1>2. SameFile /\ panes' \subseteq panes /\ busy' \subseteq busy
      /\ UNCHANGED status
  BY <1>1, FileSame DEF files, Close
<1>3. CASE Goto(p, "save")
  BY <1>1, <1>2, <1>3, RTurns, StepsAre
<1>4. CASE End(p)
  <2>1. panes \cap InHand(p) = {}
    BY <1>1, HandEmpty
  <2>2. panes' \cap InHand(p) \subseteq config.workers
    BY <1>2, <2>1
  <2>3. QED BY <1>2, <1>4, <2>2, REnds
<1>5. QED BY <1>1, <1>3, <1>4

LEMMA ROpenSession ==
  ASSUME BaseInv, RBody, NEW p \in Proc, OpenSession(p)
  PROVE  RBody'
<1>1. UNCHANGED file /\ UNCHANGED files
      /\ call[p].step = "open" /\ call[p].op = "start"
  BY DEF OpenSession, At
<1>2. SameFile /\ UNCHANGED status
  BY <1>1, FileSame DEF files
<1>3. CASE Goto(p, "clean")
  BY <1>1, <1>2, <1>3, OpenSessionFails, RTurns, StepsAre DEF members
<1>4. CASE ~Goto(p, "clean")
  <2>1. /\ Goes(p) /\ SameJob(p) /\ SameTask(p)
        /\ call'[p].step = "save"
        /\ call'[p].copy.workers = NewSession(p)
        /\ call'[p].copy.nextTask = call[p].copy.nextTask
        /\ Open(NewSession(p))
    BY <1>4, OpenSessionIs
  <2>2. ProperStart(call[p], panes) /\ Sound(call[p].copy)
    BY <1>1, BaseIs DEF Proper
  <2>3. /\ Crew(call[p].copy.workers) /\ call[p].copy.nextTask = 1
        /\ \A w \in call[p].copy.workers : w.pane = 0
        /\ IsFiniteSet(call[p].copy.workers)
    BY <1>1, <2>2 DEF ProperStart, Sound
  <2>4. call[p].copy # NoTeam /\ Starting(p) /\ Starting(p)'
    BY <1>1, <2>1, <2>3, NoCallIs DEF Starting, SameJob
  <2>5. config # NoTeam /\ Fits(p)
    BY <2>4, StartingIs DEF RBody
  <2>6. Alive(p)' /\ FirstOnly(p)'
    BY <1>2, <2>3, <2>4, <2>5 DEF Fits, Alive, FirstOnly, SameFile
  <2>7. InSync(p)' /\ Growing(p)' /\ Spared(p)'
    BY <1>1, <2>1 DEF InSync, Growing, Spared, SameJob
  <2>8. panes' = panes \cup NewSession(p) /\ busy' = busy
    BY <2>1 DEF Open
  <2>9. InHand(p)' = NewSession(p) /\ InHand(p) = call[p].copy.workers
    BY <1>1, <2>1, HandIs DEF SameJob
  <2>10. \A w \in NewSession(p) : w.pane > spawned
    BY <2>3, SessionIs
  <2>11. panes' \cap InHand(p) \subseteq NewSession(p)
    BY <1>1, <2>8, HandEmpty
  <2>12. QED
    BY <1>2, <2>1, <2>4, <2>6, <2>7, <2>8, <2>9, <2>10, <2>11, RStep DEF Fits
<1>5. QED BY <1>3, <1>4

LEMMA RReadStop ==
  ASSUME BaseInv, RBody, NEW p \in Proc, ReadStop(p)
  PROVE  RBody'
<1>1. UNCHANGED file /\ UNCHANGED files /\ UNCHANGED members
      /\ call[p].step = "read" /\ call[p].op = "stop"
  BY DEF ReadStop, At
<1>2. SameFile /\ panes' = panes /\ busy' = busy
      /\ UNCHANGED status
  BY <1>1, FileSame DEF files, members
<1>3. panes \cap InHand(p) = {}
  BY <1>1, HandEmpty
<1>4. CASE End(p)
  BY <1>2, <1>3, <1>4, REnds
<1>5. CASE ~End(p)
  <2>1. /\ Goes(p) /\ SameJob(p) /\ call'[p].copy = config
        /\ call'[p].step = IF config = NoTeam THEN "clean" ELSE "save"
    BY <1>5, ReadStopIs
  <2>2. Fits(p)' /\ Spared(p)' /\ ~Starting(p)'
    BY <1>1, <1>2, <2>1
    DEF Fits, Alive, FirstOnly, Starting, InSync, Growing, Spared, SameFile,
        SameJob
  <2>3. QED BY <1>2, <1>3, <2>1, <2>2, RStep
<1>6. QED BY <1>4, <1>5

LEMMA RCloseAll ==
  ASSUME BaseInv, RBody, NEW p \in Proc, CloseAll(p)
  PROVE  RBody'
<1>1. UNCHANGED file /\ UNCHANGED files
      /\ panes' \subseteq panes /\ busy' \subseteq busy
      /\ call[p].step = "kill" /\ Goto(p, "clean")
  BY DEF CloseAll, Close
<1>2. SameFile /\ UNCHANGED status
  BY <1>1, FileSame DEF files
<1>3. QED BY <1>1, <1>2, RTurns, StepsAre

\* NotifyAll and SaveStop write the members that are on file.
LEMMA RSaves ==
  ASSUME BaseInv, RBody, NEW p \in Proc, NotifyAll(p) \/ SaveStop(p), why' = {}
  PROVE  RBody'
<1>1. /\ UNCHANGED files /\ UNCHANGED members
      /\ call[p].step \in {"notify", "save"} /\ call[p].op \in {"start", "stop"}
      /\ call[p].op = "start" => NotifyAll(p)
      /\ call[p].op = "stop" => SaveStop(p)
  BY DEF NotifyAll, SaveStop, At
<1>2. panes' = panes /\ busy' = busy
      /\ UNCHANGED status
  BY <1>1 DEF files, members
<1>3. ASSUME Save(p, call[p].copy, call[p].copy), call[p].copy # NoTeam
      PROVE  SameFile /\ call[p].copy.workers = config.workers
  <2>1. config # NoTeam
    BY <1>3 DEF RBody, Fits, Alive
  <2>2. ~SameLock(call[p].op, writer)
    BY <1>1 DEF SameLock
  <2>3. SameMembers(config, call[p].copy)
    BY <1>3, <2>2 DEF Save, Crossed
  <2>4. SameMembers(call[p].copy, call[p].copy)
    BY DEF SameMembers
  <2>5. SameFile
    BY <1>3, <2>1, <2>3, <2>4, SaveSame
  <2>6. QED BY <2>3, <2>5 DEF SameMembers
<1>4. CASE NotifyAll(p)
  <2>1. Save(p, call[p].copy, call[p].copy) /\ (End(p) \/ Goto(p, "kill"))
        /\ call[p].op = "start" /\ call[p].step = "notify"
    BY <1>4 DEF NotifyAll, At
  <2>2. call[p].copy # NoTeam
    BY <2>1, BaseIs, NoCallIs DEF Proper, ProperStart
  <2>3. SameFile /\ InHand(p) = config.workers
    BY <1>3, <2>1, <2>2, HandIs
  <2>4. CASE End(p)
    BY <1>2, <2>3, <2>4, REnds
  <2>5. CASE Goto(p, "kill")
    BY <1>2, <2>1, <2>3, <2>5, RTurns, StepsAre
  <2>6. QED BY <2>1, <2>4, <2>5
<1>5. CASE SaveStop(p)
  <2>1. call[p].op = "stop" /\ call[p].step = "save"
    BY <1>5 DEF SaveStop, At
  <2>2. panes \cap InHand(p) = {}
    BY <2>1, HandEmpty
  <2>3. CASE End(p) /\ UNCHANGED file
    BY <1>2, <2>2, <2>3, REnds, FileSame
  <2>4. CASE Save(p, call[p].copy, call[p].copy) /\ Goto(p, "kill")
    <3>1. CASE call[p].copy # NoTeam
      BY <1>2, <1>3, <2>1, <2>4, <3>1, RTurns, StepsAre
    <3>2. CASE call[p].copy = NoTeam
      <4>1. SameMembers(config, NoTeam)
        BY <2>1, <2>4, <3>2 DEF Save, Crossed, SameLock
      <4>2. config = NoTeam
        BY <4>1, NoCallIs DEF SameMembers, RBody, Manned, Team
      <4>3. SameFile
        BY <2>4, <3>2, <4>2 DEF Save, Write, SameMembers, SameFile
      <4>4. QED BY <1>2, <2>1, <2>4, <4>3, RTurns, StepsAre
    <3>3. QED BY <3>1, <3>2
  <2>5. QED BY <1>5, <2>3, <2>4 DEF SaveStop
<1>6. QED BY <1>4, <1>5

\* A scaling writes over members that it has read, or wrote itself.
LEMMA ScalerSees ==
  ASSUME BaseInv, RBody, NEW p \in Proc, call[p].op \in {"up", "down"},
         call[p].step # "read", NEW new, Save(p, call[p].copy, new), why' = {}
  PROVE  /\ SameMembers(config, call[p].copy) /\ config # NoTeam
         /\ config.workers # {} /\ config.nextIndex > FirstWorkers
         /\ \A w \in config.workers : w.index < config.nextIndex
         /\ Named
<1>1. writer # "create" /\ Fits(p)
  BY DEF RBody, Manned
<1>2. SameMembers(config, call[p].copy)
  <2>1. SUFFICES ASSUME SameLock(call[p].op, writer)
                 PROVE  SameMembers(config, call[p].copy)
    BY DEF Save, Crossed
  <2>2. writer \in {"up", "down"}
    BY <1>1, <2>1 DEF SameLock
  <2>3. QED BY <1>1, <2>2 DEF Fits, InSync
<1>3. Proper(call[p], panes, spawned)
  BY BaseIs
<1>4. call[p].copy # NoTeam
  BY <1>3, NoCallIs DEF Proper, ProperUp, ProperDown
<1>5. config # NoTeam
  BY <1>1, <1>4 DEF Fits, Alive
<1>6. QED BY <1>2, <1>5 DEF RBody, Manned, Team

LEMMA ScalerWrites ==
  ASSUME BaseInv, LBody, RBody, NEW p \in Proc, call[p].op \in {"up", "down"},
         Goes(p), NEW read, NEW new \in Config, Save(p, read, new), new # NoTeam,
         UNCHANGED members, UNCHANGED files,
         \A w \in new.workers : w \in config.workers \/ w.index > FirstWorkers,
         Team', Named', Cardinality(new.workers) <= MaxWorkers,
         Fits(p)', Spared(p)', ~Starting(p)',
         \A w \in panes : w \in config.workers \cup InHand(p) =>
                           w \in new.workers \cup InHand(p)'
  PROVE  RBody'
<1>1. config' = new /\ panes' = panes /\ busy' = busy
      /\ working' = working /\ draining' = draining /\ masked' = masked
      /\ \A q \in Proc \ {p} : call'[q] = call[q]
  BY DEF Save, Write, members, files, status, Goes
<1>2. Manned'
  BY <1>1 DEF Save, Write, RBody, Manned
<1>3. OnFile'
  <2>1. \A q \in Proc \ {p} : InHand(q)' = InHand(q)
    BY <1>1 DEF InHand
  <2>2. QED BY <1>1, <2>1 DEF RBody, OnFile
<1>4. OneStart'
  BY <1>1 DEF RBody, OneStart, Starting
<1>5. TellsBusy'
  BY <1>1 DEF RBody, TellsBusy
<1>6. ASSUME NEW q \in Proc, q # p PROVE Fits(q)' /\ Spared(q)'
  <2>1. call'[q] = call[q] /\ Fits(q) /\ Spared(q)
    BY <1>1, <1>6 DEF RBody
  <2>2. call[q].op \notin {"up", "down"}
    BY <1>6, OneScales
  <2>3. Alive(q)'
    BY <1>1 DEF Alive
  <2>4. FirstOnly(q)'
    <3>1. ASSUME NEW w \in new.workers, w.index <= FirstWorkers
          PROVE  w \in config.workers
      <4>1. w \in Worker
        BY <3>1, ConfigOf
      <4>2. QED BY <3>1, <4>1, Constants DEF Worker
    <3>2. QED BY <1>1, <2>1, <3>1 DEF Fits, FirstOnly, Starting
  <2>5. InSync(q)' /\ Growing(q)' /\ Spared(q)'
    BY <2>1, <2>2 DEF InSync, Growing, Spared
  <2>6. QED BY <2>3, <2>4, <2>5 DEF Fits
<1>7. QED BY <1>2, <1>3, <1>4, <1>5, <1>6 DEF RBody

LEMMA RSaveUp ==
  ASSUME BaseInv, LBody, RBody, NEW p \in Proc, SaveUp(p), why' = {}
  PROVE  RBody'
<1> DEFINE c == call[p].copy
           f == call[p].fresh
<1>1. /\ UNCHANGED members /\ UNCHANGED files
      /\ call[p].op = "up" /\ call[p].step = "save" /\ Save(p, c, Grow(p))
  BY DEF SaveUp, At, Grow
<1>2. /\ SameMembers(config, c) /\ config # NoTeam
      /\ config.workers # {} /\ config.nextIndex > FirstWorkers
      /\ \A w \in config.workers : w.index < config.nextIndex
      /\ Named
  BY <1>1, ScalerSees
<1>3. ProperUp(call[p], panes, spawned) /\ Fits(p)
  BY <1>1, BaseIs DEF Proper, RBody
<1>4. /\ f.index = c.nextIndex /\ call[p].added \subseteq c.workers
      /\ call[p].left > 0
      /\ \A w \in call[p].added : w.index < c.nextIndex
      /\ Cardinality(call[p].added) \in Nat
      /\ c.nextIndex = call[p].first + Cardinality(call[p].added)
  BY <1>1, <1>3, NoCallIs, FS_CardinalityType DEF ProperUp
<1>5. /\ c \in Config /\ f \in Worker /\ call[p].left \in Nat
      /\ call[p].first \in Nat /\ config.nextIndex \in Nat
      /\ FirstWorkers \in Nat /\ MaxWorkers \in Nat
      /\ \A w \in c.workers : w.index \in Nat
  BY BaseIs, CallOf, ConfigOf, Constants DEF FileOK
<1>6. /\ Grow(p).workers = c.workers \cup {f}
      /\ Grow(p).nextIndex = f.index + 1
  BY GrowIs, BaseIs
<1>7. config.workers = c.workers /\ config.nextIndex = c.nextIndex
  BY <1>2 DEF SameMembers
<1>8. f \notin c.workers
  BY <1>2, <1>4, <1>5, <1>7
<1>9. /\ Cardinality(Grow(p).workers) = Cardinality(config.workers) + 1
      /\ Cardinality(config.workers) \in Nat
  <2>1. IsFiniteSet(c.workers)
    BY <1>7, BaseIs DEF FileOK, FileInv, Sound
  <2>2. Cardinality(c.workers \cup {f}) = Cardinality(c.workers) + 1
        /\ Cardinality(c.workers) \in Nat
    BY <1>8, <2>1, FS_AddElement, FS_CardinalityType
  <2>3. QED BY <1>6, <1>7, <2>2
<1>10. Cardinality(config.workers) + call[p].left <= MaxWorkers
  BY <1>1, <1>3 DEF Fits, Growing
<1>11. config' = Grow(p) /\ Grow(p) # NoTeam
  BY <1>1, <1>6, NoCallIs DEF Save, Write
<1>12. Team' /\ Named'
  <2>1. \A w \in Grow(p).workers : w.index < Grow(p).nextIndex
    BY <1>2, <1>4, <1>5, <1>6, <1>7
  <2>2. \A v, w \in Grow(p).workers : v.index = w.index => v = w
    BY <1>2, <1>4, <1>5, <1>6, <1>7 DEF Named
  <2>3. Grow(p).workers # {} /\ Grow(p).nextIndex > FirstWorkers
    BY <1>2, <1>4, <1>5, <1>6, <1>7
  <2>4. QED BY <1>11, <2>1, <2>2, <2>3 DEF Team, Named
<1>13. Cardinality(Grow(p).workers) <= MaxWorkers
  BY <1>4, <1>5, <1>9, <1>10
<1>14. \A w \in Grow(p).workers : w \in config.workers \/ w.index > FirstWorkers
  BY <1>2, <1>4, <1>6, <1>7
<1>15. \A w \in panes : w \in config.workers \cup InHand(p) => w \in Grow(p).workers
  BY <1>1, <1>4, <1>6, <1>7, HandIs
<1>16. Goes(p) /\ Fits(p)' /\ Spared(p)' /\ ~Starting(p)'
  <2>1. CASE call[p].left = 1
    <3>1. End(p)
      BY <2>1 DEF SaveUp
    <3>2. QED BY <3>1, EndFits
  <2>2. CASE call[p].left # 1
    <3>1. /\ Goes(p) /\ SameJob(p)
          /\ call'[p].first = call[p].first /\ call'[p].copy = Grow(p)
          /\ call'[p].added = call[p].added \cup {f}
          /\ call'[p].left = call[p].left - 1
          /\ call'[p].step = "open"
      BY <2>2, SaveUpIs
    <3>2. call'[p].op = "up"
      BY <1>1, <3>1 DEF SameJob
    <3>3. Alive(p)' /\ FirstOnly(p)' /\ ~Starting(p)' /\ Spared(p)'
      BY <1>11, <3>2 DEF Alive, FirstOnly, Starting, Spared
    <3>4. InSync(p)'
      BY <1>11, <3>1 DEF InSync, SameMembers
    <3>5. Growing(p)'
      <4>1. call[p].first > FirstWorkers
            /\ (\A w \in c.workers \ call[p].added : w.index < call[p].first)
            /\ c.workers \ call[p].added # {}
        BY <1>1, <1>3 DEF Fits, Growing
      <4>2. Grow(p).workers \ call'[p].added = c.workers \ call[p].added
        BY <1>6, <1>8, <3>1
      <4>3. Cardinality(Grow(p).workers) + call'[p].left <= MaxWorkers
        BY <1>4, <1>5, <1>9, <1>10, <3>1
      <4>4. QED BY <1>11, <3>1, <4>1, <4>2, <4>3 DEF Growing, SameMembers
    <3>6. QED BY <3>1, <3>3, <3>4, <3>5 DEF Fits
  <2>3. QED BY <2>1, <2>2
<1> HIDE DEF c, f
<1>17. QED
  BY <1>1, <1>11, <1>12, <1>13, <1>14, <1>15, <1>16, GrowIs, BaseIs,
     ScalerWrites DEF c

LEMMA RRevert ==
  ASSUME BaseInv, LBody, RBody, NEW p \in Proc, Revert(p), why' = {}
  PROVE  RBody'
<1> DEFINE c == call[p].copy
           left == c.workers \ call[p].added
<1>1. /\ UNCHANGED members /\ UNCHANGED files /\ End(p)
      /\ call[p].op = "up" /\ call[p].step = "revert"
  BY DEF Revert, At
<1>2. PICK new \in Config :
        /\ Save(p, c, new) /\ Sound(new)
        /\ new.workers = c.workers \ Gone(p) /\ new.nextIndex = call[p].first
  BY RevertIs
<1>3. /\ SameMembers(config, c) /\ config # NoTeam
      /\ config.workers # {} /\ config.nextIndex > FirstWorkers
      /\ Named
  BY <1>1, <1>2, ScalerSees
<1>4. ProperUp(call[p], panes, spawned) /\ Fits(p)
  BY <1>1, BaseIs DEF Proper, RBody
<1>5. call[p].added \subseteq c.workers /\ c.workers \subseteq Worker
      /\ panes \cap (call[p].added \cup {call[p].fresh}) = {}
      /\ config.workers = c.workers
  BY <1>1, <1>3, <1>4, BaseIs, CallOf, ConfigOf DEF ProperUp, SameMembers
<1>6. Gone(p) = call[p].added
  <2>1. \A w \in call[p].added :
          /\ First(c.workers, w.index) \in c.workers
          /\ First(c.workers, w.index).index = w.index
    BY <1>5, FirstIs
  <2>2. \A w \in call[p].added : First(c.workers, w.index) = w
    BY <1>3, <1>5, <2>1 DEF Named
  <2>3. Gone(p) = {First(c.workers, w.index) : w \in call[p].added}
    BY DEF Gone
  <2>4. QED BY <2>2, <2>3
<1>7. new.workers = left
  BY <1>2, <1>6
<1>8. left # {} /\ call[p].first > FirstWorkers
      /\ \A w \in left : w.index < call[p].first
  BY <1>1, <1>4 DEF Fits, Growing
<1>9. config' = new /\ new # NoTeam
  BY <1>2, <1>7, <1>8, NoCallIs DEF Save, Write
<1>10. Team' /\ Named'
  BY <1>2, <1>3, <1>5, <1>7, <1>8, <1>9 DEF Team, Named
<1>11. Cardinality(new.workers) <= MaxWorkers
  <2>1. IsFiniteSet(config.workers) /\ Cardinality(config.workers) <= MaxWorkers
        /\ left \in SUBSET config.workers
    BY <1>5, BaseIs DEF FileOK, FileInv, Sound, RBody, Manned
  <2> HIDE DEF left
  <2>2. Cardinality(left) <= Cardinality(config.workers)
        /\ Cardinality(left) \in Nat /\ Cardinality(config.workers) \in Nat
    BY <2>1, FS_Subset, FS_CardinalityType
  <2>3. QED BY <1>7, <2>1, <2>2, Constants
<1>12. \A w \in new.workers : w \in config.workers
  BY <1>5, <1>7
<1>13. \A w \in panes : w \in config.workers \cup InHand(p) => w \in new.workers
  BY <1>1, <1>5, <1>7, HandIs
<1>14. Goes(p) /\ Fits(p)' /\ Spared(p)' /\ ~Starting(p)'
  BY <1>1, EndFits
<1> HIDE DEF c, left
<1>15. QED
  BY <1>1, <1>2, <1>9, <1>10, <1>11, <1>12, <1>13, <1>14, ScalerWrites DEF c

LEMMA RSaveDown ==
  ASSUME BaseInv, LBody, RBody, NEW p \in Proc, SaveDown(p), why' = {}
  PROVE  RBody'
<1> DEFINE c == call[p].copy
           left == c.workers \ call[p].targets
<1>1. /\ UNCHANGED members /\ UNCHANGED files /\ End(p)
      /\ call[p].op = "down" /\ call[p].step = "save"
  BY DEF SaveDown, At
<1>2. PICK new \in Config :
        /\ Save(p, c, new) /\ Sound(new)
        /\ new.workers = {w \in c.workers : w.index \notin Numbers(call[p].targets)}
        /\ new.nextIndex = c.nextIndex
  BY SaveDownIs
<1>3. /\ SameMembers(config, c) /\ config # NoTeam
      /\ config.workers # {} /\ config.nextIndex > FirstWorkers
      /\ \A w \in config.workers : w.index < config.nextIndex
      /\ Named
  BY <1>1, <1>2, ScalerSees
<1>4. ProperDown(call[p], panes)
  BY <1>1, BaseIs DEF Proper
<1>5. /\ call[p].targets \subseteq c.workers /\ call[p].targets # c.workers
      /\ panes \cap call[p].targets = {} /\ config.workers = c.workers
      /\ config.nextIndex = c.nextIndex
  BY <1>1, <1>3, <1>4 DEF ProperDown, SameMembers
<1>6. new.workers = left
  BY <1>2, <1>3, <1>5 DEF Named, Numbers
<1>7. left # {}
  BY <1>5
<1>8. config' = new /\ new # NoTeam
  BY <1>2, <1>6, <1>7, NoCallIs DEF Save, Write
<1>9. Team' /\ Named'
  BY <1>2, <1>3, <1>5, <1>6, <1>7, <1>8 DEF Team, Named
<1>10. Cardinality(new.workers) <= MaxWorkers
  <2>1. IsFiniteSet(config.workers) /\ Cardinality(config.workers) <= MaxWorkers
        /\ left \in SUBSET config.workers
    BY <1>5, BaseIs DEF FileOK, FileInv, Sound, RBody, Manned
  <2> HIDE DEF left
  <2>2. Cardinality(left) <= Cardinality(config.workers)
        /\ Cardinality(left) \in Nat /\ Cardinality(config.workers) \in Nat
    BY <2>1, FS_Subset, FS_CardinalityType
  <2>3. QED BY <1>6, <2>1, <2>2, Constants
<1>11. \A w \in new.workers : w \in config.workers
  BY <1>5, <1>6
<1>12. \A w \in panes : w \in config.workers \cup InHand(p) => w \in new.workers
  BY <1>1, <1>5, <1>6, HandIs
<1>13. Goes(p) /\ Fits(p)' /\ Spared(p)' /\ ~Starting(p)'
  BY <1>1, EndFits
<1> HIDE DEF c, left
<1>14. QED
  BY <1>1, <1>2, <1>8, <1>9, <1>10, <1>11, <1>12, <1>13, ScalerWrites DEF c

\* A team starts with FirstWorkers workers.
LEMMA CrewSize ==
  ASSUME NEW S \in SUBSET Worker, Crew(S)
  PROVE  IsFiniteSet(S) /\ Cardinality(S) = FirstWorkers /\ S # {}
<1> DEFINE f == [i \in 1..FirstWorkers |-> CHOOSE w \in S : w.index = i]
<1>1. \A i \in 1..FirstWorkers : f[i] \in S /\ f[i].index = i
  BY DEF Crew
<1>2. f \in [1..FirstWorkers -> S]
  BY <1>1
<1> HIDE DEF f
<1>3. \A w \in S : w.index \in 1..FirstWorkers /\ f[w.index] = w
  BY <1>1 DEF Crew
<1>4. f \in Bijection(1..FirstWorkers, S)
  BY <1>1, <1>2, <1>3 DEF Bijection, Injection, Surjection, IsInjective
<1>5. IsFiniteSet(1..FirstWorkers) /\ Cardinality(1..FirstWorkers) = FirstWorkers
      /\ 1 \in 1..FirstWorkers
  BY Constants, FS_Interval
<1>6. IsFiniteSet(S) /\ Cardinality(S) = FirstWorkers
  BY <1>4, <1>5, FS_Bijection DEF ExistsBijection
<1>7. QED BY <1>1, <1>5, <1>6

LEMMA RSaveStart ==
  ASSUME BaseInv, RBody, NEW p \in Proc, SaveStart(p), why' = {}
  PROVE  RBody'
<1> DEFINE c == call[p].copy
           zero(w) == [w EXCEPT !.pane = 0]
           Z == {zero(w) : w \in c.workers}
           read == [c EXCEPT !.workers = Z]
<1>1. /\ UNCHANGED members /\ UNCHANGED files /\ Goto(p, "notify")
      /\ call[p].op = "start" /\ call[p].step = "save" /\ Save(p, read, c)
  BY DEF SaveStart, At
<1>2. Turns(p, "notify")
  BY <1>1, GotoIs, StepsAre, BaseIs
<1>3. ProperStart(call[p], panes) /\ c \in Config /\ c.workers \subseteq Worker
  BY <1>1, BaseIs, CallOf, ConfigOf DEF Proper
<1>4. Crew(c.workers) /\ c.nextIndex = FirstWorkers + 1 /\ c.nextTask = 1
  BY <1>1, <1>3 DEF ProperStart
<1>5. \A w \in c.workers : /\ zero(w) \in Worker /\ zero(w).index = w.index
                          /\ zero(w).pane = 0
  BY <1>3 DEF Worker
<1>6. read.workers = Z /\ read.nextIndex = c.nextIndex
  BY <1>3 DEF Config
<1>7. SameMembers(config, read)
  BY <1>1 DEF Save, Crossed, SameLock
<1> HIDE DEF zero, read
<1>8. Z \in SUBSET Worker /\ Crew(Z)
      /\ \A w \in Z : w.pane = 0
  <2>1. \A w \in Z : w.index \in 1..FirstWorkers /\ w \in Worker /\ w.pane = 0
    BY <1>4, <1>5 DEF Crew
  <2>2. \A i \in 1..FirstWorkers : \E w \in Z : w.index = i
    BY <1>4, <1>5 DEF Crew
  <2>3. \A v, w \in Z : v.index = w.index => v = w
    BY <1>4, <1>5 DEF Crew
  <2>4. QED BY <2>1, <2>2, <2>3 DEF Crew
<1>9. config.workers = Z /\ config.nextIndex = FirstWorkers + 1
  BY <1>4, <1>6, <1>7 DEF SameMembers
<1>10. config' = c /\ c # NoTeam /\ panes' = panes /\ busy' = busy
       /\ working' = working /\ draining' = draining /\ masked' = masked
  BY <1>1, <1>4, NoCallIs DEF Save, Write, members, files, status
<1>11. Cardinality(c.workers) = FirstWorkers /\ Cardinality(Z) = FirstWorkers
       /\ c.workers # {}
  BY <1>3, <1>4, <1>8, CrewSize
<1>12. Manned'
  <2>1. c.nextIndex > FirstWorkers /\ \A w \in c.workers : w.index < c.nextIndex
    BY <1>4, Constants DEF Crew
  <2>2. Team' /\ Named'
    BY <1>4, <1>10, <1>11, <2>1 DEF Team, Named, Crew
  <2>3. writer' # "create"
    BY <1>1 DEF Save, Write, RBody, Manned
  <2>4. QED BY <1>10, <1>11, <2>2, <2>3, Constants DEF Manned
<1> HIDE DEF Z
<1>13. OnFile'
  <2>1. \A q \in Proc : InHand(q)' = InHand(q)
    <3>1. \A q \in Proc \ {p} : call'[q] = call[q]
      BY <1>2 DEF Turns, Goes
    <3>2. InHand(p)' = InHand(p)
      BY <1>2, HandIs DEF Turns, SameTeam, SameJob
    <3>3. QED BY <3>1, <3>2 DEF InHand
  <2>2. \A w \in panes : w \notin config.workers
    BY <1>8, <1>9, BaseIs DEF PanesOK, PaneInv
  <2>3. QED BY <1>10, <2>1, <2>2 DEF RBody, OnFile
<1>14. \A q \in Proc : Starting(q)' <=> Starting(q)
  <2>1. \A q \in Proc \ {p} : call'[q] = call[q]
    BY <1>2 DEF Turns, Goes
  <2>2. Starting(p)' <=> Starting(p)
    BY <1>2 DEF Starting, Turns, SameTeam, SameJob
  <2>3. QED BY <2>1, <2>2 DEF Starting
<1>15. OneStart' /\ TellsBusy'
  BY <1>10, <1>14 DEF RBody, OneStart, TellsBusy
<1>16. Starting(p)
  BY <1>1, <1>10 DEF Starting
<1>17. Fits(p)' /\ Spared(p)'
  <2>1. call'[p].op = "start" /\ call'[p].copy = c
    BY <1>1, <1>2 DEF Turns, SameTeam, SameJob
  <2>2. QED BY <1>10, <2>1
    DEF Fits, Alive, FirstOnly, InSync, Growing, Spared
<1>18. ASSUME NEW q \in Proc, q # p PROVE Fits(q)' /\ Spared(q)'
  <2>1. call'[q] = call[q] /\ Fits(q) /\ Spared(q)
    BY <1>2, <1>18 DEF RBody, Turns, Goes
  <2>2. ~Starting(q)' /\ Alive(q)' /\ FirstOnly(q)'
    BY <1>10, <1>14, <1>16, <1>18 DEF RBody, OneStart, Alive, FirstOnly
  <2>3. InSync(q)'
    <3>1. writer' \in {"up", "down"} => SameMembers(config, c) /\ writer' = writer
      BY <1>1 DEF Save, Write
    <3>2. QED BY <1>10, <2>1, <3>1 DEF Fits, InSync, SameMembers
  <2>4. Growing(q)'
    <3>1. SUFFICES ASSUME call[q].op = "up", call[q].step # "read"
                   PROVE  Growing(q)'
      BY <2>1 DEF Growing
    <3>2. ProperUp(call[q], panes, spawned) /\ Growing(q)
      BY <2>1, <3>1, BaseIs DEF Proper, Fits
    <3>3. /\ call[q].copy.nextIndex = FirstWorkers + 1
          /\ call[q].first > FirstWorkers
          /\ call[q].copy.nextIndex = call[q].first + Cardinality(call[q].added)
          /\ IsFiniteSet(call[q].added)
      BY <1>9, <3>1, <3>2 DEF Growing, ProperUp
    <3>4. Cardinality(call[q].added) \in Nat /\ call[q].first \in Nat
          /\ FirstWorkers \in Nat
      BY <3>3, FS_CardinalityType, BaseIs, CallOf, Constants
    <3>5. Cardinality(call[q].added) = 0
      BY <3>3, <3>4
    <3>6. call[q].added = {}
      BY <3>3, <3>5, FS_EmptySet
    <3>7. QED
      BY <1>4, <1>9, <1>10, <1>11, <2>1, <3>1, <3>2, <3>6 DEF Growing
  <2>5. Spared(q)'
    BY <1>10, <2>1 DEF Spared
  <2>6. QED BY <2>2, <2>3, <2>4, <2>5 DEF Fits
<1>19. QED BY <1>12, <1>13, <1>15, <1>17, <1>18 DEF RBody

\* A copy that was read stands for a team that is still there.
LEMMA Unread ==
  ASSUME BaseInv, NEW q \in Proc, call[q].copy = NoTeam
  PROVE  /\ panes \cap InHand(q) = {} /\ ~Starting(q)
         /\ call[q].op \in {"up", "down"} => call[q].step = "read"
<1>1. Proper(call[q], panes, spawned)
  BY BaseIs
<1>2. call[q].op \in {"up", "down"} => call[q].step = "read"
  BY <1>1, NoCallIs DEF Proper, ProperUp, ProperDown
<1>3. ~Starting(q)
  BY DEF Starting
<1>4. panes \cap InHand(q) = {}
  <2>1. CASE call[q].op = "up"
    BY <1>2, <2>1, HandEmpty
  <2>2. CASE call[q].op = "start"
    BY <2>2, HandIs, NoCallIs
  <2>3. QED BY <2>1, <2>2, HandIs
<1>5. QED BY <1>2, <1>3, <1>4

\* The file is written while nobody else has read it, and no pane is live.
LEMMA RAlone ==
  ASSUME BaseInv, RBody, NEW p \in Proc, Goes(p), UNCHANGED members, panes = {},
         \A q \in Proc \ {p} : /\ call[q].copy = NoTeam
                               /\ call[q].step \notin {"writeTask", "countTask"},
         Manned', Fits(p)'
  PROVE  RBody'
<1>1. panes' = {} /\ \A q \in Proc \ {p} : call'[q] = call[q]
  BY DEF members, Goes
<1>2. OnFile' /\ TellsBusy' /\ \A q \in Proc : Spared(q)'
  BY <1>1 DEF OnFile, TellsBusy, Spared
<1>3. OneStart'
  BY <1>1 DEF OneStart, Starting
<1>4. ASSUME NEW q \in Proc, q # p PROVE Fits(q)'
  <2>1. /\ call'[q] = call[q] /\ call[q].copy = NoTeam
        /\ call[q].step \notin {"writeTask", "countTask"}
    BY <1>1, <1>4
  <2>2. call[q].op \in {"up", "down"} => call[q].step = "read"
    BY <2>1, Unread
  <2>3. QED BY <2>1, <2>2 DEF Fits, Alive, FirstOnly, Starting, InSync, Growing
<1>5. QED BY <1>2, <1>3, <1>4 DEF RBody

\* The name that p takes is free.
LEMMA NameIsFree ==
  ASSUME BaseInv, RBody, NEW p \in Proc, call[p].op = "start",
         call[p].step \in {"sweep", "read"}, Taken(p) = {}
  PROVE  /\ panes = {}
         /\ \A q \in Proc \ {p} : /\ call[q].copy = NoTeam
                                  /\ call[q].step \notin {"writeTask", "countTask"}
<1>1. /\ config.workers \cap panes = {}
      /\ config # NoTeam => \A q \in Proc \ {p} : ~AtWork(q)
  BY DEF Taken
<1>2. ASSUME NEW q \in Proc \ {p}
      PROVE  /\ call[q].copy = NoTeam
             /\ call[q].step \notin {"writeTask", "countTask"}
  <2>1. CASE config = NoTeam
    BY <2>1 DEF RBody, Fits, Alive
  <2>2. CASE config # NoTeam
    BY <1>1, <2>2, HoldsIs, TwoLocks DEF AtWork
  <2>3. QED BY <2>1, <2>2
<1>3. panes \cap InHand(p) = {}
  BY HandEmpty
<1>4. \A q \in Proc : panes \cap InHand(q) = {}
  BY <1>2, <1>3, Unread
<1>5. QED BY <1>1, <1>2, <1>4 DEF RBody, OnFile

LEMMA NoTeamManned ==
  ASSUME RBody, NEW p \in Proc, call[p].op # "create", Write(p, NoTeam)
  PROVE  Manned'
<1>1. config' = NoTeam /\ writer' # "create"
  BY DEF Write, RBody, Manned
<1>2. QED BY <1>1, NoCallIs, FS_EmptySet, Constants DEF Manned, Team, Named

LEMMA RCleanUp ==
  ASSUME BaseInv, RBody, NEW p \in Proc, CleanUp(p), why' = {}
  PROVE  RBody'
<1>1. /\ UNCHANGED members /\ call[p].op \in {"start", "stop"}
      /\ call[p].step = "clean" /\ Write(p, NoTeam) /\ End(p)
      /\ \A q \in Proc \ {p} : ~AtWork(q)
      /\ Crossed(p, call[p].copy) = {}
  BY DEF CleanUp, RemoveDirectory
<1>2. ASSUME NEW q \in Proc \ {p}
      PROVE  /\ call[q].copy = NoTeam
             /\ call[q].step \notin {"writeTask", "countTask"}
             /\ panes \cap InHand(q) = {}
  BY <1>1, HoldsIs, TwoLocks, Unread DEF AtWork
<1>3. panes \cap (config.workers \cup InHand(p)) = {}
  <2>1. SameMembers(config, call[p].copy)
    BY <1>1 DEF Crossed, SameLock
  <2>2. panes \cap call[p].copy.workers = {}
    BY <1>1, BaseIs DEF Proper, ProperStart, ProperStop
  <2>3. QED BY <1>1, <2>1, <2>2, HandIs DEF SameMembers
<1>4. panes = {}
  BY <1>2, <1>3 DEF RBody, OnFile
<1>5. Manned' /\ Goes(p) /\ Fits(p)'
  BY <1>1, NoTeamManned, EndFits
<1>6. QED BY <1>1, <1>2, <1>4, <1>5, RAlone

LEMMA RSweep ==
  ASSUME BaseInv, RBody, NEW p \in Proc, Sweep(p), why' = {}
  PROVE  RBody'
<1>1. UNCHANGED members /\ call[p].op = "start" /\ call[p].step = "sweep"
      /\ (Goto(p, "read") \/ End(p))
  BY DEF Sweep, At
<1>2. call[p].copy = NoTeam
  BY <1>1, BaseIs DEF Proper, ProperStart
<1>3. Goes(p) /\ Fits(p)' /\ Spared(p)' /\ ~Starting(p)'
  <2>1. CASE End(p)
    BY <2>1, EndFits
  <2>2. CASE Goto(p, "read")
    <3>1. Goes(p) /\ call'[p].op = "start" /\ call'[p].step = "read"
          /\ call'[p].copy = NoTeam
      BY <1>1, <1>2, <2>2, GotoIs, StepsAre, BaseIs DEF Turns, SameJob, SameTeam
    <3>2. QED
      BY <3>1 DEF Fits, Alive, FirstOnly, Starting, InSync, Growing, Spared
  <2>3. QED BY <1>1, <2>1, <2>2
<1>4. CASE Write(p, NoTeam) /\ RemoveDirectory(p, Taken(p))
  <2>1. Taken(p) = {}
    BY <1>4 DEF RemoveDirectory
  <2>2. /\ panes = {}
        /\ \A q \in Proc \ {p} :
             /\ call[q].copy = NoTeam
             /\ call[q].step \notin {"writeTask", "countTask"}
    BY <1>1, <2>1, NameIsFree
  <2>3. Manned'
    BY <1>1, <1>4, NoTeamManned
  <2>4. QED BY <1>1, <1>3, <2>2, <2>3, RAlone
<1>5. CASE UNCHANGED <<file, tasks, files, lock, why>>
  <2>1. SameFile /\ panes' = panes /\ busy' = busy /\ UNCHANGED status
    BY <1>1, <1>5, FileSame DEF files, members
  <2>2. panes \cap InHand(p) = {}
    BY <1>1, HandEmpty
  <2>3. QED BY <1>3, <2>1, <2>2, RStep
<1>6. QED BY <1>4, <1>5 DEF Sweep

LEMMA RInitTeam ==
  ASSUME BaseInv, RBody, NEW p \in Proc, InitTeam(p), why' = {}
  PROVE  RBody'
<1>1. /\ UNCHANGED members /\ call[p].op = "start" /\ call[p].step = "read"
      /\ Taken(p) = {}
  BY DEF InitTeam, At
<1>2. /\ panes = {}
      /\ \A q \in Proc \ {p} : /\ call[q].copy = NoTeam
                               /\ call[q].step \notin {"writeTask", "countTask"}
  BY <1>1, NameIsFree
<1>3. /\ Goes(p) /\ config' = FirstTeam /\ call'[p].copy = FirstTeam
      /\ call'[p].op = "start" /\ writer' # "create"
  BY <1>1, InitTeamIs DEF Write, SameJob, RBody, Manned
<1>4. /\ FirstTeam \in Config /\ Crew(FirstTeam.workers)
      /\ FirstTeam.nextIndex = FirstWorkers + 1
      /\ Cardinality(FirstTeam.workers) <= MaxWorkers
  BY FirstTeamIs
<1>5. FirstTeam.workers # {}
  <2>1. FirstTeam.workers \in SUBSET Worker
    BY <1>4, ConfigOf
  <2> DEFINE S == FirstTeam.workers
  <2> HIDE DEF S
  <2>2. S \in SUBSET Worker /\ Crew(S)
    BY <1>4, <2>1 DEF S
  <2>3. S # {}
    BY <2>2, CrewSize
  <2>4. QED BY <2>3 DEF S
<1>6. FirstTeam.nextIndex > FirstWorkers
      /\ \A w \in FirstTeam.workers : w.index < FirstTeam.nextIndex
  BY <1>4, Constants DEF Crew
<1>7. Manned'
  BY <1>3, <1>4, <1>5, <1>6 DEF Manned, Team, Named, Crew
<1>8. Fits(p)'
  <2>1. config' # NoTeam /\ call'[p].copy.workers = config'.workers
    BY <1>3, <1>5, NoCallIs
  <2>2. QED BY <1>3, <2>1 DEF Fits, Alive, FirstOnly, InSync, Growing
<1>9. QED BY <1>1, <1>2, <1>3, <1>7, <1>8, RAlone

\* A worker's status file says that it works until its own work is done, or
\* it is overwritten.
LEMMA RWork ==
  ASSUME BaseInv, LBody, RBody, NEW w \in panes,
         BeginWork(w) \/ FinishWork(w) \/ \E p \in Proc : RecordIssue(p, w)
  PROVE  RBody'
<1>1. /\ config' = config /\ writer' = writer /\ panes' = panes
      /\ call' = call
  BY DEF BeginWork, FinishWork, RecordIssue, file, members
<1>2. \A v \in panes : v.index = w.index \/ v.pane = w.pane => v = w
  <2>1. \A v \in panes : v.pane > 0 /\ v.pane \in Nat
    BY BaseIs DEF PanesOK, PaneInv, Worker
  <2>2. \A v \in panes : v.index = w.index => v = w
    BY <2>1, NamesAreUnique
  <2>3. QED BY <2>2, BaseIs DEF PanesOK, PaneInv
<1>3. ASSUME NEW v \in panes, v.pane \in busy', v.index \notin masked'
      PROVE  \/ v = w /\ v.index \in working'
             \/ /\ v.pane \in busy /\ v.index \notin masked
                /\ v.index \in working => v.index \in working'
                /\ v.index \in draining => v.index \in draining'
  <2>1. CASE BeginWork(w)
    BY <1>2, <1>3, <2>1 DEF BeginWork
  <2>2. CASE FinishWork(w)
    BY <1>2, <1>3, <2>2 DEF FinishWork
  <2>3. CASE \E p \in Proc : RecordIssue(p, w)
    BY <1>3, <2>3 DEF RecordIssue, members
  <2>4. QED BY <2>1, <2>2, <2>3
<1>4. TellsBusy'
  BY <1>1, <1>3 DEF RBody, TellsBusy
<1>5. Manned' /\ OneStart' /\ OnFile'
  BY <1>1 DEF RBody, Manned, Team, Named, OneStart, Starting, OnFile, InHand
<1>6. ASSUME NEW p \in Proc PROVE Fits(p)'
  BY <1>1
  DEF RBody, Fits, Alive, FirstOnly, Starting, InSync, Growing, SameMembers
<1>7. ASSUME NEW p \in Proc PROVE Spared(p)'
  BY <1>1, <1>3 DEF RBody, Spared
<1>8. QED BY <1>4, <1>5, <1>6, <1>7 DEF RBody

LEMMA RStays ==
  ASSUME RBody, UNCHANGED file, UNCHANGED panes, UNCHANGED busy,
         UNCHANGED status, UNCHANGED call
  PROVE  RBody'
<1>1. /\ config' = config /\ writer' = writer /\ panes' = panes /\ busy' = busy
      /\ working' = working /\ draining' = draining /\ masked' = masked
      /\ call' = call
  BY DEF file, status
<1>2. Manned' /\ OneStart' /\ OnFile' /\ TellsBusy'
  BY <1>1
  DEF RBody, Manned, Team, Named, OneStart, Starting, OnFile, InHand, TellsBusy
<1>3. ASSUME NEW p \in Proc PROVE Fits(p)' /\ Spared(p)'
  BY <1>1
  DEF RBody, Fits, Alive, FirstOnly, Starting, InSync, Growing, Spared,
      SameMembers
<1>4. QED BY <1>2, <1>3 DEF RBody

LEMMA RNext ==
  ASSUME BaseInv, LInv, RInv, [Next]_vars
  PROVE  RInv'
<1> SUFFICES ASSUME why' = {} PROVE RBody'
  BY DEF RInv
<1>1. why = {} /\ RBody
  BY WhyGrows DEF RInv
<1>2. LBody
  BY <1>1 DEF LInv, Locked
<1>3. CASE UNCHANGED vars
  BY <1>1, <1>3, RStays DEF vars, file, status
<1>4. ASSUME NEW p \in Proc, BeginCreate(p) \/ BeginUp(p) \/ BeginDown(p)
               \/ BeginStart(p) \/ BeginStop(p)
      PROVE  RBody'
  BY <1>1, <1>4, RBegins
<1>5. ASSUME NEW p \in Proc, LockTasks(p) \/ ReadTask(p)
               \/ WriteTask(p) \/ CountTask(p) \/ TaskTimeout(p)
      PROVE  RBody'
  BY <1>1, <1>5, RLockTasks, RReadTask, RWriteTask, RCountTask, RTaskTimeout
<1>6. ASSUME NEW p \in Proc, ReadUp(p) \/ OpenPane(p) \/ NotifyNew(p)
               \/ SaveUp(p) \/ Undo(p) \/ Revert(p)
      PROVE  RBody'
  BY <1>1, <1>2, <1>6, RReadUp, ROpenPane, RNotifyNew, RSaveUp, RUndo, RRevert
<1>7. ASSUME NEW p \in Proc, Pick(p) \/ Drain(p) \/ EndWait(p)
               \/ StopWaiting(p) \/ TearDown(p) \/ SaveDown(p)
      PROVE  RBody'
  BY <1>1, <1>2, <1>7, RPick, RDrain, RWaits, RTearDown, RSaveDown
<1>8. ASSUME NEW p \in Proc, Sweep(p) \/ InitTeam(p) \/ CleanUp(p)
               \/ OpenSession(p) \/ SaveStart(p) \/ NotifyAll(p)
      PROVE  RBody'
  BY <1>1, <1>8, RSweep, RInitTeam, RCleanUp, ROpenSession, RSaveStart, RSaves
<1>9. ASSUME NEW p \in Proc, ReadStop(p) \/ SaveStop(p) \/ CloseAll(p)
      PROVE  RBody'
  BY <1>1, <1>9, RReadStop, RSaves, RCloseAll
<1>10. ASSUME NEW p \in Proc, Kill(p) PROVE FALSE
  BY <1>10 DEF Kill
<1>11. ASSUME NEW w \in panes, \/ BeginWork(w) \/ FinishWork(w)
                                \/ \E p \in Proc : RecordIssue(p, w)
       PROVE  RBody'
  BY <1>1, <1>2, <1>11, RWork
<1>12. ASSUME NEW l \in Lock, BreakLock(l)
       PROVE  RBody'
  BY <1>1, <1>12, RStays DEF BreakLock, members, files
<1>13. CASE WritePhase
  BY <1>1, <1>13, RStays DEF WritePhase, members
<1>14. QED
  BY <1>3, <1>4, <1>5, <1>6, <1>7, <1>8, <1>9, <1>10, <1>11, <1>12, <1>13
  DEF Next

LEMMA RInit ==
  ASSUME Init
  PROVE  RInv
<1> DEFINE S == {[index |-> i, pane |-> i] : i \in 1..FirstWorkers}
<1>1. /\ S \subseteq Worker /\ IsFiniteSet(S) /\ Cardinality(S) = FirstWorkers
      /\ \A w \in S : w.index \in 1..FirstWorkers /\ w.pane = w.index
      /\ \A v, w \in S : v.pane = w.pane => v = w
      /\ S # {}
  BY FirstPanesAre
<1>2. panes = {} \/ panes = S
  BY DEF Init
<1> HIDE DEF S
<1>3. \A p \in Proc : /\ call[p].op = "none" /\ call[p].step = "idle"
                      /\ call[p].copy = NoTeam
  BY NoCallIs DEF Init
<1>4. config.workers = panes /\ writer = "none" /\ busy = {}
  BY NoCallIs DEF Init
<1>5. Manned
  <2>1. CASE panes = {}
    BY <1>4, <2>1, NoCallIs, FS_EmptySet, Constants
    DEF Init, Manned, Team, Named
  <2>2. CASE panes = S
    <3>1. config.nextIndex = FirstWorkers + 1
      BY <1>1, <2>2 DEF Init
    <3>2. Team
      BY <1>1, <1>4, <2>2, <3>1, Constants DEF Team
    <3>3. Named
      BY <1>1, <1>4, <2>2 DEF Named
    <3>4. QED BY <1>1, <1>4, <2>2, <3>2, <3>3, Constants DEF Manned
  <2>3. QED BY <1>2, <2>1, <2>2
<1>6. OnFile /\ OneStart /\ TellsBusy
  BY <1>3, <1>4 DEF OnFile, OneStart, Starting, TellsBusy
<1>7. ASSUME NEW p \in Proc PROVE Fits(p) /\ Spared(p)
  BY <1>3, <1>4
  DEF Fits, Alive, FirstOnly, Starting, InSync, Growing, Spared
<1>8. QED BY <1>5, <1>6, <1>7 DEF RInv, RBody

LEMMA RHolds == Spec => [](BaseInv /\ LInv /\ RInv)
<1>1. Init => RInv
  BY RInit
<1>2. BaseInv /\ LInv /\ RInv /\ [Next]_vars => RInv'
  BY RNext
<1>3. QED BY <1>1, <1>2, LHolds, PTL DEF Spec

-----------------------------------------------------------------------------
(* The team as its users count on it.                                      *)

LEMMA FewSettled ==
  ASSUME BaseInv, LBody, RBody
  PROVE  Cardinality(Settled) <= MaxWorkers
<1>1. /\ IsFiniteSet(config.workers) /\ Cardinality(config.workers) \in Nat
      /\ Cardinality(config.workers) <= MaxWorkers
  BY BaseIs, FS_CardinalityType DEF FileOK, FileInv, Sound, RBody, Manned
<1>2. ASSUME NEW w \in Settled
      PROVE  \/ w \in config.workers
             \/ \E p \in Proc : /\ call[p].op = "up" /\ call[p].step # "read"
                                /\ w = call[p].fresh
  <2>1. w \in panes
        /\ \A p \in Proc : Starting(p) /\ w \notin config.workers =>
                             w \notin call[p].copy.workers
    BY HandIs DEF Settled, Starting
  <2>2. QED BY <2>1, PaneIs
<1>3. CASE \E p \in Proc : call[p].op = "up" /\ call[p].step # "read"
  <2>1. PICK p \in Proc : call[p].op = "up" /\ call[p].step # "read"
    BY <1>3
  <2>2. \A q \in Proc : call[q].op = "up" => q = p
    BY <2>1, OneScales
  <2>3. Settled \subseteq config.workers \cup {call[p].fresh}
    BY <1>2, <2>2
  <2>4. Cardinality(config.workers) + call[p].left <= MaxWorkers
    BY <2>1 DEF RBody, Fits, Growing
  <2>5. call[p].left > 0 /\ call[p].left \in Nat
    BY <2>1, BaseIs, CallOf DEF Proper, ProperUp
  <2>6. /\ IsFiniteSet(config.workers \cup {call[p].fresh})
        /\ Cardinality(config.workers \cup {call[p].fresh}) \in Nat
        /\ Cardinality(config.workers \cup {call[p].fresh})
             <= Cardinality(config.workers) + 1
    <3>1. CASE call[p].fresh \in config.workers
      <4>1. config.workers \cup {call[p].fresh} = config.workers
        BY <3>1
      <4>2. QED BY <1>1, <4>1
    <3>2. CASE call[p].fresh \notin config.workers
      <4>1. /\ IsFiniteSet(config.workers \cup {call[p].fresh})
            /\ Cardinality(config.workers \cup {call[p].fresh})
                 = Cardinality(config.workers) + 1
        BY <1>1, <3>2, FS_AddElement
      <4>2. QED BY <1>1, <4>1
    <3>3. QED BY <3>1, <3>2
  <2>7. Cardinality(Settled)
          <= Cardinality(config.workers \cup {call[p].fresh})
        /\ Cardinality(Settled) \in Nat
    BY <2>3, <2>6, FS_Subset, FS_CardinalityType
  <2>8. QED BY <1>1, <2>4, <2>5, <2>6, <2>7, Constants
<1>4. CASE ~\E p \in Proc : call[p].op = "up" /\ call[p].step # "read"
  <2>1. Settled \subseteq config.workers
    BY <1>2, <1>4
  <2>2. Cardinality(Settled) <= Cardinality(config.workers)
        /\ Cardinality(Settled) \in Nat
    BY <1>1, <2>1, FS_Subset, FS_CardinalityType
  <2>3. QED BY <1>1, <2>2, Constants
<1>5. QED BY <1>3, <1>4

\* For any numbers of processes, workers and operations: as long as no change
\* was written over and nothing was killed, every live pane can be found again,
\* no two workers share a name, and the team keeps its size, through scalings,
\* starts and shutdowns that run into each other.
THEOREM RosterHolds == Spec => []Roster
<1>1. ASSUME BaseInv, LInv, RInv PROVE Roster
  <2> SUFFICES ASSUME why = {}
               PROVE  /\ OnFile
                      /\ \A v, w \in panes \cup config.workers :
                           v.index = w.index /\ 0 \notin {v.pane, w.pane}
                             => v = w
                      /\ Cardinality(Settled) <= MaxWorkers
                      /\ Cardinality(config.workers) <= MaxWorkers
                      /\ config # NoTeam => config.workers # {}
    BY DEF Roster, OnFile
  <2>1. LBody /\ RBody
    BY <1>1 DEF LInv, Locked, RInv
  <2>2. OnFile
    BY <2>1 DEF RBody
  <2>3. \A v, w \in panes \cup config.workers :
          v.index = w.index /\ 0 \notin {v.pane, w.pane} => v = w
    BY <1>1, <2>1, NamesAreUnique
  <2>4. Cardinality(Settled) <= MaxWorkers
    BY <1>1, <2>1, FewSettled
  <2>5. /\ Cardinality(config.workers) <= MaxWorkers
        /\ config # NoTeam => config.workers # {}
    BY <2>1 DEF RBody, Manned, Team
  <2>6. QED BY <2>2, <2>3, <2>4, <2>5
<1>2. QED BY <1>1, RHolds, PTL

\* For any numbers of processes, workers and operations: a scaleDown by number
\* drains none that was at work when it was picked, and no wait but one that times
\* out ends while a worker is at work on what it began after it was told to
\* drain, although workers write their status files while others are scaled.
THEOREM Spares == Spec => SparesTheBusy
<1> DEFINE A == \A p \in Proc : \A w \in call[p].targets \cap panes :
       why = {} /\ w.pane \in busy =>
         /\ Drain(p) /\ call[p].how = "counted" => w.pane \notin call[p].occupied
         /\ EndWait(p) /\ w.index \notin masked => w.pane \in call[p].occupied
<1>1. BaseInv /\ LInv /\ RInv => A
  <2>1. SUFFICES ASSUME RBody, NEW p \in Proc,
                        NEW w \in call[p].targets \cap panes, w.pane \in busy
                 PROVE  /\ Drain(p) /\ call[p].how = "counted" =>
                             w.pane \notin call[p].occupied
                        /\ EndWait(p) /\ w.index \notin masked =>
                             w.pane \in call[p].occupied
    BY DEF RInv
  <2>2. Spared(p)
    BY <2>1 DEF RBody
  <2>3. Drain(p) /\ call[p].how = "counted" => w.pane \notin call[p].occupied
    BY <2>1, <2>2 DEF Drain, At, Spared
  <2>4. EndWait(p) => w.index \notin working
    BY <2>1 DEF EndWait, Drained
  <2>5. EndWait(p) /\ w.index \notin masked => w.pane \in call[p].occupied
    BY <2>1, <2>2, <2>4 DEF EndWait, At, Spared
  <2>6. QED BY <2>3, <2>5
<1>2. QED BY <1>1, RHolds, PTL DEF SparesTheBusy
=============================================================================
