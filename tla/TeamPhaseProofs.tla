--------------------------- MODULE TeamPhaseProofs ---------------------------
(***************************************************************************)
(* What holds of TeamPhase for any number of polling processes, any limit  *)
(* on fix attempts and any number of killed polls.                         *)
(***************************************************************************)
EXTENDS TeamPhase, TLAPS

Bounded == {s \in PhaseState : s.attempts <= MaxFix}

-----------------------------------------------------------------------------
(* The transition path.                                                    *)

\* Every path is a short sequence of phases, and none but a path to
\* "complete" goes there.
LEMMA PathType ==
  ASSUME NEW from \in Phase, NEW to \in Phase
  PROVE  /\ Path(from, to) \in Seq(Phase)
         /\ \A i \in 1..Len(Path(from, to)) :
              Path(from, to)[i] = "complete" => to = "complete"
<1> DEFINE Good(path) ==
      /\ path \in Seq(Phase)
      /\ \A i \in 1..Len(path) : path[i] = "complete" => to = "complete"
<1>1. CASE from = to
  BY <1>1 DEF Path
<1>2. CASE from # to /\ to = "team-exec"
  <2>1. Path(from, to) \in {<<"team-prd", "team-exec">>, <<"team-exec">>, <<>>}
    BY <1>2 DEF Path, PathToExec
  <2>2. /\ Good(<<"team-prd", "team-exec">>)
        /\ Good(<<"team-exec">>)
        /\ Good(<<>>)
    BY DEF Phase, Running
  <2> QED
    BY <2>1, <2>2
<1>v. /\ PathToVerify(from) \in Seq(Phase)
      /\ \A i \in 1..Len(PathToVerify(from)) :
           PathToVerify(from)[i] # "complete"
  <2> DEFINE Short(path) ==
        /\ path \in Seq(Phase)
        /\ \A i \in 1..Len(path) : path[i] # "complete"
  <2>1. PathToVerify(from) \in {<<"team-prd", "team-exec", "team-verify">>,
                               <<"team-exec", "team-verify">>,
                               <<"team-verify">>, <<>>}
    BY DEF PathToVerify
  <2>2. /\ Short(<<"team-prd", "team-exec", "team-verify">>)
        /\ Short(<<"team-exec", "team-verify">>)
        /\ Short(<<"team-verify">>)
        /\ Short(<<>>)
    BY DEF Phase, Running
  <2> QED
    BY <2>1, <2>2
<1>3. CASE from # to /\ to = "team-verify"
  BY <1>3, <1>v DEF Path
<1>4. CASE from # to /\ to \in {"team-fix", "complete", "failed"}
  <2>1. Path(from, to) = PathBeyondVerify(from, to)
    BY <1>4 DEF Path
  <2>2. PathBeyondVerify(from, to)
          \in {PathToVerify(from) \o <<to>>, <<to>>, <<>>}
    BY DEF PathBeyondVerify
  <2>3. Good(PathToVerify(from) \o <<to>>)
    <3> DEFINE v == PathToVerify(from)
    <3>1. v \in Seq(Phase) /\ \A i \in 1..Len(v) : v[i] # "complete"
      BY <1>v
    <3> HIDE DEF v
    <3>2. Good(v \o <<to>>)
      BY <3>1
    <3> QED
      BY <3>2 DEF v
  <2>4. Good(<<to>>) /\ Good(<<>>)
    OBVIOUS
  <2> QED
    BY <2>1, <2>2, <2>3, <2>4
<1>5. CASE from # to /\ to \in {"team-plan", "team-prd", "cancelled"}
  BY <1>5 DEF Path
<1> QED
  BY <1>1, <1>2, <1>3, <1>4, <1>5 DEF Phase, Running, Terminal

\* The whole table of paths, also from the phases no file has held before.
LEMMA TableLegal ==
  ASSUME NEW from \in Running, NEW to \in Phase
  PROVE  LegalPath(from, to)
<1> USE DEF LegalPath
<1>1. CASE from = to
  BY <1>1 DEF Path
<1>2. CASE from # to /\ to = "team-exec"
  BY <1>2 DEF Path, PathToExec, Running, Moves
<1>3. CASE from # to /\ to = "team-verify"
  BY <1>3 DEF Path, PathToVerify, Running, Moves
<1>4. CASE from # to /\ to \in {"team-fix", "complete", "failed"}
  <2>1. Path(from, to) = PathBeyondVerify(from, to)
    BY <1>4 DEF Path
  <2>2. CASE to = "team-fix"
    BY <1>4, <2>1, <2>2 DEF PathBeyondVerify, PathToVerify, Running, Moves
  <2>3. CASE to = "complete"
    BY <1>4, <2>1, <2>3 DEF PathBeyondVerify, PathToVerify, Running, Moves
  <2>4. CASE to = "failed"
    BY <1>4, <2>1, <2>4 DEF PathBeyondVerify, PathToVerify, Running, Moves
  <2> QED
    BY <1>4, <2>2, <2>3, <2>4
<1>5. CASE from # to /\ to \in {"team-plan", "team-prd", "cancelled"}
  BY <1>5 DEF Path
<1> QED
  BY <1>1, <1>2, <1>3, <1>4, <1>5 DEF Phase, Running, Terminal

-----------------------------------------------------------------------------
(* Walking along it.                                                       *)

\* One step keeps the attempts within the limit and enters "complete" only
\* if the path does.
LEMMA AlongBounded ==
  ASSUME NEW s \in Bounded, NEW path \in Seq(Phase), NEW i \in Nat \ {0}
  PROVE  /\ Along(s, path, i) \in Bounded
         /\ Along(s, path, i).phase = "complete" =>
              \/ s.phase = "complete"
              \/ \E j \in 1..Len(path) : path[j] = "complete"
<1> USE MaxFixAssumption
<1>1. CASE i > Len(path) \/ s.phase \in Terminal
  BY <1>1 DEF Along
<1>2. CASE i <= Len(path) /\ s.phase \notin Terminal
  <2>1. i \in 1..Len(path) /\ path[i] \in Phase
    BY <1>2
  <2>2. Along(s, path, i) = IF s.phase = path[i] THEN s ELSE Moved(s, path[i])
    BY <1>2 DEF Along
  <2>3. /\ Moved(s, path[i]) \in Bounded
        /\ Moved(s, path[i]).phase = "complete" => path[i] = "complete"
    BY <2>1 DEF Moved, Bounded, PhaseState, Phase, Running, Terminal
  <2> QED
    BY <2>1, <2>2, <2>3
<1> QED
  BY <1>1, <1>2

\* The same of a whole walk.
LEMMA WalkedBounded ==
  ASSUME NEW s \in Bounded, NEW path \in Seq(Phase)
  PROVE  /\ Walked(s, path) \in Bounded
         /\ Walked(s, path).phase = "complete" =>
              \/ s.phase = "complete"
              \/ \E j \in 1..Len(path) : path[j] = "complete"
<1> DEFINE a == Along(s, path, 1)
           b == Along(a, path, 2)
           c == Along(b, path, 3)
           d == Along(c, path, 4)
           Good(x) == /\ x \in Bounded
                      /\ x.phase = "complete" =>
                           \/ s.phase = "complete"
                           \/ \E j \in 1..Len(path) : path[j] = "complete"
<1>1. Good(a)
  BY AlongBounded
<1>2. Good(b)
  <2> HIDE DEF a
  <2> QED
    BY <1>1, AlongBounded
<1>3. Good(c)
  <2> HIDE DEF b
  <2> QED
    BY <1>2, AlongBounded
<1>4. Good(d)
  <2> HIDE DEF c
  <2> QED
    BY <1>3, AlongBounded
<1> QED
  BY <1>4 DEF Walked

\* What the monitor makes of a phase file within the limit is within it, and
\* complete only if the file or the target was.
LEMMA ReconciledBounded ==
  ASSUME NEW s \in Bounded, NEW target \in Phase
  PROVE  /\ Reconciled(s, target) \in Bounded
         /\ Reconciled(s, target).phase = "complete" =>
              s.phase = "complete" \/ target = "complete"
<1>1. CASE s.phase = target \/ (s.phase \in Terminal /\ target \in Terminal)
  BY <1>1 DEF Reconciled
<1>2. CASE s.phase # target /\ s.phase \in Terminal /\ target \notin Terminal
  BY <1>2, MaxFixAssumption DEF Reconciled, Bounded, PhaseState
<1>3. CASE s.phase # target /\ s.phase \notin Terminal
  <2>1. Reconciled(s, target) = Walked(s, Path(s.phase, target))
    BY <1>3 DEF Reconciled
  <2>2. s.phase \in Phase
    BY DEF Bounded, PhaseState
  <2> QED
    BY <2>1, <2>2, PathType, WalkedBounded
<1> QED
  BY <1>1, <1>2, <1>3

\* The target the task counts give, and when it is "complete".
LEMMA TargetType ==
  ASSUME NEW view \in SUBSET Kind, NEW stall \in BOOLEAN
  PROVE  /\ Target(view, stall) \in Phase
         /\ Target(view, stall) = "complete" => view = {}
<1>1. CASE "open" \in view
  BY <1>1 DEF Target, Phase, Running, Terminal
<1>2. CASE "open" \notin view /\ "failed" \in view
  BY <1>2 DEF Target, Phase, Running, Terminal
<1>3. CASE view = {"unverified"}
  BY <1>3 DEF Target, Phase, Running, Terminal
<1>4. CASE view = {}
  BY <1>4 DEF Target, Phase, Running, Terminal
<1> QED
  BY <1>1, <1>2, <1>3, <1>4 DEF Kind

-----------------------------------------------------------------------------
(* The invariant.                                                          *)

PollInv ==
  /\ poll \in [Monitor -> [step : Step, view : SUBSET Kind, stall : BOOLEAN,
                           next : Bounded]]
  /\ file \in Bounded

IInv == TypeOK /\ PollInv

LEMMA InitIInv == Init => IInv
<1> SUFFICES ASSUME Init PROVE IInv
  OBVIOUS
<1>1. DefaultPhase \in Bounded
  BY MaxFixAssumption
     DEF DefaultPhase, Bounded, PhaseState, Phase, Running, Terminal
<1>2. NoPoll \in [step : Step, view : SUBSET Kind, stall : BOOLEAN,
                 next : Bounded]
  BY <1>1 DEF NoPoll, Step
<1>3. PollInv
  BY <1>1, <1>2 DEF Init, PollInv
<1>4. root \in Root
  BY DEF Init, Root
<1> QED
  BY <1>3, <1>4
     DEF Init, IInv, TypeOK, PollInv, AnyKind, Kind, Bounded, Poll

LEMMA NextIInv == IInv /\ [Next]_vars => IInv'
<1> SUFFICES ASSUME IInv, [Next]_vars
             PROVE  IInv'
  OBVIOUS
<1> USE MaxFixAssumption DEF IInv
<1> DEFINE BoundedPoll == [step : Step, view : SUBSET Kind, stall : BOOLEAN,
                           next : Bounded]
<1>0. DefaultPhase \in Bounded /\ NoPoll \in BoundedPoll
  BY DEF DefaultPhase, NoPoll, Bounded, PhaseState, Phase, Running, Terminal,
     Step
<1>a. BoundedPoll \subseteq Poll
  BY DEF Bounded, Poll
<1>1. CASE Work
  <2>1. tasks' \subseteq AnyKind
    BY <1>1 DEF Work, CreateTask, FinishTask, ChangeRequirement, TypeOK,
       AnyKind, Kind
  <2>2. UNCHANGED <<file, root, poll, overlapped, crashes>>
    BY <1>1 DEF Work, CreateTask, FinishTask, ChangeRequirement, Environment
  <2> QED
    BY <2>1, <2>2 DEF TypeOK, PollInv
<1>2. ASSUME NEW m \in Monitor, List(m) \/ Relist(m)
      PROVE  IInv'
  <2>1. tasks \cap Kind \in SUBSET Kind
    OBVIOUS
  <2>2. poll' \in [Monitor -> BoundedPoll]
    <3> DEFINE n == [step |-> "listed", view |-> tasks \cap Kind,
                     stall |-> FALSE, next |-> DefaultPhase]
    <3>1. n \in BoundedPoll
      BY <1>0, <2>1 DEF Step
    <3>2. poll' = [poll EXCEPT ![m] = n]
      BY <1>2 DEF List, Relist
    <3> HIDE DEF n
    <3> QED
      BY <3>1, <3>2 DEF PollInv
  <2>3. overlapped' \in BOOLEAN /\ UNCHANGED <<tasks, file, root, crashes>>
    BY <1>2 DEF List, Relist, TypeOK
  <2> QED
    BY <1>a, <2>2, <2>3 DEF TypeOK, PollInv
<1>3. ASSUME NEW m \in Monitor, Scan(m)
      PROVE  IInv'
  <2>1. poll[m].view \in SUBSET Kind
    BY DEF PollInv
  <2>2. poll' \in [Monitor -> BoundedPoll]
    <3>1. PICK dead \in BOOLEAN :
            poll' = [poll EXCEPT ![m] =
                       [step |-> "scanned", view |-> poll[m].view,
                        stall |-> PromptMode /\ dead /\ "open" \in poll[m].view,
                        next |-> DefaultPhase]]
      BY <1>3 DEF Scan
    <3>2. (PromptMode /\ dead /\ "open" \in poll[m].view) \in BOOLEAN
      BY ModeAssumption
    <3> QED
      BY <1>0, <2>1, <3>1, <3>2 DEF PollInv, Step
  <2>3. UNCHANGED <<tasks, file, root, overlapped, crashes>>
    BY <1>3 DEF Scan
  <2> QED
    BY <1>a, <2>2, <2>3 DEF TypeOK, PollInv
<1>4. ASSUME NEW m \in Monitor, Decide(m)
      PROVE  IInv'
  <2>1. Reconciled(file, Target(poll[m].view, poll[m].stall)) \in Bounded
    BY TargetType, ReconciledBounded DEF PollInv
  <2>2. poll' \in [Monitor -> BoundedPoll]
    BY <1>4, <2>1 DEF Decide, PollInv, Step
  <2>3. UNCHANGED <<tasks, file, root, overlapped, crashes>>
    BY <1>4 DEF Decide
  <2> QED
    BY <1>a, <2>2, <2>3 DEF TypeOK, PollInv
<1>5. ASSUME NEW m \in Monitor, WritePhase(m)
      PROVE  IInv'
  <2>1. poll[m].next \in Bounded /\ file' = poll[m].next
    BY <1>5 DEF WritePhase, PollInv
  <2>2. poll' \in [Monitor -> BoundedPoll]
    BY <1>5 DEF WritePhase, PollInv, Step
  <2>3. UNCHANGED <<tasks, root, overlapped, crashes>>
    BY <1>5 DEF WritePhase
  <2> QED
    BY <1>a, <2>1, <2>2, <2>3 DEF TypeOK, PollInv, Bounded
<1>6. ASSUME NEW m \in Monitor, Sync(m) \/ Crash(m)
      PROVE  IInv'
  <2>1. poll' \in [Monitor -> BoundedPoll]
    BY <1>0, <1>6 DEF Sync, Crash, PollInv
  <2>2. root' \in Root
    <3>1. \A x \in Terminal : [active |-> FALSE, phase |-> x] \in Root
      BY DEF Root
    <3>2. root \in Root
      BY DEF TypeOK
    <3> QED
      BY <1>6, <3>1, <3>2 DEF Sync, Crash
  <2>3. crashes' \in Nat /\ UNCHANGED <<tasks, file, overlapped>>
    BY <1>6 DEF Sync, Crash, TypeOK
  <2> QED
    BY <1>a, <2>1, <2>2, <2>3 DEF TypeOK, PollInv
<1>7. CASE UNCHANGED vars
  BY <1>7 DEF vars, TypeOK, PollInv
<1> QED
  BY <1>1, <1>2, <1>3, <1>4, <1>5, <1>6, <1>7 DEF Next, Advance

LEMMA Invariant == Spec => []IInv
  BY InitIInv, NextIInv, PTL DEF Spec

-----------------------------------------------------------------------------
(* Theorems.                                                               *)

\* Every reachable state of the phase files and the polls is well typed.
THEOREM TypeCorrect == Spec => []TypeOK
  BY Invariant, PTL DEF IInv

\* Whatever phase the file is in and whatever the listing asks for next,
\* buildTransitionPath only moves along TRANSITIONS, so that transitionPhase
\* never throws, and it finds a way to either outcome.
THEOREM LegalPaths == Spec => []PathsAreLegal
<1>1. PathsAreLegal
  BY TableLegal DEF PathsAreLegal
<1> QED
  BY <1>1, PTL

\* No phase file, written or about to be, counts more fix attempts than the
\* limit, however polls overlap, die or reopen the team.
THEOREM FixAttempts == Spec => []FixAttemptsBounded
<1>1. IInv => FixAttemptsBounded
  BY DEF IInv, PollInv, FixAttemptsBounded, Bounded
<1> QED
  BY <1>1, Invariant, PTL

\* The phase files are well typed, their paths legal, their attempts bounded.
THEOREM Soundness == Spec => []Sound
<1>1. TypeOK /\ PathsAreLegal /\ FixAttemptsBounded => Sound
  BY DEF Sound
<1> QED
  BY <1>1, TypeCorrect, LegalPaths, FixAttempts, PTL

\* A poll declares a team complete only from a listing without open, failed
\* or unverified tasks.
THEOREM EarnedCompletion == Spec => CompleteIsEarned
<1> DEFINE Earned ==
      \A m \in Monitor :
        /\ At(m, "scanned") /\ poll'[m].step = "decided"
        /\ poll'[m].next.phase = "complete" /\ file.phase # "complete"
        => poll[m].view = {}
<1>1. IInv /\ [Next]_vars => [Earned]_vars
  <2> SUFFICES ASSUME IInv, [Next]_vars, NEW m \in Monitor,
                      At(m, "scanned"), poll'[m].step = "decided",
                      poll'[m].next.phase = "complete",
                      file.phase # "complete"
               PROVE  poll[m].view = {}
    OBVIOUS
  <2> USE DEF IInv
  <2>1. Decide(m)
    <3>1. poll' # poll
      BY DEF At
    <3>2. PICK n \in Monitor : List(n) \/ Advance(n) \/ Crash(n)
      BY <3>1 DEF Next, vars, Work, CreateTask, FinishTask, ChangeRequirement,
         Environment
    <3>3. n = m
      BY <3>1, <3>2 DEF At, List, Advance, Relist, Scan, Decide, WritePhase,
         Sync, Crash, PollInv
    <3> QED
      BY <3>2, <3>3 DEF At, List, Advance, Relist, Scan, Decide, WritePhase,
         Sync, Crash, PollInv, NoPoll
  <2>2. poll'[m].next = Reconciled(file, Target(poll[m].view, poll[m].stall))
    BY <2>1 DEF Decide, PollInv
  <2> QED
    BY <2>2, TargetType, ReconciledBounded DEF PollInv
<1> QED
  BY <1>1, Invariant, PTL DEF Spec, CompleteIsEarned

-----------------------------------------------------------------------------
(* The count of fix attempts.                                              *)

\* What may become of a phase file's attempts in one poll.
Kept(f, n) == n.attempts < f.attempts => f.phase \in Terminal /\ n.attempts = 0

\* As long as no polls have overlapped, a single one is under way, and what
\* it is about to write was made from the file as it still is.
Solo ==
  ~overlapped =>
    /\ \A m, o \in Monitor : m = o \/ At(m, "idle") \/ At(o, "idle")
    /\ \A m \in Monitor : At(m, "decided") => Kept(file, poll[m].next)

\* A step along the path never lowers the count.
LEMMA AlongKeeps ==
  ASSUME NEW s \in Bounded, NEW path \in Seq(Phase), NEW i \in Nat \ {0}
  PROVE  Along(s, path, i).attempts >= s.attempts
<1>1. s.attempts \in Nat
  BY DEF Bounded, PhaseState
<1>2. \A to : Moved(s, to).attempts >= s.attempts
  BY <1>1 DEF Moved
<1> QED
  BY <1>1, <1>2 DEF Along

\* Nor does a walk, and a poll only by reopening a finished team.
LEMMA ReconciledKeeps ==
  ASSUME NEW s \in Bounded, NEW target \in Phase
  PROVE  Kept(s, Reconciled(s, target))
<1>1. CASE s.phase = target \/ (s.phase \in Terminal /\ target \in Terminal)
  BY <1>1 DEF Reconciled, Kept, Bounded, PhaseState
<1>2. CASE s.phase # target /\ s.phase \in Terminal /\ target \notin Terminal
  BY <1>2 DEF Reconciled, Kept
<1>3. CASE s.phase # target /\ s.phase \notin Terminal
  <2> DEFINE path == Path(s.phase, target)
             a == Along(s, path, 1)
             b == Along(a, path, 2)
             c == Along(b, path, 3)
             d == Along(c, path, 4)
  <2>1. path \in Seq(Phase)
    BY PathType DEF Bounded, PhaseState
  <2> HIDE DEF path
  <2>2. a \in Bounded /\ a.attempts >= s.attempts
    BY <2>1, AlongBounded, AlongKeeps
  <2>3. b \in Bounded /\ b.attempts >= a.attempts
    <3> HIDE DEF a
    <3> QED  BY <2>1, <2>2, AlongBounded, AlongKeeps
  <2>4. c \in Bounded /\ c.attempts >= b.attempts
    <3> HIDE DEF b
    <3> QED  BY <2>1, <2>3, AlongBounded, AlongKeeps
  <2>5. d \in Bounded /\ d.attempts >= c.attempts
    <3> HIDE DEF c
    <3> QED  BY <2>1, <2>4, AlongBounded, AlongKeeps
  <2>6. Reconciled(s, target) = d
    BY <1>3 DEF Reconciled, Walked, path
  <2> HIDE DEF a, b, c, d
  <2>7. d.attempts >= s.attempts
    BY <2>2, <2>3, <2>4, <2>5 DEF Bounded, PhaseState
  <2> QED
    BY <2>5, <2>6, <2>7 DEF Kept, Bounded, PhaseState
<1> QED
  BY <1>1, <1>2, <1>3

LEMMA NextSolo == IInv /\ Solo /\ [Next]_vars => Solo'
<1> SUFFICES ASSUME IInv, Solo, [Next]_vars, ~overlapped'
             PROVE
               /\ \A m, o \in Monitor :
                    m = o \/ At(m, "idle")' \/ At(o, "idle")'
               /\ \A m \in Monitor :
                    At(m, "decided")' => Kept(file, poll[m].next)'
  BY DEF Solo
<1> USE DEF IInv, PollInv, At
<1>1. CASE Work
  <2>1. UNCHANGED <<file, poll, overlapped>>
    BY <1>1 DEF Work, CreateTask, FinishTask, ChangeRequirement, Environment
  <2> QED
    BY <2>1 DEF Solo, Kept
<1>2. ASSUME NEW m \in Monitor, List(m)
      PROVE  Solo'
  <2>1. \A o \in Monitor : At(o, "idle")
    BY <1>2 DEF List
  <2>2. \A o \in Monitor \ {m} : poll'[o] = poll[o]
    BY <1>2 DEF List
  <2>3. poll'[m].step = "listed"
    BY <1>2 DEF List
  <2> QED
    BY <2>1, <2>2, <2>3 DEF Solo
<1>3. ASSUME NEW m \in Monitor, Relist(m) \/ Scan(m) \/ Sync(m) \/ Crash(m)
      PROVE  Solo'
  <2>1. /\ ~At(m, "idle") /\ UNCHANGED <<file, overlapped>>
        /\ \A o \in Monitor \ {m} : poll'[o] = poll[o]
    BY <1>3 DEF Relist, Scan, Sync, Crash
  <2>2. poll'[m].step # "decided"
    BY <1>3 DEF Relist, Scan, Sync, Crash, NoPoll
  <2> QED
    BY <2>1, <2>2 DEF Solo, Kept
<1>4. ASSUME NEW m \in Monitor, Decide(m)
      PROVE  Solo'
  <2>1. /\ ~At(m, "idle") /\ UNCHANGED <<file, overlapped>>
        /\ \A o \in Monitor \ {m} : poll'[o] = poll[o]
    BY <1>4 DEF Decide
  <2>2. poll'[m].next = Reconciled(file, Target(poll[m].view, poll[m].stall))
    BY <1>4 DEF Decide
  <2>3. Kept(file, poll'[m].next)
    BY <2>2, TargetType, ReconciledKeeps
  <2> QED
    BY <2>1, <2>3 DEF Solo, Kept
<1>5. ASSUME NEW m \in Monitor, WritePhase(m)
      PROVE  Solo'
  <2>1. /\ ~At(m, "idle") /\ UNCHANGED overlapped
        /\ \A o \in Monitor \ {m} : poll'[o] = poll[o]
    BY <1>5 DEF WritePhase
  <2>2. poll'[m].step = "written"
    BY <1>5 DEF WritePhase
  <2> QED
    BY <2>1, <2>2 DEF Solo
<1>6. CASE UNCHANGED vars
  BY <1>6 DEF vars, Solo, Kept
<1> QED
  BY <1>1, <1>2, <1>3, <1>4, <1>5, <1>6 DEF Next, Advance, Solo

\* For any number of pollers that do not overlap, and any kills, the count of
\* fix attempts is only lowered by reopening a finished team.
THEOREM AttemptsKept == Spec => AttemptsAreKept
<1> DEFINE K == ~overlapped' /\ file'.attempts < file.attempts =>
                  file.phase \in Terminal /\ file'.attempts = 0
<1>1. Init => Solo
  BY DEF Init, Solo, At, NoPoll
<1>2. IInv /\ Solo /\ [Next]_vars => [K]_vars
  <2> SUFFICES ASSUME IInv, Solo, [Next]_vars,
                      ~overlapped', file'.attempts < file.attempts
               PROVE  file.phase \in Terminal /\ file'.attempts = 0
    OBVIOUS
  <2>1. file' # file
    BY DEF IInv, PollInv, Bounded, PhaseState
  <2>2. PICK m \in Monitor : WritePhase(m)
    BY <2>1 DEF Next, vars, Work, CreateTask, FinishTask, ChangeRequirement,
       Environment, List, Advance, Relist, Scan, Decide, Sync, Crash
  <2> QED
    BY <2>2 DEF WritePhase, Solo, Kept
<1> QED
  BY <1>1, <1>2, NextSolo, Invariant, PTL DEF Spec, AttemptsAreKept
=============================================================================
