------------------------------ MODULE TeamPhase ------------------------------
(***************************************************************************)
(* A team's phase file (src/team/phase-controller.ts, orchestrator.ts) and *)
(* the polls that write it (monitorTeam in src/team/runtime.ts).  A poll   *)
(* is run by the background runtime and by every "omg team status", so     *)
(* several may be under way; each takes these steps:                       *)
(*                                                                         *)
(*   List -> (Relist ->) Scan -> Decide -> WritePhase -> Sync             *)
(*                                                                         *)
(* The poll only asks which kinds of tasks its list shows, so the tasks    *)
(* are the set of the kinds present: "open" (pending, blocked or in        *)
(* progress), "failed", "unverified" (completed, without the evidence it   *)
(* needs), "unproven" (the same, but it needs none).  Tasks completed with *)
(* evidence need no mention.  Any number of tasks is covered.              *)
(***************************************************************************)
EXTENDS Integers, Sequences

CONSTANTS
  Monitor,      \* processes that poll
  MaxFix,       \* max_fix_attempts, 3 in the code
  PromptMode,   \* worker_launch_mode is "prompt"
  MaxCrashes    \* bound: number of polls that are killed

ASSUME MaxFixAssumption == MaxFix \in Nat
ASSUME ModeAssumption == PromptMode \in BOOLEAN
ASSUME BoundAssumption == MaxCrashes \in Nat

VARIABLES
  tasks,       \* the kinds of unfinished tasks on file
  file,        \* the phase file
  root,        \* the root "team" mode state
  poll,        \* monitor -> its step and what it has read so far
  overlapped,  \* history: two polls have been under way at once
  crashes      \* number of polls killed so far

vars == <<tasks, file, root, poll, overlapped, crashes>>

-----------------------------------------------------------------------------
Running == {"team-plan", "team-prd", "team-exec", "team-verify", "team-fix"}

Terminal == {"complete", "failed", "cancelled"}

Phase == Running \cup Terminal

\* TRANSITIONS
Moves ==
  {<<"team-plan", "team-prd">>, <<"team-prd", "team-exec">>,
   <<"team-exec", "team-verify">>, <<"team-verify", "team-fix">>,
   <<"team-verify", "complete">>, <<"team-verify", "failed">>,
   <<"team-fix", "team-exec">>, <<"team-fix", "team-verify">>,
   <<"team-fix", "complete">>, <<"team-fix", "failed">>}

\* buildTransitionPath
PathToExec(from) ==
  IF from = "team-plan" THEN <<"team-prd", "team-exec">>
  ELSE IF from \in {"team-prd", "team-fix"} THEN <<"team-exec">>
  ELSE <<>>

PathToVerify(from) ==
  IF from = "team-plan" THEN <<"team-prd", "team-exec", "team-verify">>
  ELSE IF from \in {"team-prd", "team-fix"} THEN <<"team-exec", "team-verify">>
  ELSE IF from = "team-exec" THEN <<"team-verify">>
  ELSE <<>>

\* To "team-fix", "complete" or "failed".
PathBeyondVerify(from, to) ==
  IF from \in {"team-plan", "team-prd", "team-exec"}
    THEN PathToVerify(from) \o <<to>>
  ELSE IF from \in {"team-verify", "team-fix"} \ {to} THEN <<to>>
  ELSE <<>>

Path(from, to) ==
  IF from = to THEN <<>>
  ELSE IF to = "team-exec" THEN PathToExec(from)
  ELSE IF to = "team-verify" THEN PathToVerify(from)
  ELSE IF to \in {"team-fix", "complete", "failed"}
    THEN PathBeyondVerify(from, to)
  ELSE <<>>

-----------------------------------------------------------------------------
PhaseState == [phase : Phase, attempts : Nat]

\* initTeamState writes this before the first poll.
DefaultPhase == [phase |-> "team-exec", attempts |-> 0]

\* Mutation of Moved: the limit on fix attempts is not checked.
MovedAnyway(s, to) ==
  [phase |-> to,
   attempts |-> IF to = "team-fix" THEN s.attempts + 1 ELSE s.attempts]

\* transitionPhase, which counts the fix attempts and gives up past the limit.
Moved(s, to) ==
  CASE to # "team-fix"        -> [phase |-> to, attempts |-> s.attempts]
    [] s.attempts >= MaxFix   -> [phase |-> "failed", attempts |-> s.attempts]
    [] OTHER -> [phase |-> "team-fix", attempts |-> s.attempts + 1]

\* One round of the loop over the path.
Along(s, path, i) ==
  IF i > Len(path) \/ s.phase \in Terminal THEN s
  ELSE IF s.phase = path[i] THEN s ELSE Moved(s, path[i])

\* No path has more than four steps.
Walked(s, path) ==
  Along(Along(Along(Along(s, path, 1), path, 2), path, 3), path, 4)

\* Mutation of Reconciled: a finished team is never reopened.
ReconciledForGood(base, target) ==
  IF base.phase \in {target} \cup Terminal THEN base
  ELSE Walked(base, Path(base.phase, target))

\* reconcilePhaseStateForMonitor
Reconciled(base, target) ==
  IF base.phase = target THEN base
  ELSE IF base.phase \in Terminal /\ target \in Terminal THEN base
  ELSE IF base.phase \in Terminal THEN [phase |-> target, attempts |-> 0]
  ELSE Walked(base, Path(base.phase, target))

Kind == {"open", "unverified", "failed"}

AnyKind == Kind \cup {"unproven"}

\* inferPhaseTargetFromTaskCounts, and deadWorkerStall before it.  Failures
\* count before missing evidence does.  TargetUnverified is a mutation that
\* does not ask for evidence.
TargetUnverified(view, stall) ==
  CASE "open" \in view -> IF stall THEN "failed" ELSE "team-exec"
    [] "failed" \in view -> "team-fix"
    [] OTHER -> "complete"

Target(view, stall) ==
  CASE "open" \in view -> IF stall THEN "failed" ELSE "team-exec"
    [] "open" \notin view /\ "failed" \in view -> "team-fix"
    [] view = {"unverified"} -> "team-verify"
    [] view = {} -> "complete"

-----------------------------------------------------------------------------
Step == {"idle", "listed", "scanned", "decided", "written"}

Poll == [step : Step, view : SUBSET Kind, stall : BOOLEAN,
         next : PhaseState]

NoPoll == [step |-> "idle", view |-> {}, stall |-> FALSE,
           next |-> DefaultPhase]

Root == [active : BOOLEAN, phase : {"starting"} \cup Terminal]

TypeOK ==
  /\ tasks \subseteq AnyKind
  /\ file \in PhaseState
  /\ root \in Root
  /\ poll \in [Monitor -> Poll]
  /\ overlapped \in BOOLEAN
  /\ crashes \in Nat

\* A team starts with tasks to do, live workers and the "team" mode active.
Init ==
  /\ tasks = {"open"}
  /\ file = DefaultPhase
  /\ root = [active |-> TRUE, phase |-> "starting"]
  /\ poll = [m \in Monitor |-> NoPoll]
  /\ overlapped = FALSE
  /\ crashes = 0

-----------------------------------------------------------------------------
(* The team at work: createTask, transitionTaskStatus and updateTask.      *)

Environment == UNCHANGED <<file, root, poll, overlapped, crashes>>

CreateTask ==
  /\ tasks' = tasks \cup {"open"}
  /\ Environment

\* One open task ends; it may have been the last one.
FinishTask ==
  /\ "open" \in tasks
  /\ \E outcome \in SUBSET (AnyKind \ {"open"}), left \in {{}, {"open"}} :
       /\ \A k, l \in outcome : k = l
       /\ tasks' = (tasks \ {"open"}) \cup left \cup outcome
  /\ Environment

\* updateTask sets or clears requires_code_change of a task that has no
\* evidence; others like it may be left.
ChangeRequirement ==
  /\ \E from, to \in {"unverified", "unproven"} :
       /\ from # to /\ from \in tasks
       /\ tasks' \in {tasks \cup {to}, (tasks \ {from}) \cup {to}}
  /\ Environment

-----------------------------------------------------------------------------
(* The poll.                                                               *)

At(m, step) == poll[m].step = step

\* listTasks
List(m) ==
  /\ At(m, "idle")
  /\ poll' = [poll EXCEPT ![m] =
                [step |-> "listed", view |-> tasks \cap Kind, stall |-> FALSE,
                 next |-> DefaultPhase]]
  /\ overlapped' = (overlapped \/ \E o \in Monitor : ~At(o, "idle"))
  /\ UNCHANGED <<tasks, file, root, crashes>>

\* It lists the tasks again after it has reclaimed or assigned some.  (It
\* assigns after it has looked at the workers, but what it saw of them only
\* counts with the last listing, which is when Scan chooses it.)
Relist(m) ==
  /\ At(m, "listed")
  /\ poll' = [poll EXCEPT ![m] =
                [step |-> "listed", view |-> tasks \cap Kind, stall |-> FALSE,
                 next |-> DefaultPhase]]
  /\ UNCHANGED <<tasks, file, root, overlapped, crashes>>

\* Whether all workers are dead while work remains, which makes the team fail
\* in prompt mode.
Scan(m) ==
  /\ At(m, "listed")
  /\ \E dead \in BOOLEAN :
       poll' = [poll EXCEPT ![m] =
                  [step |-> "scanned", view |-> poll[m].view,
                   stall |-> PromptMode /\ dead /\ "open" \in poll[m].view,
                   next |-> DefaultPhase]]
  /\ UNCHANGED <<tasks, file, root, overlapped, crashes>>

\* The phase file is read, and reconciled in memory with the target.
Decide(m) ==
  /\ At(m, "scanned")
  /\ poll' = [poll EXCEPT ![m] =
                [step |-> "decided", view |-> {}, stall |-> FALSE,
                 next |-> Reconciled(file, Target(poll[m].view, poll[m].stall))]]
  /\ UNCHANGED <<tasks, file, root, overlapped, crashes>>

\* The file is written whole, with no lock and no check that it is the one
\* that was read.
WritePhase(m) ==
  /\ At(m, "decided")
  /\ file' = poll[m].next
  /\ poll' = [poll EXCEPT ![m].step = "written"]
  /\ UNCHANGED <<tasks, root, overlapped, crashes>>

\* syncRootTeamModeStateOnTerminalPhase; then the poll goes on to events and
\* mailboxes, which do not touch phases.
Sync(m) ==
  LET p == poll[m].next.phase IN
  /\ At(m, "written")
  /\ root' = IF p \in Terminal THEN [active |-> FALSE, phase |-> p] ELSE root
  /\ poll' = [poll EXCEPT ![m] = NoPoll]
  /\ UNCHANGED <<tasks, file, overlapped, crashes>>

\* A poll is killed where it stands.
Crash(m) ==
  /\ ~At(m, "idle")
  /\ crashes < MaxCrashes
  /\ crashes' = crashes + 1
  /\ poll' = [poll EXCEPT ![m] = NoPoll]
  /\ UNCHANGED <<tasks, file, root, overlapped>>

Work == CreateTask \/ FinishTask \/ ChangeRequirement

Advance(m) == Relist(m) \/ Scan(m) \/ Decide(m) \/ WritePhase(m) \/ Sync(m)

Next == Work \/ \E m \in Monitor : List(m) \/ Advance(m) \/ Crash(m)

Spec == Init /\ [][Next]_vars

-----------------------------------------------------------------------------
(* Properties.                                                             *)

\* A path that leads from one phase to another along TRANSITIONS; there must
\* be one to either outcome.
LegalPath(from, to) ==
  LET path == Path(from, to) IN
  /\ Len(path) <= 4
  /\ \A i \in 1..Len(path) :
       <<IF i = 1 THEN from ELSE path[i - 1], path[i]>> \in Moves
  /\ path # <<>> => path[Len(path)] = to
  /\ from # to /\ to \in {"complete", "failed"} => path # <<>>

\* buildTransitionPath against the transition rules: no poll dies of
\* transitionPhase's exception, whatever target the next listing gives it.
PathsAreLegal ==
  file.phase \in Running => \A to \in Phase : LegalPath(file.phase, to)

\* The team is declared complete only by a poll whose listing showed no open,
\* failed or unverified task, whatever phase file other polls left.  (A team
\* that is complete already stays so when new tasks come and all its workers
\* are dead.)
CompleteIsEarned ==
  [][\A m \in Monitor :
       /\ At(m, "scanned") /\ poll'[m].step = "decided"
       /\ poll'[m].next.phase = "complete" /\ file.phase # "complete"
       => poll[m].view = {}]_vars

\* No phase file records more fix attempts than allowed.
FixAttemptsBounded ==
  \A s \in {file} \cup {poll[m].next : m \in Monitor} : s.attempts <= MaxFix

\* As long as polls do not overlap, the count of fix attempts only ever
\* shrinks when a finished team is reopened: the limit cannot be passed by
\* going back and forth between phases.
AttemptsAreKept ==
  [][~overlapped' /\ file'.attempts < file.attempts =>
       file.phase \in Terminal /\ file'.attempts = 0]_vars

\* No poll dies of an illegal move, and no phase file, written or about to be,
\* passes the limit on fix attempts.
Sound == TypeOK /\ PathsAreLegal /\ FixAttemptsBounded

-----------------------------------------------------------------------------
(* Liveness: somebody polls for as long as the team exists, and polls are  *)
(* carried out.                                                            *)

FairSpec ==
  Spec /\ \A m \in Monitor : WF_vars(List(m)) /\ WF_vars(Scan(m) \/ Decide(m)
                                   \/ WritePhase(m) \/ Sync(m))

\* A team whose work is done settles: its phase becomes terminal and the root
\* mode state inactive for good, although polls that listed the tasks earlier
\* still write and killed polls leave the two files apart.
Settles ==
  <>[](tasks \cap Kind = {}) =>
    <>[](file.phase \in {"complete", "failed"} /\ ~root.active)

\* They agree on the outcome once polls no longer overlap.  Two polls that
\* always overlap may hand "complete" and "failed" to and fro forever.
OutcomeAgrees ==
  <>[](tasks \cap Kind = {} /\ \E m \in Monitor :
                                 \A o \in Monitor \ {m} : At(o, "idle"))
    => <>[](root.phase = file.phase)

\* A team with work left and workers alive does not stay finished.
Reopens ==
  <>[]("open" \in tasks /\ \A m \in Monitor : ~poll[m].stall)
    => <>[](file.phase \in Running)

\* A team that only lacks evidence waits in "team-verify".
AwaitsEvidence ==
  <>[](tasks \cap Kind = {"unverified"}) => <>[](file.phase = "team-verify")

\* Once the tasks stop changing, the phase and the root mode state follow them.
Converges == Settles /\ OutcomeAgrees /\ Reopens /\ AwaitsEvidence
=============================================================================
