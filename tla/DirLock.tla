------------------------------- MODULE DirLock -------------------------------
(***************************************************************************)
(* The lock of src/team/state/locks.ts (withTaskClaimLock, withTeamLock,   *)
(* withMailboxLock, withScalingLock; withDispatchLock has the same form):  *)
(* a directory that mkdir creates and rm removes, with the holder's token  *)
(* in a file inside.  Each file system call is a step of its own:          *)
(*                                                                         *)
(*   mkdir -> owner -> inside -> check -> release                          *)
(*     |                                                                   *)
(*     +-> stat -> rm -> mkdir            the directory was too old        *)
(*           +---------> mkdir | idle     it was not: sleep, or time out   *)
(*                                                                         *)
(* One assumption about scheduling is a parameter.  Prompt: no live        *)
(* process is still inside when its directory becomes stale (LOCK_STALE_MS *)
(* is five minutes), which the code does not enforce.                      *)
(***************************************************************************)
EXTENDS Integers, LockUsers

CONSTANTS
  NoToken,      \* an owner file not written yet
  Stale,        \* LOCK_STALE_MS, in clock ticks
  Patience,     \* the deadline of a call, in clock ticks
  Prompt,       \* live holders leave before their directory is stale
  MaxDeaths     \* bound: number of processes that die

ASSUME DirLockAssumption ==
  /\ NoToken \notin Proc
  /\ Stale \in Nat /\ Patience \in Nat /\ MaxDeaths \in Nat
  /\ Prompt \in BOOLEAN

VARIABLES
  dir,      \* the lock directory: whether it exists, its age and its owner
  at,       \* process -> its next step
  waited,   \* process -> ticks since its call began, up to Patience + 1
  deaths,   \* number of processes that died so far
  robbed    \* history: a waiter has removed another directory than the stale
            \* one it had found

dirVars == <<dir, at, waited, deaths, robbed>>

-----------------------------------------------------------------------------
\* Ages beyond Stale + 1 are all alike.
Directory == [there : BOOLEAN, age : 0..Stale + 1, owner : Proc \cup {NoToken}]

NoDir == [there |-> FALSE, age |-> 0, owner |-> NoToken]

NewDir == [there |-> TRUE, age |-> 0, owner |-> NoToken]

Waiting == {"mkdir", "stat", "rm"}

Holding == {"owner", "inside", "check", "release"}

DirStep == {"idle", "abandon"} \cup Waiting \cup Holding

DirTypeOK ==
  /\ dir \in Directory
  /\ at \in [Proc -> DirStep]
  /\ waited \in [Proc -> 0..Patience + 1]
  /\ deaths \in Nat
  /\ robbed \in BOOLEAN

DirInit ==
  /\ dir = NoDir
  /\ at = [p \in Proc |-> "idle"]
  /\ waited = [p \in Proc |-> 0]
  /\ deaths = 0
  /\ robbed = FALSE

Goto(p, from, to) ==
  /\ at[p] = from
  /\ at' = [at EXCEPT ![p] = to]
  /\ UNCHANGED <<deaths, robbed>>

-----------------------------------------------------------------------------
Start(p) ==
  /\ Goto(p, "idle", "mkdir")
  /\ waited' = [waited EXCEPT ![p] = 0]
  /\ UNCHANGED dir

Mkdir(p) ==
  /\ ~dir.there
  /\ Goto(p, "mkdir", "owner")
  /\ dir' = NewDir
  /\ UNCHANGED waited

\* EEXIST
MkdirFails(p) ==
  /\ dir.there
  /\ Goto(p, "mkdir", "stat")
  /\ UNCHANGED <<dir, waited>>

\* Mutation of FindStale: the age is not compared.
FindAny(p) ==
  /\ dir.there
  /\ Goto(p, "stat", "rm")
  /\ UNCHANGED <<dir, waited>>

\* Mutation of FindStale: a directory is never found stale.
FindNone(p) == FALSE /\ FindAny(p)

\* maybeRecoverStaleLock's stat finds the directory too old.
FindStale(p) ==
  /\ dir.there /\ dir.age > Stale
  /\ Goto(p, "stat", "rm")
  /\ UNCHANGED <<dir, waited>>

\* Its rm removes the directory that is at the path by then, if any: a young one
\* is not the one that was stale.
RemoveStale(p) ==
  /\ at[p] = "rm" /\ at' = [at EXCEPT ![p] = "mkdir"]
  /\ dir' = NoDir
  /\ robbed' = (robbed \/ (dir.there /\ dir.age <= Stale))
  /\ UNCHANGED <<waited, deaths>>

Patient(p) == waited[p] <= Patience

\* Mutation of Retry: the deadline is not compared.
RetryForever(p) ==
  /\ ~(dir.there /\ dir.age > Stale)
  /\ Goto(p, "stat", "mkdir")
  /\ UNCHANGED <<dir, waited>>

\* The directory is young, or stat failed as it is gone: sleep and try again.
Retry(p) ==
  /\ ~(dir.there /\ dir.age > Stale)
  /\ Patient(p)
  /\ Goto(p, "stat", "mkdir")
  /\ UNCHANGED <<dir, waited>>

\* The same past the deadline: the call fails.
TimeOut(p) ==
  /\ ~(dir.there /\ dir.age > Stale)
  /\ ~Patient(p)
  /\ Goto(p, "stat", "idle")
  /\ UNCHANGED <<dir, waited>>

\* The token is written into whatever directory is there.  A file that is new
\* to a directory renews its mtime.
WriteOwner(p) ==
  /\ dir.there
  /\ Goto(p, "owner", "inside")
  /\ dir' = [there |-> TRUE, owner |-> p,
              age |-> IF dir.owner = NoToken THEN 0 ELSE dir.age]
  /\ UNCHANGED waited

\* writeFile fails, for the directory is gone: rm it all the same, and throw.
WriteOwnerFails(p) ==
  /\ ~dir.there
  /\ Goto(p, "owner", "abandon")
  /\ UNCHANGED <<dir, waited>>

Abandon(p) ==
  /\ Goto(p, "abandon", "idle")
  /\ dir' = NoDir
  /\ UNCHANGED waited

\* The callback returns.
Leave(p) ==
  /\ Goto(p, "inside", "check")
  /\ UNCHANGED <<dir, waited>>

\* The owner file is read: the token is still ours, or the lock was lost.
FindOwn(p) ==
  /\ dir.there /\ dir.owner = p
  /\ Goto(p, "check", "release")
  /\ UNCHANGED <<dir, waited>>

\* Mutation of FindLost: the failed read is not caught.
FindLostThrows(p) ==
  /\ ~(dir.there /\ dir.owner = p)
  /\ Goto(p, "check", "thrown")
  /\ UNCHANGED <<dir, waited>>

FindLost(p) ==
  /\ ~(dir.there /\ dir.owner = p)
  /\ Goto(p, "check", "idle")
  /\ UNCHANGED <<dir, waited>>

Release(p) ==
  /\ Goto(p, "release", "idle")
  /\ dir' = NoDir
  /\ UNCHANGED waited

\* A process dies.  Its directory, if it had one, stays.
Die(p) ==
  /\ at[p] # "idle"
  /\ deaths < MaxDeaths
  /\ at' = [at EXCEPT ![p] = "idle"]
  /\ deaths' = deaths + 1
  /\ UNCHANGED <<dir, waited, robbed>>

DirTick ==
  /\ Prompt /\ dir.there /\ dir.age >= Stale =>
       \A p \in Proc : at[p] \notin Holding
  /\ dir' = [dir EXCEPT !.age =
               IF dir.there /\ dir.age <= Stale THEN dir.age + 1 ELSE dir.age]
  /\ waited' = [p \in Proc |->
                  IF at[p] \in Waiting /\ Patient(p) THEN waited[p] + 1
                  ELSE waited[p]]
  /\ UNCHANGED <<at, deaths, robbed>>

\* What a process does by itself once its call has begun.
DirAdvance(p) ==
  \/ Mkdir(p) \/ MkdirFails(p)
  \/ FindStale(p) \/ RemoveStale(p) \/ Retry(p) \/ TimeOut(p)
  \/ WriteOwner(p) \/ WriteOwnerFails(p) \/ Abandon(p)
  \/ Leave(p) \/ FindOwn(p) \/ FindLost(p) \/ Release(p)

DirNext ==
  \/ \E p \in Proc : Start(p) \/ DirAdvance(p) \/ Die(p)
  \/ DirTick

DirSpec == DirInit /\ [][DirNext]_dirVars

-----------------------------------------------------------------------------
(* Properties.                                                             *)

\* At most one live process is between mkdir and rm of the directory: what
\* scale_up and scale_down, createTask, the claim operations and the mailbox
\* rely on when they read, change and write back a file.
MutualExclusion ==
  \A p, q \in Proc : at[p] \in Holding /\ at[q] \in Holding => p = q

\* With prompt holders, one step alone ends the exclusion, and it takes a crash:
\* a waiter's rm of a directory that was taken after the waiter had found a stale
\* one.  No other removal, by time-out, release, failed owner file or crash,
\* lets a second process in.
ExclusiveUnlessRobbed ==
  /\ deaths = 0 => ~robbed
  /\ ~robbed => MutualExclusion

\* The directory seen as an abstract lock.
Lock ==
  IF ~dir.there THEN Free
  ELSE IF \E p \in Proc : at[p] \in Holding
       THEN CHOOSE p \in Proc : at[p] \in Holding
  ELSE Orphan

Abstract == INSTANCE ClaimLock WITH lock <- Lock

\* The lock directory is the lock TeamTasks assumes, through crashes and their
\* recovery, up to the step that removes a directory which is not stale: a live
\* holder keeps it, a crashed one's is recovered, nobody else takes it.
ImplementsUnlessRobbed ==
  Abstract!Init /\ [][robbed' \/ [Abstract!Next]_Lock]_dirVars

-----------------------------------------------------------------------------
(* Liveness: every process carries on with its call, and time passes.      *)

DirFairSpec ==
  /\ DirSpec
  /\ \A p \in Proc : WF_dirVars(DirAdvance(p))
  /\ WF_dirVars(DirTick)

\* No call waits forever: it gets in, it fails, or its process dies, although
\* a waiter that has removed a stale directory tries again without looking at
\* its deadline.
CallsEnd == \A p \in Proc : at[p] = "mkdir" ~> at[p] \notin Waiting

\* The directory a crash left behind does not outlast the callers: if somebody
\* asks for the lock again and again, it is removed.
OrphanRecovered ==
  \A p \in Proc :
    []<>(at[p] = "stat") =>
      ((dir.there /\ \A q \in Proc : at[q] \notin Holding) ~> ~dir.there)
=============================================================================
