------------------------ MODULE CompletionEventsProofs ------------------------
(***************************************************************************)
(* What holds of CompletionEvents for any tasks, calling processes, polls  *)
(* and kills.                                                              *)
(***************************************************************************)
EXTENDS CompletionEvents, TLAPS

USE TaskAssumption, BoundAssumption

LEMMA Nulls == NoSnapshot \in Snapshot /\ NoCall \in Call /\ NoPoll \in Poll
  BY DEF NoSnapshot, Snapshot, NoCall, Call, CallStep, NoPoll, Poll, PollStep,
     Status, Idle

LEMMA AnnounceAdds ==
  ASSUME TypeOK, NEW t \in Task, Announce(t)
  PROVE  /\ events' \in [Task -> 0..2]
         /\ \A u \in Task \ {t} : events'[u] = events[u]
         /\ events'[t] >= 1 /\ events'[t] >= events[t]
         /\ events[t] = 0 => events'[t] = 1
  BY DEF Announce, TypeOK

\* What a step does to the call of a worker.
LEMMA GotoType ==
  ASSUME TypeOK, NEW w \in Worker, NEW step \in CallStep, NEW t \in Task,
         NEW copy \in Snapshot, Goto(w, step, t, copy)
  PROVE  /\ call' \in [Worker -> Call]
         /\ call'[w].step = step /\ call'[w].task = t /\ call'[w].copy = copy
         /\ \A v \in Worker \ {w} : call'[v] = call[v]
<1>1. [step |-> step, task |-> t, copy |-> copy] \in Call
  BY DEF Call
<1> QED
  BY <1>1 DEF Goto, TypeOK

\* What the actions on polls write.
LEMMA PollType ==
  ASSUME TypeOK, NEW m \in Monitor, StartPoll(m) \/ List(m)
  PROVE  /\ poll' \in [Monitor -> Poll]
         /\ poll'[m].told = {}
         /\ \A n \in Monitor \ {m} : poll'[n] = poll[n]
<1>1. CASE StartPoll(m)
  <2> DEFINE p == [step |-> "started", prev |-> snapshot,
                   view |-> NoSnapshot.known, told |-> {}]
  <2>1. p \in Poll
    BY Nulls DEF Poll, PollStep, TypeOK, Snapshot
  <2>2. poll' = [poll EXCEPT ![m] = p]
    BY <1>1 DEF StartPoll
  <2> QED
    BY <2>1, <2>2 DEF TypeOK
<1>2. CASE List(m)
  <2> DEFINE p == [step |-> "listed", prev |-> poll[m].prev,
                   view |-> status, told |-> {}]
  <2>1. p \in Poll
    BY DEF Poll, PollStep, TypeOK
  <2>2. poll' = [poll EXCEPT ![m] = p]
    BY <1>2 DEF List
  <2> QED
    BY <2>1, <2>2 DEF TypeOK
<1> QED
  BY <1>1, <1>2

LEMMA EmitType ==
  ASSUME TypeOK, NEW m \in Monitor, NEW t \in Task, Emit(m, t)
  PROVE  /\ poll' \in [Monitor -> Poll]
         /\ poll'[m].told = poll[m].told \cup {t}
         /\ poll'[m].step = "listed" /\ poll'[m].prev = poll[m].prev
         /\ poll'[m].view = poll[m].view
         /\ \A n \in Monitor \ {m} : poll'[n] = poll[n]
  BY DEF Emit, TypeOK, Poll, PollStep

LEMMA NextKeepsTypes == TypeOK /\ [Next]_vars => TypeOK'
<1> SUFFICES ASSUME TypeOK, [Next]_vars
             PROVE  TypeOK'
  OBVIOUS
<1>1. ASSUME NEW t \in Task, Create(t)
      PROVE  TypeOK'
  BY <1>1 DEF Create, TypeOK, Status
<1>2. ASSUME NEW w \in Worker, NEW t \in Task, Complete(w, t)
      PROVE  TypeOK'
  <2>1. call' \in [Worker -> Call]
    BY <1>2, Nulls, GotoType DEF Complete, CallStep
  <2>2. status' \in [Task -> Status] /\ overlapped' \in BOOLEAN
    BY <1>2 DEF Complete, Begin, TypeOK, Status
  <2> QED
    BY <1>2, <2>1, <2>2 DEF Complete, TypeOK
<1>3. ASSUME NEW w \in Worker, NEW t \in Task, Refuse(w, t)
      PROVE  TypeOK'
  <2>1. call' \in [Worker -> Call]
    BY <1>3, Nulls, GotoType DEF Refuse, CallStep
  <2> QED
    BY <1>3, <2>1 DEF Refuse, Begin, TypeOK
<1>4. ASSUME NEW w \in Worker, Append(w)
      PROVE  TypeOK'
  <2>1. call[w].task \in Task
    BY DEF TypeOK, Call
  <2>2. call' \in [Worker -> Call] /\ events' \in [Task -> 0..2]
    BY <1>4, <2>1, Nulls, GotoType, AnnounceAdds DEF Append, CallStep
  <2> QED
    BY <1>4, <2>2 DEF Append, TypeOK
<1>5. ASSUME NEW w \in Worker, ReadSnapshot(w)
      PROVE  TypeOK'
  <2>1. call[w].task \in Task /\ snapshot \in Snapshot
    BY DEF TypeOK, Call
  <2>2. call' \in [Worker -> Call]
    BY <1>5, <2>1, GotoType DEF ReadSnapshot, CallStep
  <2> QED
    BY <1>5, <2>2 DEF ReadSnapshot, TypeOK
<1>6. ASSUME NEW w \in Worker, WriteSnapshot(w)
      PROVE  TypeOK'
  <2>1. call[w].task \in Task /\ call[w].copy \in Snapshot
    BY DEF TypeOK, Call
  <2>2. snapshot' \in Snapshot
    BY <1>6, <2>1 DEF WriteSnapshot, Snapshot
  <2>3. call' \in [Worker -> Call]
    BY <1>6, Nulls DEF WriteSnapshot, TypeOK
  <2> QED
    BY <1>6, <2>2, <2>3 DEF WriteSnapshot, TypeOK
<1>7. ASSUME NEW m \in Monitor, StartPoll(m) \/ List(m)
      PROVE  TypeOK'
  BY <1>7, PollType DEF StartPoll, List, Begin, TypeOK
<1>8. ASSUME NEW m \in Monitor, NEW t \in Task, Emit(m, t)
      PROVE  TypeOK'
  BY <1>8, EmitType, AnnounceAdds DEF Emit, TypeOK
<1>9. ASSUME NEW m \in Monitor, EndPoll(m)
      PROVE  TypeOK'
  <2>1. poll[m].view \in [Task -> Status] /\ poll[m].prev \in Snapshot
    BY DEF TypeOK, Poll
  <2>2. snapshot' \in Snapshot
    BY <1>9, <2>1 DEF EndPoll, Snapshot
  <2>3. poll' \in [Monitor -> Poll]
    BY <1>9, Nulls DEF EndPoll, TypeOK
  <2> QED
    BY <1>9, <2>2, <2>3 DEF EndPoll, TypeOK
<1>10. ASSUME NEW w \in Worker, KillCall(w)
       PROVE  TypeOK'
  BY <1>10, Nulls DEF KillCall, Killed, TypeOK
<1>11. ASSUME NEW m \in Monitor, KillPoll(m)
       PROVE  TypeOK'
  BY <1>11, Nulls DEF KillPoll, Killed, TypeOK
<1>12. CASE UNCHANGED vars
  BY <1>12 DEF vars, TypeOK
<1> QED
  BY <1>1, <1>2, <1>3, <1>4, <1>5, <1>6, <1>7, <1>8, <1>9, <1>10, <1>11, <1>12
     DEF Next, CallNext, Report

LEMMA InitTypeOK == Init => TypeOK
<1> SUFFICES ASSUME Init PROVE TypeOK
  OBVIOUS
<1>1. status \in [Task -> Status] /\ events \in [Task -> 0..2]
  BY DEF Init, Status
<1>2. snapshot \in Snapshot
  BY Nulls DEF Init
<1>3. call \in [Worker -> Call]
  <2> HIDE DEF NoCall
  <2> QED  BY Nulls DEF Init
<1>4. poll \in [Monitor -> Poll]
  BY Nulls DEF Init
<1> QED
  BY <1>1, <1>2, <1>3, <1>4 DEF Init, TypeOK

\* Every reachable state of tasks, snapshot, calls and polls is well typed.
THEOREM TypeCorrect == Spec => []TypeOK
  BY InitTypeOK, NextKeepsTypes, PTL DEF Spec

-----------------------------------------------------------------------------
(* The invariant.                                                          *)

\* What is said to be completed is: in views, snapshots and copies.  A task
\* whose event is due is completed, and one that has events is.
Truthful ==
  /\ \A t \in Task :
       /\ snapshot.known[t] = "completed" => status[t] = "completed"
       /\ events[t] > 0 => status[t] = "completed"
  /\ \A w \in Worker :
       /\ \A t \in Task : call[w].copy.known[t] = "completed"
                            => status[t] = "completed"
       /\ call[w].step = "append" => status[call[w].task] = "completed"
  /\ \A m \in Monitor, t \in Task :
       /\ poll[m].view[t] = "completed" => status[t] = "completed"
       /\ poll[m].prev.known[t] = "completed" => status[t] = "completed"
       /\ poll[m].step = "listed" /\ poll[m].prev.known[t] = "completed"
            => poll[m].view[t] = "completed"
       /\ poll[m].told # {} => poll[m].step = "listed"
       /\ t \in poll[m].told => poll[m].view[t] = "completed"

\* Nobody else is under way, and nobody works on a stale snapshot.
Alone ==
  /\ \A w, v \in Worker : w = v \/ call[w].step = Idle \/ call[v].step = Idle
  /\ \A m, n \in Monitor : m = n \/ poll[m].step = Idle \/ poll[n].step = Idle
  /\ \A w \in Worker, m \in Monitor :
       call[w].step = Idle \/ poll[m].step = Idle
  /\ \A w \in Worker : call[w].step = "write" => call[w].copy = snapshot
  /\ \A m \in Monitor : poll[m].step # Idle => poll[m].prev = snapshot

\* Flags and finished announcements stand for an event, refused calls apart.
Backed ==
  \A t \in Task \ refused :
    /\ t \in snapshot.flagged => events[t] >= 1
    /\ \A w \in Worker : call[w].step \in {"read", "write"} /\ call[w].task = t
         => events[t] >= 1
    /\ \A m \in Monitor : t \in poll[m].told => events[t] >= 1

\* What keeps the monitor from announcing a task again.
Covered(t) ==
  \/ t \in snapshot.flagged
  \/ snapshot.known[t] = "completed"
  \/ \E w \in Worker : call[w].step \in {"read", "write"} /\ call[w].task = t
  \/ \E m \in Monitor : t \in poll[m].told

Once ==
  \A t \in Task :
    /\ events[t] <= 1
    /\ events[t] = 1 => Covered(t)
    /\ \A w \in Worker :
         call[w].step = "append" /\ call[w].task = t => events[t] = 0

IInv ==
  /\ TypeOK
  /\ Truthful
  /\ ~overlapped => Alone /\ Backed
  /\ ~overlapped /\ crashes = 0 => Once

LEMMA InitIInv == Init => IInv
<1> SUFFICES ASSUME Init PROVE IInv
  OBVIOUS
<1>1. \A w \in Worker : call[w] = NoCall
  BY DEF Init
<1>2. \A m \in Monitor : poll[m] = NoPoll
  BY DEF Init
<1>3. /\ \A t \in Task : NoSnapshot.known[t] = "absent"
      /\ NoSnapshot.flagged = {}
      /\ NoCall.copy = NoSnapshot /\ NoCall.step = "idle"
      /\ NoPoll.prev = NoSnapshot /\ NoPoll.view = NoSnapshot.known
      /\ NoPoll.told = {} /\ NoPoll.step = "idle"
  BY DEF NoSnapshot, NoCall, NoPoll, Idle
<1>4. snapshot = NoSnapshot /\ \A t \in Task : events[t] = 0
  BY DEF Init
<1>5. Truthful
  BY <1>1, <1>2, <1>3, <1>4 DEF Truthful
<1>6. Alone /\ Backed /\ Once
  BY <1>1, <1>2, <1>3, <1>4 DEF Alone, Backed, Once, Idle
<1> QED
  BY <1>5, <1>6, InitTypeOK DEF IInv

LEMMA NextTruthful == TypeOK /\ Truthful /\ [Next]_vars => Truthful'
<1> SUFFICES ASSUME TypeOK, Truthful, [Next]_vars
             PROVE  Truthful'
  OBVIOUS
<1> USE DEF Truthful
<1>0. /\ \A t \in Task : NoSnapshot.known[t] = "absent"
      /\ NoCall.copy = NoSnapshot /\ NoCall.step = "idle"
      /\ NoPoll.prev = NoSnapshot /\ NoPoll.view = NoSnapshot.known
      /\ NoPoll.told = {} /\ NoPoll.step = "idle"
  BY DEF NoSnapshot, NoCall, NoPoll, Idle
<1>1. ASSUME NEW t \in Task, Create(t)
      PROVE  Truthful'
  BY <1>1 DEF Create, TypeOK
<1>2. ASSUME NEW w \in Worker, NEW t \in Task, Complete(w, t)
      PROVE  Truthful'
  <2>1. /\ call'[w].step = "append" /\ call'[w].task = t
        /\ call'[w].copy = NoSnapshot
        /\ \A v \in Worker \ {w} : call'[v] = call[v]
    BY <1>2, Nulls, GotoType DEF Complete, CallStep
  <2>2. /\ status'[t] = "completed"
        /\ \A u \in Task \ {t} : status'[u] = status[u]
        /\ UNCHANGED <<events, snapshot, poll>>
    BY <1>2 DEF Complete, TypeOK
  <2>3. \A v \in Worker : call[v].task \in Task
    BY DEF TypeOK, Call
  <2> QED
    BY <1>0, <2>1, <2>2, <2>3
<1>3. ASSUME NEW w \in Worker, NEW t \in Task, Refuse(w, t)
      PROVE  Truthful'
  <2>1. /\ call'[w].step = "read" /\ call'[w].copy = NoSnapshot
        /\ \A v \in Worker \ {w} : call'[v] = call[v]
    BY <1>3, Nulls, GotoType DEF Refuse, CallStep
  <2> QED
    BY <1>0, <1>3, <2>1 DEF Refuse
<1>4. ASSUME NEW w \in Worker, Append(w)
      PROVE  Truthful'
  <2>1. call[w].task \in Task
    BY DEF TypeOK, Call
  <2>2. /\ call'[w].step = "read" /\ call'[w].copy = NoSnapshot
        /\ \A v \in Worker \ {w} : call'[v] = call[v]
    BY <1>4, <2>1, Nulls, GotoType DEF Append, CallStep
  <2>3. \A t \in Task : events'[t] > 0 => status[t] = "completed"
    BY <1>4, <2>1, AnnounceAdds DEF Append, TypeOK
  <2> QED
    BY <1>0, <1>4, <2>2, <2>3 DEF Append
<1>5. ASSUME NEW w \in Worker, ReadSnapshot(w)
      PROVE  Truthful'
  <2>1. call[w].task \in Task /\ snapshot \in Snapshot
    BY DEF TypeOK, Call
  <2>2. /\ call'[w].step = "write" /\ call'[w].copy = snapshot
        /\ \A v \in Worker \ {w} : call'[v] = call[v]
    BY <1>5, <2>1, GotoType DEF ReadSnapshot, CallStep
  <2> QED
    BY <1>5, <2>2 DEF ReadSnapshot
<1>6. ASSUME NEW w \in Worker, WriteSnapshot(w) \/ KillCall(w)
      PROVE  Truthful'
  <2>1. call'[w] = NoCall /\ \A v \in Worker \ {w} : call'[v] = call[v]
    BY <1>6 DEF WriteSnapshot, KillCall, TypeOK
  <2>2. UNCHANGED <<status, events, poll>>
    BY <1>6 DEF WriteSnapshot, KillCall
  <2>3. snapshot'.known \in {snapshot.known, call[w].copy.known}
    BY <1>6 DEF WriteSnapshot, KillCall
  <2> QED
    BY <1>0, <2>1, <2>2, <2>3
<1>7. ASSUME NEW m \in Monitor, StartPoll(m)
      PROVE  Truthful'
  <2>1. /\ poll'[m] = [step |-> "started", prev |-> snapshot,
                       view |-> NoSnapshot.known, told |-> {}]
        /\ \A n \in Monitor \ {m} : poll'[n] = poll[n]
    BY <1>7 DEF StartPoll, TypeOK
  <2> QED
    BY <1>0, <1>7, <2>1 DEF StartPoll
<1>8. ASSUME NEW m \in Monitor, List(m)
      PROVE  Truthful'
  <2>1. /\ poll'[m] = [step |-> "listed", prev |-> poll[m].prev,
                       view |-> status, told |-> {}]
        /\ \A n \in Monitor \ {m} : poll'[n] = poll[n]
    BY <1>8 DEF List, TypeOK
  <2> QED
    BY <1>8, <2>1 DEF List
<1>9. ASSUME NEW m \in Monitor, NEW t \in Task, Emit(m, t)
      PROVE  Truthful'
  <2>1. /\ poll[m].view[t] = "completed" /\ poll[m].step = "listed"
        /\ UNCHANGED <<status, snapshot, call>>
    BY <1>9 DEF Emit, Due
  <2>2. \A u \in Task : events'[u] > 0 => status[u] = "completed"
    BY <1>9, <2>1, AnnounceAdds DEF Emit, TypeOK
  <2> QED
    BY <1>9, <2>1, <2>2, EmitType
<1>10. ASSUME NEW m \in Monitor, EndPoll(m) \/ KillPoll(m)
       PROVE  Truthful'
  <2>1. poll'[m] = NoPoll /\ \A n \in Monitor \ {m} : poll'[n] = poll[n]
    BY <1>10 DEF EndPoll, KillPoll, TypeOK
  <2>2. UNCHANGED <<status, events, call>>
    BY <1>10 DEF EndPoll, KillPoll
  <2>3. snapshot'.known \in {snapshot.known, poll[m].view}
    BY <1>10 DEF EndPoll, KillPoll
  <2> QED
    BY <1>0, <2>1, <2>2, <2>3
<1>11. CASE UNCHANGED vars
  BY <1>11 DEF vars
<1> QED
  BY <1>1, <1>2, <1>3, <1>4, <1>5, <1>6, <1>7, <1>8, <1>9, <1>10, <1>11
     DEF Next, CallNext, Report

\* The rest of the invariant, one action at a time.
LEMMA NextAlone ==
  ASSUME IInv, [Next]_vars, ~overlapped'
  PROVE  Alone' /\ Backed' /\ (crashes' = 0 => Once')
<1> DEFINE Goal == Alone' /\ Backed' /\ (crashes' = 0 => Once')
<1> USE DEF IInv
<1>0. /\ NoCall.step = "idle" /\ NoPoll.step = "idle" /\ NoPoll.told = {}
      /\ Idle = "idle"
  BY DEF NoCall, NoPoll, Idle
<1>t. /\ \A w \in Worker : call[w].task \in Task /\ call[w].copy \in Snapshot
      /\ events \in [Task -> 0..2] /\ crashes \in Nat
  BY DEF TypeOK, Call
<1>1. ASSUME NEW t \in Task, Create(t)
      PROVE  Goal
  <2>1. UNCHANGED <<events, snapshot, call, poll, refused, overlapped, crashes>>
    BY <1>1 DEF Create
  <2> QED
    BY <2>1 DEF Alone, Backed, Once, Covered
<1>2. ASSUME NEW w \in Worker, NEW t \in Task, Complete(w, t)
      PROVE  Goal
  <2>1. /\ call'[w].step = "append" /\ call'[w].task = t
        /\ \A v \in Worker \ {w} : call'[v] = call[v]
    BY <1>2, Nulls, GotoType DEF Complete, CallStep
  <2>2. Quiet /\ ~overlapped /\ UNCHANGED <<events, snapshot, poll, refused, crashes>>
    BY <1>2 DEF Complete, Begin
  <2>3. events[t] = 0
    BY <1>2, <1>t DEF Complete, Truthful
  <2>4. Alone' /\ Backed'
    BY <1>0, <2>1, <2>2 DEF Quiet, Alone, Backed
  <2>5. ASSUME crashes = 0 PROVE Once'
    BY <1>0, <2>1, <2>2, <2>3, <2>5 DEF Quiet, Once, Covered
  <2> QED
    BY <2>2, <2>4, <2>5
<1>3. ASSUME NEW w \in Worker, NEW t \in Task, Refuse(w, t)
      PROVE  Goal
  <2>1. /\ call'[w].step = "read" /\ call'[w].task = t
        /\ \A v \in Worker \ {w} : call'[v] = call[v]
    BY <1>3, Nulls, GotoType DEF Refuse, CallStep
  <2>2. /\ Quiet /\ ~overlapped /\ refused' = refused \cup {t}
        /\ UNCHANGED <<events, snapshot, poll, crashes>>
    BY <1>3 DEF Refuse, Begin
  <2>4. Alone' /\ Backed'
    BY <1>0, <2>1, <2>2 DEF Quiet, Alone, Backed
  <2>5. ASSUME crashes = 0 PROVE Once'
    BY <1>0, <2>1, <2>2, <2>5 DEF Quiet, Once, Covered
  <2> QED
    BY <2>2, <2>4, <2>5
<1>4. ASSUME NEW w \in Worker, Append(w)
      PROVE  Goal
  <2> DEFINE t == call[w].task
  <2>1. /\ call[w].step = "append" /\ call'[w].step = "read" /\ call'[w].task = t
        /\ \A v \in Worker \ {w} : call'[v] = call[v]
    BY <1>4, <1>t, Nulls, GotoType DEF Append, CallStep
  <2>2. ~overlapped /\ UNCHANGED <<snapshot, poll, refused, crashes>>
    BY <1>4 DEF Append
  <2>3. /\ \A u \in Task \ {t} : events'[u] = events[u]
        /\ events'[t] >= 1 /\ (events[t] = 0 => events'[t] = 1)
    BY <1>4, <1>t, AnnounceAdds DEF Append
  <2>4. Alone'
    BY <1>0, <2>1, <2>2 DEF Alone
  <2>5. Backed'
    BY <2>1, <2>2, <2>3 DEF Backed
  <2>6. ASSUME crashes = 0 PROVE Once'
    <3>1. events[t] = 0 /\ events'[t] = 1
      BY <1>t, <2>1, <2>2, <2>3, <2>6 DEF Once
    <3>2. \A v \in Worker \ {w} : call'[v].step = "idle"
      BY <1>0, <2>1, <2>2 DEF Alone
    <3>3. \A u \in Task \ {t} : events'[u] <= 1 /\ (events'[u] = 1 => Covered(u)')
      <4> SUFFICES ASSUME NEW u \in Task \ {t}
                   PROVE  events'[u] <= 1 /\ (events'[u] = 1 => Covered(u)')
        OBVIOUS
      <4>1. events[u] <= 1 /\ (events[u] = 1 => Covered(u))
        BY <2>2, <2>6 DEF Once
      <4> QED
        BY <2>1, <2>2, <2>3, <4>1 DEF Covered
    <3>4. Covered(t)'
      BY <2>1 DEF Covered
    <3> QED
      BY <2>1, <3>1, <3>2, <3>3, <3>4 DEF Once
  <2> QED
    BY <2>2, <2>4, <2>5, <2>6
<1>5. ASSUME NEW w \in Worker, ReadSnapshot(w)
      PROVE  Goal
  <2>1. /\ call[w].step = "read" /\ call'[w].step = "write"
        /\ call'[w].task = call[w].task /\ call'[w].copy = snapshot
        /\ \A v \in Worker \ {w} : call'[v] = call[v]
    BY <1>5, <1>t, GotoType DEF ReadSnapshot, CallStep, TypeOK
  <2>2. ~overlapped /\ UNCHANGED <<events, snapshot, poll, refused, crashes>>
    BY <1>5 DEF ReadSnapshot
  <2>4. Alone' /\ Backed'
    BY <1>0, <2>1, <2>2 DEF Alone, Backed
  <2>5. ASSUME crashes = 0 PROVE Once'
    BY <2>1, <2>2, <2>5 DEF Once, Covered
  <2> QED
    BY <2>2, <2>4, <2>5
<1>6. ASSUME NEW w \in Worker, WriteSnapshot(w)
      PROVE  Goal
  <2>1. /\ call[w].step = "write" /\ call'[w].step = "idle"
        /\ \A v \in Worker \ {w} : call'[v] = call[v]
    BY <1>0, <1>6 DEF WriteSnapshot, TypeOK
  <2>2. ~overlapped /\ UNCHANGED <<events, poll, refused, crashes>>
    BY <1>6 DEF WriteSnapshot
  <2>3. /\ snapshot'.known = snapshot.known
        /\ snapshot'.flagged = snapshot.flagged \cup {call[w].task}
    BY <1>6, <2>1, <2>2 DEF WriteSnapshot, Alone
  <2>4. Alone' /\ Backed'
    BY <1>0, <2>1, <2>2, <2>3 DEF Alone, Backed
  <2>5. ASSUME crashes = 0 PROVE Once'
    BY <2>1, <2>2, <2>3, <2>5 DEF Once, Covered
  <2> QED
    BY <2>2, <2>4, <2>5
<1>7. ASSUME NEW m \in Monitor, StartPoll(m)
      PROVE  Goal
  <2>1. /\ poll'[m] = [step |-> "started", prev |-> snapshot,
                       view |-> NoSnapshot.known, told |-> {}]
        /\ \A n \in Monitor \ {m} : poll'[n] = poll[n]
    BY <1>7 DEF StartPoll, TypeOK
  <2>2. Quiet /\ ~overlapped /\ UNCHANGED <<events, snapshot, call, refused, crashes>>
    BY <1>7 DEF StartPoll, Begin
  <2>3. poll[m].told = {}
    BY <1>0, <2>2 DEF Quiet, Truthful
  <2>4. Alone' /\ Backed'
    BY <1>0, <2>1, <2>2 DEF Quiet, Alone, Backed
  <2>5. ASSUME crashes = 0 PROVE Once'
    BY <2>1, <2>2, <2>3, <2>5 DEF Once, Covered
  <2> QED
    BY <2>2, <2>4, <2>5
<1>8. ASSUME NEW m \in Monitor, List(m)
      PROVE  Goal
  <2>1. /\ poll'[m] = [step |-> "listed", prev |-> poll[m].prev,
                       view |-> status, told |-> {}]
        /\ \A n \in Monitor \ {m} : poll'[n] = poll[n]
    BY <1>8 DEF List, TypeOK
  <2>2. ~overlapped /\ UNCHANGED <<events, snapshot, call, refused, crashes>>
    BY <1>8 DEF List
  <2>3. poll[m].step # Idle /\ poll[m].told = {}
    BY <1>0, <1>8 DEF List, Truthful
  <2>4. Alone' /\ Backed'
    BY <1>0, <2>1, <2>2, <2>3 DEF Alone, Backed
  <2>5. ASSUME crashes = 0 PROVE Once'
    BY <2>1, <2>2, <2>3, <2>5 DEF Once, Covered
  <2> QED
    BY <2>2, <2>4, <2>5
<1>9. ASSUME NEW m \in Monitor, NEW t \in Task, Emit(m, t)
      PROVE  Goal
  <2>1. /\ poll[m].step = "listed" /\ poll'[m].step = "listed"
        /\ poll'[m].prev = poll[m].prev
        /\ poll'[m].told = poll[m].told \cup {t}
        /\ \A n \in Monitor \ {m} : poll'[n] = poll[n]
    BY <1>9, EmitType DEF Emit
  <2>2. ~overlapped /\ UNCHANGED <<snapshot, call, refused, crashes>>
    BY <1>9 DEF Emit
  <2>3. /\ \A u \in Task \ {t} : events'[u] = events[u]
        /\ events'[t] >= 1 /\ (events[t] = 0 => events'[t] = 1)
    BY <1>9, AnnounceAdds DEF Emit
  <2>4. Alone'
    BY <1>0, <2>1, <2>2 DEF Alone
  <2>5. Backed'
    BY <2>1, <2>2, <2>3 DEF Backed
  <2>6. ASSUME crashes = 0 PROVE Once'
    <3>1. poll[m].prev = snapshot /\ \A v \in Worker : call[v].step = "idle"
      BY <1>0, <2>1, <2>2 DEF Alone
    <3>2. \A n \in Monitor \ {m} : poll[n].step = "idle" /\ poll[n].told = {}
      BY <1>0, <2>1, <2>2 DEF Alone, Truthful
    <3>3. ~Covered(t)
      BY <1>9, <3>1, <3>2 DEF Covered, Emit, Due
    <3>4. events[t] = 0 /\ events'[t] = 1
      BY <1>t, <2>2, <2>3, <2>6, <3>3 DEF Once
    <3>5. Covered(t)'
      BY <2>1 DEF Covered
    <3>6. \A u \in Task \ {t} : events'[u] <= 1 /\ (events'[u] = 1 => Covered(u)')
      <4> SUFFICES ASSUME NEW u \in Task \ {t}
                   PROVE  events'[u] <= 1 /\ (events'[u] = 1 => Covered(u)')
        OBVIOUS
      <4>1. events[u] <= 1 /\ (events[u] = 1 => Covered(u))
        BY <2>2, <2>6 DEF Once
      <4> QED
        BY <2>1, <2>2, <2>3, <4>1 DEF Covered
    <3> QED
      BY <2>2, <3>1, <3>4, <3>5, <3>6 DEF Once
  <2> QED
    BY <2>2, <2>4, <2>5, <2>6
<1>10. ASSUME NEW m \in Monitor, EndPoll(m)
       PROVE  Goal
  <2>1. /\ poll[m].step = "listed" /\ poll'[m] = NoPoll
        /\ \A n \in Monitor \ {m} : poll'[n] = poll[n]
    BY <1>10 DEF EndPoll, TypeOK
  <2>2. ~overlapped /\ UNCHANGED <<events, call, refused, crashes>>
    BY <1>10 DEF EndPoll
  <2>3. /\ snapshot'.known = poll[m].view
        /\ snapshot'.flagged = snapshot.flagged
        /\ poll[m].prev = snapshot
    BY <1>0, <1>10, <2>1, <2>2 DEF EndPoll, Alone
  <2>4. Alone' /\ Backed'
    BY <1>0, <2>1, <2>2, <2>3 DEF Alone, Backed
  <2>5. ASSUME crashes = 0 PROVE Once'
    <3>1. \A n \in Monitor \ {m} : poll[n].told = {}
      BY <1>0, <2>1, <2>2 DEF Alone, Truthful
    <3>2. ASSUME NEW u \in Task, Covered(u) PROVE Covered(u)'
      <4>1. CASE u \in poll[m].told \/ snapshot.known[u] = "completed"
        BY <2>1, <2>3, <4>1 DEF Covered, Truthful
      <4> QED
        BY <2>2, <2>3, <3>1, <3>2, <4>1 DEF Covered
    <3> QED
      BY <2>2, <2>5, <3>2 DEF Once
  <2> QED
    BY <2>2, <2>4, <2>5
<1>11. ASSUME NEW w \in Worker, KillCall(w)
       PROVE  Goal
  <2>1. /\ call'[w].step = "idle"
        /\ \A v \in Worker \ {w} : call'[v] = call[v]
    BY <1>0, <1>11 DEF KillCall, TypeOK
  <2>2. /\ ~overlapped /\ crashes' # 0
        /\ UNCHANGED <<events, snapshot, poll, refused>>
    BY <1>11, <1>t DEF KillCall, Killed
  <2> QED
    BY <1>0, <2>1, <2>2 DEF Alone, Backed
<1>12. ASSUME NEW m \in Monitor, KillPoll(m)
       PROVE  Goal
  <2>1. /\ poll'[m].step = "idle" /\ poll'[m].told = {}
        /\ \A n \in Monitor \ {m} : poll'[n] = poll[n]
    BY <1>0, <1>12 DEF KillPoll, TypeOK
  <2>2. /\ ~overlapped /\ crashes' # 0
        /\ UNCHANGED <<events, snapshot, call, refused>>
    BY <1>12, <1>t DEF KillPoll, Killed
  <2> QED
    BY <1>0, <2>1, <2>2 DEF Alone, Backed
<1>13. CASE UNCHANGED vars
  BY <1>13 DEF vars, Alone, Backed, Once, Covered
<1> QED
  BY <1>1, <1>2, <1>3, <1>4, <1>5, <1>6, <1>7, <1>8, <1>9, <1>10, <1>11, <1>12,
     <1>13 DEF Next, CallNext, Report

LEMMA Invariant == Spec => []IInv
<1>1. IInv /\ [Next]_vars => IInv'
  BY NextKeepsTypes, NextTruthful, NextAlone DEF IInv
<1> QED
  BY <1>1, InitIInv, PTL DEF Spec

-----------------------------------------------------------------------------
(* Theorems.                                                               *)

\* For any number of tasks, calls and polls, no completion is announced twice
\* unless something was killed or two writers of the snapshot overlapped.
THEOREM AnnouncedOnce == Spec => []AtMostOnce
<1>1. IInv => AtMostOnce
  BY DEF IInv, Once, AtMostOnce
<1> QED
  BY <1>1, Invariant, PTL

\* The files are well typed and no completion is announced twice.
THEOREM Soundness == Spec => []Sound
<1>1. TypeOK /\ AtMostOnce => Sound
  BY DEF Sound
<1> QED
  BY <1>1, TypeCorrect, AnnouncedOnce, PTL

\* A poll that notes the completion of a task it knew to be open leaves it
\* announced, whatever was killed before, unless writers overlapped or a
\* refused call flagged the task.
THEOREM NothingForgotten == Spec => CaughtUp
<1> DEFINE Told ==
      ~overlapped' =>
        \A t \in Task \ refused :
          snapshot.known[t] = "open" /\ snapshot'.known[t] = "completed"
          => events[t] >= 1
<1>1. IInv /\ [Next]_vars => [Told]_vars
  <2> SUFFICES ASSUME IInv, [Next]_vars, ~overlapped',
                      NEW t \in Task \ refused, snapshot.known[t] = "open",
                      snapshot'.known[t] = "completed"
               PROVE  events[t] >= 1
    OBVIOUS
  <2> USE DEF IInv
  <2>1. snapshot'.known # snapshot.known
    OBVIOUS
  <2>2. CASE \E w \in Worker : WriteSnapshot(w)
    BY <2>1, <2>2 DEF WriteSnapshot, Alone
  <2>3. CASE \E m \in Monitor : EndPoll(m)
    <3>1. PICK m \in Monitor : EndPoll(m)
      BY <2>3
    <3>2. poll[m].prev = snapshot /\ poll[m].view[t] = "completed"
      BY <3>1 DEF EndPoll, Alone, Idle
    <3>3. t \in poll[m].told \/ t \in snapshot.flagged
      BY <3>1, <3>2 DEF EndPoll, Due
    <3> QED
      BY <3>1, <3>3 DEF EndPoll, Backed
  <2> QED
    BY <2>1, <2>2, <2>3 DEF Next, vars, CallNext, Report, Create, Complete,
       Refuse, Append, ReadSnapshot, KillCall, StartPoll, List, Emit, KillPoll
<1> QED
  BY <1>1, Invariant, PTL DEF Spec, CaughtUp
=============================================================================
