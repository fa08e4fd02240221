------------------------- MODULE WorkflowModesProofs -------------------------
(***************************************************************************)
(* Theorems about WorkflowModes, for any processes and any of the tracked  *)
(* modes: which modes may be active together, when the list of active      *)
(* skills is right, and who sets a stopped mode active.                    *)
(***************************************************************************)
EXTENDS WorkflowModes, TLAPS

USE ConstantAssumption

-----------------------------------------------------------------------------
(* What a process does, one call record at a time.                         *)

\* A call works on its own mode but while the list is told of a source mode,
\* which only a start has; and only the first update of a run sets it active.
Orderly(c) ==
  /\ c.step \notin {"sync", "save"} => c.target = c.mode
  /\ c.at # "start" => c.target = c.mode
  /\ c.step \in {"check", "source"} => c.at = "start"
  /\ c.step = "open" => c.op = "write"
  /\ c.at = "stage" => c.op \in {"pipeline", "ralplan"}
  /\ c.set = "on" => c.at \in {"start", "first"}

\* The entry of m in the list is still to be written.
Owes(c, m) ==
  c.op # "none" /\ c.step \in {"sync", "save"} /\ c.target = m

\* A start that has been let in and has yet to open its mode.
Clearing(c) ==
  /\ c.op \notin {"none", "cli"} /\ c.at = "start"
  /\ c.step = "source" \/ c.target # c.mode

\* Neither.
Quiet(c) == ~Clearing(c) /\ \A m \in Mode : ~Owes(c, m)

LEMMA NoModeIsMode == NoMode \in Mode
BY DEF NoMode

LEMMA NoCallIsCall ==
  NoCall \in Call /\ Orderly(NoCall) /\ Quiet(NoCall)
BY NoModeIsMode
   DEF NoCall, Call, Op, Run, Orderly, Quiet, Clearing, Owes

LEMMA NewIsCall ==
  ASSUME NEW op \in Op \ {"none"}, NEW m \in Mode
  PROVE  /\ New(op, m) \in Call /\ Orderly(New(op, m)) /\ Quiet(New(op, m))
         /\ New(op, m).op = op /\ New(op, m).mode = m
         /\ New(op, m).target = m /\ New(op, m).step = "check"
         /\ New(op, m).at = "start" /\ New(op, m).set = "keep"
BY NoModeIsMode, NoCallIsCall
   DEF New, NoCall, Call, Op, Run, Orderly, Quiet, Clearing, Owes

LEMMA UpdateIsCall ==
  ASSUME NEW c \in Call, c.target = c.mode,
         NEW at \in {"first", "stage", "last"}, NEW set \in {"on", "off", "keep"},
         at = "stage" => c.op \in {"pipeline", "ralplan"},
         set = "on" => at = "first"
  PROVE  /\ Update(c, at, set) \in Call /\ Orderly(Update(c, at, set))
         /\ Quiet(Update(c, at, set))
BY DEF Update, Call, Orderly, Quiet, Clearing, Owes

LEMMA ToSyncIsCall ==
  ASSUME NEW c \in Call, NEW m \in Mode, NEW on \in BOOLEAN,
         c.op # "none", c.at # "start" => m = c.mode,
         c.at = "stage" => c.op \in {"pipeline", "ralplan"},
         c.set = "on" => c.at \in {"start", "first"}
  PROVE  /\ ToSync(c, m, on) \in Call /\ Orderly(ToSync(c, m, on))
         /\ \A n \in Mode : Owes(ToSync(c, m, on), n) <=> n = m
         /\ ToSync(c, m, on).on = on
         /\ Clearing(ToSync(c, m, on)) =>
              c.op # "cli" /\ c.at = "start" /\ m # c.mode
         /\ ToSync(c, m, on).mode = c.mode /\ ToSync(c, m, on).need = c.need
BY DEF ToSync, Call, Orderly, Clearing, Owes

LEMMA OnwardIsCall ==
  ASSUME NEW c \in Call, Orderly(c)
  PROVE  /\ Onward(c) \in Call /\ Orderly(Onward(c))
         /\ \A m \in Mode : ~Owes(Onward(c), m)
         /\ Clearing(Onward(c)) => /\ Clearing(c)
                                   /\ Onward(c).mode = c.mode
                                   /\ Onward(c).need = c.need
<1>1. CASE c.target # c.mode
  BY <1>1 DEF Onward, Call, Orderly, Clearing, Owes
<1>2. CASE c.target = c.mode /\ (c.op \notin Run \/ c.at = "last")
  <2>1. Onward(c) = NoCall  BY <1>2 DEF Onward, Run
  <2>2. QED BY <2>1, NoCallIsCall DEF Quiet
<1>3. CASE c.target = c.mode /\ c.op \in Run /\ c.at = "start"
  <2>1. Onward(c) = Update(c, "first", c.set)  BY <1>3 DEF Onward
  <2>2. c.set \in {"on", "off", "keep"}  BY DEF Call
  <2>3. QED BY <1>3, <2>1, <2>2, UpdateIsCall DEF Quiet
<1>4. CASE /\ c.target = c.mode /\ c.op \in {"pipeline", "ralplan"}
           /\ c.at \in {"first", "stage"}
  <2>1. Onward(c) = Update(c, "stage", "keep")
    BY <1>4 DEF Onward, StageSet, Run
  <2>2. QED BY <1>4, <2>1, UpdateIsCall DEF Quiet
<1>5. CASE c.target = c.mode /\ c.op = "shutdown" /\ c.at = "first"
  <2>1. Onward(c) = Update(c, "last", "off")  BY <1>5 DEF Onward, Run
  <2>2. QED BY <1>5, <2>1, UpdateIsCall DEF Quiet
<1>6. CASE c.target = c.mode /\ c.op = "team" /\ c.at = "first"
  <2>1. Onward(c) = NoCall  BY <1>6 DEF Onward, Run
  <2>2. QED BY <2>1, NoCallIsCall DEF Quiet
<1>7. QED
  BY <1>1, <1>2, <1>3, <1>4, <1>5, <1>6 DEF Call, Run, Orderly

LEMMA ThrownIsCall ==
  ASSUME NEW c \in Call, Orderly(c)
  PROVE  Thrown(c) \in Call /\ Orderly(Thrown(c)) /\ Quiet(Thrown(c))
<1>1. CASE c.op = "ralplan" /\ c.at \in {"first", "stage"}
  <2>1. Thrown(c) = Update(c, "last", "off")  BY <1>1 DEF Thrown
  <2>2. c.target = c.mode  BY <1>1 DEF Orderly
  <2>3. QED BY <2>1, <2>2, UpdateIsCall
<1>2. CASE ~(c.op = "ralplan" /\ c.at \in {"first", "stage"})
  BY <1>2, NoCallIsCall DEF Thrown
<1>3. QED BY <1>1, <1>2

-----------------------------------------------------------------------------
(* Types.                                                                  *)

CInv == TypeOK /\ \A p \in Proc : Orderly(call[p])

LEMMA InitCInv == Init => CInv
<1> SUFFICES ASSUME Init  PROVE CInv
  OBVIOUS
<1>1. file \in [Mode -> File] /\ flag \in BOOLEAN  BY DEF Init, File
<1>2. call \in [Proc -> Call] /\ \A p \in Proc : Orderly(call[p])
  BY NoCallIsCall DEF Init
<1>3. calls \in 0..MaxCalls /\ kills \in 0..MaxKills  BY DEF Init
<1>4. QED BY <1>1, <1>2, <1>3 DEF Init, CInv, TypeOK

\* Process p goes on with c, a call in order.
Takes(p, c) ==
  /\ c \in Call /\ Orderly(c)
  /\ call' = [call EXCEPT ![p] = c]

LEMMA TakesKeepsCalls ==
  ASSUME CInv, NEW p \in Proc, NEW c, Takes(p, c)
  PROVE  /\ call' \in [Proc -> Call] /\ \A q \in Proc : Orderly(call'[q])
         /\ call'[p] = c /\ \A q \in Proc \ {p} : call'[q] = call[q]
BY DEF CInv, TypeOK, Takes

\* Calls that begin, read, or decide that they are done.
BeginsOrReads(p) ==
  \/ BeginPipeline(p) \/ BeginRalplan(p) \/ BeginCli(p)
  \/ BeginTeam(p, "on") \/ BeginTeam(p, "off") \/ BeginShutdown(p)
  \/ \E m \in Mode : BeginCancel(p, m) \/ \E on \in BOOLEAN : BeginWrite(p, m, on)
  \/ Read(p) \/ Finish(p)

Begun(p) == Idle(call[p]) /\ calls' \in 0..MaxCalls

LEMMA BeginIsBegun ==
  ASSUME CInv, NEW p \in Proc, NEW c, Begin(p, c)
  PROVE  Begun(p) /\ call' = [call EXCEPT ![p] = c] /\ Quiet(call[p])
BY DEF CInv, TypeOK, Begin, Begun, Idle, Quiet, Clearing, Owes

\* They change nothing but the call.
LEMMA BeginsOrReadsIs ==
  ASSUME CInv, NEW p \in Proc, BeginsOrReads(p)
  PROVE  /\ \E c : Takes(p, c) /\ Quiet(c)
         /\ \A m \in Mode : ~Owes(call[p], m)
         /\ calls' \in 0..MaxCalls
         /\ UNCHANGED <<file, skills, flag, surprised, unchecked, torn, kills>>
<1> USE DEF Unseen
<1>1. CASE BeginPipeline(p)
  <2> DEFINE N == New("pipeline", "autopilot")
             C == [N EXCEPT !.set = "on"]
  <2>1. /\ N \in Call /\ Orderly(N) /\ Quiet(N)
        /\ N.step = "check" /\ N.at = "start"
    BY <1>1, NewIsCall DEF BeginPipeline, Op, Run
  <2>2. C \in Call /\ Orderly(C) /\ Quiet(C)
    <3> HIDE DEF N
    <3>1. QED BY <2>1 DEF Call, Orderly, Quiet, Clearing, Owes
  <2>3. QED
    BY <1>1, <2>2, BeginIsBegun DEF BeginPipeline, Begun, Takes, Quiet
<1>2. CASE BeginRalplan(p)
  <2>1. /\ New("ralplan", "ralplan") \in Call
        /\ Orderly(New("ralplan", "ralplan")) /\ Quiet(New("ralplan", "ralplan"))
    BY <1>2, NewIsCall DEF BeginRalplan, Op, Run
  <2>2. QED
    BY <1>2, <2>1, BeginIsBegun DEF BeginRalplan, Begun, Takes, Quiet
<1>3. CASE BeginCli(p)
  <2>0. PICK linked \in SUBSET {m \in Mode \cap {"ultrawork"} : file[m] # "none"} :
          LET ralph == "ralph" \in Active
              found == IF ralph THEN {"ralph"} \cup linked ELSE Active
              all == flag /\ ~ralph IN
          Begin(p, [New("cli", NoMode) EXCEPT !.step = "source", !.need = found,
                      !.on = all, !.list = IF all THEN skills ELSE {}])
    BY <1>3 DEF BeginCli
  <2> DEFINE Ralph == "ralph" \in Active
             Found == IF Ralph THEN {"ralph"} \cup linked ELSE Active
             All == flag /\ ~Ralph
             List == IF All THEN skills ELSE {}
             N == New("cli", NoMode)
             C == [N EXCEPT !.step = "source", !.need = Found, !.on = All,
                            !.list = List]
  <2>1. /\ Found \in SUBSET Mode /\ All \in BOOLEAN
        /\ List \in SUBSET Mode
    <3>1. Found \in SUBSET Mode  BY DEF Active
    <3>2. All \in BOOLEAN  BY DEF CInv, TypeOK
    <3>3. List \in SUBSET Mode  BY DEF CInv, TypeOK
    <3>4. QED BY <3>1, <3>2, <3>3
  <2>2. /\ N \in Call /\ Orderly(N) /\ N.op = "cli" /\ N.target = N.mode
        /\ N.at = "start" /\ N.set = "keep"
    BY NewIsCall, NoModeIsMode DEF Op
  <2>3. C \in Call /\ Orderly(C) /\ Quiet(C)
    <3> HIDE DEF N, Found, All, List
    <3>1. QED BY <2>1, <2>2 DEF Call, Orderly, Quiet, Clearing, Owes
  <2>4. Begin(p, C)  BY <2>0
  <2> HIDE DEF C
  <2>5. QED
    BY <1>3, <2>3, <2>4, BeginIsBegun DEF BeginCli, Begun, Takes, Quiet
<1>4. ASSUME NEW set \in {"on", "off"}, BeginTeam(p, set)
      PROVE  /\ \E c : Takes(p, c) /\ Quiet(c)
             /\ \A m \in Mode : ~Owes(call[p], m)
             /\ calls' \in 0..MaxCalls
             /\ UNCHANGED <<file, skills, flag, surprised, unchecked, torn, kills>>
  <2> DEFINE N == New("team", "team")
             C == [N EXCEPT !.set = set]
             D == IF "team" \in Active THEN Update(C, "first", set) ELSE C
  <2>0. /\ N \in Call /\ Orderly(N) /\ Quiet(N) /\ N.target = N.mode
        /\ N.step = "check" /\ N.at = "start"
    BY <1>4, NewIsCall DEF BeginTeam, Op, Run
  <2>1. C \in Call /\ Orderly(C) /\ Quiet(C) /\ C.target = C.mode
    <3> HIDE DEF N
    <3>1. QED BY <2>0 DEF Call, Orderly, Quiet, Clearing, Owes
  <2>2. D \in Call /\ Orderly(D) /\ Quiet(D)
    BY <2>1, UpdateIsCall
  <2>3. QED
    BY <1>4, <2>2, BeginIsBegun DEF BeginTeam, Begun, Takes, Quiet
<1>5. CASE BeginShutdown(p)
  <2> DEFINE N == New("shutdown", "team")
             C == [N EXCEPT !.set = "on"]
  <2>1. /\ N \in Call /\ Orderly(N) /\ Quiet(N)
        /\ N.step = "check" /\ N.at = "start"
    BY <1>5, NewIsCall DEF BeginShutdown, Op, Run
  <2>2. C \in Call /\ Orderly(C) /\ Quiet(C)
    <3> HIDE DEF N
    <3>1. QED BY <2>1 DEF Call, Orderly, Quiet, Clearing, Owes
  <2>3. QED
    BY <1>5, <2>2, BeginIsBegun DEF BeginShutdown, Begun, Takes, Quiet
<1>6. ASSUME NEW m \in Mode, BeginCancel(p, m)
      PROVE  /\ \E c : Takes(p, c) /\ Quiet(c)
             /\ \A n \in Mode : ~Owes(call[p], n)
             /\ calls' \in 0..MaxCalls
             /\ UNCHANGED <<file, skills, flag, surprised, unchecked, torn, kills>>
  <2> DEFINE C == Update(New("cancel", m), "last", "off")
  <2>1. C \in Call /\ Orderly(C) /\ Quiet(C)
    BY NewIsCall, UpdateIsCall DEF Op
  <2>2. QED
    BY <1>6, <2>1, BeginIsBegun DEF BeginCancel, Begun, Takes, Quiet
<1>7. ASSUME NEW m \in Mode, NEW on \in BOOLEAN, BeginWrite(p, m, on)
      PROVE  /\ \E c : Takes(p, c) /\ Quiet(c)
             /\ \A n \in Mode : ~Owes(call[p], n)
             /\ calls' \in 0..MaxCalls
             /\ UNCHANGED <<file, skills, flag, surprised, unchecked, torn, kills>>
  <2> DEFINE N == New("write", m)
             C == [N EXCEPT !.step = IF on THEN "check" ELSE "open", !.on = on]
  <2>1. /\ N \in Call /\ Orderly(N) /\ N.op = "write" /\ N.target = N.mode
        /\ N.at = "start" /\ N.set = "keep"
    BY NewIsCall DEF Op
  <2>2. C \in Call /\ Orderly(C) /\ Quiet(C)
    <3> HIDE DEF N
    <3>1. QED BY <2>1 DEF Call, Orderly, Quiet, Clearing, Owes
  <2>3. QED
    BY <1>7, <2>2, BeginIsBegun DEF BeginWrite, Begun, Takes, Quiet
<1>8. CASE Read(p)
  <2> DEFINE c == call[p]
             C == [c EXCEPT !.step = "write", !.copy = file[c.mode] = "active"]
  <2>1. c \in Call /\ Orderly(c) /\ c.step = "read"
    BY <1>8 DEF CInv, TypeOK, Read, At
  <2>2. C \in Call /\ Orderly(C) /\ Quiet(C)
    BY <2>1 DEF Call, Orderly, Quiet, Clearing, Owes
  <2>3. \A m \in Mode : ~Owes(c, m)  BY <2>1 DEF Owes
  <2>4. CASE file[c.mode] # "none"
    BY <1>8, <2>2, <2>3, <2>4 DEF Read, Takes, CInv, TypeOK
  <2>5. CASE file[c.mode] = "none"
    BY <1>8, <2>1, <2>3, <2>5, ThrownIsCall DEF Read, Takes, CInv, TypeOK
  <2>6. QED BY <2>4, <2>5
<1>9. CASE Finish(p)
  <2> DEFINE c == call[p]
  <2>1. c \in Call /\ Orderly(c) /\ c.step = "read"
    BY <1>9 DEF CInv, TypeOK, Finish, At
  <2>2. LET C == Update(c, "last", "off") IN C \in Call /\ Orderly(C) /\ Quiet(C)
    BY <2>1, UpdateIsCall DEF Orderly
  <2>3. \A m \in Mode : ~Owes(c, m)  BY <2>1 DEF Owes
  <2>4. QED BY <1>9, <2>2, <2>3 DEF Finish, Takes, CInv, TypeOK
<1>10. QED
  BY <1>1, <1>2, <1>3, <1>4, <1>5, <1>6, <1>7, <1>8, <1>9 DEF BeginsOrReads

\* Files are stopped: the list is not told.
Stops(p) == Shutdown(p) \/ CliWrite(p)

LEMMA StopsIs ==
  ASSUME CInv, NEW p \in Proc, Stops(p)
  PROVE  \E m \in Mode, c \in Call :
           /\ Takes(p, c) /\ Quiet(c) /\ \A n \in Mode : ~Owes(call[p], n)
           /\ calls' \in 0..MaxCalls
           /\ file' = [file EXCEPT ![m] = "inactive"]
           /\ unchecked' = unchecked \ {m} /\ torn' = torn \cup {m}
           /\ UNCHANGED <<skills, flag, surprised, kills>>
<1>1. CASE Shutdown(p)
  BY <1>1, BeginIsBegun, NoCallIsCall DEF Shutdown, Begun, Takes, Quiet
<1>2. CASE CliWrite(p)
  <2> DEFINE c == call[p]
  <2>1. /\ c \in Call /\ Orderly(c) /\ c.step = "source" /\ c.op = "cli"
        /\ \A n \in Mode : ~Owes(c, n)
    BY <1>2 DEF CInv, TypeOK, CliWrite, At, Owes
  <2>2. PICK m \in c.need :
          /\ call' = [call EXCEPT ![p] = IF c.need = {m} /\ ~c.on THEN NoCall
                                         ELSE [c EXCEPT !.need = c.need \ {m}]]
          /\ file' = [file EXCEPT ![m] = "inactive"]
          /\ unchecked' = unchecked \ {m} /\ torn' = torn \cup {m}
    BY <1>2 DEF CliWrite
  <2>3. m \in Mode  BY <2>1 DEF Call
  <2> DEFINE C == IF c.need = {m} /\ ~c.on THEN NoCall
                  ELSE [c EXCEPT !.need = c.need \ {m}]
  <2>4. C \in Call /\ Orderly(C) /\ Quiet(C)
    BY <2>1, NoCallIsCall DEF Call, Orderly, Quiet, Clearing, Owes
  <2>5. call' = [call EXCEPT ![p] = C]  BY <2>2
  <2>6. Takes(p, C)  BY <2>4, <2>5 DEF Takes
  <2>7. calls' \in 0..MaxCalls /\ UNCHANGED <<skills, flag, surprised, kills>>
    BY <1>2 DEF CliWrite, CInv, TypeOK
  <2> HIDE DEF C
  <2>8. QED BY <2>1, <2>2, <2>3, <2>4, <2>6, <2>7
<1>3. QED BY <1>1, <1>2 DEF Stops

\* The list is written back as it was read.
LEMMA CliListIs ==
  ASSUME CInv, NEW p \in Proc, CliList(p)
  PROVE  /\ \E c : Takes(p, c) /\ Quiet(c)
         /\ \A n \in Mode : ~Owes(call[p], n)
         /\ call[p].list \subseteq Mode
         /\ skills' = call[p].list /\ flag' = FALSE
         /\ torn' = torn \cup (call[p].list \ skills) \cup (skills \ call[p].list)
         /\ UNCHANGED <<file, surprised, unchecked, calls, kills>>
<1> DEFINE c == call[p]
           C == IF c.need = {} THEN NoCall ELSE [c EXCEPT !.on = FALSE, !.list = {}]
<1>1. /\ c \in Call /\ Orderly(c) /\ c.step = "source" /\ c.op = "cli"
      /\ \A n \in Mode : ~Owes(c, n)
  BY DEF CInv, TypeOK, CliList, At, Owes
<1>2. C \in Call /\ Orderly(C) /\ Quiet(C)
  <2>1. CASE c.need = {}  BY <2>1, NoCallIsCall
  <2>2. CASE c.need # {}
    <3> DEFINE D == [c EXCEPT !.on = FALSE, !.list = {}]
    <3>1. /\ D \in Call /\ D.op = "cli" /\ D.step = "source" /\ D.at = c.at
          /\ D.mode = c.mode /\ D.target = c.target /\ D.set = c.set
      BY <1>1 DEF Call
    <3>2. C = D  BY <2>2
    <3> HIDE DEF D
    <3>3. Orderly(D) /\ Quiet(D)
      BY <1>1, <3>1 DEF Orderly, Quiet, Clearing, Owes
    <3>4. QED BY <3>1, <3>2, <3>3
  <2>3. QED BY <2>1, <2>2
<1>3. call' = [call EXCEPT ![p] = C]  BY DEF CliList
<1> HIDE DEF C
<1>4. Takes(p, C)  BY <1>2, <1>3 DEF Takes
<1>5. c.list \subseteq Mode  BY <1>1 DEF Call
<1>6. QED BY <1>1, <1>2, <1>4, <1>5 DEF CliList

\* The file of a mode is written, and the list is to be told what it says.
Puts(p) == Open(p) \/ Write(p) \/ \E m \in Mode : Clear(p, m)

\* Whoever may set a mode active: a start that was let in unsurprised, with
\* nothing left to complete, or one that finds the mode active.
LetIn(p, m) ==
  \/ m \in Active
  \/ /\ p \notin surprised /\ Clearing(call[p])
     /\ call[p].mode = m /\ call[p].need = {}

LEMMA PutsIs ==
  ASSUME CInv, NEW p \in Proc, Puts(p)
  PROVE  \E m \in Mode, value \in File, check \in BOOLEAN, c \in Call :
           /\ Takes(p, c) /\ ~Clearing(c) /\ Put(p, m, value, check)
           /\ \A n \in Mode : Owes(c, n) <=> n = m
           /\ \A n \in Mode : ~Owes(call[p], n)
           /\ c.on = (value = "active")
           /\ value = "active" /\ check => LetIn(p, m)
           /\ calls' \in 0..MaxCalls /\ UNCHANGED <<skills, flag, kills>>
<1>1. CASE Open(p)
  <2> DEFINE c == call[p]
             m == c.mode
             on == c.op # "write" \/ c.step = "source"
             C == ToSync(c, m, on)
             value == IF on THEN "active" ELSE "inactive"
  <2>1. /\ c \in Call /\ Orderly(c) /\ c.step \in {"source", "open"}
        /\ c.op \notin {"none", "cli"} /\ m \in Mode
        /\ c.step = "source" => c.need = {}
    BY <1>1 DEF CInv, TypeOK, Open, At, Orderly, Call
  <2>0. on \in BOOLEAN  OBVIOUS
  <2>2. /\ C \in Call /\ Orderly(C) /\ ~Clearing(C) /\ C.on = on
        /\ \A n \in Mode : Owes(C, n) <=> n = m
    <3> HIDE DEF on
    <3>1. QED BY <2>1, <2>0, ToSyncIsCall DEF Orderly
  <2>3. \A n \in Mode : ~Owes(c, n)  BY <2>1 DEF Owes
  <2>4. Put(p, m, value, p \notin surprised)  BY <1>1 DEF Open
  <2>5. value = "active" /\ p \notin surprised => LetIn(p, m)
    BY <2>1 DEF LetIn, Clearing, Orderly
  <2>6. Takes(p, C)  BY <1>1, <2>2 DEF Open, Takes
  <2>7. calls' \in 0..MaxCalls /\ UNCHANGED <<skills, flag, kills>>
    BY <1>1 DEF Open, CInv, TypeOK
  <2>8. value \in File /\ C.on = (value = "active")  BY <2>2 DEF File
  <2>9. (p \notin surprised) \in BOOLEAN  OBVIOUS
  <2> HIDE DEF C, value, m
  <2>10. QED BY <2>1, <2>2, <2>3, <2>4, <2>5, <2>6, <2>7, <2>8, <2>9
<1>2. CASE Write(p)
  <2> DEFINE c == call[p]
             m == c.mode
             on == IF c.set = "keep" THEN c.copy ELSE c.set = "on"
             C == ToSync(c, m, on)
             value == IF on THEN "active" ELSE "inactive"
  <2>1. /\ c \in Call /\ Orderly(c) /\ c.step = "write"
        /\ c.op # "none" /\ m \in Mode /\ on \in BOOLEAN
    BY <1>2 DEF CInv, TypeOK, Write, At, Call
  <2>2. /\ C \in Call /\ Orderly(C) /\ ~Clearing(C) /\ C.on = on
        /\ \A n \in Mode : Owes(C, n) <=> n = m
    BY <2>1, ToSyncIsCall DEF Orderly
  <2>3. \A n \in Mode : ~Owes(c, n)  BY <2>1 DEF Owes
  <2>4. Put(p, m, value, m \in Active)  BY <1>2 DEF Write
  <2>5. m \in Active => LetIn(p, m)  BY DEF LetIn
  <2>6. Takes(p, C)  BY <1>2, <2>2 DEF Write, Takes
  <2>7. calls' \in 0..MaxCalls /\ UNCHANGED <<skills, flag, kills>>
    BY <1>2 DEF Write, CInv, TypeOK
  <2>8. value \in File /\ C.on = (value = "active")  BY <2>1, <2>2 DEF File
  <2> DEFINE check == m \in Active
  <2>9. check \in BOOLEAN  BY DEF Active
  <2>10. Put(p, m, value, check) /\ (value = "active" /\ check => LetIn(p, m))
    BY <2>4, <2>5
  <2> HIDE DEF C, value, m, check
  <2>11. QED BY <2>1, <2>2, <2>3, <2>6, <2>7, <2>8, <2>9, <2>10
<1>3. ASSUME NEW m \in Mode, Clear(p, m)
      PROVE  \E value \in File, check \in BOOLEAN, c \in Call :
               /\ Takes(p, c) /\ ~Clearing(c) /\ Put(p, m, value, check)
               /\ \A n \in Mode : Owes(c, n) <=> n = m
               /\ \A n \in Mode : ~Owes(call[p], n)
               /\ c.on = (value = "active")
               /\ value = "active" /\ check => LetIn(p, m)
               /\ calls' \in 0..MaxCalls /\ UNCHANGED <<skills, flag, kills>>
  <2> DEFINE N == New("clear", m)
             off == FALSE
             C == ToSync(N, m, off)
  <2>1. /\ N \in Call /\ Orderly(N) /\ N.op = "clear" /\ N.mode = m
        /\ N.at = "start"
    BY NewIsCall DEF Op
  <2>0. off \in BOOLEAN  OBVIOUS
  <2>2. /\ C \in Call /\ Orderly(C) /\ ~Clearing(C) /\ C.on = off
        /\ \A n \in Mode : Owes(C, n) <=> n = m
    <3> HIDE DEF N, off
    <3>1. QED BY <2>1, <2>0, ToSyncIsCall DEF Orderly
  <2>3. Takes(p, C) /\ calls' \in 0..MaxCalls /\ Quiet(call[p])
    BY <1>3, <2>2, BeginIsBegun DEF Clear, Begun, Takes
  <2>4. Put(p, m, "none", TRUE) /\ UNCHANGED <<skills, flag, kills>>
    BY <1>3 DEF Clear
  <2> HIDE DEF C
  <2>5. QED BY <2>2, <2>3, <2>4 DEF Quiet, File
<1>4. QED BY <1>1, <1>2, <1>3 DEF Puts

LEMMA CompleteIs ==
  ASSUME CInv, NEW p \in Proc, NEW s \in Mode, Complete(p, s)
  PROVE  /\ \E c : /\ Takes(p, c) /\ c.on = FALSE
                   /\ \A n \in Mode : Owes(c, n) <=> n = s
                   /\ Clearing(c) => /\ Clearing(call[p])
                                     /\ c.mode = call[p].mode
                                     /\ c.need = call[p].need \ {s}
         /\ \A n \in Mode : ~Owes(call[p], n)
<1> DEFINE c == call[p]
           D == [c EXCEPT !.need = c.need \ {s}]
           off == FALSE
           C == ToSync(D, s, off)
<1>1. /\ c \in Call /\ Orderly(c) /\ c.step = "source"
      /\ c.op \notin {"none", "cli"} /\ c.at = "start"
  BY DEF CInv, TypeOK, Complete, At, Orderly
<1>2. /\ D \in Call /\ D.op = c.op /\ D.at = "start" /\ D.set = c.set
      /\ D.need = c.need \ {s} /\ D.mode = c.mode
  BY <1>1 DEF Call
<1>0. off \in BOOLEAN  OBVIOUS
<1> HIDE DEF D, off
<1>3. /\ C \in Call /\ Orderly(C) /\ C.on = off
      /\ C.mode = c.mode /\ C.need = c.need \ {s}
      /\ \A n \in Mode : Owes(C, n) <=> n = s
  BY <1>1, <1>2, <1>0, ToSyncIsCall DEF Orderly
<1>4. call' = [call EXCEPT ![p] = C]  BY DEF Complete, D, off
<1>5. Takes(p, C)  BY <1>3, <1>4 DEF Takes
<1>6. Clearing(c) /\ \A n \in Mode : ~Owes(c, n)
  BY <1>1 DEF Clearing, Owes
<1> HIDE DEF C
<1>7. QED BY <1>3, <1>5, <1>6 DEF off

LEMMA CheckIs ==
  ASSUME CInv, NEW p \in Proc, Check(p)
  PROVE  /\ \E c : /\ Takes(p, c) /\ \A n \in Mode : ~Owes(c, n)
                   /\ Clearing(c) => /\ c.mode = call[p].mode
                                     /\ Allowed(Visible, c.mode)
                                     /\ c.need = Sources(Visible, c.mode)
         /\ \A n \in Mode : ~Owes(call[p], n)
<1> DEFINE c == call[p]
           m == c.mode
           D == [c EXCEPT !.step = "source", !.need = Sources(Visible, m)]
<1>1. /\ c \in Call /\ Orderly(c) /\ c.step = "check"
      /\ \A n \in Mode : ~Owes(c, n)
  BY DEF CInv, TypeOK, Check, At, Owes
<1>2. Sources(Visible, m) \subseteq Mode
  BY DEF Sources, Visible, Active, CInv, TypeOK
<1>3. CASE Allowed(Visible, m)
  <2>1. D \in Call /\ D.step = "source" /\ D.target = c.target
        /\ D.mode = m /\ D.need = Sources(Visible, m)
        /\ D.at = c.at /\ D.set = c.set
    BY <1>1, <1>2 DEF Call
  <2>2. call' = [call EXCEPT ![p] = D]  BY <1>3 DEF Check
  <2> HIDE DEF D
  <2>3. Orderly(D) /\ \A n \in Mode : ~Owes(D, n)
    BY <1>1, <2>1 DEF Orderly, Owes
  <2>4. Takes(p, D)  BY <2>1, <2>2, <2>3 DEF Takes
  <2>5. QED BY <1>1, <1>3, <2>1, <2>3, <2>4
<1>4. CASE ~Allowed(Visible, m)
  BY <1>1, <1>4, NoCallIsCall DEF Check, Takes, Quiet
<1>5. QED BY <1>3, <1>4

\* The list is read, if it allows the mode: else the entry is given up.
LEMMA SyncIs ==
  ASSUME CInv, NEW p \in Proc, Sync(p)
  PROVE  \E m \in Mode, c \in Call :
           /\ Owes(call[p], m) /\ Takes(p, c)
           /\ Clearing(c) => /\ Clearing(call[p])
                             /\ c.mode = call[p].mode /\ c.need = call[p].need
           /\ \A n \in Mode : Owes(call[p], n) <=> n = m
           /\ \/ /\ torn' = torn /\ \A n \in Mode : Owes(c, n) <=> n = m
                 /\ c.on \in {call[p].on, m \in Active}
              \/ torn' = torn \cup {m} /\ \A n \in Mode : ~Owes(c, n)
<1> DEFINE c == call[p]
           m == c.target
           on == IF c.op = "write" /\ m = c.mode THEN m \in Active ELSE c.on
           gone == c.op = "write" /\ m = c.mode /\ file[m] = "none"
           ok == ~gone /\ (on => Allowed(skills, m))
           D == [c EXCEPT !.step = "save", !.on = on, !.list = skills]
<1>1. /\ c \in Call /\ Orderly(c) /\ c.step = "sync" /\ m \in Mode
      /\ c.op # "none" /\ \A n \in Mode : Owes(c, n) <=> n = m
  BY DEF CInv, TypeOK, Sync, At, Owes, Call
<1>2. CASE ok
  <2>1. on \in BOOLEAN /\ skills \subseteq Mode
    <3>1. (m \in Active) \in BOOLEAN  BY DEF Active
    <3>2. c.on \in BOOLEAN  BY <1>1 DEF Call
    <3>3. QED BY <3>1, <3>2, ZenonT(20) DEF CInv, TypeOK
  <2>2. call' = [call EXCEPT ![p] = D] /\ torn' = torn  BY <1>2 DEF Sync
  <2>3. on \in {c.on, m \in Active}  OBVIOUS
  <2> HIDE DEF on, ok, gone
  <2>4. /\ D \in Call /\ D.step = "save" /\ D.on = on /\ D.target = m
        /\ D.op = c.op /\ D.at = c.at /\ D.mode = c.mode /\ D.set = c.set
        /\ D.need = c.need
    BY <1>1, <2>1 DEF Call
  <2> HIDE DEF D
  <2>5. /\ Orderly(D) /\ \A n \in Mode : Owes(D, n) <=> n = m
        /\ Clearing(D) => Clearing(c)
    BY <1>1, <2>4 DEF Orderly, Owes, Clearing
  <2>6. Takes(p, D)  BY <2>2, <2>4, <2>5 DEF Takes
  <2>7. QED BY <1>1, <2>2, <2>3, <2>4, <2>5, <2>6
<1>3. CASE ~ok
  <2>1. call' = [call EXCEPT ![p] = Thrown(c)] /\ torn' = torn \cup {m}
    BY <1>3 DEF Sync
  <2>2. Takes(p, Thrown(c)) /\ Quiet(Thrown(c))
    BY <1>1, <2>1, ThrownIsCall DEF Takes
  <2>3. m \in Mode /\ Thrown(c) \in Call  BY <1>1, <2>2 DEF Takes
  <2>4. ~Clearing(Thrown(c)) /\ \A n \in Mode : ~Owes(Thrown(c), n)
    BY <2>2 DEF Quiet
  <2> HIDE DEF on, ok, gone, m
  <2>5. QED BY <1>1, <2>1, <2>2, <2>3, <2>4
<1>4. QED BY <1>2, <1>3

LEMMA SaveIs ==
  ASSUME CInv, NEW p \in Proc, Save(p)
  PROVE  /\ \E c : /\ Takes(p, c) /\ \A n \in Mode : ~Owes(c, n)
                   /\ Clearing(c) => /\ Clearing(call[p])
                                     /\ c.mode = call[p].mode
                                     /\ c.need = call[p].need
         /\ call[p].list \subseteq Mode /\ call[p].target \in Mode
         /\ \A n \in Mode : Owes(call[p], n) <=> n = call[p].target
<1>1. /\ call[p] \in Call /\ Orderly(call[p]) /\ At(p, "save")
      /\ call' = [call EXCEPT ![p] = Onward(call[p])]
  BY DEF CInv, TypeOK, Save
<1>2. Takes(p, Onward(call[p]))  BY <1>1, OnwardIsCall DEF Takes
<1>3. QED BY <1>1, <1>2, OnwardIsCall DEF At, Owes, Call

LEMMA KillIs ==
  ASSUME CInv, NEW p \in Proc, Kill(p)
  PROVE  /\ \E c : Takes(p, c) /\ Quiet(c)
         /\ \A n \in Mode : Owes(call[p], n) => n \in torn'
         /\ torn \subseteq torn' /\ torn' \subseteq Mode
<1>1. call[p] \in Call /\ torn \subseteq Mode  BY DEF CInv, TypeOK
<1>2. Takes(p, NoCall)  BY NoCallIsCall DEF Kill, Takes
<1>3. QED BY <1>1, <1>2, NoCallIsCall DEF Kill, Owes, Call

LEMMA EveryStepIs ==
  ASSUME Next
  PROVE  \E p \in Proc :
           \/ BeginsOrReads(p) \/ Stops(p) \/ CliList(p) \/ Puts(p) \/ Check(p)
           \/ \E s \in Mode : Complete(p, s)
           \/ Sync(p) \/ Save(p) \/ Kill(p)
BY DEF Next, BeginsOrReads, Stops, Puts

LEMMA NextKeepsCInv == CInv /\ [Next]_vars => CInv'
<1> SUFFICES ASSUME CInv, [Next]_vars  PROVE CInv'
  OBVIOUS
<1>1. CASE UNCHANGED vars
  BY <1>1 DEF vars, CInv, TypeOK
<1>2. CASE Next
  <2>1. PICK p \in Proc :
          \/ BeginsOrReads(p) \/ Stops(p) \/ CliList(p) \/ Puts(p) \/ Check(p)
          \/ \E s \in Mode : Complete(p, s)
          \/ Sync(p) \/ Save(p) \/ Kill(p)
    BY <1>2, EveryStepIs
  <2> SUFFICES ASSUME NEW c, Takes(p, c)
               PROVE  /\ file' \in [Mode -> File] /\ skills' \subseteq Mode
                      /\ flag' \in BOOLEAN
                      /\ surprised' \subseteq Proc /\ unchecked' \subseteq Mode
                      /\ torn' \subseteq Mode
                      /\ calls' \in 0..MaxCalls /\ kills' \in 0..MaxKills
    <3>1. \E c : Takes(p, c)
      BY <2>1, BeginsOrReadsIs, StopsIs, CliListIs, PutsIs, CheckIs, CompleteIs, SyncIs,
         SaveIs, KillIs
    <3>2. QED BY <3>1, TakesKeepsCalls DEF CInv, TypeOK
  <2>2. CASE BeginsOrReads(p)
    BY <2>2, BeginsOrReadsIs DEF CInv, TypeOK
  <2>3. CASE Stops(p)
    <3>1. PICK m \in Mode :
            /\ calls' \in 0..MaxCalls
            /\ file' = [file EXCEPT ![m] = "inactive"]
            /\ unchecked' = unchecked \ {m} /\ torn' = torn \cup {m}
            /\ UNCHANGED <<skills, flag, surprised, kills>>
      BY <2>3, StopsIs
    <3>2. QED BY <3>1 DEF CInv, TypeOK, File
  <2>4. CASE Puts(p)
    <3>1. PICK m \in Mode, value \in File, check \in BOOLEAN :
            /\ Put(p, m, value, check)
            /\ calls' \in 0..MaxCalls /\ UNCHANGED <<skills, flag, kills>>
      BY <2>4, PutsIs
    <3>2. QED BY <3>1 DEF CInv, TypeOK, Put, Checked
  <2>5. CASE Check(p)
    BY <2>5 DEF CInv, TypeOK, Check
  <2>6. ASSUME NEW s \in Mode, Complete(p, s)
        PROVE  /\ file' \in [Mode -> File] /\ skills' \subseteq Mode
               /\ flag' \in BOOLEAN
               /\ surprised' \subseteq Proc /\ unchecked' \subseteq Mode
               /\ torn' \subseteq Mode
               /\ calls' \in 0..MaxCalls /\ kills' \in 0..MaxKills
    BY <2>6 DEF CInv, TypeOK, File, Complete
  <2>7. CASE Sync(p)
    BY <2>7, SyncIs DEF CInv, TypeOK, Sync
  <2>8. CASE Save(p)
    <3>1. call[p].list \subseteq Mode /\ call[p].target \in Mode
      BY <2>8, SaveIs
    <3>2. skills' = IF call[p].on THEN call[p].list \cup {call[p].target}
                    ELSE call[p].list \ {call[p].target}
      BY <2>8 DEF Save
    <3>3. flag' \in BOOLEAN  BY <2>8 DEF Save
    <3>4. skills' \subseteq Mode  BY <3>1, <3>2
    <3>5. torn' \subseteq Mode
      BY <2>8, <3>1 DEF Save, CInv, TypeOK
    <3>6. UNCHANGED <<file, surprised, unchecked, calls, kills>>
      BY <2>8 DEF Save
    <3>7. QED BY <3>3, <3>4, <3>5, <3>6 DEF CInv, TypeOK
  <2>9. CASE Kill(p)
    <3>1. torn' \subseteq Mode  BY <2>9, KillIs
    <3>2. /\ UNCHANGED <<file, skills, flag, surprised, unchecked, calls>>
          /\ kills < MaxKills /\ kills' = kills + 1
      BY <2>9 DEF Kill
    <3>3. QED BY <3>1, <3>2 DEF CInv, TypeOK
  <2>10. CASE CliList(p)
    BY <2>10, CliListIs DEF CInv, TypeOK
  <2>11. QED
    BY <2>1, <2>2, <2>3, <2>4, <2>5, <2>6, <2>7, <2>8, <2>9, <2>10
<1>3. QED BY <1>1, <1>2

LEMMA CallsStayInOrder == Spec => []CInv
<1>1. Init => CInv  BY InitCInv
<1>2. CInv /\ [Next]_vars => CInv'  BY NextKeepsCInv
<1>3. QED BY <1>1, <1>2, PTL DEF Spec

\* The state and every call in hand have their types: the records that the
\* starts, the updates and the syncs pass on to one another.
THEOREM TypeCorrect == Spec => []TypeOK
<1>1. CInv => TypeOK  BY DEF CInv
<1>2. QED BY <1>1, CallsStayInOrder, PTL

-----------------------------------------------------------------------------
(* Which modes are active together.                                        *)

\* Active modes that a valid check has let in.
Vouched == Active \ unchecked

Shares(a, m) == a = m \/ Overlap(a, m)

\* A start that no other start has overtaken knows every such mode: it may
\* stand beside its own, or is one that it has still to complete.
Foreseen(p) ==
  Clearing(call[p]) => \A a \in Vouched :
                         Shares(a, call[p].mode) \/ a \in call[p].need

ExInv ==
  /\ \A a, b \in Vouched : Shares(a, b)
  /\ \A p \in Proc \ surprised : Foreseen(p)

LEMMA ExInvIsExclusive == ExInv => Exclusive
BY DEF ExInv, Exclusive, Vouched, Shares

LEMMA InitExInv == Init => ExInv
BY NoCallIsCall DEF Init, ExInv, Foreseen, Vouched, Active, Quiet

LEMMA SharesIsSymmetric ==
  \A a, b : Shares(a, b) <=> Shares(b, a)
BY DEF Shares, Overlap

\* A step that lets no mode in keeps what the others have foreseen.
LEMMA FewerVouched ==
  ASSUME CInv, ExInv, NEW p \in Proc, NEW c, Takes(p, c),
         Vouched' \subseteq Vouched, surprised \subseteq surprised' \cup {p},
         p \notin surprised' => Foreseen(p)'
  PROVE  ExInv'
<1>1. \A a, b \in Vouched' : Shares(a, b)  BY DEF ExInv
<1>2. ASSUME NEW q \in Proc, q \notin surprised'
      PROVE  Foreseen(q)'
  <2>1. CASE q = p  BY <1>2, <2>1
  <2>2. CASE q # p
    <3>1. call'[q] = call[q]  BY <2>2, TakesKeepsCalls
    <3>2. Foreseen(q)  BY <1>2, <2>2 DEF ExInv
    <3>3. QED BY <3>1, <3>2 DEF Foreseen
  <2>3. QED BY <2>1, <2>2
<1>3. QED BY <1>1, <1>2 DEF ExInv

LEMMA PutKeepsExInv ==
  ASSUME CInv, ExInv, NEW p \in Proc, Puts(p)
  PROVE  ExInv'
<1>1. PICK m \in Mode, value \in File, check \in BOOLEAN, c \in Call :
        /\ Takes(p, c) /\ ~Clearing(c) /\ Put(p, m, value, check)
        /\ value = "active" /\ check => LetIn(p, m)
  BY PutsIs
<1>2. call'[p] = c /\ \A q \in Proc \ {p} : call'[q] = call[q]
  BY <1>1, TakesKeepsCalls
<1>3. Foreseen(p)'  BY <1>1, <1>2 DEF Foreseen
<1>4. file' = [file EXCEPT ![m] = value] /\ file \in [Mode -> File]
  BY <1>1 DEF Put, CInv, TypeOK
<1>5. CASE value # "active"
  <2>1. Active' = Active \ {m}  BY <1>4, <1>5 DEF Active
  <2>2. unchecked' = unchecked \ {m} /\ surprised' = surprised \ {p}
    BY <1>1, <1>5 DEF Put
  <2>3. Vouched' \subseteq Vouched  BY <2>1, <2>2 DEF Vouched
  <2>4. QED BY <1>1, <1>3, <2>2, <2>3, FewerVouched
<1>6. CASE value = "active"
  <2>1. Active' = Active \cup {m}  BY <1>4, <1>6 DEF Active
  <2>2. surprised' = (surprised \cup Checked) \ {p}
    BY <1>1, <1>6 DEF Put
  <2>3. unchecked' = IF check THEN unchecked ELSE unchecked \cup {m}
    BY <1>1, <1>6 DEF Put
  <2>4. CASE ~check \/ m \in Active
    <3>1. Vouched' \subseteq Vouched  BY <2>1, <2>3, <2>4 DEF Vouched
    <3>2. QED BY <1>1, <1>3, <2>2, <3>1, FewerVouched
  <2>5. CASE check /\ m \notin Active
    <3>1. \A a \in Vouched : Shares(a, m)
      BY <1>1, <1>6, <2>5 DEF LetIn, ExInv, Foreseen
    <3>2. Vouched' \subseteq Vouched \cup {m}
      BY <2>1, <2>3, <2>5 DEF Vouched
    <3>3. \A a, b \in Vouched' : Shares(a, b)
      BY <3>1, <3>2, SharesIsSymmetric DEF ExInv, Shares
    <3>4. ASSUME NEW q \in Proc \ {p}, q \notin surprised'
          PROVE  ~Clearing(call[q])
      BY <2>2, <3>4 DEF Checked, Clearing
    <3>5. \A q \in Proc \ surprised' : Foreseen(q)'
      BY <1>2, <1>3, <3>4 DEF Foreseen
    <3>6. QED BY <3>3, <3>5 DEF ExInv
  <2>6. QED BY <2>4, <2>5
<1>7. QED BY <1>5, <1>6

LEMMA CheckKeepsExInv ==
  ASSUME CInv, ExInv, NEW p \in Proc, Check(p)
  PROVE  ExInv'
<1>1. PICK c : /\ Takes(p, c)
               /\ Clearing(c) => /\ c.mode = call[p].mode
                                 /\ Allowed(Visible, c.mode)
                                 /\ c.need = Sources(Visible, c.mode)
  BY CheckIs
<1>2. call'[p] = c  BY <1>1, TakesKeepsCalls
<1>3. UNCHANGED <<file, unchecked>>  BY DEF Check
<1>4. Vouched' = Vouched  BY <1>3 DEF Vouched, Active
<1>5. /\ surprised \subseteq surprised' \cup {p}
      /\ p \notin surprised' => call[p].mode \notin Visible \ Vouched
  BY DEF Check, Vouched
<1>6. ASSUME p \notin surprised', Clearing(c), NEW a \in Vouched
      PROVE  Shares(a, c.mode) \/ a \in c.need
  <2>1. CASE c.mode \in Vouched  BY <1>6, <2>1 DEF ExInv
  <2>2. CASE c.mode \notin Visible
    <3>1. a \in Visible  BY DEF Visible, Vouched
    <3>2. QED BY <1>1, <1>6, <2>2, <3>1 DEF Allowed, Shares
  <2>3. QED BY <1>1, <1>5, <1>6, <2>1, <2>2
<1>7. p \notin surprised' => Foreseen(p)'
  BY <1>2, <1>4, <1>6 DEF Foreseen
<1>8. QED BY <1>1, <1>4, <1>5, <1>7, FewerVouched

LEMMA CompleteKeepsExInv ==
  ASSUME CInv, ExInv, NEW p \in Proc, NEW s \in Mode, Complete(p, s)
  PROVE  ExInv'
<1>1. PICK c : /\ Takes(p, c)
               /\ Clearing(c) => /\ Clearing(call[p])
                                 /\ c.mode = call[p].mode
                                 /\ c.need = call[p].need \ {s}
  BY CompleteIs
<1>2. call'[p] = c  BY <1>1, TakesKeepsCalls
<1>3. Vouched' \subseteq Vouched \ {s} /\ surprised' = surprised
  BY DEF Complete, Vouched, Active, CInv, TypeOK
<1>4. p \notin surprised' => Foreseen(p)'
  BY <1>1, <1>2, <1>3 DEF ExInv, Foreseen
<1>5. QED BY <1>1, <1>3, <1>4, FewerVouched

LEMMA NextKeepsExInv == CInv /\ ExInv /\ [Next]_vars => ExInv'
<1> SUFFICES ASSUME CInv, ExInv, [Next]_vars  PROVE ExInv'
  OBVIOUS
<1>1. CASE UNCHANGED vars
  BY <1>1 DEF vars, ExInv, Foreseen, Vouched, Active
<1>2. CASE Next
  <2>1. PICK p \in Proc :
          \/ BeginsOrReads(p) \/ Stops(p) \/ CliList(p) \/ Puts(p) \/ Check(p)
          \/ \E s \in Mode : Complete(p, s)
          \/ Sync(p) \/ Save(p) \/ Kill(p)
    BY <1>2, EveryStepIs
  <2>2. ASSUME NEW c, Takes(p, c), Quiet(c), Vouched' \subseteq Vouched,
               surprised' = surprised
        PROVE  ExInv'
    <3>1. Foreseen(p)'  BY <2>2, TakesKeepsCalls DEF Quiet, Foreseen
    <3>2. QED BY <2>2, <3>1, FewerVouched
  <2>3. CASE BeginsOrReads(p)
    <3>1. PICK c : Takes(p, c) /\ Quiet(c)  BY <2>3, BeginsOrReadsIs
    <3>2. UNCHANGED <<file, surprised, unchecked>>  BY <2>3, BeginsOrReadsIs
    <3>3. QED BY <2>2, <3>1, <3>2 DEF Vouched, Active
  <2>4. CASE Stops(p)
    <3>1. PICK m \in Mode, c \in Call :
            /\ Takes(p, c) /\ Quiet(c)
            /\ file' = [file EXCEPT ![m] = "inactive"]
            /\ unchecked' = unchecked \ {m} /\ surprised' = surprised
      BY <2>4, StopsIs
    <3>2. Vouched' \subseteq Vouched
      BY <3>1 DEF Vouched, Active, CInv, TypeOK
    <3>3. QED BY <2>2, <3>1, <3>2
  <2>5. CASE Kill(p)
    <3>1. PICK c : Takes(p, c) /\ Quiet(c)  BY <2>5, KillIs
    <3>2. UNCHANGED <<file, surprised, unchecked>>  BY <2>5 DEF Kill
    <3>3. QED BY <2>2, <3>1, <3>2 DEF Vouched, Active
  <2>6. ASSUME NEW c, Takes(p, c), UNCHANGED <<file, surprised, unchecked>>,
               Clearing(c) => /\ Clearing(call[p])
                              /\ c.mode = call[p].mode /\ c.need = call[p].need
        PROVE  ExInv'
    <3>1. Vouched' = Vouched  BY <2>6 DEF Vouched, Active
    <3>2. p \notin surprised' => Foreseen(p)'
      BY <2>6, <3>1, TakesKeepsCalls DEF ExInv, Foreseen
    <3>3. QED BY <2>6, <3>1, <3>2, FewerVouched
  <2>7. CASE Sync(p)
    <3>1. UNCHANGED <<file, surprised, unchecked>>  BY <2>7 DEF Sync
    <3>2. QED BY <2>6, <2>7, <3>1, SyncIs
  <2>8. CASE Save(p)
    <3>1. UNCHANGED <<file, surprised, unchecked>>  BY <2>8 DEF Save
    <3>2. QED BY <2>6, <2>8, <3>1, SaveIs
  <2>9. CASE CliList(p)
    <3>1. PICK c : Takes(p, c) /\ Quiet(c)  BY <2>9, CliListIs
    <3>2. UNCHANGED <<file, surprised, unchecked>>  BY <2>9, CliListIs
    <3>3. QED BY <2>2, <3>1, <3>2 DEF Vouched, Active
  <2>10. QED
    BY <2>1, <2>3, <2>4, <2>5, <2>7, <2>8, <2>9,
       PutKeepsExInv, CheckKeepsExInv, CompleteKeepsExInv
<1>3. QED BY <1>1, <1>2

\* Two modes that may not overlap are never active together, but for those that
\* the unlocked check of a start let in too late, that the list let in, or that
\* an update set active.  What a start has checked stays true until it opens its
\* own mode: no other start has written in between, and whoever stops a mode
\* only takes away.
THEOREM ModesExclude == Spec => []Exclusive
<1>1. Init => ExInv  BY InitExInv
<1>2. CInv /\ ExInv /\ [Next]_vars => ExInv'  BY NextKeepsExInv
<1>3. ExInv => Exclusive  BY ExInvIsExclusive
<1>4. QED BY <1>1, <1>2, <1>3, CallsStayInOrder, PTL DEF Spec

-----------------------------------------------------------------------------
(* The list of active skills.                                              *)

Unowed(m) == \A p \in Proc : ~Owes(call[p], m)

\* An entry that is kept up is written by one process at most, which knows what
\* has become of the mode; and when nobody is to write it, it is right.
KeptUp(m) ==
  /\ \A p, q \in Proc : Owes(call[p], m) /\ Owes(call[q], m) => p = q
  /\ \A p \in Proc : Owes(call[p], m) => call[p].on = (m \in Active)
  /\ Unowed(m) => (m \in skills <=> m \in Active)

ListInv == \A m \in Mode \ torn : KeptUp(m)

LEMMA ListInvIsTrue == ListInv => ListIsTrue
BY DEF ListInv, KeptUp, Unowed, ListIsTrue, Idle, Owes

LEMMA InitListInv == Init => ListInv
BY NoCallIsCall DEF Init, ListInv, KeptUp, Unowed, Active, Quiet

\* An entry that a step of p has nothing to do with.
LEMMA EntryUntouched ==
  ASSUME CInv, NEW p \in Proc, NEW c, Takes(p, c), NEW m \in Mode, KeptUp(m),
         Owes(c, m) <=> Owes(call[p], m),
         Owes(c, m) => c.on = (m \in Active'),
         m \in Active' <=> m \in Active, m \in skills' <=> m \in skills
  PROVE  KeptUp(m)'
<1>1. call'[p] = c /\ \A q \in Proc \ {p} : call'[q] = call[q]
  BY TakesKeepsCalls
<1>2. \A q \in Proc : Owes(call'[q], m) <=> Owes(call[q], m)
  BY <1>1
<1>3. \A q, r \in Proc : Owes(call'[q], m) /\ Owes(call'[r], m) => q = r
  BY <1>2 DEF KeptUp
<1>4. ASSUME NEW q \in Proc, Owes(call'[q], m)
      PROVE  call'[q].on = (m \in Active')
  <2>1. CASE q = p  BY <1>1, <1>4, <2>1
  <2>2. CASE q # p
    <3>1. call'[q] = call[q] /\ Owes(call[q], m)  BY <1>1, <1>4, <2>2
    <3>2. call[q].on = (m \in Active)  BY <3>1 DEF KeptUp
    <3>3. (m \in Active) = (m \in Active')  OBVIOUS
    <3>4. QED BY <3>1, <3>2, <3>3
  <2>3. QED BY <2>1, <2>2
<1>5. (\A q \in Proc : ~Owes(call'[q], m)) => (m \in skills' <=> m \in Active')
  BY <1>2 DEF KeptUp, Unowed
<1>6. QED BY <1>3, <1>4, <1>5 DEF KeptUp, Unowed

\* A step that begins to owe an entry that nobody else owes.
LEMMA EntryOwed ==
  ASSUME CInv, NEW p \in Proc, NEW c, Takes(p, c), NEW m \in Mode,
         ~Pending(p, m), Owes(c, m), c.on = (m \in Active')
  PROVE  KeptUp(m)'
<1>1. call'[p] = c /\ \A q \in Proc \ {p} : call'[q] = call[q]
  BY TakesKeepsCalls
<1>2. \A q \in Proc : Owes(call'[q], m) <=> q = p
  BY <1>1 DEF Pending, Owes
<1>3. \A q, r \in Proc : Owes(call'[q], m) /\ Owes(call'[r], m) => q = r
  BY <1>2
<1>4. \A q \in Proc : Owes(call'[q], m) => call'[q].on = (m \in Active')
  BY <1>1, <1>2
<1>5. ~(\A q \in Proc : ~Owes(call'[q], m))  BY <1>2
<1>6. QED BY <1>3, <1>4, <1>5 DEF KeptUp, Unowed

LEMMA PutKeepsListInv ==
  ASSUME CInv, ListInv, NEW p \in Proc, Puts(p)
  PROVE  ListInv'
<1>1. PICK m \in Mode, value \in File, check \in BOOLEAN, c \in Call :
        /\ Takes(p, c) /\ Put(p, m, value, check)
        /\ \A n \in Mode : Owes(c, n) <=> n = m
        /\ \A n \in Mode : ~Owes(call[p], n)
        /\ c.on = (value = "active") /\ skills' = skills
  BY PutsIs
<1>2. /\ file' = [file EXCEPT ![m] = value] /\ file \in [Mode -> File]
      /\ torn' = torn \cup IF Pending(p, m) THEN {m} ELSE {}
  BY <1>1 DEF Put, CInv, TypeOK
<1>3. ASSUME NEW n \in Mode, n \notin torn'  PROVE KeptUp(n)'
  <2>1. CASE n = m
    <3>1. (n \in Active') = (value = "active")  BY <1>2, <2>1 DEF Active
    <3>2. ~Pending(p, n)  BY <1>2, <1>3, <2>1
    <3>3. QED BY <1>1, <2>1, <3>1, <3>2, EntryOwed
  <2>2. CASE n # m
    <3>1. n \in Active' <=> n \in Active  BY <1>2, <2>2 DEF Active
    <3>2. KeptUp(n)  BY <1>2, <1>3 DEF ListInv
    <3>3. QED BY <1>1, <2>2, <3>1, <3>2, EntryUntouched
  <2>3. QED BY <2>1, <2>2
<1>4. QED BY <1>3 DEF ListInv

LEMMA CompleteKeepsListInv ==
  ASSUME CInv, ListInv, NEW p \in Proc, NEW s \in Mode, Complete(p, s)
  PROVE  ListInv'
<1>1. PICK c : /\ Takes(p, c) /\ c.on = FALSE
               /\ \A n \in Mode : Owes(c, n) <=> n = s
               /\ Clearing(c) => /\ Clearing(call[p])
                                 /\ c.mode = call[p].mode
                                 /\ c.need = call[p].need \ {s}
  BY CompleteIs
<1>2. \A n \in Mode : ~Owes(call[p], n)  BY CompleteIs
<1>3. /\ Active' = Active \ {s} /\ skills' = skills
      /\ torn' = torn \cup IF Pending(p, s) THEN {s} ELSE {}
  BY DEF Complete, Active, CInv, TypeOK
<1>4. ASSUME NEW n \in Mode, n \notin torn'  PROVE KeptUp(n)'
  <2>1. CASE n = s
    <3>1. (n \in Active') = FALSE /\ ~Pending(p, n)  BY <1>3, <1>4, <2>1
    <3>2. QED BY <1>1, <2>1, <3>1, EntryOwed
  <2>2. CASE n # s
    <3>1. KeptUp(n)  BY <1>3, <1>4 DEF ListInv
    <3>2. QED BY <1>1, <1>2, <1>3, <2>2, <3>1, EntryUntouched
  <2>3. QED BY <2>1, <2>2
<1>5. QED BY <1>4 DEF ListInv

LEMMA SyncKeepsListInv ==
  ASSUME CInv, ListInv, NEW p \in Proc, Sync(p)
  PROVE  ListInv'
<1>1. PICK m \in Mode, c \in Call :
        /\ Owes(call[p], m) /\ Takes(p, c)
        /\ \A n \in Mode : Owes(call[p], n) <=> n = m
        /\ \/ /\ torn' = torn /\ \A n \in Mode : Owes(c, n) <=> n = m
              /\ c.on \in {call[p].on, m \in Active}
           \/ torn' = torn \cup {m} /\ \A n \in Mode : ~Owes(c, n)
  BY SyncIs
<1>2. Active' = Active /\ skills' = skills  BY DEF Sync, Active
<1>3. ASSUME NEW n \in Mode, n \notin torn'  PROVE KeptUp(n)'
  <2>1. n \notin torn  BY <1>1, <1>3
  <2>2. KeptUp(n)  BY <2>1 DEF ListInv
  <2>3. Owes(c, n) <=> Owes(call[p], n)  BY <1>1, <1>3
  <2>4. ASSUME Owes(c, n)  PROVE c.on = (n \in Active)
    <3>1. n = m /\ c.on \in {call[p].on, m \in Active}  BY <1>1, <2>4
    <3>2. call[p].on = (m \in Active)  BY <1>1, <2>2, <3>1 DEF KeptUp
    <3>3. QED BY <3>1, <3>2
  <2>5. QED BY <1>1, <1>2, <2>2, <2>3, <2>4, EntryUntouched
<1>4. QED BY <1>3 DEF ListInv

\* The entries that others have written since the list was read are torn: the
\* others are as the list has them, and its own is right if nobody else is to
\* write it.
LEMMA SaveKeepsListInv ==
  ASSUME CInv, ListInv, NEW p \in Proc, Save(p)
  PROVE  ListInv'
<1> DEFINE m == call[p].target
           list == call[p].list
           lost == (list \ skills) \cup (skills \ list)
<1>1. PICK c : Takes(p, c) /\ \A n \in Mode : ~Owes(c, n)  BY SaveIs
<1>2. m \in Mode /\ \A n \in Mode : Owes(call[p], n) <=> n = m  BY SaveIs
<1>3. Active' = Active  BY DEF Save, Active
<1>4. skills' = IF call[p].on THEN list \cup {m} ELSE list \ {m}
  BY DEF Save
<1>5. torn' = (torn \cup lost)
               \ IF call[p].on = (m \in Active) /\ ~Pending(p, m) THEN {m} ELSE {}
  BY DEF Save
<1>6. ASSUME NEW n \in Mode, n # m, n \notin torn'  PROVE KeptUp(n)'
  <2>1. n \notin torn /\ n \notin lost  BY <1>5, <1>6
  <2>2. KeptUp(n)  BY <2>1 DEF ListInv
  <2>3. n \in skills' <=> n \in skills  BY <1>4, <1>6, <2>1
  <2>4. QED BY <1>1, <1>2, <1>3, <1>6, <2>2, <2>3, EntryUntouched
<1>7. ASSUME NEW n \in Mode, n = m, n \notin torn'  PROVE KeptUp(n)'
  <2>1. call[p].on = (m \in Active) /\ ~Pending(p, m)
    <3>1. CASE m \in torn  BY <1>5, <1>7, <3>1
    <3>2. CASE m \notin torn
      <4>1. KeptUp(m)  BY <1>2, <3>2 DEF ListInv
      <4>2. QED BY <1>2, <4>1 DEF KeptUp, Pending, Owes
    <3>3. QED BY <3>1, <3>2
  <2>2. n \in skills' <=> n \in Active'  BY <1>3, <1>4, <1>7, <2>1
  <2>3. \A q \in Proc : ~Owes(call'[q], n)
    BY <1>1, <1>2, <1>7, <2>1, TakesKeepsCalls DEF Pending, Owes
  <2>4. QED BY <2>2, <2>3 DEF KeptUp, Unowed
<1>8. \A n \in Mode \ torn' : KeptUp(n)'  BY <1>6, <1>7
<1>9. QED BY <1>8 DEF ListInv

\* So are those that the command line undoes.
LEMMA CliListKeepsListInv ==
  ASSUME CInv, ListInv, NEW p \in Proc, CliList(p)
  PROVE  ListInv'
<1>1. PICK c : Takes(p, c) /\ Quiet(c)  BY CliListIs
<1>2. /\ \A n \in Mode : ~Owes(call[p], n)
      /\ skills' = call[p].list /\ file' = file
      /\ torn' = torn \cup (call[p].list \ skills) \cup (skills \ call[p].list)
  BY CliListIs
<1>3. Active' = Active  BY <1>2 DEF Active
<1>4. ASSUME NEW n \in Mode, n \notin torn'  PROVE KeptUp(n)'
  <2>1. KeptUp(n)  BY <1>2, <1>4 DEF ListInv
  <2>2. n \in skills' <=> n \in skills  BY <1>2, <1>4
  <2>3. QED BY <1>1, <1>2, <1>3, <2>1, <2>2, EntryUntouched DEF Quiet
<1>5. QED BY <1>4 DEF ListInv

LEMMA NextKeepsListInv == CInv /\ ListInv /\ [Next]_vars => ListInv'
<1> SUFFICES ASSUME CInv, ListInv, [Next]_vars  PROVE ListInv'
  OBVIOUS
<1>1. CASE UNCHANGED vars
  BY <1>1 DEF vars, ListInv, KeptUp, Unowed, Active
<1>2. CASE Next
  <2>1. PICK p \in Proc :
          \/ BeginsOrReads(p) \/ Stops(p) \/ CliList(p) \/ Puts(p) \/ Check(p)
          \/ \E s \in Mode : Complete(p, s)
          \/ Sync(p) \/ Save(p) \/ Kill(p)
    BY <1>2, EveryStepIs
  <2>2. ASSUME NEW c, Takes(p, c), \A n \in Mode : ~Owes(c, n),
               skills' = skills, torn \subseteq torn',
               \A n \in Mode \ torn' : /\ ~Owes(call[p], n)
                                       /\ n \in Active' <=> n \in Active
        PROVE  ListInv'
    <3>1. ASSUME NEW n \in Mode, n \notin torn'  PROVE KeptUp(n)'
      <4>1. KeptUp(n)  BY <2>2, <3>1 DEF ListInv
      <4>2. QED BY <2>2, <3>1, <4>1, EntryUntouched
    <3>2. QED BY <3>1 DEF ListInv
  <2>3. CASE BeginsOrReads(p)
    <3>1. PICK c : Takes(p, c) /\ Quiet(c)  BY <2>3, BeginsOrReadsIs
    <3>2. /\ UNCHANGED <<file, skills, flag, torn>>
          /\ \A n \in Mode : ~Owes(call[p], n)
      BY <2>3, BeginsOrReadsIs
    <3>3. Active' = Active  BY <3>2 DEF Active
    <3>4. QED BY <2>2, <3>1, <3>2, <3>3 DEF Quiet
  <2>4. CASE Stops(p)
    <3>1. PICK m \in Mode, c \in Call :
            /\ Takes(p, c) /\ Quiet(c) /\ \A n \in Mode : ~Owes(call[p], n)
            /\ file' = [file EXCEPT ![m] = "inactive"]
            /\ torn' = torn \cup {m} /\ skills' = skills
      BY <2>4, StopsIs
    <3>2. \A n \in Mode \ torn' : n \in Active' <=> n \in Active
      BY <3>1 DEF Active, CInv, TypeOK
    <3>3. QED BY <2>2, <3>1, <3>2 DEF Quiet
  <2>5. CASE Check(p)
    <3>1. PICK c : Takes(p, c) /\ \A n \in Mode : ~Owes(c, n)
      BY <2>5, CheckIs
    <3>2. \A n \in Mode : ~Owes(call[p], n)  BY <2>5, CheckIs
    <3>3. UNCHANGED <<skills, flag, torn>> /\ Active' = Active
      BY <2>5 DEF Check, Active
    <3>4. QED BY <2>2, <3>1, <3>2, <3>3
  <2>6. CASE Kill(p)
    <3>1. PICK c : Takes(p, c) /\ Quiet(c)  BY <2>6, KillIs
    <3>2. /\ \A n \in Mode : Owes(call[p], n) => n \in torn'
          /\ torn \subseteq torn'
      BY <2>6, KillIs
    <3>3. skills' = skills /\ Active' = Active  BY <2>6 DEF Kill, Active
    <3>4. QED BY <2>2, <3>1, <3>2, <3>3 DEF Quiet
  <2>7. QED
    BY <2>1, <2>3, <2>4, <2>5, <2>6, CliListKeepsListInv, PutKeepsListInv, CompleteKeepsListInv,
       SyncKeepsListInv, SaveKeepsListInv
<1>3. QED BY <1>1, <1>2

\* When nobody is at work the list of active skills names exactly the active
\* modes, but for the entries that were given up, overwritten or never told.
\* Until it is written, whoever writes the entry knows what the file says:
\* another that writes the file meanwhile leaves the entry torn.
THEOREM ListKept == Spec => []ListIsTrue
<1>1. Init => ListInv  BY InitListInv
<1>2. CInv /\ ListInv /\ [Next]_vars => ListInv'  BY NextKeepsListInv
<1>3. ListInv => ListIsTrue  BY ListInvIsTrue
<1>4. QED BY <1>1, <1>2, <1>3, CallsStayInOrder, PTL DEF Spec

-----------------------------------------------------------------------------
(* Who sets a stopped mode active.                                         *)

\* One step of CancelHolds.
Restarted ==
  \A m \in Mode \ Active :
    m \in Active' => \E p \in Proc :
                       /\ call[p].mode = m
                       /\ \/ call[p].at \in {"start", "first"}
                          \/ call[p].step = "write" /\ call[p].copy

LEMMA PutIsRestarted ==
  ASSUME CInv, NEW p \in Proc, Puts(p)
  PROVE  Restarted
<1> SUFFICES ASSUME NEW m \in Mode \ Active, m \in Active'
             PROVE  /\ call[p].mode = m
                    /\ \/ call[p].at \in {"start", "first"}
                       \/ call[p].step = "write" /\ call[p].copy
  BY DEF Restarted
<1>1. Orderly(call[p]) /\ call[p] \in Call /\ file \in [Mode -> File]
  BY DEF CInv, TypeOK
<1>2. CASE Open(p)
  BY <1>1, <1>2 DEF Open, At, Put, Active, Orderly
<1>3. CASE Write(p)
  BY <1>1, <1>3 DEF Write, At, Put, Active, Orderly, Call
<1>4. ASSUME NEW n \in Mode, Clear(p, n)  PROVE FALSE
  BY <1>1, <1>4 DEF Clear, Put, Active
<1>5. QED BY <1>2, <1>3, <1>4 DEF Puts

LEMMA NextIsRestarted == CInv /\ [Next]_vars => Restarted
<1> SUFFICES ASSUME CInv, [Next]_vars  PROVE Restarted
  OBVIOUS
<1>1. ASSUME Active' \subseteq Active  PROVE Restarted
  BY <1>1 DEF Restarted
<1>2. CASE UNCHANGED vars  BY <1>1, <1>2 DEF vars, Active
<1>3. ASSUME NEW p \in Proc,
             \/ BeginsOrReads(p) \/ Stops(p) \/ CliList(p) \/ Check(p)
             \/ \E s \in Mode : Complete(p, s)
             \/ Sync(p) \/ Save(p) \/ Kill(p)
      PROVE  Active' \subseteq Active
  <2>1. file \in [Mode -> File]  BY DEF CInv, TypeOK
  <2>2. CASE BeginsOrReads(p)  BY <2>2, BeginsOrReadsIs DEF Active
  <2>3. CASE Stops(p)
    <3>1. PICK m \in Mode : file' = [file EXCEPT ![m] = "inactive"]
      BY <2>3, StopsIs
    <3>2. QED BY <2>1, <3>1 DEF Active
  <2>4. CASE \E s \in Mode : Complete(p, s)
    BY <2>1, <2>4 DEF Complete, Active
  <2>5. CASE Check(p) \/ Sync(p) \/ Save(p) \/ Kill(p)
    BY <2>5 DEF Check, Sync, Save, Kill, Active
  <2>6. CASE CliList(p)  BY <2>6, CliListIs DEF Active
  <2>7. QED BY <1>3, <2>2, <2>3, <2>4, <2>5, <2>6
<1>4. CASE Next
  BY <1>1, <1>3, <1>4, EveryStepIs, PutIsRestarted
<1>5. QED BY <1>2, <1>4

\* A mode that was stopped is set active again only by a start or a write of
\* that mode, by the first update after a start, or by an update that had read
\* it active before it was stopped: no later update of a run revives it.
THEOREM Cancelled == Spec => CancelHolds
<1>1. CInv /\ [Next]_vars => Restarted  BY NextIsRestarted
<1>2. Spec => [][Restarted]_vars  BY <1>1, CallsStayInOrder, PTL DEF Spec
<1>3. QED BY <1>2 DEF CancelHolds, Restarted
=============================================================================
