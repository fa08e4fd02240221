--------------------------- MODULE WorkflowModes ---------------------------
(***************************************************************************)
(* Which workflow modes are active (src/modes/base.ts,                     *)
(* state/workflow-transition.ts, workflow-transition-reconcile.ts,         *)
(* skill-active.ts, operations.ts), and those who run and stop them:       *)
(* pipeline/orchestrator.ts, ralplan/runtime.ts, cli/team.ts and           *)
(* cli/index.ts.                                                           *)
(*                                                                         *)
(* A mode is active by its own state file, and listed in the file of       *)
(* active skills.  Processes read and write both without any lock: a start *)
(* checks first which modes are active, an update merges its changes into  *)
(* what it has read, and either one brings the list up to date at its end. *)
(* One scope of state files, without a session.                            *)
(***************************************************************************)
EXTENDS Naturals, FiniteSets

CONSTANTS
  Proc,      \* processes
  Mode,      \* the tracked modes in use
  MaxCalls,  \* bound: runs and commands begun
  MaxKills   \* bound: processes killed

Tracked == {"autopilot", "autoresearch", "team", "ralph", "ultrawork",
            "ultraqa", "ralplan", "deep-interview"}

ASSUME ConstantAssumption ==
  /\ Mode \subseteq Tracked /\ Mode # {}
  /\ {MaxCalls, MaxKills} \subseteq Nat

VARIABLES
  file,      \* mode -> its state file
  skills,    \* modes that the file of active skills lists
  flag,      \* that file's own active flag: false once it has been cancelled
  call,      \* process -> what it does
  surprised, \* history: processes whose check another start overtakes, or
             \* that a list out of date lets in
  unchecked, \* history: active modes that no valid check has let in
  torn,      \* history: modes whose entry in the list was not kept up, or lost
  calls, kills

vars == <<file, skills, flag, call, surprised, unchecked, torn, calls, kills>>

-----------------------------------------------------------------------------
File == {"none", "inactive", "active"}

Run == {"pipeline", "ralplan", "team", "shutdown"}

Op == Run \cup {"none", "write", "cancel", "clear", "cli"}

\* at: how far a run is; set: what an update does to the active flag
Call == [op : Op, step : {"check", "source", "open", "read", "write", "sync",
                          "save"},
         at : {"start", "first", "stage", "last"},
         mode : Mode, set : {"on", "off", "keep"}, copy : BOOLEAN,
         target : Mode, on : BOOLEAN,
         need : SUBSET Mode, list : SUBSET Mode]

\* What an idle process has in hand.
Idle(c) == c.op = "none"

NoMode == CHOOSE m \in Mode : TRUE

NoCall == [op |-> "none", step |-> "check", at |-> "start", mode |-> NoMode,
           set |-> "keep", copy |-> FALSE, target |-> NoMode, on |-> FALSE,
           need |-> {}, list |-> {}]

TypeOK ==
  /\ file \in [Mode -> File]
  /\ skills \subseteq Mode /\ flag \in BOOLEAN
  /\ call \in [Proc -> Call]
  /\ surprised \subseteq Proc /\ unchecked \subseteq Mode /\ torn \subseteq Mode
  /\ calls \in 0..MaxCalls /\ kills \in 0..MaxKills

Init ==
  /\ file = [m \in Mode |-> "none"]
  /\ skills = {} /\ flag = FALSE
  /\ call = [p \in Proc |-> NoCall]
  /\ surprised = {} /\ unchecked = {} /\ torn = {}
  /\ calls = 0 /\ kills = 0

-----------------------------------------------------------------------------
(* evaluateWorkflowTransition                                              *)

Overlap(a, b) == "ultrawork" \in {a, b} \/ {a, b} = {"ralph", "team"}

AutoComplete == {<<"deep-interview", "ralplan">>, <<"ralplan", "team">>,
                 <<"ralplan", "ralph">>, <<"ralplan", "autopilot">>}

\* Mutant: every source that there may be.
SourcesEver(current, m) ==
  IF m \in current THEN {} ELSE {t[1] : t \in {u \in AutoComplete : u[2] = m}}

Sources(current, m) ==
  IF m \in current THEN {} ELSE {s \in current : <<s, m>> \in AutoComplete}

Allowed(current, m) ==
  \/ m \in current
  \/ \A s \in current \ Sources(current, m) : Overlap(s, m)

Active == {m \in Mode : file[m] = "active"}

\* Mutant: only the list is looked at.
VisibleInList == skills

\* visibleTrackedModes
Visible == skills \cup Active

-----------------------------------------------------------------------------
At(p, step) == call[p].op # "none" /\ call[p].step = step

\* Processes that have checked and have yet to write.
Checked == {p \in Proc : call[p].op # "none" /\ call[p].at = "start"
                           /\ (call[p].step \in {"source", "open"} \/
                               call[p].target # call[p].mode)}

\* Some process has the list entry of m still to write.
Pending(p, m) ==
  \E q \in Proc \ {p} :
    call[q].op # "none" /\ call[q].step \in {"sync", "save"} /\ call[q].target = m

\* Process p writes the state file of m; check: it has let m in.
Put(p, m, value, check) ==
  /\ file' = [file EXCEPT ![m] = value]
  /\ surprised' = IF value = "active"
                  THEN (surprised \cup Checked) \ {p} ELSE surprised \ {p}
  /\ unchecked' = IF value # "active" THEN unchecked \ {m}
                  ELSE IF check THEN unchecked ELSE unchecked \cup {m}
  /\ torn' = torn \cup IF Pending(p, m) THEN {m} ELSE {}

New(op, m) == [NoCall EXCEPT !.op = op, !.mode = m, !.target = m]

\* Mutant: the list is told that m is active, whatever has become of it.
ToSyncActive(c, m, on) == [c EXCEPT !.step = "sync", !.target = m, !.on = TRUE]

\* The list is brought up to date for m.
ToSync(c, m, on) == [c EXCEPT !.step = "sync", !.target = m, !.on = on]

Update(c, at, set) == [c EXCEPT !.step = "read", !.at = at, !.set = set]

\* Mutant: every update of a pipeline says that it is active.
StageSetAlways(op) == IF op = "pipeline" THEN "on" ELSE "keep"

\* What the updates between the first and the last do.
StageSet(op) == "keep"

\* After the list is written.
Onward(c) ==
  IF c.target # c.mode
  THEN [c EXCEPT !.step = "source", !.target = c.mode]
  ELSE CASE c.op \notin Run \/ c.at = "last" -> NoCall
         [] c.op \in Run /\ c.at = "start" -> Update(c, "first", c.set)
         [] c.op \in {"pipeline", "ralplan"} /\ c.at \in {"first", "stage"} ->
              Update(c, "stage", StageSet(c.op))
         [] c.op = "shutdown" /\ c.at = "first" -> Update(c, "last", "off")
         [] c.op = "team" /\ c.at = "first" -> NoCall

\* An exception: a ralplan run that has started still writes that it failed.
Thrown(c) ==
  IF c.op = "ralplan" /\ c.at \in {"first", "stage"}
  THEN Update(c, "last", "off") ELSE NoCall

-----------------------------------------------------------------------------
Begin(p, c) ==
  /\ Idle(call[p])
  /\ calls < MaxCalls /\ calls' = calls + 1
  /\ call' = [call EXCEPT ![p] = c]

Unseen == UNCHANGED <<surprised, unchecked, torn, kills>>

\* runPipeline
BeginPipeline(p) ==
  /\ "autopilot" \in Mode
  /\ Begin(p, [New("pipeline", "autopilot") EXCEPT !.set = "on"])
  /\ Unseen /\ UNCHANGED <<file, skills, flag>>

\* runRalplanConsensus refuses to begin when ralplan is active.
BeginRalplan(p) ==
  /\ "ralplan" \in Mode \ Active
  /\ Begin(p, New("ralplan", "ralplan"))
  /\ Unseen /\ UNCHANGED <<file, skills, flag>>

\* ensureTeamModeState: a mode that is active needs no start.  A team that is
\* resumed may be over by its phase.
BeginTeam(p, set) ==
  /\ "team" \in Mode
  /\ LET c == [New("team", "team") EXCEPT !.set = set] IN
     Begin(p, IF "team" \in Active THEN Update(c, "first", set) ELSE c)
  /\ Unseen /\ UNCHANGED <<file, skills, flag>>

\* persistTeamShutdownModeState without a state file starts the mode, to write
\* that it is over.
BeginShutdown(p) ==
  /\ "team" \in Mode /\ file["team"] = "none"
  /\ Begin(p, [New("shutdown", "team") EXCEPT !.set = "on"])
  /\ Unseen /\ UNCHANGED <<file, skills, flag>>

\* With one it writes that file alone: the list is not told.
Shutdown(p) ==
  /\ "team" \in Mode /\ file["team"] # "none"
  /\ Begin(p, NoCall)
  /\ file' = [file EXCEPT !["team"] = "inactive"]
  /\ unchecked' = unchecked \ {"team"}
  /\ torn' = torn \cup {"team"}
  /\ UNCHANGED <<skills, flag, surprised, kills>>

\* state_write of the active flag
BeginWrite(p, m, on) ==
  /\ Begin(p, [New("write", m) EXCEPT !.step = IF on THEN "check" ELSE "open",
                                      !.on = on])
  /\ Unseen /\ UNCHANGED <<file, skills, flag>>

\* cancelMode, cancelPipeline, cancelRalplanConsensus
BeginCancel(p, m) ==
  /\ m \in Active
  /\ Begin(p, Update(New("cancel", m), "last", "off"))
  /\ Unseen /\ UNCHANGED <<file, skills, flag>>

\* state_clear
Clear(p, m) ==
  /\ Begin(p, ToSync(New("clear", m), m, FALSE))
  /\ Put(p, m, "none", TRUE)
  /\ UNCHANGED <<skills, flag, kills>>

\* cancelModes of the command line reads every state file, the list of active
\* skills as one more, and then writes those it stops.  With ralph active that is
\* ralph, and ultrawork if ralph says that they are linked; without, whatever is
\* active, the list too if its flag is set (on: it has the list to write).
BeginCli(p) ==
  /\ \E linked \in SUBSET {m \in Mode \cap {"ultrawork"} : file[m] # "none"} :
       LET ralph == "ralph" \in Active
           found == IF ralph THEN {"ralph"} \cup linked ELSE Active
           all == flag /\ ~ralph IN
       /\ found # {} \/ all
       /\ Begin(p, [New("cli", NoMode) EXCEPT !.step = "source", !.need = found,
                     !.on = all, !.list = IF all THEN skills ELSE {}])
  /\ Unseen /\ UNCHANGED <<file, skills, flag>>

\* A mode's own file: its entry in the list stays.
CliWrite(p) ==
  /\ At(p, "source") /\ call[p].op = "cli"
  /\ \E m \in call[p].need :
       /\ LET c == call[p] IN
          call' = [call EXCEPT ![p] = IF c.need = {m} /\ ~c.on THEN NoCall
                                      ELSE [c EXCEPT !.need = @ \ {m}]]
       /\ file' = [file EXCEPT ![m] = "inactive"]
       /\ unchecked' = unchecked \ {m}
       /\ torn' = torn \cup {m}
  /\ UNCHANGED <<skills, flag, surprised, calls, kills>>

\* The list is written as it was read, its flag false: the entries stay, those
\* written meanwhile are lost and those removed come back.
CliList(p) ==
  /\ At(p, "source") /\ call[p].op = "cli" /\ call[p].on
  /\ LET c == call[p] IN
     /\ call' = [call EXCEPT ![p] = IF c.need = {} THEN NoCall
                                    ELSE [c EXCEPT !.on = FALSE, !.list = {}]]
     /\ skills' = c.list /\ flag' = FALSE
     /\ torn' = torn \cup (c.list \ skills) \cup (skills \ c.list)
  /\ UNCHANGED <<file, surprised, unchecked, calls, kills>>

-----------------------------------------------------------------------------
(* reconcileWorkflowTransition, startMode, and state_write                 *)

\* The modes in the way are to be completed first, or it is refused.
Check(p) ==
  /\ At(p, "check")
  /\ LET m == call[p].mode IN
     call' = [call EXCEPT ![p] =
                IF Allowed(Visible, m)
                THEN [@ EXCEPT !.step = "source", !.need = Sources(Visible, m)]
                ELSE NoCall]
  /\ surprised' = IF call[p].mode \in Visible \ (Active \ unchecked)
                  THEN surprised \cup {p} ELSE surprised \ {p}
  /\ UNCHANGED <<file, skills, flag, unchecked, torn, calls, kills>>

\* completeSourceModeState
Complete(p, s) ==
  /\ At(p, "source") /\ call[p].op # "cli"
  /\ s \in call[p].need
  /\ LET c == call[p] IN
     call' = [call EXCEPT ![p] = ToSync([c EXCEPT !.need = @ \ {s}], s, FALSE)]
  /\ IF file[s] = "active"
     THEN /\ file' = [file EXCEPT ![s] = "inactive"]
          /\ unchecked' = unchecked \ {s}
     ELSE UNCHANGED <<file, unchecked>>
  /\ torn' = torn \cup IF Pending(p, s) THEN {s} ELSE {}
  /\ UNCHANGED <<skills, flag, surprised, calls, kills>>

\* The mode's own file.
Open(p) ==
  /\ \/ At(p, "source") /\ call[p].op # "cli" /\ call[p].need = {}
     \/ At(p, "open")
  /\ LET m == call[p].mode
         on == call[p].op # "write" \/ call[p].step = "source" IN
     /\ Put(p, m, IF on THEN "active" ELSE "inactive", p \notin surprised)
     /\ call' = [call EXCEPT ![p] = ToSync(@, m, on)]
  /\ UNCHANGED <<skills, flag, calls, kills>>

-----------------------------------------------------------------------------
(* updateModeState                                                         *)

\* Without a file it throws.
Read(p) ==
  /\ At(p, "read")
  /\ LET c == call[p]
         m == c.mode IN
     call' = [call EXCEPT ![p] =
                IF file[m] # "none"
                THEN [c EXCEPT !.step = "write", !.copy = file[m] = "active"]
                ELSE Thrown(c)]
  /\ Unseen /\ UNCHANGED <<file, skills, flag, calls>>

Write(p) ==
  /\ At(p, "write")
  /\ LET m == call[p].mode
         on == IF call[p].set = "keep" THEN call[p].copy ELSE call[p].set = "on" IN
     /\ Put(p, m, IF on THEN "active" ELSE "inactive", m \in Active)
     /\ call' = [call EXCEPT ![p] = ToSync(@, m, on)]
  /\ UNCHANGED <<skills, flag, calls, kills>>

\* Between two updates a run decides that it is done, or has failed.
Finish(p) ==
  /\ At(p, "read") /\ call[p].at = "stage"
  /\ call' = [call EXCEPT ![p] = Update(@, "last", "off")]
  /\ Unseen /\ UNCHANGED <<file, skills, flag, calls>>

-----------------------------------------------------------------------------
(* syncCanonicalSkillStateForMode                                          *)

\* It throws when the list does not allow the mode, whose file is written;
\* state_write reads that file once more, and throws when it is gone.
Sync(p) ==
  /\ At(p, "sync")
  /\ LET m == call[p].target
         on == IF call[p].op = "write" /\ m = call[p].mode THEN m \in Active
               ELSE call[p].on
         gone == call[p].op = "write" /\ m = call[p].mode /\ file[m] = "none"
         ok == ~gone /\ (on => Allowed(skills, m)) IN
     /\ call' = [call EXCEPT ![p] =
                   IF ok THEN [@ EXCEPT !.step = "save", !.on = on, !.list = skills]
                   ELSE Thrown(@)]
     /\ torn' = IF ok THEN torn ELSE torn \cup {m}
  /\ UNCHANGED <<file, skills, flag, surprised, unchecked, calls, kills>>

\* Entries that others have written since the list was read are lost.
Save(p) ==
  /\ At(p, "save")
  /\ LET m == call[p].target
         list == call[p].list
         lost == (list \ skills) \cup (skills \ list) IN
     /\ skills' = IF call[p].on THEN list \cup {m} ELSE list \ {m}
     /\ flag' = (skills' # {})
     /\ torn' = (torn \cup lost)
                 \ IF call[p].on = (m \in Active) /\ ~Pending(p, m) THEN {m} ELSE {}
  /\ call' = [call EXCEPT ![p] = Onward(@)]
  /\ UNCHANGED <<file, surprised, unchecked, calls, kills>>

Kill(p) ==
  /\ ~Idle(call[p])
  /\ kills < MaxKills /\ kills' = kills + 1
  /\ call' = [call EXCEPT ![p] = NoCall]
  /\ torn' = torn \cup IF call[p].step \in {"sync", "save"}
                       THEN {call[p].target} ELSE {}
  /\ UNCHANGED <<file, skills, flag, surprised, unchecked, calls>>

Next ==
  \E p \in Proc :
    \/ BeginPipeline(p) \/ BeginRalplan(p) \/ BeginCli(p)
    \/ BeginTeam(p, "on") \/ BeginTeam(p, "off")
    \/ BeginShutdown(p) \/ Shutdown(p)
    \/ \E m \in Mode :
         \/ BeginCancel(p, m) \/ Clear(p, m) \/ Complete(p, m)
         \/ \E on \in BOOLEAN : BeginWrite(p, m, on)
    \/ CliWrite(p) \/ CliList(p) \/ Check(p) \/ Open(p)
    \/ Read(p) \/ Write(p) \/ Finish(p) \/ Sync(p) \/ Save(p) \/ Kill(p)

Spec == Init /\ [][Next]_vars

-----------------------------------------------------------------------------
(* Properties.                                                             *)

\* Modes that may not overlap are not active together, unless one of them was
\* started while another start was on its way, or for being listed when it was
\* not active, or was set active by an update that found it inactive.
Exclusive ==
  \A a, b \in Active :
    a = b \/ Overlap(a, b) \/ {a, b} \cap unchecked # {}

\* When no process is at work the list names the modes that are active, but for
\* those whose entry a concurrent writer has undone, a refusal or a kill left
\* unwritten, or a stop passed over that writes the mode's file alone.
ListIsTrue ==
  (\A p \in Proc : Idle(call[p])) => \A m \in Mode \ torn : m \in skills <=> m \in Active

\* A mode that is not active gets so by a start, a write, or the first update
\* after it, or by an update that has read it before it was stopped.
CancelHolds ==
  [][\A m \in Mode \ Active :
       m \in Active' => \E p \in Proc :
                          /\ call[p].mode = m
                          /\ \/ call[p].at \in {"start", "first"}
                             \/ call[p].step = "write" /\ call[p].copy]_vars
=============================================================================
