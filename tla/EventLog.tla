------------------------------ MODULE EventLog ------------------------------
(***************************************************************************)
(* What callers of the runtime engine may rely on: commands are carried    *)
(* out one at a time on a single log, and what was acknowledged stays in   *)
(* it.  Once the log is disturbed nothing of that is promised but that the *)
(* log is still one an engine could have written.  RuntimeEngine shows     *)
(* what disturbs it; TeamDispatch relies on it.                            *)
(***************************************************************************)
EXTENDS RuntimeEvents

VARIABLES
  log,     \* the events carried out
  acked,   \* the events of commands that returned successfully
  sound    \* nothing has disturbed the log

Init ==
  /\ log = {}
  /\ acked = {}
  /\ sound = TRUE

\* A command is carried out.
Commit ==
  /\ \E e \in Event :
       /\ AcceptsDispatch(log, e)
       /\ AcceptsAuthority(log, e)
       /\ log' = log \cup {e}
  /\ UNCHANGED <<acked, sound>>

\* Its caller learns that.
Acknowledge ==
  /\ \E e \in Event :
       /\ sound => e \in log
       /\ acked' = acked \cup {e}
  /\ UNCHANGED <<log, sound>>

Disturb ==
  /\ log' \in SUBSET Event
  /\ Legal(log')
  /\ sound' = FALSE
  /\ UNCHANGED acked

Next == Commit \/ Acknowledge \/ Disturb

Spec == Init /\ [][Next]_<<log, acked, sound>>
=============================================================================
