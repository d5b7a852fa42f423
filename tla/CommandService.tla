--------------------------- MODULE CommandService ---------------------------
(***************************************************************************)
(* What the command interface promises the code that calls it: a command   *)
(* is carried out by the HCA at most once and with the input it was given, *)
(* and its caller goes on only after that, with its own command's output.  *)
(* A command that fails or is not answered in time ends the program.       *)
(***************************************************************************)
CONSTANTS
  Thread,    \* the callers
  Command,   \* the commands, each issued once
  None       \* not a command

VARIABLES
  calling,    \* the command each thread is waiting for, or None
  executed,   \* the commands the HCA has carried out
  answered,   \* the commands whose output their caller has
  stopped     \* an exception ended the program

vars == <<calling, executed, answered, stopped>>

Init ==
  /\ calling = [t \in Thread |-> None]
  /\ executed = {} /\ answered = {}
  /\ stopped = FALSE

Call(t, c) ==
  /\ ~stopped /\ calling[t] = None
  /\ c \notin executed /\ \A u \in Thread : calling[u] # c
  /\ calling' = [calling EXCEPT ![t] = c]
  /\ UNCHANGED <<executed, answered, stopped>>

Execute(c) ==
  /\ c \notin executed /\ \E t \in Thread : calling[t] = c
  /\ executed' = executed \cup {c}
  /\ UNCHANGED <<calling, answered, stopped>>

Answer(t) ==
  /\ ~stopped
  /\ calling[t] \in executed
  /\ answered' = answered \cup {calling[t]}
  /\ calling' = [calling EXCEPT ![t] = None]
  /\ UNCHANGED <<executed, stopped>>

Stop ==
  /\ stopped' = TRUE
  /\ UNCHANGED <<calling, executed, answered>>

Next ==
  \/ \E t \in Thread, c \in Command : Call(t, c)
  \/ \E c \in Command : Execute(c)
  \/ \E t \in Thread : Answer(t)
  \/ Stop

Spec == Init /\ [][Next]_vars

=============================================================================
