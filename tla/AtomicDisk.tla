----------------------------- MODULE AtomicDisk -----------------------------
(***************************************************************************)
(* What the logging layer promises to the file system (kernel/log.c): the  *)
(* writes of an operation, and of the operations that overlap with it,     *)
(* reach the disk all at once, at an instant when no operation is in       *)
(* progress, and a crash goes back to the last such instant.  No log, no   *)
(* buffer cache, no recovery.                                              *)
(***************************************************************************)
CONSTANTS Procs, Blocks, Data

VARIABLES durable,  \* what is found after a crash
          current,  \* what is read now
          active    \* the processes between begin_op() and end_op()

vars == <<durable, current, active>>

Init ==
  /\ durable \in [Blocks -> Data]
  /\ current = durable
  /\ active = {}

Begin(p) ==
  /\ p \notin active
  /\ active' = active \cup {p}
  /\ UNCHANGED <<durable, current>>

Write(p, b, d) ==
  /\ p \in active
  /\ current' = [current EXCEPT ![b] = d]
  /\ UNCHANGED <<durable, active>>

End(p) ==
  /\ p \in active
  /\ active' = active \ {p}
  /\ UNCHANGED <<durable, current>>

Commit ==
  /\ active = {}
  /\ durable' = current
  /\ UNCHANGED <<current, active>>

Crash ==
  /\ current' = durable
  /\ active' = {}
  /\ durable' = durable

Next ==
  \/ \E p \in Procs : Begin(p) \/ End(p) \/ \E b \in Blocks, d \in Data : Write(p, b, d)
  \/ Commit \/ Crash

Spec == Init /\ [][Next]_vars
=============================================================================
