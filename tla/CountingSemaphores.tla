------------------------- MODULE CountingSemaphores -------------------------
(***************************************************************************)
(* What the semaphore system calls promise (kernel/sem_syscall.c): each    *)
(* call of a process takes effect at one instant between its invocation    *)
(* and its return, on a counter that is closed or at least 0, and a down   *)
(* on 0 has to wait.  No locks, sleep, wakeup, CPUs or kills.              *)
(***************************************************************************)
EXTENDS Integers

CONSTANTS Procs, Sems, Requests

Closed  == -1
Failed  == 0
Done    == 1
Pending == -1
NoCall  == [op |-> "none", sem |-> 0, val |-> 0]

VARIABLES value, call, ret
vars == <<value, call, ret>>

Init ==
  /\ value = [s \in Sems |-> Closed]
  /\ call  = [p \in Procs |-> NoCall]
  /\ ret   = [p \in Procs |-> Pending]

Valid(k) == k.sem \in Sems /\ (k.op = "open" => k.val >= 0)

Invoke(p, k) ==
  /\ call[p] = NoCall
  /\ call' = [call EXCEPT ![p] = k]
  /\ ret'  = [ret EXCEPT ![p] = IF Valid(k) THEN Pending ELSE Failed]
  /\ value' = value

(* The effect of p's call: the counter becomes v and the call returns r.    *)
Take(p, v, r) ==
  /\ value' = [value EXCEPT ![call[p].sem] = v]
  /\ ret'   = [ret EXCEPT ![p] = r]
  /\ call'  = call

Effect(p) ==
  LET op == call[p].op  v == value[call[p].sem] IN
  /\ call[p] # NoCall /\ ret[p] = Pending
  /\ \/ op = "open"  /\ v = Closed /\ Take(p, call[p].val, Done)
     \/ op = "open"  /\ v # Closed /\ Take(p, v, Failed)
     \/ op = "close" /\ Take(p, Closed, Done)
     \/ op \in {"up", "down"} /\ v = Closed /\ Take(p, v, Failed)
     \/ op = "up"    /\ v >= 0 /\ Take(p, v + 1, Done)
     \/ op = "down"  /\ v > 0  /\ Take(p, v - 1, Done)

Return(p) ==
  /\ ret[p] # Pending
  /\ call' = [call EXCEPT ![p] = NoCall]
  /\ ret'  = [ret EXCEPT ![p] = Pending]
  /\ value' = value

Next == \E p \in Procs : (\E k \in Requests : Invoke(p, k)) \/ Effect(p) \/ Return(p)

Spec == Init /\ [][Next]_vars
=============================================================================
