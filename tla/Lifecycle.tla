----------------------------- MODULE Lifecycle -----------------------------
(***************************************************************************)
(* The life of a process (kernel/proc.c): fork(), exit(), wait(), kill(),  *)
(* reparent() and the reuse of a slot of the process table.                *)
(*                                                                         *)
(* Every process has a CPU: RUNNABLE stands for RUNNABLE and RUNNING, and  *)
(* sleep() and wakeup() are atomic, as Proc and Semaphore show they may be *)
(* taken to be.  A critical section of one p->lock is a step; the ones     *)
(* that matter here are wait_lock's, and the p->lock that exit() takes and *)
(* only the scheduler of its CPU releases.                                 *)
(***************************************************************************)
EXTENDS Integers

CONSTANTS NPROC,     \* slots of the process table
          MaxPid,    \* bound: processes created in a behaviour
          KillPids,  \* the arguments kill() is called with
          Waiters    \* the processes whose programs call wait()

ASSUME LifecycleAssumption ==
  /\ NPROC \in Nat \ {0} /\ MaxPid \in Nat \ {0} /\ KillPids \subseteq Int
  /\ 1 \in Waiters /\ Waiters \subseteq 1 .. NPROC

Slots    == 1 .. NPROC
InitProc == 1           \* initproc, the slot userinit() found
NoSlot   == 0

VARIABLES state, pid, parent, killed,  \* fields of struct proc
          pc,                          \* where the thread of the slot is
          np,                          \* np of a fork() in progress
          wait_lock,                   \* who holds it
          nextpid

vars == <<state, pid, parent, killed, pc, np, wait_lock, nextpid>>

(* procinit() and userinit().                                               *)
Init ==
  /\ state     = [p \in Slots |-> IF p = InitProc THEN "RUNNABLE" ELSE "UNUSED"]
  /\ pid       = [p \in Slots |-> IF p = InitProc THEN 1 ELSE 0]
  /\ parent    = [p \in Slots |-> NoSlot]
  /\ killed    = [p \in Slots |-> FALSE]
  /\ pc        = [p \in Slots |-> "user"]
  /\ np        = [p \in Slots |-> NoSlot]
  /\ wait_lock = NoSlot
  /\ nextpid   = 2

Runs(p, l) == state[p] = "RUNNABLE" /\ pc[p] = l
Goto(p, l) == pc' = [pc EXCEPT ![p] = l]

(* p->lock from the end of exit() until p has left its kernel stack.         *)
Leaving(p) == pc[p] \in {"zombie", "swtch"}

Children(p) == {q \in Slots : parent[q] = p}

(* wakeup(q): here processes sleep in wait() only, each on its own slot.     *)
Wakeup(q) == state' = [p \in Slots |-> IF p = q /\ state[p] = "SLEEPING"
                                       THEN "RUNNABLE" ELSE state[p]]

-----------------------------------------------------------------------------
(* fork(), up to the release of np->lock: allocproc() finds an UNUSED slot.   *)
(* It sets no field but pid and state: the rest is as freeproc() left it.     *)
ForkAlloc(p) ==
  /\ Runs(p, "user") /\ ~killed[p] /\ nextpid <= MaxPid
  /\ \E q \in Slots :
       /\ state[q] = "UNUSED"
       /\ state' = [state EXCEPT ![q] = "USED"]
       /\ pid'   = [pid EXCEPT ![q] = nextpid]
       /\ np'    = [np EXCEPT ![p] = q]
       /\ pc'    = [pc EXCEPT ![p] = "fork_parent", ![q] = "user"]
  /\ nextpid' = nextpid + 1
  /\ UNCHANGED <<parent, killed, wait_lock>>

(* No slot is free, or there is no memory: then freeproc() takes back the     *)
(* slot, but not the pid.                                                     *)
ForkFails(p) ==
  /\ Runs(p, "user") /\ ~killed[p]
  /\ \/ /\ \A q \in Slots : state[q] # "UNUSED"
        /\ UNCHANGED <<killed, nextpid>>
     \/ /\ nextpid <= MaxPid /\ nextpid' = nextpid + 1
        /\ \E q \in Slots : state[q] = "UNUSED" /\ killed' = [killed EXCEPT ![q] = FALSE]
  /\ Goto(p, "ret")
  /\ UNCHANGED <<state, pid, parent, np, wait_lock>>

ForkParent(p) ==
  /\ Runs(p, "fork_parent") /\ wait_lock = NoSlot
  /\ parent' = [parent EXCEPT ![np[p]] = p]
  /\ Goto(p, "fork_run")
  /\ UNCHANGED <<state, pid, killed, np, wait_lock, nextpid>>

ForkRun(p) ==
  /\ Runs(p, "fork_run")
  /\ state' = [state EXCEPT ![np[p]] = "RUNNABLE"]
  /\ np' = [np EXCEPT ![p] = NoSlot]
  /\ Goto(p, "ret")
  /\ UNCHANGED <<pid, parent, killed, wait_lock, nextpid>>

-----------------------------------------------------------------------------
(* wait().                                                                    *)
WaitCall(p) ==
  /\ p \in Waiters /\ Runs(p, "user") /\ ~killed[p]
  /\ Goto(p, "wait")
  /\ UNCHANGED <<state, pid, parent, killed, np, wait_lock, nextpid>>

WaitLock(p) ==
  /\ Runs(p, "wait") /\ wait_lock = NoSlot
  /\ wait_lock' = p
  /\ Goto(p, "scan")
  /\ UNCHANGED <<state, pid, parent, killed, np, nextpid>>

(* The first child found in state ZOMBIE, for whose lock the scan waits.      *)
FirstZombie(p, z) ==
  LET zombies == {q \in Children(p) : state[q] = "ZOMBIE"} IN
  /\ z \in zombies /\ \A q \in zombies : z <= q

(* Mutants: killed is not reset; the child may still be in exit() or swtch(). *)
WaitReapKeepKilled(p, z) ==
  /\ Runs(p, "scan") /\ FirstZombie(p, z) /\ ~Leaving(z)
  /\ state'  = [state EXCEPT ![z] = "UNUSED"]
  /\ pid'    = [pid EXCEPT ![z] = 0]
  /\ parent' = [parent EXCEPT ![z] = NoSlot]
  /\ wait_lock' = NoSlot
  /\ Goto(p, "ret")
  /\ UNCHANGED <<killed, np, nextpid>>

WaitReapEarly(p, z) ==
  /\ Runs(p, "scan") /\ FirstZombie(p, z)
  /\ state'  = [state EXCEPT ![z] = "UNUSED"]
  /\ pid'    = [pid EXCEPT ![z] = 0]
  /\ parent' = [parent EXCEPT ![z] = NoSlot]
  /\ killed' = [killed EXCEPT ![z] = FALSE]
  /\ wait_lock' = NoSlot
  /\ Goto(p, "ret")
  /\ UNCHANGED <<np, nextpid>>

(* freeproc() and return.                                                     *)
WaitReap(p, z) ==
  /\ Runs(p, "scan") /\ FirstZombie(p, z) /\ ~Leaving(z)
  /\ state'  = [state EXCEPT ![z] = "UNUSED"]
  /\ pid'    = [pid EXCEPT ![z] = 0]
  /\ parent' = [parent EXCEPT ![z] = NoSlot]
  /\ killed' = [killed EXCEPT ![z] = FALSE]
  /\ wait_lock' = NoSlot
  /\ Goto(p, "ret")
  /\ UNCHANGED <<np, nextpid>>

(* copyout() of the exit status fails, which init does not ask for: the       *)
(* zombie stays.                                                              *)
WaitBadAddress(p, z) ==
  /\ p # InitProc
  /\ Runs(p, "scan") /\ FirstZombie(p, z) /\ ~Leaving(z)
  /\ wait_lock' = NoSlot
  /\ Goto(p, "ret")
  /\ UNCHANGED <<state, pid, parent, killed, np, nextpid>>

(* Mutant: wait_lock is released before sleep().                              *)
WaitNoneUnlocked(p) ==
  /\ Runs(p, "scan") /\ ~\E z \in Slots : FirstZombie(p, z)
  /\ wait_lock' = NoSlot
  /\ Goto(p, IF Children(p) = {} \/ killed[p] THEN "ret" ELSE "sleep")
  /\ UNCHANGED <<state, pid, parent, killed, np, nextpid>>

(* Nobody to reap: give up, or sleep() if there is somebody to wait for.      *)
WaitNone(p) ==
  /\ Runs(p, "scan") /\ ~\E z \in Slots : FirstZombie(p, z)
  /\ IF Children(p) = {} \/ killed[p]
     THEN Goto(p, "ret") /\ wait_lock' = NoSlot
     ELSE Goto(p, "sleep") /\ wait_lock' = wait_lock
  /\ UNCHANGED <<state, pid, parent, killed, np, nextpid>>

WaitSleep(p) ==
  /\ Runs(p, "sleep")
  /\ state' = [state EXCEPT ![p] = "SLEEPING"]
  /\ wait_lock' = NoSlot
  /\ Goto(p, "wait")
  /\ UNCHANGED <<pid, parent, killed, np, nextpid>>

-----------------------------------------------------------------------------
(* exit(), called by the program or for a killed process by usertrap().       *)
(* The program of initproc never calls it.                                    *)
ExitCall(p) ==
  /\ p # InitProc
  /\ Runs(p, "user")
  /\ Goto(p, "exit")
  /\ UNCHANGED <<state, pid, parent, killed, np, wait_lock, nextpid>>

Return(p) ==
  /\ Runs(p, "ret")
  /\ Goto(p, IF killed[p] THEN "exit" ELSE "user")
  /\ UNCHANGED <<state, pid, parent, killed, np, wait_lock, nextpid>>

ExitLock(p) ==
  /\ Runs(p, "exit") /\ wait_lock = NoSlot
  /\ wait_lock' = p
  /\ Goto(p, "reparent")
  /\ UNCHANGED <<state, pid, parent, killed, np, nextpid>>

(* Mutant: the scan starts after p's own slot.                               *)
reparent_later(p) ==
  /\ Runs(p, "reparent")
  /\ parent' = [q \in Slots |-> IF parent[q] = p /\ q > p THEN InitProc ELSE parent[q]]
  /\ IF Children(p) = {} THEN state' = state ELSE Wakeup(InitProc)
  /\ Goto(p, "exit_wakeup")
  /\ UNCHANGED <<pid, killed, np, wait_lock, nextpid>>

reparent(p) ==
  /\ Runs(p, "reparent")
  /\ parent' = [q \in Slots |-> IF parent[q] = p THEN InitProc ELSE parent[q]]
  /\ IF Children(p) = {} THEN state' = state ELSE Wakeup(InitProc)
  /\ Goto(p, "exit_wakeup")
  /\ UNCHANGED <<pid, killed, np, wait_lock, nextpid>>

(* Mutant: the parent is not woken.                                          *)
ExitSilently(p) ==
  /\ Runs(p, "exit_wakeup")
  /\ Goto(p, "exit_zombie")
  /\ UNCHANGED <<state, pid, parent, killed, np, wait_lock, nextpid>>

ExitWakeup(p) ==
  /\ Runs(p, "exit_wakeup")
  /\ Wakeup(parent[p])
  /\ Goto(p, "exit_zombie")
  /\ UNCHANGED <<pid, parent, killed, np, wait_lock, nextpid>>

ExitZombie(p) ==
  /\ Runs(p, "exit_zombie")
  /\ state' = [state EXCEPT ![p] = "ZOMBIE"]
  /\ Goto(p, "zombie")
  /\ UNCHANGED <<pid, parent, killed, np, wait_lock, nextpid>>

ExitUnlock(p) ==
  /\ pc[p] = "zombie"
  /\ wait_lock' = NoSlot
  /\ Goto(p, "swtch")
  /\ UNCHANGED <<state, pid, parent, killed, np, nextpid>>

(* sched() for good; scheduler() releases p->lock.                            *)
ExitSwtch(p) ==
  /\ pc[p] = "swtch"
  /\ Goto(p, "gone")
  /\ UNCHANGED <<state, pid, parent, killed, np, wait_lock, nextpid>>

-----------------------------------------------------------------------------
(* kill(k): pids of processes differ, and every UNUSED slot has pid 0.        *)
kill(p, k) ==
  /\ Runs(p, "user") /\ ~killed[p]
  /\ \E q \in Slots :
       /\ pid[q] = k /\ ~Leaving(q)
       /\ killed' = [killed EXCEPT ![q] = TRUE]
       /\ Wakeup(q)
  /\ UNCHANGED <<pid, parent, pc, np, wait_lock, nextpid>>

Kernel(p) ==
  \/ ForkParent(p) \/ ForkRun(p) \/ Return(p)
  \/ WaitLock(p) \/ WaitNone(p) \/ WaitSleep(p)
  \/ \E z \in Slots : WaitReap(p, z) \/ WaitBadAddress(p, z)
  \/ ExitLock(p) \/ reparent(p) \/ ExitWakeup(p) \/ ExitZombie(p)
  \/ ExitUnlock(p) \/ ExitSwtch(p)

Calls(p) ==
  \/ ForkAlloc(p) \/ ForkFails(p) \/ WaitCall(p) \/ ExitCall(p)
  \/ \E k \in KillPids : kill(p, k)

Next == \E p \in Slots : Kernel(p) \/ Calls(p)

Spec == Init /\ [][Next]_vars

(* A thread in the kernel gets its CPU and its locks in the end, and init     *)
(* calls wait() again and again.                                              *)
FairSpec ==
  /\ Spec
  /\ \A p \in Slots : SF_vars(Kernel(p))
  /\ SF_vars(WaitCall(InitProc))

-----------------------------------------------------------------------------
TypeOK ==
  /\ state  \in [Slots -> {"UNUSED", "USED", "SLEEPING", "RUNNABLE", "ZOMBIE"}]
  /\ pid    \in [Slots -> Nat]
  /\ parent \in [Slots -> Slots \cup {NoSlot}]
  /\ killed \in [Slots -> BOOLEAN]
  /\ pc \in [Slots -> {"user", "ret", "fork_parent", "fork_run", "wait", "scan", "sleep", "exit",
                       "reparent", "exit_wakeup", "exit_zombie", "zombie", "swtch", "gone"}]
  /\ np \in [Slots -> Slots \cup {NoSlot}]
  /\ wait_lock \in Slots \cup {NoSlot}
  /\ nextpid \in Nat

(* Every process but init has a parent that lives and can wait() for it, or   *)
(* is about to get it from the fork() that makes it: nobody is left behind by *)
(* a parent that exits, whatever else happens at the same time.               *)
Family ==
  \A q \in Slots \ {InitProc} : state[q] # "UNUSED" =>
    \/ parent[q] # NoSlot /\ state[parent[q]] \in {"RUNNABLE", "SLEEPING"}
    \/ state[q] = "USED" /\ \E p \in Slots : Runs(p, "fork_parent") /\ np[p] = q

(* A process that is still in exit() or swtch() is not freed and its slot is  *)
(* not given to another one, whose kernel stack would be the same.            *)
StackInUse == \A p \in Slots : Leaving(p) => state[p] = "ZOMBIE"

(* Nobody is killed before it is born: p->killed is clear when a slot is      *)
(* taken, for kill() names processes only.                                    *)
Born == \A q \in Slots : state[q] = "UNUSED" /\ state'[q] = "USED" => ~killed'[q]
BornAlive == [][Born]_vars

(* init reaps every zombie it has or is given by reparent().                  *)
OrphansReaped ==
  \A q \in Slots \ {InitProc} :
    state[q] = "ZOMBIE" /\ parent[q] = InitProc ~> state[q] # "ZOMBIE"

(* wait() returns once there is a zombie to return: the wakeup() of a child's *)
(* exit() is not lost between the scan of the table and sleep().  (For init   *)
(* this is part of OrphansReaped.)                                            *)
InWait(p) == pc[p] \in {"wait", "scan", "sleep"}
WaitReturns ==
  \A p \in Waiters \ {InitProc} :
    InWait(p) /\ (\E q \in Children(p) : state[q] = "ZOMBIE") ~> ~InWait(p)
=============================================================================
