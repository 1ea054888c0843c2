------------------------------ MODULE Semaphore ------------------------------
(***************************************************************************)
(* The semaphore system calls of lab2 (kernel/sem_syscall.c) on top of the *)
(* process table.  User programs are arbitrary: a process in user space    *)
(* makes any request of Requests, kills any process of Victims or is       *)
(* preempted.  The kernel side runs at the granularity of the spinlocks:   *)
(* each semaphore has its own, and sem_down() gives it up inside sleep().  *)
(***************************************************************************)
EXTENDS Proc

CONSTANTS MAX_SEM,   \* entries of semaphore_array
          Requests,  \* the calls user programs make: [op, sem, val]
          Victims,   \* the processes that may be killed
          MaxValue,  \* bound: calls are requested only while a counter is within it
          Preempt    \* bound: the labels at which the timer interrupts

Sems == 0 .. MAX_SEM - 1
Ops  == {"open", "close", "up", "down"}

ASSUME SemAssumption ==
  /\ MAX_SEM \in Nat \ {0} /\ MaxValue \in Nat
  /\ Requests \subseteq [op : Ops, sem : Int, val : Int]
  /\ Victims \subseteq Procs
  /\ Preempt \subseteq {"user", "ret", "exit"}

EMPTY_SEM == -1
ERR       == 0
SUCCESS   == 1
Pending   == -1   \* no result yet
NoCall    == [op |-> "none", sem |-> 0, val |-> 0]

VARIABLES value,  \* semaphore_array[s].value
          slock,  \* semaphore_array[s].lock: the CPU that holds it
          call,   \* the request p is executing in the kernel
          ret     \* its result, once it has one

semVars == <<value, slock, call, ret>>
vars    == <<state, chan, killed, plock, cpu, pc, scan, value, slock, call, ret>>

Init ==
  /\ state  = [p \in Procs |-> "RUNNABLE"]
  /\ chan   = [p \in Procs |-> NoChan]
  /\ killed = [p \in Procs |-> FALSE]
  /\ plock  = [p \in Procs |-> NoCPU]
  /\ cpu    = [c \in CPUs |-> NoProc]
  /\ pc     = [p \in Procs |-> "user"]
  /\ scan   = [p \in Procs |-> 1]
  /\ value  = [s \in Sems |-> EMPTY_SEM]
  /\ slock  = [s \in Sems |-> NoCPU]
  /\ call   = [p \in Procs |-> NoCall]
  /\ ret    = [p \in Procs |-> Pending]

-----------------------------------------------------------------------------
(* Arguments sem_open() and sem_close() turn away; up and down check none.   *)
Rejected(k) ==
  \/ k.op = "open"  /\ (k.val < 0 \/ k.sem < 0 \/ k.sem > MAX_SEM)
  \/ k.op = "close" /\ (k.sem < 0 \/ k.sem > MAX_SEM)

WithinBound(k) ==
  /\ k.op = "up"   => value[k.sem] < MaxValue
  /\ k.op = "down" => value[k.sem] > EMPTY_SEM - 1 - MaxValue

(* A system call: trap, the check of p->killed, argument checks.             *)
Invoke(c, p, k) ==
  /\ Exec(c, p, "user") /\ ~killed[p]
  /\ k.sem \in Sems => WithinBound(k)
  /\ call' = [call EXCEPT ![p] = k]
  /\ IF Rejected(k)
     THEN Goto(p, "ret") /\ ret' = [ret EXCEPT ![p] = ERR]
     ELSE Goto(p, IF k.sem \in Sems THEN "acq" ELSE "oob") /\ ret' = ret
  /\ UNCHANGED <<state, chan, killed, plock, cpu, scan, value, slock>>

(* kill(pid) as a system call of p.                                          *)
Kill(c, p, q) ==
  /\ Exec(c, p, "user") /\ ~killed[p]
  /\ KillSlot(c, p, q)
  /\ UNCHANGED semVars

(* Mutant: only system calls look at p->killed.                              *)
TrapKilledIgnored(c, p) ==
  /\ Exec(c, p, "user") /\ killed[p]
  /\ UNCHANGED vars

(* Any trap of a killed process in user space ends in exit(-1).              *)
TrapKilled(c, p) ==
  /\ Exec(c, p, "user") /\ killed[p]
  /\ Goto(p, "exit")
  /\ UNCHANGED <<state, chan, killed, plock, cpu, scan>> /\ UNCHANGED semVars

(* The end of usertrap(): a killed process does not go back to user space.   *)
Return(c, p) ==
  /\ Exec(c, p, "ret")
  /\ Goto(p, IF killed[p] THEN "exit" ELSE "user")
  /\ call' = [call EXCEPT ![p] = NoCall]
  /\ ret'  = [ret EXCEPT ![p] = Pending]
  /\ UNCHANGED <<state, chan, killed, plock, cpu, scan, value, slock>>

-----------------------------------------------------------------------------
(* acquire(&semaphore_array[sem].lock), on entry or at the end of sleep().   *)
Acquire(c, p, from, to) ==
  LET s == call[p].sem IN
  /\ Exec(c, p, from) /\ slock[s] = NoCPU
  /\ slock' = [slock EXCEPT ![s] = c]
  /\ Goto(p, to)
  /\ UNCHANGED <<state, chan, killed, plock, cpu, scan, value, call, ret>>

(* Mutant: after sleep() the unit is taken without a new look at value.      *)
ReacquireAndTake(c, p) ==
  LET s == call[p].sem IN
  /\ Exec(c, p, "reacq") /\ slock[s] = NoCPU
  /\ value' = [value EXCEPT ![s] = @ - 1]
  /\ ret'   = [ret EXCEPT ![p] = SUCCESS]
  /\ Goto(p, "ret")
  /\ UNCHANGED <<state, chan, killed, plock, cpu, scan, slock, call>>

Enter(c, p)     == Acquire(c, p, "acq", "crit")
Reacquire(c, p) == Acquire(c, p, "reacq", "test")

(* Set the value of the semaphore, release its lock and return r.            *)
Finish(c, p, v, r) ==
  LET s == call[p].sem IN
  /\ value' = [value EXCEPT ![s] = v]
  /\ slock' = [slock EXCEPT ![s] = NoCPU]
  /\ ret'   = [ret EXCEPT ![p] = r]
  /\ Goto(p, "ret")
  /\ scan'  = [scan EXCEPT ![p] = 1]
  /\ UNCHANGED <<state, chan, killed, plock, cpu, call>>

sem_open(c, p) ==
  LET v == value[call[p].sem] IN
  /\ Exec(c, p, "crit") /\ call[p].op = "open"
  /\ \/ v # EMPTY_SEM /\ Finish(c, p, v, ERR)
     \/ v = EMPTY_SEM /\ Finish(c, p, call[p].val, SUCCESS)

sem_close(c, p) ==
  /\ Exec(c, p, "crit") /\ call[p].op = "close"
  /\ Finish(c, p, EMPTY_SEM, SUCCESS)

(* Mutant: no wakeup() of the sleepers.                                      *)
sem_up_silent(c, p) ==
  LET v == value[call[p].sem] IN
  /\ Exec(c, p, "crit") /\ call[p].op = "up"
  /\ \/ v = EMPTY_SEM /\ Finish(c, p, v, ERR)
     \/ v # EMPTY_SEM /\ Finish(c, p, v + 1, SUCCESS)

(* A semaphore found at 0 is incremented only after the wakeup() of all its  *)
(* sleepers, the lock held throughout.                                       *)
sem_up(c, p) ==
  LET v == value[call[p].sem] IN
  /\ Exec(c, p, "crit") /\ call[p].op = "up"
  /\ \/ v = EMPTY_SEM /\ Finish(c, p, v, ERR)
     \/ v \notin {EMPTY_SEM, 0} /\ Finish(c, p, v + 1, SUCCESS)
     \/ /\ v = 0
        /\ Goto(p, "wake") /\ scan' = [scan EXCEPT ![p] = 1]
        /\ UNCHANGED <<state, chan, killed, plock, cpu>> /\ UNCHANGED semVars

sem_up_wake(c, p) == WakeupSlot(c, p, call[p].sem) /\ UNCHANGED semVars

sem_up_last(c, p) ==
  /\ Exec(c, p, "wake") /\ scan[p] > NPROC
  /\ Finish(c, p, value[call[p].sem] + 1, SUCCESS)

(* The semaphore is tested for EMPTY_SEM once; the loop around sleep() only  *)
(* tests for 0.                                                              *)
sem_down(c, p) ==
  LET v == value[call[p].sem] IN
  /\ Exec(c, p, "crit") /\ call[p].op = "down"
  /\ \/ v = EMPTY_SEM /\ Finish(c, p, v, ERR)
     \/ /\ v # EMPTY_SEM
        /\ Goto(p, "test")
        /\ UNCHANGED <<state, chan, killed, plock, cpu, scan>> /\ UNCHANGED semVars

sem_down_test(c, p) ==
  LET v == value[call[p].sem] IN
  /\ Exec(c, p, "test")
  /\ \/ v # 0 /\ Finish(c, p, v - 1, SUCCESS)
     \/ /\ v = 0
        /\ Goto(p, "sleep1")
        /\ UNCHANGED <<state, chan, killed, plock, cpu, scan>> /\ UNCHANGED semVars

(* sleep(&semaphore_array[sem], &semaphore_array[sem].lock).                 *)
sem_sleep_lock(c, p) == SleepLock(c, p) /\ UNCHANGED semVars

(* Mutant: sleep() keeps the condition lock over the context switch.          *)
sem_sleep_keep(c, p) == SleepRelease(c, p) /\ UNCHANGED semVars

sem_sleep_release(c, p) ==
  /\ SleepRelease(c, p)
  /\ slock' = [slock EXCEPT ![call[p].sem] = NoCPU]
  /\ UNCHANGED <<value, call, ret>>

sem_sleep_enter(c, p) == SleepEnter(c, p, call[p].sem) /\ UNCHANGED semVars

sem_sleep_exit(c, p) == SleepExit(c, p) /\ UNCHANGED semVars

-----------------------------------------------------------------------------

(* The timer strikes where interrupts are on (SemAssumption): a thread that   *)
(* holds a spinlock or spins for one has turned them off in acquire().        *)
Timer(c, p) == pc[p] \in Preempt /\ YieldStart(c, p)

Schedule(c, p) ==
  /\ \/ SchedPick(c, p) \/ Swtch(c, p) \/ SchedReturn(c, p)
     \/ Timer(c, p)
     \/ pc[p] \in Preempt /\ YieldReturn(c, p)
  /\ UNCHANGED semVars

Exit(c, p) == ExitLast(c, p) /\ UNCHANGED semVars

Kernel(c, p) ==
  \/ Enter(c, p) \/ Reacquire(c, p) \/ Return(c, p) \/ TrapKilled(c, p)
  \/ sem_open(c, p) \/ sem_close(c, p)
  \/ sem_up(c, p) \/ sem_up_wake(c, p) \/ sem_up_last(c, p)
  \/ sem_down(c, p) \/ sem_down_test(c, p)
  \/ sem_sleep_lock(c, p) \/ sem_sleep_release(c, p)
  \/ sem_sleep_enter(c, p) \/ sem_sleep_exit(c, p)
  \/ Exit(c, p)

User(c, p) ==
  \/ \E k \in Requests : Invoke(c, p, k)
  \/ \E q \in Victims : Kill(c, p, q)

Next == \E c \in CPUs, p \in Procs : Kernel(c, p) \/ User(c, p) \/ Schedule(c, p)

Spec == Init /\ [][Next]_vars

(* Every thread in the kernel gets a CPU and its locks in the end:            *)
(* scheduler() scans the whole table for ever, critical sections are finite   *)
(* and run with interrupts off, a spinlock is not granted to others for ever, *)
(* and a timer interrupt stays pending until it is taken.  User programs owe  *)
(* nothing: they may stop making calls at any point.                          *)
Fairness ==
  \A p \in Procs :
    /\ SF_vars(\E c \in CPUs : Kernel(c, p))
    /\ SF_vars(\E c \in CPUs : SchedPick(c, p) /\ UNCHANGED semVars)
    /\ SF_vars(\E c \in CPUs : Timer(c, p) /\ UNCHANGED semVars)
    /\ WF_vars(\E c \in CPUs : (Swtch(c, p) \/ SchedReturn(c, p)) /\ UNCHANGED semVars)
    /\ WF_vars(\E c \in CPUs : YieldReturn(c, p) /\ UNCHANGED semVars)

FairSpec == Spec /\ Fairness

-----------------------------------------------------------------------------
Labels == {"user", "acq", "crit", "test", "wake", "sleep1", "sleep2", "sleep3",
           "woken", "reacq", "ret", "exit", "oob"}

TypeOK ==
  /\ state  \in [Procs -> States]
  /\ chan   \in [Procs -> Sems \cup {NoChan}]
  /\ killed \in [Procs -> BOOLEAN]
  /\ plock  \in [Procs -> CPUs \cup {NoCPU}]
  /\ cpu    \in [CPUs -> Procs \cup {NoProc}]
  /\ pc     \in [Procs -> Labels]
  /\ scan   \in [Procs -> 1 .. NPROC + 1]
  /\ value  \in [Sems -> Int]
  /\ slock  \in [Sems -> CPUs \cup {NoCPU}]
  /\ call   \in [Procs -> Requests \cup {NoCall}]
  /\ ret    \in [Procs -> {ERR, SUCCESS, Pending}]

(* A kernel stack is used by one CPU at a time: the thread that gave up the   *)
(* CPU in sched() is not picked up by another CPU before its swtch is over,   *)
(* although its wakeup() may come at once.                                    *)
OneCPU == \A c, d \in CPUs : cpu[c] = cpu[d] /\ cpu[c] # NoProc => c = d

(* The panics of sched(): a CPU about to swtch away from p holds p->lock and  *)
(* no other spinlock, so no lock is held across a context switch.             *)
SchedLocks ==
  \A c \in CPUs, p \in Procs :
    cpu[c] = p /\ state[p] # "RUNNING" =>
      /\ plock[p] = c
      /\ \A q \in Procs \ {p} : plock[q] # c
      /\ \A s \in Sems : slock[s] # c

(* No process sleeps in sem_down() on a semaphore that has units to take: a   *)
(* wakeup() is never lost between the test of value and SLEEPING.  It needs   *)
(* that no program closes a semaphore.                                        *)
NoLostWakeup ==
  \A p \in Procs, s \in Sems :
    state[p] = "SLEEPING" /\ chan[p] = s => value[s] = 0

(* sem_up() and sem_down() succeed on open semaphores only.                   *)
ClosedNotUsed ==
  [][\A p \in Procs : LET k == call[p] IN
       k.op \in {"up", "down"} /\ ret[p] = Pending /\ ret'[p] = SUCCESS
         => value[k.sem] # EMPTY_SEM]_vars

(* The range checks keep every access inside semaphore_array.                 *)
IndexInArray == \A p \in Procs : pc[p] # "oob"

(* With units to take and processes waiting for them, the units get taken or  *)
(* the waiting ends: the wakeup of sem_up() leads to a sem_down() that ends.  *)
Waiting(s) == {p \in Procs : call[p].op = "down" /\ call[p].sem = s /\ ret[p] = Pending}
UnitsTaken == \A s \in Sems :
                (value[s] > 0 /\ Waiting(s) # {}) ~> (value[s] = 0 \/ Waiting(s) = {})

(* A killed process exits, unless it waits in sem_down() for a semaphore that *)
(* stays at 0: sem_down() never looks at p->killed.                           *)
KillTakesEffect ==
  \A p \in Procs :
    killed[p] ~> (state[p] = "ZOMBIE" \/ (state[p] = "SLEEPING" /\ value[chan[p]] = 0))

-----------------------------------------------------------------------------
(* The inductive invariant behind OneCPU, SchedLocks and NoLostWakeup.        *)

(* Labels at which p holds the lock of its semaphore, and those inside        *)
(* sem_down()'s loop or sem_up()'s wakeup().                                  *)
Holding == {"crit", "test", "wake", "sleep1", "sleep2"}
Blocking == {"test", "sleep1", "sleep2", "sleep3", "woken", "reacq"}

(* A CPU runs p exactly while p is RUNNING or on its way out with p->lock.    *)
CpuInv ==
  /\ OneCPU
  /\ \A c \in CPUs, p \in Procs : cpu[c] = p => state[p] = "RUNNING" \/ plock[p] = c
  /\ \A p \in Procs : state[p] = "RUNNING" => \E c \in CPUs : cpu[c] = p

(* p->lock is held by the CPU that runs p, or by the scheduler p came from.   *)
ProcLockInv ==
  /\ \A c \in CPUs, p \in Procs :
       plock[p] = c => cpu[c] = p \/ (cpu[c] = NoProc /\ state[p] # "RUNNING")
  /\ \A p, q \in Procs : plock[p] = plock[q] /\ plock[p] # NoCPU => p = q
  /\ \A p \in Procs :
       /\ pc[p] \in {"sleep2", "sleep3"} => state[p] = "RUNNING" /\ plock[p] # NoCPU
       /\ state[p] = "RUNNING" /\ pc[p] = "woken" => plock[p] # NoCPU
       /\ state[p] = "SLEEPING" => pc[p] = "woken"

(* A semaphore's lock is held by the CPU whose thread is between acquire()    *)
(* and release(), which never loses the CPU there.                            *)
SemLockInv ==
  /\ \A s \in Sems : slock[s] # NoCPU =>
       LET p == cpu[slock[s]] IN p \in Procs /\ pc[p] \in Holding /\ call[p].sem = s
  /\ \A c \in CPUs, p \in Procs :
       pc[p] \in Holding /\ cpu[c] = p => slock[call[p].sem] = c
  /\ \A p \in Procs : pc[p] \in Holding => state[p] = "RUNNING"

CallInv ==
  \A p \in Procs :
    /\ pc[p] \in {"acq", "crit", "wake"} \cup Blocking => call[p].sem \in Sems
    /\ pc[p] \in Blocking => call[p].op = "down"
    /\ pc[p] = "wake" => call[p].op = "up"
    /\ state[p] = "SLEEPING" => chan[p] = call[p].sem

LockInv == TypeOK /\ CpuInv /\ ProcLockInv /\ SemLockInv /\ CallInv

(* p is committed to sleep: it will not look at value again before a wakeup.  *)
Asleep(p) == pc[p] = "sleep3" \/ state[p] = "SLEEPING"

(* While anybody is committed to sleep the value is 0, and a waker leaves     *)
(* nobody asleep behind its scan.                                             *)
WaitInv ==
  \A p \in Procs :
    /\ Asleep(p) \/ pc[p] \in {"sleep1", "sleep2", "wake"} => value[call[p].sem] = 0
    /\ \A w \in Procs \ {p} :
         pc[w] = "wake" /\ scan[w] > p /\ call[w].sem = call[p].sem => ~Asleep(p)

Counting == INSTANCE CountingSemaphores
Refines  == Counting!Spec
=============================================================================
