-------------------------------- MODULE Proc --------------------------------
(***************************************************************************)
(* The process table of the kernel and the CPUs that run it: p->lock, the  *)
(* scheduler, swtch, sleep, wakeup, yield and kill (kernel/proc.c).        *)
(*                                                                         *)
(* Every kernel thread that blocks does it through these operations, so    *)
(* the module is a toolbox: a client (a semaphore, a pipe, a lock that     *)
(* sleeps) EXTENDS it, adds its own state and makes a next-state relation  *)
(* out of its own actions and the actions below.  A CPU executes the       *)
(* kernel thread of process p while cpu[c] = p, and scheduler()'s own loop *)
(* while cpu[c] = NoProc.                                                  *)
(***************************************************************************)
EXTENDS Integers

CONSTANTS NPROC,  \* slots of the process table
          CPUs,   \* the CPUs; a spinlock is held by a CPU (lk->cpu)
          NoCPU   \* the holder of a free spinlock

ASSUME ProcAssumption == NPROC \in Nat \ {0} /\ NoCPU \notin CPUs

VARIABLES state,   \* p->state
          chan,    \* p->chan
          killed,  \* p->killed
          plock,   \* p->lock: the CPU that holds it
          cpu,     \* whose kernel thread a CPU executes: c->proc and the stack
          pc,      \* where the kernel thread of p is
          scan     \* the loop variable of wakeup(), in p's thread

procVars == <<state, chan, killed, plock, cpu, pc, scan>>

Procs  == 1 .. NPROC
NoProc == 0            \* c->proc == 0
NoChan == -1           \* p->chan == 0; channels are addresses, numbered from 0

States == {"UNUSED", "USED", "SLEEPING", "RUNNABLE", "RUNNING", "ZOMBIE"}

-----------------------------------------------------------------------------
(* Executing a thread.  c runs the statement at label l of p's thread.  A   *)
(* thread that has given up state RUNNING has only the swtch left to do.    *)
At(c, p, l) == cpu[c] = p /\ state[p] = "RUNNING" /\ pc[p] = l

Goto(p, l) == pc' = [pc EXCEPT ![p] = l]

(* The same at a label where p does not hold its own lock: it is neither in  *)
(* sleep() nor on its way out of the sched() of yield().                     *)
Exec(c, p, l) == At(c, p, l) /\ plock[p] # c

-----------------------------------------------------------------------------
(* scheduler(): an idle CPU takes the lock of a RUNNABLE process and         *)
(* switches to it with that lock held.  The order of the scan is left open.  *)
SchedPick(c, p) ==
  /\ cpu[c] = NoProc
  /\ \A q \in Procs : plock[q] # c
  /\ plock[p] = NoCPU /\ state[p] = "RUNNABLE"
  /\ plock' = [plock EXCEPT ![p] = c]
  /\ state' = [state EXCEPT ![p] = "RUNNING"]
  /\ cpu'   = [cpu EXCEPT ![c] = p]
  /\ UNCHANGED <<chan, killed, pc, scan>>

(* sched(): p has changed its state under p->lock and swtches to the         *)
(* scheduler of the CPU it is on.                                            *)
Swtch(c, p) ==
  /\ cpu[c] = p /\ state[p] # "RUNNING"
  /\ cpu' = [cpu EXCEPT ![c] = NoProc]
  /\ UNCHANGED <<state, chan, killed, plock, pc, scan>>

(* Back in scheduler(): release the lock p came out of sched() with.         *)
SchedReturn(c, p) ==
  /\ cpu[c] = NoProc /\ plock[p] = c
  /\ plock' = [plock EXCEPT ![p] = NoCPU]
  /\ UNCHANGED <<state, chan, killed, cpu, pc, scan>>

(* yield(), up to its sched(): the timer interrupts a thread that holds no   *)
(* spinlock (acquire() turns interrupts off).                                *)
YieldStart(c, p) ==
  /\ cpu[c] = p /\ state[p] = "RUNNING"
  /\ plock[p] = NoCPU
  /\ plock' = [plock EXCEPT ![p] = c]
  /\ state' = [state EXCEPT ![p] = "RUNNABLE"]
  /\ UNCHANGED <<chan, killed, cpu, pc, scan>>

(* yield() after its sched(): release p->lock and resume where it was.       *)
YieldReturn(c, p) ==
  /\ cpu[c] = p /\ state[p] = "RUNNING"
  /\ plock[p] = c
  /\ plock' = [plock EXCEPT ![p] = NoCPU]
  /\ UNCHANGED <<state, chan, killed, cpu, pc, scan>>

-----------------------------------------------------------------------------
(* sleep(ch, lk): take p->lock, release lk, go to sleep; tidy up once back.  *)
(* The client says what releasing lk is, and takes lk again at "reacq".      *)
SleepLock(c, p) ==
  /\ At(c, p, "sleep1") /\ plock[p] = NoCPU
  /\ plock' = [plock EXCEPT ![p] = c]
  /\ Goto(p, "sleep2")
  /\ UNCHANGED <<state, chan, killed, cpu, scan>>

SleepRelease(c, p) ==
  /\ At(c, p, "sleep2")
  /\ Goto(p, "sleep3")
  /\ UNCHANGED <<state, chan, killed, plock, cpu, scan>>

(* Mutant: p->lock is released before the swtch.                             *)
SleepEnterUnlocked(c, p, ch) ==
  /\ At(c, p, "sleep3")
  /\ chan'  = [chan EXCEPT ![p] = ch]
  /\ state' = [state EXCEPT ![p] = "SLEEPING"]
  /\ plock' = [plock EXCEPT ![p] = NoCPU]
  /\ Goto(p, "woken")
  /\ UNCHANGED <<killed, cpu, scan>>

SleepEnter(c, p, ch) ==
  /\ At(c, p, "sleep3")
  /\ chan'  = [chan EXCEPT ![p] = ch]
  /\ state' = [state EXCEPT ![p] = "SLEEPING"]
  /\ Goto(p, "woken")
  /\ UNCHANGED <<killed, plock, cpu, scan>>

SleepExit(c, p) ==
  /\ At(c, p, "woken")
  /\ chan'  = [chan EXCEPT ![p] = NoChan]
  /\ plock' = [plock EXCEPT ![p] = NoCPU]
  /\ Goto(p, "reacq")
  /\ UNCHANGED <<state, killed, cpu, scan>>

(* Mutants: wakeup() does not take q's lock; it visits every second slot.    *)
WakeupSlotUnlocked(c, p, ch) ==
  LET q == scan[p] IN
  /\ At(c, p, "wake") /\ q \in Procs
  /\ state' = IF q # p /\ state[q] = "SLEEPING" /\ chan[q] = ch
              THEN [state EXCEPT ![q] = "RUNNABLE"] ELSE state
  /\ scan' = [scan EXCEPT ![p] = q + 1]
  /\ UNCHANGED <<chan, killed, plock, cpu, pc>>

WakeupSlotStride(c, p, ch) ==
  LET q == scan[p] IN
  /\ At(c, p, "wake") /\ q \in Procs
  /\ q # p => plock[q] = NoCPU
  /\ state' = IF q # p /\ state[q] = "SLEEPING" /\ chan[q] = ch
              THEN [state EXCEPT ![q] = "RUNNABLE"] ELSE state
  /\ scan' = [scan EXCEPT ![p] = q + 2]
  /\ UNCHANGED <<chan, killed, plock, cpu, pc>>

(* One iteration of wakeup(ch): q's critical section is one step.            *)
WakeupSlot(c, p, ch) ==
  LET q == scan[p] IN
  /\ At(c, p, "wake") /\ q \in Procs
  /\ q # p => plock[q] = NoCPU
  /\ state' = IF q # p /\ state[q] = "SLEEPING" /\ chan[q] = ch
              THEN [state EXCEPT ![q] = "RUNNABLE"] ELSE state
  /\ scan' = [scan EXCEPT ![p] = q + 1]
  /\ UNCHANGED <<chan, killed, plock, cpu, pc>>

(* kill(pid): the slots before the victim's are locked and left alone, so    *)
(* the visit to the victim q is the whole effect.                            *)
KillSlot(c, p, q) ==
  /\ cpu[c] = p /\ state[p] = "RUNNING"
  /\ plock[q] = NoCPU
  /\ killed' = [killed EXCEPT ![q] = TRUE]
  /\ state'  = IF state[q] = "SLEEPING" THEN [state EXCEPT ![q] = "RUNNABLE"]
               ELSE state
  /\ UNCHANGED <<chan, plock, cpu, pc, scan>>

(* exit() from taking p->lock on: ZOMBIE, then sched() for good.             *)
ExitLast(c, p) ==
  /\ At(c, p, "exit") /\ plock[p] = NoCPU
  /\ plock' = [plock EXCEPT ![p] = c]
  /\ state' = [state EXCEPT ![p] = "ZOMBIE"]
  /\ UNCHANGED <<chan, killed, cpu, pc, scan>>
=============================================================================
