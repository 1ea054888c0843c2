------------------------------ MODULE Spinlock ------------------------------
(***************************************************************************)
(* Spinlocks (kernel/spinlock.c) and what becomes of the interrupt enable  *)
(* bit when kernel threads take them, are interrupted, and change CPUs in  *)
(* sched() (proc.c) with one lock held.  What the rest of the kernel does  *)
(* is any use that respects the order: a lock of Locks, then p->locks.     *)
(***************************************************************************)
EXTENDS Integers, FiniteSets

CONSTANTS CPUs, Threads,
          Locks,   \* spinlocks that interrupt handlers take too
          NoOne

LockIds  == Locks \cup Threads   \* a thread stands for its p->lock
Contexts == Threads \cup CPUs    \* a CPU stands for its scheduler()

ASSUME SpinAssumption ==
  CPUs \cap Threads = {} /\ Locks \cap Threads = {} /\ NoOne \notin LockIds \cup Contexts

VARIABLES locked, lcpu,        \* struct spinlock
          intr, noff, intena,  \* sstatus.SIE, and struct cpu
          run,                 \* the thread on a CPU; NoOne: its scheduler
          doing, lk,           \* where a context is in acquire() and release(), and of what
          trap,                \* it is in kerneltrap()
          saved,               \* intena, the local variable of its sched()
          owner                \* ghost: the CPU between the swap and the release

spinVars == <<locked, lcpu, intr, noff, intena, run, doing, lk, trap, saved, owner>>

SpinInit ==
  /\ locked = [l \in LockIds |-> FALSE] /\ lcpu = [l \in LockIds |-> NoOne]
  /\ intr = [c \in CPUs |-> TRUE] /\ noff = [c \in CPUs |-> 0]
  /\ intena = [c \in CPUs |-> FALSE] /\ run = [c \in CPUs |-> NoOne]
  /\ doing = [x \in Contexts |-> IF x \in Threads THEN "new" ELSE "run"]
  /\ lk = [x \in Contexts |-> NoOne] /\ trap = [x \in Contexts |-> FALSE]
  /\ saved = [t \in Threads |-> TRUE] /\ owner = [l \in LockIds |-> NoOne]

Current(c)    == IF run[c] = NoOne THEN c ELSE run[c]
Goes(x, l)    == doing' = [doing EXCEPT ![x] = l]
Owned(c)      == {l \in LockIds : owner[l] = c}

holding(c, l) == locked[l] /\ lcpu[l] = c

-----------------------------------------------------------------------------
(* acquire(): push_off() and the check, the swap, and the record of the CPU.  *)
MayTake(x, c, l) ==
  \/ Owned(c) = {} /\ (x \in Threads => l \in Locks \cup {x}) /\ (x \in CPUs /\ ~trap[x] => l \in Threads)
  \/ Owned(c) \in {{k} : k \in Locks} /\ l \in Threads /\ (trap[x] => l # x)

SaveIntena(c) == IF noff[c] = 0 THEN [intena EXCEPT ![c] = intr[c]] ELSE intena
acquire(c, l) ==
  LET x == Current(c) IN
  /\ doing[x] = "run" /\ MayTake(x, c, l)
  /\ intr' = [intr EXCEPT ![c] = FALSE]
  /\ intena' = SaveIntena(c)
  /\ noff' = [noff EXCEPT ![c] = @ + 1]
  /\ Goes(x, IF holding(c, l) THEN "panic" ELSE "spin") /\ lk' = [lk EXCEPT ![x] = l]
  /\ UNCHANGED <<locked, lcpu, run, trap, saved, owner>>

Swap(c) ==
  LET x == Current(c) IN
  /\ doing[x] = "spin" /\ ~locked[lk[x]]
  /\ locked' = [locked EXCEPT ![lk[x]] = TRUE] /\ owner' = [owner EXCEPT ![lk[x]] = c]
  /\ Goes(x, "record")
  /\ UNCHANGED <<lcpu, intr, noff, intena, run, lk, trap, saved>>

Record(c) ==
  LET x == Current(c) IN
  /\ doing[x] = "record"
  /\ lcpu' = [lcpu EXCEPT ![lk[x]] = c]
  /\ Goes(x, "run") /\ lk' = [lk EXCEPT ![x] = NoOne]
  /\ UNCHANGED <<locked, intr, noff, intena, run, trap, saved, owner>>

TurnsOn(c) == noff[c] = 1 /\ intena[c]

(* forkret() releases p->lock and ends in usertrapret() and sret, which       *)
(* enable interrupts whatever the CPU did before: in one step with pop_off(). *)
usertrapret(c) == doing[Current(c)] = "leave"

(* release(): lk->cpu, lk->locked, and pop_off() with its panics.             *)
release(c, l) ==
  LET x == Current(c) IN
  /\ doing[x] = "run" \/ (doing[x] \in {"back", "first"} /\ l \in Threads)
  /\ l \in Owned(c)
  /\ Goes(x, IF ~holding(c, l) THEN "panic" ELSE IF doing[x] = "first" THEN "leave" ELSE "unlock")
  /\ lk' = [lk EXCEPT ![x] = l]
  /\ lcpu' = [lcpu EXCEPT ![l] = NoOne]
  /\ UNCHANGED <<locked, intr, noff, intena, run, trap, saved, owner>>

pop_off(c) ==
  LET x == Current(c) IN
  /\ doing[x] \in {"unlock", "leave"}
  /\ locked' = [locked EXCEPT ![lk[x]] = FALSE] /\ owner' = [owner EXCEPT ![lk[x]] = NoOne]
  /\ noff' = [noff EXCEPT ![c] = @ - 1]
  /\ intr' = [intr EXCEPT ![c] = @ \/ TurnsOn(c) \/ usertrapret(c)]
  /\ Goes(x, IF intr[c] \/ noff[c] < 1 THEN "panic" ELSE "run")
  /\ lk' = [lk EXCEPT ![x] = NoOne]
  /\ UNCHANGED <<lcpu, intena, run, trap, saved>>

-----------------------------------------------------------------------------
(* An interrupt, the end of kerneltrap() (w_sstatus() and sret), and the      *)
(* intr_on() of scheduler().                                                  *)
Interrupt(c) ==
  LET x == Current(c) IN
  /\ intr[c] /\ doing[x] = "run" /\ ~trap[x]
  /\ trap' = [trap EXCEPT ![x] = TRUE] /\ intr' = [intr EXCEPT ![c] = FALSE]
  /\ UNCHANGED <<locked, lcpu, noff, intena, run, doing, lk, saved, owner>>

TrapReturn(c) ==
  LET x == Current(c) IN
  /\ trap[x] /\ doing[x] = "run" /\ Owned(c) = {}
  /\ trap' = [trap EXCEPT ![x] = FALSE] /\ intr' = [intr EXCEPT ![c] = TRUE]
  /\ UNCHANGED <<locked, lcpu, noff, intena, run, doing, lk, saved, owner>>

IntrOn(c) ==
  /\ run[c] = NoOne /\ doing[c] = "run" /\ ~trap[c] /\ Owned(c) = {} /\ ~intr[c]
  /\ intr' = [intr EXCEPT ![c] = TRUE]
  /\ UNCHANGED <<locked, lcpu, noff, intena, run, doing, lk, trap, saved, owner>>

(* sched() in yield() and sleep(), with its panics; scheduler() goes on, and  *)
(* gives the CPU it is on to a thread that is ready.                          *)
sched(c) ==
  LET t == run[c] IN
  /\ t # NoOne /\ doing[t] = "run" /\ Owned(c) = {t}
  /\ saved' = [saved EXCEPT ![t] = intena[c]]
  /\ run' = [run EXCEPT ![c] = NoOne]
  /\ doing' = [doing EXCEPT ![c] = "back",
                            ![t] = IF noff[c] # 1 \/ intr[c] THEN "panic" ELSE "ready"]
  /\ UNCHANGED <<locked, lcpu, intr, noff, intena, lk, trap, owner>>

(* Mutant: sched() does not restore intena.                                   *)
RestoreNot(c, t) == intena

Restore(c, t) == [intena EXCEPT ![c] = saved[t]]

(* swtch() to a thread: back in sched() or, the first time, in forkret().     *)
RunAgain(c, t) == doing[t] = "ready" /\ Goes(t, "back") /\ intena' = Restore(c, t)
FirstRun(c, t) == doing[t] = "new" /\ Goes(t, "first") /\ UNCHANGED intena
Resume(c, t) ==
  /\ run[c] = NoOne /\ doing[c] = "run" /\ Owned(c) = {t} /\ ~trap[c]
  /\ RunAgain(c, t) \/ FirstRun(c, t)
  /\ run' = [run EXCEPT ![c] = t]
  /\ UNCHANGED <<locked, lcpu, intr, noff, lk, trap, saved, owner>>

SpinNext == \E c \in CPUs :
  \/ \E l \in LockIds : acquire(c, l) \/ release(c, l)
  \/ Swap(c) \/ Record(c) \/ pop_off(c) \/ Interrupt(c) \/ TrapReturn(c) \/ IntrOn(c)
  \/ sched(c) \/ \E t \in Threads : Resume(c, t)

-----------------------------------------------------------------------------
(* No panic: a CPU never waits for a lock it holds, in a handler either; and  *)
(* holding() is right although lk->locked and lk->cpu change separately.      *)
NeverPanics == \A x \in Contexts : doing[x] # "panic"
HoldingRight == \A c \in CPUs, l \in LockIds :
  /\ holding(c, l) => owner[l] = c
  /\ owner[l] = c /\ doing[Current(c)] \in {"run", "back", "first"} => holding(c, l)

(* Interrupts are off exactly as long as they must be: with locks, and in     *)
(* handlers; a thread that holds no lock any more has them on again, on       *)
(* whatever CPU it is now, and whatever ran there before.                     *)
InterruptsRight == \A c \in CPUs : LET x == Current(c) IN
  /\ noff[c] = Cardinality(Owned(c)) + (IF doing[x] = "spin" THEN 1 ELSE 0)
  /\ intr[c] => noff[c] = 0 /\ ~trap[x]
  /\ x \in Threads /\ noff[c] = 0 => intr[c] = ~trap[x]

(* PROPERTY: all of this at once: mutual exclusion without deadlock, a true   *)
(* holding(), and the interrupt enable bit restored (spinlock.c:22-110,       *)
(* proc.c sched()).                                                           *)
SpinlocksRight == NeverPanics /\ HoldingRight /\ InterruptsRight

SpinSpec == SpinInit /\ [][SpinNext]_spinVars
=============================================================================
