------------------------------ MODULE Scheduler -------------------------------
(***************************************************************************)
(* The order in which scheduler() (lab2/kernel/proc.c) takes processes:    *)
(* every CPU goes round the table of its own. A process is RUNNABLE,       *)
(* RUNNING, or anything else ("out"), and made RUNNABLE by wakeup(),       *)
(* kill() or fork(), with its lock held for a step.                        *)
(***************************************************************************)
EXTENDS Integers, FiniteSets

CONSTANTS NPROC, Cores, NoCPU

ASSUME SchedAssumption == NPROC \in Nat \ {0} /\ NoCPU \notin Cores

Procs == 1 .. NPROC

VARIABLES state, plock,  \* struct proc; the CPU that holds p->lock over a switch
          scan, proc,    \* of scheduler(): the slot looked at; c->proc, 0 if there is none
          passed         \* ghost: how often a CPU has picked q while p was RUNNABLE
schedVars == <<state, plock, scan, proc, passed>>

NoneYet == [q \in Procs |-> [c \in Cores |-> 0]]
SchedInit ==
  /\ state \in [Procs -> {"RUNNABLE", "out"}] /\ plock = [p \in Procs |-> NoCPU]
  /\ scan = [c \in Cores |-> 1] /\ proc = [c \in Cores |-> 0] /\ passed = [p \in Procs |-> NoneYet]

Slot(i) == (i % NPROC) + 1

-----------------------------------------------------------------------------
(* A turn of the loop: another slot is left alone; a RUNNABLE process gets    *)
(* the CPU, and gives back its lock.                                          *)
LeaveAlone(c) ==
  /\ proc[c] = 0 /\ plock[scan[c]] = NoCPU /\ state[scan[c]] # "RUNNABLE"
  /\ scan' = [scan EXCEPT ![c] = Slot(@)] /\ UNCHANGED <<state, plock, proc, passed>>
Pick(c) ==
  LET q == scan[c] IN
  /\ proc[c] = 0 /\ plock[q] = NoCPU /\ state[q] = "RUNNABLE"
  /\ state' = [state EXCEPT ![q] = "RUNNING"] /\ plock' = [plock EXCEPT ![q] = c]
  /\ proc' = [proc EXCEPT ![c] = q] /\ UNCHANGED scan
  /\ passed' = [p \in Procs |->
       IF p # q /\ state[p] = "RUNNABLE" THEN [passed[p] EXCEPT ![q][c] = @ + 1] ELSE NoneYet]
Running(c) == proc[c] # 0 /\ plock[proc[c]] = c /\ state[proc[c]] = "RUNNING"
              /\ plock' = [plock EXCEPT ![proc[c]] = NoCPU] /\ UNCHANGED <<state, scan, proc, passed>>

(* yield(), or sleep() and exit(), up to swtch().                             *)
GiveUp(c) ==
  LET p == proc[c] IN
  /\ p # 0 /\ plock[p] = NoCPU /\ plock' = [plock EXCEPT ![p] = c]
  /\ \E s \in {"RUNNABLE", "out"} : state' = [state EXCEPT ![p] = s]
  /\ UNCHANGED <<scan, proc, passed>>

(* A bug in the next definition: the search begins again at the first slot.   *)
FromTheFirst(c) == 1
NextSlot(c)     == Slot(scan[c])
Back(c) ==
  /\ proc[c] # 0 /\ plock[proc[c]] = c /\ state[proc[c]] # "RUNNING"
  /\ proc' = [proc EXCEPT ![c] = 0] /\ plock' = [plock EXCEPT ![proc[c]] = NoCPU]
  /\ scan' = [scan EXCEPT ![c] = NextSlot(c)] /\ UNCHANGED <<state, passed>>

MadeRunnable(p) ==
  /\ state[p] = "out" /\ plock[p] = NoCPU /\ state' = [state EXCEPT ![p] = "RUNNABLE"]
  /\ UNCHANGED <<plock, scan, proc, passed>>

SchedNext == \/ \E c \in Cores : LeaveAlone(c) \/ Pick(c) \/ Running(c) \/ GiveUp(c) \/ Back(c)
        \/ \E p \in Procs : MadeRunnable(p)
SchedSpec == SchedInit /\ [][SchedNext]_schedVars

-----------------------------------------------------------------------------
(* PROPERTY: while a process is RUNNABLE, no CPU gives itself to any other    *)
(* one process twice: the wait for a CPU is bounded, however the others come  *)
(* and go, which is what the fairness assumed of the scheduler rests on.      *)
NobodyOvertaken == \A p \in Procs : state[p] = "RUNNABLE" =>
  \A q \in Procs, c \in Cores : passed[p][q][c] <= 1
=============================================================================
