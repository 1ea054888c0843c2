--------------------------- MODULE SemaphoreProof ---------------------------
(***************************************************************************)
(* Machine-checked theorems about Semaphore, for every size of the process *)
(* table, every number of CPUs and semaphores and every user program: its  *)
(* invariants, and that it implements CountingSemaphores.                  *)
(***************************************************************************)
EXTENDS Semaphore, TLAPS

(* The step of one thread, as one disjunct of Next for a fixed c and p.      *)
Step(c, p) == Kernel(c, p) \/ User(c, p) \/ Schedule(c, p)

LEMMA TypeInit == Init => TypeOK
BY ProcAssumption, SemAssumption
   DEF Init, TypeOK, Procs, Sems, States, Labels, NoChan, NoProc, EMPTY_SEM, Pending

(* A request in the kernel has an operation, a semaphore and a value.        *)
LEMMA CallType ==
  ASSUME TypeOK, NEW p \in Procs
  PROVE  call[p].op \in Ops \cup {"none"} /\ call[p].sem \in Int /\ call[p].val \in Int
BY SemAssumption DEF TypeOK, NoCall, Ops

LEMMA FinishType ==
  ASSUME TypeOK, NEW c \in CPUs, NEW p \in Procs, NEW v \in Int,
         NEW r \in {ERR, SUCCESS}, Finish(c, p, v, r)
  PROVE  TypeOK'
<1> USE DEF TypeOK, Finish, Goto, Labels
<1>1. state' \in [Procs -> States] /\ killed' \in [Procs -> BOOLEAN] OBVIOUS
<1>2. chan' \in [Procs -> Sems \cup {NoChan}] /\ pc' \in [Procs -> Labels] OBVIOUS
<1>3. plock' \in [Procs -> CPUs \cup {NoCPU}] /\ cpu' \in [CPUs -> Procs \cup {NoProc}]
  OBVIOUS
<1>4. scan' \in [Procs -> 1 .. NPROC + 1] BY ProcAssumption
<1>5. value' \in [Sems -> Int] /\ slock' \in [Sems -> CPUs \cup {NoCPU}] OBVIOUS
<1>6. call' \in [Procs -> Requests \cup {NoCall}] OBVIOUS
<1>7. ret' \in [Procs -> {ERR, SUCCESS, Pending}] OBVIOUS
<1>8. QED BY <1>1, <1>2, <1>3, <1>4, <1>5, <1>6, <1>7

LEMMA TypeStep ==
  ASSUME TypeOK, CallInv, NEW c \in CPUs, NEW p \in Procs, Step(c, p)
  PROVE  TypeOK'
<1>a. /\ call[p].op \in Ops \cup {"none"} /\ call[p].sem \in Int /\ call[p].val \in Int
      /\ pc[p] \in {"acq", "crit", "wake"} \cup Blocking => call[p].sem \in Sems
      /\ \A s \in Sems : value[s] \in Int
  BY CallType DEF CallInv, TypeOK
<1>b. ASSUME NEW v \in Int, NEW r \in {ERR, SUCCESS}, Finish(c, p, v, r) PROVE TypeOK'
  BY <1>b, FinishType
<1>5. CASE sem_open(c, p) BY <1>a, <1>b, <1>5 DEF sem_open, Exec, At
<1>6. CASE sem_close(c, p) BY <1>b, <1>6 DEF sem_close, EMPTY_SEM
<1>9. CASE sem_up_last(c, p) BY <1>a, <1>b, <1>9 DEF sem_up_last, Exec, At
<1> USE ProcAssumption, SemAssumption
    DEF TypeOK, Procs, Sems, States, Labels, NoChan, NoProc, EMPTY_SEM, Pending,
        ERR, SUCCESS, At, Exec, Goto, semVars
<1>7. CASE sem_up(c, p)
  <2>1. ASSUME NEW v \in Int, NEW r \in {ERR, SUCCESS}, Finish(c, p, v, r) PROVE TypeOK'
    BY ONLY <2>1, <1>b
  <2>2. CASE Goto(p, "wake") /\ scan' = [scan EXCEPT ![p] = 1]
             /\ UNCHANGED <<state, chan, killed, plock, cpu>> /\ UNCHANGED semVars
    BY <2>2
  <2>3. QED BY ONLY <1>7, <1>a, <2>1, <2>2 DEF sem_up, Exec, At
<1>10. CASE sem_down(c, p)
  <2>1. CASE Goto(p, "test") /\ UNCHANGED <<state, chan, killed, plock, cpu, scan>>
             /\ UNCHANGED semVars
    BY <2>1
  <2>2. QED BY ONLY <1>10, <1>a, <1>b, <2>1 DEF sem_down, Exec, At
<1>11. CASE sem_down_test(c, p)
  <2>1. CASE Goto(p, "sleep1") /\ UNCHANGED <<state, chan, killed, plock, cpu, scan>>
             /\ UNCHANGED semVars
    BY <2>1
  <2>2. QED BY ONLY <1>11, <1>a, <1>b, <2>1 DEF sem_down_test, Exec, At, Blocking
<1>1. CASE Enter(c, p) BY <1>1 DEF Enter, Acquire
<1>2. CASE Reacquire(c, p) BY <1>2 DEF Reacquire, Acquire
<1>3. CASE Return(c, p) BY <1>3 DEF Return
<1>4. CASE TrapKilled(c, p) BY <1>4 DEF TrapKilled
<1>8. CASE sem_up_wake(c, p) BY <1>8, SMTT(30) DEF sem_up_wake, WakeupSlot
<1>12. CASE sem_sleep_lock(c, p) BY <1>12 DEF sem_sleep_lock, SleepLock
<1>13. CASE sem_sleep_release(c, p) BY <1>13 DEF sem_sleep_release, SleepRelease
<1>14. CASE sem_sleep_enter(c, p) BY <1>a, <1>14 DEF Blocking, sem_sleep_enter, SleepEnter
<1>15. CASE sem_sleep_exit(c, p) BY <1>15 DEF sem_sleep_exit, SleepExit
<1>16. CASE Exit(c, p) BY <1>16 DEF Exit, ExitLast
<1>17. CASE User(c, p)
  <2>1. ASSUME NEW k \in Requests, Invoke(c, p, k) PROVE TypeOK'
    <3>1. /\ pc' \in [Procs -> Labels] /\ ret' \in [Procs -> {ERR, SUCCESS, Pending}]
      <4>1. CASE Rejected(k)
        <5>1. pc' = [pc EXCEPT ![p] = "ret"] /\ ret' = [ret EXCEPT ![p] = ERR]
          BY ONLY <2>1, <4>1 DEF Invoke, Goto
        <5>2. QED BY <5>1
      <4>2. CASE ~Rejected(k) BY <2>1, <4>2, SMTT(30) DEF Invoke
      <4>3. QED BY <4>1, <4>2
    <3>2. call' \in [Procs -> Requests \cup {NoCall}] BY <2>1 DEF Invoke
    <3>3. QED BY <2>1, <3>1, <3>2 DEF Invoke
  <2>2. ASSUME NEW q \in Victims, Kill(c, p, q) PROVE TypeOK' BY <2>2 DEF Kill, KillSlot
  <2>3. QED BY <1>17, <2>1, <2>2 DEF User
<1>18. CASE Schedule(c, p)
  <2>1. CASE SchedPick(c, p) BY <1>18, <2>1 DEF Schedule, SchedPick
  <2>2. CASE Swtch(c, p) BY <1>18, <2>2 DEF Schedule, Swtch
  <2>3. CASE SchedReturn(c, p) BY <1>18, <2>3 DEF Schedule, SchedReturn
  <2>4. CASE Timer(c, p) BY <1>18, <2>4 DEF Schedule, Timer, YieldStart
  <2>5. CASE YieldReturn(c, p) BY <1>18, <2>5 DEF Schedule, YieldReturn
  <2>6. QED BY <1>18, <2>1, <2>2, <2>3, <2>4, <2>5 DEF Schedule
<1>19. QED
  BY <1>1, <1>2, <1>3, <1>4, <1>5, <1>6, <1>7, <1>8, <1>9, <1>10, <1>11, <1>12,
     <1>13, <1>14, <1>15, <1>16, <1>17, <1>18 DEF Step, Kernel

-----------------------------------------------------------------------------
(* The steps that move one running thread from label to label and touch no   *)
(* process lock, no state and no CPU.                                        *)
LocalOps(c, p) ==
  \/ Enter(c, p) \/ Reacquire(c, p) \/ Return(c, p) \/ TrapKilled(c, p)
  \/ sem_open(c, p) \/ sem_close(c, p) \/ sem_up(c, p) \/ sem_up_last(c, p)
  \/ sem_down(c, p) \/ sem_down_test(c, p) \/ sem_sleep_release(c, p)
  \/ \E k \in Requests : Invoke(c, p, k)

LEMMA LocalShape ==
  ASSUME NEW c \in CPUs, NEW p \in Procs, LocalOps(c, p)
  PROVE  /\ cpu[c] = p /\ state[p] = "RUNNING"
         /\ UNCHANGED <<state, chan, killed, plock, cpu>>
         /\ \E l \in Labels \ {"sleep2", "woken"} :
              /\ l = "sleep3" => pc[p] = "sleep2"
              /\ pc' = [pc EXCEPT ![p] = l]
<1> USE DEF At, Exec, Goto, Labels
<1>1. CASE Enter(c, p) BY <1>1 DEF Enter, Acquire
<1>2. CASE Reacquire(c, p) BY <1>2 DEF Reacquire, Acquire
<1>3. CASE Return(c, p) BY <1>3 DEF Return
<1>4. CASE TrapKilled(c, p) BY <1>4 DEF TrapKilled
<1>5. CASE sem_open(c, p) BY <1>5 DEF sem_open, Finish
<1>6. CASE sem_close(c, p) BY <1>6 DEF sem_close, Finish
<1>7. CASE sem_up(c, p) BY <1>7 DEF sem_up, Finish
<1>8. CASE sem_up_last(c, p) BY <1>8 DEF sem_up_last, Finish
<1>9. CASE sem_down(c, p) BY <1>9 DEF sem_down, Finish
<1>10. CASE sem_down_test(c, p) BY <1>10 DEF sem_down_test, Finish
<1>11. CASE sem_sleep_release(c, p) BY <1>11 DEF sem_sleep_release, SleepRelease
<1>12. CASE \E k \in Requests : Invoke(c, p, k) BY <1>12 DEF Invoke
<1>13. QED
  BY <1>1, <1>2, <1>3, <1>4, <1>5, <1>6, <1>7, <1>8, <1>9, <1>10, <1>11, <1>12
     DEF LocalOps

LEMMA StackStep ==
  ASSUME TypeOK, CpuInv, ProcLockInv, NEW c \in CPUs, NEW p \in Procs, Step(c, p)
  PROVE  CpuInv' /\ ProcLockInv'
<1> USE ProcAssumption, SemAssumption
    DEF TypeOK, CpuInv, ProcLockInv, OneCPU, Procs, NoProc, At, Exec, Goto
<1>1. CASE LocalOps(c, p)
  <2>1. PICK l \in Labels \ {"sleep2", "woken"} :
          /\ l = "sleep3" => pc[p] = "sleep2"
          /\ pc' = [pc EXCEPT ![p] = l]
    BY <1>1, LocalShape
  <2>2. state[p] = "RUNNING" /\ UNCHANGED <<state, plock, cpu>>
    BY <1>1, LocalShape
  <2>3. QED BY <2>1, <2>2
<1>2. CASE sem_up_wake(c, p) BY <1>2 DEF sem_up_wake, WakeupSlot
<1>3. CASE sem_sleep_lock(c, p) BY <1>3 DEF sem_sleep_lock, SleepLock
<1>4. CASE sem_sleep_enter(c, p) BY <1>4 DEF sem_sleep_enter, SleepEnter
<1>5. CASE sem_sleep_exit(c, p) BY <1>5 DEF sem_sleep_exit, SleepExit
<1>6. CASE Exit(c, p) BY <1>6 DEF Exit, ExitLast
<1>7. CASE \E q \in Victims : Kill(c, p, q) BY <1>7 DEF Kill, KillSlot
<1>8. CASE Schedule(c, p)
  <2>1. CASE SchedPick(c, p)
    <3>0. plock[p] = NoCPU /\ state[p] = "RUNNABLE" BY <2>1 DEF SchedPick
    <3>1. \A d \in CPUs : cpu[d] # p BY ONLY <3>0, CpuInv, ProcAssumption DEF CpuInv
    <3>2. CpuInv' BY <2>1, <3>1 DEF SchedPick
    <3>3. ProcLockInv' BY <2>1, <3>1 DEF SchedPick
    <3>4. QED BY <3>2, <3>3
  <2>2. CASE Swtch(c, p) BY <2>2 DEF Swtch
  <2>3. CASE SchedReturn(c, p) BY <2>3 DEF SchedReturn
  <2>4. CASE Timer(c, p) BY <2>4 DEF Timer, YieldStart
  <2>5. CASE pc[p] \in Preempt /\ YieldReturn(c, p) BY <2>5 DEF YieldReturn
  <2>6. QED BY <1>8, <2>1, <2>2, <2>3, <2>4, <2>5 DEF Schedule
<1>9. QED
  BY <1>1, <1>2, <1>3, <1>4, <1>5, <1>6, <1>7, <1>8 DEF Step, Kernel, User, LocalOps

(* The request in the kernel fits the label its thread is at.                *)
LEMMA CallStep ==
  ASSUME LockInv, NEW c \in CPUs, NEW p \in Procs, Step(c, p)
  PROVE  CallInv'
<1> USE ProcAssumption, SemAssumption
    DEF LockInv, TypeOK, ProcLockInv, CallInv, Blocking, Procs, At, Exec, Goto, semVars
<1>1. CASE Enter(c, p) BY <1>1 DEF Enter, Acquire
<1>2. CASE Reacquire(c, p) BY <1>2 DEF Reacquire, Acquire
<1>3. CASE Return(c, p) BY <1>3 DEF Return
<1>4. CASE TrapKilled(c, p) BY <1>4 DEF TrapKilled
<1>5. ASSUME NEW v, NEW r, Finish(c, p, v, r), At(c, p, "crit") \/ At(c, p, "wake") \/ At(c, p, "test")
      PROVE  CallInv'
  BY <1>5 DEF Finish
<1>6. CASE sem_open(c, p) BY <1>5, <1>6 DEF sem_open
<1>7. CASE sem_close(c, p) BY <1>5, <1>7 DEF sem_close
<1>8. CASE sem_up(c, p) BY <1>5, <1>8 DEF sem_up
<1>9. CASE sem_up_wake(c, p) BY <1>9 DEF sem_up_wake, WakeupSlot
<1>10. CASE sem_up_last(c, p) BY <1>5, <1>10 DEF sem_up_last
<1>11. CASE sem_down(c, p) BY <1>5, <1>11 DEF sem_down
<1>12. CASE sem_down_test(c, p) BY <1>5, <1>12 DEF sem_down_test
<1>13. CASE sem_sleep_lock(c, p) BY <1>13 DEF sem_sleep_lock, SleepLock
<1>14. CASE sem_sleep_release(c, p) BY <1>14 DEF sem_sleep_release, SleepRelease
<1>15. CASE sem_sleep_enter(c, p) BY <1>15 DEF sem_sleep_enter, SleepEnter
<1>16. CASE sem_sleep_exit(c, p) BY <1>16 DEF sem_sleep_exit, SleepExit
<1>17. CASE Exit(c, p) BY <1>17 DEF Exit, ExitLast
<1>18. CASE \E k \in Requests : Invoke(c, p, k) BY <1>18 DEF Invoke
<1>19. CASE \E q \in Victims : Kill(c, p, q) BY <1>19 DEF Kill, KillSlot
<1>20. CASE Schedule(c, p)
  <2>1. CASE SchedPick(c, p) BY <1>20, <2>1 DEF SchedPick, Schedule
  <2>2. CASE Swtch(c, p) BY <1>20, <2>2 DEF Swtch, Schedule
  <2>3. CASE SchedReturn(c, p) BY <1>20, <2>3 DEF SchedReturn, Schedule
  <2>4. CASE Timer(c, p) BY <1>20, <2>4 DEF Timer, YieldStart, Schedule
  <2>5. CASE pc[p] \in Preempt /\ YieldReturn(c, p)
    BY <1>20, <2>5 DEF YieldReturn, Schedule
  <2>6. QED BY <1>20, <2>1, <2>2, <2>3, <2>4, <2>5 DEF Schedule
<1>21. QED
  BY <1>1, <1>2, <1>3, <1>4, <1>6, <1>7, <1>8, <1>9, <1>10, <1>11, <1>12, <1>13,
     <1>14, <1>15, <1>16, <1>17, <1>18, <1>19, <1>20 DEF Step, Kernel, User
(* The lock of a semaphore goes with the thread between acquire and release.  *)
LEMMA SemLockStep ==
  ASSUME LockInv, NEW c \in CPUs, NEW p \in Procs, Step(c, p)
  PROVE  SemLockInv'
<1> USE ProcAssumption, SemAssumption
    DEF LockInv, TypeOK, CpuInv, OneCPU, SemLockInv, CallInv, Holding, Blocking, Procs,
        NoProc, At, Exec, Goto, semVars
<1>1. CASE Enter(c, p) BY <1>1, SMTT(30) DEF Enter, Acquire
<1>2. CASE Reacquire(c, p) BY <1>2, SMTT(30) DEF Reacquire, Acquire
<1>3. CASE Return(c, p) BY <1>3 DEF Return
<1>4. CASE TrapKilled(c, p) BY <1>4 DEF TrapKilled
<1>5. ASSUME NEW v, NEW r, Finish(c, p, v, r), At(c, p, "crit") \/ At(c, p, "wake") \/ At(c, p, "test")
      PROVE  SemLockInv'
  BY <1>5 DEF Finish
<1>6. CASE sem_open(c, p) BY <1>5, <1>6 DEF sem_open
<1>7. CASE sem_close(c, p) BY <1>5, <1>7 DEF sem_close
<1>8. CASE sem_up(c, p) BY <1>5, <1>8, SMTT(30) DEF sem_up
<1>9. CASE sem_up_wake(c, p) BY <1>9 DEF sem_up_wake, WakeupSlot
<1>10. CASE sem_up_last(c, p) BY <1>5, <1>10 DEF sem_up_last
<1>11. CASE sem_down(c, p) BY <1>5, <1>11 DEF sem_down
<1>12. CASE sem_down_test(c, p) BY <1>5, <1>12, SMTT(30) DEF sem_down_test
<1>13. CASE sem_sleep_lock(c, p) BY <1>13 DEF sem_sleep_lock, SleepLock
<1>14. CASE sem_sleep_release(c, p) BY <1>14 DEF sem_sleep_release, SleepRelease
<1>15. CASE sem_sleep_enter(c, p) BY <1>15 DEF sem_sleep_enter, SleepEnter
<1>16. CASE sem_sleep_exit(c, p) BY <1>16 DEF sem_sleep_exit, SleepExit
<1>17. CASE Exit(c, p) BY <1>17 DEF Exit, ExitLast
<1>18. CASE \E k \in Requests : Invoke(c, p, k) BY <1>18, SMTT(30) DEF Invoke
<1>19. CASE \E q \in Victims : Kill(c, p, q) BY <1>19 DEF Kill, KillSlot
<1>20. CASE Schedule(c, p)
  <2>1. CASE SchedPick(c, p) BY <1>20, <2>1 DEF SchedPick, Schedule
  <2>2. CASE Swtch(c, p) BY <1>20, <2>2 DEF Swtch, Schedule
  <2>3. CASE SchedReturn(c, p) BY <1>20, <2>3 DEF SchedReturn, Schedule
  <2>4. CASE Timer(c, p) BY <1>20, <2>4 DEF Timer, YieldStart, Schedule
  <2>5. CASE pc[p] \in Preempt /\ YieldReturn(c, p)
    BY <1>20, <2>5 DEF YieldReturn, Schedule
  <2>6. QED BY <1>20, <2>1, <2>2, <2>3, <2>4, <2>5 DEF Schedule
<1>21. QED
  BY <1>1, <1>2, <1>3, <1>4, <1>6, <1>7, <1>8, <1>9, <1>10, <1>11, <1>12, <1>13,
     <1>14, <1>15, <1>16, <1>17, <1>18, <1>19, <1>20 DEF Step, Kernel, User
-----------------------------------------------------------------------------
(* Nobody calls sem_close(): the condition under which no unit is lost.       *)
NoClose == \A k \in Requests : k.op # "close"

LEMMA WaitStep ==
  ASSUME LockInv, WaitInv, NoClose, NEW c \in CPUs, NEW p \in Procs, Step(c, p)
  PROVE  WaitInv'
<1> USE ProcAssumption, SemAssumption
    DEF LockInv, TypeOK, ProcLockInv, CpuInv, OneCPU, SemLockInv, CallInv, WaitInv, Asleep,
        Holding, Blocking, Procs, NoProc, At, Exec, Goto, semVars
<1>1. CASE Enter(c, p) BY <1>1 DEF Enter, Acquire
<1>2. CASE Reacquire(c, p) BY <1>2 DEF Reacquire, Acquire
<1>3. CASE Return(c, p) BY <1>3 DEF Return
<1>4. CASE TrapKilled(c, p) BY <1>4 DEF TrapKilled
<1>a. ASSUME pc[p] \in Holding, cpu[c] = p, NEW q \in Procs \ {p}, call[q].sem = call[p].sem
      PROVE  pc[q] \notin Holding
  <2>1. SUFFICES ASSUME pc[q] \in Holding PROVE FALSE OBVIOUS
  <2>2. PICK d \in CPUs : cpu[d] = q BY <2>1
  <2>3. slock[call[q].sem] = d /\ slock[call[p].sem] = c BY <1>a, <2>1, <2>2
  <2>4. QED BY <1>a, <2>2, <2>3
<1>5. ASSUME NEW v, NEW r, Finish(c, p, v, r), pc[p] \in Holding, cpu[c] = p,
             v = value[call[p].sem] \/ \A q \in Procs : call[q].sem = call[p].sem => ~Asleep(q)
      PROVE  WaitInv'
  <2>1. state[p] = "RUNNING" /\ call[p].sem \in Sems BY <1>5
  <2>2. /\ UNCHANGED <<state, call>> /\ pc' = [pc EXCEPT ![p] = "ret"]
        /\ scan' = [scan EXCEPT ![p] = 1]
        /\ value' = [value EXCEPT ![call[p].sem] = v]
    BY <1>5 DEF Finish
  <2>3. ASSUME NEW q \in Procs,
               Asleep(q)' \/ pc'[q] \in {"sleep1", "sleep2", "wake"}
        PROVE  value'[call[q].sem] = 0
    <3>1. q # p /\ pc'[q] = pc[q] /\ value[call[q].sem] = 0 BY <2>1, <2>2, <2>3
    <3>2. CASE call[q].sem = call[p].sem BY <1>a, <1>5, <2>1, <2>2, <2>3, <3>1, <3>2
    <3>3. CASE call[q].sem # call[p].sem BY <2>1, <2>2, <3>1, <3>3
    <3>4. QED BY <3>2, <3>3
  <2>4. ASSUME NEW q \in Procs, NEW w \in Procs \ {q}, pc'[w] = "wake", scan'[w] > q,
               call'[w].sem = call'[q].sem
        PROVE  ~Asleep(q)'
    BY <2>1, <2>2, <2>4
  <2>5. QED BY ONLY <2>2, <2>3, <2>4 DEF WaitInv
<1>b. ASSUME value[call[p].sem] # 0, NEW q \in Procs, call[q].sem = call[p].sem
      PROVE  ~Asleep(q)
  BY <1>b
<1>6. CASE sem_open(c, p) BY <1>5, <1>b, <1>6 DEF sem_open, EMPTY_SEM
<1>7. CASE sem_close(c, p) BY <1>7, NoClose DEF sem_close, NoClose, NoCall
<1>8. CASE sem_up(c, p) BY <1>5, <1>b, <1>8, SMTT(30) DEF sem_up
<1>9. CASE sem_up_wake(c, p) BY <1>9 DEF sem_up_wake, WakeupSlot
<1>10. CASE sem_up_last(c, p)
  <2>1. \A q \in Procs : call[q].sem = call[p].sem => ~Asleep(q) BY <1>10 DEF sem_up_last
  <2>2. QED BY <1>5, <1>10, <2>1 DEF sem_up_last
<1>11. CASE sem_down(c, p)
  <2>1. pc[p] \in Holding /\ cpu[c] = p BY <1>11 DEF sem_down
  <2>2. CASE Finish(c, p, value[call[p].sem], ERR) BY <1>5, <2>1, <2>2
  <2>3. CASE Goto(p, "test") /\ UNCHANGED <<state, chan, killed, plock, cpu, scan>>
             /\ UNCHANGED semVars
    BY <2>1, <2>3
  <2>4. QED BY <1>11, <2>2, <2>3 DEF sem_down
<1>12. CASE sem_down_test(c, p)
  <2>1. CASE value[call[p].sem] # 0 BY <1>5, <1>b, <1>12, <2>1 DEF sem_down_test
  <2>2. CASE value[call[p].sem] = 0 BY <1>12, <2>2 DEF sem_down_test
  <2>3. QED BY <2>1, <2>2
<1>13. CASE sem_sleep_lock(c, p) BY <1>13 DEF sem_sleep_lock, SleepLock
<1>14. CASE sem_sleep_release(c, p) BY <1>14 DEF sem_sleep_release, SleepRelease
<1>15. CASE sem_sleep_enter(c, p) BY <1>15 DEF sem_sleep_enter, SleepEnter
<1>16. CASE sem_sleep_exit(c, p) BY <1>16 DEF sem_sleep_exit, SleepExit
<1>17. CASE Exit(c, p) BY <1>17 DEF Exit, ExitLast
<1>18. CASE \E k \in Requests : Invoke(c, p, k) BY <1>18, SMTT(30) DEF Invoke
<1>19. CASE \E q \in Victims : Kill(c, p, q) BY <1>19 DEF Kill, KillSlot
<1>20. CASE Schedule(c, p)
  <2>1. CASE SchedPick(c, p) BY <1>20, <2>1 DEF SchedPick, Schedule
  <2>2. CASE Swtch(c, p) BY <1>20, <2>2 DEF Swtch, Schedule
  <2>3. CASE SchedReturn(c, p) BY <1>20, <2>3 DEF SchedReturn, Schedule
  <2>4. CASE Timer(c, p) BY <1>20, <2>4 DEF Timer, YieldStart, Schedule
  <2>5. CASE pc[p] \in Preempt /\ YieldReturn(c, p)
    BY <1>20, <2>5 DEF YieldReturn, Schedule
  <2>6. QED BY <1>20, <2>1, <2>2, <2>3, <2>4, <2>5 DEF Schedule
<1>21. QED
  BY <1>1, <1>2, <1>3, <1>4, <1>6, <1>7, <1>8, <1>9, <1>10, <1>11, <1>12, <1>13,
     <1>14, <1>15, <1>16, <1>17, <1>18, <1>19, <1>20 DEF Step, Kernel, User

-----------------------------------------------------------------------------
LEMMA LockInvInductive == LockInv /\ [Next]_vars => LockInv'
<1> SUFFICES ASSUME LockInv, [Next]_vars PROVE LockInv' OBVIOUS
<1>1. ASSUME NEW c \in CPUs, NEW p \in Procs, Step(c, p) PROVE LockInv'
  BY <1>1, TypeStep, StackStep, SemLockStep, CallStep DEF LockInv
<1>2. CASE UNCHANGED vars
  BY <1>2 DEF LockInv, TypeOK, CpuInv, OneCPU, ProcLockInv, SemLockInv, CallInv, vars
<1>3. QED BY <1>1, <1>2 DEF Next, Step

LEMMA LockInvInit == Init => LockInv
<1> SUFFICES ASSUME Init PROVE LockInv OBVIOUS
<1>1. TypeOK BY TypeInit
<1>2. CpuInv BY DEF Init, CpuInv, OneCPU, NoProc, Procs
<1>3. ProcLockInv BY ProcAssumption DEF Init, ProcLockInv
<1>4. SemLockInv /\ CallInv BY DEF Init, SemLockInv, CallInv, Holding, Blocking
<1>5. QED BY <1>1, <1>2, <1>3, <1>4 DEF LockInv

LEMMA LockInvAlways == Spec => []LockInv
BY LockInvInit, LockInvInductive, PTL DEF Spec

(* Every variable keeps its type, whatever the user programs call and kill.   *)
THEOREM TypeCorrect == Spec => []TypeOK
<1>1. LockInv => TypeOK BY DEF LockInv
<1>2. QED BY <1>1, LockInvAlways, PTL

(* scheduler(), sched(), sleep(), wakeup() and kill() together never run one  *)
(* kernel stack on two CPUs.                                                  *)
THEOREM OneCPUAlways == Spec => []OneCPU
<1>1. LockInv => OneCPU BY DEF LockInv, CpuInv
<1>2. QED BY <1>1, LockInvAlways, PTL

(* The panics "sched p->lock" and "sched locks" of sched() are unreachable.   *)
THEOREM SchedLocksAlways == Spec => []SchedLocks
<1>1. ASSUME LockInv, NEW c \in CPUs, NEW p \in Procs, cpu[c] = p, state[p] # "RUNNING"
      PROVE  /\ plock[p] = c
             /\ \A q \in Procs \ {p} : plock[q] # c
             /\ \A s \in Sems : slock[s] # c
  BY <1>1, ProcAssumption DEF LockInv, CpuInv, ProcLockInv, SemLockInv
<1>2. LockInv => SchedLocks BY <1>1 DEF SchedLocks
<1>3. QED BY <1>2, LockInvAlways, PTL

(* Where no program closes a semaphore, no process sleeps in sem_down() on a  *)
(* semaphore with units to take.                                              *)
THEOREM NoLostWakeupAlways == ASSUME NoClose PROVE Spec => []NoLostWakeup
<1>1. Init => WaitInv BY DEF Init, WaitInv, Asleep
<1>2. LockInv /\ WaitInv /\ [Next]_vars => WaitInv'
  <2> SUFFICES ASSUME LockInv, WaitInv, [Next]_vars PROVE WaitInv' OBVIOUS
  <2>1. ASSUME NEW c \in CPUs, NEW p \in Procs, Step(c, p) PROVE WaitInv'
    BY <2>1, NoClose, WaitStep
  <2>2. CASE UNCHANGED vars BY <2>2 DEF WaitInv, Asleep, vars
  <2>3. QED BY <2>1, <2>2 DEF Next, Step
<1>3. LockInv /\ WaitInv => NoLostWakeup
  BY DEF LockInv, CallInv, WaitInv, Asleep, NoLostWakeup
<1>4. QED BY <1>1, <1>2, <1>3, LockInvAlways, PTL DEF Spec

-----------------------------------------------------------------------------
(* Semaphore implements CountingSemaphores: with sleep, wakeup, spinlocks,   *)
(* preemption and kills, each call still takes effect at one instant.        *)
(* The arguments are inside semaphore_array.                                 *)
CallersInRange == \A k \in Requests : k.sem \in Sems

(* What the labels say about the request, its result and the counter.        *)
ResultInv ==
  /\ \A s \in Sems : value[s] >= EMPTY_SEM
  /\ \A p \in Procs :
       /\ pc[p] \in {"user", "exit"} => call[p] = NoCall
       /\ pc[p] \notin {"user", "exit"} => call[p] \in Requests
       /\ ret[p] # Pending <=> pc[p] = "ret"
       /\ pc[p] \in {"acq", "crit"} /\ call[p].op = "open" => call[p].val >= 0
       /\ pc[p] \in Blocking => value[call[p].sem] >= 0

LEMMA ResultStep ==
  ASSUME LockInv, WaitInv, ResultInv, NoClose, CallersInRange,
         NEW c \in CPUs, NEW p \in Procs, Step(c, p)
  PROVE  ResultInv'
<1> USE ProcAssumption, SemAssumption
    DEF LockInv, TypeOK, ResultInv, Blocking, Procs, At, Exec, Goto, semVars,
        EMPTY_SEM, ERR, SUCCESS, Pending
<1>1. CASE Enter(c, p) BY <1>1 DEF Enter, Acquire
<1>2. CASE Reacquire(c, p) BY <1>2 DEF Reacquire, Acquire
<1>3. CASE Return(c, p) BY <1>3 DEF Return
<1>4. CASE TrapKilled(c, p) BY <1>4 DEF TrapKilled
<1>a. pc[p] \in Holding => value[call[p].sem] \in Int /\ call[p].sem \in Sems
                           /\ call[p].val \in Int
  BY CallType DEF CallInv, Holding
<1>5. ASSUME NEW v \in Int, NEW r \in {ERR, SUCCESS}, Finish(c, p, v, r),
             pc[p] \in Holding, v >= 0 \/ v = value[call[p].sem]
      PROVE  ResultInv'
  <2>1. /\ value' = [value EXCEPT ![call[p].sem] = v] /\ call' = call
        /\ ret' = [ret EXCEPT ![p] = r] /\ pc' = [pc EXCEPT ![p] = "ret"]
    BY <1>5 DEF Finish
  <2>2. \A s \in Sems : value'[s] >= EMPTY_SEM /\ (value[s] >= 0 => value'[s] >= 0)
    BY <1>5, <1>a, <2>1
  <2>3. ASSUME NEW q \in Procs, pc'[q] \in Blocking PROVE value'[call'[q].sem] >= 0
    BY <2>1, <2>2, <2>3 DEF CallInv
  <2>4. ASSUME NEW q \in Procs
        PROVE  /\ pc'[q] \in {"user", "exit"} => call'[q] = NoCall
               /\ pc'[q] \notin {"user", "exit"} => call'[q] \in Requests
               /\ ret'[q] # Pending <=> pc'[q] = "ret"
               /\ pc'[q] \in {"acq", "crit"} /\ call'[q].op = "open" => call'[q].val >= 0
    <3>1. CASE q = p
      <4>1. call[p] \in Requests BY <1>5 DEF Holding
      <4>2. pc'[q] = "ret" /\ call'[q] = call[p] BY <2>1, <3>1
      <4>3. ret'[q] = r BY <2>1, <3>1
      <4>4. QED BY <4>1, <4>2, <4>3
    <3>2. CASE q # p
      <4>1. pc'[q] = pc[q] /\ ret'[q] = ret[q] /\ call'[q] = call[q] BY <2>1, <3>2
      <4>2. QED BY <4>1
    <3>3. QED BY <3>1, <3>2
  <2>5. QED BY <2>2, <2>3, <2>4
<1>6. CASE sem_open(c, p)
  <2>1. call[p].val >= 0 BY <1>6 DEF sem_open
  <2>2. QED BY <1>5, <1>6, <1>a, <2>1 DEF sem_open, Holding
<1>7. CASE sem_close(c, p) BY <1>7, NoClose DEF sem_close, NoClose, NoCall
<1>8. CASE sem_up(c, p) BY <1>5, <1>8, <1>a, SMTT(30) DEF sem_up, Holding
<1>9. CASE sem_up_wake(c, p) BY <1>9 DEF sem_up_wake, WakeupSlot
<1>10. CASE sem_up_last(c, p)
  <2>1. pc[p] = "wake" /\ value[call[p].sem] = 0 BY <1>10 DEF sem_up_last, WaitInv
  <2>2. Finish(c, p, value[call[p].sem] + 1, SUCCESS) BY <1>10 DEF sem_up_last
  <2>3. QED BY <1>5, <2>1, <2>2 DEF Holding
<1>11. CASE sem_down(c, p)
  <2>1. pc[p] = "crit" BY <1>11 DEF sem_down
  <2>2. CASE Finish(c, p, value[call[p].sem], ERR) BY <1>5, <1>a, <2>1, <2>2 DEF Holding
  <2>3. CASE /\ value[call[p].sem] # EMPTY_SEM
             /\ Goto(p, "test") /\ UNCHANGED semVars
    <3>1. value[call[p].sem] >= 0 BY <1>a, <2>1, <2>3 DEF Holding
    <3>2. pc' = [pc EXCEPT ![p] = "test"] /\ UNCHANGED semVars BY <2>3
    <3>3. QED BY <2>1, <3>1, <3>2
  <2>4. QED BY <1>11, <2>2, <2>3 DEF sem_down
<1>12. CASE sem_down_test(c, p)
  <2>1. pc[p] = "test" BY <1>12 DEF sem_down_test
  <2>2. CASE value[call[p].sem] # 0 /\ Finish(c, p, value[call[p].sem] - 1, SUCCESS)
    <3>1. value[call[p].sem] - 1 \in Int /\ value[call[p].sem] - 1 >= 0
      BY <1>a, <2>1, <2>2 DEF Holding
    <3>2. QED BY <1>5, <2>1, <2>2, <3>1 DEF Holding
  <2>3. CASE Goto(p, "sleep1") /\ UNCHANGED semVars BY <2>1, <2>3
  <2>4. QED BY <1>12, <2>2, <2>3 DEF sem_down_test
<1>13. CASE sem_sleep_lock(c, p) BY <1>13 DEF sem_sleep_lock, SleepLock
<1>14. CASE sem_sleep_release(c, p) BY <1>14 DEF sem_sleep_release, SleepRelease
<1>15. CASE sem_sleep_enter(c, p) BY <1>15 DEF sem_sleep_enter, SleepEnter
<1>16. CASE sem_sleep_exit(c, p) BY <1>16 DEF sem_sleep_exit, SleepExit
<1>17. CASE Exit(c, p) BY <1>17 DEF Exit, ExitLast
<1>18. CASE \E k \in Requests : Invoke(c, p, k)
  <2>1. PICK k \in Requests : Invoke(c, p, k) BY <1>18
  <2>2. k.op = "open" /\ ~Rejected(k) => k.val >= 0 BY SemAssumption DEF Rejected
  <2>3. value' = value /\ call' = [call EXCEPT ![p] = k] /\ pc[p] = "user" BY <2>1 DEF Invoke
  <2>4. \/ /\ Rejected(k) /\ pc' = [pc EXCEPT ![p] = "ret"]
           /\ ret' = [ret EXCEPT ![p] = ERR]
        \/ /\ ~Rejected(k) /\ pc' = [pc EXCEPT ![p] = "acq"] /\ ret' = ret
    BY <2>1, CallersInRange DEF Invoke, CallersInRange
  <2>5. ASSUME NEW q \in Procs
        PROVE  /\ pc'[q] \in {"user", "exit"} => call'[q] = NoCall
               /\ pc'[q] \notin {"user", "exit"} => call'[q] \in Requests
               /\ ret'[q] # Pending <=> pc'[q] = "ret"
               /\ pc'[q] \in {"acq", "crit"} /\ call'[q].op = "open" => call'[q].val >= 0
               /\ pc'[q] \in Blocking => value'[call'[q].sem] >= 0
    <3>1. CASE q = p BY <2>2, <2>3, <2>4, <3>1
    <3>2. CASE q # p
      <4>1. pc'[q] = pc[q] /\ ret'[q] = ret[q] /\ call'[q] = call[q] BY <2>3, <2>4, <3>2
      <4>2. QED BY <2>3, <4>1
    <3>3. QED BY <3>1, <3>2
  <2>6. QED BY <2>3, <2>5
<1>19. CASE \E q \in Victims : Kill(c, p, q) BY <1>19 DEF Kill, KillSlot
<1>20. CASE Schedule(c, p)
  <2>1. CASE SchedPick(c, p) BY <1>20, <2>1 DEF SchedPick, Schedule
  <2>2. CASE Swtch(c, p) BY <1>20, <2>2 DEF Swtch, Schedule
  <2>3. CASE SchedReturn(c, p) BY <1>20, <2>3 DEF SchedReturn, Schedule
  <2>4. CASE Timer(c, p) BY <1>20, <2>4 DEF Timer, YieldStart, Schedule
  <2>5. CASE pc[p] \in Preempt /\ YieldReturn(c, p)
    BY <1>20, <2>5 DEF YieldReturn, Schedule
  <2>6. QED BY <1>20, <2>1, <2>2, <2>3, <2>4, <2>5 DEF Schedule
<1>21. QED
  BY <1>1, <1>2, <1>3, <1>4, <1>6, <1>7, <1>8, <1>9, <1>10, <1>11, <1>12, <1>13,
     <1>14, <1>15, <1>16, <1>17, <1>18, <1>19, <1>20 DEF Step, Kernel, User

-----------------------------------------------------------------------------
(* Every step of the kernel is a step of the counters or none at all.         *)
LEMMA StepSimulation ==
  ASSUME LockInv, WaitInv, ResultInv, NoClose, CallersInRange,
         NEW c \in CPUs, NEW p \in Procs, Step(c, p)
  PROVE  [Counting!Next]_<<value, call, ret>>
<1> USE DEF semVars, EMPTY_SEM, ERR, SUCCESS, Pending, At, Exec, Goto,
        Counting!Closed, Counting!Failed, Counting!Done, Counting!Pending
<1>a. /\ ret[p] # Pending <=> pc[p] = "ret"
      /\ pc[p] \notin {"user", "exit"} => call[p] \in Requests /\ call[p] # NoCall
  BY SemAssumption DEF ResultInv, NoCall, Ops
<1>b. SUFFICES \/ UNCHANGED <<value, call, ret>>
               \/ \E k \in Requests : Counting!Invoke(p, k)
               \/ Counting!Effect(p) \/ Counting!Return(p)
  BY DEF Counting!Next
<1>1. CASE Return(c, p) BY <1>1, <1>a DEF Return, Counting!Return, NoCall, Counting!NoCall
<1>2. CASE \E k \in Requests : Invoke(c, p, k)
  <2>1. PICK k \in Requests : Invoke(c, p, k) BY <1>2
  <2>2. k.op # "close" /\ k.sem \in Sems BY NoClose, CallersInRange DEF NoClose, CallersInRange
  <2>3. Rejected(k) <=> ~Counting!Valid(k)
    BY <2>2, SemAssumption DEF Rejected, Counting!Valid, Sems
  <2>4. call[p] = NoCall BY <2>1 DEF Invoke, ResultInv
  <2>5. ret' = [ret EXCEPT ![p] = IF Counting!Valid(k) THEN Pending ELSE ERR]
    <3>1. CASE Rejected(k) BY <2>1, <2>3, <3>1 DEF Invoke
    <3>2. CASE ~Rejected(k)
      <4>1. ret' = ret /\ ret[p] = Pending BY <1>a, <2>1, <3>2 DEF Invoke
      <4>2. QED BY <2>3, <3>2, <4>1 DEF LockInv, TypeOK
    <3>3. QED BY <3>1, <3>2
  <2>6. Counting!Invoke(p, k)
    BY <2>1, <2>4, <2>5 DEF Invoke, Counting!Invoke, NoCall, Counting!NoCall
  <2>7. QED BY <2>6
<1>3. ASSUME NEW v, NEW r, Finish(c, p, v, r) PROVE Counting!Take(p, v, r)
  BY <1>3 DEF Finish, Counting!Take
<1>c. ASSUME pc[p] \in {"crit", "test", "wake"}
      PROVE  /\ call[p] # Counting!NoCall /\ ret[p] = Pending
             /\ value[call[p].sem] >= EMPTY_SEM /\ value[call[p].sem] \in Int
             /\ pc[p] = "test" => call[p].op = "down" /\ value[call[p].sem] >= 0
             /\ pc[p] = "wake" => call[p].op = "up" /\ value[call[p].sem] = 0
  BY <1>a, <1>c
     DEF LockInv, TypeOK, CallInv, WaitInv, ResultInv, Blocking, NoCall, Counting!NoCall
<1>4. CASE sem_open(c, p) BY <1>3, <1>4, <1>c DEF sem_open, Counting!Effect
<1>5. CASE sem_close(c, p)
  BY <1>5, <1>a, NoClose DEF sem_close, NoClose
<1>6. CASE sem_up(c, p) BY <1>3, <1>6, <1>c DEF sem_up, Counting!Effect
<1>7. CASE sem_up_last(c, p) BY <1>3, <1>7, <1>c DEF sem_up_last, Counting!Effect
<1>8. CASE sem_down(c, p) BY <1>3, <1>8, <1>c DEF sem_down, Counting!Effect
<1>9. CASE sem_down_test(c, p) BY <1>3, <1>9, <1>c DEF sem_down_test, Counting!Effect
<1>10. CASE UNCHANGED <<value, call, ret>> BY <1>10
<1>11. QED
  BY <1>1, <1>2, <1>4, <1>5, <1>6, <1>7, <1>8, <1>9, <1>10
     DEF Step, Kernel, User, Schedule, Enter, Reacquire, Acquire, TrapKilled,
         sem_up_wake, sem_sleep_lock, sem_sleep_release, sem_sleep_enter,
         sem_sleep_exit, Exit, Kill

(* The semaphore calls implement counting semaphores: every sem_up() adds one *)
(* unit and every successful sem_down() takes one that was there, whatever    *)
(* the interleaving, as long as no program closes a semaphore.                *)
THEOREM CountingImplemented ==
  ASSUME NoClose, CallersInRange PROVE Spec => Refines
<1>1. Init => WaitInv /\ ResultInv
  BY SemAssumption DEF Init, WaitInv, Asleep, ResultInv, Blocking, EMPTY_SEM, Pending
<1>2. LockInv /\ WaitInv /\ ResultInv /\ [Next]_vars => WaitInv' /\ ResultInv'
  <2> SUFFICES ASSUME LockInv, WaitInv, ResultInv, [Next]_vars
               PROVE  WaitInv' /\ ResultInv'
    OBVIOUS
  <2>1. ASSUME NEW c \in CPUs, NEW p \in Procs, Step(c, p) PROVE WaitInv' /\ ResultInv'
    BY <2>1, NoClose, CallersInRange, WaitStep, ResultStep
  <2>2. CASE UNCHANGED vars
    BY <2>2 DEF WaitInv, Asleep, ResultInv, vars
  <2>3. QED BY <2>1, <2>2 DEF Next, Step
<1>3. Init => Counting!Init
  BY DEF Init, Counting!Init, EMPTY_SEM, Pending, NoCall,
         Counting!Closed, Counting!Pending, Counting!NoCall
<1>4. LockInv /\ WaitInv /\ ResultInv /\ [Next]_vars => [Counting!Next]_(Counting!vars)
  <2> SUFFICES ASSUME LockInv, WaitInv, ResultInv, [Next]_vars
               PROVE  [Counting!Next]_<<value, call, ret>>
    BY DEF Counting!vars
  <2>1. ASSUME NEW c \in CPUs, NEW p \in Procs, Step(c, p)
        PROVE  [Counting!Next]_<<value, call, ret>>
    BY <2>1, NoClose, CallersInRange, StepSimulation
  <2>2. CASE UNCHANGED vars BY <2>2 DEF vars
  <2>3. QED BY <2>1, <2>2 DEF Next, Step
<1>5. QED
  BY <1>1, <1>2, <1>3, <1>4, LockInvAlways, PTL DEF Spec, Refines, Counting!Spec
=============================================================================
