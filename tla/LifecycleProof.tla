--------------------------- MODULE LifecycleProof ---------------------------
(***************************************************************************)
(* Machine-checked theorems about Lifecycle, for every size of the process *)
(* table, every number of processes created and every set of pids killed,  *)
(* except where a hypothesis says otherwise: kill(1) ends in panic("init   *)
(* exiting"), and kill(0) marks slots nobody uses (proc.c:588).            *)
(***************************************************************************)
EXTENDS Lifecycle, TLAPS

Forking == {"fork_parent", "fork_run"}

(* Where a process stands with wait_lock held, and on the way out.           *)
Holding == {"scan", "sleep", "reparent", "exit_wakeup", "exit_zombie", "zombie"}
Exiting == {"exit", "reparent", "exit_wakeup", "exit_zombie", "zombie", "swtch", "gone"}

Alive(p) == state[p] \in {"RUNNABLE", "SLEEPING"}

(* The states of a slot go with the place of its thread.                     *)
StagesRight ==
  \A p \in Slots :
    /\ pc[p] = "user" => state[p] \in {"UNUSED", "USED", "RUNNABLE"}
    /\ pc[p] = "wait" => Alive(p)
    /\ Leaving(p) => state[p] = "ZOMBIE"
    /\ pc[p] = "gone" => state[p] \in {"ZOMBIE", "UNUSED"}
    /\ pc[p] \in {"user", "wait", "zombie", "swtch", "gone"} \/ state[p] = "RUNNABLE"

(* A fork() and the slot it has taken belong to each other.                  *)
ForksRight ==
  /\ \A p \in Slots : pc[p] \in Forking =>
       /\ np[p] \in Slots \ {InitProc} /\ state[np[p]] = "USED"
       /\ parent[np[p]] = IF pc[p] = "fork_parent" THEN NoSlot ELSE p
  /\ \A p, r \in Slots : pc[p] \in Forking /\ pc[r] \in Forking /\ np[p] = np[r] => p = r
  /\ \A q \in Slots : state[q] = "USED" => \E p \in Slots : pc[p] \in Forking /\ np[p] = q

LockRight == \A p \in Slots : pc[p] \in Holding <=> wait_lock = p

ParentsRight ==
  \A q \in Slots :
    /\ state[q] = "UNUSED" => parent[q] = NoSlot
    /\ parent[q] # NoSlot => Alive(parent[q])
    /\ \/ q = InitProc /\ parent[q] = NoSlot
       \/ q # InitProc /\ parent[q] = NoSlot /\ state[q] \in {"UNUSED", "USED"}
       \/ q # InitProc /\ parent[q] # NoSlot

(* Nobody is given to a process that has given its children away.            *)
ChildlessRight ==
  \A p \in Slots : pc[p] \in {"exit_wakeup", "exit_zombie"} => Children(p) = {}

InitRight ==
  /\ Alive(InitProc) /\ pc[InitProc] \notin Exiting
  /\ pid[InitProc] = 1 /\ ~killed[InitProc]

LifeInv ==
  /\ TypeOK /\ StagesRight /\ ForksRight /\ LockRight
  /\ ParentsRight /\ ChildlessRight /\ InitRight

UnusedRight == \A q \in Slots : state[q] = "UNUSED" => pid[q] = 0 /\ ~killed[q]

-----------------------------------------------------------------------------
(* The step of one process.                                                  *)
Step(p) == Kernel(p) \/ Calls(p)

LEMMA TypeStep == ASSUME LifeInv, NEW p \in Slots, Step(p) PROVE TypeOK'
<1> USE LifecycleAssumption DEF LifeInv, TypeOK, Slots, NoSlot, InitProc, Goto, Runs
<1>1. CASE ForkAlloc(p) BY <1>1 DEF ForkAlloc
<1>2. CASE ForkFails(p)
  <2>1. nextpid' \in Nat /\ (killed' = killed \/ \E q \in Slots : killed' = [killed EXCEPT ![q] = FALSE])
    BY <1>2 DEF ForkFails
  <2>2. killed' \in [Slots -> BOOLEAN] BY <2>1
  <2>3. QED BY <1>2, <2>1, <2>2 DEF ForkFails
<1>3. CASE ForkParent(p) BY <1>3 DEF ForkParent
<1>4. CASE ForkRun(p) BY <1>4 DEF ForkRun
<1>5. CASE WaitCall(p) BY <1>5 DEF WaitCall
<1>6. CASE WaitLock(p) BY <1>6 DEF WaitLock
<1>7. ASSUME NEW z \in Slots, WaitReap(p, z) PROVE TypeOK' BY <1>7 DEF WaitReap
<1>8. ASSUME NEW z \in Slots, WaitBadAddress(p, z) PROVE TypeOK' BY <1>8 DEF WaitBadAddress
<1>9. CASE WaitNone(p) BY <1>9 DEF WaitNone
<1>10. CASE WaitSleep(p) BY <1>10 DEF WaitSleep
<1>11. CASE ExitCall(p) BY <1>11 DEF ExitCall
<1>12. CASE Return(p) BY <1>12 DEF Return
<1>13. CASE ExitLock(p) BY <1>13 DEF ExitLock
<1>14. CASE reparent(p) BY <1>14 DEF reparent, Wakeup
<1>15. CASE ExitWakeup(p) BY <1>15 DEF ExitWakeup, Wakeup
<1>16. CASE ExitZombie(p) BY <1>16 DEF ExitZombie
<1>17. CASE ExitUnlock(p) BY <1>17 DEF ExitUnlock
<1>18. CASE ExitSwtch(p) BY <1>18 DEF ExitSwtch
<1>19. ASSUME NEW k \in KillPids, kill(p, k) PROVE TypeOK' BY <1>19 DEF kill, Wakeup
<1>20. QED
  BY <1>1, <1>2, <1>3, <1>4, <1>5, <1>6, <1>7, <1>8, <1>9, <1>10, <1>11, <1>12, <1>13, <1>14,
     <1>15, <1>16, <1>17, <1>18, <1>19 DEF Step, Kernel, Calls

LEMMA StagesStep == ASSUME LifeInv, NEW p \in Slots, Step(p) PROVE StagesRight'
<1> USE LifecycleAssumption DEF LifeInv, TypeOK, Slots, NoSlot, InitProc, Goto, Runs, Leaving, StagesRight, ForksRight, Forking, Alive
<1>1. CASE ForkAlloc(p) BY <1>1 DEF ForkAlloc
<1>2. CASE ForkFails(p) BY <1>2 DEF ForkFails
<1>3. CASE ForkParent(p) BY <1>3 DEF ForkParent
<1>4. CASE ForkRun(p) BY <1>4 DEF ForkRun
<1>5. CASE WaitCall(p) BY <1>5 DEF WaitCall
<1>6. CASE WaitLock(p) BY <1>6 DEF WaitLock
<1>7. ASSUME NEW z \in Slots, WaitReap(p, z) PROVE StagesRight'
  <2>1. z # p /\ state[z] = "ZOMBIE" /\ pc[z] = "gone"
    BY <1>7 DEF WaitReap, FirstZombie, Children
  <2>2. state' = [state EXCEPT ![z] = "UNUSED"] /\ pc' = [pc EXCEPT ![p] = "ret"]
    BY <1>7 DEF WaitReap
  <2>3. state[p] = "RUNNABLE" BY <1>7 DEF WaitReap
  <2>4. QED BY <2>1, <2>2, <2>3
<1>8. ASSUME NEW z \in Slots, WaitBadAddress(p, z) PROVE StagesRight'
  BY <1>8 DEF WaitBadAddress, FirstZombie, Children
<1>9. CASE WaitNone(p) BY <1>9 DEF WaitNone, Children
<1>10. CASE WaitSleep(p) BY <1>10 DEF WaitSleep
<1>11. CASE ExitCall(p) BY <1>11 DEF ExitCall
<1>12. CASE Return(p) BY <1>12 DEF Return
<1>13. CASE ExitLock(p) BY <1>13 DEF ExitLock
<1>14. CASE reparent(p) BY <1>14 DEF reparent, Wakeup, Children
<1>15. CASE ExitWakeup(p) BY <1>15 DEF ExitWakeup, Wakeup
<1>16. CASE ExitZombie(p) BY <1>16 DEF ExitZombie
<1>17. CASE ExitUnlock(p) BY <1>17 DEF ExitUnlock
<1>18. CASE ExitSwtch(p) BY <1>18 DEF ExitSwtch
<1>19. ASSUME NEW k \in KillPids, kill(p, k) PROVE StagesRight'
  BY <1>19 DEF kill, Wakeup
<1>20. QED
  BY <1>1, <1>2, <1>3, <1>4, <1>5, <1>6, <1>7, <1>8, <1>9, <1>10, <1>11, <1>12, <1>13, <1>14,
     <1>15, <1>16, <1>17, <1>18, <1>19 DEF Step, Kernel, Calls

(* A step that leaves the forks in progress and their slots alone.           *)
ForksKept ==
  /\ np' = np
  /\ \A q \in Slots : pc[q] \in Forking \/ pc'[q] \in Forking => pc'[q] = pc[q]
  /\ \A q \in Slots : state[q] = "USED" \/ state'[q] = "USED" =>
       state'[q] = state[q] /\ parent'[q] = parent[q]

LEMMA ForksFrame == ASSUME LifeInv, ForksKept PROVE ForksRight'
<1> USE DEF LifeInv, ForksRight, ForksKept
<1>1. ASSUME NEW p \in Slots, pc'[p] \in Forking
      PROVE  /\ np'[p] \in Slots \ {InitProc} /\ state'[np'[p]] = "USED"
             /\ parent'[np'[p]] = IF pc'[p] = "fork_parent" THEN NoSlot ELSE p
  BY <1>1
<1>2. ASSUME NEW p \in Slots, NEW r \in Slots,
             pc'[p] \in Forking, pc'[r] \in Forking, np'[p] = np'[r]
      PROVE  p = r
  BY <1>2
<1>3. ASSUME NEW q \in Slots, state'[q] = "USED"
      PROVE  \E p \in Slots : pc'[p] \in Forking /\ np'[p] = q
  <2>1. PICK p \in Slots : pc[p] \in Forking /\ np[p] = q BY <1>3
  <2>2. QED BY <2>1
<1>4. QED BY <1>1, <1>2, <1>3

LEMMA ForksKeptStep ==
  ASSUME LifeInv, NEW p \in Slots, Step(p)
  PROVE  ForksKept \/ ForkAlloc(p) \/ ForkParent(p) \/ ForkRun(p) \/ reparent(p)
<1> USE DEF LifeInv, TypeOK, Goto, Runs, Leaving, StagesRight, Forking, Alive, ForksKept
<1>1. CASE ForkFails(p) BY <1>1 DEF ForkFails
<1>2. CASE WaitCall(p) BY <1>2 DEF WaitCall
<1>3. CASE WaitLock(p) BY <1>3 DEF WaitLock
<1>4. ASSUME NEW z \in Slots, WaitReap(p, z) PROVE ForksKept BY <1>4 DEF WaitReap, FirstZombie
<1>5. ASSUME NEW z \in Slots, WaitBadAddress(p, z) PROVE ForksKept BY <1>5 DEF WaitBadAddress
<1>6. CASE WaitNone(p) BY <1>6 DEF WaitNone
<1>7. CASE WaitSleep(p) BY <1>7 DEF WaitSleep
<1>8. CASE ExitCall(p) BY <1>8 DEF ExitCall
<1>9. CASE Return(p) BY <1>9 DEF Return
<1>10. CASE ExitLock(p) BY <1>10 DEF ExitLock
<1>11. CASE ExitWakeup(p) BY <1>11 DEF ExitWakeup, Wakeup
<1>12. CASE ExitZombie(p) BY <1>12 DEF ExitZombie
<1>13. CASE ExitUnlock(p) BY <1>13 DEF ExitUnlock
<1>14. CASE ExitSwtch(p) BY <1>14 DEF ExitSwtch
<1>15. ASSUME NEW k \in KillPids, kill(p, k) PROVE ForksKept BY <1>15 DEF kill, Wakeup
<1>16. QED
  BY <1>1, <1>2, <1>3, <1>4, <1>5, <1>6, <1>7, <1>8, <1>9, <1>10, <1>11, <1>12, <1>13, <1>14, <1>15
     DEF Step, Kernel, Calls

(* What allocproc() in a fork() of p does to the table, slot by slot.        *)
Allocated(p, s) ==
  /\ s # p /\ s # InitProc /\ state[s] = "UNUSED" /\ pc[s] \in {"user", "gone"}
  /\ parent[s] = NoSlot /\ pc[p] = "user" /\ state[p] = "RUNNABLE"
  /\ \A r \in Slots : /\ state'[r] = IF r = s THEN "USED" ELSE state[r]
                      /\ np'[r] = IF r = p THEN s ELSE np[r]
                      /\ pc'[r] = IF r = s THEN "user" ELSE IF r = p THEN "fork_parent" ELSE pc[r]
  /\ parent' = parent /\ wait_lock' = wait_lock

LEMMA AllocShape ==
  ASSUME LifeInv, NEW p \in Slots, ForkAlloc(p) PROVE \E s \in Slots : Allocated(p, s)
<1>1. PICK s \in Slots :
        /\ state[s] = "UNUSED" /\ state' = [state EXCEPT ![s] = "USED"]
        /\ np' = [np EXCEPT ![p] = s]
        /\ pc' = [pc EXCEPT ![p] = "fork_parent", ![s] = "user"]
  BY DEF ForkAlloc
<1>2. pc[p] = "user" /\ state[p] = "RUNNABLE" /\ parent' = parent /\ wait_lock' = wait_lock
  BY DEF ForkAlloc, Runs
<1>3. s # p /\ s # InitProc /\ pc[s] \in {"user", "gone"} /\ parent[s] = NoSlot
  BY <1>1, <1>2 DEF LifeInv, StagesRight, ParentsRight, InitRight, Alive, Leaving
<1>4. ASSUME NEW r \in Slots
      PROVE  /\ state'[r] = IF r = s THEN "USED" ELSE state[r]
             /\ np'[r] = IF r = p THEN s ELSE np[r]
  BY <1>1 DEF LifeInv, TypeOK
<1>5. ASSUME NEW r \in Slots
      PROVE  pc'[r] = IF r = s THEN "user" ELSE IF r = p THEN "fork_parent" ELSE pc[r]
  BY <1>1 DEF LifeInv, TypeOK
<1>6. Allocated(p, s) BY ONLY <1>1, <1>2, <1>3, <1>4, <1>5 DEF Allocated
<1>7. QED BY <1>6

LEMMA ForksStep == ASSUME LifeInv, NEW p \in Slots, Step(p) PROVE ForksRight'
<1>1. CASE ForkAlloc(p)
  <2>1. PICK s \in Slots : Allocated(p, s) BY <1>1, AllocShape
  <2>2. \A r \in Slots : pc[r] \in Forking => np[r] # s /\ r # s /\ r # p
    BY <2>1 DEF LifeInv, ForksRight, Allocated, Forking
  <2>3. ASSUME NEW r \in Slots, pc'[r] \in Forking
        PROVE  /\ np'[r] \in Slots \ {InitProc} /\ state'[np'[r]] = "USED"
               /\ parent'[np'[r]] = IF pc'[r] = "fork_parent" THEN NoSlot ELSE r
    <3>1. CASE r = p BY <2>1, <3>1 DEF Allocated
    <3>2. CASE r # p
      <4>1. pc[r] \in Forking /\ pc'[r] = pc[r] /\ np'[r] = np[r]
        BY <2>1, <2>3, <3>2 DEF Allocated, Forking
      <4>2. QED BY <2>1, <2>2, <4>1 DEF LifeInv, ForksRight, Allocated
    <3>3. QED BY <3>1, <3>2
  <2>4. ASSUME NEW r \in Slots, NEW u \in Slots,
               pc'[r] \in Forking, pc'[u] \in Forking, np'[r] = np'[u]
        PROVE  r = u
    BY <2>1, <2>2, <2>4 DEF LifeInv, ForksRight, Allocated, Forking
  <2>5. ASSUME NEW q \in Slots, state'[q] = "USED"
        PROVE  \E r \in Slots : pc'[r] \in Forking /\ np'[r] = q
    <3>1. CASE q = s BY <2>1, <3>1 DEF Allocated, Forking
    <3>2. CASE q # s
      <4>1. PICK r \in Slots : pc[r] \in Forking /\ np[r] = q
        BY <2>1, <2>5, <3>2 DEF Allocated, LifeInv, ForksRight
      <4>2. QED BY <2>1, <2>2, <4>1 DEF Allocated
    <3>3. QED BY <3>1, <3>2
  <2>6. QED BY <2>3, <2>4, <2>5 DEF ForksRight
<1> USE LifecycleAssumption DEF LifeInv, TypeOK, Slots, NoSlot, InitProc, Goto, Runs, Leaving,
                                StagesRight, ForksRight, ParentsRight, InitRight, Forking, Alive
<1>2. CASE ForkParent(p) BY <1>2 DEF ForkParent
<1>3. CASE ForkRun(p) BY <1>3 DEF ForkRun
<1>4. CASE reparent(p) BY <1>4 DEF reparent, Wakeup, Children
<1>5. QED BY ONLY <1>1, <1>2, <1>3, <1>4, ForksFrame, ForksKeptStep, LifeInv, p \in Slots, Step(p)

LEMMA LockStep == ASSUME LifeInv, NEW p \in Slots, Step(p) PROVE LockRight'
<1>1. CASE ForkAlloc(p)
  <2>1. PICK s \in Slots : Allocated(p, s) BY <1>1, AllocShape
  <2>2. QED BY <2>1 DEF LifeInv, LockRight, Allocated, Holding
<1> USE LifecycleAssumption
    DEF LifeInv, TypeOK, Slots, NoSlot, InitProc, Goto, Runs, Leaving, StagesRight, ForksRight,
        Forking, LockRight, Holding
<1>2. CASE ForkFails(p) BY <1>2 DEF ForkFails
<1>3. CASE ForkParent(p) BY <1>3 DEF ForkParent
<1>4. CASE ForkRun(p) BY <1>4 DEF ForkRun
<1>5. CASE WaitCall(p) BY <1>5 DEF WaitCall
<1>6. CASE WaitLock(p) BY <1>6 DEF WaitLock
<1>7. ASSUME NEW z \in Slots, WaitReap(p, z) PROVE LockRight'
  BY <1>7 DEF WaitReap, FirstZombie, Children
<1>8. ASSUME NEW z \in Slots, WaitBadAddress(p, z) PROVE LockRight'
  BY <1>8 DEF WaitBadAddress, FirstZombie, Children
<1>9. CASE WaitNone(p) BY <1>9 DEF WaitNone, Children
<1>10. CASE WaitSleep(p) BY <1>10 DEF WaitSleep
<1>11. CASE ExitCall(p) BY <1>11 DEF ExitCall
<1>12. CASE Return(p) BY <1>12 DEF Return
<1>13. CASE ExitLock(p) BY <1>13 DEF ExitLock
<1>14. CASE reparent(p) BY <1>14 DEF reparent, Wakeup, Children
<1>15. CASE ExitWakeup(p) BY <1>15 DEF ExitWakeup, Wakeup
<1>16. CASE ExitZombie(p) BY <1>16 DEF ExitZombie
<1>17. CASE ExitUnlock(p) BY <1>17 DEF ExitUnlock
<1>18. CASE ExitSwtch(p) BY <1>18 DEF ExitSwtch
<1>19. ASSUME NEW k \in KillPids, kill(p, k) PROVE LockRight'
  BY <1>19 DEF kill, Wakeup
<1>20. QED
  BY <1>1, <1>2, <1>3, <1>4, <1>5, <1>6, <1>7, <1>8, <1>9, <1>10, <1>11, <1>12, <1>13, <1>14,
     <1>15, <1>16, <1>17, <1>18, <1>19 DEF Step, Kernel, Calls

LEMMA ParentsStep == ASSUME LifeInv, NEW p \in Slots, Step(p) PROVE ParentsRight'
<1> USE LifecycleAssumption
    DEF LifeInv, TypeOK, Slots, NoSlot, InitProc, Goto, Runs, Leaving, StagesRight, ForksRight,
        Forking, LockRight, Holding, ParentsRight, ChildlessRight, Children, InitRight,
        Exiting, Alive
<1>1. CASE ForkAlloc(p) BY <1>1 DEF ForkAlloc
<1>2. CASE ForkFails(p) BY <1>2 DEF ForkFails
<1>3. CASE ForkParent(p) BY <1>3 DEF ForkParent
<1>4. CASE ForkRun(p)
  <2>1. np[p] \in Slots \ {InitProc} /\ parent[np[p]] = p BY <1>4 DEF ForkRun
  <2>2. state' = [state EXCEPT ![np[p]] = "RUNNABLE"] /\ parent' = parent BY <1>4 DEF ForkRun
  <2>3. \A q \in Slots : state'[q] = IF q = np[p] THEN "RUNNABLE" ELSE state[q] BY <2>2
  <2>4. QED BY <2>1, <2>2, <2>3
<1>5. CASE WaitCall(p) BY <1>5 DEF WaitCall
<1>6. CASE WaitLock(p) BY <1>6 DEF WaitLock
<1>7. ASSUME NEW z \in Slots, WaitReap(p, z) PROVE ParentsRight'
  BY <1>7 DEF WaitReap, FirstZombie, Children
<1>8. ASSUME NEW z \in Slots, WaitBadAddress(p, z) PROVE ParentsRight'
  BY <1>8 DEF WaitBadAddress, FirstZombie, Children
<1>9. CASE WaitNone(p) BY <1>9 DEF WaitNone, Children
<1>10. CASE WaitSleep(p) BY <1>10 DEF WaitSleep
<1>11. CASE ExitCall(p) BY <1>11 DEF ExitCall
<1>12. CASE Return(p) BY <1>12 DEF Return
<1>13. CASE ExitLock(p) BY <1>13 DEF ExitLock
<1>14. CASE reparent(p) BY <1>14 DEF reparent, Wakeup, Children
<1>15. CASE ExitWakeup(p) BY <1>15 DEF ExitWakeup, Wakeup
<1>16. CASE ExitZombie(p)
  <2>1. \A q \in Slots : parent[q] # p
    <3>1. pc[p] = "exit_zombie" BY ONLY <1>16 DEF ExitZombie, Runs
    <3>2. Children(p) = {} BY ONLY <3>1, LifeInv, p \in Slots DEF LifeInv, ChildlessRight
    <3>3. QED BY ONLY <3>2 DEF Children
  <2>2. p # InitProc /\ state[p] = "RUNNABLE" BY <1>16 DEF ExitZombie
  <2>3. \A q \in Slots : state'[q] = IF q = p THEN "ZOMBIE" ELSE state[q]
    BY <1>16 DEF ExitZombie
  <2>4. parent' = parent BY <1>16 DEF ExitZombie
  <2>5. parent \in [Slots -> Slots \cup {NoSlot}] /\ ParentsRight OBVIOUS
  <2>6. QED BY ONLY <2>1, <2>2, <2>3, <2>4, <2>5 DEF ParentsRight, Alive
<1>17. CASE ExitUnlock(p) BY <1>17 DEF ExitUnlock
<1>18. CASE ExitSwtch(p) BY <1>18 DEF ExitSwtch
<1>19. ASSUME NEW k \in KillPids, kill(p, k) PROVE ParentsRight'
  BY <1>19 DEF kill, Wakeup
<1>20. QED
  BY <1>1, <1>2, <1>3, <1>4, <1>5, <1>6, <1>7, <1>8, <1>9, <1>10, <1>11, <1>12, <1>13, <1>14,
     <1>15, <1>16, <1>17, <1>18, <1>19 DEF Step, Kernel, Calls

LEMMA ChildlessStep == ASSUME LifeInv, NEW p \in Slots, Step(p) PROVE ChildlessRight'
<1> USE LifecycleAssumption
    DEF LifeInv, TypeOK, Slots, NoSlot, InitProc, Goto, Runs, Leaving, StagesRight, ForksRight,
        Forking, LockRight, Holding, ChildlessRight, InitRight, Exiting, Children, Alive
<1>1. CASE ForkAlloc(p) BY <1>1 DEF ForkAlloc
<1>2. CASE ForkFails(p) BY <1>2 DEF ForkFails
<1>3. CASE ForkParent(p) BY <1>3 DEF ForkParent
<1>4. CASE ForkRun(p) BY <1>4 DEF ForkRun
<1>5. CASE WaitCall(p) BY <1>5 DEF WaitCall
<1>6. CASE WaitLock(p) BY <1>6 DEF WaitLock
<1>7. ASSUME NEW z \in Slots, WaitReap(p, z) PROVE ChildlessRight'
  BY <1>7 DEF WaitReap, FirstZombie, Children
<1>8. ASSUME NEW z \in Slots, WaitBadAddress(p, z) PROVE ChildlessRight'
  BY <1>8 DEF WaitBadAddress, FirstZombie, Children
<1>9. CASE WaitNone(p) BY <1>9 DEF WaitNone, Children
<1>10. CASE WaitSleep(p) BY <1>10 DEF WaitSleep
<1>11. CASE ExitCall(p) BY <1>11 DEF ExitCall
<1>12. CASE Return(p) BY <1>12 DEF Return
<1>13. CASE ExitLock(p) BY <1>13 DEF ExitLock
<1>14. CASE reparent(p) BY <1>14 DEF reparent, Wakeup, Children
<1>15. CASE ExitWakeup(p) BY <1>15 DEF ExitWakeup, Wakeup
<1>16. CASE ExitZombie(p) BY <1>16 DEF ExitZombie
<1>17. CASE ExitUnlock(p) BY <1>17 DEF ExitUnlock
<1>18. CASE ExitSwtch(p) BY <1>18 DEF ExitSwtch
<1>19. ASSUME NEW k \in KillPids, kill(p, k) PROVE ChildlessRight'
  BY <1>19 DEF kill, Wakeup
<1>20. QED
  BY <1>1, <1>2, <1>3, <1>4, <1>5, <1>6, <1>7, <1>8, <1>9, <1>10, <1>11, <1>12, <1>13, <1>14,
     <1>15, <1>16, <1>17, <1>18, <1>19 DEF Step, Kernel, Calls

LEMMA InitStep == ASSUME LifeInv, 1 \notin KillPids, NEW p \in Slots, Step(p) PROVE InitRight'
<1> USE LifecycleAssumption
    DEF LifeInv, TypeOK, Slots, NoSlot, InitProc, Goto, Runs, Leaving, StagesRight, ForksRight,
        Forking, LockRight, Holding, InitRight, ParentsRight, Exiting, Alive
<1>1. CASE ForkAlloc(p) BY <1>1 DEF ForkAlloc
<1>2. CASE ForkFails(p) BY <1>2 DEF ForkFails
<1>3. CASE ForkParent(p) BY <1>3 DEF ForkParent
<1>4. CASE ForkRun(p) BY <1>4 DEF ForkRun
<1>5. CASE WaitCall(p) BY <1>5 DEF WaitCall
<1>6. CASE WaitLock(p) BY <1>6 DEF WaitLock
<1>7. ASSUME NEW z \in Slots, WaitReap(p, z) PROVE InitRight'
  BY <1>7 DEF WaitReap, FirstZombie, Children
<1>8. ASSUME NEW z \in Slots, WaitBadAddress(p, z) PROVE InitRight'
  BY <1>8 DEF WaitBadAddress, FirstZombie, Children
<1>9. CASE WaitNone(p) BY <1>9 DEF WaitNone, Children
<1>10. CASE WaitSleep(p) BY <1>10 DEF WaitSleep
<1>11. CASE ExitCall(p) BY <1>11 DEF ExitCall
<1>12. CASE Return(p) BY <1>12 DEF Return
<1>13. CASE ExitLock(p) BY <1>13 DEF ExitLock
<1>14. CASE reparent(p) BY <1>14 DEF reparent, Wakeup, Children
<1>15. CASE ExitWakeup(p) BY <1>15 DEF ExitWakeup, Wakeup
<1>16. CASE ExitZombie(p) BY <1>16 DEF ExitZombie
<1>17. CASE ExitUnlock(p) BY <1>17 DEF ExitUnlock
<1>18. CASE ExitSwtch(p) BY <1>18 DEF ExitSwtch
<1>19. ASSUME NEW k \in KillPids, kill(p, k) PROVE InitRight'
  BY <1>19 DEF kill, Wakeup
<1>20. QED
  BY <1>1, <1>2, <1>3, <1>4, <1>5, <1>6, <1>7, <1>8, <1>9, <1>10, <1>11, <1>12, <1>13, <1>14,
     <1>15, <1>16, <1>17, <1>18, <1>19 DEF Step, Kernel, Calls

LEMMA LifeInvInit == Init => LifeInv
<1> SUFFICES ASSUME Init PROVE LifeInv OBVIOUS
<1> USE LifecycleAssumption DEF Init, Slots, NoSlot, InitProc, Alive, Leaving, Forking
<1>1. TypeOK BY DEF TypeOK
<1>2. StagesRight /\ ForksRight BY DEF StagesRight, ForksRight
<1>3. LockRight BY DEF LockRight, Holding
<1>4. ParentsRight /\ ChildlessRight BY DEF ParentsRight, ChildlessRight
<1>5. InitRight BY DEF InitRight, Exiting
<1>6. QED BY <1>1, <1>2, <1>3, <1>4, <1>5 DEF LifeInv

LEMMA LifeInvInductive ==
  ASSUME 1 \notin KillPids PROVE LifeInv /\ [Next]_vars => LifeInv'
<1>1. ASSUME LifeInv, Next PROVE LifeInv'
  <2>1. PICK p \in Slots : Step(p) BY <1>1 DEF Next, Step
  <2>2. QED
    BY <1>1, <2>1, TypeStep, StagesStep, ForksStep, LockStep, ParentsStep, ChildlessStep, InitStep
       DEF LifeInv
<1>2. ASSUME LifeInv, UNCHANGED vars PROVE LifeInv'
  BY <1>2 DEF LifeInv, vars, TypeOK, StagesRight, ForksRight, LockRight, ParentsRight,
              ChildlessRight, InitRight, Alive, Leaving, Children
<1>3. QED BY <1>1, <1>2

LEMMA LifeInvAlways == ASSUME 1 \notin KillPids PROVE Spec => []LifeInv
BY LifeInvInit, LifeInvInductive, PTL DEF Spec

(* Unless somebody kills init, the variables of the lifecycle have their      *)
(* types: in particular np, parent and wait_lock name slots.                  *)
THEOREM LifeTypeCorrect == ASSUME 1 \notin KillPids PROVE Spec => []TypeOK
<1>1. LifeInv => TypeOK BY DEF LifeInv
<1>2. QED BY <1>1, LifeInvAlways, PTL

(* Unless somebody kills init, every process but init has a parent that lives *)
(* or is being made by one: fork() and exit() never leave anybody behind,     *)
(* however they interleave (kernel/proc.c:288, 338).                          *)
THEOREM FamilyAlways == ASSUME 1 \notin KillPids PROVE Spec => []Family
<1>1. ASSUME LifeInv, NEW q \in Slots \ {InitProc}, state[q] # "UNUSED"
      PROVE  \/ parent[q] # NoSlot /\ state[parent[q]] \in {"RUNNABLE", "SLEEPING"}
             \/ state[q] = "USED" /\ \E p \in Slots : Runs(p, "fork_parent") /\ np[p] = q
  <2>1. CASE parent[q] # NoSlot BY <1>1, <2>1 DEF LifeInv, ParentsRight, Alive
  <2>2. CASE parent[q] = NoSlot
    <3>1. state[q] = "USED" BY <1>1, <2>2 DEF LifeInv, ParentsRight
    <3>2. PICK p \in Slots : pc[p] \in Forking /\ np[p] = q
      BY <1>1, <3>1 DEF LifeInv, ForksRight
    <3>3. pc[p] = "fork_parent"
      BY <1>1, <2>2, <3>2, LifecycleAssumption DEF LifeInv, ForksRight, Forking, NoSlot, Slots
    <3>4. state[p] = "RUNNABLE" BY <1>1, <3>3 DEF LifeInv, StagesRight
    <3>5. QED BY <3>1, <3>2, <3>3, <3>4 DEF Runs
  <2>3. QED BY <2>1, <2>2
<1>2. LifeInv => Family BY <1>1 DEF Family
<1>3. QED BY <1>2, LifeInvAlways, PTL

(* Unless somebody kills init, the kernel stack a process still uses on its   *)
(* way out is never freed by its parent or given to a new process             *)
(* (kernel/proc.c:370-387, 410).                                              *)
THEOREM StackInUseAlways == ASSUME 1 \notin KillPids PROVE Spec => []StackInUse
<1>1. LifeInv => StackInUse BY DEF LifeInv, StagesRight, StackInUse
<1>2. QED BY <1>1, LifeInvAlways, PTL

-----------------------------------------------------------------------------
LEMMA UnusedStep ==
  ASSUME LifeInv, UnusedRight, 0 \notin KillPids, NEW p \in Slots, Step(p) PROVE UnusedRight'
<1> USE LifecycleAssumption
    DEF LifeInv, TypeOK, Slots, NoSlot, InitProc, Goto, Runs, UnusedRight
<1>1. CASE ForkAlloc(p) BY <1>1 DEF ForkAlloc
<1>2. CASE ForkFails(p) BY <1>2 DEF ForkFails
<1>3. CASE ForkParent(p) BY <1>3 DEF ForkParent
<1>4. CASE ForkRun(p) BY <1>4 DEF ForkRun, ForksRight, Forking
<1>5. CASE WaitCall(p) BY <1>5 DEF WaitCall
<1>6. CASE WaitLock(p) BY <1>6 DEF WaitLock
<1>7. ASSUME NEW z \in Slots, WaitReap(p, z) PROVE UnusedRight'
  BY <1>7 DEF WaitReap
<1>8. ASSUME NEW z \in Slots, WaitBadAddress(p, z) PROVE UnusedRight'
  BY <1>8 DEF WaitBadAddress
<1>9. CASE WaitNone(p) BY <1>9 DEF WaitNone
<1>10. CASE WaitSleep(p) BY <1>10 DEF WaitSleep
<1>11. CASE ExitCall(p) BY <1>11 DEF ExitCall
<1>12. CASE Return(p) BY <1>12 DEF Return
<1>13. CASE ExitLock(p) BY <1>13 DEF ExitLock
<1>14. CASE reparent(p) BY <1>14 DEF reparent, Wakeup
<1>15. CASE ExitWakeup(p) BY <1>15 DEF ExitWakeup, Wakeup
<1>16. CASE ExitZombie(p) BY <1>16 DEF ExitZombie
<1>17. CASE ExitUnlock(p) BY <1>17 DEF ExitUnlock
<1>18. CASE ExitSwtch(p) BY <1>18 DEF ExitSwtch
<1>19. ASSUME NEW k \in KillPids, kill(p, k) PROVE UnusedRight'
  BY <1>19 DEF kill, Wakeup
<1>20. QED
  BY <1>1, <1>2, <1>3, <1>4, <1>5, <1>6, <1>7, <1>8, <1>9, <1>10, <1>11, <1>12, <1>13, <1>14,
     <1>15, <1>16, <1>17, <1>18, <1>19 DEF Step, Kernel, Calls

(* Nothing but fork() takes a slot.                                           *)
LEMMA OnlyForkTakes ==
  ASSUME LifeInv, NEW p \in Slots, Step(p), NEW q \in Slots,
         state[q] = "UNUSED", state'[q] = "USED"
  PROVE  ForkAlloc(p)
<1> USE DEF LifeInv, TypeOK
<1>1. ASSUME ForkFails(p) PROVE FALSE BY <1>1 DEF ForkFails
<1>2. ASSUME ForkParent(p) PROVE FALSE BY <1>2 DEF ForkParent
<1>3. ASSUME ForkRun(p) PROVE FALSE BY <1>3 DEF ForkRun
<1>4. ASSUME WaitCall(p) PROVE FALSE BY <1>4 DEF WaitCall
<1>5. ASSUME WaitLock(p) PROVE FALSE BY <1>5 DEF WaitLock
<1>6. ASSUME NEW z \in Slots, WaitReap(p, z) PROVE FALSE BY <1>6 DEF WaitReap
<1>7. ASSUME NEW z \in Slots, WaitBadAddress(p, z) PROVE FALSE BY <1>7 DEF WaitBadAddress
<1>8. ASSUME WaitNone(p) PROVE FALSE BY <1>8 DEF WaitNone
<1>9. ASSUME WaitSleep(p) PROVE FALSE BY <1>9 DEF WaitSleep
<1>10. ASSUME ExitCall(p) PROVE FALSE BY <1>10 DEF ExitCall
<1>11. ASSUME Return(p) PROVE FALSE BY <1>11 DEF Return
<1>12. ASSUME ExitLock(p) PROVE FALSE BY <1>12 DEF ExitLock
<1>13. ASSUME reparent(p) PROVE FALSE BY <1>13 DEF reparent, Wakeup
<1>14. ASSUME ExitWakeup(p) PROVE FALSE BY <1>14 DEF ExitWakeup, Wakeup
<1>15. ASSUME ExitZombie(p) PROVE FALSE BY <1>15 DEF ExitZombie
<1>16. ASSUME ExitUnlock(p) PROVE FALSE BY <1>16 DEF ExitUnlock
<1>17. ASSUME ExitSwtch(p) PROVE FALSE BY <1>17 DEF ExitSwtch
<1>18. ASSUME NEW k \in KillPids, kill(p, k) PROVE FALSE BY <1>18 DEF kill, Wakeup
<1>19. QED
  BY <1>1, <1>2, <1>3, <1>4, <1>5, <1>6, <1>7, <1>8, <1>9, <1>10, <1>11, <1>12, <1>13, <1>14,
     <1>15, <1>16, <1>17, <1>18 DEF Step, Kernel, Calls

(* Unless somebody kills init or pid 0, no process is born killed: whoever    *)
(* takes a slot finds p->killed clear (kernel/proc.c:109, 155, 589).          *)
THEOREM BornAliveAlways == ASSUME KillPids \cap {0, 1} = {} PROVE Spec => BornAlive
<1>1. 0 \notin KillPids /\ 1 \notin KillPids OBVIOUS
<1>2. Init => UnusedRight BY LifecycleAssumption DEF Init, UnusedRight, Slots, InitProc
<1>3. LifeInv /\ UnusedRight /\ [Next]_vars => UnusedRight'
  <2>1. ASSUME LifeInv, UnusedRight, Next PROVE UnusedRight'
    <3>1. PICK p \in Slots : Step(p) BY <2>1 DEF Next, Step
    <3>2. QED BY <1>1, <2>1, <3>1, UnusedStep
  <2>2. ASSUME UnusedRight, UNCHANGED vars PROVE UnusedRight' BY <2>2 DEF UnusedRight, vars
  <2>3. QED BY <2>1, <2>2
<1>4. Spec => []LifeInv BY <1>1, LifeInvAlways
<1>5. LifeInv /\ UnusedRight /\ [Next]_vars => [Born]_vars
  <2>1. ASSUME LifeInv, UnusedRight, Next, NEW q \in Slots, state[q] = "UNUSED", state'[q] = "USED"
        PROVE  ~killed'[q]
    <3>1. PICK p \in Slots : Step(p) BY <2>1 DEF Next, Step
    <3>2. killed' = killed BY <2>1, <3>1, OnlyForkTakes DEF ForkAlloc
    <3>3. QED BY <2>1, <3>2 DEF UnusedRight
  <2>2. QED BY <2>1 DEF Born
<1>6. QED BY <1>2, <1>3, <1>4, <1>5, PTL DEF Spec, BornAlive
=============================================================================
