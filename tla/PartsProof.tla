----------------------------- MODULE PartsProof ------------------------------
(***************************************************************************)
(* Machine-checked theorems about the parts that MCParts checks side by    *)
(* side with variables of their own, for every value of their constants:   *)
(* the spinlocks (Spinlock), the process table the CPUs schedule from      *)
(* (Scheduler), PingPong, the lines of printf() (Printf), the free list of *)
(* pages (Kalloc), console input and output (Console, Uart) and sleep()    *)
(* (Clock).  SpinInv says where every context is, who owns each lock, how  *)
(* push_off() counts them, and which enable bit the last pop_off() of a    *)
(* CPU will restore; SchedInv who has each process, and where every CPU    *)
(* that passed a waiting process by is on its way round the table;         *)
(* PrintInv who has pr.lock and what was said after a panic; KallocInv     *)
(* where every page is, and how the list runs;                             *)
(* ConsInv how the indices of the ring lie, and who may wait for a line;   *)
(* UartInv whom the FIFO has room for; ClockInv what ticks says of time.   *)
(***************************************************************************)
EXTENDS Spinlock, Scheduler, PingPong, Printf, Kalloc, Console, Uart, Clock, TLAPS,
        FiniteSetTheorems, SequenceTheorems

Busy == {"spin", "record", "unlock", "leave"}
Away == {"new", "ready"}   \* places of a thread on no CPU

(* "panic" is not among the places: no context ever gets there.              *)
SpinTypes ==
  /\ locked \in [LockIds -> BOOLEAN] /\ lcpu \in [LockIds -> CPUs \cup {NoOne}]
  /\ owner \in [LockIds -> CPUs \cup {NoOne}]
  /\ intr \in [CPUs -> BOOLEAN] /\ noff \in [CPUs -> Nat] /\ intena \in [CPUs -> BOOLEAN]
  /\ run \in [CPUs -> Threads \cup {NoOne}] /\ saved \in [Threads -> BOOLEAN]
  /\ doing \in [Contexts -> {"new", "ready", "run", "back", "first"} \cup Busy]
  /\ lk \in [Contexts -> LockIds \cup {NoOne}] /\ trap \in [Contexts -> BOOLEAN]

(* A thread is on one CPU, or ready with the enable bit to come back to, or   *)
(* has not run; the scheduler of a CPU that runs a thread waits in swtch(),   *)
(* no handler active.                                                         *)
Placed ==
  /\ \A c, d \in CPUs : run[c] = run[d] /\ run[c] # NoOne => c = d
  /\ \A t \in Threads : doing[t] \in Away <=> \A c \in CPUs : run[c] # t
  /\ \A t \in Threads : doing[t] = "new" => ~trap[t]
  /\ \A t \in Threads : doing[t] = "ready" => (saved[t] <=> ~trap[t])
  /\ \A c \in CPUs : doing[c] \notin Away /\ (run[c] # NoOne => doing[c] = "run" /\ ~trap[c])
  /\ \A x \in Contexts : lk[x] # NoOne <=> doing[x] \in Busy

(* lk->locked is exact; lk->cpu names the owner except between the swap and   *)
(* its record, and from the start of release() on.                            *)
OwningAt(c) ==
  /\ doing[Current(c)] \in {"record", "unlock", "leave"} => owner[lk[Current(c)]] = c
  /\ doing[Current(c)] = "spin" => owner[lk[Current(c)]] # c
  /\ doing[Current(c)] \in {"unlock", "leave"} => lcpu[lk[Current(c)]] = NoOne
  /\ \A l \in LockIds : owner[l] = c =>
       lcpu[l] = c \/ (lk[Current(c)] = l /\ doing[Current(c)] \in {"record", "unlock", "leave"})
Owning ==
  /\ \A l \in LockIds : locked[l] <=> owner[l] # NoOne
  /\ \A l \in LockIds : lcpu[l] # NoOne => owner[l] = lcpu[l]
  /\ \A c \in CPUs : OwningAt(c)

(* push_off() and pop_off() count the locks.                                  *)
Spinning(c) == IF doing[Current(c)] = "spin" THEN 1 ELSE 0
Counting ==
  \A c \in CPUs : IsFiniteSet(Owned(c)) /\ noff[c] = Cardinality(Owned(c)) + Spinning(c)

(* c->intena is what the context that will call the last pop_off() had; but   *)
(* not in forkret(), which calls the last one itself.                         *)
InForkret(c) == doing[Current(c)] \in {"first", "leave"}
EnablingAt(c) ==
  /\ intr[c] => noff[c] = 0 /\ ~trap[Current(c)]
  /\ Current(c) \in Threads /\ noff[c] = 0 => (intr[c] <=> ~trap[Current(c)])
  /\ noff[c] # 0 /\ intena[c] => ~trap[Current(c)]
  /\ noff[c] # 0 /\ Current(c) \in Threads /\ ~InForkret(c) => (intena[c] <=> ~trap[Current(c)])
  /\ InForkret(c) => noff[c] = 1 /\ ~trap[Current(c)]
Enabling == \A c \in CPUs : EnablingAt(c)

SpinInv == SpinTypes /\ Placed /\ Owning /\ Counting /\ Enabling
-----------------------------------------------------------------------------
(* The step of one CPU, as one disjunct of SpinNext for a fixed c.               *)
Step(c) ==
  \/ \E l \in LockIds : acquire(c, l) \/ release(c, l)
  \/ Swap(c) \/ Record(c) \/ pop_off(c) \/ Interrupt(c) \/ TrapReturn(c) \/ IntrOn(c)
  \/ sched(c) \/ \E t \in Threads : Resume(c, t)

(* Who is on a CPU is on no other.                                            *)
LEMMA CurrentFacts ==
  ASSUME SpinInv
  PROVE  /\ \A c \in CPUs : Current(c) \in Contexts /\ doing[Current(c)] \notin Away
         /\ \A c, d \in CPUs : Current(c) = Current(d) => c = d
         /\ \A c \in CPUs : IF run[c] = NoOne THEN Current(c) = c /\ c \notin Threads
                             ELSE Current(c) = run[c] /\ run[c] \in Threads
BY SpinAssumption DEF SpinInv, SpinTypes, Placed, Away, Current, Contexts, LockIds

(* Only sched() and scheduler() change who is on a CPU.                       *)
LEMMA CurrentSame == ASSUME run' = run PROVE \A c \in CPUs : Current(c)' = Current(c)
BY DEF Current

(* The lock a context is at, and what holding() finds.                        *)
LEMMA AtLock ==
  ASSUME SpinInv, NEW c \in CPUs
  PROVE  /\ doing[Current(c)] \in Busy <=> lk[Current(c)] \in LockIds
         /\ \A l \in LockIds : holding(c, l) => owner[l] = c
         /\ \A l \in LockIds : owner[l] = c /\ doing[Current(c)] \in {"run", "back", "first"} => holding(c, l)
BY CurrentFacts, SpinAssumption DEF SpinInv, SpinTypes, Placed, Owning, OwningAt, holding, Busy, LockIds, Contexts

(* The locks of a CPU are counted.                                            *)
LEMMA Counted ==
  ASSUME SpinInv, NEW c \in CPUs
  PROVE  /\ Owned(c) = {} => noff[c] = Spinning(c)
         /\ \A l \in LockIds : owner[l] = c => noff[c] # 0
         /\ \A l : Owned(c) = {l} => noff[c] = 1 + Spinning(c)
<1>1. IsFiniteSet(Owned(c)) /\ noff[c] = Cardinality(Owned(c)) + Spinning(c) BY DEF SpinInv, Counting
<1>2. Spinning(c) \in {0, 1} BY DEF Spinning
<1>3. Cardinality(Owned(c)) \in Nat BY <1>1, FS_CardinalityType
<1>4. Owned(c) = {} => noff[c] = Spinning(c) BY <1>1, <1>2, FS_EmptySet
<1>5. ASSUME NEW l \in LockIds, owner[l] = c PROVE noff[c] # 0
  <2>1. Owned(c) # {} BY <1>5 DEF Owned
  <2>2. Cardinality(Owned(c)) # 0 BY <1>1, <2>1, FS_EmptySet
  <2>3. QED BY <1>1, <1>2, <1>3, <2>2
<1>6. ASSUME NEW l, Owned(c) = {l} PROVE noff[c] = 1 + Spinning(c)
  <2>1. Cardinality({l}) = 1 BY FS_Singleton
  <2>2. QED BY <1>1, <1>2, <1>6, <2>1
<1>7. QED BY <1>4, <1>5, <1>6

(* No step panics: what acquire(), release(), pop_off() and sched() find.     *)
LEMMA AcquireShape ==
  ASSUME SpinInv, NEW c \in CPUs, NEW l \in LockIds, acquire(c, l)
  PROVE  /\ owner[l] # c /\ doing[Current(c)] = "run"
         /\ doing' = [doing EXCEPT ![Current(c)] = "spin"]
<1>1. doing[Current(c)] = "run" /\ MayTake(Current(c), c, l) BY DEF acquire
<1>2. owner[l] # c BY <1>1, SpinAssumption DEF MayTake, Owned
<1>3. ~holding(c, l) BY <1>2, AtLock
<1>4. QED BY <1>1, <1>2, <1>3 DEF acquire, Goes

Released(c) == IF doing[Current(c)] = "first" THEN "leave" ELSE "unlock"
LEMMA ReleaseShape ==
  ASSUME SpinInv, NEW c \in CPUs, NEW l \in LockIds, release(c, l)
  PROVE  /\ owner[l] = c /\ doing[Current(c)] \in {"run", "back", "first"} /\ lcpu[l] = c
         /\ doing' = [doing EXCEPT ![Current(c)] = Released(c)] /\ Released(c) \in {"unlock", "leave"}
<1>1. doing[Current(c)] \in {"run", "back", "first"} /\ owner[l] = c BY DEF release, Owned
<1>2. holding(c, l) BY <1>1, AtLock
<1>3. QED BY <1>1, <1>2 DEF release, Released, Goes, holding

LEMMA PopShape ==
  ASSUME SpinInv, NEW c \in CPUs, pop_off(c)
  PROVE  /\ lk[Current(c)] \in LockIds /\ owner[lk[Current(c)]] = c
         /\ noff[c] \in Nat /\ noff[c] # 0 /\ ~intr[c]
         /\ doing[Current(c)] \in {"unlock", "leave"} /\ doing' = [doing EXCEPT ![Current(c)] = "run"]
<1>1. doing[Current(c)] \in {"unlock", "leave"} BY DEF pop_off
<1>2. lk[Current(c)] \in LockIds BY <1>1, AtLock DEF Busy
<1>3. owner[lk[Current(c)]] = c BY <1>1 DEF SpinInv, Owning, OwningAt
<1>4. noff[c] \in Nat /\ noff[c] # 0 BY <1>2, <1>3, Counted DEF SpinInv, SpinTypes
<1>5. ~intr[c] BY <1>4 DEF SpinInv, Enabling, EnablingAt
<1>6. ~(intr[c] \/ noff[c] < 1) BY <1>4, <1>5
<1>7. QED BY <1>1, <1>2, <1>3, <1>4, <1>5, <1>6 DEF pop_off, Goes

LEMMA SchedShape ==
  ASSUME SpinInv, NEW c \in CPUs, sched(c)
  PROVE  /\ run[c] \in Threads /\ Current(c) = run[c] /\ c # run[c]
         /\ doing[c] = "run" /\ ~trap[c] /\ doing[run[c]] = "run" /\ Owned(c) = {run[c]}
         /\ noff[c] = 1 /\ ~intr[c] /\ (intena[c] <=> ~trap[run[c]])
         /\ doing' = [doing EXCEPT ![c] = "back", ![run[c]] = "ready"]
<1>1. run[c] \in Threads /\ Current(c) = run[c] /\ c # run[c] BY CurrentFacts, SpinAssumption DEF sched
<1>2. doing[c] = "run" /\ ~trap[c] BY <1>1, SpinAssumption DEF SpinInv, Placed, LockIds
<1>3. doing[run[c]] = "run" /\ Owned(c) = {run[c]} BY DEF sched
<1>4. noff[c] = 1 BY <1>1, <1>3, Counted DEF Spinning
<1>5. ~intr[c] /\ (intena[c] <=> ~trap[run[c]]) BY <1>1, <1>3, <1>4 DEF SpinInv, Enabling, EnablingAt, InForkret
<1>6. ~(noff[c] # 1 \/ intr[c]) BY <1>4, <1>5
<1>7. QED BY <1>1, <1>2, <1>3, <1>4, <1>5, <1>6 DEF sched

(* After sched() a CPU is at its scheduler, after the next swtch() at t; the  *)
(* others stay where they are.                                                *)
LEMMA SwitchShape ==
  ASSUME SpinInv, NEW c \in CPUs, NEW t \in Threads \cup {NoOne}, run' = [run EXCEPT ![c] = t]
  PROVE  /\ run'[c] = t /\ Current(c)' = IF t = NoOne THEN c ELSE t
         /\ \A d \in CPUs \ {c} : run'[d] = run[d] /\ Current(d)' = Current(d)
BY DEF SpinInv, SpinTypes, Current

(* Every step keeps the types.                                               *)
LEMMA TypesStep == ASSUME SpinInv, NEW c \in CPUs, Step(c) PROVE SpinTypes'
<1>1. ASSUME NEW l \in LockIds, acquire(c, l) PROVE SpinTypes'
  <2>1. doing' = [doing EXCEPT ![Current(c)] = "spin"] BY <1>1, AcquireShape
  <2>2. /\ intr' = [intr EXCEPT ![c] = FALSE] /\ noff' = [noff EXCEPT ![c] = @ + 1]
        /\ lk' = [lk EXCEPT ![Current(c)] = l] /\ intena' = SaveIntena(c)
        /\ UNCHANGED <<locked, lcpu, run, trap, saved, owner>>
    BY <1>1 DEF acquire
  <2>3. intena' \in [CPUs -> BOOLEAN] BY <2>2 DEF SaveIntena, SpinInv, SpinTypes
  <2>4. intr' \in [CPUs -> BOOLEAN] /\ noff' \in [CPUs -> Nat] BY <2>2 DEF SpinInv, SpinTypes
  <2>5. doing' \in [Contexts -> {"new", "ready", "run", "back", "first"} \cup Busy]
        /\ lk' \in [Contexts -> LockIds \cup {NoOne}]
    BY <2>1, <2>2 DEF SpinInv, SpinTypes, Busy
  <2>6. QED BY <2>2, <2>3, <2>4, <2>5 DEF SpinInv, SpinTypes
<1>2. ASSUME NEW l \in LockIds, release(c, l) PROVE SpinTypes'
  <2>1. doing' = [doing EXCEPT ![Current(c)] = Released(c)] BY <1>2, ReleaseShape
  <2>2. lk' = [lk EXCEPT ![Current(c)] = l] /\ lcpu' = [lcpu EXCEPT ![l] = NoOne]
        /\ UNCHANGED <<locked, intr, noff, intena, run, trap, saved, owner>>
    BY <1>2 DEF release
  <2>3. QED BY <2>1, <2>2 DEF SpinInv, SpinTypes, Busy, Released
<1>5. CASE pop_off(c)
  <2>1. /\ doing' = [doing EXCEPT ![Current(c)] = "run"] /\ noff[c] \in Nat /\ noff[c] # 0
        /\ lk[Current(c)] \in LockIds
    BY <1>5, PopShape
  <2>2. intr' = [intr EXCEPT ![c] = intr[c] \/ TurnsOn(c) \/ usertrapret(c)] BY <1>5, Zenon DEF pop_off
  <2>3. intr' \in [CPUs -> BOOLEAN] BY <2>2 DEF SpinInv, SpinTypes, TurnsOn, usertrapret
  <2>4. /\ locked' = [locked EXCEPT ![lk[Current(c)]] = FALSE]
        /\ owner' = [owner EXCEPT ![lk[Current(c)]] = NoOne]
        /\ noff' = [noff EXCEPT ![c] = @ - 1] /\ lk' = [lk EXCEPT ![Current(c)] = NoOne]
        /\ UNCHANGED <<lcpu, intena, run, trap, saved>>
    BY <1>5, Zenon DEF pop_off
  <2>5. locked' \in [LockIds -> BOOLEAN] /\ owner' \in [LockIds -> CPUs \cup {NoOne}]
    BY <2>4 DEF SpinInv, SpinTypes
  <2>6. noff' \in [CPUs -> Nat] BY <2>1, <2>4 DEF SpinInv, SpinTypes
  <2>7. doing' \in [Contexts -> {"new", "ready", "run", "back", "first"} \cup Busy]
        /\ lk' \in [Contexts -> LockIds \cup {NoOne}]
    BY <2>1, <2>4 DEF SpinInv, SpinTypes, Busy
  <2>8. QED BY <2>3, <2>4, <2>5, <2>6, <2>7 DEF SpinInv, SpinTypes
<1>9. CASE sched(c)
  <2>1. doing' = [doing EXCEPT ![c] = "back", ![run[c]] = "ready"] /\ run[c] \in Threads
    BY <1>9, SchedShape
  <2>2. saved' = [saved EXCEPT ![run[c]] = intena[c]] /\ run' = [run EXCEPT ![c] = NoOne]
        /\ UNCHANGED <<locked, lcpu, intr, noff, intena, lk, trap, owner>>
    BY <1>9 DEF sched
  <2>3. QED BY <2>1, <2>2 DEF SpinInv, SpinTypes, Busy, Contexts
<1> USE SpinAssumption DEF SpinInv, SpinTypes, Busy, LockIds, Contexts
<1>3. CASE Swap(c) BY <1>3, CurrentFacts, AtLock DEF Swap, Goes
<1>4. CASE Record(c) BY <1>4, CurrentFacts, AtLock DEF Record, Goes
<1>6. CASE Interrupt(c) BY <1>6, CurrentFacts, AtLock DEF Interrupt
<1>7. CASE TrapReturn(c) BY <1>7, CurrentFacts, AtLock DEF TrapReturn
<1>8. CASE IntrOn(c) BY <1>8, CurrentFacts, AtLock DEF IntrOn
<1>10. ASSUME NEW t \in Threads, Resume(c, t) PROVE SpinTypes'
  <2>1. UNCHANGED <<locked, lcpu, intr, noff, lk, trap, saved, owner>> BY <1>10 DEF Resume
  <2>2. run' \in [CPUs -> Threads \cup {NoOne}] BY <1>10 DEF Resume
  <2>3. doing' \in [Contexts -> {"new", "ready", "run", "back", "first"} \cup Busy]
    BY <1>10 DEF Resume, FirstRun, RunAgain, Goes
  <2>4. intena' \in [CPUs -> BOOLEAN] BY <1>10 DEF Resume, FirstRun, RunAgain, Restore
  <2>5. QED BY <2>1, <2>2, <2>3, <2>4
<1>11. QED BY <1>1, <1>2, <1>3, <1>4, <1>5, <1>6, <1>7, <1>8, <1>9, <1>10 DEF Step

(* A thread leaves a CPU ready, with its enable bit saved, or not at all.      *)
LEMMA PlacedStep == ASSUME SpinInv, NEW c \in CPUs, Step(c) PROVE Placed'
<1>1. ASSUME NEW l \in LockIds, acquire(c, l) PROVE Placed'
  <2>1. /\ doing' = [doing EXCEPT ![Current(c)] = "spin"] /\ doing[Current(c)] = "run"
    BY <1>1, AcquireShape
  <2>2. lk' = [lk EXCEPT ![Current(c)] = l] /\ UNCHANGED <<run, trap, saved>> BY <1>1 DEF acquire
  <2>3. QED BY <2>1, <2>2, CurrentFacts, SpinAssumption
             DEF SpinInv, SpinTypes, Placed, Busy, Away, LockIds, Contexts
<1>2. ASSUME NEW l \in LockIds, release(c, l) PROVE Placed'
  <2>1. /\ doing' = [doing EXCEPT ![Current(c)] = Released(c)] /\ Released(c) \in {"unlock", "leave"}
        /\ doing[Current(c)] \in {"run", "back", "first"}
    BY <1>2, ReleaseShape
  <2>2. lk' = [lk EXCEPT ![Current(c)] = l] /\ UNCHANGED <<run, trap, saved>> BY <1>2 DEF release
  <2>3. QED BY <2>1, <2>2, CurrentFacts, SpinAssumption
             DEF SpinInv, SpinTypes, Placed, Busy, Away, LockIds, Contexts
<1>9. CASE sched(c)
  <2>1. /\ run[c] \in Threads /\ c # run[c] /\ doing[c] = "run" /\ ~trap[c]
        /\ doing[run[c]] = "run" /\ (intena[c] <=> ~trap[run[c]])
        /\ doing' = [doing EXCEPT ![c] = "back", ![run[c]] = "ready"]
    BY <1>9, SchedShape
  <2>2. saved' = [saved EXCEPT ![run[c]] = intena[c]] /\ run' = [run EXCEPT ![c] = NoOne]
        /\ UNCHANGED <<lk, trap>>
    BY <1>9 DEF sched
  <2>3. \A x \in Contexts : doing'[x] = IF x = c THEN "back"
                                        ELSE IF x = run[c] THEN "ready" ELSE doing[x]
    BY <2>1 DEF SpinInv, SpinTypes, Contexts
  <2>4. \A u \in Threads : saved'[u] = IF u = run[c] THEN intena[c] ELSE saved[u]
    BY <2>2 DEF SpinInv, SpinTypes
  <2>5. \A d \in CPUs : run'[d] = IF d = c THEN NoOne ELSE run[d]
    BY <2>2 DEF SpinInv, SpinTypes
  <2>6. \A d, e \in CPUs : run'[d] = run'[e] /\ run'[d] # NoOne => d = e
    BY <2>5 DEF SpinInv, Placed
  <2>7. \A u \in Threads : doing'[u] \in Away <=> \A d \in CPUs : run'[d] # u
    <3>1. \A u \in Threads : u \in Contexts /\ u # c /\ u # NoOne
      BY SpinAssumption DEF Contexts, LockIds
    <3>2. \A d \in CPUs : run[d] = run[c] => d = c BY <2>1, <3>1 DEF SpinInv, Placed
    <3>3. ASSUME NEW u \in Threads PROVE doing'[u] \in Away <=> \A d \in CPUs : run'[d] # u
      <4>1. doing[u] \in Away <=> \A d \in CPUs : run[d] # u BY DEF SpinInv, Placed
      <4>2. CASE u = run[c] BY <2>3, <2>5, <3>1, <3>2, <4>2 DEF Away
      <4>3. CASE u # run[c] BY <2>3, <2>5, <3>1, <4>1, <4>3
      <4>4. QED BY <4>2, <4>3
    <3>4. QED BY <3>3
  <2>8. \A u \in Threads : /\ doing'[u] = "new" => ~trap'[u]
                           /\ doing'[u] = "ready" => (saved'[u] <=> ~trap'[u])
    <3>1. TAKE u \in Threads
    <3>2. u \in Contexts /\ u # c /\ trap'[u] = trap[u] BY <2>2, SpinAssumption DEF Contexts
    <3>3. CASE u = run[c]
      <4>1. doing'[u] = "ready" BY <2>3, <3>2, <3>3
      <4>2. saved'[u] = intena[c] BY <2>4, <3>3
      <4>3. QED BY <2>1, <3>2, <3>3, <4>1, <4>2, Zenon
    <3>4. CASE u # run[c]
      <4>1. doing'[u] = doing[u] BY <2>3, <3>2, <3>4
      <4>2. saved'[u] = saved[u] BY <2>4, <3>4
      <4>3. /\ doing[u] = "new" => ~trap[u]
            /\ doing[u] = "ready" => (saved[u] <=> ~trap[u])
        BY DEF SpinInv, Placed
      <4>4. QED BY <3>2, <4>1, <4>2, <4>3, Zenon
    <3>5. QED BY <3>3, <3>4
  <2>9. ASSUME NEW d \in CPUs
        PROVE  doing'[d] \notin Away /\ (run'[d] # NoOne => doing'[d] = "run" /\ ~trap'[d])
    <3>1. doing'[d] = IF d = c THEN "back" ELSE doing[d]
      BY <2>1, <2>3, SpinAssumption DEF Contexts
    <3>2. QED BY <2>2, <2>5, <3>1 DEF SpinInv, Placed, Away
  <2>10. ASSUME NEW x \in Contexts PROVE lk'[x] # NoOne <=> doing'[x] \in Busy
    <3>1. lk[x] # NoOne <=> doing[x] \in Busy BY DEF SpinInv, Placed
    <3>2. x \in {c, run[c]} => doing[x] = "run" BY <2>1
    <3>3. QED BY <2>2, <2>3, <3>1, <3>2 DEF Busy
  <2>11. QED BY <2>6, <2>7, <2>8, <2>9, <2>10 DEF Placed
<1> USE SpinAssumption DEF SpinInv, SpinTypes, Placed, Busy, Away, LockIds, Contexts
<1>3. CASE Swap(c) BY <1>3, CurrentFacts, AtLock DEF Swap, Goes
<1>4. CASE Record(c) BY <1>4, CurrentFacts, AtLock DEF Record, Goes
<1>5. CASE pop_off(c) BY <1>5, CurrentFacts, AtLock DEF pop_off, Goes, TurnsOn
<1>6. CASE Interrupt(c) BY <1>6, CurrentFacts, AtLock DEF Interrupt
<1>7. CASE TrapReturn(c) BY <1>7, CurrentFacts, AtLock DEF TrapReturn
<1>8. CASE IntrOn(c) BY <1>8, CurrentFacts, AtLock DEF IntrOn
<1>10. ASSUME NEW t \in Threads, Resume(c, t) PROVE Placed'
  <2>1. /\ run[c] = NoOne /\ doing[c] = "run" /\ ~trap[c] /\ c # t
        /\ run' = [run EXCEPT ![c] = t] /\ UNCHANGED <<lk, trap, saved>>
    BY <1>10 DEF Resume
  <2>2. PICK p \in {"back", "first"} : doing' = [doing EXCEPT ![t] = p]
    BY <1>10 DEF Resume, FirstRun, RunAgain, Goes
  <2>3. doing[t] \in {"new", "ready"} BY <1>10 DEF Resume, FirstRun, RunAgain
  <2>4. \A d \in CPUs : run[d] # t BY <2>3
  <2>5. /\ \A d \in CPUs : run'[d] = IF d = c THEN t ELSE run[d]
        /\ \A x \in Contexts : doing'[x] = IF x = t THEN p ELSE doing[x]
    BY <2>1, <2>2
  <2>6. \A d, e \in CPUs : run'[d] = run'[e] /\ run'[d] # NoOne => d = e BY <2>4, <2>5
  <2>7. \A u \in Threads : doing'[u] \in Away <=> \A d \in CPUs : run'[d] # u
    <3>1. TAKE u \in Threads
    <3>2. CASE u = t BY <2>5, <3>2
    <3>3. CASE u # t BY <2>1, <2>5, <3>3
    <3>4. QED BY <3>2, <3>3
  <2>8. \A u \in Threads : /\ doing'[u] = "new" => ~trap'[u]
                           /\ doing'[u] = "ready" => (saved'[u] <=> ~trap'[u])
    <3>1. TAKE u \in Threads
    <3>2. doing'[u] \in Away => doing'[u] = doing[u] BY <2>5
    <3>3. /\ doing[u] = "new" => ~trap[u]
          /\ doing[u] = "ready" => (saved[u] <=> ~trap[u])
      BY DEF SpinInv, Placed
    <3>4. /\ doing'[u] = "new" => doing[u] = "new"
          /\ doing'[u] = "ready" => doing[u] = "ready"
      BY ONLY <3>2 DEF Away
    <3>5. QED BY ONLY <2>1, <3>3, <3>4, Zenon
  <2>9. \A d \in CPUs : doing'[d] \notin Away /\ (run'[d] # NoOne => doing'[d] = "run" /\ ~trap'[d])
    BY <2>1, <2>5
  <2>10. \A x \in Contexts : lk'[x] # NoOne <=> doing'[x] \in Busy BY <2>1, <2>3, <2>5
  <2>11. QED BY <2>6, <2>7, <2>8, <2>9, <2>10
<1>11. QED BY <1>1, <1>2, <1>3, <1>4, <1>5, <1>6, <1>7, <1>8, <1>9, <1>10 DEF Step

(* A step of c leaves the contexts on the other CPUs alone.                   *)
LEMMA OthersStay ==
  ASSUME SpinInv, NEW c \in CPUs, Step(c), NEW d \in CPUs \ {c}
  PROVE  /\ Current(d)' = Current(d) /\ doing'[Current(d)] = doing[Current(d)]
         /\ lk'[Current(d)] = lk[Current(d)] /\ trap'[Current(d)] = trap[Current(d)]
         /\ noff'[d] = noff[d] /\ intr'[d] = intr[d] /\ intena'[d] = intena[d]
<1> DEFINE Stay == /\ Current(d)' = Current(d) /\ doing'[Current(d)] = doing[Current(d)]
                   /\ lk'[Current(d)] = lk[Current(d)] /\ trap'[Current(d)] = trap[Current(d)]
                   /\ noff'[d] = noff[d] /\ intr'[d] = intr[d] /\ intena'[d] = intena[d]
<1>0. /\ Current(d) # Current(c) /\ d # c /\ Current(d) \in Contexts /\ Current(c) \in Contexts
      /\ Current(d) # c
  BY CurrentFacts, SpinAssumption DEF Current
<1>1. ASSUME NEW l \in LockIds, acquire(c, l) PROVE Stay
  BY <1>0, <1>1, CurrentSame DEF acquire, Goes, SaveIntena, SpinInv, SpinTypes
<1>2. ASSUME NEW l \in LockIds, release(c, l) PROVE Stay
  BY <1>0, <1>2, CurrentSame DEF release, Goes, SpinInv, SpinTypes
<1>3. CASE Swap(c) BY <1>0, <1>3, CurrentSame DEF Swap, Goes, SpinInv, SpinTypes
<1>4. CASE Record(c) BY <1>0, <1>4, CurrentSame DEF Record, Goes, SpinInv, SpinTypes
<1>5. CASE pop_off(c) BY <1>0, <1>5, CurrentSame DEF pop_off, Goes, SpinInv, SpinTypes
<1>6. CASE Interrupt(c) BY <1>0, <1>6, CurrentSame DEF Interrupt, SpinInv, SpinTypes
<1>7. CASE TrapReturn(c) BY <1>0, <1>7, CurrentSame DEF TrapReturn, SpinInv, SpinTypes
<1>8. CASE IntrOn(c) BY <1>0, <1>8, CurrentSame DEF IntrOn
<1>9. CASE sched(c)
  <2>1. run' = [run EXCEPT ![c] = NoOne] BY <1>9 DEF sched
  <2>2. Current(d)' = Current(d) BY <2>1, SwitchShape
  <2>3. Current(c) = run[c] BY <1>9, SchedShape
  <2>4. QED BY <1>0, <1>9, <2>2, <2>3 DEF sched, SpinInv, SpinTypes
<1>10. ASSUME NEW t \in Threads, Resume(c, t) PROVE Stay
  <2>1. run' = [run EXCEPT ![c] = t] BY <1>10 DEF Resume
  <2>2. Current(d)' = Current(d) BY <2>1, SwitchShape
  <2>3. Current(d) # t BY <1>10, CurrentFacts DEF Resume, FirstRun, RunAgain, Away
  <2>4. QED BY <1>0, <1>10, <2>2, <2>3 DEF Resume, FirstRun, RunAgain, Goes, Restore, SpinInv, SpinTypes
<1>11. QED BY <1>1, <1>2, <1>3, <1>4, <1>5, <1>6, <1>7, <1>8, <1>9, <1>10 DEF Step

(* Only c takes or frees a lock, and records or clears its own name.          *)
LEMMA OwningPop == ASSUME SpinInv, NEW c \in CPUs, Step(c), pop_off(c) PROVE Owning'
<1> DEFINE m == lk[Current(c)]
<1>1. /\ m \in LockIds /\ owner[m] = c /\ doing[Current(c)] \in {"unlock", "leave"}
      /\ doing' = [doing EXCEPT ![Current(c)] = "run"]
  BY PopShape
<1>2. /\ locked' = [locked EXCEPT ![m] = FALSE]
      /\ owner' = [owner EXCEPT ![m] = NoOne] /\ UNCHANGED <<lcpu, run>>
  BY Zenon DEF pop_off
<1>3. /\ \A l \in LockIds : locked'[l] = IF l = m THEN FALSE ELSE locked[l]
      /\ \A l \in LockIds : owner'[l] = IF l = m THEN NoOne ELSE owner[l]
  BY <1>1, <1>2 DEF SpinInv, SpinTypes
<1>4. Current(c)' = Current(c) /\ doing'[Current(c)] = "run"
  BY <1>1, <1>2, CurrentSame, CurrentFacts DEF SpinInv, SpinTypes
<1>5. lcpu' = lcpu /\ lcpu[m] = NoOne BY <1>1, <1>2 DEF SpinInv, Owning, OwningAt
<1>6. /\ \A l \in LockIds : locked'[l] <=> owner'[l] # NoOne
      /\ \A l \in LockIds : lcpu'[l] # NoOne => owner'[l] = lcpu'[l]
  <2>1. ASSUME NEW l \in LockIds
        PROVE  (locked'[l] <=> owner'[l] # NoOne) /\ (lcpu'[l] # NoOne => owner'[l] = lcpu'[l])
    <3>1. (locked[l] <=> owner[l] # NoOne) /\ (lcpu[l] # NoOne => owner[l] = lcpu[l])
      BY DEF SpinInv, Owning
    <3>2. CASE l = m BY ONLY <1>3, <1>5, <3>1, <3>2, l \in LockIds
    <3>3. CASE l # m
      <4>1. locked'[l] = locked[l] /\ owner'[l] = owner[l] /\ lcpu'[l] = lcpu[l]
        BY ONLY <1>3, <1>5, <3>3, l \in LockIds
      <4>2. QED BY ONLY <3>1, <4>1, Zenon
    <3>4. QED BY ONLY <3>2, <3>3
  <2>2. QED BY ONLY <2>1
<1>7. ASSUME NEW d \in CPUs \ {c} PROVE OwningAt(d)'
  <2>1. OwningAt(d) /\ d # NoOne BY SpinAssumption DEF SpinInv, Owning, OwningAt, Contexts
  <2>2. doing[Current(d)] \in Busy => lk[Current(d)] \in LockIds BY AtLock
  <2>3. /\ doing[Current(d)] \in {"record", "unlock", "leave"} => owner'[lk[Current(d)]] = d
        /\ doing[Current(d)] = "spin" => owner'[lk[Current(d)]] # d
        /\ doing[Current(d)] \in {"unlock", "leave"} => lcpu'[lk[Current(d)]] = NoOne
        /\ \A l \in LockIds : owner'[l] = d =>
             lcpu'[l] = d \/ (lk[Current(d)] = l /\ doing[Current(d)] \in {"record", "unlock", "leave"})
    BY <1>1, <1>3, <1>5, <2>1, <2>2 DEF OwningAt, Busy
  <2>4. /\ Current(d)' = Current(d) /\ doing'[Current(d)] = doing[Current(d)]
        /\ lk'[Current(d)] = lk[Current(d)]
    BY OthersStay
  <2>5. QED BY <2>3, <2>4 DEF OwningAt
<1>8. OwningAt(c)'
  <2>1. \A l \in LockIds : owner'[l] = c => lcpu'[l] = c
    BY <1>1, <1>3, <1>5, SpinAssumption DEF SpinInv, Owning, OwningAt, Contexts
  <2>2. QED BY <1>4, <2>1 DEF OwningAt
<1>9. ASSUME NEW d \in CPUs PROVE OwningAt(d)'
  <2>1. CASE d = c BY ONLY <1>8, <2>1 DEF OwningAt
  <2>2. CASE d # c BY <1>7, <2>2
  <2>3. QED BY <2>1, <2>2
<1>10. \A d \in CPUs : OwningAt(d)' BY <1>9
<1>11. QED BY ONLY <1>6, <1>10, Zenon DEF Owning

LEMMA OwningStep == ASSUME SpinInv, NEW c \in CPUs, Step(c) PROVE Owning'
<1>t. ASSUME NEW t \in Threads, Resume(c, t) PROVE Current(c)' = t
  BY <1>t, SwitchShape, SpinAssumption DEF Resume, LockIds
<1> USE SpinAssumption DEF SpinInv, SpinTypes, Owning, OwningAt, Busy, LockIds, Contexts
<1>0. /\ Current(c) \in Contexts
      /\ \A d \in CPUs \ {c} : /\ Current(d)' = Current(d)
                               /\ doing'[Current(d)] = doing[Current(d)]
                               /\ lk'[Current(d)] = lk[Current(d)]
  BY OthersStay, CurrentFacts
<1>1. ASSUME NEW l \in LockIds, acquire(c, l) PROVE Owning'
  <2>1. owner[l] # c /\ doing[Current(c)] = "run" /\ doing' = [doing EXCEPT ![Current(c)] = "spin"]
    BY <1>1, AcquireShape
  <2>2. lk' = [lk EXCEPT ![Current(c)] = l] /\ UNCHANGED <<locked, lcpu, run, owner>>
    BY <1>1 DEF acquire
  <2>3. QED BY <1>0, <2>1, <2>2, CurrentSame
<1>2. ASSUME NEW l \in LockIds, release(c, l) PROVE Owning'
  <2>1. /\ owner[l] = c /\ doing[Current(c)] \in {"run", "back", "first"} /\ lcpu[l] = c
        /\ doing' = [doing EXCEPT ![Current(c)] = Released(c)] /\ Released(c) \in {"unlock", "leave"}
    BY <1>2, ReleaseShape
  <2>2. /\ lk' = [lk EXCEPT ![Current(c)] = l] /\ lcpu' = [lcpu EXCEPT ![l] = NoOne]
        /\ UNCHANGED <<locked, run, owner>>
    BY <1>2 DEF release
  <2>3. QED BY <1>0, <2>1, <2>2, CurrentSame
<1>3. CASE Swap(c) BY <1>0, <1>3, CurrentSame, AtLock DEF Swap, Goes
<1>4. CASE Record(c) BY <1>0, <1>4, CurrentSame, AtLock DEF Record, Goes
<1>5. CASE pop_off(c) BY ONLY <1>5, SpinInv, Step(c), c \in CPUs, OwningPop
<1>6. CASE Interrupt(c) BY <1>0, <1>6, CurrentSame DEF Interrupt
<1>7. CASE TrapReturn(c) BY <1>0, <1>7, CurrentSame DEF TrapReturn
<1>8. CASE IntrOn(c) BY <1>0, <1>8, CurrentSame DEF IntrOn
<1>9. CASE sched(c)
  <2>1. doing[Current(c)] = "run" /\ doing'[c] = "back" /\ UNCHANGED <<locked, lcpu, owner>>
    BY <1>9, SchedShape DEF sched
  <2>2. Current(c)' = c BY <1>9, SwitchShape DEF sched
  <2>3. QED BY <1>0, <2>1, <2>2
<1>10. ASSUME NEW t \in Threads, Resume(c, t) PROVE Owning'
  <2>1. doing[Current(c)] = "run" /\ doing'[t] \in {"back", "first"} /\ UNCHANGED <<locked, lcpu, owner>>
    BY <1>10, CurrentFacts DEF Resume, FirstRun, RunAgain, Goes
  <2>2. Current(c)' = t BY ONLY <1>t, <1>10, t \in Threads
  <2>3. QED BY <1>0, <2>1, <2>2
<1>11. QED BY <1>1, <1>2, <1>3, <1>4, <1>5, <1>6, <1>7, <1>8, <1>9, <1>10 DEF Step

(* The interrupt enable bit: only of the CPU that steps.                      *)
LEMMA EnablingStep == ASSUME SpinInv, NEW c \in CPUs, Step(c) PROVE Enabling'
<1>0. Current(c) \in Contexts BY CurrentFacts
<1>a. \A d \in CPUs : EnablingAt(d) BY DEF SpinInv, Enabling, EnablingAt
<1>b. \A d \in CPUs \ {c} : EnablingAt(d)' BY <1>a, OthersStay DEF EnablingAt, InForkret
<1>c. SUFFICES EnablingAt(c)' BY <1>b DEF Enabling, EnablingAt
<1>1. ASSUME NEW l \in LockIds, acquire(c, l) PROVE EnablingAt(c)'
  <2>1. /\ intr'[c] = FALSE /\ noff'[c] = noff[c] + 1 /\ noff'[c] # 0 /\ trap' = trap
        /\ intena'[c] = (IF noff[c] = 0 THEN intr[c] ELSE intena[c])
    BY <1>1 DEF acquire, SaveIntena, SpinInv, SpinTypes
  <2>2. Current(c)' = Current(c) BY <1>1, CurrentSame DEF acquire
  <2>3. doing[Current(c)] = "run" /\ doing'[Current(c)] = "spin"
    BY <1>0, <1>1, AcquireShape DEF SpinInv, SpinTypes
  <2>4. QED BY <1>a, <2>1, <2>2, <2>3 DEF EnablingAt, InForkret
<1>2. ASSUME NEW l \in LockIds, release(c, l) PROVE EnablingAt(c)'
  <2>1. Current(c)' = Current(c) BY <1>2, CurrentSame DEF release
  <2>2. doing'[Current(c)] = Released(c) BY <1>0, <1>2, ReleaseShape DEF SpinInv, SpinTypes
  <2>3. doing[Current(c)] \in {"run", "back", "first"} BY <1>2, ReleaseShape
  <2>4. InForkret(c)' <=> InForkret(c) BY <2>1, <2>2, <2>3 DEF InForkret, Released
  <2>5. UNCHANGED <<intr, noff, intena, trap>> BY <1>2 DEF release
  <2>6. QED BY <1>a, <2>1, <2>4, <2>5 DEF EnablingAt
<1>3. CASE Swap(c)
  <2>1. /\ Current(c)' = Current(c) /\ doing[Current(c)] = "spin" /\ doing'[Current(c)] = "record"
        /\ UNCHANGED <<intr, noff, intena, trap>>
    BY <1>0, <1>3, CurrentSame DEF Swap, Goes, SpinInv, SpinTypes
  <2>2. QED BY <1>a, <2>1 DEF EnablingAt, InForkret
<1>4. CASE Record(c)
  <2>1. /\ Current(c)' = Current(c) /\ doing[Current(c)] = "record" /\ doing'[Current(c)] = "run"
        /\ UNCHANGED <<intr, noff, intena, trap>>
    BY <1>0, <1>4, CurrentSame DEF Record, Goes, SpinInv, SpinTypes
  <2>2. QED BY <1>a, <2>1 DEF EnablingAt, InForkret
<1>5. CASE pop_off(c)
  <2>1. /\ noff[c] \in Nat /\ noff[c] # 0 /\ ~intr[c] BY <1>5, PopShape
  <2>2. intr'[c] <=> TurnsOn(c) \/ usertrapret(c)
    <3>1. intr' = [intr EXCEPT ![c] = intr[c] \/ TurnsOn(c) \/ usertrapret(c)] BY <1>5, Zenon DEF pop_off
    <3>2. QED BY <2>1, <3>1 DEF SpinInv, SpinTypes
  <2>3. noff'[c] = noff[c] - 1 /\ trap' = trap /\ intena' = intena
    BY <1>5 DEF pop_off, SpinInv, SpinTypes
  <2>4. Current(c)' = Current(c) BY <1>5, CurrentSame DEF pop_off
  <2>5. doing'[Current(c)] = "run" BY <1>0, <1>5, PopShape DEF SpinInv, SpinTypes
  <2>6. ~InForkret(c)' BY <2>4, <2>5 DEF InForkret
  <2>7. CASE InForkret(c)
    <3>1. usertrapret(c) BY <1>5, <2>7, PopShape DEF usertrapret, InForkret
    <3>2. intr'[c] /\ noff'[c] = 0 /\ ~trap'[Current(c)] BY <1>a, <2>2, <2>3, <2>7, <3>1 DEF EnablingAt
    <3>3. QED BY ONLY <2>4, <2>6, <3>2, Zenon DEF EnablingAt
  <2>8. CASE ~InForkret(c)
    <3>1. intr'[c] <=> TurnsOn(c) BY <2>2, <2>8 DEF usertrapret, InForkret
    <3>2. QED BY <1>a, <2>1, <2>3, <2>4, <2>6, <2>8, <3>1 DEF EnablingAt, TurnsOn
  <2>9. QED BY <2>7, <2>8
<1>6. CASE Interrupt(c)
  <2>1. intr[c] /\ noff[c] = 0 BY <1>a, <1>6 DEF Interrupt, EnablingAt
  <2>2. QED BY <1>0, <2>1, <1>6, CurrentSame DEF Interrupt, EnablingAt, InForkret, SpinInv, SpinTypes
<1>7. CASE TrapReturn(c)
  <2>1. doing[Current(c)] = "run" /\ Owned(c) = {} BY <1>7 DEF TrapReturn
  <2>2. noff[c] = 0 BY <2>1, Counted DEF Spinning
  <2>3. QED BY <1>0, <2>2, <1>7, CurrentSame DEF TrapReturn, EnablingAt, InForkret, SpinInv, SpinTypes
<1>8. CASE IntrOn(c)
  <2>1. Current(c) = c /\ doing[c] = "run" /\ Owned(c) = {} /\ ~trap[c] BY <1>8 DEF IntrOn, Current
  <2>2. noff[c] = 0 BY <2>1, Counted DEF Spinning
  <2>3. QED BY <2>1, <2>2, <1>8, CurrentSame, SpinAssumption
            DEF IntrOn, EnablingAt, InForkret, SpinInv, SpinTypes
<1>9. CASE sched(c)
  <2>1. noff[c] = 1 /\ ~intr[c] /\ ~trap[c] BY <1>9, SchedShape
  <2>2. UNCHANGED <<intr, noff, intena, trap>> BY <1>9 DEF sched
  <2>3. Current(c)' = c BY <1>9, SwitchShape DEF sched
  <2>4. doing'[c] = "back" BY <1>9, SchedShape, SpinAssumption DEF SpinInv, SpinTypes, Contexts
  <2>5. QED BY <2>1, <2>2, <2>3, <2>4, SpinAssumption DEF EnablingAt, InForkret
<1>10. ASSUME NEW t \in Threads, Resume(c, t) PROVE EnablingAt(c)'
  <2>1. Owned(c) = {t} /\ Current(c) = c /\ doing[c] = "run" BY <1>10 DEF Resume, Current
  <2>2. noff[c] = 1
    <3>1. Spinning(c) = 0 BY <2>1 DEF Spinning
    <3>2. noff[c] = 1 + Spinning(c) BY <2>1, Counted
    <3>3. QED BY ONLY <3>1, <3>2
  <2>3. ~intr[c] BY <1>a, <2>2 DEF EnablingAt
  <2>4. UNCHANGED <<intr, noff, trap>> BY <1>10 DEF Resume
  <2>5. Current(c)' = t BY <1>10, SwitchShape, SpinAssumption DEF Resume, LockIds
  <2>6. CASE FirstRun(c, t)
    <3>1. doing'[t] = "first" BY <2>6 DEF FirstRun, Goes, SpinInv, SpinTypes, Contexts
    <3>2. ~trap[t]
      <4>1. doing[t] = "new" BY <2>6 DEF FirstRun
      <4>2. doing[t] = "new" => ~trap[t] BY DEF SpinInv, Placed
      <4>3. QED BY ONLY <4>1, <4>2
    <3>3. QED BY <2>2, <2>3, <2>4, <2>5, <3>1, <3>2 DEF EnablingAt, InForkret
  <2>7. CASE RunAgain(c, t)
    <3>1. doing'[t] = "back" /\ intena'[c] = saved[t]
      BY <2>7 DEF RunAgain, Goes, Restore, SpinInv, SpinTypes, Contexts
    <3>2. saved[t] <=> ~trap[t]
      <4>1. doing[t] = "ready" BY <2>7 DEF RunAgain
      <4>2. doing[t] = "ready" => (saved[t] <=> ~trap[t]) BY DEF SpinInv, Placed
      <4>3. QED BY ONLY <4>1, <4>2, Zenon
    <3>3. QED BY <2>2, <2>3, <2>4, <2>5, <3>1, <3>2 DEF EnablingAt, InForkret
  <2>8. QED BY <1>10, <2>6, <2>7 DEF Resume
<1>11. QED BY <1>1, <1>2, <1>3, <1>4, <1>5, <1>6, <1>7, <1>8, <1>9, <1>10 DEF Step

(* The count of locks: what a step does to Owned(c) and to Spinning(c).       *)
CountedAt(c) == IsFiniteSet(Owned(c)) /\ noff[c] = Cardinality(Owned(c)) + Spinning(c)

LEMMA SameCount ==
  ASSUME SpinInv, NEW c \in CPUs, owner' = owner,
         noff'[c] \in Nat, noff'[c] + Spinning(c) = noff[c] + Spinning(c)'
  PROVE  CountedAt(c)'
<1>1. Owned(c)' = Owned(c) BY DEF Owned
<1>2. CountedAt(c) BY DEF SpinInv, Counting, CountedAt
<1>3. Spinning(c) \in Nat /\ Spinning(c)' \in Nat BY DEF Spinning
<1>4. Cardinality(Owned(c)) \in Nat BY <1>2, FS_CardinalityType DEF CountedAt
<1>5. QED BY <1>1, <1>2, <1>3, <1>4 DEF CountedAt, SpinInv, SpinTypes

LEMMA CountingStep == ASSUME SpinInv, NEW c \in CPUs, Step(c) PROVE Counting'
<1>0. Current(c) \in Contexts BY CurrentFacts
<1>a. \A d \in CPUs : CountedAt(d) BY DEF SpinInv, Counting, CountedAt
<1>b. noff[c] \in Nat BY DEF SpinInv, SpinTypes
<1>c. ASSUME NEW d \in CPUs \ {c} PROVE CountedAt(d)'
  <2>1. Spinning(d)' = Spinning(d) /\ noff'[d] = noff[d] BY OthersStay DEF Spinning
  <2>2. ASSUME owner' = owner PROVE CountedAt(d)' BY <1>a, <2>1, <2>2 DEF CountedAt, Owned
  <2>3. ASSUME Swap(c) PROVE Owned(d)' = Owned(d)
    <3>1. lk[Current(c)] \in LockIds => owner[lk[Current(c)]] # d
      BY <2>3, SpinAssumption DEF Swap, SpinInv, Owning, OwningAt, Contexts
    <3>2. QED BY <2>3, <3>1 DEF Swap, Owned, SpinInv, SpinTypes
  <2>4. ASSUME pop_off(c) PROVE Owned(d)' = Owned(d)
    <3>1. owner[lk[Current(c)]] = c BY <2>4, PopShape
    <3>2. QED BY <2>4, <3>1, SpinAssumption DEF pop_off, Owned, SpinInv, SpinTypes, Contexts
  <2>5. owner' = owner \/ Swap(c) \/ pop_off(c)
    BY DEF Step, acquire, release, Record, Interrupt, TrapReturn, IntrOn, sched, Resume
  <2>6. QED BY <1>a, <2>1, <2>2, <2>3, <2>4, <2>5 DEF CountedAt
<1>d. SUFFICES CountedAt(c)' BY <1>c DEF Counting, CountedAt
<1>1. ASSUME NEW l \in LockIds, acquire(c, l) PROVE CountedAt(c)'
  <2>1. /\ doing[Current(c)] = "run" /\ doing' = [doing EXCEPT ![Current(c)] = "spin"]
    BY <1>1, AcquireShape
  <2>2. Current(c)' = Current(c) BY <1>1, CurrentSame DEF acquire
  <2>3. Spinning(c) = 0 /\ Spinning(c)' = 1 BY <1>0, <2>1, <2>2 DEF Spinning, SpinInv, SpinTypes
  <2>4. owner' = owner /\ noff'[c] = noff[c] + 1 BY <1>1 DEF acquire, SpinInv, SpinTypes
  <2>5. QED BY <1>b, <2>3, <2>4, SameCount
<1>2. ASSUME NEW l \in LockIds, release(c, l) PROVE CountedAt(c)'
  <2>1. /\ doing[Current(c)] \in {"run", "back", "first"} /\ Released(c) \in {"unlock", "leave"}
        /\ doing' = [doing EXCEPT ![Current(c)] = Released(c)]
    BY <1>2, ReleaseShape
  <2>2. Current(c)' = Current(c) BY <1>2, CurrentSame DEF release
  <2>3. Spinning(c) = 0 /\ Spinning(c)' = 0 BY <1>0, <2>1, <2>2 DEF Spinning, SpinInv, SpinTypes
  <2>4. QED BY <1>2, <1>b, <2>3, SameCount DEF release
<1>3. CASE Swap(c)
  <2> DEFINE l == lk[Current(c)]
  <2>1. doing[Current(c)] = "spin" /\ l \in LockIds BY <1>3, AtLock DEF Swap, Busy
  <2>2. l \notin Owned(c) BY <1>3, <2>1, SpinAssumption DEF Swap, Owned, SpinInv, Owning, OwningAt, Contexts
  <2>3. Owned(c)' = Owned(c) \cup {l} BY <1>3, <2>1 DEF Swap, Owned, SpinInv, SpinTypes
  <2>4. IsFiniteSet(Owned(c)') /\ Cardinality(Owned(c)') = Cardinality(Owned(c)) + 1
    <3>1. IsFiniteSet(Owned(c)) BY <1>a DEF CountedAt
    <3>2. QED BY ONLY <2>2, <2>3, <3>1, FS_AddElement
  <2>5. Current(c)' = Current(c) BY <1>3, CurrentSame DEF Swap
  <2>6. Spinning(c) = 1 /\ Spinning(c)' = 0
    BY <1>0, <1>3, <2>1, <2>5 DEF Swap, Goes, Spinning, SpinInv, SpinTypes
  <2>7. noff' = noff BY <1>3 DEF Swap
  <2>8. Cardinality(Owned(c)) \in Nat BY <1>a, FS_CardinalityType DEF CountedAt
  <2>9. QED BY <1>a, <2>4, <2>6, <2>7, <2>8 DEF CountedAt
<1>4. CASE Record(c)
  <2>1. Current(c)' = Current(c) BY <1>4, CurrentSame DEF Record
  <2>2. Spinning(c) = 0 /\ Spinning(c)' = 0
    BY <1>0, <1>4, <2>1 DEF Record, Goes, Spinning, SpinInv, SpinTypes
  <2>3. QED BY <1>4, <1>b, <2>2, SameCount DEF Record
<1>5. CASE pop_off(c)
  <2> DEFINE l == lk[Current(c)]
  <2>1. /\ l \in LockIds /\ owner[l] = c /\ doing[Current(c)] \in {"unlock", "leave"}
        /\ doing' = [doing EXCEPT ![Current(c)] = "run"]
    BY <1>5, PopShape
  <2>2. owner' = [owner EXCEPT ![l] = NoOne] /\ noff' = [noff EXCEPT ![c] = noff[c] - 1]
    BY <1>5, Zenon DEF pop_off
  <2>3. l \in Owned(c) /\ Owned(c)' = Owned(c) \ {l}
    BY <2>1, <2>2, SpinAssumption DEF Owned, SpinInv, SpinTypes, Contexts
  <2>4. IsFiniteSet(Owned(c)') /\ Cardinality(Owned(c)') = Cardinality(Owned(c)) - 1
    BY <1>a, <2>3, FS_RemoveElement DEF CountedAt
  <2>5. Current(c)' = Current(c) BY <1>5, CurrentSame DEF pop_off
  <2>6. Spinning(c) = 0 /\ Spinning(c)' = 0
    BY <1>0, <2>1, <2>5 DEF Spinning, SpinInv, SpinTypes
  <2>7. noff'[c] = noff[c] - 1 BY <2>2 DEF SpinInv, SpinTypes
  <2>8. Cardinality(Owned(c)) \in Nat BY <1>a, FS_CardinalityType DEF CountedAt
  <2>9. QED BY <1>a, <2>4, <2>6, <2>7, <2>8 DEF CountedAt
<1>6. CASE Interrupt(c) BY <1>6, <1>b, CurrentSame, SameCount DEF Interrupt, Spinning
<1>7. CASE TrapReturn(c) BY <1>7, <1>b, CurrentSame, SameCount DEF TrapReturn, Spinning
<1>8. CASE IntrOn(c) BY <1>8, <1>b, CurrentSame, SameCount DEF IntrOn, Spinning
<1>9. CASE sched(c)
  <2>1. doing[Current(c)] = "run" /\ doing'[c] = "back" BY <1>9, SchedShape, <1>0 DEF SpinInv, SpinTypes, Contexts
  <2>2. Current(c)' = c BY <1>9, SwitchShape DEF sched
  <2>3. QED BY <1>9, <1>b, <2>1, <2>2, SameCount DEF sched, Spinning
<1>10. ASSUME NEW t \in Threads, Resume(c, t) PROVE CountedAt(c)'
  <2>1. doing[Current(c)] = "run" /\ doing'[t] \in {"back", "first"}
    BY <1>10 DEF Resume, FirstRun, RunAgain, Goes, Current, SpinInv, SpinTypes, Contexts
  <2>2. Current(c)' = t BY <1>10, SwitchShape, SpinAssumption DEF Resume, LockIds
  <2>3. QED BY <1>10, <1>b, <2>1, <2>2, SameCount DEF Resume, Spinning
<1>11. QED BY <1>1, <1>2, <1>3, <1>4, <1>5, <1>6, <1>7, <1>8, <1>9, <1>10 DEF Step

-----------------------------------------------------------------------------
(* The invariant holds first, and every step keeps it.                        *)
LEMMA SpinInvInit == SpinInit => SpinInv
<1> SUFFICES ASSUME SpinInit PROVE SpinInv OBVIOUS
<1>1. \A c \in CPUs : Current(c) = c /\ c \notin Threads /\ c # NoOne
  BY SpinAssumption DEF SpinInit, Current, Contexts
<1>2. SpinTypes BY DEF SpinInit, SpinTypes, Busy, Contexts
<1>3. Placed BY <1>1, SpinAssumption DEF SpinInit, Placed, Busy, Away, Contexts, LockIds
<1>4. Owning BY <1>1, SpinAssumption DEF SpinInit, Owning, OwningAt, Contexts
<1>5. \A c \in CPUs : Owned(c) = {} /\ Spinning(c) = 0
  BY <1>1 DEF SpinInit, Owned, Spinning, Contexts
<1>6. Counting
  <2>1. \A c \in CPUs : noff[c] = 0 BY DEF SpinInit
  <2>2. QED BY <1>5, <2>1, FS_EmptySet DEF Counting
<1>7. Enabling BY <1>1 DEF SpinInit, Enabling, EnablingAt, InForkret, Contexts
<1>8. QED BY <1>2, <1>3, <1>4, <1>6, <1>7 DEF SpinInv

LEMMA SpinInvInductive == SpinInv /\ [SpinNext]_spinVars => SpinInv'
<1> SUFFICES ASSUME SpinInv, [SpinNext]_spinVars PROVE SpinInv' OBVIOUS
<1>1. ASSUME NEW c \in CPUs, Step(c) PROVE SpinInv'
  BY <1>1, TypesStep, PlacedStep, OwningStep, CountingStep, EnablingStep DEF SpinInv
<1>2. CASE UNCHANGED spinVars
  BY <1>2 DEF spinVars, SpinInv, SpinTypes, Placed, Away, Owning, OwningAt, Counting,
             Enabling, EnablingAt, InForkret, Owned, Spinning, Current
<1>3. CASE SpinNext BY <1>1, <1>3 DEF SpinNext, Step
<1>4. QED BY <1>2, <1>3

(* What the run checks follows.                                               *)
LEMMA SpinInvImplies == SpinInv => SpinlocksRight
<1> SUFFICES ASSUME SpinInv PROVE SpinlocksRight OBVIOUS
<1>1. NeverPanics BY DEF SpinInv, SpinTypes, Busy, NeverPanics
<1>2. HoldingRight BY AtLock DEF HoldingRight
<1>3. ASSUME NEW c \in CPUs
      PROVE  /\ noff[c] = Cardinality(Owned(c)) + (IF doing[Current(c)] = "spin" THEN 1 ELSE 0)
             /\ intr[c] => noff[c] = 0 /\ ~trap[Current(c)]
             /\ Current(c) \in Threads /\ noff[c] = 0 => intr[c] = ~trap[Current(c)]
  <2>1. intr[c] \in BOOLEAN /\ trap[Current(c)] \in BOOLEAN
    BY CurrentFacts DEF SpinInv, SpinTypes
  <2>2. Current(c) \in Threads /\ noff[c] = 0 => (intr[c] <=> ~trap[Current(c)])
    BY DEF SpinInv, Enabling, EnablingAt
  <2>3. QED BY <2>1, <2>2 DEF SpinInv, Counting, Enabling, EnablingAt, Spinning
<1>4. InterruptsRight BY <1>3 DEF InterruptsRight
<1>5. QED BY <1>1, <1>2, <1>4 DEF SpinlocksRight

(* No step of a kernel that respects the lock order panics in acquire(),      *)
(* release(), pop_off() or sched(); holding() never lies; and interrupts are  *)
(* off exactly while they must be (spinlock.c:22-110, proc.c sched()).        *)
THEOREM SpinlocksRightAlways == SpinSpec => []SpinlocksRight
<1>1. SpinInit => SpinInv BY SpinInvInit
<1>2. SpinInv /\ [SpinNext]_spinVars => SpinInv' BY SpinInvInductive
<1>3. SpinInv => SpinlocksRight BY SpinInvImplies
<1>4. QED BY <1>1, <1>2, <1>3, PTL DEF SpinSpec

(* Mutual exclusion: one CPU at most is between the swap of acquire() and the *)
(* release of a lock, and it has interrupts off all the while.                *)
THEOREM MutualExclusion ==
  SpinSpec => [](\A c \in CPUs, l \in LockIds :
                   holding(c, l) => ~intr[c] /\ (\A d \in CPUs : holding(d, l) => d = c))
<1> DEFINE Excl == \A c \in CPUs, l \in LockIds :
                     holding(c, l) => ~intr[c] /\ (\A d \in CPUs : holding(d, l) => d = c)
<1>1. SpinInit => SpinInv BY SpinInvInit
<1>2. SpinInv /\ [SpinNext]_spinVars => SpinInv' BY SpinInvInductive
<1>3. SpinInv => Excl
  <2> SUFFICES ASSUME SpinInv, NEW c \in CPUs, NEW l \in LockIds, holding(c, l)
               PROVE  ~intr[c] /\ (\A d \in CPUs : holding(d, l) => d = c)
    OBVIOUS
  <2>1. owner[l] = c BY AtLock
  <2>2. noff[c] # 0 BY <2>1, Counted
  <2>3. ~intr[c] BY <2>2 DEF SpinInv, Enabling, EnablingAt
  <2>4. QED BY <2>1, <2>3, AtLock
<1>4. QED BY <1>1, <1>2, <1>3, PTL DEF SpinSpec

-----------------------------------------------------------------------------
(* Who has a process: the CPU that runs it, which alone holds p->lock over a  *)
(* switch.                                                                    *)
Owners ==
  /\ \A p \in Procs : plock[p] # NoCPU => proc[plock[p]] = p
  /\ \A c \in Cores : proc[c] # 0 =>
       /\ scan[c] = proc[c]
       /\ plock[proc[c]] # c => plock[proc[c]] = NoCPU /\ state[proc[c]] = "RUNNING"
  /\ \A c, d \in Cores : proc[c] = proc[d] /\ proc[c] # 0 => c = d

(* s lies on the way from q round the table to p.                             *)
Between(q, s, p) == IF q < p THEN q <= s /\ s <= p ELSE q <= s \/ s <= p

(* A CPU that has picked q while p waited is on its way from q to p, and will *)
(* not pass p by.                                                             *)
OnTheWay(p, q, c) ==
  /\ passed[p][q][c] \in {0, 1}
  /\ passed[p][q][c] = 1 =>
       /\ q # p /\ Between(q, scan[c], p)
       /\ scan[c] = q => proc[c] = q
       /\ scan[c] = p => proc[c] = 0

SchedTypes ==
  /\ state \in [Procs -> {"RUNNABLE", "RUNNING", "out"}]
  /\ plock \in [Procs -> Cores \cup {NoCPU}]
  /\ scan \in [Cores -> Procs] /\ proc \in [Cores -> {0} \cup Procs]
  /\ passed \in [Procs -> [Procs -> [Cores -> Nat]]]

Waits ==
  \A p \in Procs : IF state[p] = "RUNNABLE"
                   THEN \A q \in Procs, c \in Cores : OnTheWay(p, q, c)
                   ELSE passed[p] = NoneYet

SchedInv == SchedTypes /\ Owners /\ Waits

LEMMA SlotFacts ==
  ASSUME NEW s \in Procs
  PROVE  Slot(s) \in Procs /\ Slot(s) = IF s = NPROC THEN 1 ELSE s + 1
<1> USE SchedAssumption DEF Procs
<1>1. s % NPROC = IF s = NPROC THEN 0 ELSE s
  <2>1. CASE s = NPROC BY <2>1
  <2>2. CASE s # NPROC BY <2>2
  <2>3. QED BY <2>1, <2>2
<1>2. QED BY <1>1 DEF Slot

(* The step to the next slot brings a CPU nearer to p, and never back to q.   *)
LEMMA Nearer ==
  ASSUME NEW p \in Procs, NEW q \in Procs, NEW s \in Procs, q # p, s # p, Between(q, s, p)
  PROVE  Between(q, Slot(s), p) /\ Slot(s) # q
BY SlotFacts, SchedAssumption DEF Between, Procs

LEMMA NoneYetFacts ==
  NoneYet \in [Procs -> [Cores -> Nat]] /\ \A q \in Procs, c \in Cores : NoneYet[q][c] = 0
BY DEF NoneYet

(* The ghost does not change, nor who waits but for a process that was not    *)
(* waiting before, and CPU c keeps its place or goes on from a slot whose     *)
(* process does not wait.                                                     *)
LEMMA WaitsFrame ==
  ASSUME SchedInv, passed' = passed,
         \A p \in Procs : state[p] = "RUNNABLE" => state'[p] = "RUNNABLE",
         \A c \in Cores :
           \/ scan'[c] = scan[c] /\ proc'[c] = proc[c]
           \/ /\ scan'[c] = Slot(scan[c]) /\ proc'[c] = 0
              /\ state[scan[c]] # "RUNNABLE" \/ proc[c] # 0
  PROVE  Waits'
<1> USE DEF SchedInv
<1>1. ASSUME NEW p \in Procs, state'[p] # "RUNNABLE" PROVE passed'[p] = NoneYet
  BY <1>1 DEF Waits
<1>2. ASSUME NEW p \in Procs, state'[p] = "RUNNABLE", state[p] # "RUNNABLE",
             NEW q \in Procs, NEW c \in Cores
      PROVE  OnTheWay(p, q, c)'
  <2>1. passed'[p][q][c] = 0 BY <1>2, NoneYetFacts DEF Waits
  <2>2. QED BY <2>1 DEF OnTheWay
<1>3. ASSUME NEW p \in Procs, state[p] = "RUNNABLE", NEW q \in Procs, NEW c \in Cores
      PROVE  OnTheWay(p, q, c)'
  <2>1. OnTheWay(p, q, c) BY <1>3 DEF Waits
  <2>2. passed'[p][q][c] = passed[p][q][c] OBVIOUS
  <2>3. CASE passed[p][q][c] # 1 BY <2>1, <2>2, <2>3 DEF OnTheWay
  <2>4. CASE passed[p][q][c] = 1
    <3>1. /\ q # p /\ Between(q, scan[c], p) /\ (scan[c] = q => proc[c] = q)
          /\ (scan[c] = p => proc[c] = 0) /\ scan[c] \in Procs
      BY <2>1, <2>4 DEF OnTheWay, SchedTypes
    <3>2. CASE scan'[c] = scan[c] /\ proc'[c] = proc[c]
      BY <2>1, <2>2, <3>2 DEF OnTheWay, Between
    <3>3. CASE /\ scan'[c] = Slot(scan[c]) /\ proc'[c] = 0
               /\ state[scan[c]] # "RUNNABLE" \/ proc[c] # 0
      <4>1. scan[c] # p BY <1>3, <3>1, <3>3
      <4>2. Between(q, scan'[c], p) /\ scan'[c] # q BY <3>1, <3>3, <4>1, Nearer
      <4>3. QED BY <2>2, <2>4, <3>1, <3>3, <4>2 DEF OnTheWay, Between
    <3>4. QED BY <3>2, <3>3
  <2>5. QED BY <2>3, <2>4
<1>4. QED BY <1>1, <1>2, <1>3 DEF Waits

LEMMA LeaveAloneStep ==
  ASSUME SchedInv, NEW c \in Cores, LeaveAlone(c) PROVE SchedInv'
<1> USE SchedAssumption DEF SchedInv
<1>1. /\ proc[c] = 0 /\ state[scan[c]] # "RUNNABLE" /\ scan[c] \in Procs
      /\ scan' = [scan EXCEPT ![c] = Slot(scan[c])] /\ UNCHANGED <<state, plock, proc, passed>>
  BY DEF LeaveAlone, SchedTypes
<1>2. SchedTypes' BY <1>1, SlotFacts DEF SchedTypes
<1>3. Owners' BY <1>1 DEF Owners, SchedTypes
<1>4. Waits' BY <1>1, WaitsFrame DEF SchedTypes
<1>5. QED BY <1>2, <1>3, <1>4

(* The only step that changes the ghost: nobody was counted twice, because a  *)
(* CPU on its way from q to p does not find itself at q again.                *)
LEMMA PickStep ==
  ASSUME SchedInv, NEW c \in Cores, Pick(c) PROVE SchedInv'
<1> USE SchedAssumption DEF SchedInv
<1>1. PICK q \in Procs : q = scan[c] BY DEF SchedTypes
<1>2. /\ proc[c] = 0 /\ plock[q] = NoCPU /\ state[q] = "RUNNABLE"
      /\ state' = [state EXCEPT ![q] = "RUNNING"] /\ plock' = [plock EXCEPT ![q] = c]
      /\ proc' = [proc EXCEPT ![c] = q] /\ scan' = scan
      /\ passed' = [p \in Procs |->
           IF p # q /\ state[p] = "RUNNABLE" THEN [passed[p] EXCEPT ![q][c] = @ + 1] ELSE NoneYet]
  BY <1>1 DEF Pick
<1>3. SchedTypes'
  <2>1. ASSUME NEW p \in Procs
        PROVE  [passed[p] EXCEPT ![q][c] = @ + 1] \in [Procs -> [Cores -> Nat]]
    <3>1. passed[p] \in [Procs -> [Cores -> Nat]] BY DEF SchedTypes
    <3>2. QED BY <3>1
  <2>2. passed' \in [Procs -> [Procs -> [Cores -> Nat]]] BY <1>2, <2>1, NoneYetFacts
  <2>3. QED BY <1>2, <2>2 DEF SchedTypes
<1>4. q # 0 BY DEF Procs
<1>5. \A d \in Cores : proc[d] # q BY <1>2, <1>4 DEF Owners
<1>6. Owners'
  <2>1. \A p \in Procs : plock'[p] # NoCPU => proc'[plock'[p]] = p
    <3>1. ASSUME NEW p \in Procs, plock'[p] # NoCPU PROVE proc'[plock'[p]] = p
      <4>1. CASE p = q BY <1>2, <4>1 DEF SchedTypes
      <4>2. CASE p # q
        <5>1. plock'[p] = plock[p] /\ plock[p] \in Cores BY <1>2, <3>1, <4>2 DEF SchedTypes
        <5>2. proc[plock[p]] = p BY <3>1, <5>1 DEF Owners
        <5>3. plock[p] # c BY <1>2, <5>2 DEF Procs
        <5>4. QED BY <1>2, <5>1, <5>2, <5>3 DEF SchedTypes
      <4>3. QED BY <4>1, <4>2
    <3>2. QED BY <3>1
  <2>2. ASSUME NEW d \in Cores, proc'[d] # 0
        PROVE  /\ scan'[d] = proc'[d]
               /\ plock'[proc'[d]] # d =>
                    plock'[proc'[d]] = NoCPU /\ state'[proc'[d]] = "RUNNING"
    <3>1. CASE d = c BY <1>1, <1>2, <3>1 DEF SchedTypes
    <3>2. CASE d # c
      <4>1. proc'[d] = proc[d] /\ proc[d] # q /\ proc[d] \in Procs
        BY <1>2, <1>5, <2>2, <3>2 DEF SchedTypes
      <4>2. plock'[proc[d]] = plock[proc[d]] /\ state'[proc[d]] = state[proc[d]]
        BY <1>2, <4>1 DEF SchedTypes
      <4>3. QED BY <1>2, <2>2, <4>1, <4>2 DEF Owners
    <3>3. QED BY <3>1, <3>2
  <2>3. \A d, e \in Cores : proc'[d] = proc'[e] /\ proc'[d] # 0 => d = e
    BY <1>2, <1>5 DEF Owners, SchedTypes
  <2>4. QED BY <2>1, <2>2, <2>3 DEF Owners
<1>7. ASSUME NEW p \in Procs, state'[p] # "RUNNABLE" PROVE passed'[p] = NoneYet
  <2>1. p = q \/ state[p] # "RUNNABLE" BY <1>2, <1>7 DEF SchedTypes
  <2>2. QED BY <1>2, <2>1
<1>8. ASSUME NEW p \in Procs, state'[p] = "RUNNABLE", NEW z \in Procs, NEW d \in Cores
      PROVE  OnTheWay(p, z, d)'
  <2>1. p # q /\ state[p] = "RUNNABLE" BY <1>2, <1>8 DEF SchedTypes
  <2>2. passed'[p] = [passed[p] EXCEPT ![q][c] = @ + 1] BY <1>2, <2>1
  <2>3. passed[p] \in [Procs -> [Cores -> Nat]] BY DEF SchedTypes
  <2>4. OnTheWay(p, z, d) BY <2>1 DEF Waits
  <2>5. scan'[d] = scan[d] BY <1>2
  <2>6. CASE d = c /\ z = q
    <3>1. passed'[p][z][d] = passed[p][z][d] + 1 BY <2>2, <2>3, <2>6
    <3>2. passed[p][z][d] = 0 BY <1>1, <1>2, <1>4, <2>4, <2>6 DEF OnTheWay
    <3>3. Between(q, q, p) BY DEF Between, Procs
    <3>4. proc'[d] = q /\ scan[d] = q BY <1>1, <1>2, <2>6 DEF SchedTypes
    <3>5. QED BY <2>1, <2>5, <2>6, <3>1, <3>2, <3>3, <3>4 DEF OnTheWay, Between
  <2>7. CASE d = c /\ z # q
    <3>1. passed'[p][z][d] = passed[p][z][d] BY <2>2, <2>3, <2>7
    <3>2. scan[d] # z /\ scan[d] # p BY <1>1, <2>1, <2>7
    <3>3. QED BY <2>4, <2>5, <3>1, <3>2 DEF OnTheWay, Between
  <2>8. CASE d # c
    <3>1. passed'[p][z][d] = passed[p][z][d] BY <2>2, <2>3, <2>8
    <3>2. proc'[d] = proc[d] BY <1>2, <2>8 DEF SchedTypes
    <3>3. QED BY <2>4, <2>5, <3>1, <3>2 DEF OnTheWay, Between
  <2>9. QED BY <2>6, <2>7, <2>8
<1>9. QED BY <1>3, <1>6, <1>7, <1>8 DEF Waits

LEMMA RunningStep ==
  ASSUME SchedInv, NEW c \in Cores, Running(c) PROVE SchedInv'
<1> USE SchedAssumption DEF SchedInv
<1>1. PICK p \in Procs : p = proc[c] BY DEF Running, SchedTypes
<1>2. /\ plock[p] = c /\ state[p] = "RUNNING" /\ plock' = [plock EXCEPT ![p] = NoCPU]
      /\ UNCHANGED <<state, scan, proc, passed>>
  BY <1>1 DEF Running
<1>3. SchedTypes' BY <1>2 DEF SchedTypes
<1>4. Owners'
  <2>1. \A x \in Procs : plock'[x] = IF x = p THEN NoCPU ELSE plock[x]
    BY <1>2 DEF SchedTypes
  <2>2. \A d \in Cores : proc[d] # 0 => proc[d] \in Procs BY DEF SchedTypes
  <2>3. QED BY <1>1, <1>2, <2>1, <2>2 DEF Owners
<1>5. Waits' BY <1>2, WaitsFrame
<1>6. QED BY <1>3, <1>4, <1>5

LEMMA GiveUpStep ==
  ASSUME SchedInv, NEW c \in Cores, GiveUp(c) PROVE SchedInv'
<1> USE SchedAssumption DEF SchedInv
<1>1. PICK p \in Procs : p = proc[c] BY DEF GiveUp, SchedTypes
<1>2. /\ p # 0 /\ plock[p] = NoCPU /\ plock' = [plock EXCEPT ![p] = c]
      /\ UNCHANGED <<scan, proc, passed>>
  BY <1>1 DEF GiveUp
<1>3. PICK s \in {"RUNNABLE", "out"} : state' = [state EXCEPT ![p] = s] BY <1>1 DEF GiveUp
<1>4. state[p] = "RUNNING" BY <1>1, <1>2 DEF Owners
<1>5. SchedTypes' BY <1>2, <1>3 DEF SchedTypes
<1>6. Owners'
  <2>1. \A x \in Procs : /\ plock'[x] = IF x = p THEN c ELSE plock[x]
                         /\ x # p => state'[x] = state[x]
    BY <1>2, <1>3 DEF SchedTypes
  <2>2. \A d \in Cores : proc[d] # 0 => proc[d] \in Procs BY DEF SchedTypes
  <2>3. QED BY <1>1, <1>2, <2>1, <2>2 DEF Owners
<1>7. \A x \in Procs : state[x] = "RUNNABLE" => state'[x] = "RUNNABLE"
  BY <1>3, <1>4 DEF SchedTypes
<1>8. Waits' BY <1>2, <1>7, WaitsFrame
<1>9. QED BY <1>5, <1>6, <1>8

LEMMA BackStep ==
  ASSUME SchedInv, NEW c \in Cores, Back(c) PROVE SchedInv'
<1> USE SchedAssumption DEF SchedInv
<1>1. PICK p \in Procs : p = proc[c] BY DEF Back, SchedTypes
<1>2. /\ p # 0 /\ plock[p] = c /\ proc' = [proc EXCEPT ![c] = 0]
      /\ plock' = [plock EXCEPT ![p] = NoCPU]
      /\ scan' = [scan EXCEPT ![c] = Slot(scan[c])] /\ UNCHANGED <<state, passed>>
  BY <1>1 DEF Back, NextSlot
<1>3. SchedTypes' BY <1>2, SlotFacts DEF SchedTypes
<1>4. Owners'
  <2>1. \A x \in Procs : plock'[x] = IF x = p THEN NoCPU ELSE plock[x]
    BY <1>2 DEF SchedTypes
  <2>2. \A d \in Cores : /\ proc'[d] = IF d = c THEN 0 ELSE proc[d]
                         /\ d # c => scan'[d] = scan[d]
                         /\ proc[d] # 0 => proc[d] \in Procs
    BY <1>2 DEF SchedTypes
  <2>3. ASSUME NEW x \in Procs, plock'[x] # NoCPU PROVE proc'[plock'[x]] = x
    <3>1. x # p /\ plock'[x] = plock[x] /\ plock[x] \in Cores
      BY <2>1, <2>3 DEF SchedTypes
    <3>2. proc[plock[x]] = x BY <2>3, <3>1 DEF Owners
    <3>3. plock[x] # c BY <1>1, <3>1, <3>2
    <3>4. QED BY <2>2, <3>1, <3>2, <3>3
  <2>4. ASSUME NEW d \in Cores, proc'[d] # 0
        PROVE  /\ scan'[d] = proc'[d]
               /\ plock'[proc'[d]] # d =>
                    plock'[proc'[d]] = NoCPU /\ state'[proc'[d]] = "RUNNING"
    <3>1. d # c /\ proc'[d] = proc[d] /\ proc[d] \in Procs BY <2>2, <2>4
    <3>2. proc[d] # p BY <1>1, <1>2, <3>1 DEF Owners
    <3>3. plock'[proc[d]] = plock[proc[d]] BY <2>1, <3>1, <3>2
    <3>4. QED BY <1>2, <2>2, <2>4, <3>1, <3>3 DEF Owners
  <2>5. \A d, e \in Cores : proc'[d] = proc'[e] /\ proc'[d] # 0 => d = e
    BY <2>2 DEF Owners
  <2>6. QED BY <2>3, <2>4, <2>5 DEF Owners
<1>5. Waits' BY <1>1, <1>2, WaitsFrame DEF SchedTypes
<1>6. QED BY <1>3, <1>4, <1>5

LEMMA MadeRunnableStep ==
  ASSUME SchedInv, NEW p \in Procs, MadeRunnable(p) PROVE SchedInv'
<1> USE SchedAssumption DEF SchedInv
<1>1. /\ state[p] = "out" /\ plock[p] = NoCPU /\ state' = [state EXCEPT ![p] = "RUNNABLE"]
      /\ UNCHANGED <<plock, scan, proc, passed>>
  BY DEF MadeRunnable
<1>2. SchedTypes' BY <1>1 DEF SchedTypes
<1>3. Owners'
  <2>1. \A x \in Procs : x # p => state'[x] = state[x] BY <1>1 DEF SchedTypes
  <2>2. \A d \in Cores : proc[d] # 0 => proc[d] \in Procs BY DEF SchedTypes
  <2>3. QED BY <1>1, <2>1, <2>2 DEF Owners
<1>4. Waits' BY <1>1, WaitsFrame DEF SchedTypes
<1>5. QED BY <1>2, <1>3, <1>4

LEMMA SchedInvInductive == SchedInv /\ [SchedNext]_schedVars => SchedInv'
<1>1. ASSUME SchedInv, SchedNext PROVE SchedInv'
  BY <1>1, LeaveAloneStep, PickStep, RunningStep, GiveUpStep, BackStep, MadeRunnableStep
     DEF SchedNext
<1>2. ASSUME SchedInv, UNCHANGED schedVars PROVE SchedInv'
  BY <1>2 DEF schedVars, SchedInv, SchedTypes, Owners, Waits, OnTheWay, Between
<1>3. QED BY <1>1, <1>2

(* scheduler() on any number of CPUs, with any number of processes that come  *)
(* and go: while one waits for a CPU, no CPU gives itself to another one      *)
(* twice.                                                                     *)
THEOREM NobodyOvertakenAlways == SchedSpec => []NobodyOvertaken
<1>1. SchedInit => SchedInv
  <2> SUFFICES ASSUME SchedInit PROVE SchedInv OBVIOUS
  <2> USE SchedAssumption DEF SchedInit
  <2>1. SchedTypes BY NoneYetFacts DEF SchedTypes, Procs
  <2>2. Owners BY DEF Owners
  <2>3. \A p \in Procs, q \in Procs, c \in Cores : passed[p][q][c] = 0 BY NoneYetFacts
  <2>4. Waits BY <2>3 DEF Waits, OnTheWay
  <2>5. QED BY <2>1, <2>2, <2>4 DEF SchedInv
<1>2. SchedInv => NobodyOvertaken BY DEF SchedInv, Waits, OnTheWay, NobodyOvertaken
<1>3. QED BY <1>1, <1>2, SchedInvInductive, PTL DEF SchedSpec

-----------------------------------------------------------------------------
(* The games of ping-pong.                                                    *)
Sems == 0 .. MAX_SEM - 1

Opening == {"open_father", "open_child"}
Unforked == Opening \cup {"fork", "failed"}
Looping == {"ping", "up", "down", "wait"}
AtFather == Unforked \cup Looping \cup {"close_child", "close_father", "done"}
AtChild == {"unborn", "down", "pong", "up", "done"}

PlayerTypes ==
  /\ at \in [Players -> Statements]
  /\ next \in [Games -> Nat] /\ round \in [Players -> Nat]
  /\ father_sem \in [Games -> Sems \cup {NoSem}] /\ child_sem \in [Games -> Sems \cup {NoSem}]
  /\ pings \in [Games -> Nat] /\ pongs \in [Games -> Nat]
  /\ value \in [Sems -> Nat \cup {Kernel!Closed}]
  /\ ret \in [Players -> {Kernel!Pending, Kernel!Failed, Kernel!Done}]
  /\ call \in [Players -> [op : {"none", "open", "close", "up", "down"}, sem : Sems, val : {0}]]

(* What a player asks of the kernel at the statement it is at.                *)
Asks(p) ==
  LET g == p[1] IN
  \/ at[p] \in Opening /\ call[p] = Call("open", next[g])
  \/ at[p] = "up" /\ call[p] = Call("up", Theirs(p))
  \/ at[p] = "down" /\ call[p] = Call("down", Mine(p))
  \/ at[p] = "close_child" /\ call[p] = Call("close", child_sem[g])
  \/ at[p] = "close_father" /\ call[p] = Call("close", father_sem[g])

CallsRight(p) ==
  /\ (call[p] = Kernel!NoCall /\ ret[p] = Kernel!Pending) \/ Asks(p)
  /\ at[p] \notin Opening => ret[p] # Kernel!Failed  \* nobody looks at the result

Took(p) == ret[p] = Kernel!Done

(* The open semaphores of a game: those it has a name for, and the one the    *)
(* call in progress has just opened.                                          *)
Held(g) ==
  LET p == Father(g) IN
  {s \in Sems :
     \/ s = next[g] /\ at[p] \in Opening /\ Took(p)
     \/ s = father_sem[g] /\ at[p] # "done" /\ ~(at[p] = "close_father" /\ Took(p))
     \/ s = child_sem[g] /\ at[p] \notin {"close_father", "done"} /\ ~(at[p] = "close_child" /\ Took(p))}

(* How far a game has come.                                                   *)
Progress(g) ==
  LET p == Father(g)  c == Child(g) IN
  /\ at[p] \in AtFather /\ at[c] \in AtChild
  /\ (at[c] = "unborn") = (at[p] \in Unforked)
  /\ at[p] \notin Unforked \cup Looping => at[c] = "done"
  /\ next[g] <= MAX_SEM /\ (at[p] \in Opening => next[g] < MAX_SEM)
  /\ at[p] = "open_father" => father_sem[g] = NoSem
  /\ at[p] \in Opening => child_sem[g] = NoSem
  /\ at[p] \notin {"open_father", "failed"} => father_sem[g] # NoSem
  /\ at[p] \notin Opening \cup {"failed"} => child_sem[g] # NoSem
  /\ father_sem[g] # NoSem => father_sem[g] # child_sem[g]
  /\ at[p] \in Opening /\ Took(p) => next[g] # father_sem[g]

N(cond) == IF cond THEN 1 ELSE 0

(* One unit goes round: the father has it, or it is in one of the semaphores, *)
(* or the child has it.  Ping is one line ahead while it is on its way to the *)
(* child and until the child has printed.                                     *)
Behind(g) == LET p == Father(g)  c == Child(g) IN
  N(at[p] \in {"ping", "wait"}) + N(at[p] = "down" /\ Took(p)) + value[father_sem[g]]
  + N(at[c] = "up" /\ ~Took(c))
Ahead(g) == LET p == Father(g)  c == Child(g) IN
  N(at[p] = "up" /\ ~Took(p)) + value[child_sem[g]] + N(at[c] = "down" /\ Took(c)) + N(at[c] = "pong")

Tokens(g) ==
  LET p == Father(g) IN
  /\ at[p] \in Looping => Behind(g) + Ahead(g) = 1 /\ pings[g] = pongs[g] + Ahead(g)
  /\ at[p] \in Unforked => pings[g] = 0 /\ pongs[g] = 0 /\ \A s \in Held(g) : value[s] = 0
  /\ at[p] \notin Looping => pings[g] = pongs[g]

Lines(g) ==
  LET p == Father(g)  c == Child(g) IN
  /\ pings[g] = round[p] + N(at[p] \in {"up", "down"}) /\ pongs[g] = round[c] + N(at[c] = "up")
  /\ at[p] \in Unforked => round[p] = 0
  /\ at[p] \in {"ping", "up", "down"} => round[p] < Rounds
  /\ at[p] \in {"wait", "close_child", "close_father", "done"} => round[p] = Rounds
  /\ at[c] = "unborn" => round[c] = 0
  /\ at[c] \in {"down", "pong", "up"} => round[c] < Rounds
  /\ at[c] = "done" => round[c] = Rounds

GameInv(g) ==
  /\ CallsRight(Father(g)) /\ CallsRight(Child(g))
  /\ Progress(g) /\ Tokens(g) /\ Lines(g)

(* The array of the kernel is divided between the games.                      *)
Divided ==
  /\ \A s \in Sems : value[s] # Kernel!Closed <=> \E g \in Games : s \in Held(g)
  /\ \A g, h \in Games : g # h => Held(g) \cap Held(h) = {}

PingPongInv == PlayerTypes /\ (\A g \in Games : GameInv(g)) /\ Divided

-----------------------------------------------------------------------------
LEMMA PlayerFacts ==
  /\ \A g \in Games : /\ Father(g) \in Players /\ Father(g)[1] = g /\ Father(g)[2] = "father"
                      /\ Child(g) \in Players /\ Child(g)[1] = g /\ Child(g)[2] = "child"
  /\ \A g, h \in Games : /\ Father(g) # Child(h)
                         /\ Father(g) = Father(h) => g = h
                         /\ Child(g) = Child(h) => g = h
  /\ \A p \in Players : /\ p[1] \in Games
                        /\ (p[2] = "father" /\ p = Father(p[1])) \/ (p[2] = "child" /\ p = Child(p[1]))
BY DEF Players, Father, Child

(* A step of one game leaves the others as they are.                          *)
Same(h) ==
  LET p == Father(h)  c == Child(h) IN
  /\ at'[p] = at[p] /\ at'[c] = at[c] /\ call'[p] = call[p] /\ call'[c] = call[c]
  /\ ret'[p] = ret[p] /\ ret'[c] = ret[c] /\ round'[p] = round[p] /\ round'[c] = round[c]
  /\ next'[h] = next[h] /\ father_sem'[h] = father_sem[h] /\ child_sem'[h] = child_sem[h]
  /\ pings'[h] = pings[h] /\ pongs'[h] = pongs[h]
Others(g) == \A h \in Games \ {g} : Same(h)

LEMMA Frame ==
  ASSUME PlayerTypes, NEW h \in Games, GameInv(h), Same(h), \A s \in Held(h) : value'[s] = value[s]
  PROVE  Held(h)' = Held(h) /\ GameInv(h)'
<1>1. Held(h)' = Held(h) BY DEF Held, Same, Took
<1>2. CallsRight(Father(h))' /\ CallsRight(Child(h))'
  BY PlayerFacts DEF CallsRight, Asks, Mine, Theirs, Same, GameInv
<1>3. Progress(h)' BY DEF Progress, Took, Same, GameInv
<1>4. Lines(h)' BY DEF Lines, Same, GameInv
<1>5. Tokens(h)'
  <2>1. ASSUME at[Father(h)] \in Looping
        PROVE  value'[father_sem[h]] = value[father_sem[h]] /\ value'[child_sem[h]] = value[child_sem[h]]
    BY <2>1 DEF Held, GameInv, Progress, Looping, Opening, PlayerTypes
  <2>2. (at[Father(h)] \in Looping => Behind(h) + Ahead(h) = 1 /\ pings[h] = pongs[h] + Ahead(h))'
    BY <2>1 DEF Tokens, Behind, Ahead, Took, Same, GameInv
  <2>3. QED BY <1>1, <2>2 DEF Tokens, Same, GameInv
<1>6. QED BY <1>1, <1>2, <1>3, <1>4, <1>5 DEF GameInv

(* The array stays divided when a step of g opens what was closed, closes     *)
(* what it held and leaves the rest alone.                                    *)
LEMMA Combine ==
  ASSUME PingPongInv, NEW g \in Games, PlayerTypes', GameInv(g)', Others(g),
         \A s \in Sems :
           /\ s \notin Held(g) /\ s \notin Held(g)' => value'[s] = value[s]
           /\ s \in Held(g)' /\ s \notin Held(g) => value[s] = Kernel!Closed
           /\ s \in Held(g) \/ s \in Held(g)' => (value'[s] # Kernel!Closed <=> s \in Held(g)')
  PROVE  PingPongInv'
<1>0. \A h \in Games : Held(h) \subseteq Sems /\ Held(h)' \subseteq Sems BY DEF Held, Sems
<1>1. ASSUME NEW h \in Games \ {g} PROVE Held(h)' = Held(h) /\ GameInv(h)'
  <2>1. \A s \in Held(h) : s \in Sems /\ s \notin Held(g) /\ value[s] # Kernel!Closed
    BY <1>0 DEF PingPongInv, Divided
  <2>2. \A s \in Held(h) : value'[s] = value[s] BY <2>1
  <2>3. QED BY <2>2, Frame DEF PingPongInv, Others
<1>2. \A h, k \in Games : h # k => Held(h)' \cap Held(k)' = {}
  <2>1. ASSUME NEW h \in Games \ {g}, NEW s \in Held(h), s \in Held(g)' PROVE FALSE
    BY <1>0, <2>1 DEF PingPongInv, Divided
  <2>2. \A h \in Games \ {g} : Held(h)' \cap Held(g)' = {} BY <1>1, <2>1
  <2>3. QED BY <1>1, <2>2 DEF PingPongInv, Divided
<1>3. ASSUME NEW s \in Sems
      PROVE  value'[s] # Kernel!Closed <=> \E h \in Games : s \in Held(h)'
  <2>1. CASE s \in Held(g) \/ s \in Held(g)'
    <3>1. \A h \in Games \ {g} : s \notin Held(h) BY <2>1 DEF PingPongInv, Divided
    <3>2. QED BY <1>1, <2>1, <3>1
  <2>2. CASE s \notin Held(g) /\ s \notin Held(g)' BY <1>1, <2>2 DEF PingPongInv, Divided
  <2>3. QED BY <2>1, <2>2
<1>4. QED BY <1>1, <1>2, <1>3 DEF PingPongInv, Divided, Sems

LEMMA KeepsHeld ==
  ASSUME PingPongInv, NEW g \in Games, PlayerTypes', GameInv(g)', Others(g), value' = value, Held(g)' = Held(g)
  PROVE  PingPongInv'
<1>1. \A s \in Sems : s \in Held(g) => value[s] # Kernel!Closed BY DEF PingPongInv, Divided
<1>2. QED BY <1>1, Combine

-----------------------------------------------------------------------------
(* A system call is requested: nothing but the call changes.                  *)
LEMMA RequestKeeps ==
  ASSUME PingPongInv, NEW p \in Players, NEW k, Request(p, k),
         k \in [op : {"open", "close", "up", "down"}, sem : Sems, val : {0}],
         call'[p] = k => Asks(p)'
  PROVE  PingPongInv'
<1> DEFINE g == p[1]
<1>1. /\ call[p] = Kernel!NoCall /\ UNCHANGED <<value, at, gameVars>>
      /\ call' = [call EXCEPT ![p] = k] /\ ret' = [ret EXCEPT ![p] = Kernel!Pending]
  <2>1. Kernel!Valid(k) BY DEF Kernel!Valid, Sems
  <2>2. QED BY <2>1 DEF Request, Kernel!Invoke
<1>2. ret[p] = Kernel!Pending
  <2>1. CallsRight(p) BY PlayerFacts DEF PingPongInv, GameInv
  <2>2. QED BY <1>1, <2>1 DEF CallsRight, Asks, Kernel!NoCall, Call
<1>3. ret' = ret BY <1>1, <1>2 DEF PingPongInv, PlayerTypes
<1>4. PlayerTypes' BY <1>1, <1>3 DEF PingPongInv, PlayerTypes, gameVars
<1>5. g \in Games /\ Others(g)
  BY <1>1, <1>3, PlayerFacts DEF Others, Same, gameVars, PingPongInv, PlayerTypes
<1>6. Held(g)' = Held(g) BY <1>1, <1>3 DEF Held, Took, gameVars
<1>7. GameInv(g)'
  <2>1. Progress(g)' /\ Lines(g)' BY <1>1, <1>3, <1>5 DEF Progress, Lines, Took, gameVars, PingPongInv, GameInv
  <2>2. Tokens(g)' BY <1>1, <1>3, <1>5, <1>6 DEF Tokens, Behind, Ahead, Took, gameVars, PingPongInv, GameInv
  <2>3. CallsRight(p)'
    BY <1>1, <1>2, <1>3 DEF CallsRight, PingPongInv, PlayerTypes, Kernel!Pending, Kernel!Failed
  <2>4. ASSUME NEW q \in Players, q # p, CallsRight(q) PROVE CallsRight(q)'
    BY <1>1, <1>3, <2>4 DEF CallsRight, Asks, Mine, Theirs, gameVars, PingPongInv, PlayerTypes
  <2>5. QED BY <1>5, <2>1, <2>2, <2>3, <2>4, PlayerFacts DEF PingPongInv, GameInv
<1>8. QED BY <1>1, <1>4, <1>5, <1>6, <1>7, KeepsHeld

-----------------------------------------------------------------------------
(* A call returns at the statement that made it, and has not failed but for   *)
(* sem_open().                                                                *)
LEMMA Returned ==
  ASSUME PingPongInv, NEW p \in Players, Kernel!Return(p)
  PROVE  /\ call' = [call EXCEPT ![p] = Kernel!NoCall]
         /\ ret' = [ret EXCEPT ![p] = Kernel!Pending] /\ value' = value
         /\ call'[p] = Kernel!NoCall /\ ret'[p] = Kernel!Pending
         /\ \A q \in Players \ {p} : call'[q] = call[q] /\ ret'[q] = ret[q]
         /\ ret[p] = Kernel!Done \/ (ret[p] = Kernel!Failed /\ at[p] \in Opening)
<1>1. CallsRight(p) BY PlayerFacts DEF PingPongInv, GameInv
<1>2. QED BY <1>1 DEF PingPongInv, PlayerTypes, Kernel!Return, CallsRight

LEMMA ReturnTypes ==
  ASSUME PlayerTypes, NEW p \in Players, call' = [call EXCEPT ![p] = Kernel!NoCall],
         ret' = [ret EXCEPT ![p] = Kernel!Pending], value' = value
  PROVE  /\ call' \in [Players -> [op : {"none", "open", "close", "up", "down"}, sem : Sems, val : {0}]]
         /\ ret' \in [Players -> {Kernel!Pending, Kernel!Failed, Kernel!Done}]
         /\ value' \in [Sems -> Nat \cup {Kernel!Closed}]
BY PingPongAssumption DEF PlayerTypes, Kernel!NoCall, Sems

(* Outside of a call nothing is asked, and the child asks nothing before it   *)
(* is there.                                                                  *)
LEMMA Silent ==
  ASSUME PingPongInv, NEW p \in Players, at[p] \notin Opening \cup {"up", "down", "close_child", "close_father"}
  PROVE  call[p] = Kernel!NoCall /\ ret[p] = Kernel!Pending
<1>1. CallsRight(p) BY PlayerFacts DEF PingPongInv, GameInv
<1>2. QED BY <1>1 DEF CallsRight, Asks

LEMMA OpenedKeeps == ASSUME PingPongInv, NEW g \in Games, Opened(g) PROVE PingPongInv'
<1> DEFINE p == Father(g)  c == Child(g)
<1>0. p \in Players /\ c \in Players /\ p # c BY PlayerFacts
<1>1. /\ at[p] \in Opening /\ ret[p] = Kernel!Done /\ Kernel!Return(p)
      /\ UNCHANGED <<round, pings, pongs>> /\ next' = [next EXCEPT ![g] = 0]
  BY DEF Opened, Result, Opening
<1>2. /\ call' = [call EXCEPT ![p] = Kernel!NoCall] /\ ret' = [ret EXCEPT ![p] = Kernel!Pending]
      /\ value' = value /\ call'[p] = Kernel!NoCall /\ ret'[p] = Kernel!Pending
      /\ \A q \in Players \ {p} : call'[q] = call[q] /\ ret'[q] = ret[q]
  BY <1>0, <1>1, Returned
<1>3. Progress(g) /\ Tokens(g) /\ Lines(g) /\ next[g] \in Sems /\ at[c] = "unborn"
  BY <1>1, PingPongAssumption DEF PingPongInv, GameInv, PlayerTypes, Progress, Opening, Unforked, Sems
<1>4. \/ /\ at[p] = "open_father" /\ at' = [at EXCEPT ![p] = "open_child"]
         /\ father_sem' = [father_sem EXCEPT ![g] = next[g]] /\ child_sem' = child_sem
      \/ /\ at[p] = "open_child" /\ at' = [at EXCEPT ![p] = "fork"]
         /\ child_sem' = [child_sem EXCEPT ![g] = next[g]] /\ father_sem' = father_sem
  BY <1>1 DEF Opened, Goto, Opening
<1>5. PlayerTypes'
  <2>1. at' \in [Players -> Statements] BY <1>4 DEF PingPongInv, PlayerTypes, Statements
  <2>2. father_sem' \in [Games -> Sems \cup {NoSem}] /\ child_sem' \in [Games -> Sems \cup {NoSem}]
    BY <1>3, <1>4 DEF PingPongInv, PlayerTypes
  <2>3. QED BY <1>0, <1>1, <1>2, <2>1, <2>2, ReturnTypes DEF PingPongInv, PlayerTypes
<1>6. Others(g) BY <1>0, <1>1, <1>2, <1>4, PlayerFacts DEF Others, Same, PingPongInv, PlayerTypes
<1>7. Held(g)' = Held(g)
  BY <1>0, <1>1, <1>2, <1>3, <1>4 DEF Held, Took, Progress, Opening, PingPongInv, PlayerTypes, NoSem, Sems, Kernel!Pending, Kernel!Done
<1>8. Progress(g)'
  BY <1>0, <1>1, <1>2, <1>3, <1>4, PingPongAssumption
  DEF Progress, Took, Opening, Unforked, Looping, AtFather, AtChild, PingPongInv, PlayerTypes, NoSem, Sems, Kernel!Pending, Kernel!Done
<1>9. Tokens(g)' /\ Lines(g)'
  BY <1>0, <1>1, <1>2, <1>3, <1>4, <1>7
  DEF Tokens, Lines, Opening, Unforked, Looping, PingPongInv, PlayerTypes, N
<1>10. CallsRight(p)' /\ CallsRight(c)'
  <2>1. call[c] = Kernel!NoCall /\ ret[c] = Kernel!Pending BY <1>0, <1>3, Silent DEF Opening
  <2>2. QED BY <1>0, <1>2, <2>1 DEF CallsRight, Kernel!Pending, Kernel!Failed
<1>11. QED BY <1>2, <1>5, <1>6, <1>7, <1>8, <1>9, <1>10, KeepsHeld DEF GameInv

LEMMA TakenKeeps == ASSUME PingPongInv, NEW g \in Games, Taken(g) PROVE PingPongInv'
<1> DEFINE p == Father(g)  c == Child(g)
<1>0. p \in Players /\ c \in Players /\ p # c BY PlayerFacts
<1>1. /\ at[p] \in Opening /\ ret[p] = Kernel!Failed /\ Kernel!Return(p)
      /\ UNCHANGED <<father_sem, child_sem, round, pings, pongs>>
      /\ next' = [next EXCEPT ![g] = next[g] + 1]
      /\ at' = [at EXCEPT ![p] = IF next[g] + 1 < MAX_SEM THEN at[p] ELSE "failed"]
  BY DEF Taken, Result, Opening, Goto
<1>2. /\ call' = [call EXCEPT ![p] = Kernel!NoCall] /\ ret' = [ret EXCEPT ![p] = Kernel!Pending]
      /\ value' = value /\ call'[p] = Kernel!NoCall /\ ret'[p] = Kernel!Pending
      /\ \A q \in Players \ {p} : call'[q] = call[q] /\ ret'[q] = ret[q]
  BY <1>0, <1>1, Returned
<1>3. Progress(g) /\ Tokens(g) /\ Lines(g) /\ next[g] \in Sems /\ at[c] = "unborn"
  BY <1>1, PingPongAssumption DEF PingPongInv, GameInv, PlayerTypes, Progress, Opening, Unforked, Sems
<1>5. PlayerTypes'
  <2>1. at' \in [Players -> Statements] BY <1>0, <1>1 DEF PingPongInv, PlayerTypes, Statements
  <2>2. next' \in [Games -> Nat] BY <1>1, <1>3 DEF PingPongInv, PlayerTypes
  <2>3. QED BY <1>0, <1>1, <1>2, <2>1, <2>2, ReturnTypes DEF PingPongInv, PlayerTypes
<1>6. Others(g) BY <1>0, <1>1, <1>2, PlayerFacts DEF Others, Same, PingPongInv, PlayerTypes
<1>4. at'[p] \in {at[p], "failed"} /\ at'[c] = at[c] /\ next'[g] = next[g] + 1
      /\ (at'[p] # "failed" => next[g] + 1 < MAX_SEM)
  BY <1>0, <1>1 DEF PingPongInv, PlayerTypes, Opening
<1>7. Held(g)' = Held(g)
  BY <1>1, <1>2, <1>3, <1>4 DEF Held, Took, Progress, Opening, PingPongInv, PlayerTypes, NoSem, Sems, Kernel!Pending, Kernel!Failed, Kernel!Done
<1>8. Progress(g)'
  BY <1>1, <1>2, <1>3, <1>4, PingPongAssumption
  DEF Progress, Took, Opening, Unforked, Looping, AtFather, AtChild, Sems, Kernel!Pending, Kernel!Done
<1>9. Tokens(g)' /\ Lines(g)'
  BY <1>1, <1>2, <1>3, <1>4, <1>7 DEF Tokens, Lines, Opening, Unforked, Looping, N
<1>10. CallsRight(p)' /\ CallsRight(c)'
  <2>1. call[c] = Kernel!NoCall /\ ret[c] = Kernel!Pending BY <1>0, <1>3, Silent DEF Opening
  <2>2. QED BY <1>0, <1>2, <2>1 DEF CallsRight, Kernel!Pending, Kernel!Failed
<1>11. QED BY <1>2, <1>5, <1>6, <1>7, <1>8, <1>9, <1>10, KeepsHeld DEF GameInv

(* The child is born: both semaphores are at 0 and the father has the token.  *)
LEMMA ForkKeeps == ASSUME PingPongInv, NEW g \in Games, Fork(g) \/ ForkFails(g) PROVE PingPongInv'
<1> DEFINE p == Father(g)  c == Child(g)
<1>0. p \in Players /\ c \in Players /\ p # c BY PlayerFacts
<1>1. at[p] = "fork" /\ UNCHANGED <<value, call, ret, next, father_sem, child_sem, round, pings, pongs>>
  BY DEF Fork, ForkFails, kernelVars, gameVars
<1>2. /\ \/ at'[p] = "ping" /\ at'[c] = "down"
         \/ at'[p] = "failed" /\ at'[c] = at[c]
      /\ \A q \in Players \ {p, c} : at'[q] = at[q]
      /\ at' \in [Players -> Statements]
  BY <1>0 DEF Fork, ForkFails, Goto, PingPongInv, PlayerTypes, Statements
<1>3. Progress(g) /\ Tokens(g) /\ Lines(g) /\ at[c] = "unborn"
  BY <1>1 DEF PingPongInv, GameInv, PlayerTypes, Progress, Opening, Unforked
<1>4. call[p] = Kernel!NoCall /\ ret[p] = Kernel!Pending /\ call[c] = Kernel!NoCall /\ ret[c] = Kernel!Pending
  BY <1>0, <1>1, <1>3, Silent DEF Opening
<1>5. PlayerTypes' BY <1>1, <1>2 DEF PingPongInv, PlayerTypes
<1>6. Others(g) BY <1>0, <1>1, <1>2, PlayerFacts DEF Others, Same
<1>7. Held(g)' = Held(g) BY <1>1, <1>2 DEF Held, Opening
<1>8. Progress(g)'
  BY <1>1, <1>2, <1>3 DEF Progress, Took, Opening, Unforked, Looping, AtFather, AtChild
<1>9. Lines(g)' BY <1>1, <1>2, <1>3, PingPongAssumption DEF Lines, Opening, Unforked, Looping, N
<1>10. Tokens(g)'
  <2>1. father_sem[g] \in Held(g) /\ child_sem[g] \in Held(g)
    BY <1>1, <1>3 DEF Held, Progress, Opening, PingPongInv, PlayerTypes
  <2>2. value[father_sem[g]] = 0 /\ value[child_sem[g]] = 0 /\ pings[g] = 0 /\ pongs[g] = 0
    BY <1>1, <1>3, <2>1 DEF Tokens, Unforked
  <2>3. QED
    BY <1>1, <1>2, <1>3, <1>4, <1>7, <2>2
    DEF Tokens, Ahead, Behind, Took, N, Unforked, Looping, Opening, Kernel!Pending, Kernel!Done
<1>11. CallsRight(p)' /\ CallsRight(c)'
  BY <1>1, <1>4 DEF CallsRight, Kernel!Pending, Kernel!Failed
<1>12. QED BY <1>1, <1>5, <1>6, <1>7, <1>8, <1>9, <1>10, <1>11, KeepsHeld DEF GameInv

-----------------------------------------------------------------------------
(* In the loops both semaphores are open, and the token is counted.           *)
LEMMA InLoop ==
  ASSUME PingPongInv, NEW g \in Games, at[Father(g)] \in Looping
  PROVE  /\ father_sem[g] \in Held(g) /\ child_sem[g] \in Held(g) /\ father_sem[g] # child_sem[g]
         /\ father_sem[g] \in Sems /\ child_sem[g] \in Sems
         /\ value[father_sem[g]] \in Nat /\ value[child_sem[g]] \in Nat
         /\ Behind(g) \in Nat /\ Ahead(g) \in Nat /\ pings[g] \in Nat /\ pongs[g] \in Nat
         /\ Behind(g) + Ahead(g) = 1 /\ pings[g] = pongs[g] + Ahead(g)
<1>1. Progress(g) /\ Tokens(g) BY DEF PingPongInv, GameInv
<1>2. /\ father_sem[g] \in Sems /\ child_sem[g] \in Sems /\ father_sem[g] # child_sem[g]
      /\ father_sem[g] \in Held(g) /\ child_sem[g] \in Held(g)
  BY <1>1 DEF PingPongInv, PlayerTypes, Progress, Held, Looping, Opening
<1>3. value[father_sem[g]] \in Nat /\ value[child_sem[g]] \in Nat BY <1>2 DEF PingPongInv, PlayerTypes, Divided
<1>4. Behind(g) \in Nat /\ Ahead(g) \in Nat BY <1>3 DEF Behind, Ahead, N
<1>5. QED BY <1>1, <1>2, <1>3, <1>4 DEF PingPongInv, PlayerTypes, Tokens

(* The steps of the loops that make no call.                                  *)
LEMMA PingKeeps == ASSUME PingPongInv, NEW g \in Games, Ping(g) PROVE PingPongInv'
<1> DEFINE p == Father(g)  c == Child(g)
<1>0. p \in Players /\ c \in Players /\ p # c BY PlayerFacts
<1>1. /\ at[p] = "ping" /\ at' = [at EXCEPT ![p] = "up"] /\ pings' = [pings EXCEPT ![g] = pings[g] + 1]
      /\ UNCHANGED <<value, call, ret, next, father_sem, child_sem, round, pongs>>
  BY DEF Ping, Goto, kernelVars
<1>2. at'[p] = "up" /\ at'[c] = at[c] /\ pings'[g] = pings[g] + 1
  BY <1>0, <1>1 DEF PingPongInv, PlayerTypes
<1>3. Progress(g) /\ Tokens(g) /\ Lines(g) /\ CallsRight(c) BY DEF PingPongInv, GameInv
<1>4. call[p] = Kernel!NoCall /\ ret[p] = Kernel!Pending BY <1>0, <1>1, Silent DEF Opening
<1>5. PlayerTypes'
  <2>1. at' \in [Players -> Statements] BY <1>1 DEF PingPongInv, PlayerTypes, Statements
  <2>2. pings' \in [Games -> Nat] BY <1>1 DEF PingPongInv, PlayerTypes
  <2>3. QED BY <1>1, <2>1, <2>2 DEF PingPongInv, PlayerTypes
<1>6. Others(g) BY <1>0, <1>1, PlayerFacts DEF Others, Same, PingPongInv, PlayerTypes
<1>7. Held(g)' = Held(g) BY <1>1, <1>2 DEF Held, Opening
<1>8. Progress(g)'
  BY <1>1, <1>2, <1>3 DEF Progress, Took, Opening, Unforked, Looping, AtFather, AtChild
<1>9. Lines(g)' BY <1>1, <1>2, <1>3 DEF Lines, Opening, Unforked, Looping, N, PingPongInv, PlayerTypes
<1>10. Tokens(g)'
  <2>1. at[p] \in Looping /\ at'[p] \in Looping \ Unforked BY <1>1, <1>2 DEF Looping, Unforked, Opening
  <2>2. Behind(g)' = Behind(g) - 1 /\ Ahead(g)' = Ahead(g) + 1
    BY <1>1, <1>2, <1>4, <2>1, InLoop DEF Ahead, Behind, Took, N, Kernel!Pending, Kernel!Done
  <2>3. QED BY <1>1, <1>2, <2>1, <2>2, InLoop DEF Tokens
<1>11. CallsRight(p)' BY <1>1, <1>4 DEF CallsRight, Kernel!Pending, Kernel!Failed
<1>12. CallsRight(c)' BY <1>0, <1>1, <1>2, <1>3 DEF CallsRight, Asks, Mine, Theirs
<1>13. QED BY <1>1, <1>5, <1>6, <1>7, <1>8, <1>9, <1>10, <1>11, <1>12, KeepsHeld DEF GameInv

LEMMA PongKeeps == ASSUME PingPongInv, NEW g \in Games, Pong(g) PROVE PingPongInv'
<1> DEFINE p == Father(g)  c == Child(g)
<1>0. p \in Players /\ c \in Players /\ p # c BY PlayerFacts
<1>1. /\ at[c] = "pong" /\ at' = [at EXCEPT ![c] = "up"] /\ pongs' = [pongs EXCEPT ![g] = pongs[g] + 1]
      /\ UNCHANGED <<value, call, ret, next, father_sem, child_sem, round, pings>>
  BY DEF Pong, Goto, kernelVars
<1>2. at'[c] = "up" /\ at'[p] = at[p] /\ pongs'[g] = pongs[g] + 1
  BY <1>0, <1>1 DEF PingPongInv, PlayerTypes
<1>3. Progress(g) /\ Tokens(g) /\ Lines(g) /\ CallsRight(p) BY DEF PingPongInv, GameInv
<1>4. call[c] = Kernel!NoCall /\ ret[c] = Kernel!Pending BY <1>0, <1>1, Silent DEF Opening
<1>14. at[p] \in Looping BY <1>1, <1>3 DEF Progress
<1>5. PlayerTypes'
  <2>1. at' \in [Players -> Statements] BY <1>1 DEF PingPongInv, PlayerTypes, Statements
  <2>2. pongs' \in [Games -> Nat] BY <1>1 DEF PingPongInv, PlayerTypes
  <2>3. QED BY <1>1, <2>1, <2>2 DEF PingPongInv, PlayerTypes
<1>6. Others(g) BY <1>0, <1>1, PlayerFacts DEF Others, Same, PingPongInv, PlayerTypes
<1>7. Held(g)' = Held(g) BY <1>1, <1>2 DEF Held, Opening, Took
<1>8. Progress(g)'
  BY <1>1, <1>2, <1>3, <1>14 DEF Progress, Took, Opening, Unforked, Looping, AtFather, AtChild
<1>9. Lines(g)' BY <1>1, <1>2, <1>3 DEF Lines, Opening, Unforked, Looping, N, PingPongInv, PlayerTypes
<1>10. Tokens(g)'
  <2>1. at'[p] \in Looping \ Unforked BY <1>2, <1>14 DEF Looping, Unforked, Opening
  <2>2. Behind(g)' = Behind(g) + 1 /\ Ahead(g)' = Ahead(g) - 1
    BY <1>1, <1>2, <1>4, <1>14, InLoop DEF Ahead, Behind, Took, N, Kernel!Pending, Kernel!Done
  <2>3. /\ Behind(g) \in Nat /\ Ahead(g) \in Nat /\ pings[g] \in Nat /\ pongs[g] \in Nat
        /\ Behind(g) + Ahead(g) = 1 /\ pings[g] = pongs[g] + Ahead(g)
    BY <1>14, InLoop
  <2>4. pings'[g] = pongs'[g] + Ahead(g)' BY <1>1, <1>2, <2>2, <2>3
  <2>5. QED BY <2>1, <2>2, <2>3, <2>4 DEF Tokens
<1>11. CallsRight(c)' BY <1>1, <1>4 DEF CallsRight, Kernel!Pending, Kernel!Failed
<1>12. CallsRight(p)' BY <1>0, <1>1, <1>2, <1>3 DEF CallsRight, Asks, Mine, Theirs
<1>13. QED BY <1>1, <1>5, <1>6, <1>7, <1>8, <1>9, <1>10, <1>11, <1>12, KeepsHeld DEF GameInv

(* The father returns from his up, and takes the token with his down.         *)
LEMMA FatherReturns ==
  ASSUME PingPongInv, NEW g \in Games, UpReturns(Father(g)) \/ DownReturns(Father(g)) PROVE PingPongInv'
<1> DEFINE p == Father(g)  c == Child(g)
<1>0. p \in Players /\ c \in Players /\ p # c /\ p[1] = g /\ p[2] = "father" BY PlayerFacts
<1>1. /\ Kernel!Return(p) /\ UNCHANGED <<next, father_sem, child_sem, pings, pongs>>
      /\ \/ at[p] = "up" /\ at' = [at EXCEPT ![p] = "down"] /\ round' = round
         \/ /\ at[p] = "down" /\ round' = [round EXCEPT ![p] = round[p] + 1]
            /\ at' = [at EXCEPT ![p] = IF round[p] + 1 < Rounds THEN "ping" ELSE "wait"]
  BY <1>0 DEF UpReturns, DownReturns, NextRound, Goto, gameVars
<1>2. /\ call' = [call EXCEPT ![p] = Kernel!NoCall] /\ ret' = [ret EXCEPT ![p] = Kernel!Pending]
      /\ value' = value /\ call'[p] = Kernel!NoCall /\ ret'[p] = Kernel!Pending
      /\ \A q \in Players \ {p} : call'[q] = call[q] /\ ret'[q] = ret[q]
      /\ ret[p] = Kernel!Done
  BY <1>0, <1>1, Returned DEF Opening
<1>3. /\ at'[c] = at[c] /\ round'[c] = round[c] /\ at'[p] \in {"down", "ping", "wait"}
      /\ at[p] = "up" => at'[p] = "down" /\ round'[p] = round[p]
      /\ at[p] = "down" => /\ round'[p] = round[p] + 1
                           /\ at'[p] = IF round[p] + 1 < Rounds THEN "ping" ELSE "wait"
  BY <1>0, <1>1 DEF PingPongInv, PlayerTypes
<1>4. Progress(g) /\ Tokens(g) /\ Lines(g) /\ CallsRight(c) BY DEF PingPongInv, GameInv
<1>5. PlayerTypes'
  <2>1. at' \in [Players -> Statements] BY <1>1 DEF PingPongInv, PlayerTypes, Statements
  <2>2. round' \in [Players -> Nat] BY <1>1 DEF PingPongInv, PlayerTypes
  <2>3. QED BY <1>0, <1>1, <1>2, <2>1, <2>2, ReturnTypes DEF PingPongInv, PlayerTypes
<1>6. Others(g) BY <1>0, <1>1, <1>2, PlayerFacts DEF Others, Same, PingPongInv, PlayerTypes
<1>7. Held(g)' = Held(g) BY <1>1, <1>2, <1>3 DEF Held, Opening
<1>8. Progress(g)'
  BY <1>1, <1>2, <1>3, <1>4 DEF Progress, Took, Opening, Unforked, Looping, AtFather, AtChild
<1>9. Lines(g)'
  BY <1>0, <1>1, <1>3, <1>4, PingPongAssumption DEF Lines, Opening, Unforked, Looping, N, PingPongInv, PlayerTypes
<1>10. Tokens(g)'
  <2>1. at[p] \in Looping /\ at'[p] \in Looping \ Unforked BY <1>1, <1>3 DEF Looping, Unforked, Opening
  <2>2. Behind(g)' = Behind(g) /\ Ahead(g)' = Ahead(g)
    BY <1>0, <1>1, <1>2, <1>3, <2>1, InLoop DEF Ahead, Behind, Took, N, Kernel!Pending, Kernel!Done
  <2>3. QED BY <1>1, <2>1, <2>2, InLoop DEF Tokens
<1>11. CallsRight(p)' BY <1>2 DEF CallsRight, Kernel!Pending, Kernel!Failed
<1>12. CallsRight(c)' BY <1>0, <1>1, <1>2, <1>3, <1>4 DEF CallsRight, Asks, Mine, Theirs
<1>13. QED BY <1>2, <1>5, <1>6, <1>7, <1>8, <1>9, <1>10, <1>11, <1>12, KeepsHeld DEF GameInv

LEMMA ChildReturns ==
  ASSUME PingPongInv, NEW g \in Games, UpReturns(Child(g)) \/ DownReturns(Child(g)) PROVE PingPongInv'
<1> DEFINE p == Father(g)  c == Child(g)
<1>0. p \in Players /\ c \in Players /\ p # c /\ c[1] = g /\ c[2] = "child" BY PlayerFacts
<1>1. /\ Kernel!Return(c) /\ UNCHANGED <<next, father_sem, child_sem, pings, pongs>>
      /\ \/ at[c] = "down" /\ at' = [at EXCEPT ![c] = "pong"] /\ round' = round
         \/ /\ at[c] = "up" /\ round' = [round EXCEPT ![c] = round[c] + 1]
            /\ at' = [at EXCEPT ![c] = IF round[c] + 1 < Rounds THEN "down" ELSE "done"]
  BY <1>0 DEF UpReturns, DownReturns, NextRound, Goto, gameVars
<1>2. /\ call' = [call EXCEPT ![c] = Kernel!NoCall] /\ ret' = [ret EXCEPT ![c] = Kernel!Pending]
      /\ value' = value /\ call'[c] = Kernel!NoCall /\ ret'[c] = Kernel!Pending
      /\ \A q \in Players \ {c} : call'[q] = call[q] /\ ret'[q] = ret[q]
      /\ ret[c] = Kernel!Done
  BY <1>0, <1>1, Returned DEF Opening
<1>3. /\ at'[p] = at[p] /\ round'[p] = round[p] /\ at'[c] \in {"down", "pong", "done"}
      /\ at[c] = "down" => at'[c] = "pong" /\ round'[c] = round[c]
      /\ at[c] = "up" => /\ round'[c] = round[c] + 1
                         /\ at'[c] = IF round[c] + 1 < Rounds THEN "down" ELSE "done"
  BY <1>0, <1>1 DEF PingPongInv, PlayerTypes
<1>4. Progress(g) /\ Tokens(g) /\ Lines(g) /\ CallsRight(p) BY DEF PingPongInv, GameInv
<1>14. at[p] \in Looping BY <1>1, <1>4 DEF Progress
<1>5. PlayerTypes'
  <2>1. at' \in [Players -> Statements] BY <1>1 DEF PingPongInv, PlayerTypes, Statements
  <2>2. round' \in [Players -> Nat] BY <1>1 DEF PingPongInv, PlayerTypes
  <2>3. QED BY <1>0, <1>1, <1>2, <2>1, <2>2, ReturnTypes DEF PingPongInv, PlayerTypes
<1>6. Others(g) BY <1>0, <1>1, <1>2, PlayerFacts DEF Others, Same, PingPongInv, PlayerTypes
<1>7. Held(g)' = Held(g) BY <1>0, <1>1, <1>2, <1>3 DEF Held, Took
<1>8. Progress(g)'
  BY <1>0, <1>1, <1>2, <1>3, <1>4, <1>14 DEF Progress, Took, Opening, Unforked, Looping, AtFather, AtChild
<1>9. Lines(g)'
  BY <1>0, <1>1, <1>3, <1>4, PingPongAssumption DEF Lines, Opening, Unforked, Looping, N, PingPongInv, PlayerTypes
<1>10. Tokens(g)'
  <2>1. at'[p] \in Looping \ Unforked BY <1>3, <1>14 DEF Looping, Unforked, Opening
  <2>2. Behind(g)' = Behind(g) /\ Ahead(g)' = Ahead(g)
    BY <1>0, <1>1, <1>2, <1>3, <1>14, InLoop DEF Ahead, Behind, Took, N, Kernel!Pending, Kernel!Done
  <2>3. QED BY <1>1, <1>14, <2>1, <2>2, InLoop DEF Tokens
<1>11. CallsRight(c)' BY <1>2 DEF CallsRight, Kernel!Pending, Kernel!Failed
<1>12. CallsRight(p)' BY <1>0, <1>1, <1>2, <1>3, <1>4 DEF CallsRight, Asks, Mine, Theirs
<1>13. QED BY <1>2, <1>5, <1>6, <1>7, <1>8, <1>9, <1>10, <1>11, <1>12, KeepsHeld DEF GameInv

(* The child is gone, and the father gives the semaphores back one by one.    *)
LEMMA WaitKeeps == ASSUME PingPongInv, NEW g \in Games, Wait(g) PROVE PingPongInv'
<1> DEFINE p == Father(g)  c == Child(g)
<1>0. p \in Players /\ c \in Players /\ p # c BY PlayerFacts
<1>1. /\ at[p] = "wait" /\ at[c] = "done" /\ at' = [at EXCEPT ![p] = "close_child"]
      /\ UNCHANGED <<value, call, ret, next, father_sem, child_sem, round, pings, pongs>>
  BY DEF Wait, Goto, kernelVars, gameVars
<1>2. at'[p] = "close_child" /\ at'[c] = "done" BY <1>0, <1>1 DEF PingPongInv, PlayerTypes
<1>3. Progress(g) /\ Tokens(g) /\ Lines(g) BY DEF PingPongInv, GameInv
<1>4. call[p] = Kernel!NoCall /\ ret[p] = Kernel!Pending /\ call[c] = Kernel!NoCall /\ ret[c] = Kernel!Pending
  BY <1>0, <1>1, Silent DEF Opening
<1>5. PlayerTypes'
  <2>1. at' \in [Players -> Statements] BY <1>1 DEF PingPongInv, PlayerTypes, Statements
  <2>2. QED BY <1>1, <2>1 DEF PingPongInv, PlayerTypes
<1>6. Others(g) BY <1>0, <1>1, PlayerFacts DEF Others, Same, PingPongInv, PlayerTypes
<1>7. Held(g)' = Held(g)
  BY <1>1, <1>2, <1>4 DEF Held, Took, Opening, Kernel!Pending, Kernel!Done
<1>8. Progress(g)'
  BY <1>1, <1>2, <1>3 DEF Progress, Took, Opening, Unforked, Looping, AtFather, AtChild
<1>9. Lines(g)' BY <1>1, <1>2, <1>3 DEF Lines, Opening, Unforked, Looping, N, PingPongInv, PlayerTypes
<1>10. Tokens(g)'
  <2>1. pings[g] = pongs[g] BY <1>1, <1>3 DEF Lines, N, PingPongInv, PlayerTypes
  <2>2. QED BY <1>1, <1>2, <2>1 DEF Tokens, Looping, Unforked, Opening
<1>11. CallsRight(p)' /\ CallsRight(c)' BY <1>1, <1>4 DEF CallsRight, Kernel!Pending, Kernel!Failed
<1>12. QED BY <1>1, <1>5, <1>6, <1>7, <1>8, <1>9, <1>10, <1>11, KeepsHeld DEF GameInv

LEMMA ClosedKeeps == ASSUME PingPongInv, NEW g \in Games, Closed(g) PROVE PingPongInv'
<1> DEFINE p == Father(g)  c == Child(g)
<1>0. p \in Players /\ c \in Players /\ p # c BY PlayerFacts
<1>1. /\ at[p] \in {"close_child", "close_father"} /\ Kernel!Return(p)
      /\ at' = [at EXCEPT ![p] = IF at[p] = "close_child" THEN "close_father" ELSE "done"]
      /\ UNCHANGED <<next, father_sem, child_sem, round, pings, pongs>>
  BY DEF Closed, Goto, gameVars
<1>2. /\ call' = [call EXCEPT ![p] = Kernel!NoCall] /\ ret' = [ret EXCEPT ![p] = Kernel!Pending]
      /\ value' = value /\ call'[p] = Kernel!NoCall /\ ret'[p] = Kernel!Pending
      /\ \A q \in Players \ {p} : call'[q] = call[q] /\ ret'[q] = ret[q]
      /\ ret[p] = Kernel!Done
  BY <1>0, <1>1, Returned DEF Opening
<1>3. at'[c] = at[c] /\ at'[p] = IF at[p] = "close_child" THEN "close_father" ELSE "done"
  BY <1>0, <1>1 DEF PingPongInv, PlayerTypes
<1>4. Progress(g) /\ Tokens(g) /\ Lines(g) /\ at[c] = "done"
  BY <1>1 DEF PingPongInv, GameInv, Progress, Unforked, Looping, Opening
<1>5. PlayerTypes'
  <2>1. at' \in [Players -> Statements] BY <1>1 DEF PingPongInv, PlayerTypes, Statements
  <2>2. QED BY <1>0, <1>1, <1>2, <2>1, ReturnTypes DEF PingPongInv, PlayerTypes
<1>6. Others(g) BY <1>0, <1>1, <1>2, PlayerFacts DEF Others, Same, PingPongInv, PlayerTypes
<1>7. Held(g)' = Held(g)
  BY <1>1, <1>2, <1>3 DEF Held, Took, Opening, Kernel!Pending, Kernel!Done
<1>8. Progress(g)'
  BY <1>1, <1>2, <1>3, <1>4 DEF Progress, Took, Opening, Unforked, Looping, AtFather, AtChild
<1>9. Lines(g)' BY <1>1, <1>3, <1>4 DEF Lines, Opening, Unforked, Looping, N, PingPongInv, PlayerTypes
<1>10. Tokens(g)' BY <1>1, <1>3, <1>4 DEF Tokens, Looping, Unforked, Opening
<1>11. CallsRight(p)' /\ CallsRight(c)'
  <2>1. call[c] = Kernel!NoCall /\ ret[c] = Kernel!Pending BY <1>0, <1>4, Silent DEF Opening
  <2>2. QED BY <1>0, <1>2, <2>1 DEF CallsRight, Kernel!Pending, Kernel!Failed
<1>12. QED BY <1>2, <1>5, <1>6, <1>7, <1>8, <1>9, <1>10, <1>11, KeepsHeld DEF GameInv

-----------------------------------------------------------------------------
(* A call takes effect: on a semaphore of the caller's game, or on a closed   *)
(* one that becomes its own.                                                  *)
LEMMA Effective ==
  ASSUME PingPongInv, NEW p \in Players, SystemCall(p)
  PROVE  /\ Asks(p) /\ CallsRight(p) /\ ret[p] = Kernel!Pending /\ Kernel!Effect(p)
         /\ UNCHANGED <<call, at, next, father_sem, child_sem, round, pings, pongs>>
<1>1. CallsRight(p) /\ Kernel!Effect(p) BY PlayerFacts DEF PingPongInv, GameInv, SystemCall
<1>2. UNCHANGED <<call, at, gameVars>> BY DEF SystemCall, Kernel!Effect, Kernel!Take
<1>3. QED BY <1>1, <1>2 DEF CallsRight, Kernel!Effect, gameVars

(* What is left to show when only the semaphore s and the result of p change. *)
LEMMA EffectKeeps ==
  ASSUME PingPongInv, NEW g \in Games, NEW p \in Players, p[1] = g, NEW s \in Sems, NEW v \in Nat \cup {Kernel!Closed},
         NEW z \in {Kernel!Failed, Kernel!Done},
         value' = [value EXCEPT ![s] = v], ret' = [ret EXCEPT ![p] = z], CallsRight(p), Asks(p),
         UNCHANGED <<call, at, next, father_sem, child_sem, round, pings, pongs>>,
         at[p] \in Opening \/ z = Kernel!Done,
         Progress(g)', Tokens(g)',
         s \in Held(g) \/ v = value[s] \/ (value[s] = Kernel!Closed /\ s \in Held(g)'),
         v # Kernel!Closed => s \in Held(g)' \/ v = value[s],
         v = Kernel!Closed => s \notin Held(g)',
         \A t \in Sems \ {s} : t \in Held(g)' <=> t \in Held(g),
         v = value[s] => (s \in Held(g)' <=> s \in Held(g))
  PROVE  PingPongInv'
<1>1. PlayerTypes' BY DEF PingPongInv, PlayerTypes
<1>2. Others(g) BY PlayerFacts DEF Others, Same, PingPongInv, PlayerTypes
<1>3. \A q \in Players : CallsRight(q)'
  <2>1. CallsRight(p)' BY DEF CallsRight, Asks, Mine, Theirs, PingPongInv, PlayerTypes, Kernel!Failed, Kernel!Done
  <2>2. ASSUME NEW q \in Players \ {p} PROVE CallsRight(q)'
    <3>1. CallsRight(q) BY PlayerFacts DEF PingPongInv, GameInv
    <3>2. QED BY <3>1 DEF CallsRight, Asks, Mine, Theirs, PingPongInv, PlayerTypes
  <2>3. QED BY <2>1, <2>2
<1>4. GameInv(g)'
  <2>1. Lines(g)' BY DEF Lines, PingPongInv, GameInv
  <2>2. QED BY <1>3, <2>1, PlayerFacts DEF GameInv
<1>5. \A t \in Sems : t \in Held(g) => value[t] # Kernel!Closed BY DEF PingPongInv, Divided
<1>6. \A t \in Sems : value'[t] = IF t = s THEN v ELSE value[t] BY DEF PingPongInv, PlayerTypes
<1>7. QED BY <1>1, <1>2, <1>4, <1>5, <1>6, Combine

LEMMA OpenEffect == ASSUME PingPongInv, NEW g \in Games, SystemCall(Father(g)), at[Father(g)] \in Opening PROVE PingPongInv'
<1> DEFINE p == Father(g)  c == Child(g)  s == next[g]
<1>0. p \in Players /\ p[1] = g /\ p # c /\ c \in Players BY PlayerFacts
<1>1. /\ Asks(p) /\ CallsRight(p) /\ ret[p] = Kernel!Pending /\ Kernel!Effect(p)
      /\ UNCHANGED <<call, at, next, father_sem, child_sem, round, pings, pongs>>
  BY <1>0, Effective
<1>2. call[p] = Call("open", s) BY <1>0, <1>1 DEF Asks, Opening
<1>3. Progress(g) /\ Tokens(g) /\ s \in Sems /\ at[p] \in Unforked
  BY PingPongAssumption DEF PingPongInv, GameInv, PlayerTypes, Progress, Opening, Unforked, Sems
<1>4. \/ value[s] = Kernel!Closed /\ value' = [value EXCEPT ![s] = 0] /\ ret' = [ret EXCEPT ![p] = Kernel!Done]
      \/ value[s] # Kernel!Closed /\ value' = [value EXCEPT ![s] = value[s]] /\ ret' = [ret EXCEPT ![p] = Kernel!Failed]
  BY <1>1, <1>2 DEF Kernel!Effect, Kernel!Take, Call
<1>5. ret[p] # Kernel!Done /\ ~Took(p) BY <1>1 DEF Took, Kernel!Pending, Kernel!Done
<1>6. CASE value[s] = Kernel!Closed /\ value' = [value EXCEPT ![s] = 0] /\ ret' = [ret EXCEPT ![p] = Kernel!Done]
  <2>1. ret'[p] = Kernel!Done /\ value'[s] = 0 /\ \A t \in Sems \ {s} : value'[t] = value[t]
    BY <1>0, <1>3, <1>6 DEF PingPongInv, PlayerTypes
  <2>2. \A t \in Sems : t \in Held(g)' <=> t \in Held(g) \/ t = s
    BY <1>1, <1>3, <1>5, <2>1 DEF Held, Took, Opening, Kernel!Done
  <2>3. s \notin Held(g) BY <1>3, <1>6 DEF PingPongInv, Divided
  <2>4. s # father_sem[g] BY <2>3, <1>3 DEF Held, Opening
  <2>5. Progress(g)' BY <1>1, <1>3, <2>4 DEF Progress, Took
  <2>6. Tokens(g)'
    <3>1. \A t \in Held(g)' : value'[t] = 0 BY <1>3, <2>1, <2>2, <1>1 DEF Tokens, Held
    <3>2. QED BY <1>1, <1>3, <3>1 DEF Tokens, Unforked, Looping, Opening
  <2>7. \A t \in Sems \ {s} : t \in Held(g)' <=> t \in Held(g) BY <2>2
  <2>8. s \in Held(g)' /\ 0 \in Nat \cup {Kernel!Closed} /\ 0 # value[s] /\ 0 # Kernel!Closed
    BY <1>3, <1>6, <2>2 DEF Kernel!Closed
  <2>9. QED BY <1>0, <1>1, <1>3, <1>6, <2>5, <2>6, <2>7, <2>8, EffectKeeps
<1>7. CASE value[s] # Kernel!Closed /\ value' = [value EXCEPT ![s] = value[s]] /\ ret' = [ret EXCEPT ![p] = Kernel!Failed]
  <2>1. ret'[p] = Kernel!Failed /\ value' = value /\ value[s] \in Nat
    BY <1>0, <1>3, <1>7 DEF PingPongInv, PlayerTypes
  <2>2. Held(g)' = Held(g) BY <1>1, <1>5, <2>1 DEF Held, Took, Opening, Kernel!Done, Kernel!Failed
  <2>3. Progress(g)' BY <1>1, <1>3, <2>1 DEF Progress, Took, Kernel!Done, Kernel!Failed
  <2>4. Tokens(g)' BY <1>1, <1>3, <2>1, <2>2 DEF Tokens, Unforked, Looping, Opening
  <2>5. value[s] # Kernel!Closed => s \in Held(g)' \/ value[s] = value[s] OBVIOUS
  <2>9. QED BY <1>0, <1>1, <1>3, <1>7, <2>1, <2>2, <2>3, <2>4, <2>5, EffectKeeps
<1>8. QED BY <1>4, <1>6, <1>7

(* up and down of the loops: the semaphore is open, because the game holds it.*)
LEMMA LoopEffect ==
  ASSUME PingPongInv, NEW g \in Games, NEW p \in {Father(g), Child(g)}, SystemCall(p), at[p] \in {"up", "down"}
  PROVE  PingPongInv'
<1> DEFINE f == Father(g)  c == Child(g)
<1>0. /\ p \in Players /\ p[1] = g /\ f # c /\ f \in Players /\ c \in Players
      /\ f[2] = "father" /\ c[2] = "child" /\ f[1] = g /\ c[1] = g
  BY PlayerFacts
<1>1. /\ Asks(p) /\ CallsRight(p) /\ ret[p] = Kernel!Pending /\ Kernel!Effect(p)
      /\ UNCHANGED <<call, at, next, father_sem, child_sem, round, pings, pongs>>
  BY <1>0, Effective
<1>2. Progress(g) /\ Tokens(g) BY DEF PingPongInv, GameInv
<1>3. at[f] \in Looping /\ at[f] \notin Unforked /\ at[f] \notin Opening
  BY <1>2 DEF Progress, Looping, Unforked, Opening
<1>4. PICK s \in {father_sem[g], child_sem[g]} :
        s = IF (p = f) = (at[p] = "up") THEN child_sem[g] ELSE father_sem[g]
  OBVIOUS
<1>5. s \in Sems /\ s \in Held(g) /\ value[s] \in Nat /\ father_sem[g] # child_sem[g] BY <1>3, <1>4, InLoop
<1>6. call[p] = Call(at[p], s) BY <1>0, <1>1, <1>4 DEF Asks, Mine, Theirs, Opening
<1>7. PICK v \in Nat :
        /\ value' = [value EXCEPT ![s] = v] /\ ret' = [ret EXCEPT ![p] = Kernel!Done]
        /\ v = IF at[p] = "up" THEN value[s] + 1 ELSE value[s] - 1
  BY <1>1, <1>5, <1>6 DEF Kernel!Effect, Kernel!Take, Call, Kernel!Closed
<1>8. /\ ret'[p] = Kernel!Done /\ value'[s] = v /\ \A t \in Sems \ {s} : value'[t] = value[t]
      /\ \A q \in Players \ {p} : ret'[q] = ret[q]
  BY <1>0, <1>5, <1>7 DEF PingPongInv, PlayerTypes
<1>9. Held(g)' = Held(g) BY <1>0, <1>1, <1>3, <1>8 DEF Held, Took, Looping
<1>10. Progress(g)' BY <1>1, <1>2, <1>3 DEF Progress
<1>11. Tokens(g)'
  <2>1. father_sem[g] \in Sems /\ child_sem[g] \in Sems BY <1>3, InLoop
  <2>2. CASE p = f
    <3>1. Behind(g)' = Behind(g) /\ Ahead(g)' = Ahead(g)
      BY <1>0, <1>1, <1>3, <1>4, <1>5, <1>7, <1>8, <2>1, <2>2, InLoop
      DEF Behind, Ahead, Took, N, Kernel!Pending, Kernel!Done
    <3>2. QED BY <1>1, <1>2, <1>3, <3>1 DEF Tokens
  <2>3. CASE p = c
    <3>0. ret'[f] = ret[f] BY <1>0, <1>8, <2>3
    <3>1. Behind(g)' = Behind(g) /\ Ahead(g)' = Ahead(g)
      <4>1. CASE at[c] = "up"
        BY <1>0, <1>1, <1>4, <1>5, <1>7, <1>8, <2>1, <2>3, <3>0, <4>1
        DEF Behind, Ahead, Took, N, Kernel!Pending, Kernel!Done
      <4>2. CASE at[c] = "down"
        BY <1>0, <1>1, <1>4, <1>5, <1>7, <1>8, <2>1, <2>3, <3>0, <4>2
        DEF Behind, Ahead, Took, N, Kernel!Pending, Kernel!Done
      <4>3. QED BY <2>3, <4>1, <4>2
    <3>2. QED BY <1>1, <1>2, <1>3, <3>1 DEF Tokens
  <2>4. QED BY <2>2, <2>3
<1>12. v # Kernel!Closed /\ v # value[s] BY <1>5, <1>7 DEF Kernel!Closed
<1>13. QED BY <1>0, <1>1, <1>5, <1>7, <1>9, <1>10, <1>11, <1>12, EffectKeeps

LEMMA CloseEffect ==
  ASSUME PingPongInv, NEW g \in Games, SystemCall(Father(g)), at[Father(g)] \in {"close_child", "close_father"}
  PROVE  PingPongInv'
<1> DEFINE p == Father(g)  c == Child(g)
<1>0. p \in Players /\ p[1] = g /\ p # c /\ c \in Players BY PlayerFacts
<1>1. /\ Asks(p) /\ CallsRight(p) /\ ret[p] = Kernel!Pending /\ Kernel!Effect(p)
      /\ UNCHANGED <<call, at, next, father_sem, child_sem, round, pings, pongs>>
  BY <1>0, Effective
<1>2. /\ Progress(g) /\ Tokens(g) /\ ~Took(p)
      /\ at[p] \notin Unforked /\ at[p] \notin Looping /\ at[p] \notin Opening
  BY <1>1 DEF PingPongInv, GameInv, Unforked, Looping, Opening, Took, Kernel!Pending, Kernel!Done
<1>3. PICK s \in {father_sem[g], child_sem[g]} :
        s = IF at[p] = "close_child" THEN child_sem[g] ELSE father_sem[g]
  OBVIOUS
<1>4. s \in Sems /\ s \in Held(g) /\ father_sem[g] # child_sem[g]
  BY <1>2, <1>3 DEF Held, Progress, Opening, Unforked, PingPongInv, PlayerTypes
<1>5. call[p] = Call("close", s) BY <1>0, <1>1, <1>3 DEF Asks, Opening
<1>6. value' = [value EXCEPT ![s] = Kernel!Closed] /\ ret' = [ret EXCEPT ![p] = Kernel!Done]
  BY <1>1, <1>5 DEF Kernel!Effect, Kernel!Take, Call
<1>7. ret'[p] = Kernel!Done BY <1>0, <1>6 DEF PingPongInv, PlayerTypes
<1>8. \A t \in Sems : t \in Held(g)' <=> t \in Held(g) /\ t # s
  BY <1>1, <1>2, <1>3, <1>4, <1>7 DEF Held, Took, Opening
<1>9. Progress(g)' BY <1>1, <1>2 DEF Progress
<1>10. Tokens(g)' BY <1>1, <1>2 DEF Tokens
<1>11. value[s] # Kernel!Closed BY <1>4 DEF PingPongInv, Divided
<1>12. \A t \in Sems \ {s} : t \in Held(g)' <=> t \in Held(g) BY <1>8
<1>13. s \notin Held(g)' BY <1>4, <1>8
<1>14. QED
  BY <1>0, <1>1, <1>4, <1>6, <1>9, <1>10, <1>11, <1>12, <1>13, EffectKeeps

-----------------------------------------------------------------------------
LEMMA InvInit == GameInit => PingPongInv
<1> SUFFICES ASSUME GameInit PROVE PingPongInv OBVIOUS
<1> USE DEF GameInit, Kernel!Init
<1>1. PlayerTypes BY PingPongAssumption DEF PlayerTypes, Statements, Sems, Kernel!NoCall
<1>2. ASSUME NEW g \in Games
      PROVE  /\ at[Father(g)] = "open_father" /\ at[Child(g)] = "unborn"
             /\ call[Father(g)] = Kernel!NoCall /\ call[Child(g)] = Kernel!NoCall
             /\ ret[Father(g)] = Kernel!Pending /\ ret[Child(g)] = Kernel!Pending
             /\ round[Father(g)] = 0 /\ round[Child(g)] = 0 /\ pings[g] = 0 /\ pongs[g] = 0
             /\ next[g] = 0 /\ father_sem[g] = NoSem /\ child_sem[g] = NoSem
  BY PlayerFacts
<1> HIDE DEF GameInit, Kernel!Init
<1>3. ASSUME NEW g \in Games PROVE Held(g) = {}
  BY <1>2 DEF Held, Took, Sems, NoSem, Kernel!Pending, Kernel!Done
<1>4. ASSUME NEW g \in Games PROVE GameInv(g)
  <2>1. CallsRight(Father(g)) /\ CallsRight(Child(g))
    BY <1>2 DEF CallsRight, Kernel!Pending, Kernel!Failed
  <2>2. Progress(g)
    BY <1>2, PingPongAssumption
    DEF Progress, AtFather, AtChild, Unforked, Opening, Looping, Took, Kernel!Pending, Kernel!Done
  <2>3. Tokens(g) BY <1>2, <1>3 DEF Tokens, Looping, Unforked, Opening
  <2>4. Lines(g) BY <1>2 DEF Lines, N, Unforked, Opening
  <2>5. QED BY <2>1, <2>2, <2>3, <2>4 DEF GameInv
<1>5. Divided BY <1>3 DEF Divided, Sems, GameInit, Kernel!Init
<1>6. QED BY <1>1, <1>4, <1>5 DEF PingPongInv

LEMMA StepsKeep ==
  ASSUME PingPongInv, NEW g \in Games, NEW p \in {Father(g), Child(g)},
         GameStep(g) \/ PlayerStep(p) \/ SystemCall(p)
  PROVE  PingPongInv'
<1> DEFINE f == Father(g)  c == Child(g)
<1>0. /\ p \in Players /\ f \in Players /\ c \in Players /\ p[1] = g /\ f[1] = g /\ c[1] = g
      /\ Progress(g) /\ Progress(g) /\ next[g] \in Nat
  BY PlayerFacts DEF PingPongInv, GameInv, PlayerTypes
<1>1. ASSUME NEW q \in Players, NEW op \in {"open", "close", "up", "down"}, NEW s \in Sems
      PROVE  Call(op, s) \in [op : {"open", "close", "up", "down"}, sem : Sems, val : {0}]
  BY DEF Call
<1>2. CASE TryOpen(g)
  <2>1. at[f] \in Opening /\ Request(f, Call("open", next[g])) BY <1>2 DEF TryOpen, Opening
  <2>2. next[g] \in Sems /\ at' = at /\ next' = next
    BY <1>0, <2>1, PingPongAssumption DEF Progress, Opening, Sems, Request, gameVars
  <2>3. call'[f] = Call("open", next[g]) => Asks(f)' BY <1>0, <2>1, <2>2 DEF Asks
  <2>4. QED BY <1>0, <1>1, <2>1, <2>2, <2>3, RequestKeeps
<1>3. CASE Close(g)
  <2>1. PICK s \in {father_sem[g], child_sem[g]} :
          /\ Request(f, Call("close", s)) /\ at[f] \in {"close_child", "close_father"}
          /\ s = IF at[f] = "close_child" THEN child_sem[g] ELSE father_sem[g]
    BY <1>3 DEF Close
  <2>2. s \in Sems BY <1>0, <2>1 DEF Progress, Opening, Unforked, PingPongInv, PlayerTypes
  <2>3. UNCHANGED <<at, father_sem, child_sem>> BY <2>1 DEF Request, gameVars
  <2>4. call'[f] = Call("close", s) => Asks(f)' BY <1>0, <2>1, <2>3 DEF Asks
  <2>5. QED BY <1>0, <1>1, <2>1, <2>2, <2>4, RequestKeeps
<1>4. CASE Up(p) \/ Down(p)
  <2>0. f[2] = "father" /\ c[2] = "child" BY PlayerFacts
  <2>1. PICK s \in {father_sem[g], child_sem[g]} :
          /\ Request(p, Call(at[p], s)) /\ at[p] \in {"up", "down"}
          /\ s = IF at[p] = "up" THEN Theirs(p) ELSE Mine(p)
    BY <1>0, <1>4, <2>0 DEF Up, Down, Mine, Theirs
  <2>2. at[f] \in Looping BY <1>0, <2>1 DEF Progress, Looping
  <2>3. s \in Sems BY <2>1, <2>2, InLoop
  <2>4. UNCHANGED <<at, father_sem, child_sem>> BY <2>1 DEF Request, gameVars
  <2>5. call'[p] = Call(at[p], s) => Asks(p)' BY <1>0, <2>1, <2>4 DEF Asks, Mine, Theirs
  <2>6. QED BY <1>0, <1>1, <2>1, <2>3, <2>5, RequestKeeps
<1>5. CASE UpReturns(p) \/ DownReturns(p) BY <1>5, FatherReturns, ChildReturns
<1>6. CASE SystemCall(p)
  <2>1. Asks(p) BY <1>0, <1>6, Effective
  <2>2. p = c => at[p] \in {"up", "down"} BY <1>0, <2>1 DEF Asks, Progress, AtChild, Opening
  <2>3. CASE at[p] \in {"up", "down"} BY <1>6, <2>3, LoopEffect
  <2>4. CASE p = f /\ at[p] \in Opening BY <1>6, <2>4, OpenEffect
  <2>5. CASE p = f /\ at[p] \in {"close_child", "close_father"} BY <1>6, <2>5, CloseEffect
  <2>6. QED BY <2>1, <2>2, <2>3, <2>4, <2>5 DEF Asks
<1>7. CASE Opened(g) \/ Taken(g) \/ Fork(g) \/ ForkFails(g)
  BY <1>7, OpenedKeeps, TakenKeeps, ForkKeeps
<1>8. CASE Ping(g) \/ Pong(g) \/ Wait(g) \/ Closed(g)
  BY <1>8, PingKeeps, PongKeeps, WaitKeeps, ClosedKeeps
<1>9. QED BY <1>2, <1>3, <1>4, <1>5, <1>6, <1>7, <1>8 DEF GameStep, PlayerStep

LEMMA InvInductive == PingPongInv /\ [GameNext]_pingpongVars => PingPongInv'
<1> SUFFICES ASSUME PingPongInv, [GameNext]_pingpongVars PROVE PingPongInv' OBVIOUS
<1>1. CASE UNCHANGED pingpongVars
  <2>1. PlayerTypes' BY <1>1 DEF pingpongVars, PingPongInv, PlayerTypes
  <2>2. \A g \in Games : Same(g) BY <1>1 DEF pingpongVars, Same
  <2>3. \A g \in Games : Held(g)' = Held(g) /\ GameInv(g)' BY <1>1, <2>2, Frame DEF pingpongVars, PingPongInv
  <2>4. QED BY <1>1, <2>1, <2>3 DEF pingpongVars, PingPongInv, Divided
<1>2. ASSUME NEW g \in Games, GameStep(g) PROVE PingPongInv' BY <1>2, StepsKeep
<1>3. ASSUME NEW p \in Players, PlayerStep(p) \/ SystemCall(p) PROVE PingPongInv'
  <2>1. PICK g \in Games : p \in {Father(g), Child(g)} BY PlayerFacts
  <2>2. QED BY <1>3, <2>1, StepsKeep
<1>4. QED BY <1>1, <1>2, <1>3 DEF GameNext

LEMMA InvAlways == GameSpec => []PingPongInv
BY InvInit, InvInductive, PTL DEF GameSpec

-----------------------------------------------------------------------------
LEMMA InvAlternates == PingPongInv => TypeOK /\ Alternation
<1> SUFFICES ASSUME PingPongInv PROVE TypeOK /\ Alternation OBVIOUS
<1>1. ASSUME NEW g \in Games
      PROVE  /\ next[g] \in 0 .. MAX_SEM /\ pings[g] - pongs[g] \in {0, 1}
             /\ round[Father(g)] \in 0 .. Rounds /\ round[Child(g)] \in 0 .. Rounds
             /\ pings[g] \in 0 .. Rounds /\ pongs[g] \in 0 .. Rounds
  <2> DEFINE p == Father(g)  c == Child(g)
  <2>1. Progress(g) /\ Tokens(g) /\ Lines(g) BY DEF PingPongInv, GameInv
  <2>2. p \in Players /\ c \in Players BY PlayerFacts
  <2>3. next[g] \in Nat /\ round[p] \in Nat /\ round[c] \in Nat /\ pings[g] \in Nat /\ pongs[g] \in Nat
    BY <2>2 DEF PingPongInv, PlayerTypes
  <2>4. round[p] <= Rounds /\ round[c] <= Rounds /\ pings[g] <= Rounds /\ pongs[g] <= Rounds
    BY <2>1, <2>2, <2>3, PingPongAssumption
    DEF Lines, Progress, AtFather, AtChild, Unforked, Opening, Looping, N
  <2>5. pings[g] - pongs[g] \in {0, 1}
    <3>1. CASE at[p] \in Looping BY <3>1, InLoop
    <3>2. CASE at[p] \notin Looping BY <2>1, <2>3, <3>2 DEF Tokens
    <3>3. QED BY <3>1, <3>2
  <2>6. QED BY <2>1, <2>3, <2>4, <2>5, PingPongAssumption DEF Progress
<1>2. round \in [Players -> 0 .. Rounds]
  <2>1. \A p \in Players : round[p] \in 0 .. Rounds BY <1>1, PlayerFacts
  <2>2. QED BY <2>1 DEF PingPongInv, PlayerTypes
<1>3. next \in [Games -> 0 .. MAX_SEM] /\ pings \in [Games -> 0 .. Rounds] /\ pongs \in [Games -> 0 .. Rounds]
  BY <1>1 DEF PingPongInv, PlayerTypes
<1>4. value \in [Sems -> Int] BY DEF PingPongInv, PlayerTypes, Kernel!Closed
<1>5. TypeOK BY <1>2, <1>3, <1>4 DEF TypeOK, PingPongInv, PlayerTypes, Sems
<1>6. QED BY <1>1, <1>5 DEF Alternation

LEMMA InvPrivate == PingPongInv => Private /\ OnlyFailuresLeak
<1> SUFFICES ASSUME PingPongInv PROVE Private /\ OnlyFailuresLeak OBVIOUS
<1>1. ASSUME NEW g \in Games PROVE OwnedBy(g) \subseteq Held(g)
  BY DEF OwnedBy, Held, Took, PingPongInv, PlayerTypes
<1>2. Private
  <2>1. \A g \in Games : father_sem[g] # NoSem => father_sem[g] # child_sem[g]
    BY DEF PingPongInv, GameInv, Progress
  <2>2. ASSUME NEW g \in Games, NEW s \in OwnedBy(g) PROVE value[s] # Kernel!Closed
    <3>1. s \in Held(g) /\ s \in Sems BY <1>1 DEF Held
    <3>2. QED BY <3>1 DEF PingPongInv, Divided
  <2>3. \A g, h \in Games : g # h => OwnedBy(g) \cap OwnedBy(h) = {}
    BY <1>1 DEF PingPongInv, Divided
  <2>4. QED BY <2>1, <2>2, <2>3 DEF Private
<1>3. ASSUME \A g \in Games : at[Father(g)] \in {"done", "failed"} PROVE OnlyFailuresLeak
  <2>1. ASSUME NEW g \in Games
        PROVE  Held(g) = IF at[Father(g)] = "failed" THEN {father_sem[g], child_sem[g]} \ {NoSem} ELSE {}
    BY <1>3 DEF Held, Opening, PingPongInv, PlayerTypes, Sems, NoSem
  <2>2. ASSUME NEW s \in Sems
        PROVE  value[s] # Kernel!Closed <=>
          \E g \in {h \in Games : at[Father(h)] = "failed"} : s \in {father_sem[g], child_sem[g]} \ {NoSem}
    <3>1. value[s] # Kernel!Closed <=> \E g \in Games : s \in Held(g) BY DEF PingPongInv, Divided
    <3>2. QED BY <2>1, <3>1
  <2>3. ASSUME NEW g \in Games PROVE {father_sem[g], child_sem[g]} \ {NoSem} \subseteq Sems
    <3>1. father_sem[g] \in Sems \cup {NoSem} /\ child_sem[g] \in Sems \cup {NoSem} BY DEF PingPongInv, PlayerTypes
    <3>2. QED BY <3>1
  <2>4. QED BY <2>2, <2>3 DEF OnlyFailuresLeak, Sems
<1>4. QED BY <1>2, <1>3 DEF OnlyFailuresLeak

(* ping and pong alternate in every game, ping first; the games never share a *)
(* semaphore; and who ends well leaves none open (pingpong.c).                *)
THEOREM GamesRightAlways == GameSpec => []GamesRight
<1>1. PingPongInv => GamesRight BY InvAlternates, InvPrivate DEF GamesRight
<1>2. QED BY <1>1, InvAlways, PTL

(* A game that is over has printed as many pings as pongs: all of its rounds, *)
(* unless it failed before it began (pingpong.c:52).                          *)
EvenScore ==
  \A g \in Games : /\ at[Father(g)] = "done" => pings[g] = Rounds /\ pongs[g] = Rounds
                   /\ at[Father(g)] = "failed" => pings[g] = 0 /\ pongs[g] = 0
THEOREM EvenScoreAlways == GameSpec => []EvenScore
<1>1. PingPongInv => EvenScore
  <2> SUFFICES ASSUME PingPongInv, NEW g \in Games
               PROVE  /\ at[Father(g)] = "done" => pings[g] = Rounds /\ pongs[g] = Rounds
                      /\ at[Father(g)] = "failed" => pings[g] = 0 /\ pongs[g] = 0
    BY DEF EvenScore
  <2>1. Tokens(g) /\ Lines(g) BY DEF PingPongInv, GameInv
  <2>2. QED BY <2>1, PlayerFacts, PingPongAssumption DEF Tokens, Lines, N, Unforked, Opening, Looping, PingPongInv, PlayerTypes
<1>2. QED BY <1>1, InvAlways, PTL

-----------------------------------------------------------------------------
(* Printf: LockTold says who has pr.lock, by the answer printf() keeps of     *)
(* pr.locking; PanicTold that a panic has turned it off for good before its   *)
(* CPU prints; LateTold that a CPU that gets a late character out is frozen   *)
(* at its next one.                                                           *)
PrintTypes ==
  /\ pr_lock \in PrintCPUs \cup {NoCaller} /\ pr_locking \in BOOLEAN /\ panicked \in BOOLEAN
  /\ saying \in [PrintCPUs -> {"idle", "acquire", "check", "put", "over", "said", "frozen", "stopped"}]
  /\ locking \in [PrintCPUs -> BOOLEAN] /\ out \in [PrintCPUs -> Nat]
  /\ panics \in [PrintCPUs -> BOOLEAN] /\ late \in [PrintCPUs -> Nat]
LockTold == \A c \in PrintCPUs :
  /\ saying[c] = "acquire" => locking[c] /\ ~panics[c]
  /\ Printing(c) /\ locking[c] => pr_lock = c /\ ~panics[c]
  /\ Printing(c) /\ pr_locking => locking[c]
  /\ pr_lock = c /\ ~panics[c] => saying[c] = "frozen" \/ (Printing(c) /\ locking[c])
PanicTold ==
  /\ panicked => ~pr_locking
  /\ \A c \in PrintCPUs : /\ panics[c] => ~pr_locking
                          /\ saying[c] \in {"said", "stopped"} => panics[c]
                          /\ saying[c] \in {"frozen", "stopped"} => panicked
LateTold == \A c \in PrintCPUs :
  late[c] # 0 => late[c] = 1 /\ panicked /\ saying[c] # "put"
PrintInv == PrintTypes /\ LockTold /\ PanicTold /\ LateTold

LEMMA PrintStep == PrintInv /\ [PrintNext]_printfVars => PrintInv'
<1> SUFFICES ASSUME PrintInv, PrintNext PROVE PrintInv'
  BY DEF PrintInv, PrintTypes, LockTold, PanicTold, LateTold, Printing, printfVars
<1> PICK p \in PrintCPUs : Enter(p) \/ Acquire(p) \/ Check(p) \/ Put(p) \/ Leave(p) \/ Panic(p) \/ Said(p)
  BY DEF PrintNext
<1> USE DEF PrintInv, PrintTypes, LockTold, PanicTold, LateTold, Printing, Says
<1>1. CASE Enter(p) BY <1>1 DEF Enter
<1>2. CASE Acquire(p) BY <1>2, PrintAssumption DEF Acquire
<1>3. CASE Check(p) BY <1>3 DEF Check
<1>4. CASE Put(p) BY <1>4 DEF Put
<1>5. CASE Leave(p) BY <1>5, PrintAssumption DEF Leave, Release
<1>6. CASE Panic(p) BY <1>6 DEF Panic
<1>7. CASE Said(p) BY <1>7 DEF Said
<1>8. QED BY <1>1, <1>2, <1>3, <1>4, <1>5, <1>6, <1>7

(* Lines come out whole and pr.lock is given back by whoever took it; a CPU   *)
(* that panics says so whoever has the lock; and then all output stops, but   *)
(* for one character that a CPU had checked for (printf.c:70, 121).           *)
THEOREM PrintfRightAlways == PrintSpec => []PrintfRight
<1>1. PrintInit => PrintInv
  <2> SUFFICES ASSUME PrintInit PROVE PrintInv OBVIOUS
  <2>1. PrintTypes BY DEF PrintInit, PrintTypes
  <2>2. LockTold BY PrintAssumption DEF PrintInit, LockTold, Printing
  <2>3. PanicTold /\ LateTold BY DEF PrintInit, PanicTold, LateTold
  <2>4. QED BY <2>1, <2>2, <2>3 DEF PrintInv
<1>2. PrintInv => PrintfRight
  <2> SUFFICES ASSUME PrintInv PROVE PrintfRight OBVIOUS
  <2> DEFINE S == {c \in PrintCPUs : Printing(c)}
  <2>1. ASSUME pr_locking PROVE Cardinality(S) <= 1
    <3>1. S \subseteq {pr_lock} BY <2>1 DEF PrintInv, LockTold
    <3>2. S = {} \/ S = {pr_lock} BY <3>1
    <3>3. Cardinality({}) = 0 /\ Cardinality({pr_lock}) = 1 BY FS_EmptySet, FS_Singleton
    <3>4. CASE S = {} BY <3>3, <3>4
    <3>5. CASE S = {pr_lock} BY <3>3, <3>5
    <3>6. QED BY <3>2, <3>4, <3>5
  <2>2. WholeLines BY <2>1 DEF WholeLines, PrintInv, LockTold, PrintTypes
  <2>3. PanicSaid BY DEF PanicSaid, PrintInv, LockTold, PanicTold
  <2>4. Frozen BY DEF Frozen, PrintInv, PrintTypes, PanicTold, LateTold
  <2>5. QED BY <2>2, <2>3, <2>4 DEF PrintfRight
<1>3. QED BY <1>1, <1>2, PrintStep, PTL DEF PrintSpec

-----------------------------------------------------------------------------
(* Kalloc: every page has a user, is in the hand of a CPU between its user    *)
(* and the list, or is on the list.                                           *)
InHand(c) == r[c] # Nil /\ step[c] \in {"free", "link", "head", "unlock", "got"}
OnList    == {p \in MemPages : users[p] = {} /\ \A c \in MemCPUs : InHand(c) => r[c] # p}

KallocTypes ==
  /\ freelist \in MemPages \cup {Nil} /\ kmem_lock \in MemCPUs \cup {Nil}
  /\ users \in [MemPages -> SUBSET MemCPUs] /\ word = [p \in MemPages |-> word[p]]
  /\ r \in [MemCPUs -> MemPages \cup {Nil}]
  /\ step \in [MemCPUs -> {"idle", "free", "link", "head", "freed", "unlink", "unlock", "got"}]
Locked == \A c \in MemCPUs :
  /\ kmem_lock = c <=> step[c] \in {"link", "head", "freed", "unlink", "unlock"}
  /\ step[c] \in {"free", "link", "head", "freed", "got"} => r[c] # Nil
  /\ step[c] = "idle" => r[c] = Nil
  /\ step[c] = "head" => word[r[c]] = freelist
  /\ step[c] = "unlink" => r[c] = freelist
OneUser == /\ \A p \in MemPages, c, d \in MemCPUs : c \in users[p] /\ d \in users[p] => c = d
           /\ \A c, d \in MemCPUs : InHand(c) /\ InHand(d) /\ r[c] = r[d] => c = d
           /\ \A c \in MemCPUs : InHand(c) => users[r[c]] = {}
ListHas(s) == s \in Seq(MemPages) /\ ListIs(s) /\ Listed(s) = OnList
KallocInv  == KallocTypes /\ Locked /\ OneUser /\ \E s : ListHas(s)

(* A page more at the front, and one less.                                    *)
LEMMA PutOn ==
  ASSUME NEW s \in Seq(MemPages), ListIs(s), NEW p \in MemPages \ Listed(s), word[p] = freelist,
         freelist' = p, word' = word, NEW t, t = <<p>> \o s
  PROVE  t \in Seq(MemPages) /\ ListIs(t)' /\ Listed(t) = Listed(s) \cup {p}
<1>1. /\ t \in Seq(MemPages) /\ Len(t) = Len(s) + 1 /\ t[1] = p /\ Len(s) \in Nat
      /\ \A k \in 1 .. Len(s) : t[k + 1] = s[k]
  OBVIOUS
<1>2. \A k \in 1 .. Len(t) : k = 1 \/ (k - 1 \in 1 .. Len(s) /\ t[k] = s[k - 1])
  <2> SUFFICES ASSUME NEW k \in 1 .. Len(t), k # 1 PROVE k - 1 \in 1 .. Len(s) /\ t[k] = s[k - 1]
    OBVIOUS
  <2>1. k - 1 \in 1 .. Len(s) BY <1>1
  <2>2. t[(k - 1) + 1] = s[k - 1] BY <1>1, <2>1
  <2>3. QED BY <2>1, <2>2
<1>3. Listed(t) = Listed(s) \cup {p}
  <2>1. Listed(t) \subseteq Listed(s) \cup {p} BY <1>1, <1>2 DEF Listed
  <2>2. ASSUME NEW k \in 1 .. Len(s) PROVE s[k] \in Listed(t)
    <3>1. k + 1 \in 1 .. Len(t) /\ t[k + 1] = s[k] BY <1>1
    <3>2. QED BY <3>1 DEF Listed
  <2>3. p \in Listed(t)
    <3>1. 1 \in 1 .. Len(t) /\ t[1] = p BY <1>1
    <3>2. QED BY <3>1 DEF Listed
  <2>4. QED BY <2>1, <2>2, <2>3 DEF Listed
<1>4. \A k \in 1 .. Len(t) : word[t[k]] = Nth(t, k + 1)
  <2> TAKE k \in 1 .. Len(t)
  <2>1. Nth(t, k + 1) = Nth(s, k)
    <3>1. CASE k \in 1 .. Len(s) BY <1>1, <3>1 DEF Nth
    <3>2. CASE k \notin 1 .. Len(s) BY <1>1, <3>2 DEF Nth
    <3>3. QED BY <3>1, <3>2
  <2>2. CASE k = 1 BY <1>1, <2>1, <2>2 DEF ListIs
  <2>3. CASE k # 1
    <3>1. word[s[k - 1]] = Nth(s, (k - 1) + 1) BY <1>2, <2>3 DEF ListIs
    <3>2. QED BY <1>2, <2>1, <2>3, <3>1
  <2>4. QED BY <2>2, <2>3
<1>5. \A j, k \in 1 .. Len(t) : t[j] = t[k] => j = k
  <2> TAKE j, k \in 1 .. Len(t)
  <2> HAVE t[j] = t[k]
  <2>1. \A i \in 1 .. Len(t) : i = 1 <=> t[i] = p BY <1>1, <1>2 DEF Listed
  <2>2. CASE j = 1 \/ k = 1 BY <2>1, <2>2
  <2>3. CASE j # 1 /\ k # 1
    <3>1. j - 1 = k - 1 BY <1>2, <2>3 DEF ListIs
    <3>2. QED BY <3>1
  <2>4. QED BY <2>2, <2>3
<1>6. Nth(t, 1) = p BY <1>1 DEF Nth
<1>7. QED BY <1>1, <1>3, <1>4, <1>5, <1>6 DEF ListIs, Nth

LEMMA TakeOff ==
  ASSUME NEW s \in Seq(MemPages), ListIs(s), freelist \in MemPages, Nil \notin MemPages,
         freelist' = word[freelist], word' = word, NEW t, t = Tail(s)
  PROVE  /\ t \in Seq(MemPages) /\ ListIs(t)' /\ Listed(t) = Listed(s) \ {freelist}
         /\ freelist \in Listed(s)
<1>1. s # <<>> /\ Len(s) \in Nat /\ Len(s) > 0 /\ freelist = s[1] BY DEF ListIs, Nth
<1>2. /\ t \in Seq(MemPages) /\ Len(t) = Len(s) - 1
      /\ \A k \in 1 .. Len(t) : k + 1 \in 1 .. Len(s) /\ t[k] = s[k + 1]
  BY <1>1
<1>3. \A k : k \in Int => Nth(t, k) = IF k >= 1 THEN Nth(s, k + 1) ELSE Nil
  <2> SUFFICES ASSUME NEW k \in Int PROVE Nth(t, k) = IF k >= 1 THEN Nth(s, k + 1) ELSE Nil OBVIOUS
  <2>1. k \in 1 .. Len(t) <=> k >= 1 /\ k + 1 \in 1 .. Len(s) BY <1>1, <1>2
  <2>2. QED BY <1>2, <2>1 DEF Nth
<1>4. \A k \in 1 .. Len(t) : word[t[k]] = Nth(t, k + 1)
  <2> TAKE k \in 1 .. Len(t)
  <2>1. word[s[k + 1]] = Nth(s, (k + 1) + 1) BY <1>2 DEF ListIs
  <2>2. Nth(t, k + 1) = Nth(s, (k + 1) + 1) BY <1>2, <1>3
  <2>3. QED BY <1>2, <2>1, <2>2
<1>5. \A j, k \in 1 .. Len(t) : t[j] = t[k] => j = k
  <2> TAKE j, k \in 1 .. Len(t)
  <2> HAVE t[j] = t[k]
  <2>1. j + 1 = k + 1 BY <1>2 DEF ListIs
  <2>2. QED BY <2>1
<1>6. word[freelist] = Nth(t, 1)
  <2>1. word[s[1]] = Nth(s, 1 + 1) BY <1>1 DEF ListIs
  <2>2. QED BY <1>1, <1>3, <2>1
<1>7. Listed(t) = Listed(s) \ {freelist}
  <2>1. ASSUME NEW k \in 1 .. Len(t) PROVE s[k + 1] \in Listed(s) /\ s[k + 1] # s[1]
    BY <1>1, <1>2 DEF Listed, ListIs
  <2>2. ASSUME NEW k \in 1 .. Len(s), s[k] # s[1] PROVE s[k] \in Listed(t)
    <3>1. k - 1 \in 1 .. Len(t) BY <1>1, <1>2, <2>2
    <3>2. t[k - 1] = s[(k - 1) + 1] /\ (k - 1) + 1 = k BY <1>2, <3>1
    <3>3. QED BY <3>1, <3>2 DEF Listed
  <2>3. Listed(t) \subseteq Listed(s) \ {freelist} BY <1>1, <1>2, <2>1 DEF Listed
  <2>4. Listed(s) \ {freelist} \subseteq Listed(t) BY <1>1, <2>2 DEF Listed
  <2>5. QED BY <2>3, <2>4
<1>8. freelist \in Listed(s) BY <1>1 DEF Listed
<1>9. QED BY <1>2, <1>4, <1>5, <1>6, <1>7, <1>8 DEF ListIs, Nth

(* Writing a page that is not on the list leaves the list.                    *)
LEMMA WriteOff ==
  ASSUME NEW s \in Seq(MemPages), ListIs(s), freelist' = freelist,
         \A p \in Listed(s) : word'[p] = word[p]
  PROVE  ListIs(s)'
<1>1. \A k \in 1 .. Len(s) : s[k] \in Listed(s) BY DEF Listed
<1>2. QED BY <1>1 DEF ListIs, Nth

LEMMA KallocStep == KallocInv /\ [KallocNext]_kallocVars => KallocInv'
<1>1. ASSUME KallocInv, UNCHANGED kallocVars PROVE KallocInv'
  <2> PICK s : ListHas(s) BY <1>1 DEF KallocInv
  <2>1. KallocTypes' /\ Locked' /\ OneUser'
    BY <1>1 DEF kallocVars, KallocInv, KallocTypes, Locked, OneUser, InHand
  <2>2. OnList' = OnList BY <1>1 DEF kallocVars, OnList, InHand
  <2>3. ListHas(s)' BY <1>1, <2>2 DEF kallocVars, ListHas, ListIs, Nth, Listed
  <2>4. QED BY <2>1, <2>3 DEF KallocInv
<1>2. ASSUME KallocInv, KallocNext PROVE KallocInv'
  <2> PICK c \in MemCPUs :
        \/ FreeLock(c) \/ Link(c) \/ PutFirst(c) \/ Freed(c) \/ kalloc(c) \/ Unlink(c) \/ Unlock(c) \/ Got(c)
        \/ \E p \in MemPages : kfree(c, p) \/ Write(c, p)
    BY <1>2 DEF KallocNext
  <2> PICK s : ListHas(s) BY <1>2 DEF KallocInv
  <2>1. /\ s \in Seq(MemPages) /\ ListIs(s) /\ Listed(s) = OnList /\ OnList \subseteq MemPages
        /\ KallocTypes /\ Locked /\ OneUser
    BY <1>2 DEF KallocInv, ListHas, OnList
  (* The list stays, when only pages off the list are written.                *)
  <2>2. ASSUME KallocTypes', Locked', OneUser', OnList' = OnList, freelist' = freelist,
               \A p \in OnList : word'[p] = word[p]
        PROVE  KallocInv'
    <3>1. ListIs(s)' BY <2>1, <2>2, WriteOff
    <3>2. ListHas(s)' BY <2>1, <2>2, <3>1 DEF ListHas, Listed
    <3>3. QED BY <2>2, <3>2 DEF KallocInv
  <2>3. CASE FreeLock(c)
    <3> USE DEF FreeLock, NowAt
    <3>1. KallocTypes' BY <2>1, <2>3 DEF KallocTypes
    <3>2. Locked' BY <2>1, <2>3, PagesAssumption DEF KallocTypes, Locked
    <3>3. \A d \in MemCPUs : InHand(d)' <=> InHand(d) BY <2>1, <2>3 DEF InHand, KallocTypes
    <3>4. OneUser' /\ OnList' = OnList BY <2>1, <2>3, <3>3 DEF OneUser, OnList
    <3>5. QED BY <2>2, <2>3, <3>1, <3>2, <3>4
  <2>4. CASE Link(c)
    <3> USE DEF Link, NowAt
    <3>1. KallocTypes' BY <2>1, <2>4 DEF KallocTypes
    <3>2. r[c] \in MemPages /\ InHand(c) BY <2>1, <2>4 DEF KallocTypes, Locked, InHand
    <3>3. Locked' BY <2>1, <2>4, <3>2, PagesAssumption DEF KallocTypes, Locked
    <3>4. \A d \in MemCPUs : InHand(d)' <=> InHand(d) BY <2>1, <2>4 DEF InHand, KallocTypes
    <3>5. OneUser' /\ OnList' = OnList BY <2>1, <2>4, <3>4 DEF OneUser, OnList
    <3>6. \A p \in OnList : word'[p] = word[p] BY <2>1, <2>4, <3>2 DEF OnList, KallocTypes
    <3>7. QED BY <2>2, <2>4, <3>1, <3>3, <3>5, <3>6
  <2>5. CASE PutFirst(c)
    <3> USE DEF PutFirst, NowAt
    <3>1. KallocTypes' BY <2>1, <2>5 DEF KallocTypes
    <3>2. r[c] \in MemPages /\ InHand(c) /\ users[r[c]] = {} /\ word[r[c]] = freelist /\ kmem_lock = c
      BY <2>1, <2>5 DEF KallocTypes, Locked, InHand, OneUser
    <3>3. Locked' BY <2>1, <2>5, <3>2, PagesAssumption DEF KallocTypes, Locked
    <3>4. \A d \in MemCPUs : InHand(d)' <=> InHand(d) /\ d # c BY <2>1, <2>5 DEF InHand, KallocTypes
    <3>5. OneUser' BY <2>1, <2>5, <3>4 DEF OneUser
    <3>6. OnList' = OnList \cup {r[c]}
      <4>1. \A d \in MemCPUs : InHand(d) /\ d # c => r[d] # r[c] BY <2>1, <3>2 DEF OneUser
      <4>2. QED BY <2>5, <3>2, <3>4, <4>1 DEF OnList
    <3>7. r[c] \notin Listed(s) BY <2>1, <3>2 DEF OnList
    <3> DEFINE t == <<r[c]>> \o s
    <3>8. t \in Seq(MemPages) /\ ListIs(t)' /\ Listed(t) = Listed(s) \cup {r[c]}
      BY <2>1, <2>5, <3>2, <3>7, PutOn
    <3>9. Listed(t) = OnList' BY <2>1, <3>6, <3>8
    <3>10. t' = t BY <2>5
    <3>11. ListHas(t)' BY <3>8, <3>9, <3>10 DEF ListHas, Listed
    <3>12. QED BY <3>1, <3>3, <3>5, <3>11 DEF KallocInv
  <2>6. CASE Freed(c)
    <3> USE DEF Freed, NowAt
    <3>1. KallocTypes' BY <2>1, <2>6 DEF KallocTypes
    <3>2. kmem_lock = c BY <2>1, <2>6 DEF Locked
    <3>3. Locked' BY <2>1, <2>6, <3>2, PagesAssumption DEF KallocTypes, Locked
    <3>4. \A d \in MemCPUs : InHand(d)' <=> InHand(d) BY <2>1, <2>6 DEF InHand, KallocTypes
    <3>5. \A d \in MemCPUs : InHand(d) => r'[d] = r[d] BY <2>1, <2>6 DEF InHand, KallocTypes
    <3>6. OneUser' /\ OnList' = OnList BY <2>1, <2>6, <3>4, <3>5 DEF OneUser, OnList
    <3>7. QED BY <2>2, <2>6, <3>1, <3>3, <3>6
  <2>7. CASE kalloc(c)
    <3> USE DEF kalloc, NowAt
    <3>1. KallocTypes' BY <2>1, <2>7 DEF KallocTypes
    <3>2. Locked' BY <2>1, <2>7, PagesAssumption DEF KallocTypes, Locked
    <3>3. \A d \in MemCPUs : InHand(d)' <=> InHand(d) BY <2>1, <2>7 DEF InHand, KallocTypes
    <3>4. \A d \in MemCPUs : InHand(d) => r'[d] = r[d] BY <2>1, <2>7 DEF InHand, KallocTypes
    <3>5. OneUser' /\ OnList' = OnList BY <2>1, <2>7, <3>3, <3>4 DEF OneUser, OnList
    <3>6. QED BY <2>2, <2>7, <3>1, <3>2, <3>5
  <2>8. CASE Unlink(c)
    <3> USE DEF Unlink, NowAt
    <3>1. r[c] = freelist /\ kmem_lock = c BY <2>1, <2>8 DEF Locked
    <3>2. Locked' BY <2>1, <2>8, <3>1, PagesAssumption DEF KallocTypes, Locked
    <3>3. CASE r[c] = Nil
      <4>1. KallocTypes' BY <2>1, <2>8, <3>3 DEF KallocTypes
      <4>2. \A d \in MemCPUs : InHand(d)' <=> InHand(d) BY <2>1, <2>8, <3>3 DEF InHand, KallocTypes
      <4>3. OneUser' /\ OnList' = OnList BY <2>1, <2>8, <4>2 DEF OneUser, OnList
      <4>4. QED BY <2>2, <2>8, <3>1, <3>2, <3>3, <4>1, <4>3
    <3>4. CASE r[c] # Nil
      <4>1. freelist \in MemPages BY <2>1, <3>1, <3>4 DEF KallocTypes
      <4> DEFINE t == Tail(s)
      <4>2. /\ t \in Seq(MemPages) /\ ListIs(t)' /\ Listed(t) = Listed(s) \ {freelist}
            /\ freelist \in Listed(s)
        BY <2>1, <2>8, <3>1, <3>4, <4>1, PagesAssumption, TakeOff
      <4>3. freelist' \in MemPages \cup {Nil}
        <5>1. freelist' = Nth(t, 1) BY <4>2 DEF ListIs, Nth
        <5>2. QED BY <4>2, <5>1 DEF Nth
      <4>4. KallocTypes' BY <2>1, <2>8, <4>3 DEF KallocTypes
      <4>5. \A d \in MemCPUs : InHand(d)' <=> InHand(d) \/ d = c
        BY <2>1, <2>8, <3>4 DEF InHand, KallocTypes
      <4>6. users[r[c]] = {} /\ \A d \in MemCPUs : InHand(d) => r[d] # r[c]
        BY <2>1, <3>1, <4>2 DEF OnList
      <4>7. OneUser' BY <2>1, <2>8, <4>5, <4>6 DEF OneUser
      <4>8. OnList' = OnList \ {r[c]} BY <2>8, <4>5 DEF OnList
      <4>9. ListHas(t)' BY <2>1, <3>1, <4>2, <4>8 DEF ListHas, Listed
      <4>10. QED BY <3>2, <4>4, <4>7, <4>9 DEF KallocInv
    <3>5. QED BY <3>3, <3>4
  <2>9. CASE Unlock(c)
    <3> USE DEF Unlock, NowAt
    <3>1. KallocTypes' BY <2>1, <2>9 DEF KallocTypes
    <3>2. kmem_lock = c BY <2>1, <2>9 DEF Locked
    <3>3. Locked' BY <2>1, <2>9, <3>2, PagesAssumption DEF KallocTypes, Locked
    <3>4. \A d \in MemCPUs : InHand(d)' <=> InHand(d) BY <2>1, <2>9 DEF InHand, KallocTypes
    <3>5. OneUser' /\ OnList' = OnList BY <2>1, <2>9, <3>4 DEF OneUser, OnList
    <3>6. QED BY <2>2, <2>9, <3>1, <3>3, <3>5
  <2>10. CASE Got(c)
    <3> USE DEF Got, NowAt
    <3>1. r[c] \in MemPages /\ InHand(c) /\ users[r[c]] = {}
      BY <2>1, <2>10 DEF KallocTypes, Locked, InHand, OneUser
    <3>2. KallocTypes' BY <2>1, <2>10, <3>1 DEF KallocTypes
    <3>3. Locked'
      <4>1. \A d \in MemCPUs : step[d] = "head" => r[d] # r[c]
        BY <2>1, <2>10, <3>1 DEF OneUser, Locked, InHand
      <4>2. QED BY <2>1, <2>10, <3>1, <4>1, PagesAssumption DEF KallocTypes, Locked
    <3>4. \A d \in MemCPUs : InHand(d)' <=> InHand(d) /\ d # c BY <2>1, <2>10 DEF InHand, KallocTypes
    <3>5. \A d \in MemCPUs : d # c => r'[d] = r[d] BY <2>1, <2>10 DEF KallocTypes
    <3>6. \A d \in MemCPUs : InHand(d) /\ d # c => r[d] # r[c] BY <2>1, <3>1 DEF OneUser
    <3>7. \A p \in MemPages : users'[p] = IF p = r[c] THEN {c} ELSE users[p]
      BY <2>1, <2>10, <3>1 DEF KallocTypes
    <3>8. OneUser'
      <4>1. \A p \in MemPages, d, e \in MemCPUs : d \in users'[p] /\ e \in users'[p] => d = e
        BY <2>1, <3>7 DEF OneUser
      <4>2. \A d, e \in MemCPUs : InHand(d)' /\ InHand(e)' /\ r'[d] = r'[e] => d = e
        BY <2>1, <3>4, <3>5 DEF OneUser
      <4>3. ASSUME NEW d \in MemCPUs, InHand(d)' PROVE users'[r'[d]] = {}
        <5>1. InHand(d) /\ d # c /\ r'[d] = r[d] /\ r[d] # r[c] BY <3>4, <3>5, <3>6, <4>3
        <5>2. r[d] \in MemPages /\ users[r[d]] = {} BY <2>1, <5>1 DEF OneUser, KallocTypes, InHand
        <5>3. QED BY <3>7, <5>1, <5>2
      <4>4. QED BY <4>1, <4>2, <4>3 DEF OneUser
    <3>9. OnList' = OnList
      <4>1. ASSUME NEW p \in MemPages
            PROVE  p \in OnList' <=> p \in OnList
        <5>1. CASE p = r[c] BY <3>1, <3>7, <5>1 DEF OnList
        <5>2. CASE p # r[c]
          <6>1. \A d \in MemCPUs : (InHand(d)' => r'[d] # p) <=> (InHand(d) => r[d] # p)
            BY <3>4, <3>5, <5>2
          <6>2. QED BY <3>7, <5>2, <6>1 DEF OnList
        <5>3. QED BY <5>1, <5>2
      <4>2. QED BY <4>1 DEF OnList
    <3>10. \A p \in OnList : word'[p] = word[p] BY <2>1, <2>10, <3>1 DEF OnList, KallocTypes
    <3>11. QED BY <2>2, <2>10, <3>2, <3>3, <3>8, <3>9, <3>10
  <2>11. ASSUME NEW p \in MemPages, kfree(c, p) PROVE KallocInv'
    <3> USE DEF kfree, NowAt
    <3>1. KallocTypes' BY <2>1, <2>11 DEF KallocTypes
    <3>2. users[p] = {c} BY <2>1, <2>11 DEF OneUser, KallocTypes
    <3>3. \A d \in MemCPUs : InHand(d) => r[d] # p BY <2>1, <3>2 DEF OneUser
    <3>4. Locked'
      <4>1. \A d \in MemCPUs : step[d] = "head" => r[d] # p BY <2>1, <3>3 DEF Locked, InHand
      <4>2. QED BY <2>1, <2>11, <4>1, PagesAssumption DEF KallocTypes, Locked
    <3>5. \A d \in MemCPUs : InHand(d)' <=> InHand(d) \/ d = c
      BY <2>1, <2>11, PagesAssumption DEF InHand, KallocTypes, Locked
    <3>6. r'[c] = p /\ \A d \in MemCPUs : d # c => r'[d] = r[d] BY <2>1, <2>11 DEF KallocTypes
    <3>7. \A q \in MemPages : users'[q] = IF q = p THEN {} ELSE users[q] BY <2>1, <2>11, <3>2 DEF KallocTypes
    <3>8. OneUser'
      <4>1. \A q \in MemPages, d, e \in MemCPUs : d \in users'[q] /\ e \in users'[q] => d = e
        BY <2>1, <3>7 DEF OneUser
      <4>2. \A d, e \in MemCPUs : InHand(d)' /\ InHand(e)' /\ r'[d] = r'[e] => d = e
        BY <2>1, <3>3, <3>5, <3>6 DEF OneUser
      <4>3. ASSUME NEW d \in MemCPUs, InHand(d)' PROVE users'[r'[d]] = {}
        <5>1. CASE d = c BY <3>6, <3>7, <5>1
        <5>2. CASE d # c
          <6>1. InHand(d) /\ r'[d] = r[d] BY <3>5, <3>6, <4>3, <5>2
          <6>2. r[d] \in MemPages /\ users[r[d]] = {} BY <2>1, <6>1 DEF OneUser, KallocTypes, InHand
          <6>3. QED BY <3>7, <6>1, <6>2
        <5>3. QED BY <5>1, <5>2
      <4>4. QED BY <4>1, <4>2, <4>3 DEF OneUser
    <3>9. OnList' = OnList
      <4>1. ASSUME NEW q \in MemPages
            PROVE  q \in OnList' <=> q \in OnList
        <5>1. CASE q = p
          <6>1. q \notin OnList BY <3>2, <5>1 DEF OnList
          <6>2. q \notin OnList' BY <3>5, <3>6, <5>1 DEF OnList
          <6>3. QED BY <6>1, <6>2
        <5>2. CASE q # p
          <6>1. ~InHand(c) BY <2>1, <2>11 DEF InHand, Locked
          <6>2. \A d \in MemCPUs : (InHand(d)' => r'[d] # q) <=> (InHand(d) => r[d] # q)
            BY <3>5, <3>6, <5>2, <6>1
          <6>3. QED BY <3>7, <5>2, <6>2 DEF OnList
        <5>3. QED BY <5>1, <5>2
      <4>2. QED BY <4>1 DEF OnList
    <3>10. \A q \in OnList : word'[q] = word[q] BY <2>1, <2>11, <3>2 DEF OnList, KallocTypes
    <3>11. QED BY <2>2, <2>11, <3>1, <3>4, <3>8, <3>9, <3>10
  <2>12. ASSUME NEW p \in MemPages, Write(c, p) PROVE KallocInv'
    <3>1. users[p] # {} BY <2>12 DEF Write
    <3>2. PICK x \in MemPages : word' = [word EXCEPT ![p] = x] BY <2>12 DEF Write
    <3>3. UNCHANGED <<freelist, kmem_lock, users, step, r>> BY <2>12 DEF Write
    <3>4. KallocTypes' BY <2>1, <3>2, <3>3 DEF KallocTypes
    <3>5. \A d \in MemCPUs : InHand(d) => r[d] # p BY <2>1, <3>1 DEF OneUser
    <3>6. Locked'
      <4>1. \A d \in MemCPUs : step[d] = "head" => r[d] # p BY <2>1, <3>5 DEF Locked, InHand
      <4>2. \A d \in MemCPUs : step[d] = "head" => word'[r[d]] = word[r[d]]
        BY <2>1, <3>2, <4>1 DEF KallocTypes, Locked
      <4>3. QED BY <2>1, <3>3, <4>2 DEF Locked
    <3>7. OneUser' /\ OnList' = OnList BY <2>1, <3>3 DEF OneUser, OnList, InHand
    <3>8. \A q \in OnList : word'[q] = word[q] BY <2>1, <3>1, <3>2 DEF OnList, KallocTypes
    <3>9. QED BY <2>2, <3>3, <3>4, <3>6, <3>7, <3>8
  <2>13. QED BY <2>3, <2>4, <2>5, <2>6, <2>7, <2>8, <2>9, <2>10, <2>11, <2>12
<1>3. QED BY <1>1, <1>2

LEMMA KallocStart == KallocInit => KallocInv
<1> SUFFICES ASSUME KallocInit PROVE KallocInv OBVIOUS
<1>1. KallocTypes /\ Locked /\ OneUser
  BY PagesAssumption DEF KallocInit, KallocTypes, Locked, OneUser, InHand
<1>2. PICK s \in Lists : ListIs(s) /\ Listed(s) = MemPages BY DEF KallocInit
<1>3. s \in Seq(MemPages) BY <1>2 DEF Lists
<1>4. OnList = MemPages BY DEF KallocInit, OnList, InHand
<1>5. ListHas(s) BY <1>2, <1>3, <1>4 DEF ListHas
<1>6. QED BY <1>1, <1>5 DEF KallocInv

(* A list of pages without repetition is no longer than there are pages.      *)
LEMMA ListBound ==
  ASSUME NEW s \in Seq(MemPages), \A j, k \in 1 .. Len(s) : s[j] = s[k] => j = k
  PROVE  s \in Lists
<1>1. s \in [1 .. Len(s) -> MemPages] /\ Len(s) \in Nat OBVIOUS
<1>2. s \in Injection(1 .. Len(s), MemPages) BY <1>1 DEF Injection, IsInjective
<1> DEFINE n == Len(s)
<1>3. IsFiniteSet(1 .. n) /\ Cardinality(1 .. n) = n
  <2>1. n \in Nat BY <1>1
  <2> HIDE DEF n
  <2>2. Cardinality(1 .. n) = (IF 1 > n THEN 0 ELSE n - 1 + 1) /\ IsFiniteSet(1 .. n)
    BY <2>1, FS_Interval
  <2>3. QED BY <2>1, <2>2
<1>4. Len(s) <= Cardinality(MemPages) /\ Cardinality(MemPages) \in Nat
  BY <1>2, <1>3, PagesAssumption, FS_Injection, FS_CardinalityType DEF ExistsInjection
<1>5. Len(s) \in 0 .. Cardinality(MemPages) BY <1>1, <1>4
<1>6. QED BY <1>1, <1>5 DEF Lists

(* kfree() and kalloc() on any number of CPUs lose no page and hand none out  *)
(* twice; and whatever users write in their pages, the list stays one.        *)
THEOREM ListRightAlways == KallocSpec => []ListRight
<1>1. KallocInv => ListRight
  <2> SUFFICES ASSUME KallocInv PROVE ListRight OBVIOUS
  <2>1. PICK s : ListHas(s) BY DEF KallocInv
  <2>2. s \in Seq(MemPages) /\ ListIs(s) /\ Listed(s) = OnList BY <2>1 DEF ListHas
  <2>3. s \in Lists
    <3>1. \A j, k \in 1 .. Len(s) : s[j] = s[k] => j = k BY <2>2 DEF ListIs
    <3>2. QED BY <2>2, <3>1, ListBound
  <2>4. ASSUME NEW p \in MemPages PROVE Cardinality(users[p]) <= 1
    <3>1. \A c, d \in users[p] : c = d BY DEF KallocInv, KallocTypes, OneUser
    <3>2. CASE users[p] = {}
      <4>1. Cardinality({}) = 0 BY FS_EmptySet
      <4>2. QED BY <3>2, <4>1
    <3>3. CASE users[p] # {}
      <4>1. PICK c : c \in users[p] BY <3>3
      <4>2. users[p] = {c} BY <3>1, <4>1
      <4>3. Cardinality({c}) = 1 BY FS_Singleton
      <4>4. QED BY <4>2, <4>3
    <3>4. QED BY <3>2, <3>3
  <2>5. \A p \in Listed(s) : users[p] = {} BY <2>2 DEF OnList
  <2>6. ASSUME kmem_lock = Nil
        PROVE  OnList = {p \in MemPages : users[p] = {} /\ \A c \in MemCPUs : r[c] # p}
    <3>1. \A c \in MemCPUs : r[c] # Nil <=> InHand(c)
      BY <2>6, PagesAssumption DEF KallocInv, KallocTypes, Locked, InHand
    <3>2. QED BY <3>1, PagesAssumption DEF OnList
  <2>7. QED BY <2>2, <2>3, <2>4, <2>5, <2>6 DEF ListRight
<1>2. QED BY <1>1, KallocStart, KallocStep, PTL DEF KallocSpec

-----------------------------------------------------------------------------
(* Console: counting modulo 2^32, and cells of a ring of 128.                 *)
Index == 0 .. IndexMod - 1
Char  == Keys \cup {NoChar}

LEMMA ModIs ==
  ASSUME NEW n \in Nat \ {0}, NEW q \in Int, NEW t \in 0 .. n - 1, NEW a \in Int, a = n * q + t
  PROVE  a % n = t
OBVIOUS

LEMMA ModCase ==
  ASSUME NEW n \in Nat \ {0}, NEW a \in Int, -n <= a, a < 2 * n
  PROVE  a % n = IF a < 0 THEN a + n ELSE IF a < n THEN a ELSE a - n
<1>1. CASE a < 0
  <2>1. a + n \in 0 .. n - 1 /\ a = n * (-1) + (a + n) BY <1>1
  <2>2. QED BY <1>1, <2>1, ModIs
<1>2. CASE 0 <= a /\ a < n
  <2>1. a \in 0 .. n - 1 /\ a = n * 0 + a BY <1>2
  <2>2. QED BY <1>2, <2>1, ModIs
<1>3. CASE n <= a
  <2>1. a - n \in 0 .. n - 1 /\ a = n * 1 + (a - n) BY <1>3
  <2>2. QED BY <1>3, <2>1, ModIs
<1>4. QED BY <1>1, <1>2, <1>3

LEMMA Split ==
  ASSUME NEW m \in Nat \ {0}, NEW a \in Int
  PROVE  \E q \in Int : \E t \in 0 .. m - 1 : a = (m * q) + t /\ a % m = t
<1>1. a \div m \in Int /\ a % m \in 0 .. m - 1 /\ a = (m * (a \div m)) + (a % m) OBVIOUS
<1>2. QED BY <1>1

LEMMA ModShift ==
  ASSUME NEW m \in Nat \ {0}, NEW a \in Int, NEW q \in Int PROVE (a - m * q) % m = a % m
<1>1. PICK d \in Int, t \in 0 .. m - 1 : a = m * d + t /\ a % m = t BY Split
<1>2. m * q \in Int /\ m * d \in Int /\ d - q \in Int OBVIOUS
<1>3. m * (d - q) = m * d - m * q OBVIOUS
<1>4. a - m * q = m * (d - q) + t BY <1>1, <1>2, <1>3
<1>5. a - m * q \in Int BY <1>2
<1>6. (a - m * q) % m = t BY <1>2, <1>4, <1>5, ModIs
<1>7. QED BY <1>1, <1>6

LEMMA Apart ==
  ASSUME NEW m \in Nat \ {0}, NEW a \in Int, NEW b \in Int, a < b, b - a < m
  PROVE  a % m # b % m
<1>1. PICK d \in Int, t \in 0 .. m - 1 : a = m * d + t /\ a % m = t BY Split
<1>2. PICK f \in Int, u \in 0 .. m - 1 : b = m * f + u /\ b % m = u BY Split
<1>3. SUFFICES ASSUME t = u PROVE FALSE BY <1>1, <1>2
<1>4. m * d \in Int /\ m * f \in Int /\ f - d \in Int OBVIOUS
<1>5. m * (f - d) = m * f - m * d OBVIOUS
<1>6. 0 < m * (f - d) /\ m * (f - d) < m BY <1>1, <1>2, <1>3, <1>4, <1>5
<1>7. CASE f - d <= 0
  <2>1. m * (f - d) <= 0 BY <1>4, <1>7
  <2>2. QED BY <1>6, <2>1, <1>4
<1>8. CASE f - d >= 1
  <2>1. m * (f - d) >= m BY <1>4, <1>8
  <2>2. QED BY <1>6, <2>1, <1>4
<1>9. QED BY <1>4, <1>7, <1>8

LEMMA DiffIs ==
  ASSUME NEW i \in Index, NEW j \in Index
  PROVE  /\ Diff(i, j) = IF i >= j THEN i - j ELSE i - j + IndexMod
         /\ Diff(i, j) \in Index
<1>1. IndexMod \in Nat \ {0} BY ConsAssumption
<1>2. PICK a \in Int : a = i - j BY DEF Index
<1>3. -IndexMod <= a /\ a < 2 * IndexMod /\ a < IndexMod BY <1>1, <1>2 DEF Index
<1>4. a % IndexMod = IF a < 0 THEN a + IndexMod ELSE IF a < IndexMod THEN a ELSE a - IndexMod
  BY <1>1, <1>3, ModCase
<1>5. Diff(i, j) = IF a < 0 THEN a + IndexMod ELSE a BY <1>2, <1>3, <1>4 DEF Diff
<1>6. QED BY <1>1, <1>2, <1>3, <1>5 DEF Index

LEMMA MoveIs ==
  ASSUME NEW i \in Index, NEW a \in Int, -IndexMod < a, a < IndexMod
  PROVE  /\ (i + a) % IndexMod = IF i + a < 0 THEN i + a + IndexMod
                                ELSE IF i + a < IndexMod THEN i + a ELSE i + a - IndexMod
         /\ (i + a) % IndexMod \in Index
<1>1. IndexMod \in Nat \ {0} BY ConsAssumption
<1>2. PICK b \in Int : b = i + a BY DEF Index
<1>3. -IndexMod <= b /\ b < 2 * IndexMod BY <1>1, <1>2 DEF Index
<1>4. b % IndexMod = IF b < 0 THEN b + IndexMod ELSE IF b < IndexMod THEN b ELSE b - IndexMod
  BY <1>1, <1>3, ModCase
<1>5. PICK x : x = b % IndexMod OBVIOUS
<1>6. x \in Index BY <1>1, <1>3, <1>4, <1>5 DEF Index
<1>7. x = (i + a) % IndexMod BY <1>2, <1>5
<1>8. x = IF b < 0 THEN b + IndexMod ELSE IF b < IndexMod THEN b ELSE b - IndexMod BY <1>4, <1>5
<1>9. x = IF i + a < 0 THEN i + a + IndexMod ELSE IF i + a < IndexMod THEN i + a ELSE i + a - IndexMod
  <2>1. i \in Int /\ IndexMod \in Int BY <1>1 DEF Index
  <2>2. CASE b < 0 BY <2>1, <2>2, <1>2, <1>8
  <2>3. CASE ~(b < 0) /\ b < IndexMod BY <2>1, <2>3, <1>2, <1>8
  <2>4. CASE ~(b < 0) /\ ~(b < IndexMod) BY <2>1, <2>4, <1>2, <1>8
  <2>5. QED BY <2>2, <2>3, <2>4
<1>10. QED BY <1>6, <1>7, <1>9, Zenon

(* The length of a text that gets longer or shorter at either end.            *)
LEMMA DiffMoves ==
  ASSUME NEW i \in Index, NEW j \in Index
  PROVE  /\ Diff(i, j) + 1 < IndexMod => Diff((i + 1) % IndexMod, j) = Diff(i, j) + 1
         /\ i # j => /\ Diff((i - 1) % IndexMod, j) = Diff(i, j) - 1
                     /\ Diff(i, (j + 1) % IndexMod) = Diff(i, j) - 1
         /\ (i - Diff(i, j)) % IndexMod = j
         /\ Diff(i, j) = 0 <=> i = j
<1>1. IndexMod \in Nat /\ IndexMod > 1 /\ IndexMod \in Int BY ConsAssumption
<1>2. PICK d \in Index : d = Diff(i, j) /\ d = IF i >= j THEN i - j ELSE i - j + IndexMod BY DiffIs
<1>a. ASSUME NEW n \in Index
      PROVE  \E x \in Index : x = (n + 1) % IndexMod /\ x = IF n + 1 < IndexMod THEN n + 1 ELSE n + 1 - IndexMod
  <2>1. 1 \in Int /\ -IndexMod < 1 /\ 1 < IndexMod BY <1>1
  <2>2. (n + 1) % IndexMod = (IF n + 1 < 0 THEN n + 1 + IndexMod
           ELSE IF n + 1 < IndexMod THEN n + 1 ELSE n + 1 - IndexMod)
        /\ (n + 1) % IndexMod \in Index
    BY <2>1, MoveIs
  <2>3. ~(n + 1 < 0) BY DEF Index
  <2>4. QED BY <2>2, <2>3
<1>3. PICK x \in Index : x = (i + 1) % IndexMod /\ x = IF i + 1 < IndexMod THEN i + 1 ELSE i + 1 - IndexMod
  BY <1>a
<1>4. PICK z \in Index : z = (j + 1) % IndexMod /\ z = IF j + 1 < IndexMod THEN j + 1 ELSE j + 1 - IndexMod
  BY <1>a
<1>5. PICK y \in Index : y = (i - 1) % IndexMod /\ y = IF i - 1 < 0 THEN i - 1 + IndexMod ELSE i - 1
  <2>1. i - 1 = i + (-1) /\ -1 \in Int /\ -IndexMod < -1 /\ -1 < IndexMod /\ i + (-1) < IndexMod
    BY <1>1 DEF Index
  <2>2. (i + (-1)) % IndexMod = (IF i + (-1) < 0 THEN i + (-1) + IndexMod
           ELSE IF i + (-1) < IndexMod THEN i + (-1) ELSE i + (-1) - IndexMod)
        /\ (i + (-1)) % IndexMod \in Index
    BY <2>1, MoveIs
  <2>3. QED BY <2>1, <2>2
<1>6. Diff(x, j) = IF x >= j THEN x - j ELSE x - j + IndexMod BY DiffIs
<1>7. Diff(y, j) = IF y >= j THEN y - j ELSE y - j + IndexMod BY DiffIs
<1>8. Diff(i, z) = IF i >= z THEN i - z ELSE i - z + IndexMod BY DiffIs
<1>9. (i - d) % IndexMod = j
  <2>1. PICK a \in Int : a = -d BY DEF Index
  <2>2. -IndexMod < a /\ a < IndexMod BY <1>1, <2>1 DEF Index
  <2>3. (i + a) % IndexMod = IF i + a < 0 THEN i + a + IndexMod
                            ELSE IF i + a < IndexMod THEN i + a ELSE i + a - IndexMod
    BY <2>2, MoveIs
  <2>4. i + a = i - d BY <2>1 DEF Index
  <2>5. i - d = j \/ i - d = j - IndexMod BY <1>1, <1>2 DEF Index
  <2>6. QED BY <1>1, <2>3, <2>4, <2>5 DEF Index
<1>10. QED BY <1>1, <1>2, <1>3, <1>4, <1>5, <1>6, <1>7, <1>8, <1>9 DEF Index

LEMMA DiffSum ==
  ASSUME NEW i \in Index, NEW j \in Index, NEW k \in Index, Diff(j, i) <= Diff(k, i)
  PROVE  Diff(k, j) = Diff(k, i) - Diff(j, i)
<1>1. IndexMod \in Nat BY ConsAssumption
<1>2. PICK a \in Index : a = Diff(k, j) /\ a = IF k >= j THEN k - j ELSE k - j + IndexMod BY DiffIs
<1>3. PICK b \in Index : b = Diff(k, i) /\ b = IF k >= i THEN k - i ELSE k - i + IndexMod BY DiffIs
<1>4. PICK c \in Index : c = Diff(j, i) /\ c = IF j >= i THEN j - i ELSE j - i + IndexMod BY DiffIs
<1>5. QED BY <1>1, <1>2, <1>3, <1>4 DEF Index

LEMMA PlusDiff ==
  ASSUME NEW i \in Index, NEW j \in Index PROVE (i + Diff(j, i)) % IndexMod = j
<1>1. IndexMod \in Nat /\ IndexMod > 1 /\ IndexMod \in Int BY ConsAssumption
<1>2. PICK d \in Index : d = Diff(j, i) /\ d = IF j >= i THEN j - i ELSE j - i + IndexMod BY DiffIs
<1>3. -IndexMod < d /\ d < IndexMod /\ d \in Int BY <1>1 DEF Index
<1>4. (i + d) % IndexMod = IF i + d < 0 THEN i + d + IndexMod
                          ELSE IF i + d < IndexMod THEN i + d ELSE i + d - IndexMod
  BY <1>3, MoveIs
<1>5. i + d = j \/ i + d = j + IndexMod BY <1>1, <1>2 DEF Index
<1>6. QED BY <1>1, <1>2, <1>4, <1>5 DEF Index

(* A cell of the ring.  Wrapping at IndexMod does not move it.                *)
Cell(j)    == j % INPUT_BUF_SIZE
Plus(i, k) == (i + k) % IndexMod
Ring       == [0 .. INPUT_BUF_SIZE - 1 -> Char]

LEMMA CellIs ==
  ASSUME NEW a \in Int
  PROVE  /\ Cell(a) \in 0 .. INPUT_BUF_SIZE - 1
         /\ \A b \in Int : a < b /\ b - a < INPUT_BUF_SIZE => Cell(a) # Cell(b)
<1>1. INPUT_BUF_SIZE \in Nat \ {0} BY ConsAssumption
<1>2. a % INPUT_BUF_SIZE \in 0 .. INPUT_BUF_SIZE - 1 BY <1>1
<1>3. QED BY <1>1, <1>2, Apart DEF Cell

LEMMA PlusIs ==
  ASSUME NEW i \in Index, NEW k \in Index
  PROVE  /\ Plus(i, k) \in Index
         /\ Plus(i, k) = IF i + k < IndexMod THEN i + k ELSE i + k - IndexMod
<1>1. IndexMod \in Nat /\ IndexMod > 1 BY ConsAssumption
<1>2. k \in Int /\ -IndexMod < k /\ k < IndexMod BY <1>1 DEF Index
<1>3. Plus(i, k) \in Index /\ Plus(i, k) = IF i + k < 0 THEN i + k + IndexMod
        ELSE IF i + k < IndexMod THEN i + k ELSE i + k - IndexMod
  BY <1>2, MoveIs DEF Plus
<1>4. ~(i + k < 0) BY DEF Index
<1>5. QED BY <1>3, <1>4

LEMMA Wrapped ==
  ASSUME NEW i \in Index, NEW k \in Index, NEW j \in Int,
         NEW a \in Int, a = i + k + j, NEW b \in Int, b = Plus(i, k) + j
  PROVE  Cell(a) = Cell(b)
<1>1. INPUT_BUF_SIZE \in Nat \ {0} /\ IndexMod \in Nat \ {0} /\ IndexMod % INPUT_BUF_SIZE = 0
      /\ i \in Int /\ k \in Int
  BY ConsAssumption DEF Index
<1>2. CASE i + k < IndexMod BY <1>2, PlusIs
<1>3. CASE ~ (i + k < IndexMod)
  <2>0. PICK m \in Int : m = IndexMod BY <1>1
  <2>1. PICK q \in Int, t \in 0 .. INPUT_BUF_SIZE - 1 :
          m = (INPUT_BUF_SIZE * q) + t /\ m % INPUT_BUF_SIZE = t
    BY <1>1, Split
  <2>2. IndexMod = INPUT_BUF_SIZE * q BY <1>1, <2>0, <2>1
  <2>3. b = a - IndexMod BY <1>1, <1>3, PlusIs
  <2>4. (a - INPUT_BUF_SIZE * q) % INPUT_BUF_SIZE = a % INPUT_BUF_SIZE BY <1>1, ModShift
  <2>5. QED BY <2>2, <2>3, <2>4 DEF Cell
<1>4. QED BY <1>2, <1>3

(* What Text is made of: n characters of the ring d from the index i.         *)
Cells(d, i, n) == [k \in 1 .. n |-> d[Cell(i + k - 1)]]

LEMMA CellsAre ==
  ASSUME NEW d \in Ring, NEW i \in Int, NEW n \in Nat
  PROVE  /\ Cells(d, i, n) \in Seq(Char) /\ Len(Cells(d, i, n)) = n
         /\ \A k \in 1 .. n : Cells(d, i, n)[k] = d[Cell(i + k - 1)]
<1>1. \A k \in 1 .. n : Cell(i + k - 1) \in 0 .. INPUT_BUF_SIZE - 1 BY CellIs
<1>2. Cells(d, i, n) \in [1 .. n -> Char] BY <1>1 DEF Cells, Ring
<1>3. Cells(d, i, n) \in Seq(Char) BY <1>2, SeqDef
<1>4. Len(Cells(d, i, n)) = n BY <1>2, <1>3, LenProperties
<1>5. QED BY <1>1, <1>3, <1>4 DEF Cells

LEMMA SameSeq ==
  ASSUME NEW S, NEW s \in Seq(S), NEW t \in Seq(S), Len(s) = Len(t),
         \A k \in 1 .. Len(s) : s[k] = t[k]
  PROVE  s = t
BY SeqEqual

Stored(f, d, e, c) == f = [d EXCEPT ![Cell(e)] = c]
Lies(e, i, m)      == e = Plus(i, m)
Sum(l, m, n)       == l = m + n

LEMMA StoredIs ==
  ASSUME NEW d \in Ring, NEW e \in Index, NEW c \in Char, NEW f, Stored(f, d, e, c)
  PROVE  /\ f \in Ring /\ f[Cell(e)] = c
         /\ \A y \in 0 .. INPUT_BUF_SIZE - 1 : y # Cell(e) => f[y] = d[y]
<1>1. e \in Int BY DEF Index
<1>2. Cell(e) \in 0 .. INPUT_BUF_SIZE - 1 BY <1>1, CellIs
<1>3. QED BY <1>2 DEF Ring, Stored

LEMMA CellPlus ==
  ASSUME NEW i \in Index, NEW k \in Index PROVE Cell(Plus(i, k)) = Cell(i + k)
<1>1. i \in Int /\ k \in Int BY DEF Index
<1>2. PICK a \in Int : a = i + k BY <1>1
<1>3. PICK b \in Int : b = Plus(i, k) BY PlusIs DEF Index
<1>4. a = i + k + 0 /\ b = Plus(i, k) + 0 BY <1>1, <1>2, <1>3
<1>5. Cell(a) = Cell(b) BY <1>4, Wrapped
<1>6. QED BY <1>2, <1>3, <1>5

(* A character typed behind m others changes none of the first n of them.     *)
LEMMA CellsKept ==
  ASSUME NEW d \in Ring, NEW i \in Index, NEW m \in Nat, m < INPUT_BUF_SIZE, NEW n \in 0 .. m,
         NEW c \in Char, NEW e \in Index, Lies(e, i, m), NEW f, Stored(f, d, e, c)
  PROVE  Cells(f, i, n) = Cells(d, i, n)
<1>1. INPUT_BUF_SIZE \in Nat \ {0} /\ IndexMod \in Nat /\ m \in Index /\ i \in Int /\ n \in Nat
  BY ConsAssumption DEF Index
<1>2. PICK w \in Int : w = i + m BY <1>1
<1>3. Cell(e) = Cell(w) BY <1>1, <1>2, CellPlus DEF Lies
<1>4. PICK g \in Ring : g = f /\ \A y \in 0 .. INPUT_BUF_SIZE - 1 : y # Cell(e) => g[y] = d[y]
  BY StoredIs
<1>5. PICK s \in Seq(Char) : /\ s = Cells(d, i, n) /\ Len(s) = n
                             /\ \A k \in 1 .. n : s[k] = d[Cell(i + k - 1)]
  BY <1>1, CellsAre
<1>6. PICK t \in Seq(Char) : /\ t = Cells(g, i, n) /\ Len(t) = n
                             /\ \A k \in 1 .. n : t[k] = g[Cell(i + k - 1)]
  BY <1>1, CellsAre
<1>7. ASSUME NEW k \in 1 .. n PROVE t[k] = s[k]
  <2>1. PICK a \in Int : a = i + k - 1 BY <1>1
  <2>2. a < w /\ w - a < INPUT_BUF_SIZE BY <1>1, <1>2, <2>1
  <2>3. Cell(a) # Cell(e) /\ Cell(a) \in 0 .. INPUT_BUF_SIZE - 1 BY <1>3, <2>2, CellIs
  <2>4. t[k] = g[Cell(a)] /\ s[k] = d[Cell(a)] BY <1>5, <1>6, <2>1
  <2>5. QED BY <1>4, <2>3, <2>4
<1>8. t = s BY <1>5, <1>6, <1>7, SameSeq
<1>9. QED BY <1>4, <1>5, <1>6, <1>8

LEMMA CellsAppend ==
  ASSUME NEW d \in Ring, NEW i \in Int, NEW n \in Nat
  PROVE  Cells(d, i, n + 1) = Append(Cells(d, i, n), d[Cell(i + n)])
<1>0. n + 1 \in Nat /\ Cell(i + n) \in 0 .. INPUT_BUF_SIZE - 1 BY CellIs
<1>1. PICK c \in Char : c = d[Cell(i + n)] BY <1>0 DEF Ring
<1>2. PICK s \in Seq(Char) : /\ s = Cells(d, i, n) /\ Len(s) = n
                             /\ \A k \in 1 .. n : s[k] = d[Cell(i + k - 1)]
  BY CellsAre
<1>3. PICK t \in Seq(Char) : /\ t = Cells(d, i, n + 1) /\ Len(t) = n + 1
                             /\ \A k \in 1 .. n + 1 : t[k] = d[Cell(i + k - 1)]
  BY <1>0, CellsAre
<1>4. PICK u \in Seq(Char) : /\ u = Append(s, c) /\ Len(u) = n + 1 /\ u[n + 1] = c
                             /\ \A k \in 1 .. n : u[k] = s[k]
  <2>1. Append(s, c) \in Seq(Char) /\ Len(Append(s, c)) = n + 1 /\ Append(s, c)[n + 1] = c
        /\ \A k \in 1 .. n : Append(s, c)[k] = s[k]
    BY <1>2, AppendProperties
  <2>2. QED BY <2>1
<1>5. t[n + 1] = c
  <2>1. n + 1 \in 1 .. n + 1 /\ i + (n + 1) - 1 = i + n OBVIOUS
  <2>2. t[n + 1] = d[Cell(i + (n + 1) - 1)] BY <1>3, <2>1
  <2>3. QED BY <1>1, <2>1, <2>2
<1>6. ASSUME NEW k \in 1 .. Len(t) PROVE t[k] = u[k]
  <2>1. k \in 1 .. n \/ k = n + 1 BY <1>3
  <2>2. k \in 1 .. n + 1 BY <1>3
  <2>3. QED BY <1>2, <1>3, <1>4, <1>5, <2>1, <2>2
<1>7. t = u BY <1>3, <1>4, <1>6, SameSeq
<1>8. QED BY <1>1, <1>2, <1>3, <1>4, <1>7

LEMMA CellsJoin ==
  ASSUME NEW d \in Ring, NEW i \in Index, NEW k \in Index, NEW n \in Nat,
         NEW l \in Nat, Sum(l, k, n)
  PROVE  Cells(d, i, l) = Cells(d, i, k) \o Cells(d, Plus(i, k), n)
<1>0. l = k + n BY DEF Sum
<1>1. i \in Int /\ k \in Nat /\ k + n \in Nat BY DEF Index
<1>2. PICK q \in Int : q = Plus(i, k) BY PlusIs DEF Index
<1>3. PICK s \in Seq(Char) : /\ s = Cells(d, i, k) /\ Len(s) = k
                             /\ \A j \in 1 .. k : s[j] = d[Cell(i + j - 1)]
  BY <1>1, CellsAre
<1>4. PICK t \in Seq(Char) : /\ t = Cells(d, q, n) /\ Len(t) = n
                             /\ \A j \in 1 .. n : t[j] = d[Cell(q + j - 1)]
  BY <1>2, CellsAre
<1>5. PICK u \in Seq(Char) : /\ u = Cells(d, i, k + n) /\ Len(u) = k + n
                             /\ \A j \in 1 .. k + n : u[j] = d[Cell(i + j - 1)]
  BY <1>1, CellsAre
<1>6. PICK v \in Seq(Char) : /\ v = s \o t /\ Len(v) = k + n
                             /\ \A j \in 1 .. k + n : v[j] = IF j <= k THEN s[j] ELSE t[j - k]
  <2>1. s \o t \in Seq(Char) /\ Len(s \o t) = k + n
        /\ \A j \in 1 .. k + n : (s \o t)[j] = IF j <= k THEN s[j] ELSE t[j - k]
    <3>1. /\ s \o t \in Seq(Char) /\ Len(s \o t) = Len(s) + Len(t)
          /\ \A j \in 1 .. Len(s) + Len(t) :
               (s \o t)[j] = IF j <= Len(s) THEN s[j] ELSE t[j - Len(s)]
      BY ConcatProperties, Zenon
    <3>2. QED BY <1>3, <1>4, <3>1
  <2>2. QED BY <2>1
<1>7. ASSUME NEW j \in 1 .. k + n PROVE u[j] = v[j]
  <2>1. CASE j <= k
    <3>1. j \in 1 .. k BY <1>1, <2>1
    <3>2. QED BY <1>3, <1>5, <1>6, <2>1, <3>1
  <2>2. CASE ~(j <= k)
    <3>1. j - k \in 1 .. n /\ j \in Int BY <1>1, <2>2
    <3>2. PICK h \in Int, a \in Int, b \in Int : h = j - k - 1 /\ a = i + k + h /\ b = q + h
      BY <1>1, <3>1
    <3>3. Cell(a) = Cell(b) BY <1>2, <3>2, Wrapped
    <3>4. i + j - 1 = a /\ q + (j - k) - 1 = b BY <1>1, <3>1, <3>2
    <3>5. u[j] = d[Cell(i + j - 1)] /\ t[j - k] = d[Cell(q + (j - k) - 1)] BY <1>4, <1>5, <3>1
    <3>6. QED BY <1>6, <2>2, <3>3, <3>4, <3>5
  <2>3. QED BY <2>1, <2>2
<1>8. u = v BY <1>5, <1>6, <1>7, SameSeq
<1>9. QED BY <1>0, <1>2, <1>3, <1>4, <1>5, <1>6, <1>8

LEMMA CellsFront ==
  ASSUME NEW d \in Ring, NEW i \in Int, NEW n \in Nat \ {0}
  PROVE  Cells(d, i, n - 1) = SubSeq(Cells(d, i, n), 1, n - 1)
<1>1. n - 1 \in Nat /\ n \in Nat OBVIOUS
<1>2. PICK s \in Seq(Char) : /\ s = Cells(d, i, n) /\ Len(s) = n
                             /\ \A k \in 1 .. n : s[k] = d[Cell(i + k - 1)]
  BY <1>1, CellsAre
<1>3. PICK t \in Seq(Char) : /\ t = Cells(d, i, n - 1) /\ Len(t) = n - 1
                             /\ \A k \in 1 .. n - 1 : t[k] = d[Cell(i + k - 1)]
  BY <1>1, CellsAre
<1>4. PICK u \in Seq(Char) : /\ u = SubSeq(s, 1, n - 1) /\ Len(u) = n - 1
                             /\ \A k \in 1 .. n - 1 : u[k] = s[k]
  <2>1. 1 \in Int /\ n - 1 \in Int /\ n - 1 - 1 + 1 = n - 1
        /\ \A k \in 1 .. n - 1 : 1 + k - 1 = k
    BY <1>1
  <2>2. \A k \in 1 .. n - 1 : s[k] \in Char BY <1>1, <1>2, ElementOfSeq
  <2>3. SubSeq(s, 1, n - 1) \in Seq(Char) BY <2>1, <2>2, SubSeqProperties
  <2>4. Len(SubSeq(s, 1, n - 1)) = n - 1 BY <1>1, <2>1, <2>2, SubSeqProperties
  <2>5. \A k \in 1 .. n - 1 : SubSeq(s, 1, n - 1)[k] = s[1 + k - 1]
    BY <2>1, <2>2, SubSeqProperties
  <2>6. QED BY <2>1, <2>3, <2>4, <2>5
<1>5. ASSUME NEW k \in 1 .. Len(t) PROVE t[k] = u[k]
  <2>1. k \in 1 .. n - 1 /\ k \in 1 .. n BY <1>1, <1>3
  <2>2. QED BY <1>2, <1>3, <1>4, <2>1
<1>6. t = u BY <1>3, <1>4, <1>5, SameSeq
<1>7. QED BY <1>2, <1>3, <1>4, <1>6

LEMMA CellsTail ==
  ASSUME NEW d \in Ring, NEW i \in Index, NEW n \in Nat \ {0}
  PROVE  /\ Cells(d, i, n) # <<>> /\ Head(Cells(d, i, n)) = d[Cell(i)]
         /\ Cells(d, Plus(i, 1), n - 1) = Tail(Cells(d, i, n))
<1>1. n - 1 \in Nat /\ n \in Nat /\ i \in Int /\ IndexMod \in Nat /\ 1 \in Index /\ i + 1 - 1 = i
  BY ConsAssumption DEF Index
<1>2. PICK q \in Int : q = Plus(i, 1) BY <1>1, PlusIs DEF Index
<1>3. PICK s \in Seq(Char) : /\ s = Cells(d, i, n) /\ Len(s) = n
                             /\ \A k \in 1 .. n : s[k] = d[Cell(i + k - 1)]
  BY <1>1, CellsAre
<1>4. PICK t \in Seq(Char) : /\ t = Cells(d, q, n - 1) /\ Len(t) = n - 1
                             /\ \A k \in 1 .. n - 1 : t[k] = d[Cell(q + k - 1)]
  BY <1>1, <1>2, CellsAre
<1>5. s # <<>> /\ Head(s) = s[1] BY <1>1, <1>3, HeadTailProperties
<1>6. PICK u \in Seq(Char) : /\ u = Tail(s) /\ Len(u) = n - 1
                             /\ \A k \in 1 .. n - 1 : u[k] = s[k + 1]
  <2>1. Tail(s) \in Seq(Char) /\ Len(Tail(s)) = n - 1 BY <1>3, <1>5, HeadTailProperties
  <2>2. \A k \in 1 .. Len(Tail(s)) : Tail(s)[k] = s[k + 1] BY <1>3, <1>5, HeadTailProperties
  <2>3. QED BY <2>1, <2>2
<1>7. s[1] = d[Cell(i)] BY <1>1, <1>3
<1>8. ASSUME NEW k \in 1 .. Len(t) PROVE t[k] = u[k]
  <2>1. k \in 1 .. n - 1 /\ k + 1 \in 1 .. n /\ k \in Int BY <1>1, <1>4
  <2>2. PICK j \in Int, a \in Int, b \in Int : j = k - 1 /\ a = i + 1 + j /\ b = q + j
    BY <1>1, <2>1
  <2>3. Cell(a) = Cell(b) BY <1>1, <1>2, <2>2, Wrapped
  <2>4. q + k - 1 = b /\ i + (k + 1) - 1 = a BY <1>1, <2>1, <2>2
  <2>5. t[k] = d[Cell(q + k - 1)] /\ s[k + 1] = d[Cell(i + (k + 1) - 1)] BY <1>3, <1>4, <2>1
  <2>6. QED BY <1>6, <2>1, <2>3, <2>4, <2>5
<1>9. t = u BY <1>4, <1>6, <1>8, SameSeq
<1>10. QED BY <1>2, <1>3, <1>4, <1>5, <1>6, <1>7, <1>9

-----------------------------------------------------------------------------
(* Console: the indices are in order and at most a ring apart; what is being  *)
(* edited ends no line; who makes up its mind to sleep has the lock, and it   *)
(* or a sleeper has nothing to read; who goes on reading is not past a line.  *)
Open == Char \ {"\n", "^D"}
ConsTypes ==
  /\ cons_buf \in Ring /\ cons_r \in Index /\ cons_w \in Index /\ cons_e \in Index
  /\ reader \in Readers \cup {NoChar} /\ reading \in [Readers -> {"user", "read", "doze", "sleep"}]
  /\ togo \in [Readers -> Int] /\ result \in [Readers -> Seq(Char)]
  /\ doomed \in [Readers -> BOOLEAN]
IndicesRight == Diff(cons_w, cons_r) <= Diff(cons_e, cons_r)
                /\ Diff(cons_e, cons_r) <= INPUT_BUF_SIZE
EditOpen     == Text(cons_w, cons_e) \in Seq(Open)
DozeRight(p) == reading[p] = "doze" => reader = p /\ cons_r = cons_w
SleeperRight(p) == reading[p] = "sleep" => cons_r = cons_w
PartRight(p) == reading[p] # "user" /\ result[p] # <<>> => result[p][Len(result[p])] \notin {"\n", "^D"}
ConsInv == /\ ConsTypes /\ IndicesRight /\ EditOpen
           /\ \A p \in Readers : DozeRight(p) /\ SleeperRight(p) /\ PartRight(p)

LEMMA Texts ==
  /\ Text(cons_r, cons_w) = Cells(cons_buf, cons_r, Diff(cons_w, cons_r))
  /\ Text(cons_w, cons_e) = Cells(cons_buf, cons_w, Diff(cons_e, cons_w))
  /\ Text(cons_r, cons_w)' = Cells(cons_buf', cons_r', Diff(cons_w', cons_r'))
  /\ Text(cons_w, cons_e)' = Cells(cons_buf', cons_w', Diff(cons_e', cons_w'))
BY DEF Text, Cells, At, Cell, Diff

(* Where the indices are.                                                     *)
LEMMA Places ==
  ASSUME cons_r \in Index, cons_w \in Index, cons_e \in Index, IndicesRight
  PROVE  \E n, m, l \in Nat :
           /\ n = Diff(cons_w, cons_r) /\ m = Diff(cons_e, cons_w) /\ l = Diff(cons_e, cons_r)
           /\ n \in Index /\ m \in Index /\ l = n + m /\ l <= INPUT_BUF_SIZE
           /\ cons_w = Plus(cons_r, n) /\ Lies(cons_e, cons_w, m) /\ Lies(cons_e, cons_r, l)
<1>1. PICK n \in Index : n = Diff(cons_w, cons_r) BY DiffIs
<1>2. PICK m \in Index : m = Diff(cons_e, cons_w) BY DiffIs
<1>3. PICK l \in Index : l = Diff(cons_e, cons_r) BY DiffIs
<1>4. m = l - n BY <1>1, <1>2, <1>3, DiffSum DEF IndicesRight
<1>5. l = n + m /\ l <= INPUT_BUF_SIZE BY <1>1, <1>2, <1>3, <1>4 DEF IndicesRight, Index
<1>6. cons_w = Plus(cons_r, n) /\ Lies(cons_e, cons_w, m) /\ Lies(cons_e, cons_r, l)
  BY <1>1, <1>2, <1>3, PlusDiff DEF Plus, Lies
<1>7. n \in Nat /\ m \in Nat /\ l \in Nat BY DEF Index
<1>8. QED BY <1>1, <1>2, <1>3, <1>5, <1>6, <1>7

LEMMA NoCells == ASSUME NEW d, NEW i PROVE Cells(d, i, 0) = <<>>
BY DEF Cells

LEMMA TypedIs == ASSUME NEW c \in Keys PROVE Typed(c) \in Keys \ {"\r"} /\ Typed(c) \in Char
BY ConsAssumption DEF Typed, Keys, Char

LEMMA Readers1 ==
  ASSUME ConsInv, NEW p \in Readers
  PROVE  DozeRight(p) /\ SleeperRight(p) /\ PartRight(p)
BY DEF ConsInv

(* What a character typed makes of a text.                                    *)
LEMMA CellsTyped ==
  ASSUME NEW d \in Ring, NEW i \in Index, NEW m \in Nat, m < INPUT_BUF_SIZE,
         NEW h \in Char, NEW e \in Index, Lies(e, i, m), NEW f, Stored(f, d, e, h),
         NEW k \in Nat, Sum(k, m, 1)
  PROVE  Cells(f, i, k) = Append(Cells(d, i, m), h)
<1>1. m \in Index /\ i \in Int BY ConsAssumption DEF Index
<1>2. Cells(f, i, m) = Cells(d, i, m)
  <2>1. PICK l \in 0 .. m : l = m OBVIOUS
  <2>2. Cells(f, i, l) = Cells(d, i, l) BY CellsKept
  <2>3. QED BY <2>1, <2>2
<1>3. f[Cell(e)] = h /\ Cell(e) = Cell(i + m) BY <1>1, CellPlus, StoredIs DEF Lies
<1>4. PICK g \in Ring : g = f BY StoredIs
<1>5. Cells(g, i, m + 1) = Append(Cells(g, i, m), g[Cell(i + m)]) BY <1>1, CellsAppend
<1>6. QED BY <1>2, <1>3, <1>4, <1>5 DEF Sum

(* A character typed joins what is edited, and the line when it ends it.      *)
LEMMA TypeStep ==
  ASSUME ConsInv, NEW c \in Keys, Type(c) PROVE ConsInv' /\ Discipline!Next
<1>a. ConsTypes /\ IndicesRight /\ EditOpen /\ \A p \in Readers : DozeRight(p) /\ SleeperRight(p) /\ PartRight(p)
  BY DEF ConsInv
<1>b. cons_buf \in Ring /\ cons_r \in Index /\ cons_w \in Index /\ cons_e \in Index
  BY <1>a DEF ConsTypes
<1>1. PICK n, m, l \in Nat :
        /\ n = Diff(cons_w, cons_r) /\ m = Diff(cons_e, cons_w) /\ l = Diff(cons_e, cons_r)
        /\ n \in Index /\ m \in Index /\ l = n + m /\ l <= INPUT_BUF_SIZE
        /\ cons_w = Plus(cons_r, n) /\ Lies(cons_e, cons_w, m) /\ Lies(cons_e, cons_r, l)
  BY <1>a, <1>b, Places
<1>2. l < INPUT_BUF_SIZE /\ m < INPUT_BUF_SIZE /\ INPUT_BUF_SIZE \in Nat
      /\ IndexMod \in Nat /\ INPUT_BUF_SIZE < IndexMod /\ n \in 0 .. l
  BY <1>1, ConsAssumption DEF Type
<1>0. PICK k \in Nat, j \in Nat : k = m + 1 /\ j = n + k /\ j = l + 1 BY <1>1
<1>3. PICK h \in Char : h = Typed(c) /\ h \in Keys \ {"\r"} BY TypedIs
<1>4. PICK f : f = cons_buf' OBVIOUS
<1>5. Stored(f, cons_buf, cons_e, h) BY <1>3, <1>4 DEF Type, Cell, Stored
<1>8. PICK L, E : L = Text(cons_r, cons_w) /\ E = Text(cons_w, cons_e)
                  /\ L = Cells(cons_buf, cons_r, n) /\ E = Cells(cons_buf, cons_w, m)
  BY <1>1, Texts
<1>9. L \in Seq(Char) /\ Len(L) = n /\ E \in Seq(Char) /\ Len(E) = m /\ E \in Seq(Open)
  <2>1. \A i \in Index : i \in Int BY DEF Index
  <2>2. L \in Seq(Char) /\ Len(L) = n BY <1>b, <1>8, <2>1, CellsAre
  <2>3. E \in Seq(Char) /\ Len(E) = m BY <1>b, <1>8, <2>1, CellsAre
  <2>4. E \in Seq(Open) BY <1>a, <1>8 DEF EditOpen
  <2>5. QED BY <2>2, <2>3, <2>4
<1>6. f \in Ring BY <1>b, <1>5, StoredIs
<1>7. Cells(f, cons_r, n) = L
  BY <1>b, <1>1, <1>2, <1>5, <1>8, CellsKept
<1>10. Cells(f, cons_w, k) = Append(E, h)
  <2>1. Sum(k, m, 1) BY <1>0 DEF Sum
  <2>2. Cells(f, cons_w, k) = Append(Cells(cons_buf, cons_w, m), h)
    <3>1. cons_buf \in Ring /\ cons_w \in Index /\ cons_e \in Index BY <1>b
    <3>2. m < INPUT_BUF_SIZE /\ Lies(cons_e, cons_w, m) BY <1>1, <1>2
    <3>3. QED BY <1>5, <2>1, <3>1, <3>2, CellsTyped
  <2>3. QED BY <1>8, <2>2
<1>11. Cells(f, cons_r, j) = L \o Append(E, h)
  <2>1. Sum(j, n, k) BY <1>0 DEF Sum
  <2>2. Cells(f, cons_r, j) = Cells(f, cons_r, n) \o Cells(f, Plus(cons_r, n), k)
    <3>1. PICK g \in Ring : g = f BY <1>6
    <3>2. Cells(g, cons_r, j) = Cells(g, cons_r, n) \o Cells(g, Plus(cons_r, n), k)
      <4>1. cons_r \in Index /\ n \in Index BY <1>b, <1>1
      <4>2. QED BY <2>1, <4>1, CellsJoin
    <3>3. QED BY <3>1, <3>2
  <2>3. QED BY <1>1, <1>7, <1>10, <2>2
<1>12. PICK x \in Index : x = cons_e' /\ Diff(x, cons_r) = j /\ Diff(x, cons_w) = k
  <2>1. cons_e' = (cons_e + 1) % IndexMod BY DEF Type
  <2>2. (cons_e + 1) % IndexMod \in Index
    <3>1. 1 \in Index BY <1>2, ConsAssumption DEF Index
    <3>2. QED BY <1>b, <3>1, PlusIs DEF Plus
  <2>3. PICK x \in Index : x = cons_e' /\ x = (cons_e + 1) % IndexMod BY <2>1, <2>2
  <2>4. Diff(x, cons_r) = Diff(cons_e, cons_r) + 1
    <3>1. Diff(cons_e, cons_r) + 1 < IndexMod BY <1>1, <1>2
    <3>2. QED BY <1>b, <2>3, <3>1, DiffMoves
  <2>5. Diff(x, cons_w) = Diff(cons_e, cons_w) + 1
    <3>1. Diff(cons_e, cons_w) + 1 < IndexMod BY <1>1, <1>2
    <3>2. QED BY <1>b, <2>3, <3>1, DiffMoves
  <2>6. QED BY <1>0, <1>1, <2>3, <2>4, <2>5
<1>13. Len(Append(E, h)) = k /\ Append(E, h) \in Seq(Char)
  BY <1>0, <1>3, <1>9, AppendProperties
<1>14. EndsLine(c, Diff(cons_e, cons_r) + 1) <=> h \in {"\n", "^D"} \/ j = INPUT_BUF_SIZE
  BY <1>0, <1>1, <1>3 DEF EndsLine
<1>15. UNCHANGED <<cons_r, reader, togo, result, doomed>> /\ reader = NoChar BY DEF Type
<1>16. CASE EndsLine(c, Diff(cons_e, cons_r) + 1)
  <2>1. cons_w' = x /\ reading' = WakeAll BY <1>12, <1>16 DEF Type
  <2>2. Diff(x, x) = 0 BY DiffMoves
  <2>3. Text(cons_r, cons_w)' = L \o Append(E, h)
    <3>1. Text(cons_r, cons_w)' = Cells(f, cons_r, Diff(x, cons_r)) BY <1>4, <1>15, <2>1, Texts
    <3>2. QED BY <1>11, <1>12, <3>1
  <2>4. Text(cons_w, cons_e)' = <<>>
    <3>1. Text(cons_w, cons_e)' = Cells(f, x, Diff(x, x)) BY <1>4, <1>12, <2>1, Texts
    <3>2. QED BY <2>2, <3>1, NoCells
  <2>5. Discipline!Type(h)
    <3>1. Len(L) + Len(E) < INPUT_BUF_SIZE BY <1>1, <1>2, <1>9
    <3>2. Discipline!Ends(h) \/ Len(L) + Len(Append(E, h)) = INPUT_BUF_SIZE
      BY <1>0, <1>9, <1>13, <1>14, <1>16 DEF Discipline!Ends
    <3>3. QED BY <1>8, <1>15, <2>3, <2>4, <3>1, <3>2 DEF Discipline!Type
  <2>6. ConsTypes'
    BY <1>a, <1>4, <1>6, <1>12, <1>15, <2>1 DEF ConsTypes, WakeAll
  <2>7. IndicesRight'
    BY <1>0, <1>2, <1>12, <1>15, <2>1 DEF IndicesRight
  <2>8. EditOpen' BY <2>4 DEF EditOpen
  <2>9. ASSUME NEW p \in Readers PROVE DozeRight(p)' /\ SleeperRight(p)' /\ PartRight(p)'
    <3>1. DozeRight(p) /\ SleeperRight(p) /\ PartRight(p) /\ p # NoChar BY <1>a, ConsAssumption
    <3>2. reading'[p] # "sleep" /\ (reading'[p] = "doze" => reading[p] = "doze")
          /\ (reading'[p] # "user" => reading[p] # "user")
      BY <1>a, <2>1 DEF WakeAll, ConsTypes
    <3>3. QED BY <1>15, <3>1, <3>2 DEF DozeRight, SleeperRight, PartRight
  <2>10. QED BY <1>3, <2>5, <2>6, <2>7, <2>8, <2>9 DEF ConsInv, Discipline!Next, Discipline!Stored
<1>17. CASE ~EndsLine(c, Diff(cons_e, cons_r) + 1)
  <2>1. cons_w' = cons_w /\ reading' = reading BY <1>17 DEF Type
  <2>2. Text(cons_r, cons_w)' = L
    <3>1. Text(cons_r, cons_w)' = Cells(f, cons_r, Diff(cons_w, cons_r)) BY <1>4, <1>15, <2>1, Texts
    <3>2. QED BY <1>1, <1>7, <3>1
  <2>3. Text(cons_w, cons_e)' = Append(E, h)
    <3>1. Text(cons_w, cons_e)' = Cells(f, cons_w, Diff(x, cons_w)) BY <1>4, <1>12, <2>1, Texts
    <3>2. QED BY <1>10, <1>12, <3>1
  <2>4. h \in Open BY <1>3, <1>14, <1>17 DEF Open
  <2>5. Discipline!Type(h)
    <3>1. Len(L) + Len(E) < INPUT_BUF_SIZE BY <1>1, <1>2, <1>9
    <3>2. ~(Discipline!Ends(h) \/ Len(L) + Len(Append(E, h)) = INPUT_BUF_SIZE)
      BY <1>0, <1>9, <1>13, <1>14, <1>17 DEF Discipline!Ends
    <3>3. QED BY <1>8, <1>15, <2>2, <2>3, <3>1, <3>2 DEF Discipline!Type
  <2>6. ConsTypes' BY <1>a, <1>4, <1>6, <1>12, <1>15, <2>1 DEF ConsTypes
  <2>7. IndicesRight'
    BY <1>0, <1>1, <1>2, <1>12, <1>15, <2>1 DEF IndicesRight
  <2>8. EditOpen' BY <1>9, <2>3, <2>4, AppendProperties DEF EditOpen
  <2>9. ASSUME NEW p \in Readers PROVE DozeRight(p)' /\ SleeperRight(p)' /\ PartRight(p)'
    BY <1>a, <1>15, <2>1 DEF DozeRight, SleeperRight, PartRight
  <2>10. QED BY <1>3, <2>5, <2>6, <2>7, <2>8, <2>9 DEF ConsInv, Discipline!Next, Discipline!Stored
<1>18. QED BY <1>16, <1>17

(* What an interrupt that edits the line leaves alone.                        *)
LEMMA EditKeeps ==
  ASSUME ConsInv, UNCHANGED <<cons_buf, cons_r, cons_w, reader, reading, togo, result, doomed>>,
         cons_e' \in Index, IndicesRight', EditOpen'
  PROVE  ConsInv'
BY DEF ConsInv, ConsTypes, DozeRight, SleeperRight, PartRight

LEMMA BackspaceStep ==
  ASSUME ConsInv, Backspace PROVE ConsInv' /\ Discipline!Next
<1>a. ConsTypes /\ IndicesRight /\ EditOpen BY DEF ConsInv
<1>b. cons_buf \in Ring /\ cons_r \in Index /\ cons_w \in Index /\ cons_e \in Index
  BY <1>a DEF ConsTypes
<1>c. /\ UNCHANGED <<cons_buf, cons_r, cons_w, reader, reading, togo, result, doomed>>
      /\ cons_e # cons_w /\ cons_e' = (cons_e - 1) % IndexMod
  BY DEF Backspace
<1>1. PICK n, m, l \in Nat :
        /\ n = Diff(cons_w, cons_r) /\ m = Diff(cons_e, cons_w) /\ l = Diff(cons_e, cons_r)
        /\ n \in Index /\ m \in Index /\ l = n + m /\ l <= INPUT_BUF_SIZE
        /\ cons_w = Plus(cons_r, n) /\ Lies(cons_e, cons_w, m) /\ Lies(cons_e, cons_r, l)
  BY <1>a, <1>b, Places
<1>2. m \in Nat \ {0} /\ l # 0 /\ m - 1 \in Nat /\ cons_w \in Int
  <2>1. m # 0 BY <1>b, <1>c, <1>1, DiffMoves
  <2>2. cons_w \in Int BY <1>b DEF Index
  <2>3. QED BY <1>1, <2>1, <2>2
<1>3. cons_e # cons_r BY <1>b, <1>1, <1>2, DiffMoves
<1>4. PICK x \in Index : x = cons_e'
  <2>1. IndexMod \in Nat /\ IndexMod > 1 BY ConsAssumption
  <2>2. PICK a \in Int : a = -1 OBVIOUS
  <2>3. -IndexMod < a /\ a < IndexMod BY <2>1, <2>2
  <2>4. (cons_e + a) % IndexMod \in Index BY <1>b, <2>3, MoveIs
  <2>5. cons_e + a = cons_e - 1 BY <1>b, <2>2 DEF Index
  <2>6. QED BY <1>c, <2>4, <2>5
<1>5. Diff(x, cons_w) = m - 1 /\ Diff(x, cons_r) = l - 1
  <2>1. Diff((cons_e - 1) % IndexMod, cons_w) = Diff(cons_e, cons_w) - 1 BY <1>b, <1>c, DiffMoves
  <2>2. Diff((cons_e - 1) % IndexMod, cons_r) = Diff(cons_e, cons_r) - 1 BY <1>b, <1>3, DiffMoves
  <2>3. QED BY <1>c, <1>1, <1>4, <2>1, <2>2
<1>6. PICK E : E = Text(cons_w, cons_e) /\ E = Cells(cons_buf, cons_w, m) BY <1>1, Texts
<1>7. E \in Seq(Open) /\ Len(E) = m
  <2>1. Len(E) = m BY <1>b, <1>2, <1>6, CellsAre
  <2>2. QED BY <1>a, <1>6, <2>1 DEF EditOpen
<1>8. Text(cons_r, cons_w)' = Text(cons_r, cons_w) BY <1>c, Texts
<1>9. Text(cons_w, cons_e)' = SubSeq(E, 1, Len(E) - 1)
  <2>1. Text(cons_w, cons_e)' = Cells(cons_buf, cons_w, m - 1) BY <1>c, <1>4, <1>5, Texts
  <2>2. Cells(cons_buf, cons_w, m - 1) = SubSeq(Cells(cons_buf, cons_w, m), 1, m - 1)
    BY <1>b, <1>2, CellsFront
  <2>3. QED BY <1>6, <1>7, <2>1, <2>2
<1>10. E # <<>>
  <2>1. Len(E) # 0 BY <1>2, <1>7
  <2>2. QED BY <2>1
<1>11. SubSeq(E, 1, Len(E) - 1) \in Seq(Open)
  <2>1. PICK h \in Int : h = m - 1 BY <1>2
  <2>2. \A k \in 1 .. h : E[k] \in Open
    <3>1. \A k \in 1 .. h : k \in 1 .. Len(E)
      <4>1. h \in Int /\ Len(E) \in Int /\ h <= Len(E) BY <1>2, <1>7, <2>1
      <4>2. QED BY <4>1
    <3>2. QED BY <1>7, <3>1, ElementOfSeq
  <2>3. 1 \in Int /\ SubSeq(E, 1, h) \in Seq(Open) BY <1>7, <2>2, SubSeqProperties
  <2>4. QED BY <1>7, <2>1, <2>3
<1>12. Discipline!Correct BY <1>c, <1>6, <1>8, <1>9, <1>10 DEF Discipline!Correct
<1>13. IndicesRight'
  <2>1. n <= l - 1 /\ l - 1 <= INPUT_BUF_SIZE BY <1>1, <1>2, ConsAssumption
  <2>2. Diff(cons_w', cons_r') = n /\ Diff(cons_e', cons_r') = l - 1 BY <1>c, <1>1, <1>4, <1>5
  <2>3. QED BY <2>1, <2>2 DEF IndicesRight
<1>14. EditOpen' BY <1>9, <1>11 DEF EditOpen
<1>15. ConsInv' BY <1>c, <1>4, <1>13, <1>14, EditKeeps
<1>16. QED BY <1>12, <1>15 DEF Discipline!Next

(* ^U: nothing edited ends a line, so all of it goes.                         *)
LEMMA KillLineStep ==
  ASSUME ConsInv, KillLine PROVE ConsInv' /\ Discipline!Next
<1>a. ConsTypes /\ IndicesRight /\ EditOpen BY DEF ConsInv
<1>b. cons_buf \in Ring /\ cons_r \in Index /\ cons_w \in Index /\ cons_e \in Index
  BY <1>a DEF ConsTypes
<1>c. /\ UNCHANGED <<cons_buf, cons_r, cons_w, reader, reading, togo, result, doomed>>
      /\ cons_e # cons_w
  BY DEF KillLine
<1>1. PICK n, m, l \in Nat :
        /\ n = Diff(cons_w, cons_r) /\ m = Diff(cons_e, cons_w) /\ l = Diff(cons_e, cons_r)
        /\ n \in Index /\ m \in Index /\ l = n + m /\ l <= INPUT_BUF_SIZE
        /\ cons_w = Plus(cons_r, n) /\ Lies(cons_e, cons_w, m) /\ Lies(cons_e, cons_r, l)
  BY <1>a, <1>b, Places
<1>2. m # 0 /\ cons_w \in Int /\ cons_e \in Int BY <1>b, <1>c, <1>1, DiffMoves DEF Index
<1>3. PICK E : E = Text(cons_w, cons_e) /\ E = Cells(cons_buf, cons_w, m) BY <1>1, Texts
<1>4. E \in Seq(Open) /\ Len(E) = m /\ \A k \in 1 .. m : E[k] = cons_buf[Cell(cons_w + k - 1)]
  <2>1. Len(E) = m /\ \A k \in 1 .. m : E[k] = cons_buf[Cell(cons_w + k - 1)]
    BY <1>b, <1>2, <1>3, CellsAre
  <2>2. QED BY <1>a, <1>3, <2>1 DEF EditOpen
<1>5. ASSUME NEW k \in 0 .. m, At(cons_e - k - 1) = "\n" PROVE k = m
  <2>1. SUFFICES ASSUME k # m PROVE FALSE OBVIOUS
  <2>2. PICK h \in 1 .. m : h = m - k BY <1>5, <2>1
  <2>3. PICK j \in Int, a \in Int, b \in Int : j = -k - 1 /\ a = cons_w + m + j /\ b = cons_e + j
    BY <1>2, <1>1
  <2>4. Cell(a) = Cell(b)
    <3>1. b = Plus(cons_w, m) + j BY <1>1, <2>3 DEF Lies
    <3>2. a = cons_w + m + j BY <2>3
    <3>3. m \in Index BY <1>1
    <3>4. QED BY <1>b, <3>1, <3>2, <3>3, Wrapped
  <2>5. cons_w + h - 1 = a /\ cons_e - k - 1 = b
    <3>1. k \in Int /\ h \in Int /\ m \in Int OBVIOUS
    <3>2. PICK u \in Int, v \in Int : u = cons_w /\ v = cons_e BY <1>2
    <3>3. a = u + m + (-k - 1) /\ b = v + (-k - 1) BY <2>3, <3>2
    <3>4. u + h - 1 = a BY <2>2, <3>1, <3>3
    <3>5. v - k - 1 = b BY <3>1, <3>3
    <3>6. QED BY <3>2, <3>4, <3>5
  <2>6. E[h] = "\n" BY <1>4, <1>5, <2>4, <2>5 DEF At, Cell
  <2>7. E[h] \in Open BY <1>4, ElementOfSeq
  <2>8. QED BY <2>6, <2>7 DEF Open
<1>6. cons_e' = cons_w
  <2>1. PICK k \in {h \in 0 .. Diff(cons_e, cons_w) :
                      h = Diff(cons_e, cons_w) \/ At(cons_e - h - 1) = "\n"} :
          cons_e' = (cons_e - k) % IndexMod
    BY DEF KillLine
  <2>2. k = m BY <1>1, <1>5, <2>1
  <2>3. (cons_e - Diff(cons_e, cons_w)) % IndexMod = cons_w BY <1>b, DiffMoves
  <2>4. QED BY <1>1, <2>1, <2>2, <2>3
<1>7. Diff(cons_w, cons_w) = 0 BY <1>b, DiffMoves
<1>8. Text(cons_r, cons_w)' = Text(cons_r, cons_w) BY <1>c, Texts
<1>9. Text(cons_w, cons_e)' = <<>>
  <2>1. Text(cons_w, cons_e)' = Cells(cons_buf, cons_w, 0) BY <1>c, <1>6, <1>7, Texts
  <2>2. QED BY <2>1, NoCells
<1>10. E # <<>>
  <2>1. Len(E) # 0 BY <1>2, <1>4
  <2>2. QED BY <2>1
<1>11. Discipline!Correct BY <1>c, <1>3, <1>8, <1>9, <1>10 DEF Discipline!Correct
<1>12. IndicesRight'
  <2>1. n <= n /\ n <= INPUT_BUF_SIZE BY <1>1, ConsAssumption
  <2>2. Diff(cons_w', cons_r') = n /\ Diff(cons_e', cons_r') = n BY <1>c, <1>1, <1>6
  <2>3. QED BY <2>1, <2>2 DEF IndicesRight
<1>13. EditOpen' BY <1>9 DEF EditOpen
<1>14. ConsInv' BY <1>b, <1>c, <1>6, <1>12, <1>13, EditKeeps
<1>15. QED BY <1>11, <1>14 DEF Discipline!Next

(* A step of process p that types nothing and reads no character.             *)
LEMMA TextsKept ==
  ASSUME UNCHANGED <<cons_buf, cons_r, cons_w, cons_e>>
  PROVE  /\ Text(cons_r, cons_w)' = Text(cons_r, cons_w)
         /\ Text(cons_w, cons_e)' = Text(cons_w, cons_e)
BY Texts

LEMMA ReaderKeeps ==
  ASSUME ConsInv, NEW p \in Readers, UNCHANGED <<cons_buf, cons_r, cons_w, cons_e>>,
         reader' \in {NoChar, p, reader}, NEW l \in {"user", "read", "doze", "sleep"},
         ReaderAt(p, l), togo' \in [Readers -> Int], result' \in [Readers -> Seq(Char)],
         doomed' \in [Readers -> BOOLEAN], \A q \in Readers \ {p} : result'[q] = result[q],
         reader' # reader => reader \in {NoChar, p},
         l = "doze" => reader' = p, l \in {"doze", "sleep"} => cons_r = cons_w,
         l # "user" /\ result'[p] # <<>> => result'[p][Len(result'[p])] \notin {"\n", "^D"}
  PROVE  ConsInv'
<1>1. ConsTypes' BY DEF ConsInv, ConsTypes, ReaderAt
<1>2. IndicesRight' BY DEF ConsInv, IndicesRight
<1>3. EditOpen' BY TextsKept DEF ConsInv, EditOpen
<1>4. ASSUME NEW q \in Readers PROVE DozeRight(q)' /\ SleeperRight(q)' /\ PartRight(q)'
  <2>1. DozeRight(q) /\ SleeperRight(q) /\ PartRight(q) /\ q # NoChar
    BY ConsAssumption DEF ConsInv
  <2>2. reading'[q] = IF q = p THEN l ELSE reading[q] BY DEF ConsInv, ConsTypes, ReaderAt
  <2>3. CASE q = p BY <2>2, <2>3 DEF DozeRight, SleeperRight, PartRight
  <2>4. CASE q # p
    <3>1. reading[q] = "doze" => reader' = q BY <2>1, <2>4 DEF DozeRight
    <3>2. QED BY <2>1, <2>2, <2>4, <3>1 DEF DozeRight, SleeperRight, PartRight
  <2>5. QED BY <2>3, <2>4
<1>5. QED BY <1>1, <1>2, <1>3, <1>4 DEF ConsInv

LEMMA QuietStep ==
  ASSUME ConsInv, NEW p \in Readers,
         (\E n \in 1 .. MaxRead : Read(p, n)) \/ WaitForLine(p) \/ Sleep(p) \/ Take(p) \/ Kill(p)
           \/ Replaced(p)
  PROVE  ConsInv' /\ (Discipline!Next \/ UNCHANGED Discipline!vars)
<1>1. /\ ConsTypes /\ UNCHANGED <<cons_buf, cons_r, cons_w, cons_e>> /\ p # NoChar
      /\ DozeRight(p) /\ SleeperRight(p) /\ PartRight(p)
  BY ConsAssumption DEF ConsInv, Read, WaitForLine, Sleep, Take, Kill, Replaced
<1>2. <<>> \in Seq(Char) OBVIOUS
<1>3. ASSUME result' = [result EXCEPT ![p] = <<>>] PROVE Discipline!Next
  BY <1>1, <1>3, TextsKept DEF Discipline!Next, Discipline!Forget
<1>4. ASSUME result' = result PROVE UNCHANGED Discipline!vars
  BY <1>1, <1>4, TextsKept DEF Discipline!vars
<1>5. ASSUME NEW n \in 1 .. MaxRead, Read(p, n) PROVE ConsInv' /\ result' = result
  <2>1. /\ reader' = reader /\ ReaderAt(p, "read") /\ togo' \in [Readers -> Int] /\ result' = result
        /\ doomed' = doomed /\ result'[p] = <<>>
    BY <1>1, <1>5 DEF Read, ConsTypes
  <2>2. QED BY <1>1, <2>1, ReaderKeeps DEF ConsTypes
<1>6. ASSUME WaitForLine(p) PROVE ConsInv' /\ (result' = result \/ result' = [result EXCEPT ![p] = <<>>])
  <2>1. reader \in {NoChar, p} /\ cons_r = cons_w /\ doomed' = doomed BY <1>6 DEF WaitForLine, HasLock
  <2>2. CASE doomed[p]
    <3>1. /\ reader' = NoChar /\ ReaderAt(p, "user") /\ togo' \in [Readers -> Int]
          /\ result' = [result EXCEPT ![p] = <<>>]
      BY <1>1, <1>6, <2>2 DEF WaitForLine, Returns, ConsTypes
    <3>2. result' \in [Readers -> Seq(Char)] /\ \A q \in Readers \ {p} : result'[q] = result[q]
      BY <1>1, <1>2, <3>1 DEF ConsTypes
    <3>3. QED BY <1>1, <2>1, <3>1, <3>2, ReaderKeeps DEF ConsTypes
  <2>3. CASE ~doomed[p]
    <3>1. reader' = p /\ ReaderAt(p, "doze") /\ togo' = togo /\ result' = result
      BY <1>6, <2>3 DEF WaitForLine
    <3>2. result'[p] # <<>> => result'[p][Len(result'[p])] \notin {"\n", "^D"}
      BY <1>1, <1>6, <3>1 DEF PartRight, WaitForLine, HasLock
    <3>3. QED BY <1>1, <2>1, <3>1, <3>2, ReaderKeeps DEF ConsTypes
  <2>4. QED BY <2>2, <2>3
<1>7. ASSUME Sleep(p) PROVE ConsInv' /\ result' = result
  <2>1. /\ reader' = NoChar /\ ReaderAt(p, "sleep") /\ UNCHANGED <<togo, result, doomed>>
        /\ reader = p /\ cons_r = cons_w
    BY <1>1, <1>7 DEF Sleep, DozeRight
  <2>2. result'[p] # <<>> => result'[p][Len(result'[p])] \notin {"\n", "^D"}
    BY <1>1, <1>7, <2>1 DEF PartRight, Sleep
  <2>3. QED BY <1>1, <2>1, <2>2, ReaderKeeps DEF ConsTypes
<1>8. ASSUME Take(p) PROVE ConsInv' /\ result' = [result EXCEPT ![p] = <<>>]
  <2>1. /\ result' = [result EXCEPT ![p] = <<>>] /\ UNCHANGED <<reader, togo, doomed>>
        /\ ReaderAt(p, "user")
    BY <1>1, <1>8 DEF Take, ReaderAt, ConsTypes
  <2>2. result' \in [Readers -> Seq(Char)] /\ \A q \in Readers \ {p} : result'[q] = result[q]
    BY <1>1, <1>2, <2>1 DEF ConsTypes
  <2>3. QED BY <1>1, <2>1, <2>2, ReaderKeeps DEF ConsTypes
<1>9. ASSUME Kill(p) PROVE ConsInv' /\ result' = result
  <2>1. PICK l \in {"user", "read", "doze", "sleep"} :
          ReaderAt(p, l) /\ l = (IF reading[p] = "sleep" THEN "read" ELSE reading[p])
    BY <1>1, <1>9 DEF Kill, ConsTypes
  <2>2. doomed' \in [Readers -> BOOLEAN] /\ UNCHANGED <<reader, togo, result>>
    BY <1>1, <1>9 DEF Kill, ConsTypes
  <2>3. /\ l = "doze" => reader = p /\ cons_r = cons_w
        /\ l # "sleep" /\ (l # "user" => reading[p] # "user")
    BY <1>1, <2>1 DEF DozeRight
  <2>4. l # "user" /\ result'[p] # <<>> => result'[p][Len(result'[p])] \notin {"\n", "^D"}
    BY <1>1, <2>2, <2>3 DEF PartRight
  <2>5. QED BY <1>1, <2>1, <2>2, <2>3, <2>4, ReaderKeeps DEF ConsTypes
<1>10. ASSUME Replaced(p) PROVE ConsInv' /\ result' = result
  <2>1. /\ doomed' \in [Readers -> BOOLEAN] /\ UNCHANGED <<reader, togo, result>>
        /\ ReaderAt(p, "user")
    BY <1>1, <1>10 DEF Replaced, ReaderAt, ConsTypes
  <2>2. QED BY <1>1, <2>1, ReaderKeeps DEF ConsTypes
<1>11. QED BY <1>3, <1>4, <1>5, <1>6, <1>7, <1>8, <1>9, <1>10

(* A character that is read is the first of the lines.                        *)
LEMMA FirstRead ==
  ASSUME ConsInv, cons_r # cons_w, cons_r' = (cons_r + 1) % IndexMod,
         UNCHANGED <<cons_buf, cons_w, cons_e>>
  PROVE  /\ cons_r' \in Index /\ IndicesRight' /\ EditOpen'
         /\ Text(cons_r, cons_w) # <<>> /\ Head(Text(cons_r, cons_w)) = At(cons_r)
         /\ Text(cons_r, cons_w)' = Tail(Text(cons_r, cons_w))
         /\ Text(cons_w, cons_e)' = Text(cons_w, cons_e)
<1>a. ConsTypes /\ IndicesRight /\ EditOpen BY DEF ConsInv
<1>b. cons_buf \in Ring /\ cons_r \in Index /\ cons_w \in Index /\ cons_e \in Index
  BY <1>a DEF ConsTypes
<1>1. PICK n, m, l \in Nat :
        /\ n = Diff(cons_w, cons_r) /\ m = Diff(cons_e, cons_w) /\ l = Diff(cons_e, cons_r)
        /\ n \in Index /\ m \in Index /\ l = n + m /\ l <= INPUT_BUF_SIZE
        /\ cons_w = Plus(cons_r, n) /\ Lies(cons_e, cons_w, m) /\ Lies(cons_e, cons_r, l)
  BY <1>a, <1>b, Places
<1>2. n \in Nat \ {0} /\ l # 0
  <2>1. n # 0 BY <1>b, <1>1, DiffMoves
  <2>2. QED BY <1>1, <2>1
<1>3. cons_e # cons_r BY <1>b, <1>1, <1>2, DiffMoves
<1>4. PICK x \in Index : x = cons_r' /\ x = Plus(cons_r, 1)
  <2>1. 1 \in Index BY ConsAssumption DEF Index
  <2>2. Plus(cons_r, 1) \in Index BY <1>b, <2>1, PlusIs
  <2>3. QED BY <2>2 DEF Plus
<1>5. Diff(cons_w, x) = n - 1 /\ Diff(cons_e, x) = l - 1
  <2>1. Diff(cons_w, (cons_r + 1) % IndexMod) = Diff(cons_w, cons_r) - 1 BY <1>b, DiffMoves
  <2>2. Diff(cons_e, (cons_r + 1) % IndexMod) = Diff(cons_e, cons_r) - 1 BY <1>b, <1>3, DiffMoves
  <2>3. QED BY <1>1, <1>4, <2>1, <2>2 DEF Plus
<1>6. Text(cons_w, cons_e)' = Text(cons_w, cons_e) BY Texts
<1>7. IndicesRight'
  <2>1. n - 1 <= l - 1 /\ l - 1 <= INPUT_BUF_SIZE BY <1>1, <1>2, ConsAssumption
  <2>2. Diff(cons_w', cons_r') = n - 1 /\ Diff(cons_e', cons_r') = l - 1 BY <1>4, <1>5
  <2>3. QED BY <2>1, <2>2 DEF IndicesRight
<1>8. EditOpen' BY <1>a, <1>6 DEF EditOpen
<1>9. PICK L : L = Text(cons_r, cons_w) /\ L = Cells(cons_buf, cons_r, n) BY <1>1, Texts
<1>10. /\ L # <<>> /\ Head(L) = cons_buf[Cell(cons_r)]
       /\ Cells(cons_buf, Plus(cons_r, 1), n - 1) = Tail(L)
  BY <1>b, <1>2, <1>9, CellsTail
<1>11. Text(cons_r, cons_w)' = Tail(L) BY <1>4, <1>5, <1>10, Texts
<1>12. QED BY <1>4, <1>6, <1>7, <1>8, <1>9, <1>10, <1>11 DEF At, Cell

(* Nobody dozes or sleeps while there is something to read.                   *)
LEMMA TakerKeeps ==
  ASSUME ConsInv, cons_r # cons_w, cons_r' \in Index, IndicesRight', EditOpen',
         UNCHANGED <<cons_buf, cons_w, cons_e, doomed>>, NEW p \in Readers,
         reader' \in {NoChar, p}, NEW l \in {"user", "read"}, ReaderAt(p, l),
         togo' \in [Readers -> Int], result' \in [Readers -> Seq(Char)],
         \A q \in Readers \ {p} : result'[q] = result[q],
         l # "user" /\ result'[p] # <<>> => result'[p][Len(result'[p])] \notin {"\n", "^D"}
  PROVE  ConsInv'
<1>1. ConsTypes' BY DEF ConsInv, ConsTypes, ReaderAt
<1>2. ASSUME NEW q \in Readers PROVE DozeRight(q)' /\ SleeperRight(q)' /\ PartRight(q)'
  <2>1. reading[q] \notin {"doze", "sleep"} /\ PartRight(q) BY DEF ConsInv, DozeRight, SleeperRight
  <2>2. reading'[q] = IF q = p THEN l ELSE reading[q] BY DEF ConsInv, ConsTypes, ReaderAt
  <2>3. reading'[q] \notin {"doze", "sleep"} BY <2>1, <2>2
  <2>4. PartRight(q)' BY <2>1, <2>2 DEF PartRight
  <2>5. QED BY <2>3, <2>4 DEF DozeRight, SleeperRight
<1>3. QED BY <1>1, <1>2 DEF ConsInv

LEMMA ByteStep ==
  ASSUME ConsInv, NEW p \in Readers, Byte(p) PROVE ConsInv' /\ Discipline!Next
<1>1. /\ ConsTypes /\ PartRight(p) /\ reading[p] = "read" /\ cons_r # cons_w /\ At(cons_r) # "^D"
      /\ cons_r' = (cons_r + 1) % IndexMod /\ UNCHANGED <<cons_buf, cons_w, cons_e, doomed>>
  BY DEF ConsInv, Byte, HasLock
<1>2. /\ cons_r' \in Index /\ IndicesRight' /\ EditOpen'
      /\ Text(cons_r, cons_w) # <<>> /\ Head(Text(cons_r, cons_w)) = At(cons_r)
      /\ Text(cons_r, cons_w)' = Tail(Text(cons_r, cons_w))
      /\ Text(cons_w, cons_e)' = Text(cons_w, cons_e)
  BY <1>1, FirstRead
<1>3. PICK c \in Char : c = At(cons_r)
  <2>1. cons_r \in Int BY <1>1 DEF ConsTypes, Index
  <2>2. Cell(cons_r) \in 0 .. INPUT_BUF_SIZE - 1 BY <2>1, CellIs
  <2>3. QED BY <1>1, <2>2 DEF ConsTypes, Ring, At, Cell
<1>4. PICK s \in Seq(Char) : s = result[p] BY <1>1 DEF ConsTypes
<1>5. s # <<>> => ~Discipline!Ends(Discipline!Last1(s))
  BY <1>1, <1>4 DEF PartRight, Discipline!Ends, Discipline!Last1
<1>6. CASE result' = [result EXCEPT ![p] = Append(@, c)]
  <2>1. Append(s, c) \in Seq(Char) /\ Append(s, c)[Len(Append(s, c))] = c
    <3>1. /\ Append(s, c) \in Seq(Char) /\ Len(Append(s, c)) = Len(s) + 1
          /\ Append(s, c)[Len(s) + 1] = c
      BY AppendProperties
    <3>2. QED BY <3>1
  <2>2. /\ result'[p] = Append(s, c) /\ result' \in [Readers -> Seq(Char)]
        /\ \A q \in Readers \ {p} : result'[q] = result[q]
    BY <1>1, <1>4, <1>6, <2>1 DEF ConsTypes
  <2>3. ConsInv'
    <3>1. CASE Returns(p)
      <4>1. /\ reader' = NoChar /\ ReaderAt(p, "user") /\ togo' \in [Readers -> Int]
        BY <1>1, <3>1 DEF Returns, ConsTypes
      <4>2. QED BY <1>1, <1>2, <2>2, <4>1, TakerKeeps
    <3>2. CASE c # "\n" /\ reader' = p /\ ReaderAt(p, "read") /\ togo' = [togo EXCEPT ![p] = togo[p] - 1]
      <4>1. togo' \in [Readers -> Int] BY <1>1, <3>2 DEF ConsTypes
      <4>2. result'[p][Len(result'[p])] \notin {"\n", "^D"} BY <1>1, <1>3, <2>1, <2>2, <3>2
      <4>3. QED BY <1>1, <1>2, <2>2, <3>2, <4>1, <4>2, TakerKeeps
    <3>3. Returns(p) \/ (c # "\n" /\ reader' = p /\ ReaderAt(p, "read")
                          /\ togo' = [togo EXCEPT ![p] = togo[p] - 1])
      BY <1>3 DEF Byte
    <3>4. QED BY <3>1, <3>2, <3>3
  <2>4. Discipline!Give(p)
    BY <1>1, <1>2, <1>3, <1>4, <1>5, <1>6 DEF Discipline!Give
  <2>5. QED BY <2>3, <2>4 DEF Discipline!Next
<1>7. CASE Returns(p) /\ result' = result
  <2>1. /\ reader' = NoChar /\ ReaderAt(p, "user") /\ togo' \in [Readers -> Int]
    BY <1>1, <1>7 DEF Returns, ConsTypes
  <2>2. result' \in [Readers -> Seq(Char)] BY <1>1, <1>7 DEF ConsTypes
  <2>3. ConsInv' BY <1>1, <1>2, <1>7, <2>1, <2>2, TakerKeeps
  <2>4. Discipline!Give(p)
    BY <1>1, <1>2, <1>3, <1>4, <1>5, <1>7 DEF Discipline!Give
  <2>5. QED BY <2>3, <2>4 DEF Discipline!Next
<1>8. result' = [result EXCEPT ![p] = Append(@, c)] \/ (Returns(p) /\ result' = result)
  BY <1>3 DEF Byte
<1>9. QED BY <1>6, <1>7, <1>8

LEMMA EndOfFileStep ==
  ASSUME ConsInv, NEW p \in Readers, EndOfFile(p)
  PROVE  ConsInv' /\ (Discipline!Next \/ UNCHANGED Discipline!vars)
<1>1. /\ ConsTypes /\ reading[p] = "read" /\ cons_r # cons_w /\ At(cons_r) = "^D"
      /\ UNCHANGED <<cons_buf, cons_w, cons_e, doomed>> /\ IndicesRight /\ EditOpen
  BY DEF ConsInv, EndOfFile, HasLock
<1>2. reader' = NoChar /\ ReaderAt(p, "user") /\ togo' \in [Readers -> Int]
  BY <1>1 DEF EndOfFile, Returns, ConsTypes
<1>3. CASE PutBack(p)
  <2>1. cons_r' = cons_r /\ result' = result BY <1>3 DEF EndOfFile
  <2>2. IndicesRight' /\ EditOpen' /\ UNCHANGED Discipline!vars
    BY <1>1, <2>1, TextsKept DEF IndicesRight, EditOpen, Discipline!vars
  <2>3. cons_r' \in Index /\ result' \in [Readers -> Seq(Char)] BY <1>1, <2>1 DEF ConsTypes
  <2>4. ConsInv' BY <1>1, <1>2, <2>1, <2>2, <2>3, TakerKeeps
  <2>5. QED BY <2>2, <2>4
<1>4. CASE ~PutBack(p)
  <2>1. cons_r' = (cons_r + 1) % IndexMod /\ result' = [result EXCEPT ![p] = <<"^D">>]
        /\ result[p] = <<>>
    BY <1>4 DEF EndOfFile, PutBack
  <2>2. /\ cons_r' \in Index /\ IndicesRight' /\ EditOpen'
        /\ Text(cons_r, cons_w) # <<>> /\ Head(Text(cons_r, cons_w)) = At(cons_r)
        /\ Text(cons_r, cons_w)' = Tail(Text(cons_r, cons_w))
        /\ Text(cons_w, cons_e)' = Text(cons_w, cons_e)
    BY <1>1, <2>1, FirstRead
  <2>3. <<"^D">> \in Seq(Char) BY DEF Char, Keys
  <2>4. result' \in [Readers -> Seq(Char)] /\ \A q \in Readers \ {p} : result'[q] = result[q]
    BY <1>1, <2>1, <2>3 DEF ConsTypes
  <2>5. ConsInv' BY <1>1, <1>2, <2>2, <2>4, TakerKeeps
  <2>6. Discipline!Give(p) BY <1>1, <2>1, <2>2 DEF Discipline!Give
  <2>7. QED BY <2>5, <2>6 DEF Discipline!Next
<1>5. QED BY <1>3, <1>4

LEMMA ConsStep == ConsInv /\ [ConsNext]_consVars => ConsInv' /\ [Discipline!Next]_Discipline!vars
<1> SUFFICES ASSUME ConsInv, [ConsNext]_consVars
             PROVE  ConsInv' /\ (Discipline!Next \/ UNCHANGED Discipline!vars)
  OBVIOUS
<1>1. ASSUME NEW c \in Keys, Type(c) PROVE ConsInv' /\ Discipline!Next BY <1>1, TypeStep
<1>2. CASE Backspace BY <1>2, BackspaceStep
<1>3. CASE KillLine BY <1>3, KillLineStep
<1>4. ASSUME NEW p \in Readers, Byte(p) PROVE ConsInv' /\ Discipline!Next BY <1>4, ByteStep
<1>5. ASSUME NEW p \in Readers, EndOfFile(p)
      PROVE  ConsInv' /\ (Discipline!Next \/ UNCHANGED Discipline!vars)
  BY <1>5, EndOfFileStep
<1>6. ASSUME NEW p \in Readers,
             (\E n \in 1 .. MaxRead : Read(p, n)) \/ WaitForLine(p) \/ Sleep(p) \/ Take(p) \/ Kill(p)
               \/ Replaced(p)
      PROVE  ConsInv' /\ (Discipline!Next \/ UNCHANGED Discipline!vars)
  BY <1>6, QuietStep
<1>7. CASE UNCHANGED consVars
  <2>1. UNCHANGED <<cons_buf, cons_r, cons_w, cons_e, reader, reading, togo, result, doomed>>
    BY <1>7 DEF consVars
  <2>2. UNCHANGED Discipline!vars BY <2>1, TextsKept DEF Discipline!vars
  <2>3. EditOpen' BY <2>1, TextsKept DEF ConsInv, EditOpen
  <2>4. ConsInv'
    BY <2>1, <2>3 DEF ConsInv, ConsTypes, IndicesRight, DozeRight, SleeperRight, PartRight
  <2>5. QED BY <2>2, <2>4
<1>8. QED BY <1>1, <1>2, <1>3, <1>4, <1>5, <1>6, <1>7 DEF ConsNext

LEMMA ConsStart == ConsInit => ConsInv /\ Discipline!Init
<1> SUFFICES ASSUME ConsInit PROVE ConsInv /\ Discipline!Init OBVIOUS
<1>1. 0 \in Index /\ Diff(0, 0) = 0
  <2>1. 0 \in Index BY ConsAssumption DEF Index
  <2>2. QED BY <2>1, DiffMoves
<1>2. Text(cons_r, cons_w) = <<>> /\ Text(cons_w, cons_e) = <<>>
  BY <1>1, Texts, NoCells DEF ConsInit
<1>3. ConsTypes BY <1>1 DEF ConsInit, ConsTypes, Ring, Char
<1>4. IndicesRight /\ EditOpen BY <1>1, <1>2, ConsAssumption DEF ConsInit, IndicesRight, EditOpen
<1>5. \A p \in Readers : DozeRight(p) /\ SleeperRight(p) /\ PartRight(p)
  BY DEF ConsInit, DozeRight, SleeperRight, PartRight
<1>6. QED BY <1>2, <1>3, <1>4, <1>5 DEF ConsInv, Discipline!Init, ConsInit

(* consoleintr() and consoleread() implement LineInput: what is typed can be  *)
(* corrected until its line ends, and is then read once and in order, a line  *)
(* or less at a time; and nobody sleeps while there is something to read -    *)
(* for every number of readers and every size of the ring and its indices     *)
(* that divide as 128 and 2^32 do.                                            *)
THEOREM ConsoleRightAlways == ConsSpec => ConsoleRight
<1>1. ConsInv => \A p \in Readers : reading[p] = "sleep" => cons_r = cons_w
  BY DEF ConsInv, SleeperRight
<1>2. QED BY <1>1, ConsStart, ConsStep, PTL DEF ConsSpec, ConsoleRight, Discipline!Spec

-----------------------------------------------------------------------------
(* Differences of counters that wrap, and what is further on.                 *)
Gap(x, i, j, m)   == x = (i - j) % m /\ x = IF i >= j THEN i - j ELSE i - j + m
Moved(x, i, k, m) == x = (i + k) % m /\ x = IF i + k < m THEN i + k ELSE i + k - m

LEMMA GapIs ==
  ASSUME NEW m \in Nat \ {0}, NEW i \in 0 .. m - 1, NEW j \in 0 .. m - 1
  PROVE  \E x \in 0 .. m - 1 : Gap(x, i, j, m)
<1>1. PICK a \in Int : a = i - j OBVIOUS
<1>2. -m <= a /\ a < m /\ a < 2 * m BY <1>1
<1>3. PICK x : x = a % m /\ x = IF a < 0 THEN a + m ELSE IF a < m THEN a ELSE a - m
  BY <1>2, ModCase
<1>4. x = (IF i >= j THEN i - j ELSE i - j + m) /\ x \in 0 .. m - 1 BY <1>1, <1>2, <1>3
<1>5. x = (i - j) % m BY <1>1, <1>3
<1>6. QED BY <1>4, <1>5, Zenon DEF Gap

LEMMA MovedIs ==
  ASSUME NEW m \in Nat \ {0}, NEW i \in 0 .. m - 1, NEW k \in 0 .. m
  PROVE  \E x \in 0 .. m - 1 : Moved(x, i, k, m)
<1>1. PICK a \in Int : a = i + k OBVIOUS
<1>2. 0 <= a /\ -m <= a /\ a < 2 * m BY <1>1
<1>3. PICK x : x = a % m /\ x = IF a < 0 THEN a + m ELSE IF a < m THEN a ELSE a - m
  BY <1>2, ModCase
<1>4. x = (IF i + k < m THEN i + k ELSE i + k - m) /\ x \in 0 .. m - 1 BY <1>1, <1>2, <1>3
<1>5. x = (i + k) % m BY <1>1, <1>3
<1>6. QED BY <1>4, <1>5, Zenon DEF Moved

-----------------------------------------------------------------------------
(* Clock: Told says that the difference of ticks is the number of ticks since *)
(* the call, though ticks wraps; Yet that who goes to sleep has some to wait. *)
Ticks == 0 .. TickMod - 1
ClockTypes ==
  /\ ticks \in Ticks /\ ticks0 \in [Sleepers -> Ticks] /\ since \in [Sleepers -> Ticks]
  /\ asked \in [Sleepers -> Int] /\ dying \in [Sleepers -> BOOLEAN]
  /\ sleeping \in [Sleepers -> {"user", "check", "doze", "sleep", "slept", "failed"}]
Told(p) == InSleep(p) => Uint(ticks - ticks0[p]) = since[p]
Yet(p)  == sleeping[p] \in {"doze", "sleep"} => since[p] < Uint(asked[p])
ClockInv == ClockTypes /\ \A p \in Sleepers : Told(p) /\ Yet(p) /\ Patient(p)

LEMMA TickGap ==
  ASSUME NEW t \in Ticks, NEW u \in Ticks
  PROVE  Uint(t - u) = IF t >= u THEN t - u ELSE t - u + TickMod
<1>1. TickMod \in Nat \ {0} BY ClockAssumption
<1>2. PICK x \in 0 .. TickMod - 1 : Gap(x, t, u, TickMod) BY <1>1, GapIs DEF Ticks
<1>3. QED BY <1>2 DEF Gap, Uint

LEMMA TickOn ==
  ASSUME NEW t \in Ticks, NEW u \in Ticks, NEW k \in Ticks, Uint(t - u) = k, k < TickMod - 1
  PROVE  Uint(t + 1) \in Ticks /\ Uint(Uint(t + 1) - u) = k + 1
<1>1. TickMod \in Nat \ {0} BY ClockAssumption
<1>2. PICK x \in Ticks : x = Uint(t + 1) /\ x = IF t + 1 < TickMod THEN t + 1 ELSE t + 1 - TickMod
  <2>1. t \in 0 .. TickMod - 1 /\ 1 \in 0 .. TickMod BY <1>1 DEF Ticks
  <2>2. PICK y \in 0 .. TickMod - 1 : Moved(y, t, 1, TickMod) BY <1>1, <2>1, MovedIs
  <2>3. QED BY <2>2 DEF Moved, Uint, Ticks
<1>3. k = IF t >= u THEN t - u ELSE t - u + TickMod BY TickGap
<1>4. Uint(x - u) = IF x >= u THEN x - u ELSE x - u + TickMod BY <1>2, TickGap
<1>5. Uint(x - u) = k + 1
  <2>1. CASE t + 1 < TickMod BY <1>1, <1>2, <1>3, <1>4, <2>1 DEF Ticks
  <2>2. CASE ~(t + 1 < TickMod) BY <1>1, <1>2, <1>3, <1>4, <2>2 DEF Ticks
  <2>3. QED BY <2>1, <2>2
<1>6. QED BY <1>2, <1>5

LEMMA ClockStep == ClockInv /\ [ClockNext]_clockVars => ClockInv'
<1> SUFFICES ASSUME ClockInv, [ClockNext]_clockVars PROVE ClockInv' OBVIOUS
<1>0. TickMod \in Nat \ {0} BY ClockAssumption
<1> USE DEF ClockInv, ClockTypes, Told, Yet, Patient, InSleep
<1>1. ASSUME NEW p \in Sleepers, NEW d \in Durations, sys_sleep(p, d) PROVE ClockInv'
  <2>1. d \in Int /\ 0 \in Ticks /\ Uint(ticks - ticks) = 0
    BY <1>0, ClockAssumption, TickGap DEF Ticks
  <2>2. QED BY <1>1, <2>1 DEF sys_sleep
<1>2. ASSUME NEW p \in Sleepers, CheckTicks(p) PROVE ClockInv'
  <2>1. Uint(asked[p]) \in Ticks BY <1>0 DEF Uint, Ticks
  <2>2. Elapsed(p) <=> since[p] >= Uint(asked[p]) BY <1>2 DEF CheckTicks, Elapsed
  <2>3. since[p] \in Ticks OBVIOUS
  <2>4. Elapsed(p) \/ since[p] < Uint(asked[p]) BY <1>0, <2>1, <2>2, <2>3 DEF Ticks
  <2>5. QED BY <1>2, <2>2, <2>4 DEF CheckTicks
<1>3. ASSUME NEW p \in Sleepers, DozeTicks(p) PROVE ClockInv' BY <1>3 DEF DozeTicks
<1>4. ASSUME NEW p \in Sleepers, ReturnTicks(p) PROVE ClockInv'
  <2>1. 0 \in Ticks BY <1>0 DEF Ticks
  <2>2. QED BY <1>4, <2>1 DEF ReturnTicks
<1>5. ASSUME NEW p \in Sleepers, KillSleeper(p) PROVE ClockInv' BY <1>5 DEF KillSleeper
<1>6. CASE clockintr
  <2>1. ticks' \in Ticks BY <1>0, <1>6 DEF clockintr, Uint, Ticks
  <2>2. ASSUME NEW p \in Sleepers PROVE since'[p] \in Ticks
    BY <1>0, <1>6 DEF clockintr, Ticks
  <2>3. ClockTypes' BY <1>6, <2>1, <2>2 DEF clockintr, WakeTicks
  <2>4. ASSUME NEW p \in Sleepers PROVE Told(p)' /\ Yet(p)' /\ Patient(p)'
    <3>1. CASE InSleep(p)
      <4>1. ticks' = Uint(ticks + 1) /\ ticks0'[p] = ticks0[p] /\ since'[p] = since[p] + 1
            /\ since[p] < TickMod - 1 /\ sleeping'[p] = "check"
        BY <1>6, <3>1 DEF clockintr, WakeTicks
      <4>2. Uint(Uint(ticks + 1) - ticks0[p]) = since[p] + 1 BY <3>1, <4>1, TickOn
      <4>3. QED BY <4>1, <4>2
    <3>2. CASE ~InSleep(p) BY <1>6, <3>2 DEF clockintr, WakeTicks
    <3>3. QED BY <3>1, <3>2
  <2>5. QED BY <2>3, <2>4
<1>7. CASE UNCHANGED clockVars BY <1>7 DEF clockVars
<1>8. QED BY <1>1, <1>2, <1>3, <1>4, <1>5, <1>6, <1>7 DEF ClockNext

(* Any number of processes sleep for as many ticks as they asked for, as a    *)
(* uint, if none is kept from looking at ticks for all of its range.          *)
THEOREM SleepsExactlyAlways == ClockSpec => []SleepsExactly
<1>1. ClockInit => ClockInv
  <2> SUFFICES ASSUME ClockInit PROVE ClockInv OBVIOUS
  <2>1. 0 \in Ticks BY ClockAssumption DEF Ticks
  <2>2. QED BY <2>1 DEF ClockInit, ClockInv, ClockTypes, Told, Yet, Patient, InSleep
<1>2. ClockInv => SleepsExactly BY DEF ClockInv, Yet, SleepsExactly, InTime
<1>3. QED BY <1>1, <1>2, ClockStep, PTL DEF ClockSpec

-----------------------------------------------------------------------------
(* Uart: SomeRoom says that the FIFO has room for everybody who has found it  *)
(* idle; WaitingRight that the queue is no longer than the ring, and of       *)
(* characters.                                                                *)
Slots   == 0 .. UART_TX_BUF_SIZE - 1
Counts  == 0 .. CountMod - 1
Echoing == {x \in Echoers : echo[x] = "write"}
UartTypes ==
  /\ ring \in [Slots -> Counts \cup {NoByte}] /\ tx_w \in Counts /\ tx_r \in Counts
  /\ tx_lock \in Writers \cup {"intr", NoByte} /\ hand \in Counts \cup {NoByte}
  /\ putting \in [Writers -> {"user", "start", "sleep", "put"}]
  /\ echo \in [Echoers -> {"idle", "write"}]
  /\ fifo \in Seq(Counts \cup {Echoed}) /\ tx_intr \in BOOLEAN
WaitingRight == Waiting <= UART_TX_BUF_SIZE /\ \A k \in 1 .. Waiting : Queued[k] \in Counts
SomeRoom == Len(fifo) + Cardinality(Echoing) + (IF hand = NoByte THEN 0 ELSE 1) <= Cardinality(Echoers) + 1
HandRight == hand # NoByte => Ours = {}
GoesOn == Waiting > 0 => tx_lock # NoByte \/ fifo # <<>> \/ tx_intr
AsleepRight == \A p \in Writers : putting[p] = "sleep" => IsFull
UartInv == /\ UartTypes /\ WaitingRight /\ SomeRoom /\ OneOfOurs /\ HandRight /\ GoesOn
           /\ AsleepRight

LEMMA UartFacts ==
  /\ UART_TX_BUF_SIZE \in Nat \ {0} /\ CountMod \in Nat \ {0} /\ CountMod > 1
  /\ UART_TX_BUF_SIZE < CountMod /\ UART_TX_BUF_SIZE \in Counts /\ 1 \in Counts
  /\ 1 \in 0 .. CountMod /\ NoByte \notin Counts
BY UartAssumption DEF Counts

(* A cell of the ring from the index i, which wraps at CountMod.              *)
SlotPast(i, k, j) == (i + k + j) % UART_TX_BUF_SIZE
LEMMA SameSlot ==
  ASSUME NEW i \in Counts, NEW k \in 0 .. CountMod, NEW x \in Counts, Moved(x, i, k, CountMod),
         NEW j \in Int
  PROVE  SlotPast(i, k, j) = SlotPast(x, 0, j)
<1> DEFINE S == UART_TX_BUF_SIZE
<1>1. i \in Int /\ k \in Int /\ x \in Int BY UartFacts DEF Counts
<1>a. PICK a \in Int, b \in Int : a = i + k + j /\ b = x + 0 + j BY <1>1
<1>2. b = x + j /\ a = i + k + j /\ x = IF i + k < CountMod THEN i + k ELSE i + k - CountMod
  BY <1>1, <1>a DEF Moved
<1>b. SUFFICES a % S = b % S BY <1>a DEF SlotPast
<1>3. CASE i + k < CountMod BY <1>1, <1>2, <1>3
<1>4. CASE ~(i + k < CountMod)
  <2>1. PICK m \in Int : m = CountMod BY UartFacts
  <2>2. PICK q \in Int, t \in 0 .. S - 1 : m = (S * q) + t /\ m % S = t BY UartFacts, Split
  <2>3. CountMod = S * q BY <2>1, <2>2, UartFacts, UartAssumption
  <2>4. b = a - CountMod BY <1>1, <1>2, <1>4, UartFacts
  <2>5. (a - S * q) % S = a % S BY UartFacts, ModShift
  <2>6. QED BY <2>3, <2>4, <2>5
<1>5. QED BY <1>3, <1>4

(* The indices: one character more, and one less.                             *)
LEMMA WaitingIs ==
  ASSUME UartTypes PROVE Waiting \in Counts /\ Gap(Waiting, tx_w, tx_r, CountMod)
<1>1. tx_w \in 0 .. CountMod - 1 /\ tx_r \in 0 .. CountMod - 1 BY DEF UartTypes, Counts
<1>2. PICK n \in 0 .. CountMod - 1 : Gap(n, tx_w, tx_r, CountMod) BY <1>1, UartFacts, GapIs, Zenon
<1>3. n = Waiting BY <1>2, Zenon DEF Gap, Waiting
<1>4. QED BY <1>2, <1>3, Zenon DEF Counts

LEMMA CountPut ==
  ASSUME UartTypes, WaitingRight, ~IsFull
  PROVE  /\ Waiting \in 0 .. UART_TX_BUF_SIZE - 1
         /\ (tx_w + 1) % CountMod \in Counts
         /\ (((tx_w + 1) % CountMod) - tx_r) % CountMod = Waiting + 1
         /\ Moved(tx_w, tx_r, Waiting, CountMod)
<1>1. tx_w \in 0 .. CountMod - 1 /\ tx_r \in 0 .. CountMod - 1 BY DEF UartTypes, Counts
<1>2. PICK n \in 0 .. CountMod - 1 : n = Waiting /\ Gap(n, tx_w, tx_r, CountMod)
  BY WaitingIs, Zenon DEF Counts
<1>3. n \in 0 .. CountMod BY UartFacts
<1>4. PICK y \in 0 .. CountMod - 1 : Moved(y, tx_r, n, CountMod)
  BY <1>1, <1>3, UartFacts, MovedIs, Zenon
<1>5. tx_w = y
  <2>1. n = IF tx_w >= tx_r THEN tx_w - tx_r ELSE tx_w - tx_r + CountMod BY <1>2, Zenon DEF Gap
  <2>2. y = IF tx_r + n < CountMod THEN tx_r + n ELSE tx_r + n - CountMod BY <1>4, Zenon DEF Moved
  <2>3. QED BY <1>1, <2>1, <2>2, UartFacts
<1>6. Moved(tx_w, tx_r, n, CountMod) BY <1>4, <1>5, Zenon
<1>7. n # UART_TX_BUF_SIZE BY <1>6, Zenon DEF IsFull, Moved
<1>8. n <= UART_TX_BUF_SIZE BY <1>2, Zenon DEF WaitingRight
<1>9. n \in 0 .. UART_TX_BUF_SIZE - 1 BY <1>7, <1>8, UartFacts
<1>10. PICK x \in 0 .. CountMod - 1 : Moved(x, tx_w, 1, CountMod)
  BY <1>1, UartFacts, MovedIs, Zenon
<1>11. PICK z \in 0 .. CountMod - 1 : Gap(z, x, tx_r, CountMod) BY <1>1, UartFacts, GapIs, Zenon
<1>12. z = n + 1
  <2>1. n = IF tx_w >= tx_r THEN tx_w - tx_r ELSE tx_w - tx_r + CountMod BY <1>2, Zenon DEF Gap
  <2>2. x = IF tx_w + 1 < CountMod THEN tx_w + 1 ELSE tx_w + 1 - CountMod BY <1>10, Zenon DEF Moved
  <2>3. z = IF x >= tx_r THEN x - tx_r ELSE x - tx_r + CountMod BY <1>11, Zenon DEF Gap
  <2>4. n + 1 < CountMod BY <1>9, UartFacts
  <2>5. QED BY <1>1, <2>1, <2>2, <2>3, <2>4, UartFacts
<1>13. x = (tx_w + 1) % CountMod /\ z = (x - tx_r) % CountMod
  BY <1>10, <1>11, Zenon DEF Moved, Gap
<1>14. QED BY <1>2, <1>6, <1>9, <1>10, <1>12, <1>13, Zenon DEF Counts

LEMMA CountTake ==
  ASSUME UartTypes, WaitingRight, Waiting # 0
  PROVE  /\ Waiting \in 1 .. UART_TX_BUF_SIZE
         /\ \E x \in Counts : Moved(x, tx_r, 1, CountMod) /\ (tx_w - x) % CountMod = Waiting - 1
<1>1. tx_w \in 0 .. CountMod - 1 /\ tx_r \in 0 .. CountMod - 1 BY DEF UartTypes, Counts
<1>2. PICK n \in 0 .. CountMod - 1 : n = Waiting /\ Gap(n, tx_w, tx_r, CountMod)
  BY WaitingIs, Zenon DEF Counts
<1>3. n <= UART_TX_BUF_SIZE /\ n # 0 BY <1>2, Zenon DEF WaitingRight
<1>4. n \in 1 .. UART_TX_BUF_SIZE BY <1>3, UartFacts
<1>5. PICK x \in 0 .. CountMod - 1 : Moved(x, tx_r, 1, CountMod)
  BY <1>1, UartFacts, MovedIs, Zenon
<1>6. PICK z \in 0 .. CountMod - 1 : Gap(z, tx_w, x, CountMod) BY <1>1, UartFacts, GapIs, Zenon
<1>7. z = n - 1
  <2>1. n = IF tx_w >= tx_r THEN tx_w - tx_r ELSE tx_w - tx_r + CountMod BY <1>2, Zenon DEF Gap
  <2>2. x = IF tx_r + 1 < CountMod THEN tx_r + 1 ELSE tx_r + 1 - CountMod BY <1>5, Zenon DEF Moved
  <2>3. z = IF tx_w >= x THEN tx_w - x ELSE tx_w - x + CountMod BY <1>6, Zenon DEF Gap
  <2>4. QED BY <1>1, <1>4, <2>1, <2>2, <2>3, UartFacts
<1>8. z = (tx_w - x) % CountMod BY <1>6, Zenon DEF Gap
<1>9. QED BY <1>2, <1>4, <1>5, <1>7, <1>8, Zenon DEF Counts

LEMMA QueueIs ==
  ASSUME UartTypes, WaitingRight
  PROVE  /\ Waiting \in Nat /\ Queued \in Seq(Counts) /\ Len(Queued) = Waiting
         /\ \A k \in 1 .. Waiting : Queued[k] = ring[(tx_r + k - 1) % UART_TX_BUF_SIZE]
<1>1. Waiting \in Nat BY WaitingIs, UartFacts DEF Counts
<1>2. Queued \in [1 .. Waiting -> Counts] BY DEF WaitingRight, Queued
<1>3. Queued \in Seq(Counts) BY <1>1, <1>2, SeqDef
<1>4. Len(Queued) = Waiting BY <1>1, <1>2, <1>3, LenProperties
<1>5. QED BY <1>1, <1>3, <1>4 DEF Queued

(* uartputc() puts a character behind those that wait.                        *)
LEMMA QueuePut ==
  ASSUME UartTypes, WaitingRight, ~IsFull, tx_w' = (tx_w + 1) % CountMod, tx_r' = tx_r,
         ring' = [ring EXCEPT ![tx_w % UART_TX_BUF_SIZE] = tx_w]
  PROVE  /\ ring' \in [Slots -> Counts \cup {NoByte}] /\ tx_w' \in Counts
         /\ WaitingRight' /\ Queued' = Append(Queued, tx_w)
<1> DEFINE S == UART_TX_BUF_SIZE
<1>1. PICK n \in 0 .. S - 1 : n = Waiting BY CountPut
<1>2. Waiting' = n + 1 BY <1>1, CountPut DEF Waiting
<1>3. tx_w \in Counts /\ tx_r \in Int /\ tx_w \in Int /\ n \in Nat /\ n + 1 \in Nat
  BY <1>1, UartFacts DEF UartTypes, Counts
<1>4. PICK w \in Int : w = tx_r + n BY <1>1, <1>3
<1>5. tx_w % S = w % S
  <2>1. Moved(tx_w, tx_r, n, CountMod) BY <1>1, CountPut
  <2>2. tx_r \in Counts /\ n \in 0 .. CountMod /\ 0 \in Int
    BY <1>1, UartFacts DEF UartTypes, Counts
  <2>3. tx_w \in Counts BY DEF UartTypes
  <2>4. SlotPast(tx_r, n, 0) = SlotPast(tx_w, 0, 0) BY <2>1, <2>2, <2>3, SameSlot
  <2>5. w = tx_r + n + 0 /\ tx_w = tx_w + 0 + 0 BY <1>3, <1>4
  <2>6. QED BY <2>4, <2>5 DEF SlotPast
<1>6. tx_w % S \in Slots BY <1>3, UartFacts DEF Slots
<1>7. PICK q \in Seq(Counts) : /\ q = Queued /\ Len(q) = n
                               /\ \A k \in 1 .. n : q[k] = ring[(tx_r + k - 1) % S]
  BY <1>1, QueueIs
<1>8. PICK u \in Seq(Counts) : /\ u = Append(q, tx_w) /\ Len(u) = n + 1 /\ u[n + 1] = tx_w
                               /\ \A k \in 1 .. n : u[k] = q[k]
  <2>1. Append(q, tx_w) \in Seq(Counts) /\ Len(Append(q, tx_w)) = n + 1
        /\ Append(q, tx_w)[n + 1] = tx_w /\ \A k \in 1 .. n : Append(q, tx_w)[k] = q[k]
    BY <1>3, <1>7, AppendProperties
  <2>2. QED BY <2>1
<1>9. ASSUME NEW k \in 1 .. n + 1 PROVE ring'[(tx_r + k - 1) % S] = u[k]
  <2>1. PICK a \in Int : a = tx_r + k - 1 BY <1>3
  <2>2. a % S \in Slots BY UartFacts DEF Slots
  <2>3. CASE k = n + 1
    <3>1. a = w BY <1>3, <1>4, <2>1, <2>3
    <3>2. QED BY <1>5, <1>6, <1>8, <2>1, <2>3, <3>1 DEF UartTypes
  <2>4. CASE k # n + 1
    <3>1. k \in 1 .. n /\ a < w /\ w - a < S BY <1>1, <1>3, <1>4, <2>1, <2>4, UartFacts
    <3>2. a % S # w % S BY <3>1, UartFacts, Apart
    <3>3. ring'[a % S] = ring[a % S] BY <1>5, <2>2, <3>2 DEF UartTypes
    <3>4. QED BY <1>7, <1>8, <2>1, <3>1, <3>3
  <2>5. QED BY <2>3, <2>4
<1>10. Queued' = [k \in 1 .. n + 1 |-> ring'[(tx_r + k - 1) % S]] BY <1>2 DEF Queued
<1>11. Queued' = [k \in 1 .. n + 1 |-> u[k]] BY <1>9, <1>10
<1>12. \A k \in 1 .. n + 1 : u[k] \in Counts BY <1>8, ElementOfSeq
<1>13. Queued' \in [1 .. n + 1 -> Counts] BY <1>11, <1>12
<1>14. Queued' \in Seq(Counts) BY <1>3, <1>13, SeqDef
<1>15. Len(Queued') = n + 1 BY <1>3, <1>13, <1>14, LenProperties
<1>16. \A k \in 1 .. n + 1 : Queued'[k] = u[k] BY <1>11
<1>17. PICK v \in Seq(Counts) : v = Queued' BY <1>14
<1>18. v = u BY <1>8, <1>15, <1>16, <1>17, SameSeq
<1>19. WaitingRight' BY <1>1, <1>2, <1>12, <1>16, UartFacts DEF WaitingRight
<1>20. ring' \in [Slots -> Counts \cup {NoByte}] BY <1>3, <1>6 DEF UartTypes
<1>21. tx_w' \in Counts BY CountPut
<1>22. QED BY <1>7, <1>8, <1>17, <1>18, <1>19, <1>20, <1>21

(* uartstart() takes the first.                                               *)
LEMMA QueueTake ==
  ASSUME UartTypes, WaitingRight, Waiting # 0, tx_r' = (tx_r + 1) % CountMod,
         UNCHANGED <<ring, tx_w>>
  PROVE  /\ tx_r' \in Counts /\ WaitingRight' /\ Queued # <<>>
         /\ ring[tx_r % UART_TX_BUF_SIZE] \in Counts
         /\ Queued = <<ring[tx_r % UART_TX_BUF_SIZE]>> \o Queued'
         /\ Queued' \in Seq(Counts)
<1> DEFINE S == UART_TX_BUF_SIZE
<1>1. PICK n \in 1 .. S : n = Waiting BY CountTake
<1>a. PICK x \in Counts : Moved(x, tx_r, 1, CountMod) /\ (tx_w - x) % CountMod = Waiting - 1
  BY CountTake
<1>2. Waiting' = n - 1 BY <1>1, <1>a DEF Waiting, Moved
<1>3. tx_r \in Int /\ n \in Nat /\ n - 1 \in Nat /\ tx_r \in Counts
  BY <1>1, UartFacts DEF UartTypes, Counts
<1>4. x \in Int /\ tx_r' = x BY <1>a, UartFacts DEF Counts, Moved
<1>5. PICK q \in Seq(Counts) : /\ q = Queued /\ Len(q) = n
                               /\ \A k \in 1 .. n : q[k] = ring[(tx_r + k - 1) % S]
  BY <1>1, QueueIs
<1>6. \A k \in 1 .. n : q[k] \in Counts BY <1>5, ElementOfSeq
<1>7. PICK c \in Counts : c = ring[tx_r % S] /\ c = q[1]
  <2>1. 1 \in 1 .. n /\ tx_r + 1 - 1 = tx_r BY <1>1, <1>3
  <2>2. q[1] = ring[(tx_r + 1 - 1) % S] BY <1>5, <2>1
  <2>3. QED BY <1>6, <2>1, <2>2
<1>8. ASSUME NEW k \in 1 .. n - 1 PROVE ring[(x + k - 1) % S] = q[k + 1]
  <2>1. PICK j \in Int, a \in Int, b \in Int : j = k - 1 /\ a = tx_r + 1 + j /\ b = x + j
    BY <1>3, <1>4
  <2>2. SlotPast(tx_r, 1, j) = SlotPast(x, 0, j) BY <1>3, <1>a, UartFacts, SameSlot
  <2>3. a % S = b % S
    <3>1. b = x + 0 + j BY <1>4, <2>1
    <3>2. QED BY <2>1, <2>2, <3>1 DEF SlotPast
  <2>4. x + k - 1 = b /\ tx_r + (k + 1) - 1 = a /\ k + 1 \in 1 .. n BY <1>1, <1>3, <1>4, <2>1
  <2>5. QED BY <1>5, <2>3, <2>4
<1>9. Queued' = [k \in 1 .. n - 1 |-> ring[(x + k - 1) % S]] BY <1>2, <1>4 DEF Queued
<1>10. \A k \in 1 .. n - 1 : k + 1 \in 1 .. n BY <1>3
<1>11. Queued' \in [1 .. n - 1 -> Counts] /\ \A k \in 1 .. n - 1 : Queued'[k] = q[k + 1]
  BY <1>6, <1>8, <1>9, <1>10
<1>12. Queued' \in Seq(Counts) BY <1>3, <1>11, SeqDef
<1>13. Len(Queued') = n - 1 BY <1>3, <1>11, <1>12, LenProperties
<1>14. PICK v \in Seq(Counts) : v = Queued' /\ Len(v) = n - 1 /\ \A k \in 1 .. n - 1 : v[k] = q[k + 1]
  BY <1>11, <1>12, <1>13
<1>15. PICK u \in Seq(Counts) : /\ u = <<c>> \o v /\ Len(u) = n
                                /\ \A k \in 1 .. n : u[k] = IF k <= 1 THEN c ELSE v[k - 1]
  <2>1. <<c>> \in Seq(Counts) /\ Len(<<c>>) = 1 /\ <<c>>[1] = c OBVIOUS
  <2>2. /\ <<c>> \o v \in Seq(Counts) /\ Len(<<c>> \o v) = Len(<<c>>) + Len(v)
        /\ \A k \in 1 .. Len(<<c>>) + Len(v) :
             (<<c>> \o v)[k] = IF k <= Len(<<c>>) THEN <<c>>[k] ELSE v[k - Len(<<c>>)]
    BY <2>1, ConcatProperties, Zenon
  <2>3. Len(<<c>> \o v) = n /\ \A k \in 1 .. n : (<<c>> \o v)[k] = IF k <= 1 THEN c ELSE v[k - 1]
    BY <1>3, <1>14, <2>1, <2>2
  <2>4. QED BY <2>2, <2>3
<1>16. ASSUME NEW k \in 1 .. n PROVE u[k] = q[k]
  <2>1. CASE k = 1 BY <1>7, <1>15, <2>1
  <2>2. CASE k # 1
    <3>1. k - 1 \in 1 .. n - 1 /\ (k - 1) + 1 = k /\ ~(k <= 1) BY <1>3, <2>2
    <3>2. v[k - 1] = q[(k - 1) + 1] BY <1>14, <3>1
    <3>3. QED BY <1>15, <3>1, <3>2
  <2>3. QED BY <2>1, <2>2
<1>17. u = q BY <1>5, <1>15, <1>16, SameSeq
<1>18. Queued # <<>> BY <1>1, <1>5
<1>19. WaitingRight' BY <1>1, <1>2, <1>6, <1>10, <1>11, UartFacts DEF WaitingRight
<1>20. tx_r' \in Counts BY <1>4, <1>a
<1>21. QED BY <1>5, <1>7, <1>12, <1>14, <1>15, <1>17, <1>18, <1>19, <1>20

-----------------------------------------------------------------------------
(* Uart: what is in the FIFO.                                                 *)
Bytes     == Counts \cup {Echoed}
OursIn(f) == {k \in 1 .. Len(f) : f[k] # Echoed}
OutIn(f)  == IF OursIn(f) = {} THEN <<>> ELSE <<f[CHOOSE k \in OursIn(f) : TRUE]>>
AtMostOne(f) == \A j, k \in OursIn(f) : j = k

LEMMA OursAre ==
  /\ Ours = OursIn(fifo) /\ InTheUart = OutIn(fifo) /\ (OneOfOurs <=> AtMostOne(fifo))
  /\ Ours' = OursIn(fifo') /\ InTheUart' = OutIn(fifo') /\ (OneOfOurs' <=> AtMostOne(fifo'))
BY DEF Ours, InTheUart, OneOfOurs, OursIn, OutIn, AtMostOne

LEMMA OutIs ==
  ASSUME NEW f \in Seq(Bytes), AtMostOne(f)
  PROVE  /\ OutIn(f) \in Seq(Counts)
         /\ OursIn(f) = {} => OutIn(f) = <<>>
         /\ \A k \in OursIn(f) : OutIn(f) = <<f[k]>>
<1>1. ASSUME NEW k \in OursIn(f) PROVE OutIn(f) = <<f[k]>> /\ OutIn(f) \in Seq(Counts)
  <2>1. PICK j : j = CHOOSE i \in OursIn(f) : TRUE OBVIOUS
  <2>2. j \in OursIn(f) BY <2>1
  <2>3. j = k BY <2>2 DEF AtMostOne
  <2>4. OutIn(f) = <<f[k]>> BY <2>1, <2>3 DEF OutIn
  <2>5. k \in 1 .. Len(f) /\ f[k] # Echoed BY DEF OursIn
  <2>6. f[k] \in Bytes BY <2>5, ElementOfSeq
  <2>7. f[k] \in Counts BY <2>5, <2>6 DEF Bytes
  <2>8. QED BY <2>4, <2>7
<1>2. ASSUME OursIn(f) = {} PROVE OutIn(f) = <<>> /\ OutIn(f) \in Seq(Counts)
  BY <1>2 DEF OutIn
<1>3. QED BY <1>1, <1>2

LEMMA FifoEcho ==
  ASSUME NEW f \in Seq(Bytes), AtMostOne(f), NEW g, g = Append(f, Echoed)
  PROVE  g \in Seq(Bytes) /\ OursIn(g) = OursIn(f) /\ AtMostOne(g) /\ OutIn(g) = OutIn(f)
<1>1. PICK n \in Nat : n = Len(f) BY LenProperties
<1>2. Echoed \in Bytes BY DEF Bytes
<1>3. /\ g \in Seq(Bytes) /\ Len(g) = n + 1 /\ g[n + 1] = Echoed
      /\ \A k \in 1 .. n : g[k] = f[k]
  BY <1>1, <1>2, AppendProperties
<1>4. OursIn(g) = OursIn(f) BY <1>1, <1>3 DEF OursIn
<1>5. AtMostOne(g) BY <1>4 DEF AtMostOne
<1>6. OutIn(g) = OutIn(f)
  <2>1. CASE OursIn(f) = {} BY <1>4, <2>1 DEF OutIn
  <2>2. ASSUME NEW k \in OursIn(f) PROVE OutIn(g) = OutIn(f)
    <3>1. g[k] = f[k] BY <1>1, <1>3 DEF OursIn
    <3>2. OutIn(f) = <<f[k]>> BY OutIs
    <3>3. OutIn(g) = <<g[k]>> BY <1>3, <1>4, <1>5, OutIs
    <3>4. QED BY <3>1, <3>2, <3>3
  <2>3. QED BY <2>1, <2>2
<1>7. QED BY <1>3, <1>4, <1>5, <1>6

LEMMA FifoPut ==
  ASSUME NEW f \in Seq(Bytes), OursIn(f) = {}, NEW c \in Counts, NEW g, g = Append(f, c)
  PROVE  g \in Seq(Bytes) /\ AtMostOne(g) /\ OutIn(g) = <<c>>
<1>1. PICK n \in Nat : n = Len(f) BY LenProperties
<1>2. c \in Bytes /\ c # Echoed BY UartFacts DEF Bytes, Counts, Echoed
<1>3. /\ g \in Seq(Bytes) /\ Len(g) = n + 1 /\ g[n + 1] = c
      /\ \A k \in 1 .. n : g[k] = f[k]
  BY <1>1, <1>2, AppendProperties
<1>4. OursIn(g) = {n + 1}
  <2>1. \A k \in 1 .. n : f[k] = Echoed BY <1>1 DEF OursIn
  <2>2. \A k \in 1 .. n + 1 : k = n + 1 \/ k \in 1 .. n OBVIOUS
  <2>3. QED BY <1>2, <1>3, <2>1, <2>2 DEF OursIn
<1>5. AtMostOne(g) BY <1>4 DEF AtMostOne
<1>6. OutIn(g) = <<g[n + 1]>> BY <1>3, <1>4, <1>5, OutIs
<1>7. QED BY <1>3, <1>5, <1>6

LEMMA FifoSend ==
  ASSUME NEW f \in Seq(Bytes), f # <<>>, AtMostOne(f), NEW g, g = Tail(f)
  PROVE  /\ g \in Seq(Bytes) /\ Len(g) = Len(f) - 1 /\ AtMostOne(g)
         /\ OursIn(f) = {} => OursIn(g) = {}
         /\ OutIn(g) = OutIn(f) \/ (OursIn(f) # {} /\ OutIn(g) = <<>>)
<1>1. PICK n \in Nat \ {0} : n = Len(f) BY EmptySeq
<1>2. g \in Seq(Bytes) /\ Len(g) = n - 1 /\ \A k \in 1 .. n - 1 : g[k] = f[k + 1]
  BY <1>1, HeadTailProperties
<1>3. \A k \in OursIn(g) : k \in Int /\ k + 1 \in OursIn(f) /\ g[k] = f[k + 1]
  BY <1>1, <1>2 DEF OursIn
<1>4. \A k \in OursIn(f) : k \in Int /\ (k = 1 \/ k - 1 \in OursIn(g))
  <2> SUFFICES ASSUME NEW k \in OursIn(f) PROVE k \in Int /\ (k = 1 \/ k - 1 \in OursIn(g))
    OBVIOUS
  <2>1. k \in 1 .. n /\ f[k] # Echoed BY <1>1 DEF OursIn
  <2>2. CASE k # 1
    <3>1. k - 1 \in 1 .. n - 1 /\ (k - 1) + 1 = k BY <2>1, <2>2
    <3>2. g[k - 1] = f[k] BY <1>2, <3>1
    <3>3. QED BY <1>2, <2>1, <3>1, <3>2 DEF OursIn
  <2>3. QED BY <2>1, <2>2
<1>5. AtMostOne(g)
  <2> SUFFICES ASSUME NEW j \in OursIn(g), NEW k \in OursIn(g) PROVE j = k BY DEF AtMostOne
  <2>1. j + 1 = k + 1 BY <1>3 DEF AtMostOne
  <2>2. QED BY <1>3, <2>1
<1>6. OutIn(g) = OutIn(f) \/ (OursIn(f) # {} /\ OutIn(g) = <<>>)
  <2>1. CASE OursIn(g) = {}
    <3>1. OutIn(g) = <<>> BY <2>1 DEF OutIn
    <3>2. QED BY <3>1 DEF OutIn
  <2>2. ASSUME NEW k \in OursIn(g) PROVE OutIn(g) = OutIn(f)
    <3>1. OutIn(g) = <<g[k]>> BY <1>2, <1>5, OutIs
    <3>2. OutIn(f) = <<f[k + 1]>> BY <1>3, OutIs
    <3>3. QED BY <1>3, <3>1, <3>2
  <2>3. QED BY <2>1, <2>2
<1>7. QED BY <1>1, <1>2, <1>3, <1>5, <1>6

(* What is on its way when one part of it changes.                            *)
LEMMA JoinRight ==
  ASSUME NEW S, NEW s \in Seq(S), NEW q \in Seq(S), NEW c \in S, NEW d \in S
  PROVE  /\ s \o Append(q, c) = Append(s \o q, c)
         /\ s \o <<>> = s /\ <<>> \o s = s
         /\ <<d>> \o q # <<>> /\ Tail(<<d>> \o q) = q
<1>1. s \o Append(q, c) = Append(s \o q, c)
  <2>1. <<c>> \in Seq(S) /\ s \o q \in Seq(S) BY ConcatProperties
  <2>2. Append(q, c) = q \o <<c>> BY AppendIsConcat
  <2>3. Append(s \o q, c) = (s \o q) \o <<c>> BY <2>1, AppendIsConcat
  <2>4. (s \o q) \o <<c>> = s \o (q \o <<c>>) BY <2>1, ConcatAssociative
  <2>5. QED BY <2>2, <2>3, <2>4
<1>2. s \o <<>> = s /\ <<>> \o s = s BY ConcatEmptySeq
<1>3. <<d>> \o q # <<>> /\ Tail(<<d>> \o q) = q
  <2>1. PICK n \in Nat : n = Len(q) BY LenProperties
  <2>2. <<d>> \in Seq(S) /\ Len(<<d>>) = 1 OBVIOUS
  <2>3. PICK u \in Seq(S) : /\ u = <<d>> \o q /\ Len(u) = 1 + n
                            /\ \A k \in 1 .. 1 + n : u[k] = IF k <= 1 THEN <<d>>[k] ELSE q[k - 1]
    <3>1. /\ <<d>> \o q \in Seq(S) /\ Len(<<d>> \o q) = Len(<<d>>) + Len(q)
          /\ \A k \in 1 .. Len(<<d>>) + Len(q) :
               (<<d>> \o q)[k] = IF k <= Len(<<d>>) THEN <<d>>[k] ELSE q[k - Len(<<d>>)]
      BY <2>2, ConcatProperties, Zenon
    <3>2. QED BY <2>1, <2>2, <3>1
  <2>4. u # <<>> BY <2>1, <2>3
  <2>5. PICK t \in Seq(S) : t = Tail(u) /\ Len(t) = n /\ \A k \in 1 .. n : t[k] = u[k + 1]
    <3>1. Tail(u) \in Seq(S) /\ Len(Tail(u)) = Len(u) - 1
          /\ \A k \in 1 .. Len(Tail(u)) : Tail(u)[k] = u[k + 1]
      BY <2>4, HeadTailProperties
    <3>2. Len(Tail(u)) = n BY <2>1, <2>3, <3>1
    <3>3. QED BY <3>1, <3>2
  <2>6. ASSUME NEW k \in 1 .. Len(t) PROVE t[k] = q[k]
    <3>1. k + 1 \in 1 .. 1 + n /\ ~(k + 1 <= 1) /\ (k + 1) - 1 = k /\ k \in 1 .. n
      BY <2>1, <2>5
    <3>2. u[k + 1] = q[(k + 1) - 1] BY <2>3, <3>1
    <3>3. QED BY <2>5, <3>1, <3>2
  <2>7. t = q BY <2>1, <2>5, <2>6, SameSeq
  <2>8. QED BY <2>3, <2>4, <2>5, <2>7
<1>4. QED BY <1>1, <1>2, <1>3

-----------------------------------------------------------------------------
(* Uart: the steps.                                                           *)
LEMMA QueueKept ==
  ASSUME UNCHANGED <<ring, tx_w, tx_r>>
  PROVE  /\ Waiting' = Waiting /\ Queued' = Queued /\ (IsFull' <=> IsFull)
         /\ (WaitingRight' <=> WaitingRight)
<1>1. Waiting' = Waiting BY DEF Waiting
<1>2. Queued' = Queued BY <1>1 DEF Queued
<1>3. IsFull' <=> IsFull BY DEF IsFull
<1>4. WaitingRight' <=> WaitingRight BY <1>1, <1>2 DEF WaitingRight
<1>5. QED BY <1>1, <1>2, <1>3, <1>4

LEMMA FifoKept ==
  ASSUME UNCHANGED fifo
  PROVE  Ours' = Ours /\ InTheUart' = InTheUart /\ (OneOfOurs' <=> OneOfOurs)
BY OursAre

LEMMA UartNow ==
  ASSUME UartInv
  PROVE  /\ InTheUart \in Seq(Counts) /\ ByteInHand \in Seq(Counts) /\ Queued \in Seq(Counts)
         /\ InTheUart \o ByteInHand \in Seq(Counts)
         /\ Len(fifo) \in Nat /\ Cardinality(Echoers) \in Nat /\ Cardinality(Echoers) < FIFO_DEPTH
         /\ FIFO_DEPTH \in Nat
         /\ IsFiniteSet(Echoing) /\ Cardinality(Echoing) \in Nat
         /\ Cardinality(Echoing) <= Cardinality(Echoers)
         /\ fifo \in Seq(Bytes) /\ AtMostOne(fifo)
<1>1. fifo \in Seq(Bytes) /\ AtMostOne(fifo) BY OursAre DEF UartInv, UartTypes, Bytes
<1>2. InTheUart \in Seq(Counts) BY <1>1, OursAre, OutIs
<1>3. ByteInHand \in Seq(Counts) BY DEF UartInv, UartTypes, ByteInHand
<1>4. Queued \in Seq(Counts) BY QueueIs DEF UartInv
<1>5. InTheUart \o ByteInHand \in Seq(Counts) BY <1>2, <1>3, ConcatProperties
<1>6. Len(fifo) \in Nat BY <1>1, LenProperties
<1>7. Echoing \in SUBSET Echoers BY DEF Echoing
<1>8. /\ IsFiniteSet(Echoing) /\ Cardinality(Echoing) \in Nat /\ Cardinality(Echoers) \in Nat
      /\ Cardinality(Echoing) <= Cardinality(Echoers)
  BY <1>7, UartAssumption, FS_Subset, FS_CardinalityType
<1>9. QED BY <1>1, <1>2, <1>3, <1>4, <1>5, <1>6, <1>8, UartAssumption

LEMMA PutcStep ==
  ASSUME UartInv, NEW p \in Writers, uartputc(p) PROVE UartInv' /\ QueueStep
<1>1. UNCHANGED <<tx_r, hand, echo, fifo, tx_intr>> /\ tx_lock = NoByte BY DEF uartputc
<1>2. OneOfOurs' /\ HandRight' /\ SomeRoom' /\ InTheUart' = InTheUart /\ ByteInHand' = ByteInHand
  BY <1>1, FifoKept DEF UartInv, HandRight, SomeRoom, Echoing, ByteInHand
<1>3. CASE IsFull /\ PutAt(p, "sleep") /\ UNCHANGED <<ring, tx_w, tx_lock>>
  <2>1. UartTypes' BY <1>1, <1>3 DEF UartInv, UartTypes, PutAt
  <2>2. WaitingRight' /\ Queued' = Queued /\ Waiting' = Waiting /\ IsFull'
    BY <1>1, <1>3, QueueKept DEF UartInv
  <2>3. GoesOn' BY <1>1, <1>3, <2>2 DEF UartInv, GoesOn
  <2>4. AsleepRight' BY <2>2 DEF AsleepRight
  <2>5. OnItsWay' = OnItsWay BY <1>2, <2>2 DEF OnItsWay
  <2>6. QED BY <1>2, <2>1, <2>2, <2>3, <2>4, <2>5 DEF UartInv, QueueStep
<1>4. CASE /\ ~IsFull /\ ring' = [ring EXCEPT ![tx_w % UART_TX_BUF_SIZE] = tx_w]
           /\ tx_w' = (tx_w + 1) % CountMod /\ tx_lock' = p /\ PutAt(p, "start")
  <2>1. /\ ring' \in [Slots -> Counts \cup {NoByte}] /\ tx_w' \in Counts
        /\ WaitingRight' /\ Queued' = Append(Queued, tx_w)
    BY <1>1, <1>4, QueuePut DEF UartInv
  <2>2. UartTypes' BY <1>1, <1>4, <2>1 DEF UartInv, UartTypes, PutAt
  <2>3. GoesOn' BY <1>4, UartAssumption DEF GoesOn
  <2>4. \A q \in Writers : putting[q] # "sleep" BY <1>4 DEF UartInv, AsleepRight
  <2>5. \A q \in Writers : putting'[q] # "sleep"
    BY <1>4, <2>4 DEF PutAt, UartInv, UartTypes
  <2>6. AsleepRight' BY <2>5 DEF AsleepRight
  <2>7. OnItsWay' = Append(OnItsWay, tx_w)
    <3>1. tx_w \in Counts BY DEF UartInv, UartTypes
    <3>2. (InTheUart \o ByteInHand) \o Append(Queued, tx_w)
            = Append((InTheUart \o ByteInHand) \o Queued, tx_w)
      BY <3>1, UartNow, JoinRight
    <3>3. QED BY <1>2, <2>1, <3>2 DEF OnItsWay
  <2>8. tx_w \in 0 .. CountMod - 1 BY DEF UartInv, UartTypes, Counts
  <2>9. QED BY <1>2, <2>1, <2>2, <2>3, <2>6, <2>7, <2>8 DEF UartInv, QueueStep
<1>5. QED BY <1>3, <1>4 DEF uartputc

LEMMA IntrStep == ASSUME UartInv, uartintr PROVE UartInv' /\ QueueStep
<1>1. /\ UNCHANGED <<ring, tx_w, tx_r, hand, putting, echo, fifo>>
      /\ tx_intr' = FALSE /\ tx_lock' = "intr"
  BY DEF uartintr
<1>2. OneOfOurs' /\ HandRight' /\ SomeRoom' /\ InTheUart' = InTheUart /\ ByteInHand' = ByteInHand
  BY <1>1, FifoKept DEF UartInv, HandRight, SomeRoom, Echoing, ByteInHand
<1>3. WaitingRight' /\ Queued' = Queued /\ (IsFull' <=> IsFull) BY <1>1, QueueKept DEF UartInv
<1>4. UartTypes' BY <1>1 DEF UartInv, UartTypes
<1>5. GoesOn' BY <1>1, UartAssumption DEF GoesOn
<1>6. AsleepRight' BY <1>1, <1>3 DEF UartInv, AsleepRight
<1>7. OnItsWay' = OnItsWay BY <1>2, <1>3 DEF OnItsWay
<1>8. QED BY <1>2, <1>3, <1>4, <1>5, <1>6, <1>7 DEF UartInv, QueueStep

LEMMA NextStep == ASSUME UartInv, StartNext PROVE UartInv' /\ QueueStep
<1>1. /\ tx_lock # NoByte /\ hand = NoByte /\ Waiting # 0 /\ fifo = <<>>
      /\ hand' = ring[tx_r % UART_TX_BUF_SIZE] /\ tx_r' = (tx_r + 1) % CountMod
      /\ putting' = WritersWoken /\ UNCHANGED <<ring, tx_w, tx_lock, echo, fifo, tx_intr>>
  BY DEF StartNext, MustStop, Idle
<1>2. /\ tx_r' \in Counts /\ WaitingRight' /\ hand' \in Counts
      /\ Queued = <<hand'>> \o Queued' /\ Queued' \in Seq(Counts)
  BY <1>1, QueueTake DEF UartInv
<1>3. hand' # NoByte BY <1>2, UartFacts
<1>4. UartTypes' BY <1>1, <1>2 DEF UartInv, UartTypes, WritersWoken
<1>5. Ours = {} /\ InTheUart = <<>> BY <1>1 DEF Ours, InTheUart
<1>6. Ours' = {} /\ InTheUart' = <<>> /\ OneOfOurs' BY <1>1, <1>5, FifoKept DEF UartInv
<1>7. SomeRoom'
  <2>1. Echoing' = Echoing /\ Len(fifo') = 0 BY <1>1 DEF Echoing
  <2>2. QED BY <1>3, <2>1, UartNow DEF SomeRoom
<1>8. HandRight' BY <1>6 DEF HandRight
<1>9. GoesOn' BY <1>1 DEF GoesOn
<1>10. AsleepRight' BY <1>1 DEF AsleepRight, WritersWoken
<1>11. OnItsWay' = OnItsWay
  <2>1. OnItsWay = Queued
    <3>1. ByteInHand = <<>> BY <1>1 DEF ByteInHand
    <3>2. <<>> \o <<>> = <<>> /\ <<>> \o Queued = Queued BY UartNow, ConcatEmptySeq
    <3>3. QED BY <1>5, <3>1, <3>2 DEF OnItsWay
  <2>2. OnItsWay' = <<hand'>> \o Queued'
    <3>1. ByteInHand' = <<hand'>> BY <1>3 DEF ByteInHand
    <3>2. <<hand'>> \in Seq(Counts) BY <1>2
    <3>3. <<>> \o <<hand'>> = <<hand'>> BY <3>2, ConcatEmptySeq
    <3>4. QED BY <1>6, <3>1, <3>3 DEF OnItsWay
  <2>3. QED BY <1>2, <2>1, <2>2
<1>12. QED BY <1>2, <1>4, <1>6, <1>7, <1>8, <1>9, <1>10, <1>11 DEF UartInv, QueueStep

LEMMA WriteStep == ASSUME UartInv, StartWrite PROVE UartInv' /\ QueueStep
<1>1. /\ hand # NoByte /\ WriteTHR(hand) /\ hand' = NoByte
      /\ UNCHANGED <<ring, tx_w, tx_r, tx_lock, putting, echo, tx_intr>>
  BY DEF StartWrite
<1>2. hand \in Counts /\ Ours = {} BY <1>1 DEF UartInv, UartTypes, HandRight
<1>3. Len(fifo) + Cardinality(Echoing) + 1 <= Cardinality(Echoers) + 1
  BY <1>1 DEF UartInv, SomeRoom
<1>4. Len(fifo) < FIFO_DEPTH BY <1>3, UartNow
<1>5. fifo' = Append(fifo, hand) BY <1>1, <1>4 DEF WriteTHR
<1>6. fifo' \in Seq(Bytes) /\ AtMostOne(fifo') /\ OutIn(fifo') = <<hand>>
  BY <1>2, <1>5, UartNow, OursAre, FifoPut
<1>7. OneOfOurs' /\ InTheUart' = <<hand>> BY <1>6, OursAre
<1>8. Len(fifo') = Len(fifo) + 1
  BY <1>2, <1>5, UartNow, AppendProperties DEF Bytes
<1>9. SomeRoom'
  <2>1. Echoing' = Echoing BY <1>1 DEF Echoing
  <2>2. QED BY <1>1, <1>3, <1>8, <2>1, UartNow DEF SomeRoom
<1>10. UartTypes' BY <1>1, <1>6 DEF UartInv, UartTypes, Bytes
<1>11. WaitingRight' /\ Queued' = Queued /\ Waiting' = Waiting /\ (IsFull' <=> IsFull)
  BY <1>1, QueueKept DEF UartInv
<1>12. HandRight' BY <1>1 DEF HandRight
<1>13. GoesOn'
  <2>1. fifo' # <<>> BY <1>8, UartNow
  <2>2. QED BY <2>1 DEF GoesOn
<1>14. AsleepRight' BY <1>1, <1>11 DEF UartInv, AsleepRight
<1>15. OnItsWay' = OnItsWay
  <2>1. InTheUart = <<>> /\ ByteInHand = <<hand>> /\ ByteInHand' = <<>>
    BY <1>1, <1>2 DEF InTheUart, ByteInHand
  <2>2. <<hand>> \in Seq(Counts) BY <1>2
  <2>3. <<>> \o <<hand>> = <<hand>> /\ <<hand>> \o <<>> = <<hand>> BY <2>2, ConcatEmptySeq
  <2>4. QED BY <1>7, <1>11, <2>1, <2>3 DEF OnItsWay
<1>16. QED BY <1>7, <1>9, <1>10, <1>11, <1>12, <1>13, <1>14, <1>15 DEF UartInv, QueueStep

LEMMA StartReturnStep == ASSUME UartInv, StartReturn PROVE UartInv' /\ QueueStep
<1>1. /\ Waiting = 0 \/ fifo # <<>>
      /\ tx_lock' = NoByte
      /\ putting' = [p \in Writers |-> IF p = tx_lock THEN "user" ELSE putting[p]]
      /\ UNCHANGED <<ring, tx_w, tx_r, hand, echo, fifo, tx_intr>>
  BY DEF StartReturn, MustStop, Idle
<1>2. OneOfOurs' /\ HandRight' /\ SomeRoom' /\ InTheUart' = InTheUart /\ ByteInHand' = ByteInHand
  BY <1>1, FifoKept DEF UartInv, HandRight, SomeRoom, Echoing, ByteInHand
<1>3. WaitingRight' /\ Queued' = Queued /\ Waiting' = Waiting /\ (IsFull' <=> IsFull)
  BY <1>1, QueueKept DEF UartInv
<1>4. UartTypes' BY <1>1 DEF UartInv, UartTypes
<1>5. GoesOn'
  <2>1. Waiting \in Nat BY QueueIs DEF UartInv
  <2>2. QED BY <1>1, <1>3, <2>1 DEF GoesOn
<1>6. AsleepRight' BY <1>1, <1>3 DEF UartInv, AsleepRight
<1>7. OnItsWay' = OnItsWay BY <1>2, <1>3 DEF OnItsWay
<1>8. QED BY <1>2, <1>3, <1>4, <1>5, <1>6, <1>7 DEF UartInv, QueueStep

LEMMA EchoIdleStep ==
  ASSUME UartInv, NEW x \in Echoers, EchoIdle(x) PROVE UartInv' /\ QueueStep
<1>1. /\ fifo = <<>> /\ echo' = [echo EXCEPT ![x] = "write"]
      /\ UNCHANGED <<ring, tx_w, tx_r, tx_lock, hand, putting, fifo, tx_intr>>
  BY DEF EchoIdle, Idle
<1>2. OneOfOurs' /\ HandRight' /\ InTheUart' = InTheUart /\ ByteInHand' = ByteInHand
  BY <1>1, FifoKept DEF UartInv, HandRight, ByteInHand
<1>3. WaitingRight' /\ Queued' = Queued /\ Waiting' = Waiting /\ (IsFull' <=> IsFull)
  BY <1>1, QueueKept DEF UartInv
<1>4. UartTypes' BY <1>1 DEF UartInv, UartTypes
<1>5. SomeRoom'
  <2>1. Echoing' \in SUBSET Echoers BY DEF Echoing
  <2>2. Cardinality(Echoing') <= Cardinality(Echoers) /\ Cardinality(Echoing') \in Nat
    BY <2>1, UartAssumption, FS_Subset, FS_CardinalityType
  <2>3. Len(fifo') = 0 BY <1>1
  <2>4. QED BY <2>2, <2>3, UartNow DEF SomeRoom
<1>6. GoesOn' BY <1>1, <1>3 DEF UartInv, GoesOn
<1>7. AsleepRight' BY <1>1, <1>3 DEF UartInv, AsleepRight
<1>8. OnItsWay' = OnItsWay BY <1>2, <1>3 DEF OnItsWay
<1>9. QED BY <1>2, <1>3, <1>4, <1>5, <1>6, <1>7, <1>8 DEF UartInv, QueueStep

LEMMA EchoWriteStep ==
  ASSUME UartInv, NEW x \in Echoers, EchoWrite(x) PROVE UartInv' /\ QueueStep
<1>1. /\ echo[x] = "write" /\ WriteTHR(Echoed) /\ echo' = [echo EXCEPT ![x] = "idle"]
      /\ UNCHANGED <<ring, tx_w, tx_r, tx_lock, hand, putting, tx_intr>>
  BY DEF EchoWrite
<1>2. /\ Echoing' = Echoing \ {x} /\ x \in Echoing
      /\ Cardinality(Echoing') = Cardinality(Echoing) - 1 /\ Cardinality(Echoing') \in Nat
  <2>1. Echoing' = Echoing \ {x} /\ x \in Echoing BY <1>1 DEF Echoing, UartInv, UartTypes
  <2>2. /\ IsFiniteSet(Echoing \ {x}) /\ Cardinality(Echoing \ {x}) = Cardinality(Echoing) - 1
        /\ Cardinality(Echoing \ {x}) \in Nat
    BY <2>1, UartNow, FS_RemoveElement, FS_CardinalityType
  <2>3. QED BY <2>1, <2>2
<1>3. Len(fifo) < FIFO_DEPTH
  <2>1. PICK h \in {0, 1} : Len(fifo) + Cardinality(Echoing) + h <= Cardinality(Echoers) + 1
    BY DEF UartInv, SomeRoom
  <2>2. QED BY <1>2, <2>1, UartNow
<1>4. fifo' = Append(fifo, Echoed) BY <1>1, <1>3 DEF WriteTHR
<1>5. /\ fifo' \in Seq(Bytes) /\ OursIn(fifo') = OursIn(fifo) /\ AtMostOne(fifo')
      /\ OutIn(fifo') = OutIn(fifo)
  BY <1>4, UartNow, FifoEcho
<1>6. OneOfOurs' /\ InTheUart' = InTheUart /\ Ours' = Ours BY <1>5, OursAre
<1>7. Len(fifo') = Len(fifo) + 1 BY <1>4, UartNow, AppendProperties DEF Bytes
<1>8. SomeRoom' BY <1>1, <1>2, <1>7, UartNow DEF UartInv, SomeRoom
<1>9. UartTypes' BY <1>1, <1>5 DEF UartInv, UartTypes, Bytes
<1>10. WaitingRight' /\ Queued' = Queued /\ Waiting' = Waiting /\ (IsFull' <=> IsFull)
  BY <1>1, QueueKept DEF UartInv
<1>11. HandRight' BY <1>1, <1>6 DEF UartInv, HandRight
<1>12. GoesOn'
  <2>1. fifo' # <<>> BY <1>7, UartNow
  <2>2. QED BY <2>1 DEF GoesOn
<1>13. AsleepRight' BY <1>1, <1>10 DEF UartInv, AsleepRight
<1>14. OnItsWay' = OnItsWay BY <1>1, <1>6, <1>10 DEF OnItsWay, ByteInHand
<1>15. QED BY <1>6, <1>8, <1>9, <1>10, <1>11, <1>12, <1>13, <1>14 DEF UartInv, QueueStep

LEMMA SendStep == ASSUME UartInv, Send PROVE UartInv' /\ QueueStep
<1>1. /\ fifo # <<>> /\ fifo' = Tail(fifo) /\ tx_intr' = (tx_intr \/ Len(fifo) = 1)
      /\ UNCHANGED <<ring, tx_w, tx_r, tx_lock, hand, putting, echo>>
  BY DEF Send
<1>2. /\ fifo' \in Seq(Bytes) /\ Len(fifo') = Len(fifo) - 1 /\ AtMostOne(fifo')
      /\ OursIn(fifo) = {} => OursIn(fifo') = {}
      /\ OutIn(fifo') = OutIn(fifo) \/ (OursIn(fifo) # {} /\ OutIn(fifo') = <<>>)
  BY <1>1, UartNow, FifoSend
<1>3. OneOfOurs' BY <1>2, OursAre
<1>4. HandRight' BY <1>1, <1>2, OursAre DEF UartInv, HandRight
<1>5. SomeRoom'
  <2>1. Echoing' = Echoing BY <1>1 DEF Echoing
  <2>2. QED BY <1>1, <1>2, <2>1, UartNow DEF UartInv, SomeRoom
<1>6. tx_intr' \in BOOLEAN /\ (Len(fifo) = 1 => tx_intr') BY <1>1
<1>7. UartTypes' BY <1>1, <1>2, <1>6 DEF UartInv, UartTypes, Bytes
<1>8. WaitingRight' /\ Queued' = Queued /\ Waiting' = Waiting /\ (IsFull' <=> IsFull)
  BY <1>1, QueueKept DEF UartInv
<1>9. GoesOn'
  <2>1. Len(fifo) = 1 \/ fifo' # <<>> BY <1>2, UartNow
  <2>2. QED BY <1>6, <2>1 DEF GoesOn
<1>10. AsleepRight' BY <1>1, <1>8 DEF UartInv, AsleepRight
<1>11. QueueStep
  <2>1. ByteInHand' = ByteInHand BY <1>1 DEF ByteInHand
  <2>2. CASE OutIn(fifo') = OutIn(fifo)
    <3>1. OnItsWay' = OnItsWay BY <1>8, <2>1, <2>2, OursAre DEF OnItsWay
    <3>2. QED BY <3>1 DEF QueueStep
  <2>3. CASE OursIn(fifo) # {} /\ OutIn(fifo') = <<>>
    <3>1. PICK k \in OursIn(fifo) : TRUE BY <2>3
    <3>2. fifo[k] \in Counts
      <4>1. k \in 1 .. Len(fifo) /\ fifo[k] # Echoed BY DEF OursIn
      <4>2. fifo[k] \in Bytes BY <4>1, UartNow, ElementOfSeq
      <4>3. QED BY <4>1, <4>2 DEF Bytes
    <3>3. InTheUart = <<fifo[k]>> BY UartNow, OutIs, OursAre
    <3>4. hand = NoByte BY <2>3, OursAre DEF UartInv, HandRight
    <3>5. ByteInHand = <<>> BY <3>4 DEF ByteInHand
    <3>6. OnItsWay = <<fifo[k]>> \o Queued
      <4>1. <<fifo[k]>> \in Seq(Counts) BY <3>2
      <4>2. <<fifo[k]>> \o <<>> = <<fifo[k]>> BY <4>1, ConcatEmptySeq
      <4>3. QED BY <3>3, <3>5, <4>2 DEF OnItsWay
    <3>7. OnItsWay' = Queued
      <4>1. InTheUart' = <<>> /\ ByteInHand' = <<>> BY <2>1, <2>3, <3>5, OursAre
      <4>2. <<>> \o <<>> = <<>> /\ <<>> \o Queued = Queued BY UartNow, ConcatEmptySeq
      <4>3. QED BY <1>8, <4>1, <4>2 DEF OnItsWay
    <3>8. <<fifo[k]>> \o Queued # <<>> /\ Tail(<<fifo[k]>> \o Queued) = Queued
      BY <3>2, UartNow, JoinRight
    <3>9. QED BY <3>6, <3>7, <3>8 DEF QueueStep
  <2>4. QED BY <1>2, <2>2, <2>3
<1>12. QED BY <1>3, <1>4, <1>5, <1>7, <1>8, <1>9, <1>10, <1>11 DEF UartInv

LEMMA UartStep == UartInv /\ [UartNext]_uartVars => UartInv' /\ [QueueStep]_uartVars
<1>1. ASSUME UartInv, UNCHANGED uartVars PROVE UartInv'
  <2>1. UNCHANGED <<ring, tx_w, tx_r, tx_lock, hand, putting, echo, fifo, tx_intr>>
    BY <1>1 DEF uartVars
  <2>2. WaitingRight' /\ Waiting' = Waiting /\ (IsFull' <=> IsFull) BY <1>1, <2>1, QueueKept DEF UartInv
  <2>3. OneOfOurs' /\ HandRight' BY <1>1, <2>1, FifoKept DEF UartInv, HandRight
  <2>4. QED
    BY <1>1, <2>1, <2>2, <2>3
    DEF UartInv, UartTypes, SomeRoom, Echoing, GoesOn, AsleepRight
<1>2. QED
  BY <1>1, PutcStep, IntrStep, NextStep, WriteStep, StartReturnStep, EchoIdleStep,
     EchoWriteStep, SendStep DEF UartNext

LEMMA UartStart == UartInit => UartInv /\ QueueInit
<1> SUFFICES ASSUME UartInit PROVE UartInv /\ QueueInit OBVIOUS
<1>1. 0 \in Counts /\ 0 \in Nat BY UartFacts DEF Counts
<1>2. UartTypes
  <2>1. ring \in [Slots -> Counts \cup {NoByte}] BY DEF UartInit, Slots
  <2>2. tx_w \in Counts /\ tx_r \in Counts BY <1>1 DEF UartInit
  <2>3. tx_lock \in Writers \cup {"intr", NoByte} /\ hand \in Counts \cup {NoByte}
    BY DEF UartInit
  <2>4. /\ putting \in [Writers -> {"user", "start", "sleep", "put"}]
        /\ echo \in [Echoers -> {"idle", "write"}]
    BY DEF UartInit
  <2>5. fifo \in Seq(Counts \cup {Echoed}) /\ tx_intr \in BOOLEAN
    <3>1. fifo = <<>> /\ tx_intr = FALSE BY DEF UartInit
    <3>2. fifo \in Seq(Counts \cup {Echoed}) BY <3>1, EmptySeq
    <3>3. QED BY <3>1, <3>2
  <2>6. QED BY <2>1, <2>2, <2>3, <2>4, <2>5 DEF UartTypes
<1>3. Waiting = 0
  <2>1. Gap(Waiting, 0, 0, CountMod) BY <1>2, WaitingIs DEF UartInit
  <2>2. Waiting = IF 0 >= 0 THEN 0 - 0 ELSE 0 - 0 + CountMod BY <2>1, Zenon DEF Gap
  <2>3. QED BY <2>2
<1>4. WaitingRight /\ Queued = <<>>
  <2>1. Queued = <<>> BY <1>3 DEF Queued
  <2>2. QED BY <1>3, <2>1, UartFacts DEF WaitingRight
<1>5. Ours = {} /\ InTheUart = <<>> /\ ByteInHand = <<>>
  BY DEF UartInit, Ours, InTheUart, ByteInHand
<1>6. SomeRoom
  <2>1. Echoing = {} BY DEF UartInit, Echoing
  <2>2. Cardinality(Echoing) = 0 /\ Cardinality(Echoers) \in Nat
    BY <2>1, FS_EmptySet, UartAssumption, FS_CardinalityType
  <2>3. QED BY <2>2 DEF UartInit, SomeRoom
<1>7. OneOfOurs /\ HandRight /\ GoesOn /\ AsleepRight
  BY <1>3, <1>5 DEF UartInit, OneOfOurs, HandRight, GoesOn, AsleepRight
<1>8. QueueInit
  <2>1. <<>> \o <<>> = <<>>
    <3>1. <<>> \in Seq(Counts) OBVIOUS
    <3>2. QED BY <3>1, ConcatEmptySeq
  <2>2. QED BY <1>4, <1>5, <2>1 DEF QueueInit, OnItsWay
<1>9. QED BY <1>2, <1>4, <1>6, <1>7, <1>8 DEF UartInv

(* uartputc() and uartintr(), beside echoes of every CPU: what write() has    *)
(* accepted leaves in its order and is not left behind, for any number of     *)
(* writers, any ring, and any FIFO with room for one byte of each CPU and one *)
(* of uartstart().                                                            *)
THEOREM OutputRightAlways == UartSpec => OutputRight
<1>1. UartInv => OutputGoesOn /\ OneOfOurs
  BY DEF UartInv, OutputGoesOn, GoesOn, AsleepRight
<1>2. QED BY <1>1, UartStart, UartStep, PTL DEF UartSpec, OutputRight
=============================================================================
