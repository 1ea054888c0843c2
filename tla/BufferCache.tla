---------------------------- MODULE BufferCache ----------------------------
(***************************************************************************)
(* The buffer cache (kernel/bio.c) with its sleeplocks (sleeplock.c) on    *)
(* the disk driver.  The callers follow the rule of the file system: who   *)
(* has changed a buffer writes it to the disk or pins it before brelse(),  *)
(* and unpins what is on the disk again.                                   *)
(***************************************************************************)
EXTENDS VirtioDisk, TLC

CONSTANTS MaxPins,  \* bound: buffers pinned at a time
          Victims   \* bound: processes that may be killed

VARIABLES valid, refcnt, lru,  \* struct buf and the list, most recent first
          lock,                \* who holds the sleeplock of a buffer
          want,                \* the argument of a process's bread()
          pinned               \* buffers the log has pinned

cacheVars == <<valid, refcnt, lru, lock, want, pinned>>
vars == <<callVars, blockno, diskVars, cacheVars>>

Init ==
  /\ DiskInit
  /\ disk \in [Blocks -> Data]
  /\ at = [p \in Procs |-> "out"] /\ buf = [p \in Procs |-> None]
  /\ write = [p \in Procs |-> FALSE] /\ want = [p \in Procs |-> None]
  /\ blockno = [b \in Bufs |-> None] /\ data = [b \in Bufs |-> None]
  /\ valid = [b \in Bufs |-> FALSE] /\ refcnt = [b \in Bufs |-> 0]
  /\ lru = [i \in Bufs |-> NBUF + 1 - i]
  /\ lock = [b \in Bufs |-> None] /\ pinned = {}

-----------------------------------------------------------------------------
(* bget(): the two scans, under bcache.lock.                                  *)
(* Mutant: a buffer that is still being read is not found.                    *)
CachedValid(n) == {b \in Bufs : blockno[b] = n /\ valid[b]}

Cached(n) == {b \in Bufs : blockno[b] = n}
Unused    == {i \in Bufs : refcnt[lru[i]] = 0}

Use(p, n, b) ==
  /\ want' = [want EXCEPT ![p] = n]
  /\ buf' = [buf EXCEPT ![p] = b]
  /\ Goto(p, "lock")

(* Mutant: b->refcnt++ is missing.                                            *)
bget_cached_free(p, n) ==
  /\ at[p] = "out"
  /\ \E b \in Cached(n) : Use(p, n, b)
  /\ UNCHANGED <<write, blockno, valid, refcnt, lru, lock, pinned>> /\ UNCHANGED diskVars

bget_cached(p, n) ==
  /\ at[p] = "out"
  /\ \E b \in Cached(n) : Use(p, n, b) /\ refcnt' = [refcnt EXCEPT ![b] = @ + 1]
  /\ UNCHANGED <<write, blockno, valid, lru, lock, pinned>> /\ UNCHANGED diskVars

(* The least recently used buffer that nobody refers to.                      *)
bget_recycle(p, n) ==
  /\ at[p] = "out" /\ Cached(n) = {}
  /\ \E i \in Unused : LET b == lru[i] IN
       /\ \A j \in Unused : j <= i
       /\ Use(p, n, b)
       /\ blockno' = [blockno EXCEPT ![b] = n]
       /\ valid' = [valid EXCEPT ![b] = FALSE]
       /\ refcnt' = [refcnt EXCEPT ![b] = 1]
  /\ UNCHANGED <<write, lru, lock, pinned>> /\ UNCHANGED diskVars

(* panic("bget: no buffers") stops the machine.                               *)
bget_panic(p, n) ==
  /\ at[p] = "out" /\ Cached(n) = {} /\ Unused = {}
  /\ Goto(p, "panic")
  /\ UNCHANGED <<buf, write, blockno>> /\ UNCHANGED cacheVars /\ UNCHANGED diskVars

(* acquiresleep(), then the part of bread() after bget().                     *)
MustReadNever(b) == FALSE  \* Mutant: bread() of a recycled buffer reads nothing.

MustRead(b) == ~valid[b]
acquiresleep(p) ==
  LET b == buf[p] IN
  /\ at[p] = "lock"
  /\ \/ lock[b] # None /\ Goto(p, "lock_sleep") /\ lock' = lock
     \/ /\ lock[b] = None
        /\ lock' = [lock EXCEPT ![b] = p]
        /\ Goto(p, IF MustRead(b) THEN "rw" ELSE "held")
  /\ UNCHANGED <<buf, write, blockno, valid, refcnt, lru, want, pinned>> /\ UNCHANGED diskVars

rw_return(p) ==
  /\ Finish(p, "held")
  /\ valid' = IF owned[buf[p]] THEN valid ELSE [valid EXCEPT ![buf[p]] = TRUE]
  /\ UNCHANGED <<refcnt, lru, lock, want, pinned>>

bwrite(p) ==
  /\ at[p] = "held"
  /\ Goto(p, "rw")
  /\ write' = [write EXCEPT ![p] = TRUE]
  /\ UNCHANGED <<buf, blockno>> /\ UNCHANGED cacheVars /\ UNCHANGED diskVars

(* The caller changes the data it holds.                                      *)
Modify(p, d) ==
  /\ at[p] = "held"
  /\ data' = [data EXCEPT ![buf[p]] = d]
  /\ UNCHANGED <<blockno, callVars, cacheVars, driverVars, deviceVars>>

OnDisk(b) == data[b] = disk[blockno[b]]

bpin(p) ==
  LET b == buf[p] IN
  /\ at[p] = "held" /\ b \notin pinned /\ Cardinality(pinned) < MaxPins
  /\ pinned' = pinned \cup {b}
  /\ refcnt' = [refcnt EXCEPT ![b] = @ + 1]
  /\ UNCHANGED <<callVars, blockno, valid, lru, lock, want>> /\ UNCHANGED diskVars

bunpin(p) ==
  LET b == buf[p] IN
  /\ at[p] = "held" /\ b \in pinned /\ OnDisk(b)
  /\ pinned' = pinned \ {b}
  /\ refcnt' = [refcnt EXCEPT ![b] = @ - 1]
  /\ UNCHANGED <<callVars, blockno, valid, lru, lock, want>> /\ UNCHANGED diskVars

-----------------------------------------------------------------------------
(* brelse(): releasesleep(), and then the reference.                          *)
(* Mutant: without its wakeup().                                              *)
UnlockedSilent(p, b) == [at EXCEPT ![p] = "brelse"]

Unlocked(p, b) == [q \in Procs |-> IF q = p THEN "brelse"
                     ELSE IF at[q] = "lock_sleep" /\ buf[q] = b THEN "lock" ELSE at[q]]
releasesleep(p) ==
  LET b == buf[p] IN
  /\ at[p] = "held" /\ (OnDisk(b) \/ b \in pinned)
  /\ lock' = [lock EXCEPT ![b] = None]
  /\ at' = Unlocked(p, b)
  /\ UNCHANGED <<buf, write, blockno, valid, refcnt, lru, want, pinned>> /\ UNCHANGED diskVars

(* b moves to the front of the list.                                          *)
ToFront(b) == [i \in Bufs |-> IF i = 1 THEN b
                              ELSE IF \E j \in 1 .. i - 1 : lru[j] = b THEN lru[i] ELSE lru[i - 1]]

brelse(p) ==
  LET b == buf[p] IN
  /\ at[p] = "brelse"
  /\ refcnt' = [refcnt EXCEPT ![b] = @ - 1]
  /\ lru' = IF refcnt[b] = 1 THEN ToFront(b) ELSE lru
  /\ at' = [at EXCEPT ![p] = "out"]
  /\ buf' = [buf EXCEPT ![p] = None] /\ want' = [want EXCEPT ![p] = None]
  /\ UNCHANGED <<write, blockno, valid, lock, pinned>> /\ UNCHANGED diskVars

(* kill() wakes a process wherever it sleeps; the loops look again.           *)
Kill(p) ==
  /\ p \in Victims
  /\ \/ at[p] = "lock_sleep" /\ Goto(p, "lock")
     \/ at[p] = "desc_sleep" /\ Goto(p, "rw")
     \/ at[p] = "io_sleep" /\ Goto(p, "io")
  /\ UNCHANGED <<buf, write, blockno>> /\ UNCHANGED cacheVars /\ UNCHANGED diskVars

Rw(p) == (Submit(p) \/ NoDescs(p)) /\ UNCHANGED cacheVars
Devices == Machine /\ UNCHANGED cacheVars

Step(p) ==
  \/ \E n \in Blocks : bget_cached(p, n) \/ bget_recycle(p, n) \/ bget_panic(p, n)
  \/ acquiresleep(p) \/ Rw(p) \/ rw_return(p) \/ brelse(p)

Caller(p) ==
  \/ \E d \in Data : Modify(p, d)
  \/ bwrite(p) \/ bpin(p) \/ bunpin(p) \/ releasesleep(p) \/ Kill(p)

Panicked == \E p \in Procs : at[p] = "panic"

Next == ~Panicked /\ (Devices \/ \E p \in Procs : Step(p) \/ Caller(p))

Spec == Init /\ [][Next]_vars

-----------------------------------------------------------------------------
Using(b) == {p \in Procs : buf[p] = b}
Locked   == {"held"} \cup InRw

TypeOK ==
  /\ at \in [Procs -> Locked \cup {"out", "lock", "lock_sleep", "brelse", "panic"}]
  /\ blockno \in [Bufs -> Blocks \cup {None}] /\ data \in [Bufs -> Data \cup {None}]
  /\ refcnt \in [Bufs -> Nat] /\ lock \in [Bufs -> Procs \cup {None}]
  /\ {lru[i] : i \in Bufs} = Bufs

(* A block is never in two buffers, and the references of a buffer are those  *)
(* of the processes that use or wait for it and of the log: a buffer that is  *)
(* wanted is not recycled.                                                    *)
OneBuffer == \A b, c \in Bufs : blockno[b] = blockno[c] /\ blockno[b] # None => b = c
RefsExact == \A b \in Bufs :
  refcnt[b] = Cardinality(Using(b)) + (IF b \in pinned THEN 1 ELSE 0)

(* While the device may read or write a buffer it is locked by the process    *)
(* that waits for it, and everybody else keeps off.                           *)
DeviceAlone ==
  \A h \in inflight : req[h] # None /\ LET b == req[h].addr IN
    owned[b] /\ \E p \in Procs : lock[b] = p /\ buf[p] = b /\ at[p] \in {"io_sleep", "io"}
Exclusive == TypeOK /\ OneBuffer /\ DeviceAlone

(* No wakeup() is lost: who sleeps for a buffer, for descriptors or for the   *)
(* disk has somebody to wait for, whoever else is woken by kill().            *)
NobodyForgotten == \A p \in Procs :
  /\ at[p] = "lock_sleep" => lock[buf[p]] # None
  /\ at[p] = "desc_sleep" => Cardinality(free) < 3
  /\ at[p] = "io_sleep" => owned[buf[p]]

(* The promise: one holder per block, who finds what the last one left.       *)
Content == [n \in Blocks |-> IF \E b \in Cached(n) : valid[b]
                             THEN data[CHOOSE b \in Cached(n) : valid[b]] ELSE disk[n]]
Holds == [p \in Procs |-> IF at[p] = "held" \/ (at[p] \in InRw /\ valid[buf[p]])
                          THEN want[p] ELSE None]
Store == INSTANCE BlockStore WITH content <- Content, holds <- Holds
Implements == Store!Spec

(* The code tells no processes, blocks or contents apart: symmetry for TLC.   *)
DiskSymmetry == Permutations(Procs) \cup Permutations(Blocks) \cup Permutations(Data)
=============================================================================
