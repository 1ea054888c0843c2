----------------------------- MODULE DiskProof -----------------------------
(***************************************************************************)
(* Machine-checked theorems about BufferCache on VirtioDisk, for every     *)
(* number of processes, blocks, buffers and descriptors.                   *)
(***************************************************************************)
EXTENDS BufferCache, TLAPS, FiniteSetTheorems, FunctionTheorems, WellFoundedInduction

States == Locked \cup {"out", "lock", "lock_sleep", "brelse", "panic"}
Away   == {"out", "panic"}

CacheTypes ==
  /\ at \in [Procs -> States] /\ buf \in [Procs -> Bufs \cup {None}]
  /\ want \in [Procs -> Blocks \cup {None}] /\ blockno \in [Bufs -> Blocks \cup {None}]
  /\ refcnt \in [Bufs -> Nat] /\ lock \in [Bufs -> Procs \cup {None}]
  /\ lru \in [Bufs -> Bufs] /\ pinned \subseteq Bufs

(* A process refers to a buffer from bget() to brelse(), and the buffer keeps *)
(* the block the process asked for: it has a reference, so nobody recycles it.*)
Referring ==
  \A p \in Procs :
    /\ buf[p] = None <=> at[p] \in Away
    /\ buf[p] # None => want[p] # None /\ blockno[buf[p]] = want[p]

(* The holder of a sleeplock is the one process that is past acquiresleep().  *)
Locking ==
  /\ \A p \in Procs : at[p] \in Locked => lock[buf[p]] = p
  /\ \A b \in Bufs : lock[b] # None => at[lock[b]] \in Locked /\ buf[lock[b]] = b

(* Who waits for descriptors waits beside at most two free ones.              *)
Waiting ==
  /\ IsFiniteSet(free) /\ owned \in [Bufs -> BOOLEAN]
  /\ NobodyForgotten

CacheInv == CacheTypes /\ Referring /\ RefsExact /\ OneBuffer /\ Locking

-----------------------------------------------------------------------------
(* The steps that leave the references and the locks alone.                   *)
Quiet ==
  /\ UNCHANGED <<buf, blockno, refcnt, lru, lock, want, pinned>>
  /\ at' \in [Procs -> States]
  /\ \A q \in Procs : /\ at'[q] \in Locked <=> at[q] \in Locked
                      /\ at'[q] \in Away <=> at[q] \in Away

LEMMA BufsFacts == Bufs \subseteq Int /\ None \notin Bufs /\ 1 \in Bufs
BY DiskAssumption DEF Bufs

LEMMA DevicesQuiet == ASSUME CacheTypes, Devices PROVE Quiet
<1> USE DEF Quiet, CacheTypes, States, Locked, InRw, Away, callVars, cacheVars,
            driverVars, deviceVars, diskVars, ringVars
<1>1. CASE IntrStart BY <1>1 DEF IntrStart, Devices
<1>2. CASE IntrLoop BY <1>2 DEF IntrLoop, Devices
<1>3. CASE DeviceTake BY <1>3 DEF DeviceTake, Devices
<1>4. ASSUME NEW h \in Descs, DeviceFinish(h) PROVE Quiet BY <1>4 DEF DeviceFinish, Devices
<1>5. QED BY <1>1, <1>2, <1>3, <1>4 DEF Devices, Machine

LEMMA DriverQuiet == ASSUME CacheTypes, NEW p \in Procs, Rw(p) \/ rw_return(p) PROVE Quiet
<1> USE DEF Quiet, CacheTypes, States, Locked, InRw, Away, callVars, cacheVars,
            driverVars, deviceVars, diskVars, ringVars
<1>1. CASE Rw(p) /\ Submit(p) BY <1>1 DEF Rw, Submit, Goto
<1>2. CASE Rw(p) /\ NoDescs(p) BY <1>2 DEF Rw, NoDescs, Woken
<1>3. CASE rw_return(p) BY <1>3 DEF rw_return, Finish, Goto, Woken
<1>4. QED BY <1>1, <1>2, <1>3 DEF Rw

LEMMA CallerQuiet ==
  ASSUME CacheTypes, NEW p \in Procs,
         (\E d \in Data : Modify(p, d)) \/ bwrite(p) \/ Kill(p)
  PROVE  Quiet
<1> USE DEF Quiet, CacheTypes, States, Locked, InRw, Away, callVars, cacheVars,
            driverVars, deviceVars, diskVars, ringVars
<1>1. CASE \E d \in Data : Modify(p, d) BY <1>1 DEF Modify
<1>2. CASE bwrite(p) BY <1>2 DEF bwrite, Goto
<1>3. CASE Kill(p) BY <1>3 DEF Kill, Goto
<1>4. QED BY <1>1, <1>2, <1>3

LEMMA QuietKeeps == ASSUME CacheInv, Quiet PROVE CacheInv'
<1>1. CacheTypes' BY DEF CacheInv, CacheTypes, Quiet
<1>2. Referring' BY DEF CacheInv, Referring, Quiet
<1>3. RefsExact' BY DEF CacheInv, RefsExact, Using, Quiet
<1>4. OneBuffer' BY DEF CacheInv, OneBuffer, Quiet
<1>5. Locking' BY DEF CacheInv, CacheTypes, Locking, Quiet
<1>6. QED BY <1>1, <1>2, <1>3, <1>4, <1>5 DEF CacheInv

-----------------------------------------------------------------------------
(* References come and go one by one.                                         *)
LEMMA UsingFinite == \A b \in Bufs : IsFiniteSet(Using(b)) /\ Cardinality(Using(b)) \in Nat
BY DiskAssumption, FS_Subset, FS_CardinalityType DEF Using

LEMMA UseBegins ==
  ASSUME CacheTypes, NEW p \in Procs, NEW b \in Bufs, buf[p] = None, buf' = [buf EXCEPT ![p] = b]
  PROVE  /\ Cardinality(Using(b)') = Cardinality(Using(b)) + 1
         /\ \A c \in Bufs \ {b} : Using(c)' = Using(c)
<1>1. p \notin Using(b) /\ Using(b)' = Using(b) \cup {p}
  BY BufsFacts DEF Using, CacheTypes
<1>2. Cardinality(Using(b)') = Cardinality(Using(b)) + 1
  BY <1>1, UsingFinite, FS_AddElement
<1>3. \A c \in Bufs \ {b} : Using(c)' = Using(c) BY BufsFacts DEF Using, CacheTypes
<1>4. QED BY <1>2, <1>3

LEMMA UseEnds ==
  ASSUME CacheTypes, NEW p \in Procs, NEW b \in Bufs, buf[p] = b, buf' = [buf EXCEPT ![p] = None]
  PROVE  /\ Cardinality(Using(b)') = Cardinality(Using(b)) - 1
         /\ \A c \in Bufs \ {b} : Using(c)' = Using(c)
<1>1. p \in Using(b) /\ Using(b)' = Using(b) \ {p} BY BufsFacts DEF Using, CacheTypes
<1>2. Cardinality(Using(b)') = Cardinality(Using(b)) - 1
  BY <1>1, UsingFinite, FS_RemoveElement
<1>3. \A c \in Bufs \ {b} : Using(c)' = Using(c) BY BufsFacts DEF Using, CacheTypes
<1>4. QED BY <1>2, <1>3

(* Without references nobody uses a buffer; who uses it has one.              *)
LEMMA Unreferred ==
  ASSUME CacheInv, NEW b \in Bufs
  PROVE  /\ refcnt[b] = 0 => Using(b) = {} /\ b \notin pinned
         /\ b \in pinned \/ Using(b) # {} => refcnt[b] > 0
<1>1. /\ refcnt[b] = Cardinality(Using(b)) + (IF b \in pinned THEN 1 ELSE 0)
      /\ IsFiniteSet(Using(b)) /\ Cardinality(Using(b)) \in Nat
  BY UsingFinite DEF CacheInv, RefsExact
<1>2. Cardinality(Using(b)) = 0 <=> Using(b) = {} BY <1>1, FS_EmptySet
<1>3. QED BY <1>1, <1>2

LEMMA MovesToFront ==
  ASSUME lru \in [Bufs -> Bufs], NEW b \in Bufs PROVE ToFront(b) \in [Bufs -> Bufs]
<1>1. ASSUME NEW i \in Bufs
      PROVE  (IF i = 1 THEN b
              ELSE IF \E j \in 1 .. i - 1 : lru[j] = b THEN lru[i] ELSE lru[i - 1]) \in Bufs
  <2>1. i # 1 => i - 1 \in Bufs BY DiskAssumption DEF Bufs
  <2>2. QED BY <2>1
<1>2. QED BY <1>1 DEF ToFront

(* The steps of bget(), of the sleeplock, of bpin() and of brelse().          *)
LEMMA CachedKeeps ==
  ASSUME CacheInv, NEW p \in Procs, NEW n \in Blocks, bget_cached(p, n) PROVE CacheInv'
<1>1. PICK b \in Bufs : /\ blockno[b] = n /\ want' = [want EXCEPT ![p] = n]
                        /\ buf' = [buf EXCEPT ![p] = b] /\ at' = [at EXCEPT ![p] = "lock"]
                        /\ refcnt' = [refcnt EXCEPT ![b] = refcnt[b] + 1]
  BY DEF bget_cached, Cached, Use, Goto
<1>2. at[p] = "out" /\ UNCHANGED <<blockno, lru, lock, pinned>> BY DEF bget_cached
<1>3. buf[p] = None BY <1>2 DEF CacheInv, Referring, Away
<1>4. CacheTypes' BY <1>1, <1>2 DEF CacheInv, CacheTypes, States
<1>5. Referring'
  BY <1>1, <1>2, BufsFacts, DiskAssumption DEF CacheInv, CacheTypes, Referring, Away
<1>6. RefsExact'
  <2>1. /\ Cardinality(Using(b)') = Cardinality(Using(b)) + 1
        /\ \A c \in Bufs \ {b} : Using(c)' = Using(c)
    BY <1>1, <1>3, UseBegins DEF CacheInv
  <2>2. \A c \in Bufs : refcnt'[c] = IF c = b THEN refcnt[b] + 1 ELSE refcnt[c]
    BY <1>1 DEF CacheInv, CacheTypes
  <2>3. QED BY <1>2, <2>1, <2>2, UsingFinite DEF CacheInv, RefsExact
<1>7. OneBuffer' BY <1>2 DEF CacheInv, OneBuffer
<1>8. Locking' BY <1>1, <1>2 DEF CacheInv, CacheTypes, Locking, Locked, InRw
<1>9. QED BY <1>4, <1>5, <1>6, <1>7, <1>8 DEF CacheInv

LEMMA RecycleKeeps ==
  ASSUME CacheInv, NEW p \in Procs, NEW n \in Blocks, bget_recycle(p, n) PROVE CacheInv'
<1>1. PICK i \in Unused : /\ want' = [want EXCEPT ![p] = n] /\ buf' = [buf EXCEPT ![p] = lru[i]]
                          /\ at' = [at EXCEPT ![p] = "lock"]
                          /\ blockno' = [blockno EXCEPT ![lru[i]] = n]
                          /\ refcnt' = [refcnt EXCEPT ![lru[i]] = 1]
  BY DEF bget_recycle, Use, Goto
<1>2. at[p] = "out" /\ Cached(n) = {} /\ UNCHANGED <<lru, lock, pinned>> BY DEF bget_recycle
<1>b. PICK b \in Bufs : b = lru[i] BY <1>1 DEF Unused, CacheInv, CacheTypes
<1>3. refcnt[b] = 0 BY <1>1, <1>b DEF Unused
<1>4. Using(b) = {} /\ b \notin pinned BY <1>3, Unreferred
<1>5. buf[p] = None BY <1>2 DEF CacheInv, Referring, Away
<1>a. /\ want' = [want EXCEPT ![p] = n] /\ buf' = [buf EXCEPT ![p] = b]
      /\ at' = [at EXCEPT ![p] = "lock"] /\ blockno' = [blockno EXCEPT ![b] = n]
      /\ refcnt' = [refcnt EXCEPT ![b] = 1]
  BY <1>1, <1>b
<1>6. CacheTypes' BY <1>a, <1>2, <1>3 DEF CacheInv, CacheTypes, States
<1>7. Referring'
  BY <1>a, <1>2, <1>3, <1>4, BufsFacts, DiskAssumption
  DEF CacheInv, CacheTypes, Referring, Away, Using
<1>8. RefsExact'
  <2>1. /\ Cardinality(Using(b)') = Cardinality(Using(b)) + 1
        /\ \A c \in Bufs \ {b} : Using(c)' = Using(c)
    BY <1>a, <1>3, <1>5, UseBegins DEF CacheInv
  <2>2. Cardinality(Using(b)) = 0 BY <1>4, FS_EmptySet
  <2>3. \A c \in Bufs : refcnt'[c] = IF c = b THEN 1 ELSE refcnt[c]
    BY <1>a DEF CacheInv, CacheTypes
  <2>4. QED BY <1>2, <1>4, <2>1, <2>2, <2>3, UsingFinite DEF CacheInv, RefsExact
<1>9. OneBuffer' BY <1>a, <1>2 DEF CacheInv, CacheTypes, OneBuffer, Cached
<1>10. Locking' BY <1>a, <1>2 DEF CacheInv, CacheTypes, Locking, Locked, InRw
<1>11. QED BY <1>6, <1>7, <1>8, <1>9, <1>10 DEF CacheInv

LEMMA PanicKeeps ==
  ASSUME CacheInv, NEW p \in Procs, NEW n \in Blocks, bget_panic(p, n) PROVE CacheInv'
<1>1. /\ at[p] = "out" /\ at' = [at EXCEPT ![p] = "panic"]
      /\ UNCHANGED <<buf, blockno, refcnt, lru, lock, want, pinned>>
  BY DEF bget_panic, Goto, cacheVars
<1>2. Quiet BY <1>1 DEF Quiet, CacheInv, CacheTypes, States, Locked, InRw, Away
<1>3. QED BY <1>2, QuietKeeps

LEMMA AcquiresleepKeeps ==
  ASSUME CacheInv, NEW p \in Procs, acquiresleep(p) PROVE CacheInv'
<1> DEFINE b == buf[p]
<1>1. /\ at[p] = "lock" /\ UNCHANGED <<buf, blockno, refcnt, lru, want, pinned>>
  BY DEF acquiresleep
<1>2. b \in Bufs BY <1>1 DEF CacheInv, CacheTypes, Referring, Away
<1>3. CASE lock' = lock /\ at' = [at EXCEPT ![p] = "lock_sleep"]
  <2>1. Quiet BY <1>1, <1>3 DEF Quiet, CacheInv, CacheTypes, States, Locked, InRw, Away
  <2>2. QED BY <2>1, QuietKeeps
<1>4. ASSUME lock[b] = None, lock' = [lock EXCEPT ![b] = p], NEW l \in {"rw", "held"},
             at' = [at EXCEPT ![p] = l]
      PROVE  CacheInv'
  <2>1. CacheTypes' BY <1>1, <1>4 DEF CacheInv, CacheTypes, States, Locked, InRw
  <2>2. Referring' BY <1>1, <1>4 DEF CacheInv, CacheTypes, Referring, Away
  <2>3. RefsExact' /\ OneBuffer' BY <1>1 DEF CacheInv, RefsExact, OneBuffer, Using
  <2>4. Locking'
    BY <1>1, <1>2, <1>4, DiskAssumption DEF CacheInv, CacheTypes, Locking, Locked, InRw
  <2>5. QED BY <2>1, <2>2, <2>3, <2>4 DEF CacheInv
<1>5. QED BY <1>3, <1>4 DEF acquiresleep, Goto

LEMMA ReleasesleepKeeps ==
  ASSUME CacheInv, NEW p \in Procs, releasesleep(p) PROVE CacheInv'
<1> DEFINE b == buf[p]
<1>1. /\ at[p] = "held" /\ UNCHANGED <<buf, blockno, refcnt, lru, want, pinned>>
      /\ lock' = [lock EXCEPT ![b] = None] /\ at' = Unlocked(p, b)
  BY DEF releasesleep
<1>2. b \in Bufs BY <1>1 DEF CacheInv, CacheTypes, Referring, Away
<1>3. \A q \in Procs : at'[q] = IF q = p THEN "brelse"
                                ELSE IF at[q] = "lock_sleep" /\ buf[q] = b THEN "lock" ELSE at[q]
  BY <1>1 DEF Unlocked
<1>4. CacheTypes'
  <2>1. at' \in [Procs -> States] BY <1>1 DEF Unlocked, CacheInv, CacheTypes, States
  <2>2. QED BY <1>1, <2>1 DEF CacheInv, CacheTypes
<1>5. Referring' BY <1>1, <1>3 DEF CacheInv, CacheTypes, Referring, Away
<1>6. RefsExact' /\ OneBuffer' BY <1>1 DEF CacheInv, RefsExact, OneBuffer, Using
<1>7. Locking'
  BY <1>1, <1>2, <1>3, DiskAssumption DEF CacheInv, CacheTypes, Locking, Locked, InRw
<1>8. QED BY <1>4, <1>5, <1>6, <1>7 DEF CacheInv

LEMMA BrelseKeeps == ASSUME CacheInv, NEW p \in Procs, brelse(p) PROVE CacheInv'
<1>0. at[p] = "brelse" BY DEF brelse
<1>2. PICK b \in Bufs : b = buf[p] BY <1>0 DEF CacheInv, CacheTypes, Referring, Away
<1>1. /\ at' = [at EXCEPT ![p] = "out"] /\ buf' = [buf EXCEPT ![p] = None]
      /\ want' = [want EXCEPT ![p] = None] /\ refcnt' = [refcnt EXCEPT ![b] = refcnt[b] - 1]
      /\ lru' \in {lru, ToFront(b)} /\ UNCHANGED <<blockno, lock, pinned>>
  BY <1>2 DEF brelse
<1>3. /\ Cardinality(Using(b)') = Cardinality(Using(b)) - 1
      /\ \A c \in Bufs \ {b} : Using(c)' = Using(c)
  BY <1>1, <1>2, UseEnds DEF CacheInv
<1>4. refcnt[b] > 0 BY <1>2, Unreferred DEF Using
<1>5. CacheTypes'
  <2>1. lru' \in [Bufs -> Bufs] BY <1>1, <1>2, MovesToFront DEF CacheInv, CacheTypes
  <2>2. refcnt' \in [Bufs -> Nat] BY <1>1, <1>2, <1>4 DEF CacheInv, CacheTypes
  <2>3. QED BY <1>1, <2>1, <2>2 DEF CacheInv, CacheTypes, States
<1>6. Referring' BY <1>0, <1>1, <1>2 DEF CacheInv, CacheTypes, Referring, Away
<1>7. RefsExact'
  <2>1. \A c \in Bufs : refcnt'[c] = IF c = b THEN refcnt[b] - 1 ELSE refcnt[c]
    BY <1>1 DEF CacheInv, CacheTypes
  <2>2. QED BY <1>1, <1>3, <2>1, UsingFinite DEF CacheInv, RefsExact
<1>8. OneBuffer' BY <1>1 DEF CacheInv, OneBuffer
<1>9. Locking' BY <1>0, <1>1, BufsFacts DEF CacheInv, CacheTypes, Locking, Locked, InRw
<1>10. QED BY <1>5, <1>6, <1>7, <1>8, <1>9 DEF CacheInv

LEMMA PinKeeps == ASSUME CacheInv, NEW p \in Procs, bpin(p) \/ bunpin(p) PROVE CacheInv'
<1> DEFINE b == buf[p]
<1>1. at[p] = "held" /\ UNCHANGED <<at, buf, blockno, lru, lock, want>>
  BY DEF bpin, bunpin, callVars
<1>2. b \in Bufs BY <1>1 DEF CacheInv, CacheTypes, Referring, Away
<1>3. \/ b \notin pinned /\ pinned' = pinned \cup {b} /\ refcnt' = [refcnt EXCEPT ![b] = refcnt[b] + 1]
      \/ b \in pinned /\ pinned' = pinned \ {b} /\ refcnt' = [refcnt EXCEPT ![b] = refcnt[b] - 1]
  BY DEF bpin, bunpin
<1>4. b \in pinned => refcnt[b] > 0 BY <1>2, Unreferred
<1>5. CacheTypes' BY <1>1, <1>2, <1>3, <1>4 DEF CacheInv, CacheTypes
<1>6. RefsExact'
  <2>1. \A c \in Bufs : refcnt'[c] = IF c # b THEN refcnt[c]
                                     ELSE IF b \in pinned THEN refcnt[b] - 1 ELSE refcnt[b] + 1
    BY <1>3 DEF CacheInv, CacheTypes
  <2>2. \A c \in Bufs : Using(c)' = Using(c) BY <1>1 DEF Using
  <2>3. QED BY <1>3, <2>1, <2>2, UsingFinite DEF CacheInv, RefsExact
<1>7. Referring' /\ OneBuffer' /\ Locking'
  BY <1>1 DEF CacheInv, Referring, OneBuffer, Locking
<1>8. QED BY <1>5, <1>6, <1>7 DEF CacheInv

-----------------------------------------------------------------------------
(* CacheInv is inductive.                                                     *)
LEMMA CacheInvInit == Init => CacheInv
<1> SUFFICES ASSUME Init PROVE CacheInv OBVIOUS
<1>1. CacheTypes BY DiskAssumption DEF Init, CacheTypes, States, Bufs
<1>2. Referring BY DEF Init, Referring, Away
<1>3. \A b \in Bufs : Using(b) = {} BY BufsFacts DEF Init, Using
<1>4. RefsExact BY <1>3, FS_EmptySet DEF Init, RefsExact
<1>5. OneBuffer /\ Locking BY DEF Init, OneBuffer, Locking, Locked, InRw
<1>6. QED BY <1>1, <1>2, <1>4, <1>5 DEF CacheInv

LEMMA CacheInvInductive == CacheInv /\ [Next]_vars => CacheInv'
<1> SUFFICES ASSUME CacheInv, [Next]_vars PROVE CacheInv' OBVIOUS
<1> USE DEF CacheInv
<1>1. CASE UNCHANGED vars
  <2>1. Quiet BY <1>1 DEF vars, callVars, cacheVars, Quiet, CacheTypes
  <2>2. QED BY <2>1, QuietKeeps
<1>2. CASE Devices BY <1>2, DevicesQuiet, QuietKeeps
<1>3. ASSUME NEW p \in Procs, Step(p) PROVE CacheInv'
  <2>1. CASE \E n \in Blocks : bget_cached(p, n) \/ bget_recycle(p, n) \/ bget_panic(p, n)
    BY <2>1, CachedKeeps, RecycleKeeps, PanicKeeps
  <2>2. CASE acquiresleep(p) BY <2>2, AcquiresleepKeeps
  <2>3. CASE Rw(p) \/ rw_return(p) BY <2>3, DriverQuiet, QuietKeeps
  <2>4. CASE brelse(p) BY <2>4, BrelseKeeps
  <2>5. QED BY <1>3, <2>1, <2>2, <2>3, <2>4 DEF Step
<1>4. ASSUME NEW p \in Procs, Caller(p) PROVE CacheInv'
  <2>1. CASE (\E d \in Data : Modify(p, d)) \/ bwrite(p) \/ Kill(p)
    BY <2>1, CallerQuiet, QuietKeeps
  <2>2. CASE bpin(p) \/ bunpin(p) BY <2>2, PinKeeps
  <2>3. CASE releasesleep(p) BY <2>3, ReleasesleepKeeps
  <2>4. QED BY <1>4, <2>1, <2>2, <2>3 DEF Caller
<1>5. QED BY <1>1, <1>2, <1>3, <1>4 DEF Next

LEMMA CacheInvAlways == Spec => []CacheInv
BY CacheInvInit, CacheInvInductive, PTL DEF Spec

(* The reference count of a buffer is the number of processes between bget()  *)
(* and brelse(), and one more while the log pins it: no reference is lost, and*)
(* a buffer that is wanted is not recycled (bio.c:65, :118, :137).            *)
THEOREM RefsExactAlways == Spec => []RefsExact
<1>1. CacheInv => RefsExact BY DEF CacheInv
<1>2. QED BY <1>1, CacheInvAlways, PTL

(* From acquiresleep() to releasesleep() a process has its buffer, and with it*)
(* its block, for itself: two processes never hold the same block (bio.c:7).  *)
OneHolder ==
  \A p, q \in Procs : at[p] \in Locked /\ at[q] \in Locked /\ want[p] = want[q] => p = q
THEOREM OneHolderAlways == Spec => []OneHolder
<1>1. CacheInv => OneHolder
  <2> SUFFICES ASSUME CacheInv, NEW p \in Procs, NEW q \in Procs,
                      at[p] \in Locked, at[q] \in Locked, want[p] = want[q]
               PROVE  p = q
    BY DEF OneHolder
  <2>1. /\ buf[p] \in Bufs /\ buf[q] \in Bufs /\ want[p] # None
        /\ blockno[buf[p]] = want[p] /\ blockno[buf[q]] = want[q]
    BY DEF CacheInv, CacheTypes, Referring, Away, Locked, InRw
  <2>2. buf[p] = buf[q] BY <2>1 DEF CacheInv, OneBuffer
  <2>3. QED BY <2>2 DEF CacheInv, Locking
<1>2. QED BY <1>1, CacheInvAlways, PTL

-----------------------------------------------------------------------------
(* Who sleeps is waited for: the three reasons to sleep, under CacheInv.      *)
LEMMA FreeFinite ==
  ASSUME Waiting, free' \subseteq free
  PROVE  IsFiniteSet(free') /\ (Cardinality(free) < 3 => Cardinality(free') < 3)
<1>1. Cardinality(free') <= Cardinality(free) /\ IsFiniteSet(free')
  BY FS_Subset DEF Waiting
<1>2. Cardinality(free') \in Nat /\ Cardinality(free) \in Nat
  BY <1>1, FS_CardinalityType DEF Waiting
<1>3. QED BY <1>1, <1>2

LEMMA DevicesWait == ASSUME CacheInv, Waiting, Devices PROVE Waiting'
<1> USE DEF Waiting, NobodyForgotten, CacheInv, CacheTypes, callVars, cacheVars,
            driverVars, deviceVars, ringVars
<1>1. CASE IntrStart BY <1>1 DEF IntrStart, Devices
<1>2. CASE IntrLoop
  <2>1. PICK done : /\ owned' = [b \in Bufs |-> owned[b] /\ b \notin done]
                    /\ at' = [q \in Procs |-> IF at[q] = "io_sleep" /\ buf[q] \in done
                                              THEN "io" ELSE at[q]]
    BY <1>2 DEF IntrLoop
  <2>2. UNCHANGED <<buf, free, lock>> BY <1>2 DEF IntrLoop, Devices
  <2>3. owned' \in [Bufs -> BOOLEAN] BY <2>1
  <2>4. \A q \in Procs : /\ at'[q] # "io" => at'[q] = at[q]
                         /\ at'[q] = "io_sleep" => buf[q] \notin done
    BY <2>1
  <2>5. \A q \in Procs : at'[q] = "io_sleep" => buf[q] \in Bufs /\ owned[buf[q]]
    BY <2>4 DEF Referring, Away
  <2>6. \A q \in Procs : at'[q] = "io_sleep" => owned'[buf[q]] BY <2>1, <2>4, <2>5
  <2>7. QED BY <2>2, <2>3, <2>4, <2>6
<1>3. CASE DeviceTake BY <1>3 DEF DeviceTake, Devices
<1>4. ASSUME NEW h \in Descs, DeviceFinish(h) PROVE Waiting' BY <1>4 DEF DeviceFinish, Devices
<1>5. QED BY <1>1, <1>2, <1>3, <1>4 DEF Devices, Machine

(* The buffer a process in virtio_disk_rw() works on is its own.              *)
LEMMA OwnBuffer ==
  ASSUME CacheInv, NEW p \in Procs, NEW q \in Procs, at[p] \in InRw, at[q] \in InRw
  PROVE  buf[p] \in Bufs /\ (buf[p] = buf[q] => p = q)
BY DEF CacheInv, CacheTypes, Referring, Locking, Away, Locked, InRw

LEMMA DriverWait ==
  ASSUME CacheInv, Waiting, NEW p \in Procs, Rw(p) \/ rw_return(p) PROVE Waiting'
<1> USE DEF Waiting, NobodyForgotten, CacheInv, CacheTypes
<1>1. CASE Rw(p) /\ Submit(p)
  <2>1. free' \subseteq free BY <1>1 DEF Submit
  <2>2. IsFiniteSet(free') /\ (Cardinality(free) < 3 => Cardinality(free') < 3)
    BY <2>1, FreeFinite
  <2>3. at[p] = "rw" /\ at' = [at EXCEPT ![p] = "io_sleep"] BY <1>1 DEF Submit, Goto
  <2>4. owned' = [owned EXCEPT ![buf[p]] = TRUE] /\ UNCHANGED <<buf, lock>>
    BY <1>1 DEF Rw, Submit, cacheVars
  <2>5. buf[p] \in Bufs BY <2>3, OwnBuffer DEF InRw
  <2>6. QED BY <2>2, <2>3, <2>4, <2>5
<1>2. CASE Rw(p) /\ NoDescs(p)
  <2>1. /\ Cardinality(free) < 3 /\ UNCHANGED <<buf, free, owned, lock>>
        /\ \A q \in Procs : at'[q] \in {at[q], "rw", "desc_sleep"}
    BY <1>2 DEF Rw, NoDescs, Woken, diskVars, driverVars, cacheVars
  <2>2. QED BY <2>1
<1>3. CASE rw_return(p)
  <2>1. UNCHANGED <<buf, owned, lock>> BY <1>3 DEF rw_return, Finish
  <2>2. CASE ~Done(buf[p]) /\ Goto(p, "io_sleep") /\ free' = free
    BY <2>1, <2>2 DEF Done, Goto
  <2>3. ASSUME NEW h \in Descs, free' = free \cup free_chain(h),
               at' = [Woken("desc_sleep", "rw") EXCEPT ![p] = "held"]
        PROVE  Waiting'
    <3>1. IsFiniteSet(free')
      <4>1. free' = ((free \cup {h}) \cup {next[h]}) \cup {next[next[h]]}
        BY <2>3 DEF free_chain, Chain
      <4>2. QED BY <4>1, FS_AddElement
    <3>2. \A q \in Procs : at'[q] # "desc_sleep" /\ at'[q] \in {at[q], "rw", "held"}
      BY <2>3 DEF Woken
    <3>3. QED BY <2>1, <3>1, <3>2
  <2>4. QED BY <1>3, <2>2, <2>3 DEF rw_return, Finish
<1>4. QED BY <1>1, <1>2, <1>3 DEF Rw

LEMMA CacheWait ==
  ASSUME CacheInv, Waiting, NEW p \in Procs, Step(p) \/ Caller(p), ~Rw(p), ~rw_return(p)
  PROVE  Waiting'
<1> USE DEF Waiting, NobodyForgotten, CacheInv, CacheTypes
<1>0. UNCHANGED <<free, owned>>
  BY DEF Step, Caller, bget_cached, bget_recycle, bget_panic, acquiresleep, brelse, Modify, bwrite,
         bpin, bunpin, releasesleep, Kill, diskVars, driverVars
<1>1. CASE releasesleep(p)
  <2>1. /\ buf' = buf /\ lock' = [lock EXCEPT ![buf[p]] = None] /\ at' = Unlocked(p, buf[p])
    BY <1>1 DEF releasesleep
  <2>2. \A q \in Procs : at'[q] = IF q = p THEN "brelse"
          ELSE IF at[q] = "lock_sleep" /\ buf[q] = buf[p] THEN "lock" ELSE at[q]
    BY <2>1 DEF Unlocked
  <2>3. QED BY <1>0, <2>1, <2>2
<1>2. CASE acquiresleep(p)
  <2>1. at[p] = "lock" /\ UNCHANGED buf BY <1>2 DEF acquiresleep
  <2>2. CASE lock[buf[p]] # None /\ Goto(p, "lock_sleep") /\ lock' = lock
    BY <1>0, <2>1, <2>2 DEF Goto
  <2>3. ASSUME lock' = [lock EXCEPT ![buf[p]] = p], NEW l \in {"rw", "held"},
               at' = [at EXCEPT ![p] = l]
        PROVE  Waiting'
    BY <1>0, <2>1, <2>3, DiskAssumption
  <2>4. QED BY <1>2, <2>2, <2>3 DEF acquiresleep, Goto
<1>3. CASE \E n \in Blocks : bget_cached(p, n) \/ bget_recycle(p, n) \/ bget_panic(p, n)
  <2>1. /\ at[p] = "out" /\ lock' = lock
        /\ \A q \in Procs \ {p} : at'[q] = at[q] /\ buf'[q] = buf[q]
        /\ at'[p] \in {"lock", "panic"}
    BY <1>3 DEF bget_cached, bget_recycle, bget_panic, Use, Goto, cacheVars
  <2>2. QED BY <1>0, <2>1
<1>4. CASE brelse(p)
  <2>1. /\ lock' = lock /\ \A q \in Procs \ {p} : at'[q] = at[q] /\ buf'[q] = buf[q]
        /\ at'[p] = "out"
    BY <1>4 DEF brelse
  <2>2. QED BY <1>0, <2>1
<1>5. CASE (\E d \in Data : Modify(p, d)) \/ bpin(p) \/ bunpin(p)
  BY <1>0, <1>5 DEF Modify, bpin, bunpin, callVars, cacheVars
<1>6. CASE bwrite(p) \/ Kill(p)
  <2>1. /\ UNCHANGED <<buf, lock>> /\ \A q \in Procs \ {p} : at'[q] = at[q]
        /\ at'[p] \in {"rw", "lock", "io"}
    BY <1>6 DEF bwrite, Kill, Goto, cacheVars
  <2>2. QED BY <1>0, <2>1
<1>7. QED BY <1>1, <1>2, <1>3, <1>4, <1>5, <1>6 DEF Step, Caller

LEMMA WaitingInductive == CacheInv /\ Waiting /\ [Next]_vars => Waiting'
<1> SUFFICES ASSUME CacheInv, Waiting, [Next]_vars PROVE Waiting' OBVIOUS
<1>1. CASE UNCHANGED vars
  BY <1>1 DEF vars, callVars, cacheVars, diskVars, driverVars, Waiting, NobodyForgotten
<1>2. CASE Devices BY <1>2, DevicesWait
<1>3. ASSUME NEW p \in Procs, Step(p) \/ Caller(p) PROVE Waiting'
  BY <1>3, DriverWait, CacheWait
<1>4. QED BY <1>1, <1>2, <1>3 DEF Next

(* No wakeup() is lost: who sleeps for a buffer sleeps while somebody holds   *)
(* it, for descriptors while fewer than three are free, for the disk while the*)
(* request is in progress (sleeplock.c:25, virtio_disk.c:233, :279).          *)
THEOREM NobodyForgottenAlways == Spec => []NobodyForgotten
<1>1. Init => Waiting
  <2>1. Init => IsFiniteSet(free)
    <3>1. NUM \in Nat BY DiskAssumption
    <3>2. IsFiniteSet(0 .. NUM - 1) BY <3>1, FS_Interval
    <3>3. QED BY <3>2 DEF Init, DiskInit, Descs
  <2>2. QED BY <2>1 DEF Init, DiskInit, Waiting, NobodyForgotten
<1>2. CacheInv /\ Waiting /\ [Next]_vars => Waiting' BY WaitingInductive
<1>3. Waiting => NobodyForgotten BY DEF Waiting
<1>4. QED BY <1>1, <1>2, <1>3, CacheInvAlways, PTL DEF Spec

-----------------------------------------------------------------------------
(* Indices modulo m into rings of n slots, n a divisor of m: what the proofs  *)
(* about the rings need to know of %.                                         *)
LEMMA DivMod ==
  ASSUME NEW n \in Nat \ {0}, NEW a \in Int
  PROVE  a = n * (a \div n) + (a % n) /\ (a \div n) \in Int /\ a % n \in 0 .. n - 1
OBVIOUS

LEMMA ModIs ==
  ASSUME NEW n \in Nat \ {0}, NEW r \in 0 .. n - 1, NEW q \in Int
  PROVE  (n * q + r) % n = r
OBVIOUS

LEMMA ModShift ==
  ASSUME NEW n \in Nat \ {0}, NEW a \in Int, NEW k \in Int
  PROVE  (a + n * k) % n = a % n
<1>1. a = n * (a \div n) + (a % n) /\ (a \div n) \in Int /\ a % n \in 0 .. n - 1 BY DivMod
<1>2. a + n * k = n * ((a \div n) + k) + (a % n) BY <1>1
<1>3. (a \div n) + k \in Int BY <1>1
<1>4. (n * ((a \div n) + k) + (a % n)) % n = a % n BY <1>1, <1>3, ModIs
<1>5. QED BY <1>2, <1>4

LEMMA Assoc ==
  ASSUME NEW n \in Int, NEW k \in Int, NEW x \in Int
  PROVE  (n * k) * x = n * (k * x)
OBVIOUS

LEMMA ModOf ==
  ASSUME NEW n \in Nat \ {0}, NEW m \in Nat \ {0}, m % n = 0, NEW a \in Int
  PROVE  \E k \in Int : a % m = a + n * k
<1>1. m = n * (m \div n) /\ (m \div n) \in Int BY DivMod
<1>2. a % m \in Int /\ a = m * (a \div m) + (a % m) /\ a \div m \in Int BY DivMod
<1> DEFINE k == (m \div n) * (a \div m)
<1>3. k \in Int BY <1>1, <1>2
<1>4. m * (a \div m) = n * k
  <2>1. (n * (m \div n)) * (a \div m) = n * k BY <1>1, <1>2, Assoc
  <2>2. QED BY <1>1, <2>1
<1> HIDE DEF k
<1>5. a % m = a + n * (-k) BY <1>2, <1>3, <1>4
<1>6. -k \in Int BY <1>3
<1>7. QED BY <1>5, <1>6

LEMMA ModMod ==
  ASSUME NEW n \in Nat \ {0}, NEW m \in Nat \ {0}, m % n = 0, NEW a \in Int, NEW b \in Int
  PROVE  ((a % m) - b) % n = (a - b) % n /\ (a - (b % m)) % n = (a - b) % n
<1>1. PICK k \in Int : a % m = a + n * k BY ModOf
<1>2. PICK l \in Int : b % m = b + n * l BY ModOf
<1>3. PICK d \in Int : d = a - b OBVIOUS
<1>4. PICK j \in Int : j = -l OBVIOUS
<1>5. (a % m) - b = d + n * k BY <1>1, <1>3
<1>6. a - (b % m) = d + n * j BY <1>2, <1>3, <1>4
<1>7. (d + n * k) % n = d % n /\ (d + n * j) % n = d % n BY ModShift
<1>8. QED BY <1>3, <1>5, <1>6, <1>7

LEMMA ModSmall == ASSUME NEW n \in Nat \ {0}, NEW a \in 0 .. n - 1 PROVE a % n = a
OBVIOUS

LEMMA ModSelf == ASSUME NEW n \in Nat \ {0} PROVE n % n = 0 /\ 0 % n = 0
OBVIOUS

LEMMA ModUnique ==
  ASSUME NEW n \in Nat \ {0}, NEW d \in Int, NEW q \in Int, NEW r \in 0 .. n - 1, d = n * q + r
  PROVE  d % n = r
BY ModIs

LEMMA ModInc ==
  ASSUME NEW n \in Nat \ {0}, NEW a \in Int, NEW b \in Int, ((a - b) % n) + 1 < n
  PROVE  ((a + 1) - b) % n = ((a - b) % n) + 1
<1> DEFINE q == (a - b) \div n  r == (a - b) % n  d == (a + 1) - b
<1>1. a - b = n * q + r /\ q \in Int /\ r \in 0 .. n - 1 BY DivMod
<1>2. d = n * q + (r + 1) BY <1>1
<1>3. r + 1 \in 0 .. n - 1 /\ d \in Int BY <1>1
<1> HIDE DEF q, r, d
<1>4. d % n = r + 1 BY <1>1, <1>2, <1>3, ModUnique
<1>5. QED BY <1>4 DEF d, r

LEMMA ModDec ==
  ASSUME NEW n \in Nat \ {0}, NEW a \in Int, NEW b \in Int
  PROVE  (a - (b + 1)) % n = IF (a - b) % n = 0 THEN n - 1 ELSE ((a - b) % n) - 1
<1> DEFINE q == (a - b) \div n  r == (a - b) % n  d == a - (b + 1)
<1>1. a - b = n * q + r /\ q \in Int /\ r \in 0 .. n - 1 BY DivMod
<1>2. d \in Int /\ d = n * q + r - 1 BY <1>1
<1> HIDE DEF q, r, d
<1>3. CASE r = 0
  <2>1. d = n * (q - 1) + (n - 1) /\ n - 1 \in 0 .. n - 1 /\ q - 1 \in Int BY <1>1, <1>2, <1>3
  <2>2. d % n = n - 1 BY <1>2, <2>1, ModUnique
  <2>3. QED BY <1>3, <2>2 DEF d, r
<1>4. CASE r # 0
  <2>1. d = n * q + (r - 1) /\ r - 1 \in 0 .. n - 1 BY <1>1, <1>2, <1>4
  <2>2. d % n = r - 1 BY <1>1, <1>2, <2>1, ModUnique
  <2>3. QED BY <1>4, <2>2 DEF d, r
<1>5. QED BY <1>3, <1>4

LEMMA ModEq ==
  ASSUME NEW n \in Nat \ {0}, NEW s \in 0 .. n - 1, NEW u \in 0 .. n - 1, NEW t \in Int,
         (s - t) % n = (u - t) % n
  PROVE  s = u
<1>1. (s - t) = n * ((s - t) \div n) + ((s - t) % n) /\ ((s - t) \div n) \in Int BY DivMod
<1>2. (u - t) = n * ((u - t) \div n) + ((u - t) % n) /\ ((u - t) \div n) \in Int BY DivMod
<1> DEFINE x == (s - t) \div n  y == (u - t) \div n  r == (s - t) % n
<1>3. s - t = n * x + r /\ u - t = n * y + r /\ x \in Int /\ y \in Int /\ r \in 0 .. n - 1
  BY <1>1, <1>2, DivMod
<1> HIDE DEF x, y, r
<1>4. s - u = n * (x - y) BY <1>3
<1>5. CASE x = y BY <1>3, <1>5
<1>6. CASE x - y >= 1
  <2>1. n * (x - y) >= n BY <1>3, <1>6
  <2>2. QED BY <1>4, <2>1
<1>7. CASE y - x >= 1
  <2>1. n * (x - y) <= -n BY <1>3, <1>7
  <2>2. QED BY <1>4, <2>1
<1>8. QED BY <1>3, <1>5, <1>6, <1>7

LEMMA Multiple == ASSUME NEW n \in Nat \ {0}, NEW m \in Nat \ {0}, m % n = 0 PROVE n <= m
<1> DEFINE k == m \div n
<1>1. m = n * k /\ k \in Int BY DivMod
<1> HIDE DEF k
<1>2. k >= 1
  <2>1. k <= 0 => n * k <= 0 BY <1>1
  <2>2. QED BY <1>1, <2>1
<1>3. QED BY <1>1, <1>2

(* The remainder, the distance from one index to another, and divisibility,   *)
(* for the provers under names of their own.                                  *)
Rem(x, n)     == x % n
Off(x, y, n)  == (y - x) % n
Divides(n, m) == m % n = 0

LEMMA RemType == ASSUME NEW n \in Nat \ {0}, NEW x \in Int PROVE Rem(x, n) \in 0 .. n - 1
BY DEF Rem

LEMMA OffType ==
  ASSUME NEW n \in Nat \ {0}, NEW x \in Int, NEW y \in Int
  PROVE  Off(x, y, n) \in 0 .. n - 1
BY DEF Off

LEMMA OffSelf == ASSUME NEW n \in Nat \ {0}, NEW x \in Int PROVE Off(x, x, n) = 0
BY ModSelf DEF Off

LEMMA OffEq ==
  ASSUME NEW n \in Nat \ {0}, NEW x \in Int, NEW y \in 0 .. n - 1, NEW z \in 0 .. n - 1,
         Off(x, y, n) = Off(x, z, n)
  PROVE  y = z
BY ModEq DEF Off

LEMMA DividesSelf == ASSUME NEW n \in Nat \ {0} PROVE Divides(n, n)
BY ModSelf DEF Divides

LEMMA DividesLeq ==
  ASSUME NEW n \in Nat \ {0}, NEW m \in Nat \ {0}, Divides(n, m)
  PROVE  n <= m
BY Multiple DEF Divides

LEMMA OffRem ==
  ASSUME NEW n \in Nat \ {0}, NEW m \in Nat \ {0}, Divides(n, m), NEW x \in Int, NEW y \in Int
  PROVE  Off(Rem(x, m), y, n) = Off(x, y, n) /\ Off(x, Rem(y, m), n) = Off(x, y, n)
<1>0. m % n = 0 BY DEF Divides
<1>1. ((y % m) - x) % n = (y - x) % n BY <1>0, ModMod
<1>2. (y - (x % m)) % n = (y - x) % n BY <1>0, ModMod
<1>3. QED BY <1>1, <1>2 DEF Off, Rem

LEMMA OffRemSelf ==
  ASSUME NEW n \in Nat \ {0}, NEW x \in Int, NEW y \in Int
  PROVE  Off(Rem(x, n), y, n) = Off(x, y, n) /\ Off(x, Rem(y, n), n) = Off(x, y, n)
BY OffRem, DividesSelf

LEMMA OffOff ==
  ASSUME NEW n \in Nat \ {0}, NEW m \in Nat \ {0}, Divides(n, m), NEW x \in Int, NEW y \in Int
  PROVE  Off(0, Off(x, y, m), n) = Off(x, y, n)
<1>1. PICK d \in Int : d = y - x OBVIOUS
<1>2. Off(0, Rem(d, m), n) = Off(0, d, n) BY OffRem
<1>3. Off(0, d, n) = Off(x, y, n) BY <1>1 DEF Off
<1>4. Rem(d, m) = Off(x, y, m) BY <1>1 DEF Off, Rem
<1>5. QED BY <1>2, <1>3, <1>4

LEMMA OffSmall ==
  ASSUME NEW n \in Nat \ {0}, NEW x \in Int, NEW y \in Int, y - x \in 0 .. n - 1
  PROVE  Off(x, y, n) = y - x
BY ModSmall DEF Off

LEMMA OffSame ==
  ASSUME NEW n \in Nat \ {0}, NEW m \in Nat \ {0}, Divides(n, m), NEW x \in Int, NEW y \in Int,
         Off(x, y, m) < n
  PROVE  Off(x, y, m) = Off(x, y, n)
<1>1. Off(x, y, m) \in 0 .. m - 1 BY OffType
<1>2. Off(x, y, m) \in 0 .. n - 1 BY <1>1
<1>3. PICK d \in 0 .. n - 1 : d = Off(x, y, m) BY <1>2
<1>4. d \in Int /\ d - 0 = d OBVIOUS
<1>5. Off(0, d, n) = d BY <1>4, OffSmall
<1>6. QED BY <1>3, <1>5, OffOff

LEMMA OffInc ==
  ASSUME NEW n \in Nat \ {0}, NEW x \in Int, NEW y \in Int, Off(x, y, n) + 1 < n
  PROVE  Off(x, y + 1, n) = Off(x, y, n) + 1
BY ModInc DEF Off

LEMMA OffDec ==
  ASSUME NEW n \in Nat \ {0}, NEW x \in Int, NEW y \in Int
  PROVE  Off(x + 1, y, n) = IF Off(x, y, n) = 0 THEN n - 1 ELSE Off(x, y, n) - 1
BY ModDec DEF Off

(* One more index, one fewer, and the slots of the indices between two.        *)
LEMMA RingAdd ==
  ASSUME NEW n \in Nat \ {0}, NEW m \in Nat \ {0}, Divides(n, m), NEW from \in 0 .. m - 1,
         NEW to \in 0 .. m - 1, Off(from, to, m) + 1 < n
  PROVE  /\ Off(from, Rem(to + 1, m), m) = Off(from, to, m) + 1
         /\ ~(Off(from, Rem(to, n), n) < Off(from, to, m))
         /\ \A s \in 0 .. n - 1 : Off(from, s, n) < Off(from, to, m) + 1
                                  <=> Off(from, s, n) < Off(from, to, m) \/ s = Rem(to, n)
<1>a. from \in Int /\ to \in Int /\ to + 1 \in Int /\ n <= m BY DividesLeq
<1>b. Off(from, to, m) \in 0 .. m - 1 BY <1>a, OffType
<1>c. Rem(to, n) \in 0 .. n - 1 BY <1>a, RemType
<1>0. Off(from, to, m) \in Nat /\ Off(from, to, m) + 1 < m /\ Rem(to, n) \in 0 .. n - 1
  BY <1>a, <1>b, <1>c
<1>1. Off(from, Rem(to + 1, m), m) = Off(from, to + 1, m) BY <1>a, OffRemSelf
<1>2. Off(from, to + 1, m) = Off(from, to, m) + 1 BY <1>a, <1>0, OffInc
<1>3. Off(from, Rem(to, n), n) = Off(from, to, n) BY <1>a, OffRemSelf
<1>d. Off(from, to, m) < n BY <1>0
<1>4. Off(from, to, n) = Off(from, to, m) BY <1>a, <1>d, OffSame
<1>6. \A s \in 0 .. n - 1 : Off(from, s, n) = Off(from, Rem(to, n), n) => s = Rem(to, n)
  BY <1>a, <1>0, OffEq
<1>7. \A s \in 0 .. n - 1 : Off(from, s, n) \in Nat BY <1>a, OffType
<1>8. QED BY <1>0, <1>1, <1>2, <1>3, <1>4, <1>6, <1>7

LEMMA RingTake ==
  ASSUME NEW n \in Nat \ {0}, NEW m \in Nat \ {0}, Divides(n, m), NEW from \in 0 .. m - 1,
         NEW to \in 0 .. m - 1, from # to, Off(from, to, m) <= n
  PROVE  /\ Off(Rem(from + 1, m), to, m) = Off(from, to, m) - 1
         /\ Off(from, Rem(from, n), n) < Off(from, to, m)
         /\ \A s \in 0 .. n - 1 : Off(Rem(from + 1, m), s, n) < Off(from, to, m) - 1
                                  <=> Off(from, s, n) < Off(from, to, m) /\ s # Rem(from, n)
<1>a. from \in Int /\ to \in Int /\ from + 1 \in Int OBVIOUS
<1>b. Off(from, to, m) \in 0 .. m - 1 BY <1>a, OffType
<1>c. Rem(from, n) \in 0 .. n - 1 BY <1>a, RemType
<1>0. Off(from, to, m) \in Nat /\ Rem(from, n) \in 0 .. n - 1 BY <1>b, <1>c
<1>1. Off(Rem(from + 1, m), to, m) = Off(from + 1, to, m) BY <1>a, OffRemSelf
<1>2. Off(from, to, m) # 0 BY <1>a, OffSelf, OffEq
<1>3. Off(from + 1, to, m) = Off(from, to, m) - 1 BY <1>a, <1>2, OffDec
<1>4. Off(from, Rem(from, n), n) = 0 BY <1>a, OffRemSelf, OffSelf
<1>5. ASSUME NEW s \in 0 .. n - 1
      PROVE  Off(Rem(from + 1, m), s, n) < Off(from, to, m) - 1
             <=> Off(from, s, n) < Off(from, to, m) /\ s # Rem(from, n)
  <2>1. Off(Rem(from + 1, m), s, n) = Off(from + 1, s, n) BY <1>a, OffRem
  <2>0. s \in Int OBVIOUS
  <2>2. Off(from + 1, s, n) = IF Off(from, s, n) = 0 THEN n - 1 ELSE Off(from, s, n) - 1
    BY <1>a, <2>0, OffDec
  <2>3. Off(from, s, n) = 0 <=> s = Rem(from, n) BY <1>a, <1>0, <1>4, OffEq
  <2>4. Off(from, s, n) \in 0 .. n - 1 BY <1>a, <2>0, OffType
  <2>5. QED BY <1>0, <2>1, <2>2, <2>3, <2>4
<1>6. QED BY <1>0, <1>1, <1>2, <1>3, <1>4, <1>5

LEMMA RingWindow ==
  ASSUME NEW n \in Nat \ {0}, NEW m \in Nat \ {0}, Divides(n, m), NEW from \in 0 .. m - 1,
         NEW d \in 0 .. n
  PROVE  /\ \A i \in 0 .. m - 1 : Off(from, i, m) < d =>
              Rem(i, n) \in 0 .. n - 1 /\ Off(from, Rem(i, n), n) < d
         /\ \A s \in 0 .. n - 1 : Off(from, s, n) < d =>
              \E i \in 0 .. m - 1 : Off(from, i, m) < d /\ Rem(i, n) = s
<1>0. n <= m /\ from \in Int BY DividesLeq
<1>1. ASSUME NEW i \in 0 .. m - 1, Off(from, i, m) < d
      PROVE  Rem(i, n) \in 0 .. n - 1 /\ Off(from, Rem(i, n), n) < d
  <2>0. i \in Int OBVIOUS
  <2>1. Off(from, i, m) \in 0 .. m - 1 BY <2>0, <1>0, OffType
  <2>2. Off(from, i, m) < n BY <1>1, <2>1
  <2>3. Off(from, Rem(i, n), n) = Off(from, i, n) BY <2>0, <1>0, OffRemSelf
  <2>4. Off(from, i, n) = Off(from, i, m) BY <2>0, <1>0, <2>2, OffSame
  <2>5. Rem(i, n) \in 0 .. n - 1 BY <2>0, RemType
  <2>6. QED BY <1>1, <2>3, <2>4, <2>5
<1>2. ASSUME NEW s \in 0 .. n - 1, Off(from, s, n) < d
      PROVE  \E i \in 0 .. m - 1 : Off(from, i, m) < d /\ Rem(i, n) = s
  <2>0. s \in Int OBVIOUS
  <2>1. PICK p \in 0 .. n - 1 : p = Off(from, s, n) BY <2>0, <1>0, OffType
  <2>2. PICK a \in Int : a = from + p BY <1>0
  <2>3. Off(from, a, m) = p
    <3>1. a - from = p /\ p \in 0 .. m - 1 BY <1>0, <2>2
    <3>2. QED BY <1>0, <3>1, OffSmall
  <2>4. PICK i \in 0 .. m - 1 : i = Rem(a, m) BY RemType
  <2>5. i \in Int /\ Rem(i, n) \in 0 .. n - 1 BY RemType
  <2>6. Off(from, i, m) = p BY <1>0, <2>3, <2>4, OffRemSelf
  <2>a. Off(from, i, m) < n BY <2>6
  <2>7. Off(from, i, n) = p BY <1>0, <2>5, <2>6, <2>a, OffSame
  <2>8. Off(from, Rem(i, n), n) = p BY <1>0, <2>5, <2>7, OffRemSelf
  <2>9. Rem(i, n) = s BY <1>0, <2>1, <2>5, <2>8, OffEq
  <2>10. QED BY <1>2, <2>1, <2>6, <2>9
<1>3. QED BY <1>1, <1>2

-----------------------------------------------------------------------------
(* The driver: descriptors, requests and rings.                               *)
Working == {p \in Procs : at[p] \in {"io_sleep", "io"}}
Pending == {h \in Heads : owned[info[h]]}

(* The slots of a ring in use, d of them, and what they hold.                 *)
Slots(from, d)          == {s \in Descs : Off(from, s, NUM) < d}
Entries(ring, from, to) == {ring[s] : s \in Slots(from, Off(from, to, IdxMod))}

RingRight(ring, from, to) ==
  /\ Off(from, to, IdxMod) <= NUM
  /\ \A s, u \in Slots(from, Off(from, to, IdxMod)) : ring[s] = ring[u] => s = u

Waits    == Entries(avail, taken, avail_idx)
Answered == Entries(used, seen, used_idx)

DriverTypes ==
  /\ owned \in [Bufs -> BOOLEAN] /\ info \in [Descs -> Bufs \cup {None}]
  /\ free \subseteq Descs /\ next \in [Descs -> Descs \cup {NoNext}]
  /\ avail \in [Descs -> Descs \cup {None}] /\ used \in [Descs -> Descs \cup {None}]
  /\ avail_idx \in 0 .. IdxMod - 1 /\ used_idx \in 0 .. IdxMod - 1
  /\ seen \in 0 .. IdxMod - 1 /\ taken \in 0 .. IdxMod - 1
  /\ inflight \subseteq Descs /\ DOMAIN req = Descs

(* A request has three descriptors of its own.                                *)
Chains ==
  /\ \A h \in Heads : /\ next[h] \in Descs /\ next[next[h]] \in Descs
                      /\ h # next[h] /\ h # next[next[h]] /\ next[h] # next[next[h]]
                      /\ Chain(h) \cap free = {}
  /\ \A h, k \in Heads : h # k => Chain(h) \cap Chain(k) = {}
  /\ \A i \in Descs \ free : \E h \in Heads : i \in Chain(h)

RequestOf(w, n, b) == [write |-> w, sector |-> n, addr |-> b]

(* Each request is that of one process, which is in virtio_disk_rw().         *)
Requests ==
  /\ \A h \in Heads : \E p \in Working :
       /\ buf[p] = info[h]
       /\ req[h] = RequestOf(write[p], blockno[buf[p]], buf[p])
  /\ \A p \in Working : \E h \in Heads : info[h] = buf[p]
  /\ \A h, k \in Heads : info[h] = info[k] => h = k
  /\ \A b \in Bufs : owned[b] => \E h \in Heads : info[h] = b

Places ==
  /\ Pending = (Waits \cup inflight) \cup Answered
  /\ Waits \cap inflight = {} /\ Waits \cap Answered = {} /\ inflight \cap Answered = {}
  /\ seen # used_idx => irq \/ handler = "loop"

Rings == RingRight(avail, taken, avail_idx) /\ RingRight(used, seen, used_idx)

DriverInv == DriverTypes /\ Chains /\ Requests /\ Rings /\ Places

-----------------------------------------------------------------------------
(* The contents: what is valid is the block or is locked or pinned, and a     *)
(* request that the device has answered has been carried out.                 *)
DataTypes ==
  /\ data \in [Bufs -> Data \cup {None}] /\ disk \in [Blocks -> Data]
  /\ valid \in [Bufs -> BOOLEAN] /\ write \in [Procs -> BOOLEAN]
  /\ {lru[i] : i \in Bufs} = Bufs

Callers == \A p \in Procs :
  /\ at[p] = "held" => valid[buf[p]]
  /\ at[p] \in InRw => (write[p] <=> valid[buf[p]])
  /\ at[p] \notin InRw => ~write[p]

Filled == \A b \in Bufs : valid[b] => data[b] \in Data /\ blockno[b] \in Blocks
Clean  == \A b \in Bufs : valid[b] /\ lock[b] = None /\ b \notin pinned => OnDisk(b)
CarriedOut == \A h \in Heads : h \in (Waits \cup inflight) \/ OnDisk(info[h])

DataInv == DataTypes /\ Callers /\ Filled /\ Clean /\ CarriedOut

LEMMA Consts ==
  /\ NUM \in Nat \ {0} /\ NUM >= 3 /\ IdxMod \in Nat \ {0} /\ Divides(NUM, IdxMod)
  /\ Descs = 0 .. NUM - 1 /\ None \notin Descs /\ NoNext \notin Descs /\ None \notin Bufs
  /\ IsFiniteSet(Descs) /\ Cardinality(Descs) = NUM
<1>1. NUM \in Nat /\ NUM >= 3 BY DiskAssumption
<1>2. IsFiniteSet(0 .. NUM - 1) /\ Cardinality(0 .. NUM - 1) = NUM BY <1>1, FS_Interval
<1>3. QED BY <1>2, DiskAssumption, BufsFacts DEF Descs, NoNext, Divides

Index == 0 .. IdxMod - 1

LEMMA IndexFacts ==
  /\ \A i \in Index : Inc(i) \in Index /\ Slot(i) \in Descs
  /\ \A from, to \in Index : Off(from, to, IdxMod) \in Nat
  /\ \A from, to \in Index : Off(from, to, IdxMod) = 0 <=> from = to
<1>1. ASSUME NEW i \in Index PROVE Inc(i) \in Index /\ Slot(i) \in Descs
  <2>1. i \in Int /\ i + 1 \in Int BY DEF Index
  <2>2. Rem(i + 1, IdxMod) \in 0 .. IdxMod - 1 BY <2>1, Consts, RemType
  <2>3. Rem(i, NUM) \in 0 .. NUM - 1 BY <2>1, Consts, RemType
  <2>4. QED BY <2>2, <2>3, Consts DEF Index, Inc, Slot, Rem
<1>2. ASSUME NEW from \in Index, NEW to \in Index
      PROVE  Off(from, to, IdxMod) \in Nat /\ (Off(from, to, IdxMod) = 0 <=> from = to)
  <2>1. from \in Int /\ to \in Int BY DEF Index
  <2>2. Off(from, to, IdxMod) \in 0 .. IdxMod - 1 BY <2>1, Consts, OffType
  <2>3. Off(from, from, IdxMod) = 0 BY <2>1, Consts, OffSelf
  <2>4. Off(from, to, IdxMod) = Off(from, from, IdxMod) => from = to
    BY <2>1, Consts, OffEq DEF Index
  <2>5. QED BY <2>2, <2>3, <2>4
<1>3. QED BY <1>1, <1>2

(* An entry more in a ring that is not full.                                  *)
LEMMA RingAppend ==
  ASSUME NEW from \in Index, NEW to \in Index, NEW ring, NEW h \in Descs,
         RingRight(ring, from, to), Off(from, to, IdxMod) + 1 < NUM,
         h \notin Entries(ring, from, to),
         NEW r, \A s \in Descs : r[s] = IF s = Slot(to) THEN h ELSE ring[s]
  PROVE  RingRight(r, from, Inc(to)) /\ Entries(r, from, Inc(to)) = Entries(ring, from, to) \cup {h}
<1> DEFINE d == Off(from, to, IdxMod)
<1>1. /\ Off(from, Inc(to), IdxMod) = d + 1
      /\ ~(Off(from, Slot(to), NUM) < d)
      /\ \A s \in Descs : Off(from, s, NUM) < d + 1 <=> Off(from, s, NUM) < d \/ s = Slot(to)
  BY Consts, RingAdd DEF Index, Inc, Slot, Rem
<1>2. Slot(to) \in Descs /\ d \in Nat BY IndexFacts
<1>3. Slots(from, d + 1) = Slots(from, d) \cup {Slot(to)} /\ Slot(to) \notin Slots(from, d)
  BY <1>1, <1>2 DEF Slots
<1>4. \A s \in Descs : r[s] = IF s = Slot(to) THEN h ELSE ring[s] OBVIOUS
<1>5. Slots(from, d) \subseteq Descs BY DEF Slots
<1> HIDE DEF d
<1>6. Entries(r, from, Inc(to)) = Entries(ring, from, to) \cup {h}
  BY <1>1, <1>2, <1>3, <1>4, <1>5 DEF Entries, d
<1>7. RingRight(r, from, Inc(to))
  <2>1. \A s \in Slots(from, d) : ring[s] # h BY DEF Entries, d
  <2>2. \A s, u \in Slots(from, d) : ring[s] = ring[u] => s = u BY DEF RingRight, d
  <2>3. \A s, u \in Slots(from, d + 1) : r[s] = r[u] => s = u
    BY <1>2, <1>3, <1>4, <1>5, <2>1, <2>2
  <2>4. d + 1 <= NUM BY <1>2, Consts DEF d
  <2>5. QED BY <1>1, <2>3, <2>4 DEF RingRight
<1>8. QED BY <1>6, <1>7

(* The oldest entry leaves.                                                   *)
LEMMA RingPop ==
  ASSUME NEW from \in Index, NEW to \in Index, NEW ring,
         RingRight(ring, from, to), from # to,
         NEW r, \A s \in Descs \ {Slot(from)} : r[s] = ring[s]
  PROVE  /\ RingRight(r, Inc(from), to)
         /\ Entries(r, Inc(from), to) = Entries(ring, from, to) \ {ring[Slot(from)]}
         /\ ring[Slot(from)] \in Entries(ring, from, to)
<1> DEFINE d == Off(from, to, IdxMod)
<1>0. d <= NUM BY DEF RingRight
<1>1. /\ Off(Inc(from), to, IdxMod) = d - 1
      /\ Off(from, Slot(from), NUM) < d
      /\ \A s \in Descs : Off(Inc(from), s, NUM) < d - 1 <=> Off(from, s, NUM) < d /\ s # Slot(from)
  BY <1>0, Consts, RingTake DEF Index, Inc, Slot, Rem
<1>2. Slot(from) \in Descs /\ d \in Nat BY IndexFacts
<1>3. Slots(Inc(from), d - 1) = Slots(from, d) \ {Slot(from)} /\ Slot(from) \in Slots(from, d)
  BY <1>1, <1>2 DEF Slots
<1>4. \A s \in Descs \ {Slot(from)} : r[s] = ring[s] OBVIOUS
<1>5. Slots(from, d) \subseteq Descs BY DEF Slots
<1>6. \A s, u \in Slots(from, d) : ring[s] = ring[u] => s = u BY DEF RingRight
<1> HIDE DEF d
<1>7. Entries(r, Inc(from), to) = Entries(ring, from, to) \ {ring[Slot(from)]}
  BY <1>1, <1>2, <1>3, <1>4, <1>5, <1>6 DEF Entries, d
<1>8. RingRight(r, Inc(from), to)
  BY <1>0, <1>1, <1>2, <1>3, <1>4, <1>5, <1>6, Consts DEF RingRight
<1>9. ring[Slot(from)] \in Entries(ring, from, to) BY <1>3 DEF Entries, d
<1>10. QED BY <1>7, <1>8, <1>9

LEMMA RingEmpty ==
  ASSUME NEW to \in Index, NEW ring PROVE RingRight(ring, to, to) /\ Entries(ring, to, to) = {}
<1>1. Off(to, to, IdxMod) = 0 BY IndexFacts
<1>2. Slots(to, 0) = {}
  <2>1. ASSUME NEW s \in Descs PROVE Off(to, s, NUM) \in 0 .. NUM - 1
    <3>1. s \in Int /\ to \in Int BY Consts DEF Index
    <3>2. QED BY <3>1, Consts, OffType
  <2>2. QED BY <2>1, Consts DEF Slots
<1>3. QED BY <1>1, <1>2, Consts DEF RingRight, Entries

LEMMA WindowIs ==
  ASSUME NEW from \in Index, NEW to \in Index, NEW ring, Off(from, to, IdxMod) <= NUM
  PROVE  Window(ring, from, to) = Entries(ring, from, to)
<1> DEFINE d == Off(from, to, IdxMod)
<1>0. d \in 0 .. NUM BY Consts, IndexFacts
<1> HIDE DEF d
<1>1. /\ \A i \in Index : Off(from, i, IdxMod) < d =>
              Rem(i, NUM) \in Descs /\ Off(from, Rem(i, NUM), NUM) < d
      /\ \A s \in Descs : Off(from, s, NUM) < d =>
              \E i \in Index : Off(from, i, IdxMod) < d /\ Rem(i, NUM) = s
  BY <1>0, Consts, RingWindow DEF Index
<1>2. \A i \in Index : Rem(i, NUM) = Slot(i) BY DEF Rem, Slot
<1>3. Window(ring, from, to) = {ring[Slot(i)] : i \in {j \in Index : Off(from, j, IdxMod) < d}}
  BY DEF Window, d, Off, Index
<1>4. Entries(ring, from, to) = {ring[s] : s \in {u \in Descs : Off(from, u, NUM) < d}}
  BY DEF Entries, d, Slots
<1>5. QED BY <1>1, <1>2, <1>3, <1>4

(* No more entries than there are requests.                                   *)
LEMMA Enough ==
  ASSUME NEW from \in Index, NEW to \in Index, NEW ring, RingRight(ring, from, to),
         NEW S, Entries(ring, from, to) \subseteq S, IsFiniteSet(S)
  PROVE  Off(from, to, IdxMod) <= Cardinality(S)
<1> DEFINE d == Off(from, to, IdxMod)  f == [i \in 0 .. d - 1 |-> ring[Rem(from + i, NUM)]]
<1>0. d \in Nat /\ d <= NUM BY IndexFacts DEF RingRight
<1>1. ASSUME NEW i \in 0 .. d - 1
      PROVE  Rem(from + i, NUM) \in Slots(from, d) /\ Off(from, Rem(from + i, NUM), NUM) = i
  <2>1. from \in Int /\ from + i \in Int /\ (from + i) - from = i /\ i \in 0 .. NUM - 1
    <3>1. from \in Int /\ i \in Int /\ 0 <= i /\ i < NUM BY <1>0, Consts DEF Index
    <3>2. QED BY <3>1, Consts
  <2>2. Off(from, from + i, NUM) = i BY <2>1, Consts, OffSmall
  <2>3. Off(from, Rem(from + i, NUM), NUM) = i BY <2>1, <2>2, Consts, OffRemSelf
  <2>4. Rem(from + i, NUM) \in Descs BY <2>1, Consts, RemType
  <2>5. i < d BY <1>0
  <2>6. QED BY <2>3, <2>4, <2>5 DEF Slots
<1>2. \A s \in Slots(from, d) : ring[s] \in S BY DEF Entries
<1>3. \A s, u \in Slots(from, d) : ring[s] = ring[u] => s = u BY DEF RingRight
<1> HIDE DEF d
<1>4. f \in [0 .. d - 1 -> S] BY <1>1, <1>2
<1>5. ASSUME NEW i \in 0 .. d - 1, NEW j \in 0 .. d - 1, f[i] = f[j] PROVE i = j
  BY <1>1, <1>3, <1>5
<1>6. f \in Injection(0 .. d - 1, S) BY <1>4, <1>5 DEF Injection, IsInjective
<1>7. Cardinality(0 .. d - 1) <= Cardinality(S) BY <1>6, FS_Injection
<1>8. Cardinality(0 .. d - 1) = d BY <1>0, FS_Interval
<1>9. QED BY <1>7, <1>8 DEF d

-----------------------------------------------------------------------------
(* The steps that neither the descriptors nor the rings notice.               *)
Still ==
  /\ UNCHANGED <<owned, free, next, req, info, avail, avail_idx, used, used_idx, seen,
                 taken, inflight>>
  /\ irq \/ handler = "loop" => irq' \/ handler' = "loop"
  /\ Working' = Working
  /\ \A p \in Working : /\ buf'[p] = buf[p] /\ write'[p] = write[p]
                        /\ blockno'[buf[p]] = blockno[buf[p]]

LEMMA StillKeeps == ASSUME DriverInv, Still PROVE DriverInv'
<1> USE DEF Still, DriverInv
<1>0. UNCHANGED <<Heads, Pending, Waits, Answered>> BY DEF Heads, Pending, Waits, Answered
<1>1. DriverTypes' BY DEF DriverTypes
<1>2. Chains'
  <2>1. \A h : Chain(h)' = Chain(h) BY DEF Chain
  <2>2. QED BY <1>0, <2>1 DEF Chains
<1>3. Requests'
  <2>1. \A h \in Heads : \E p \in Working :
          /\ buf'[p] = info[h]
          /\ req[h] = RequestOf(write'[p], blockno'[buf'[p]], buf'[p])
    BY DEF Requests
  <2>2. \A p \in Working : \E h \in Heads : info[h] = buf'[p] BY DEF Requests
  <2>3. QED BY <1>0, <2>1, <2>2 DEF Requests
<1>4. Rings' BY DEF Rings
<1>5. Places' BY <1>0 DEF Places
<1>6. QED BY <1>1, <1>2, <1>3, <1>4, <1>5

LEMMA WorkingFacts ==
  ASSUME CacheInv
  PROVE  \A p \in Working : buf[p] \in Bufs /\ lock[buf[p]] = p /\ p \in Using(buf[p])
BY DEF CacheInv, CacheTypes, Referring, Locking, Away, Locked, InRw, Working, Using

(* The steps of a process outside virtio_disk_rw().                           *)
Outside(p) ==
  \/ \E n \in Blocks : bget_cached(p, n) \/ bget_recycle(p, n) \/ bget_panic(p, n)
  \/ acquiresleep(p) \/ brelse(p) \/ Caller(p)

LEMMA CacheStill ==
  ASSUME CacheInv, NEW p \in Procs, Outside(p)
  PROVE  Still
<1> USE DEF CacheInv, CacheTypes
<1>0. UNCHANGED <<owned, free, next, req, info, avail, avail_idx, used, used_idx, seen, taken,
                  inflight, irq, handler>>
  BY DEF Outside, Caller, bget_cached, bget_recycle, bget_panic, acquiresleep, brelse, Modify, bwrite,
         bpin, bunpin, releasesleep, Kill, diskVars, driverVars, deviceVars
<1> DEFINE Calm == /\ Working' = Working /\ blockno' = blockno
                   /\ \A q \in Working : buf'[q] = buf[q] /\ write'[q] = write[q]
<1>1. Calm => Still BY <1>0 DEF Still
<1>2. CASE releasesleep(p)
  <2>1. /\ UNCHANGED <<buf, write, blockno>> /\ at[p] = "held"
        /\ \A q \in Procs : at'[q] = IF q = p THEN "brelse"
             ELSE IF at[q] = "lock_sleep" /\ buf[q] = buf[p] THEN "lock" ELSE at[q]
    BY <1>2 DEF releasesleep, Unlocked
  <2>2. Working' = Working BY <2>1 DEF Working
  <2>3. QED BY <1>1, <2>1, <2>2
<1>3. CASE \E n \in Blocks : bget_recycle(p, n)
  <2>1. PICK n \in Blocks, i \in Unused :
          /\ at[p] = "out" /\ at' = [at EXCEPT ![p] = "lock"] /\ buf' = [buf EXCEPT ![p] = lru[i]]
          /\ blockno' = [blockno EXCEPT ![lru[i]] = n] /\ write' = write
    BY <1>3 DEF bget_recycle, Use, Goto
  <2>2. lru[i] \in Bufs /\ refcnt[lru[i]] = 0 BY <2>1 DEF Unused
  <2>3. Using(lru[i]) = {} BY <2>2, Unreferred
  <2>4. Working' = Working BY <2>1 DEF Working
  <2>5. \A q \in Working : q \in Procs /\ q # p /\ buf[q] # lru[i] BY <2>1, <2>3 DEF Working, Using
  <2>6. \A q \in Working : /\ buf'[q] = buf[q] /\ write'[q] = write[q]
                           /\ blockno'[buf[q]] = blockno[buf[q]]
    BY <2>1, <2>5, WorkingFacts
  <2>7. QED BY <1>0, <2>4, <2>6 DEF Still
<1>4. CASE \E n \in Blocks : bget_cached(p, n) \/ bget_panic(p, n)
  <2>1. /\ at[p] = "out" /\ UNCHANGED <<write, blockno>>
        /\ \A q \in Procs \ {p} : at'[q] = at[q] /\ buf'[q] = buf[q]
        /\ at'[p] \in {"lock", "panic"}
    BY <1>4 DEF bget_cached, bget_panic, Use, Goto
  <2>2. QED BY <1>1, <2>1 DEF Working
<1>5. CASE acquiresleep(p)
  <2>1. /\ at[p] = "lock" /\ UNCHANGED <<buf, write, blockno>>
        /\ \A q \in Procs \ {p} : at'[q] = at[q]
        /\ at'[p] \in {"lock_sleep", "rw", "held"}
    BY <1>5 DEF acquiresleep, Goto
  <2>2. QED BY <1>1, <2>1 DEF Working
<1>6. CASE brelse(p)
  <2>1. /\ at[p] = "brelse" /\ UNCHANGED <<write, blockno>>
        /\ \A q \in Procs \ {p} : at'[q] = at[q] /\ buf'[q] = buf[q]
        /\ at'[p] = "out"
    BY <1>6 DEF brelse
  <2>2. QED BY <1>1, <2>1 DEF Working
<1>7. CASE (\E d \in Data : Modify(p, d)) \/ bpin(p) \/ bunpin(p)
  BY <1>1, <1>7 DEF Modify, bpin, bunpin, callVars, cacheVars, Working
<1>8. CASE bwrite(p)
  <2>1. /\ at[p] = "held" /\ UNCHANGED <<buf, blockno>>
        /\ \A q \in Procs \ {p} : at'[q] = at[q] /\ write'[q] = write[q]
        /\ at'[p] = "rw"
    BY <1>8 DEF bwrite, Goto
  <2>2. QED BY <1>1, <2>1 DEF Working
<1>9. CASE Kill(p)
  <2>1. /\ UNCHANGED <<buf, write, blockno>> /\ \A q \in Procs \ {p} : at'[q] = at[q]
        /\ \/ at[p] = "lock_sleep" /\ at'[p] = "lock"
           \/ at[p] = "desc_sleep" /\ at'[p] = "rw"
           \/ at[p] = "io_sleep" /\ at'[p] = "io"
    BY <1>9 DEF Kill, Goto
  <2>2. QED BY <1>1, <2>1 DEF Working
<1>10. QED BY <1>2, <1>3, <1>4, <1>5, <1>6, <1>7, <1>8, <1>9 DEF Outside, Caller

(* NoDescs() and a spurious wakeup change no request either.                  *)
LEMMA DriverStill ==
  ASSUME CacheInv, NEW p \in Procs
  PROVE  /\ NoDescs(p) => Still
         /\ rw_return(p) /\ ~Done(buf[p]) => Still
<1> USE DEF CacheInv, CacheTypes, Working
<1>1. ASSUME NoDescs(p) PROVE Still
  <2>1. /\ UNCHANGED <<buf, write, blockno>> /\ UNCHANGED diskVars
        /\ \A q \in Procs : at'[q] \in {"io_sleep", "io"} <=> at[q] \in {"io_sleep", "io"}
    BY <1>1 DEF NoDescs, Woken
  <2>2. QED BY <2>1 DEF Still, diskVars, driverVars, deviceVars
<1>2. ASSUME rw_return(p), ~Done(buf[p]) PROVE Still
  <2>1. /\ at[p] = "io" /\ at' = [at EXCEPT ![p] = "io_sleep"]
        /\ UNCHANGED <<buf, write, blockno, owned, free, next, req, info, avail,
                       avail_idx, seen, handler>>
        /\ UNCHANGED deviceVars
    BY <1>2 DEF rw_return, Finish, Goto
  <2>2. QED BY <2>1 DEF Still, deviceVars
<1>3. QED BY <1>1, <1>2

-----------------------------------------------------------------------------
(* virtio_disk_rw() takes the first free descriptors and submits.             *)
LEMMA FirstFacts == ASSUME NEW S, S \subseteq Nat, S # {} PROVE First(S) \in S
<1> DEFINE R == OpToRel(<, Nat)
<1>1. IsWellFoundedOn(R, Nat) BY NatLessThanWellFounded
<1>2. PICK i \in S : \A j \in S : ~ (<<j, i>> \in R)
  <2>1. PICK k \in S : TRUE OBVIOUS
  <2> HIDE DEF R
  <2>2. \E i \in S : \A j \in S : ~ (<<j, i>> \in R) BY <1>1, <2>1, WFMin
  <2>3. QED BY <2>2
<1>3. ASSUME NEW j \in S PROVE i <= j
  <2>1. j \in Nat /\ i \in Nat OBVIOUS
  <2>2. j < i => <<j, i>> \in R BY <2>1 DEF OpToRel
  <2>3. <<j, i>> \notin R BY <1>2, Zenon
  <2>4. ~ (j < i) BY <2>2, <2>3, Zenon
  <2>5. QED BY <2>1, <2>4
<1>4. QED BY <1>3 DEF First

LEMMA NotEmpty ==
  ASSUME NEW S, IsFiniteSet(S), NEW n \in Nat, Cardinality(S) >= n
  PROVE  /\ n > 0 => S # {}
         /\ \A x \in S : IsFiniteSet(S \ {x}) /\ Cardinality(S \ {x}) >= n - 1
<1>1. Cardinality(S) \in Nat BY FS_CardinalityType
<1>2. Cardinality(S) # 0 => S # {} BY FS_EmptySet
<1>3. \A x \in S : IsFiniteSet(S \ {x}) /\ Cardinality(S \ {x}) = Cardinality(S) - 1
  BY FS_RemoveElement
<1>4. QED BY <1>1, <1>2, <1>3

LEMMA AllocFacts ==
  ASSUME free \subseteq Descs, Cardinality(free) >= 3
  PROVE  /\ Alloc3[1] \in free /\ Alloc3[2] \in free /\ Alloc3[3] \in free
         /\ Alloc3[1] # Alloc3[2] /\ Alloc3[1] # Alloc3[3] /\ Alloc3[2] # Alloc3[3]
<1> DEFINE i == First(free)  j == First(free \ {i})  k == First(free \ {i, j})
<1>0. free \subseteq Nat BY Consts
<1>1. IsFiniteSet(free) BY Consts, FS_Subset
<1>2. free # {} BY <1>1, NotEmpty
<1>3. i \in free BY <1>0, <1>2, FirstFacts
<1>4. IsFiniteSet(free \ {i}) /\ Cardinality(free \ {i}) >= 2 BY <1>1, <1>3, NotEmpty
<1>5. free \ {i} # {} BY <1>4, NotEmpty
<1>6. j \in free \ {i} BY <1>0, <1>5, FirstFacts
<1> HIDE DEF i, j
<1>7. IsFiniteSet((free \ {i}) \ {j}) /\ Cardinality((free \ {i}) \ {j}) >= 1
  BY <1>4, <1>6, NotEmpty
<1>8. (free \ {i}) \ {j} # {} BY <1>7, NotEmpty
<1>a. (free \ {i}) \ {j} = free \ {i, j} OBVIOUS
<1>9. k \in free \ {i, j} BY <1>0, <1>8, <1>a, FirstFacts
<1>10. QED BY <1>3, <1>6, <1>9 DEF Alloc3, i, j

(* Requests leave room in the rings: each takes three descriptors.            *)
LEMMA Room ==
  ASSUME NEW S, S \subseteq Descs, NEW i \in Descs \ S, NEW j \in Descs \ S, i # j
  PROVE  IsFiniteSet(S) /\ Cardinality(S) \in Nat /\ Cardinality(S) + 2 <= NUM
<1>1. IsFiniteSet(S) BY Consts, FS_Subset
<1>a. Cardinality(S) \in Nat BY <1>1, FS_CardinalityType
<1>2. IsFiniteSet(S \cup {i}) /\ Cardinality(S \cup {i}) = Cardinality(S) + 1
  BY <1>1, FS_AddElement
<1>3. /\ IsFiniteSet((S \cup {i}) \cup {j})
      /\ Cardinality((S \cup {i}) \cup {j}) = Cardinality(S) + 2
  <2>1. j \notin S \cup {i} OBVIOUS
  <2>2. QED BY <1>a, <1>2, <2>1, FS_AddElement
<1>4. Cardinality((S \cup {i}) \cup {j}) <= NUM
  <2>1. (S \cup {i}) \cup {j} \subseteq Descs OBVIOUS
  <2>2. Cardinality((S \cup {i}) \cup {j}) <= Cardinality(Descs) BY <2>1, Consts, FS_Subset
  <2>3. QED BY <2>2, Consts
<1>5. QED BY <1>1, <1>a, <1>3, <1>4

(* Who is about to submit has no request yet.                                 *)
LEMMA NoRequestYet ==
  ASSUME CacheInv, DriverInv, NEW p \in Procs, at[p] = "rw"
  PROVE  /\ buf[p] \in Bufs /\ p \notin Working
         /\ \A h \in Heads : info[h] # buf[p]
         /\ ~owned[buf[p]]
         /\ \A q \in Working : buf[q] # buf[p]
<1>1. buf[p] \in Bufs BY OwnBuffer DEF InRw
<1>2. p \notin Working BY DEF Working
<1>3. \A q \in Working : buf[q] # buf[p] BY <1>1, <1>2, OwnBuffer DEF InRw, Working
<1>4. \A h \in Heads : info[h] # buf[p] BY <1>3 DEF DriverInv, Requests
<1>5. ~owned[buf[p]] BY <1>1, <1>4 DEF DriverInv, Requests
<1>6. QED BY <1>1, <1>2, <1>3, <1>4, <1>5

LEMMA SubmitKeeps ==
  ASSUME CacheInv, DriverInv, NEW p \in Procs, Submit(p)
  PROVE  /\ DriverInv'
         /\ \E h \in Descs : /\ Heads' = Heads \cup {h} /\ Waits' = Waits \cup {h}
                             /\ \A k \in Heads : info'[k] = info[k]
<1> DEFINE b == buf[p]
<1> USE DEF DriverInv
<1>1. PICK h \in Descs, i \in Descs, j \in Descs :
        /\ h \in free /\ i \in free /\ j \in free /\ h # i /\ h # j /\ i # j
        /\ free' = free \ {h, i, j}
        /\ next' = [next EXCEPT ![h] = i, ![i] = j, ![j] = NoNext]
        /\ req' = [req EXCEPT ![h] = RequestOf(write[p], blockno[b], b)]
        /\ info' = [info EXCEPT ![h] = b]
        /\ avail' = [avail EXCEPT ![Slot(avail_idx)] = h]
  <2>1. Cardinality(free) >= 3 /\ free \subseteq Descs BY DEF Submit, DriverTypes
  <2>2. {Alloc3[n] : n \in 1 .. 3} = {Alloc3[1], Alloc3[2], Alloc3[3]} OBVIOUS
  <2>3. /\ free' = free \ {Alloc3[1], Alloc3[2], Alloc3[3]}
        /\ next' = [next EXCEPT ![Alloc3[1]] = Alloc3[2], ![Alloc3[2]] = Alloc3[3],
                                ![Alloc3[3]] = NoNext]
        /\ req' = [req EXCEPT ![Alloc3[1]] = RequestOf(write[p], blockno[b], b)]
        /\ info' = [info EXCEPT ![Alloc3[1]] = b]
        /\ avail' = [avail EXCEPT ![Slot(avail_idx)] = Alloc3[1]]
    BY <2>2 DEF Submit, RequestOf
  <2> HIDE DEF b
  <2>4. QED BY <2>1, <2>3, AllocFacts
<1>2. /\ at[p] = "rw" /\ at' = [at EXCEPT ![p] = "io_sleep"]
      /\ owned' = [owned EXCEPT ![b] = TRUE] /\ avail_idx' = Inc(avail_idx)
      /\ UNCHANGED <<buf, write, seen, handler, blockno, used, used_idx, irq, taken, inflight>>
  BY DEF Submit, Goto, deviceVars
<1>3. /\ b \in Bufs /\ p \notin Working /\ \A k \in Heads : info[k] # b
      /\ ~owned[b] /\ \A q \in Working : buf[q] # b
  BY <1>2, NoRequestYet
<1>4. h \notin Heads /\ i \notin Heads /\ j \notin Heads /\ Heads \subseteq Descs
  BY <1>1 DEF Chains, Chain, Heads
<1>5. \A k \in Descs : /\ info'[k] = IF k = h THEN b ELSE info[k]
                       /\ next'[k] = IF k = h THEN i ELSE IF k = i THEN j
                                     ELSE IF k = j THEN NoNext ELSE next[k]
  BY <1>1 DEF DriverTypes
<1> HIDE DEF b
<1>6. Heads' = Heads \cup {h} BY <1>1, <1>3, <1>4, <1>5, Consts DEF Heads
<1>7. \A c \in Bufs : owned'[c] = (owned[c] \/ c = b) BY <1>2, <1>3 DEF DriverTypes
<1>8. Pending' = Pending \cup {h}
  <2>1. \A k \in Heads : info'[k] = info[k] /\ (owned'[info'[k]] <=> owned[info[k]])
    BY <1>3, <1>4, <1>5, <1>7, Consts DEF Heads, DriverTypes
  <2>2. owned'[info'[h]] BY <1>3, <1>5, <1>7
  <2>3. QED BY <1>6, <2>1, <2>2 DEF Pending
<1>9. DriverTypes'
  BY <1>1, <1>2, <1>3, IndexFacts, Consts DEF DriverTypes, Index
<1>10. Chains'
  <2>1. \A k \in Heads : /\ k \notin {h, i, j} /\ next[k] \notin {h, i, j}
                         /\ next[next[k]] \notin {h, i, j}
    BY <1>1 DEF Chains, Chain
  <2>2. \A k \in Heads : next'[k] = next[k] /\ next'[next[k]] = next[next[k]]
    BY <1>4, <1>5, <2>1 DEF Chains
  <2>3. \A k \in Heads : Chain(k)' = Chain(k) BY <2>2 DEF Chain
  <2>4. next'[h] = i /\ next'[i] = j /\ Chain(h)' = {h, i, j} BY <1>1, <1>5 DEF Chain
  <2>5. ASSUME NEW k \in Heads'
        PROVE  /\ next'[k] \in Descs /\ next'[next'[k]] \in Descs
               /\ k # next'[k] /\ k # next'[next'[k]] /\ next'[k] # next'[next'[k]]
               /\ Chain(k)' \cap free' = {}
    <3>1. CASE k = h BY <1>1, <1>5, <2>4, <3>1
    <3>2. CASE k \in Heads
      <4>1. /\ next[k] \in Descs /\ next[next[k]] \in Descs /\ Chain(k) \cap free = {}
            /\ k # next[k] /\ k # next[next[k]] /\ next[k] # next[next[k]]
        BY <3>2 DEF Chains
      <4>2. next'[k] = next[k] /\ next'[next[k]] = next[next[k]] /\ Chain(k)' = Chain(k)
        BY <2>2, <2>3, <3>2
      <4>3. QED BY <1>1, <4>1, <4>2
    <3>3. QED BY <1>6, <3>1, <3>2
  <2>6. \A k, l \in Heads' : k # l => Chain(k)' \cap Chain(l)' = {}
    BY <1>1, <1>6, <2>3, <2>4 DEF Chains
  <2>7. \A x \in Descs \ free' : \E k \in Heads' : x \in Chain(k)'
    BY <1>1, <1>6, <2>3, <2>4 DEF Chains
  <2>8. QED BY <2>5, <2>6, <2>7 DEF Chains
<1>11. Requests'
  <2>1. Working' = Working \cup {p} /\ buf[p] = b BY <1>2 DEF CacheInv, CacheTypes, Working, b
  <2>2. \A k \in Heads : req'[k] = req[k] BY <1>1, <1>4
  <2>3. req'[h] = RequestOf(write[p], blockno[b], b) BY <1>1 DEF DriverTypes
  <2>4. QED BY <1>1, <1>2, <1>3, <1>4, <1>5, <1>6, <1>7, <2>1, <2>2, <2>3 DEF Requests
<1>12. /\ RingRight(avail', taken', avail_idx') /\ Waits' = Waits \cup {h}
  <2>1. Waits \subseteq Heads BY DEF Places, Pending
  <2>2. Cardinality(Heads) \in Nat /\ Cardinality(Heads) + 2 <= NUM /\ IsFiniteSet(Heads)
    BY <1>1, <1>4, Room
  <2>3. Off(taken, avail_idx, IdxMod) <= Cardinality(Heads)
    <3>1. RingRight(avail, taken, avail_idx) /\ taken \in Index /\ avail_idx \in Index
      BY DEF Rings, DriverTypes, Index
    <3>2. Entries(avail, taken, avail_idx) \subseteq Heads BY <2>1 DEF Waits
    <3>3. QED BY <2>2, <3>1, <3>2, Enough
  <2>4. Off(taken, avail_idx, IdxMod) + 1 < NUM
    <3>1. Off(taken, avail_idx, IdxMod) \in Nat BY IndexFacts DEF DriverTypes, Index
    <3>2. QED BY <2>2, <2>3, <3>1, Consts
  <2>5. h \notin Waits BY <1>4, <2>1
  <2>6. /\ taken \in Index /\ avail_idx \in Index /\ avail \in [Descs -> Descs \cup {None}]
        /\ RingRight(avail, taken, avail_idx) /\ h \notin Entries(avail, taken, avail_idx)
    BY <2>5 DEF Rings, DriverTypes, Index, Waits
  <2>7. PICK r : r = avail' OBVIOUS
  <2>a. \A s \in Descs : r[s] = IF s = Slot(avail_idx) THEN h ELSE avail[s]
    BY <1>1, <2>6, <2>7
  <2>8. /\ RingRight(r, taken, Inc(avail_idx))
        /\ Entries(r, taken, Inc(avail_idx)) = Entries(avail, taken, avail_idx) \cup {h}
    BY <2>4, <2>6, <2>a, RingAppend
  <2>9. avail' = r /\ taken' = taken /\ avail_idx' = Inc(avail_idx) BY <1>1, <1>2, <2>7
  <2>10. QED BY <2>8, <2>9 DEF Waits
<1>13. Answered' = Answered BY <1>2 DEF Answered
<1>14. Rings' BY <1>2, <1>12 DEF Rings
<1>15. Places'
  BY <1>2, <1>4, <1>8, <1>12, <1>13 DEF Places, Pending
<1>16. \A k \in Heads : info'[k] = info[k] BY <1>4, <1>5
<1>17. QED BY <1>6, <1>9, <1>10, <1>11, <1>12, <1>14, <1>15, <1>16

-----------------------------------------------------------------------------
(* virtio_disk_rw() returns: the chain is free again, and whoever waits for   *)
(* descriptors is awake.                                                      *)
LEMMA ReleaseKeeps ==
  ASSUME CacheInv, DriverInv, NEW p \in Procs, rw_return(p), Done(buf[p])
  PROVE  /\ DriverInv' /\ Waits' = Waits
         /\ \E h \in Heads \ Pending : /\ info[h] = buf[p] /\ Heads' = Heads \ {h}
                                      /\ \A k \in Heads \ {h} : info'[k] = info[k]
<1> DEFINE b == buf[p]
<1> USE DEF DriverInv
<1>1. PICK h \in Descs :
        /\ info[h] = b /\ info' = [info EXCEPT ![h] = None] /\ req' = [req EXCEPT ![h] = None]
        /\ free' = free \cup Chain(h)
        /\ next' = [i \in Descs |-> IF i \in Chain(h) THEN NoNext ELSE next[i]]
  BY DEF rw_return, Finish, free_chain
<1>2. /\ at[p] = "io" /\ ~owned[b]
      /\ write' = [write EXCEPT ![p] = FALSE]
      /\ at' = [Woken("desc_sleep", "rw") EXCEPT ![p] = "held"]
      /\ UNCHANGED <<buf, blockno, owned, avail, avail_idx, seen, handler, used,
                     used_idx, irq, taken, inflight>>
  BY DEF rw_return, Finish, Done, deviceVars
<1>3. p \in Working /\ b \in Bufs BY <1>2, WorkingFacts DEF Working
<1> HIDE DEF b
<1>4. h \in Heads /\ Heads \subseteq Descs BY <1>1, <1>3, Consts DEF Heads
<1>5. Heads' = Heads \ {h} /\ \A k \in Heads \ {h} : info'[k] = info[k] /\ req'[k] = req[k]
  BY <1>1, <1>4 DEF Heads, DriverTypes
<1>6. h \notin Pending /\ Pending' = Pending
  <2>1. h \notin Pending BY <1>1, <1>2 DEF Pending
  <2>2. \A k \in Heads \ {h} : owned'[info'[k]] = owned[info[k]] BY <1>2, <1>5
  <2>3. QED BY <1>5, <2>1, <2>2 DEF Pending
<1>7. Chain(h) \subseteq Descs BY <1>4 DEF Chains, Chain
<1>8. DriverTypes'
  <2>1. \A i \in Descs : next'[i] \in Descs \cup {NoNext} BY <1>1 DEF DriverTypes
  <2>2. next' \in [Descs -> Descs \cup {NoNext}] BY <1>1, <2>1
  <2>3. QED BY <1>1, <1>2, <1>7, <2>2 DEF DriverTypes
<1>9. Chains'
  <2>1. \A k \in Heads \ {h} : /\ k \notin Chain(h) /\ next[k] \notin Chain(h)
                               /\ next[next[k]] \notin Chain(h) /\ Chain(k) \cap Chain(h) = {}
    <3>1. \A k \in Heads \ {h} : Chain(k) \cap Chain(h) = {} BY <1>4 DEF Chains
    <3>2. \A k : k \in Chain(k) /\ next[k] \in Chain(k) /\ next[next[k]] \in Chain(k) BY DEF Chain
    <3>3. QED BY <3>1, <3>2
  <2>2. \A k \in Heads \ {h} : next'[k] = next[k] /\ next'[next[k]] = next[next[k]]
    BY <1>1, <1>4, <2>1 DEF Chains
  <2>3. \A k \in Heads \ {h} : Chain(k)' = Chain(k) BY <2>2 DEF Chain
  <2>4. ASSUME NEW k \in Heads'
        PROVE  /\ next'[k] \in Descs /\ next'[next'[k]] \in Descs
               /\ k # next'[k] /\ k # next'[next'[k]] /\ next'[k] # next'[next'[k]]
               /\ Chain(k)' \cap free' = {}
    <3>1. k \in Heads \ {h} BY <1>5
    <3>2. /\ next[k] \in Descs /\ next[next[k]] \in Descs /\ Chain(k) \cap free = {}
          /\ k # next[k] /\ k # next[next[k]] /\ next[k] # next[next[k]]
      BY <3>1 DEF Chains
    <3>3. next'[k] = next[k] /\ next'[next[k]] = next[next[k]] /\ Chain(k)' = Chain(k)
      BY <2>2, <2>3, <3>1
    <3>4. Chain(k) \cap Chain(h) = {} BY <2>1, <3>1
    <3>5. QED BY <1>1, <3>2, <3>3, <3>4
  <2>5. \A k, l \in Heads' : k # l => Chain(k)' \cap Chain(l)' = {} BY <1>5, <2>3 DEF Chains
  <2>6. \A x \in Descs \ free' : \E k \in Heads' : x \in Chain(k)' BY <1>1, <1>5, <2>3 DEF Chains
  <2>7. QED BY <2>4, <2>5, <2>6 DEF Chains
<1>10. Requests'
  <2>1. Working' = Working \ {p} BY <1>2 DEF CacheInv, CacheTypes, Working, Woken
  <2>2. \A q \in Working \ {p} : buf[q] # b /\ write'[q] = write[q]
    BY <1>2, <1>3, WorkingFacts DEF b
  <2>3. \A k \in Heads \ {h} : info[k] # b BY <1>1, <1>4 DEF Requests
  <2>4. \A k \in Heads \ {h} : \E q \in Working \ {p} :
          buf[q] = info[k] /\ req[k] = RequestOf(write[q], blockno[buf[q]], buf[q])
    BY <2>3 DEF Requests, b
  <2>5. \A k \in Heads' : \E q \in Working' :
          buf'[q] = info'[k] /\ req'[k] = RequestOf(write'[q], blockno'[buf'[q]], buf'[q])
    BY <1>2, <1>5, <2>1, <2>2, <2>4
  <2>6. \A q \in Working' : \E k \in Heads' : info'[k] = buf'[q]
    BY <1>1, <1>2, <1>5, <2>1, <2>2 DEF Requests
  <2>7. \A c \in Bufs : owned'[c] => \E k \in Heads' : info'[k] = c
    BY <1>1, <1>2, <1>5 DEF Requests
  <2>8. \A k, l \in Heads' : info'[k] = info'[l] => k = l BY <1>5 DEF Requests
  <2>9. QED BY <2>5, <2>6, <2>7, <2>8 DEF Requests
<1>11. UNCHANGED <<Waits, Answered>> BY <1>2 DEF Waits, Answered
<1>12. Rings' BY <1>2 DEF Rings
<1>13. Places' BY <1>2, <1>6, <1>11 DEF Places
<1>14. QED BY <1>1, <1>4, <1>5, <1>6, <1>8, <1>9, <1>10, <1>11, <1>12, <1>13 DEF b

(* The device takes a request, answers one, and the handler reaps them all.   *)
LEMMA RequestsSame ==
  ASSUME Requests, UNCHANGED <<info, req, buf, write, blockno, owned>>, Working' = Working
  PROVE  Requests' /\ Heads' = Heads /\ Pending' = Pending
<1>1. Heads' = Heads BY DEF Heads
<1>2. QED BY <1>1 DEF Requests, Pending

LEMMA ChainsSame == ASSUME Chains, UNCHANGED <<free, next, info>> PROVE Chains'
<1>1. Heads' = Heads /\ \A h : Chain(h)' = Chain(h) BY DEF Heads, Chain
<1>2. QED BY <1>1 DEF Chains

LEMMA TakeKeeps ==
  ASSUME CacheInv, DriverInv, DeviceTake
  PROVE  DriverInv' /\ Heads' = Heads /\ (Waits \cup inflight)' = Waits \cup inflight
<1> USE DEF DriverInv
<1> DEFINE h == avail[Slot(taken)]
<1>1. /\ taken # avail_idx /\ inflight' = inflight \cup {h}
      /\ avail' = [avail EXCEPT ![Slot(taken)] = None] /\ taken' = Inc(taken)
      /\ UNCHANGED <<owned, free, next, req, info, avail_idx, seen, handler, blockno, used,
                     used_idx, irq, at, buf, write>>
  BY DEF DeviceTake, callVars
<1>2. Requests' /\ Heads' = Heads /\ Pending' = Pending BY <1>1, RequestsSame DEF Working
<1>3. Chains' BY <1>1, ChainsSame
<1>4. taken \in Index /\ avail_idx \in Index /\ RingRight(avail, taken, avail_idx)
  BY DEF DriverTypes, Rings, Index
<1>5. PICK r : r = avail' OBVIOUS
<1>6. \A s \in Descs \ {Slot(taken)} : r[s] = avail[s] BY <1>1, <1>5 DEF DriverTypes
<1>7. /\ RingRight(r, Inc(taken), avail_idx)
      /\ Entries(r, Inc(taken), avail_idx) = Entries(avail, taken, avail_idx) \ {h}
      /\ h \in Entries(avail, taken, avail_idx)
  BY <1>1, <1>4, <1>6, RingPop
<1> HIDE DEF h
<1>8. Waits' = Waits \ {h} /\ h \in Waits /\ Rings' BY <1>1, <1>5, <1>7 DEF Waits, Rings
<1>9. Answered' = Answered BY <1>1 DEF Answered
<1>10. Places' BY <1>1, <1>2, <1>8, <1>9 DEF Places
<1>11. h \in Descs BY <1>8 DEF Places, Pending, Heads
<1>12. DriverTypes' BY <1>1, <1>4, <1>11, IndexFacts DEF DriverTypes, Index
<1>13. QED BY <1>1, <1>2, <1>3, <1>8, <1>10, <1>12

LEMMA AnswerKeeps ==
  ASSUME CacheInv, DriverInv, NEW h \in Descs, DeviceFinish(h)
  PROVE  DriverInv' /\ h \in Heads /\ Heads' = Heads /\ Waits' = Waits
<1> USE DEF DriverInv
<1>1. /\ h \in inflight /\ inflight' = inflight \ {h}
      /\ used' = [used EXCEPT ![Slot(used_idx)] = h] /\ used_idx' = Inc(used_idx) /\ irq' = TRUE
      /\ UNCHANGED <<owned, free, next, req, info, avail, avail_idx, seen, handler, blockno, taken,
                     at, buf, write>>
  BY DEF DeviceFinish, callVars
<1>2. Requests' /\ Heads' = Heads /\ Pending' = Pending BY <1>1, RequestsSame DEF Working
<1>3. Chains' BY <1>1, ChainsSame
<1>4. seen \in Index /\ used_idx \in Index /\ RingRight(used, seen, used_idx)
  BY DEF DriverTypes, Rings, Index
<1>5. h \in Heads /\ h \notin Answered /\ Answered \subseteq Heads
  BY <1>1 DEF Places, Pending
<1>6. Off(seen, used_idx, IdxMod) + 1 < NUM
  <2>1. /\ next[h] \in Descs \ Heads /\ next[next[h]] \in Descs \ Heads
        /\ next[h] # next[next[h]]
    BY <1>5 DEF Chains, Chain
  <2>2. Heads \subseteq Descs BY DEF Heads
  <2>3. IsFiniteSet(Heads) /\ Cardinality(Heads) \in Nat /\ Cardinality(Heads) + 2 <= NUM
    BY <2>1, <2>2, Room
  <2>4. Entries(used, seen, used_idx) \subseteq Heads BY <1>5 DEF Answered
  <2>5. Off(seen, used_idx, IdxMod) <= Cardinality(Heads) BY <1>4, <2>3, <2>4, Enough
  <2>6. Off(seen, used_idx, IdxMod) \in Nat BY <1>4, IndexFacts
  <2>7. QED BY <2>3, <2>5, <2>6, Consts
<1>7. PICK r : r = used' OBVIOUS
<1>8. \A s \in Descs : r[s] = IF s = Slot(used_idx) THEN h ELSE used[s]
  BY <1>1, <1>7 DEF DriverTypes
<1>9. h \notin Entries(used, seen, used_idx) BY <1>5 DEF Answered
<1>10. /\ RingRight(r, seen, Inc(used_idx))
       /\ Entries(r, seen, Inc(used_idx)) = Entries(used, seen, used_idx) \cup {h}
  BY <1>4, <1>6, <1>8, <1>9, RingAppend
<1>11. Answered' = Answered \cup {h} /\ Rings'
  BY <1>1, <1>7, <1>10 DEF Answered, Rings
<1>12. Waits' = Waits BY <1>1 DEF Waits
<1>13. Places' BY <1>1, <1>2, <1>11, <1>12 DEF Places
<1>14. DriverTypes' BY <1>1, <1>4, IndexFacts DEF DriverTypes, Index
<1>15. QED BY <1>2, <1>3, <1>5, <1>11, <1>12, <1>13, <1>14

LEMMA ReapKeeps ==
  ASSUME CacheInv, DriverInv, IntrLoop PROVE DriverInv' /\ Heads' = Heads /\ Waits' = Waits
<1> USE DEF DriverInv
<1>1. seen \in Index /\ used_idx \in Index /\ RingRight(used, seen, used_idx)
  BY DEF DriverTypes, Rings, Index
<1>2. Window(used, seen, used_idx) = Answered
  BY <1>1, WindowIs DEF Answered, RingRight
<1>3. PICK done : /\ done = {info[h] : h \in Answered}
                  /\ owned' = [b \in Bufs |-> owned[b] /\ b \notin done]
                  /\ at' = [q \in Procs |-> IF at[q] = "io_sleep" /\ buf[q] \in done
                                            THEN "io" ELSE at[q]]
  BY <1>2 DEF IntrLoop, Reaped
<1>4. /\ seen' = used_idx /\ used' = [i \in Descs |-> None]
      /\ UNCHANGED <<buf, write, blockno, free, next, req, info, avail, avail_idx, used_idx, irq,
                     taken, inflight>>
  BY DEF IntrLoop, Reaped
<1>5. Working' = Working BY <1>3 DEF Working
<1>6. Heads' = Heads BY <1>4 DEF Heads
<1>7. Answered \subseteq Heads BY DEF Places, Pending
<1>8. Pending' = Pending \ Answered
  <2>1. \A h \in Heads : info[h] \in Bufs BY DEF Heads, DriverTypes
  <2>2. \A h \in Heads : info[h] \in done <=> h \in Answered BY <1>3, <1>7 DEF Requests
  <2>3. \A h \in Heads : owned'[info[h]] <=> owned[info[h]] /\ h \notin Answered
    BY <1>3, <2>1, <2>2
  <2>4. QED BY <1>4, <1>6, <2>3 DEF Pending
<1>9. Requests'
  <2>1. \A b \in Bufs : owned'[b] => owned[b] BY <1>3
  <2>2. QED BY <1>4, <1>5, <1>6, <2>1 DEF Requests
<1>10. Chains' BY <1>4, ChainsSame
<1>11. PICK r : r = used' OBVIOUS
<1>12. RingRight(r, used_idx, used_idx) /\ Entries(r, used_idx, used_idx) = {}
  BY <1>1, RingEmpty
<1>13. Answered' = {} /\ Rings' BY <1>4, <1>11, <1>12 DEF Answered, Rings
<1>14. Waits' = Waits BY <1>4 DEF Waits
<1>15. Places' BY <1>4, <1>8, <1>13, <1>14 DEF Places
<1>16. DriverTypes' BY <1>3, <1>4 DEF DriverTypes
<1>17. QED BY <1>6, <1>9, <1>10, <1>13, <1>14, <1>15, <1>16

LEMMA DriverInvInductive == CacheInv /\ DriverInv /\ [Next]_vars => DriverInv'
<1> SUFFICES ASSUME CacheInv, DriverInv, [Next]_vars PROVE DriverInv' OBVIOUS
<1>1. CASE UNCHANGED vars
  <2>1. Still BY <1>1 DEF vars, callVars, diskVars, driverVars, deviceVars, Still, Working
  <2>2. QED BY <2>1, StillKeeps
<1>2. CASE Devices
  <2>1. Machine BY <1>2 DEF Devices
  <2>2. CASE IntrStart
    <3>1. Still
      BY <2>2 DEF IntrStart, Still, ringVars, callVars, Working
    <3>2. QED BY <3>1, StillKeeps
  <2>3. QED BY <2>1, <2>2, ReapKeeps, TakeKeeps, AnswerKeeps DEF Machine
<1>3. ASSUME NEW p \in Procs, Step(p) \/ Caller(p) PROVE DriverInv'
  <2>1. CASE Rw(p) BY <2>1, SubmitKeeps, DriverStill, StillKeeps DEF Rw
  <2>2. CASE rw_return(p) BY <2>2, ReleaseKeeps, DriverStill, StillKeeps
  <2>3. CASE Outside(p) BY <2>3, CacheStill, StillKeeps
  <2>4. QED BY <1>3, <2>1, <2>2, <2>3 DEF Step, Outside
<1>4. QED BY <1>1, <1>2, <1>3 DEF Next

LEMMA DriverInvInit == Init => DriverInv
<1> SUFFICES ASSUME Init PROVE DriverInv OBVIOUS
<1> USE DEF Init, DiskInit
<1>1. Heads = {} /\ Pending = {} /\ Working = {} BY DEF Heads, Pending, Working
<1>2. 0 \in Index BY Consts DEF Index
<1>3. DriverTypes BY <1>2 DEF DriverTypes, Index
<1>4. Chains BY <1>1 DEF Chains
<1>5. Requests BY <1>1 DEF Requests
<1>6. Rings /\ Waits = {} /\ Answered = {} BY <1>2, RingEmpty DEF Rings, Waits, Answered
<1>7. Places BY <1>1, <1>6 DEF Places
<1>8. QED BY <1>3, <1>4, <1>5, <1>6, <1>7 DEF DriverInv

LEMMA DriverInvAlways == Spec => [](CacheInv /\ DriverInv)
BY CacheInvAlways, DriverInvInit, DriverInvInductive, PTL DEF Spec

LEMMA DriverInvRight == ASSUME CacheInv, DriverInv PROVE DriverRight
<1> USE DEF DriverInv
<1>1. DiskTypeOK BY DEF DriverTypes, DiskTypeOK
<1>2. DescsAccounted
  <2>1. Descs \ free = UNION {Chain(h) : h \in Heads}
    <3>1. \A h \in Heads : Chain(h) \subseteq Descs \ free
      <4>1. \A h \in Heads : h \in Descs BY DEF Heads
      <4>2. QED BY <4>1 DEF Chains, Chain
    <3>2. \A i \in Descs \ free : \E h \in Heads : i \in Chain(h) BY DEF Chains
    <3>3. QED BY <3>1, <3>2
  <2>2. \A h, k \in Heads : h # k => Chain(h) \cap Chain(k) = {} BY DEF Chains
  <2>3. Cardinality(Heads) = Cardinality(Working)
    <3> DEFINE f == [p \in Working |-> CHOOSE h \in Heads : info[h] = buf[p]]
    <3>1. \A p \in Working : f[p] \in Heads /\ info[f[p]] = buf[p] BY DEF Requests
    <3>2. \A p, q \in Working : f[p] = f[q] => p = q BY <3>1, WorkingFacts
    <3>3. \A h \in Heads : \E p \in Working : f[p] = h
      <4>1. \A h \in Heads : \E p \in Working : buf[p] = info[h] BY DEF Requests
      <4>2. QED BY <3>1, <4>1 DEF Requests
    <3>4. f \in [Working -> Heads] BY <3>1
    <3> HIDE DEF f
    <3>5. f \in Bijection(Working, Heads)
      BY <3>2, <3>3, <3>4 DEF Bijection, Injection, Surjection, IsInjective
    <3>6. IsFiniteSet(Working) BY DiskAssumption, FS_Subset DEF Working
    <3>7. QED BY <3>5, <3>6, FS_Bijection DEF ExistsBijection
  <2>4. QED BY <2>1, <2>2, <2>3 DEF DescsAccounted, Working
<1>3. RequestsInPlace
  <2>1. Window(avail, taken, avail_idx) = Waits
    BY WindowIs DEF Rings, RingRight, DriverTypes, Waits, Index
  <2>2. Window(used, seen, used_idx) = Answered
    BY WindowIs DEF Rings, RingRight, DriverTypes, Answered, Index
  <2> DEFINE places == <<Waits, inflight, Answered>>
  <2>3. UNION {places[i] : i \in 1 .. 3} = (Waits \cup inflight) \cup Answered
    <3>1. {places[i] : i \in 1 .. 3} = {Waits, inflight, Answered} OBVIOUS
    <3>2. QED BY <3>1
  <2>4. \A i, j \in 1 .. 3 : i # j => places[i] \cap places[j] = {} BY DEF Places
  <2>5. QED BY <2>1, <2>2, <2>3, <2>4 DEF RequestsInPlace, Places, Pending
<1>4. QED BY <1>1, <1>2, <1>3 DEF DriverRight

(* The driver and the device agree for ever: every descriptor is free or in   *)
(* the chain of one request, every request the driver waits for is in the     *)
(* avail ring, with the device or in the used ring and nowhere else, and an   *)
(* answer nobody has reaped is announced (virtio_disk.c:215, :290).           *)
THEOREM DriverRightAlways == Spec => []DriverRight
<1>1. CacheInv /\ DriverInv => DriverRight BY DriverInvRight
<1>2. QED BY <1>1, DriverInvAlways, PTL

-----------------------------------------------------------------------------
(* The list of buffers stays a permutation of them.                           *)
LEMMA FrontKeepsAll ==
  ASSUME lru \in [Bufs -> Bufs], {lru[i] : i \in Bufs} = Bufs, NEW b \in Bufs
  PROVE  {ToFront(b)[i] : i \in Bufs} = Bufs
<1> DEFINE t == ToFront(b)
<1>1. t \in [Bufs -> Bufs] BY MovesToFront
<1>2. \A i \in Bufs : t[i] = IF i = 1 THEN b
        ELSE IF \E j \in 1 .. i - 1 : lru[j] = b THEN lru[i] ELSE lru[i - 1]
  BY DEF ToFront
<1>3. 1 \in Bufs /\ Bufs = 1 .. NBUF /\ NBUF \in Nat BY BufsFacts, DiskAssumption DEF Bufs
<1> HIDE DEF t
<1>4. ASSUME NEW c \in Bufs PROVE \E i \in Bufs : t[i] = c
  <2>1. CASE c = b BY <1>2, <1>3, <2>1
  <2>2. ASSUME c # b, NEW k \in Bufs, lru[k] = c PROVE \E i \in Bufs : t[i] = c
    <3>1. CASE \E j \in 1 .. k - 1 : lru[j] = b
      <4>1. k # 1 BY <1>3, <3>1
      <4>2. QED BY <1>2, <2>2, <3>1, <4>1
    <3>2. CASE ~ \E j \in 1 .. k - 1 : lru[j] = b
      <4>1. PICK m \in Bufs : lru[m] = b OBVIOUS
      <4>2. m > k BY <1>3, <2>2, <3>2, <4>1
      <4>3. k + 1 \in Bufs /\ k + 1 # 1 /\ (k + 1) - 1 = k BY <1>3, <4>2
      <4>4. ~ \E j \in 1 .. k : lru[j] = b
        <5>1. \A j \in 1 .. k : j = k \/ j \in 1 .. k - 1 BY <1>3
        <5>2. QED BY <2>2, <3>2, <5>1
      <4>5. t[k + 1] = lru[k] BY <1>2, <4>3, <4>4
      <4>6. QED BY <2>2, <4>3, <4>5
    <3>3. QED BY <3>1, <3>2
  <2>3. \E k \in Bufs : lru[k] = c OBVIOUS
  <2>4. QED BY <2>1, <2>2, <2>3
<1>5. QED BY <1>1, <1>4 DEF t

(* What the steps do to the contents.                                         *)
Settled == UNCHANGED <<data, disk, valid, blockno>>

LEMMA SettledKeeps ==
  ASSUME DataInv, Settled, DataTypes', Callers', CarriedOut',
         \A b \in Bufs : lock'[b] = None /\ b \notin pinned' /\ valid[b] =>
           OnDisk(b) \/ (lock[b] = None /\ b \notin pinned)
  PROVE  DataInv'
<1>1. Filled' BY DEF DataInv, Settled, Filled
<1>2. Clean' BY DEF DataInv, Settled, Clean, OnDisk
<1>3. QED BY <1>1, <1>2 DEF DataInv

LEMMA StillCarriedOut ==
  ASSUME DataInv, Still, UNCHANGED <<data, disk, blockno>> PROVE CarriedOut'
<1>1. UNCHANGED <<Heads, Waits, inflight, info>> BY DEF Still, Heads, Waits
<1>2. QED BY <1>1 DEF DataInv, CarriedOut, OnDisk

LEMMA CacheSettled ==
  ASSUME CacheInv, DriverInv, DataInv, NEW p \in Procs,
         \/ \E n \in Blocks : bget_cached(p, n) \/ bget_panic(p, n)
         \/ acquiresleep(p) \/ brelse(p) \/ bwrite(p) \/ bpin(p) \/ bunpin(p)
         \/ releasesleep(p) \/ Kill(p)
  PROVE  Settled /\ DataTypes' /\ Callers' /\ DataInv'
<1> USE DEF DataInv, Callers, InRw, CacheInv, CacheTypes, diskVars, driverVars, deviceVars,
            cacheVars, callVars
<1>1. Settled
  BY DEF bget_cached, bget_panic, acquiresleep, brelse, bwrite, bpin, bunpin, releasesleep, Kill,
         Settled
<1>2. lru' \in {lru, ToFront(buf[p])} /\ (lru' # lru => at[p] = "brelse")
  BY DEF bget_cached, bget_panic, acquiresleep, brelse, bwrite, bpin, bunpin, releasesleep, Kill
<1>3. at[p] = "brelse" => buf[p] \in Bufs BY DEF Referring, Away
<1>4. {lru'[i] : i \in Bufs} = Bufs
  <2>1. CASE lru' = lru BY <2>1 DEF DataTypes
  <2>2. CASE lru' = ToFront(buf[p]) /\ buf[p] \in Bufs
    <3>1. {ToFront(buf[p])[i] : i \in Bufs} = Bufs BY <2>2, FrontKeepsAll DEF DataTypes
    <3>2. QED BY <2>2, <3>1
  <2>3. QED BY <1>2, <1>3, <2>1, <2>2
<1>5. write' \in {write, [write EXCEPT ![p] = TRUE]}
  BY DEF bget_cached, bget_panic, acquiresleep, brelse, bwrite, bpin, bunpin, releasesleep, Kill
<1>6. DataTypes' BY <1>1, <1>4, <1>5 DEF DataTypes, Settled
<1>7. Callers' /\ \A b \in Bufs : lock'[b] = None /\ b \notin pinned' /\ valid[b] =>
                    OnDisk(b) \/ (lock[b] = None /\ b \notin pinned)
  <2> USE <1>1 DEF Settled
  <2>1. CASE \E n \in Blocks : bget_cached(p, n) \/ bget_panic(p, n)
    <3>1. /\ at[p] = "out" /\ UNCHANGED <<write, lock, pinned>>
          /\ \A q \in Procs \ {p} : at'[q] = at[q] /\ buf'[q] = buf[q]
          /\ at'[p] \in {"lock", "panic"}
      BY <2>1 DEF bget_cached, bget_panic, Use, Goto
    <3>2. QED BY <3>1
  <2>2. CASE acquiresleep(p)
    <3>1. /\ at[p] = "lock" /\ UNCHANGED <<buf, write, pinned>>
          /\ \/ lock' = lock /\ at' = [at EXCEPT ![p] = "lock_sleep"]
             \/ /\ lock[buf[p]] = None /\ lock' = [lock EXCEPT ![buf[p]] = p]
                /\ at' = [at EXCEPT ![p] = IF valid[buf[p]] THEN "held" ELSE "rw"]
      BY <2>2 DEF acquiresleep, Goto, MustRead
    <3>2. \A b \in Bufs : lock'[b] = None => lock[b] = None BY <3>1, DiskAssumption
    <3>3. \A q \in Procs \ {p} : at'[q] = at[q] BY <3>1
    <3>4. at'[p] = "lock_sleep" \/ at'[p] = (IF valid[buf[p]] THEN "held" ELSE "rw") BY <3>1
    <3>5. ~write[p] BY <3>1
    <3>6. QED BY <3>1, <3>2, <3>3, <3>4, <3>5
  <2>3. CASE brelse(p)
    <3>1. /\ at[p] = "brelse" /\ UNCHANGED <<write, lock, pinned>>
          /\ \A q \in Procs \ {p} : at'[q] = at[q] /\ buf'[q] = buf[q]
          /\ at'[p] = "out"
      BY <2>3 DEF brelse
    <3>2. QED BY <3>1
  <2>4. CASE bwrite(p)
    <3>1. /\ at[p] = "held" /\ UNCHANGED <<buf, lock, pinned>>
          /\ \A q \in Procs \ {p} : at'[q] = at[q] /\ write'[q] = write[q]
          /\ at'[p] = "rw" /\ write'[p]
      BY <2>4 DEF bwrite, Goto, DataTypes
    <3>2. QED BY <3>1
  <2>5. CASE bpin(p) \/ bunpin(p)
    <3>1. /\ at[p] = "held" /\ UNCHANGED <<at, buf, write, lock>>
          /\ \/ pinned \subseteq pinned'
             \/ pinned' = pinned \ {buf[p]} /\ OnDisk(buf[p])
      BY <2>5 DEF bpin, bunpin
    <3>2. QED BY <3>1
  <2>6. CASE releasesleep(p)
    <3>1. /\ at[p] = "held" /\ UNCHANGED <<buf, write, pinned>>
          /\ OnDisk(buf[p]) \/ buf[p] \in pinned
          /\ lock' = [lock EXCEPT ![buf[p]] = None]
          /\ \A q \in Procs : at'[q] = IF q = p THEN "brelse"
               ELSE IF at[q] = "lock_sleep" /\ buf[q] = buf[p] THEN "lock" ELSE at[q]
      BY <2>6 DEF releasesleep, Unlocked
    <3>2. QED BY <3>1
  <2>7. CASE Kill(p)
    <3>1. /\ UNCHANGED <<buf, write, lock, pinned>> /\ \A q \in Procs \ {p} : at'[q] = at[q]
          /\ \/ at[p] = "lock_sleep" /\ at'[p] = "lock"
             \/ at[p] = "desc_sleep" /\ at'[p] = "rw"
             \/ at[p] = "io_sleep" /\ at'[p] = "io"
      BY <2>7 DEF Kill, Goto
    <3>2. QED BY <3>1
  <2>8. QED BY <2>1, <2>2, <2>3, <2>4, <2>5, <2>6, <2>7
<1>8. CarriedOut'
  <2>1. Outside(p) BY DEF Outside, Caller
  <2>2. Still BY <2>1, CacheStill
  <2>3. QED BY <1>1, <2>2, StillCarriedOut DEF Settled
<1>9. QED BY <1>1, <1>6, <1>7, <1>8, SettledKeeps

(* A buffer that is recycled is locked by nobody and pinned by nobody.        *)
LEMMA RecycleFacts ==
  ASSUME CacheInv, NEW p \in Procs, NEW n \in Blocks, bget_recycle(p, n)
  PROVE  \E b \in Bufs :
           /\ at[p] = "out" /\ at' = [at EXCEPT ![p] = "lock"] /\ buf' = [buf EXCEPT ![p] = b]
           /\ want' = [want EXCEPT ![p] = n]
           /\ blockno' = [blockno EXCEPT ![b] = n] /\ valid' = [valid EXCEPT ![b] = FALSE]
           /\ UNCHANGED <<data, disk, write, lru, lock, pinned>>
           /\ lock[b] = None /\ b \notin pinned /\ \A q \in Procs : buf[q] # b
           /\ \A c \in Bufs : blockno[c] # n
<1>1. PICK i \in Unused : /\ want' = [want EXCEPT ![p] = n] /\ buf' = [buf EXCEPT ![p] = lru[i]]
                          /\ at' = [at EXCEPT ![p] = "lock"]
                          /\ blockno' = [blockno EXCEPT ![lru[i]] = n]
                          /\ valid' = [valid EXCEPT ![lru[i]] = FALSE]
  BY DEF bget_recycle, Use, Goto
<1>2. at[p] = "out" /\ Cached(n) = {} /\ UNCHANGED <<data, disk, write, lru, lock, pinned>>
  BY DEF bget_recycle, diskVars, deviceVars
<1>3. lru[i] \in Bufs /\ refcnt[lru[i]] = 0 BY <1>1 DEF Unused, CacheInv, CacheTypes
<1>4. Using(lru[i]) = {} /\ lru[i] \notin pinned BY <1>3, Unreferred
<1>5. \A q \in Procs : buf[q] # lru[i] BY <1>4 DEF Using
<1>6. lock[lru[i]] = None BY <1>3, <1>5 DEF CacheInv, CacheTypes, Locking
<1>7. \A c \in Bufs : blockno[c] # n BY <1>2 DEF Cached
<1>8. QED BY <1>1, <1>2, <1>3, <1>4, <1>5, <1>6, <1>7

LEMMA RecycleData ==
  ASSUME CacheInv, DriverInv, DataInv, NEW p \in Procs, NEW n \in Blocks, bget_recycle(p, n)
  PROVE  DataInv'
<1> USE DEF DataInv
<1>1. PICK b \in Bufs :
        /\ at[p] = "out" /\ at' = [at EXCEPT ![p] = "lock"] /\ buf' = [buf EXCEPT ![p] = b]
        /\ blockno' = [blockno EXCEPT ![b] = n] /\ valid' = [valid EXCEPT ![b] = FALSE]
        /\ UNCHANGED <<data, disk, write, lru, lock, pinned>>
        /\ \A q \in Procs : buf[q] # b
  BY RecycleFacts
<1>2. DataTypes' BY <1>1 DEF DataTypes
<1>3. \A c \in Bufs : valid'[c] => c # b /\ valid[c] /\ blockno'[c] = blockno[c]
  BY <1>1 DEF DataTypes, CacheInv, CacheTypes
<1>4. Filled' BY <1>1, <1>3 DEF Filled
<1>5. Clean' BY <1>1, <1>3 DEF Clean, OnDisk
<1>6. Callers'
  <2>1. \A q \in Procs \ {p} : at'[q] = at[q] /\ buf'[q] = buf[q]
    BY <1>1 DEF CacheInv, CacheTypes
  <2>2. \A q \in Procs : buf[q] \in Bufs => valid'[buf[q]] = valid[buf[q]]
    BY <1>1 DEF DataTypes
  <2>3. \A q \in Procs : at[q] \in InRw \/ at[q] = "held" => buf[q] \in Bufs
    BY DEF CacheInv, CacheTypes, Referring, Away, InRw
  <2>4. at'[p] = "lock" BY <1>1 DEF CacheInv, CacheTypes
  <2>5. QED BY <1>1, <2>1, <2>2, <2>3, <2>4 DEF Callers, InRw
<1>7. CarriedOut'
  <2>1. Still BY CacheStill DEF Outside
  <2>2. UNCHANGED <<Heads, Waits, inflight, info>> BY <2>1 DEF Still, Heads, Waits
  <2>3. \A h \in Heads : info[h] # b BY <1>1 DEF DriverInv, Requests, Working
  <2>4. \A h \in Heads : blockno'[info[h]] = blockno[info[h]] BY <1>1, <2>3
  <2>5. QED BY <1>1, <2>2, <2>4 DEF CarriedOut, OnDisk
<1>8. QED BY <1>2, <1>4, <1>5, <1>6, <1>7

LEMMA ModifyData ==
  ASSUME CacheInv, DriverInv, DataInv, NEW p \in Procs, NEW d \in Data, Modify(p, d)
  PROVE  DataInv'
<1> USE DEF DataInv
<1> DEFINE b == buf[p]
<1>1. /\ at[p] = "held" /\ data' = [data EXCEPT ![b] = d]
      /\ UNCHANGED <<blockno, disk, valid, write, lru, lock, pinned, at, buf, info>>
  BY DEF Modify, callVars, cacheVars, driverVars, deviceVars
<1>2. b \in Bufs /\ lock[b] = p /\ p \notin Working
  BY <1>1 DEF CacheInv, CacheTypes, Referring, Locking, Away, Locked, Working
<1> HIDE DEF b
<1>3. \A c \in Bufs : data'[c] = IF c = b THEN d ELSE data[c] BY <1>1 DEF DataTypes
<1>4. DataTypes' BY <1>1, <1>2 DEF DataTypes
<1>5. Filled' BY <1>1, <1>3 DEF Filled
<1>6. Clean' BY <1>1, <1>2, <1>3, DiskAssumption DEF Clean, OnDisk
<1>7. Callers' BY <1>1 DEF Callers
<1>8. CarriedOut'
  <2>1. Still BY CacheStill DEF Outside, Caller
  <2>2. UNCHANGED <<Heads, Waits, inflight>> BY <2>1 DEF Still, Heads, Waits
  <2>3. \A h \in Heads : info[h] # b /\ info[h] \in Bufs
    BY <1>2, WorkingFacts DEF DriverInv, Requests, b
  <2>4. \A h \in Heads : data'[info[h]] = data[info[h]] BY <1>3, <2>3
  <2>5. QED BY <1>1, <2>2, <2>4 DEF CarriedOut, OnDisk
<1>9. QED BY <1>4, <1>5, <1>6, <1>7, <1>8

LEMMA OutsideData ==
  ASSUME CacheInv, DriverInv, DataInv, NEW p \in Procs, Outside(p) PROVE DataInv'
BY CacheSettled, RecycleData, ModifyData DEF Outside, Caller

-----------------------------------------------------------------------------
(* virtio_disk_rw().                                                          *)
LEMMA RwData ==
  ASSUME CacheInv, DriverInv, DataInv, NEW p \in Procs,
         Rw(p) \/ (rw_return(p) /\ ~Done(buf[p]))
  PROVE  Settled /\ Callers' /\ DataInv'
<1> USE DEF DataInv, CacheInv, CacheTypes, diskVars, driverVars, deviceVars, cacheVars
<1>1. Settled /\ UNCHANGED <<buf, write, lru, lock, pinned>>
  BY DEF Rw, Submit, NoDescs, rw_return, Finish, Done, Settled
<1>2. \A q \in Procs : /\ at'[q] \in InRw <=> at[q] \in InRw
                       /\ at'[q] = "held" <=> at[q] = "held"
  BY DEF Rw, Submit, NoDescs, Goto, Woken, rw_return, Finish, Done, InRw
<1>3. Callers' BY <1>1, <1>2 DEF Callers, Settled
<1>4. DataTypes' BY <1>1 DEF DataTypes, Settled
<1>5. CarriedOut'
  <2>1. CASE Submit(p)
    <3>1. PICK h \in Descs : /\ Heads' = Heads \cup {h} /\ Waits' = Waits \cup {h}
                             /\ \A k \in Heads : info'[k] = info[k]
      BY <2>1, SubmitKeeps
    <3>2. inflight' = inflight BY <2>1 DEF Submit
    <3>3. QED BY <1>1, <3>1, <3>2 DEF CarriedOut, OnDisk, Settled
  <2>2. CASE NoDescs(p) \/ (rw_return(p) /\ ~Done(buf[p]))
    BY <1>1, <2>2, DriverStill, StillCarriedOut DEF Settled
  <2>3. QED BY <2>1, <2>2 DEF Rw
<1>6. QED BY <1>1, <1>3, <1>4, <1>5, SettledKeeps

(* virtio_disk_rw() is done: what the process holds is what is on the disk.   *)
LEMMA ReturnFacts ==
  ASSUME CacheInv, DriverInv, DataInv, NEW p \in Procs, rw_return(p), Done(buf[p])
  PROVE  /\ buf[p] \in Bufs /\ blockno[buf[p]] \in Blocks /\ lock[buf[p]] = p /\ at[p] = "io"
         /\ OnDisk(buf[p]) /\ data[buf[p]] \in Data
         /\ valid' = [valid EXCEPT ![buf[p]] = TRUE]
         /\ at' = [Woken("desc_sleep", "rw") EXCEPT ![p] = "held"]
         /\ write' = [write EXCEPT ![p] = FALSE]
         /\ UNCHANGED <<data, disk, blockno, buf, lru, lock, want, pinned>>
<1>1. /\ at[p] = "io" /\ ~owned[buf[p]]
      /\ valid' = [valid EXCEPT ![buf[p]] = TRUE]
      /\ at' = [Woken("desc_sleep", "rw") EXCEPT ![p] = "held"]
      /\ write' = [write EXCEPT ![p] = FALSE]
      /\ UNCHANGED <<data, disk, blockno, buf, lru, lock, want, pinned>>
  BY DEF rw_return, Finish, Done, deviceVars
<1>2. p \in Working BY <1>1 DEF Working
<1>3. buf[p] \in Bufs /\ lock[buf[p]] = p BY <1>2, WorkingFacts
<1>4. blockno[buf[p]] \in Blocks BY <1>3, BufsFacts DEF CacheInv, CacheTypes, Referring
<1>5. PICK h \in Heads \ Pending : info[h] = buf[p] BY ReleaseKeeps
<1>6. h \notin Waits \cup inflight BY DEF DriverInv, Places
<1>7. OnDisk(buf[p]) BY <1>5, <1>6 DEF DataInv, CarriedOut
<1>8. data[buf[p]] \in Data BY <1>4, <1>7 DEF OnDisk, DataInv, DataTypes
<1>9. QED BY <1>1, <1>3, <1>4, <1>7, <1>8

LEMMA ReturnData ==
  ASSUME CacheInv, DriverInv, DataInv, NEW p \in Procs, rw_return(p), Done(buf[p])
  PROVE  DataInv'
<1> USE DEF DataInv
<1> DEFINE b == buf[p]
<1>1. /\ b \in Bufs /\ blockno[b] \in Blocks /\ lock[b] = p /\ at[p] = "io"
      /\ OnDisk(b) /\ data[b] \in Data
      /\ valid' = [valid EXCEPT ![b] = TRUE]
      /\ at' = [Woken("desc_sleep", "rw") EXCEPT ![p] = "held"]
      /\ write' = [write EXCEPT ![p] = FALSE]
      /\ UNCHANGED <<data, disk, blockno, buf, lru, lock, want, pinned>>
  BY ReturnFacts
<1>2. \A q \in Procs \ {p} : at[q] \in InRw => buf[q] # b
  BY <1>1, OwnBuffer DEF InRw
<1>a. buf[p] = b OBVIOUS
<1> HIDE DEF b
<1>3. DataTypes' BY <1>1 DEF DataTypes
<1>4. \A c \in Bufs : valid'[c] = (valid[c] \/ c = b) BY <1>1 DEF DataTypes
<1>5. Filled' BY <1>1, <1>4 DEF Filled
<1>6. Clean' BY <1>1, <1>4, DiskAssumption DEF Clean, OnDisk
<1>7. Callers'
  <2>1. at'[p] = "held" /\ ~write'[p] /\ valid'[buf'[p]]
    BY <1>1, <1>4, <1>a DEF DataTypes, Woken
  <2>2. \A q \in Procs \ {p} : /\ write'[q] = write[q] /\ buf'[q] = buf[q]
                               /\ at'[q] \in InRw <=> at[q] \in InRw
                               /\ at'[q] = "held" <=> at[q] = "held"
    BY <1>1 DEF DataTypes, Woken, InRw
  <2>3. \A q \in Procs : at[q] \in InRw \/ at[q] = "held" => buf[q] \in Bufs
    BY DEF CacheInv, CacheTypes, Referring, Away, InRw
  <2>4. ASSUME NEW q \in Procs \ {p}
        PROVE  /\ at'[q] = "held" => valid'[buf'[q]]
               /\ at'[q] \in InRw => (write'[q] <=> valid'[buf'[q]])
               /\ at'[q] \notin InRw => ~write'[q]
    <3>1. at[q] \in InRw => (valid'[buf[q]] <=> valid[buf[q]]) BY <1>2, <1>4, <2>3
    <3>2. at[q] = "held" /\ valid[buf[q]] => valid'[buf[q]] BY <1>4, <2>3
    <3>3. QED BY <2>2, <3>1, <3>2 DEF Callers
  <2>5. \A q \in Procs : q = p \/ q \in Procs \ {p} OBVIOUS
  <2>6. "held" \notin InRw BY DEF InRw
  <2>7. QED BY <2>1, <2>4, <2>5, <2>6 DEF Callers
<1>8. CarriedOut'
  <2>1. PICK h \in Heads : Heads' = Heads \ {h} /\ \A k \in Heads \ {h} : info'[k] = info[k]
    BY ReleaseKeeps
  <2>2. UNCHANGED <<Waits, inflight>> BY ReleaseKeeps DEF rw_return, Finish, deviceVars
  <2>3. QED BY <1>1, <2>1, <2>2 DEF CarriedOut, OnDisk
<1>9. QED BY <1>3, <1>5, <1>6, <1>7, <1>8

-----------------------------------------------------------------------------
(* The device reads or writes the buffer of the process that waits for it.    *)
LEMMA AnswerFacts ==
  ASSUME CacheInv, DriverInv, DataInv, NEW h \in Descs, DeviceFinish(h)
  PROVE  \E b \in Bufs, n \in Blocks :
           /\ info[h] = b /\ blockno[b] = n /\ lock[b] # None
           /\ \A c \in Bufs \ {b} : blockno[c] # n
           /\ \/ valid[b] /\ disk' = [disk EXCEPT ![n] = data[b]] /\ data' = data
              \/ ~valid[b] /\ data' = [data EXCEPT ![b] = disk[n]] /\ disk' = disk
           /\ inflight' = inflight \ {h}
           /\ UNCHANGED <<at, buf, write, blockno, info>>
<1>1. h \in Heads BY AnswerKeeps
<1>2. PICK q \in Working :
        buf[q] = info[h] /\ req[h] = RequestOf(write[q], blockno[buf[q]], buf[q])
  BY <1>1 DEF DriverInv, Requests
<1>3. PICK b \in Bufs : b = buf[q] /\ lock[b] = q BY WorkingFacts
<1>4. PICK n \in Blocks : n = blockno[b]
  BY <1>3, BufsFacts DEF CacheInv, CacheTypes, Referring, Working
<1>5. write[q] <=> valid[b] BY <1>3 DEF DataInv, Callers, Working, InRw
<1>6. req[h] = [write |-> write[q], sector |-> n, addr |-> b] BY <1>2, <1>3, <1>4 DEF RequestOf
<1>7. /\ IF write[q] THEN disk' = [disk EXCEPT ![n] = data[b]] /\ data' = data
         ELSE data' = [data EXCEPT ![b] = disk[n]] /\ disk' = disk
      /\ inflight' = inflight \ {h}
      /\ UNCHANGED <<at, buf, write, blockno, info>>
  BY <1>6 DEF DeviceFinish, callVars
<1>8. \A c \in Bufs \ {b} : blockno[c] # n
  BY <1>4, DiskAssumption DEF CacheInv, OneBuffer
<1>9. lock[b] # None BY <1>3, DiskAssumption DEF Working
<1>10. QED BY <1>2, <1>3, <1>4, <1>5, <1>7, <1>8, <1>9

LEMMA AnswerData ==
  ASSUME CacheInv, DriverInv, DataInv, NEW h \in Descs, DeviceFinish(h), UNCHANGED cacheVars
  PROVE  DataInv'
<1> USE DEF DataInv, cacheVars
<1>1. PICK b \in Bufs, n \in Blocks :
        /\ info[h] = b /\ blockno[b] = n /\ lock[b] # None
        /\ \A c \in Bufs \ {b} : blockno[c] # n
        /\ \/ valid[b] /\ disk' = [disk EXCEPT ![n] = data[b]] /\ data' = data
           \/ ~valid[b] /\ data' = [data EXCEPT ![b] = disk[n]] /\ disk' = disk
        /\ inflight' = inflight \ {h}
        /\ UNCHANGED <<at, buf, write, blockno, info>>
  BY AnswerFacts
<1>2. data[b] \in Data \/ ~valid[b] BY DEF Filled
<1>3. DataTypes' BY <1>1, <1>2 DEF DataTypes
<1>4. \A c \in Bufs : valid[c] => data'[c] = data[c] BY <1>1 DEF DataTypes
<1>5. Filled' BY <1>1, <1>4 DEF Filled
<1>6. \A c \in Bufs \ {b} : /\ data'[c] = data[c]
                            /\ blockno[c] \in Blocks => disk'[blockno[c]] = disk[blockno[c]]
  BY <1>1 DEF DataTypes
<1>7. Clean' BY <1>1, <1>6 DEF Filled, Clean, OnDisk
<1>8. Callers' BY <1>1 DEF Callers
<1>9. CarriedOut'
  <2>1. Heads' = Heads /\ Waits' = Waits /\ h \in Heads BY AnswerKeeps
  <2>2. OnDisk(b)' BY <1>1 DEF OnDisk, DataTypes
  <2>3. \A k \in Heads \ {h} : info[k] \in Bufs \ {b} /\ blockno[info[k]] \in Blocks
    <3>1. \A q \in Working : buf[q] \in Bufs /\ blockno[buf[q]] \in Blocks
      BY WorkingFacts, BufsFacts DEF CacheInv, CacheTypes, Referring, Working
    <3>2. QED BY <1>1, <2>1, <3>1 DEF DriverInv, Requests
  <2>4. \A k \in Heads \ {h} : OnDisk(info[k]) => OnDisk(info[k])'
    BY <1>1, <1>6, <2>3 DEF OnDisk
  <2>5. QED BY <1>1, <2>1, <2>2, <2>4 DEF CarriedOut, OnDisk
<1>10. QED BY <1>3, <1>5, <1>7, <1>8, <1>9

LEMMA DevicesSettled ==
  ASSUME CacheInv, DriverInv, DataInv, UNCHANGED cacheVars, IntrStart \/ IntrLoop \/ DeviceTake
  PROVE  /\ Settled /\ DataInv' /\ UNCHANGED <<buf, want>>
         /\ \A q \in Procs : /\ at'[q] \in InRw <=> at[q] \in InRw
                             /\ at'[q] = "held" <=> at[q] = "held"
<1> USE DEF DataInv, CacheInv, CacheTypes, cacheVars, callVars, ringVars
<1>1. Settled /\ UNCHANGED <<buf, write, want, lru, lock, pinned>>
  BY DEF IntrStart, IntrLoop, DeviceTake, Settled
<1>2. \A q \in Procs : /\ at'[q] \in InRw <=> at[q] \in InRw
                       /\ at'[q] = "held" <=> at[q] = "held"
  BY DEF IntrStart, IntrLoop, DeviceTake, InRw
<1>3. Callers' BY <1>1, <1>2 DEF Callers, Settled
<1>4. DataTypes' BY <1>1 DEF DataTypes, Settled
<1>5. Heads' = Heads /\ (Waits \cup inflight)' = Waits \cup inflight /\ info' = info
  <2>1. CASE IntrStart BY <2>1 DEF IntrStart, Heads, Waits
  <2>2. CASE IntrLoop BY <2>2, ReapKeeps DEF IntrLoop
  <2>3. CASE DeviceTake BY <2>3, TakeKeeps DEF DeviceTake
  <2>4. QED BY <2>1, <2>2, <2>3
<1>6. CarriedOut' BY <1>1, <1>5 DEF CarriedOut, OnDisk, Settled
<1>7. QED BY <1>1, <1>2, <1>3, <1>4, <1>6, SettledKeeps

LEMMA DataInvInductive == CacheInv /\ DriverInv /\ DataInv /\ [Next]_vars => DataInv'
<1> SUFFICES ASSUME CacheInv, DriverInv, DataInv, [Next]_vars PROVE DataInv' OBVIOUS
<1>1. CASE UNCHANGED vars
  <2>1. UNCHANGED <<Heads, Waits>> BY <1>1 DEF vars, diskVars, driverVars, deviceVars, Heads, Waits
  <2>2. QED
    BY <1>1, <2>1 DEF vars, callVars, diskVars, driverVars, deviceVars, cacheVars, DataInv, DataTypes,
                      Callers, Filled, Clean, CarriedOut, OnDisk
<1>2. CASE Devices BY <1>2, DevicesSettled, AnswerData DEF Devices, Machine
<1>3. ASSUME NEW p \in Procs, Step(p) \/ Caller(p) PROVE DataInv'
  BY <1>3, RwData, ReturnData, OutsideData DEF Step, Outside
<1>4. QED BY <1>1, <1>2, <1>3 DEF Next

LEMMA DataInvInit == Init => DataInv
<1> SUFFICES ASSUME Init PROVE DataInv OBVIOUS
<1> USE DEF Init, DiskInit
<1>1. Heads = {} BY DEF Heads
<1>2. {lru[i] : i \in Bufs} = Bufs
  <2>1. \A i \in Bufs : NBUF + 1 - i \in Bufs /\ lru[i] = NBUF + 1 - i BY DiskAssumption DEF Bufs
  <2>2. \A i \in Bufs : NBUF + 1 - (NBUF + 1 - i) = i BY DiskAssumption DEF Bufs
  <2>3. \A i \in Bufs : lru[NBUF + 1 - i] = i BY <2>1, <2>2
  <2>4. \A i \in Bufs : \E j \in Bufs : lru[j] = i BY <2>1, <2>3
  <2>5. \A i \in Bufs : lru[i] \in Bufs BY <2>1
  <2> HIDE DEF Init
  <2>6. QED BY <2>4, <2>5
<1>3. DataTypes BY <1>2 DEF DataTypes
<1>4. Callers BY DEF Callers, InRw
<1>5. Filled /\ Clean BY DEF Filled, Clean
<1>6. CarriedOut BY <1>1 DEF CarriedOut
<1>7. QED BY <1>3, <1>4, <1>5, <1>6 DEF DataInv

DiskInv == CacheInv /\ DriverInv /\ DataInv

LEMMA DiskInvInit == Init => DiskInv
BY CacheInvInit, DriverInvInit, DataInvInit DEF DiskInv

LEMMA DiskInvInductive == DiskInv /\ [Next]_vars => DiskInv'
BY CacheInvInductive, DriverInvInductive, DataInvInductive DEF DiskInv

LEMMA DiskInvAlways == Spec => []DiskInv
BY DiskInvInit, DiskInvInductive, PTL DEF Spec

(* A block is in one buffer, and while the device may read or write a buffer  *)
(* it is that of the process that sleeps for it with its lock: nobody else    *)
(* touches the data under way (bio.c:7, virtio_disk.c:279).                   *)
THEOREM ExclusiveAlways == Spec => []Exclusive
<1>1. DiskInv => Exclusive
  <2> SUFFICES ASSUME DiskInv PROVE Exclusive OBVIOUS
  <2> USE DEF DiskInv
  <2>1. TypeOK BY DEF TypeOK, CacheInv, CacheTypes, States, DataInv, DataTypes
  <2>2. OneBuffer BY DEF CacheInv
  <2>3. DeviceAlone
    <3> SUFFICES ASSUME NEW h \in inflight
                 PROVE  /\ req[h] # None /\ owned[req[h].addr]
                        /\ \E p \in Procs : /\ lock[req[h].addr] = p /\ buf[p] = req[h].addr
                                            /\ at[p] \in {"io_sleep", "io"}
      BY DEF DeviceAlone
    <3>1. h \in Heads /\ owned[info[h]] BY DEF DriverInv, Places, Pending
    <3>2. PICK q \in Working :
            buf[q] = info[h] /\ req[h] = RequestOf(write[q], blockno[buf[q]], buf[q])
      BY <3>1 DEF DriverInv, Requests
    <3>3. req[h].addr = buf[q] BY <3>2 DEF RequestOf
    <3>4. req[h] # None
      <4>1. write[q] \in BOOLEAN /\ blockno[buf[q]] \in Blocks /\ buf[q] \in Bufs
        BY WorkingFacts, BufsFacts DEF CacheInv, CacheTypes, Referring, Working, DataInv, DataTypes
      <4>2. req[h] \in [write : BOOLEAN, sector : Blocks, addr : 1 .. NBUF]
        BY <3>2, <4>1 DEF RequestOf, Bufs
      <4>3. QED BY <4>2, DiskAssumption
    <3>5. QED BY <3>1, <3>2, <3>3, <3>4, WorkingFacts DEF Working
  <2>4. QED BY <2>1, <2>2, <2>3 DEF Exclusive
<1>2. QED BY <1>1, DiskInvAlways, PTL

-----------------------------------------------------------------------------
(* The refinement of BlockStore.                                              *)
Holding(p) == at[p] = "held" \/ (at[p] \in InRw /\ valid[buf[p]])
storeVars  == <<Content, Holds>>

LEMMA HoldsFacts ==
  /\ \A p \in Procs : Holds[p] = IF Holding(p) THEN want[p] ELSE None
  /\ \A p \in Procs : Holds'[p] = IF Holding(p)' THEN want'[p] ELSE None
  /\ Holds = [p \in Procs |-> Holds[p]] /\ Holds' = [p \in Procs |-> Holds'[p]]
BY DEF Holds, Holding

LEMMA ContentFacts ==
  ASSUME CacheInv, CacheInv'
  PROVE  /\ Content = [n \in Blocks |-> Content[n]] /\ Content' = [n \in Blocks |-> Content'[n]]
         /\ \A n \in Blocks : \A b \in Bufs : blockno[b] = n /\ valid[b] => Content[n] = data[b]
         /\ \A n \in Blocks : (\A b \in Bufs : blockno[b] = n => ~valid[b]) => Content[n] = disk[n]
         /\ \A n \in Blocks : \A b \in Bufs : blockno'[b] = n /\ valid'[b] => Content'[n] = data'[b]
         /\ \A n \in Blocks : (\A b \in Bufs : blockno'[b] = n => ~valid'[b]) => Content'[n] = disk'[n]
<1>1. ASSUME NEW n \in Blocks, NEW b \in Bufs, blockno[b] = n, valid[b] PROVE Content[n] = data[b]
  <2>1. \A c \in Cached(n) : c = b
    BY <1>1, DiskAssumption DEF CacheInv, OneBuffer, Cached
  <2>2. b \in Cached(n) /\ valid[b] BY <1>1 DEF Cached
  <2>3. (CHOOSE c \in Cached(n) : valid[c]) = b BY <2>1, <2>2
  <2>4. QED BY <2>2, <2>3 DEF Content
<1>2. ASSUME NEW n \in Blocks, \A b \in Bufs : blockno[b] = n => ~valid[b]
      PROVE  Content[n] = disk[n]
  BY <1>2 DEF Content, Cached
<1>3. ASSUME NEW n \in Blocks, NEW b \in Bufs, blockno'[b] = n, valid'[b]
      PROVE  Content'[n] = data'[b]
  <2>1. \A c \in Cached(n)' : c = b
    BY <1>3, DiskAssumption DEF CacheInv, OneBuffer, Cached
  <2>2. b \in Cached(n)' /\ valid'[b] BY <1>3 DEF Cached
  <2>3. (CHOOSE c \in Cached(n)' : valid'[c]) = b BY <2>1, <2>2
  <2>4. QED BY <2>2, <2>3 DEF Content
<1>4. ASSUME NEW n \in Blocks, \A b \in Bufs : blockno'[b] = n => ~valid'[b]
      PROVE  Content'[n] = disk'[n]
  BY <1>4 DEF Content, Cached
<1>5. Content = [n \in Blocks |-> Content[n]] /\ Content' = [n \in Blocks |-> Content'[n]]
  BY DEF Content
<1>6. QED BY <1>1, <1>2, <1>3, <1>4, <1>5

LEMMA SettledContent == ASSUME Settled PROVE Content' = Content
BY DEF Settled, Content, Cached

(* While nobody else has the lock of its buffer, nobody else holds the block. *)
LEMMA HoldsAlone ==
  ASSUME DiskInv, NEW p \in Procs, at[p] \notin Away, lock[buf[p]] \in {p, None}
  PROVE  /\ buf[p] \in Bufs /\ want[p] \in Blocks /\ want[p] # None /\ blockno[buf[p]] = want[p]
         /\ \A q \in Procs \ {p} : Holds[q] # want[p]
<1>1. buf[p] \in Bufs /\ want[p] \in Blocks /\ want[p] # None /\ blockno[buf[p]] = want[p]
  BY DEF DiskInv, CacheInv, CacheTypes, Referring
<1>2. ASSUME NEW q \in Procs \ {p}, Holds[q] = want[p] PROVE FALSE
  <2>1. Holding(q) /\ want[q] = want[p] BY <1>1, <1>2, HoldsFacts
  <2>2. at[q] \in Locked BY <2>1 DEF Holding, Locked
  <2>3. buf[q] \in Bufs /\ blockno[buf[q]] = want[q]
    BY <2>2 DEF DiskInv, CacheInv, CacheTypes, Referring, Away, Locked, InRw
  <2>4. buf[p] = buf[q] BY <1>1, <2>1, <2>3 DEF DiskInv, CacheInv, OneBuffer
  <2>5. lock[buf[q]] = q BY <2>2 DEF DiskInv, CacheInv, Locking
  <2>6. QED BY <2>4, <2>5, DiskAssumption
<1>3. QED BY <1>1, <1>2

(* The three steps of the store, and the steps it does not see.               *)
LEMMA StutterSim ==
  ASSUME Content' = Content,
         \A q \in Procs : /\ Holding(q)' <=> Holding(q)
                          /\ Holding(q) => want'[q] = want[q]
  PROVE  UNCHANGED storeVars
<1>1. \A q \in Procs : Holds'[q] = Holds[q] BY HoldsFacts
<1>2. Holds' = Holds BY <1>1, HoldsFacts
<1>3. QED BY <1>2 DEF storeVars

LEMMA TakeSim ==
  ASSUME Content' = Content, NEW p \in Procs, ~Holding(p), Holding(p)', want' = want,
         want[p] \in Blocks, \A q \in Procs \ {p} : Holds[q] # want[p],
         \A q \in Procs \ {p} : Holding(q)' <=> Holding(q)
  PROVE  Store!Next
<1>1. Holds[p] = None /\ Holds'[p] = want[p] /\ \A q \in Procs \ {p} : Holds'[q] = Holds[q]
  BY HoldsFacts
<1>2. \A q \in Procs : Holds[q] # want[p] BY <1>1, DiskAssumption
<1>3. Holds' = [Holds EXCEPT ![p] = want[p]] BY <1>1, HoldsFacts
<1>4. Store!Take(p, want[p]) BY <1>1, <1>2, <1>3 DEF Store!Take
<1>5. QED BY <1>4 DEF Store!Next

LEMMA CachedSim ==
  ASSUME DiskInv, Settled, NEW p \in Procs, NEW n \in Blocks, bget_cached(p, n) \/ bget_panic(p, n)
  PROVE  UNCHANGED storeVars
<1>1. /\ at[p] = "out" /\ at'[p] \in {"lock", "panic"}
      /\ \A q \in Procs \ {p} : at'[q] = at[q] /\ buf'[q] = buf[q] /\ want'[q] = want[q]
  BY DEF bget_cached, bget_panic, Use, Goto, cacheVars, DiskInv, CacheInv, CacheTypes
<1>2. \A q \in Procs : /\ Holding(q)' <=> Holding(q)
                       /\ Holding(q) => want'[q] = want[q]
  BY <1>1 DEF Holding, InRw, Settled
<1>3. QED BY <1>2, SettledContent, StutterSim

LEMMA RecycleSim ==
  ASSUME DiskInv, DiskInv', NEW p \in Procs, NEW n \in Blocks, bget_recycle(p, n)
  PROVE  UNCHANGED storeVars
<1> USE DEF DiskInv
<1>1. PICK b \in Bufs :
        /\ at[p] = "out" /\ at' = [at EXCEPT ![p] = "lock"] /\ buf' = [buf EXCEPT ![p] = b]
        /\ want' = [want EXCEPT ![p] = n]
        /\ blockno' = [blockno EXCEPT ![b] = n] /\ valid' = [valid EXCEPT ![b] = FALSE]
        /\ UNCHANGED <<data, disk>>
        /\ lock[b] = None /\ b \notin pinned /\ \A q \in Procs : buf[q] # b
        /\ \A c \in Bufs : blockno[c] # n
  BY RecycleFacts
<1>2. /\ at'[p] = "lock"
      /\ \A q \in Procs \ {p} : at'[q] = at[q] /\ buf'[q] = buf[q] /\ want'[q] = want[q]
      /\ \A c \in Bufs : /\ blockno'[c] = IF c = b THEN n ELSE blockno[c]
                         /\ valid'[c] <=> valid[c] /\ c # b
  BY <1>1 DEF CacheInv, CacheTypes, DataInv, DataTypes
<1>3. \A q \in Procs : at[q] \in InRw => buf[q] \in Bufs
  BY DEF CacheInv, CacheTypes, Referring, Away, InRw
<1>4. \A q \in Procs : /\ Holding(q)' <=> Holding(q)
                       /\ Holding(q) => want'[q] = want[q]
  <2>1. ~Holding(p) /\ ~Holding(p)' BY <1>1, <1>2 DEF Holding, InRw
  <2>2. ASSUME NEW q \in Procs \ {p}
        PROVE  (Holding(q)' <=> Holding(q)) /\ want'[q] = want[q]
    <3>1. at[q] \in InRw => (valid'[buf[q]] <=> valid[buf[q]]) BY <1>1, <1>2, <1>3
    <3>2. QED BY <1>2, <3>1 DEF Holding, InRw
  <2>3. QED BY <2>1, <2>2
<1>5. ASSUME NEW m \in Blocks PROVE Content'[m] = Content[m]
  <2>1. CASE \E c \in Bufs : c # b /\ blockno[c] = m /\ valid[c]
    <3>1. PICK c \in Bufs : c # b /\ blockno[c] = m /\ valid[c] BY <2>1
    <3>2. blockno'[c] = m /\ valid'[c] BY <1>2, <3>1
    <3>3. Content[m] = data[c] /\ Content'[m] = data'[c] BY <3>1, <3>2, ContentFacts
    <3>4. QED BY <1>1, <3>3
  <2>2. CASE \A c \in Bufs \ {b} : blockno[c] = m => ~valid[c]
    <3>1. \A c \in Bufs : blockno'[c] = m => ~valid'[c] BY <1>2, <2>2
    <3>2. Content'[m] = disk[m] BY <1>1, <3>1, ContentFacts
    <3>3. CASE blockno[b] = m /\ valid[b]
      <4>1. Content[m] = data[b] BY <3>3, ContentFacts
      <4>2. data[b] = disk[m] BY <1>1, <3>3 DEF DataInv, Clean, OnDisk
      <4>3. QED BY <3>2, <4>1, <4>2
    <3>4. CASE ~(blockno[b] = m /\ valid[b])
      <4>1. \A c \in Bufs : blockno[c] = m => ~valid[c] BY <2>2, <3>4
      <4>2. Content[m] = disk[m] BY <4>1, ContentFacts
      <4>3. QED BY <3>2, <4>2
    <3>5. QED BY <3>3, <3>4
  <2>3. QED BY <2>1, <2>2
<1>6. Content' = Content BY <1>5, ContentFacts
<1>7. QED BY <1>4, <1>6, StutterSim

LEMMA AcquireSim ==
  ASSUME DiskInv, Settled, NEW p \in Procs, acquiresleep(p)
  PROVE  [Store!Next]_storeVars
<1> DEFINE b == buf[p]
<1>1. /\ at[p] = "lock" /\ UNCHANGED <<buf, want, valid>>
      /\ \/ at' = [at EXCEPT ![p] = "lock_sleep"]
         \/ lock[b] = None /\ at' = [at EXCEPT ![p] = IF valid[b] THEN "held" ELSE "rw"]
  BY DEF acquiresleep, Goto, MustRead
<1>2. at \in [Procs -> States] BY DEF DiskInv, CacheInv, CacheTypes
<1>3. ~Holding(p) BY <1>1 DEF Holding, InRw
<1>4. \A q \in Procs \ {p} : Holding(q)' <=> Holding(q) BY <1>1, <1>2 DEF Holding
<1>5. CASE at' = [at EXCEPT ![p] = "lock_sleep"] \/ ~valid[b]
  <2>1. at'[p] = "lock_sleep" \/ (at'[p] = "rw" /\ ~valid[b]) BY <1>1, <1>2, <1>5
  <2>2. ~Holding(p)' BY <1>1, <2>1 DEF Holding, InRw
  <2>3. UNCHANGED storeVars BY <1>1, <1>3, <1>4, <2>2, SettledContent, StutterSim
  <2>4. QED BY <2>3
<1>6. CASE lock[b] = None /\ at' = [at EXCEPT ![p] = "held"]
  <2>1. Holding(p)' BY <1>2, <1>6 DEF Holding
  <2>2. want[p] \in Blocks /\ \A q \in Procs \ {p} : Holds[q] # want[p]
    BY <1>1, <1>6, HoldsAlone DEF Away
  <2>3. QED BY <1>1, <1>3, <1>4, <2>1, <2>2, SettledContent, TakeSim
<1>7. QED BY <1>1, <1>5, <1>6

LEMMA QuietSim ==
  ASSUME DiskInv, Settled, NEW p \in Procs,
         brelse(p) \/ bwrite(p) \/ bpin(p) \/ bunpin(p) \/ Kill(p)
  PROVE  UNCHANGED storeVars
<1> USE DEF DiskInv, CacheInv, CacheTypes, callVars, cacheVars
<1>1. at[p] = "held" => valid[buf[p]] BY DEF DataInv, Callers
<1>2. \A q \in Procs : /\ Holding(q)' <=> Holding(q)
                       /\ Holding(q) => want'[q] = want[q]
  <2>1. CASE brelse(p)
    <3>1. /\ at[p] = "brelse" /\ at'[p] = "out" /\ valid' = valid
          /\ \A q \in Procs \ {p} : at'[q] = at[q] /\ buf'[q] = buf[q] /\ want'[q] = want[q]
      BY <2>1 DEF brelse
    <3>2. QED BY <3>1 DEF Holding, InRw
  <2>2. CASE bwrite(p)
    <3>1. /\ at[p] = "held" /\ at'[p] = "rw" /\ UNCHANGED <<buf, want, valid>>
          /\ \A q \in Procs \ {p} : at'[q] = at[q]
      BY <2>2 DEF bwrite, Goto
    <3>2. QED BY <1>1, <3>1 DEF Holding, InRw
  <2>3. CASE bpin(p) \/ bunpin(p)
    BY <2>3 DEF bpin, bunpin, Holding
  <2>4. CASE Kill(p)
    <3>1. /\ UNCHANGED <<buf, want, valid>> /\ \A q \in Procs \ {p} : at'[q] = at[q]
          /\ \/ at[p] = "lock_sleep" /\ at'[p] = "lock"
             \/ at[p] = "desc_sleep" /\ at'[p] = "rw"
             \/ at[p] = "io_sleep" /\ at'[p] = "io"
      BY <2>4 DEF Kill, Goto
    <3>2. QED BY <3>1 DEF Holding, InRw
  <2>5. QED BY <2>1, <2>2, <2>3, <2>4
<1>3. QED BY <1>2, SettledContent, StutterSim

LEMMA ReleaseSim ==
  ASSUME DiskInv, Settled, NEW p \in Procs, releasesleep(p)
  PROVE  Store!Next
<1>1. /\ at[p] = "held" /\ UNCHANGED <<buf, want, valid>>
      /\ \A q \in Procs : at'[q] = IF q = p THEN "brelse"
           ELSE IF at[q] = "lock_sleep" /\ buf[q] = buf[p] THEN "lock" ELSE at[q]
  BY DEF releasesleep, Unlocked
<1>2. Holding(p) /\ ~Holding(p)' /\ \A q \in Procs \ {p} : Holding(q)' <=> Holding(q)
  BY <1>1 DEF Holding, InRw
<1>3. want[p] # None BY <1>1 DEF DiskInv, CacheInv, Referring, Away
<1>4. Holds[p] # None /\ Holds'[p] = None /\ \A q \in Procs \ {p} : Holds'[q] = Holds[q]
  BY <1>1, <1>2, <1>3, HoldsFacts
<1>5. Holds' = [Holds EXCEPT ![p] = None] BY <1>4, HoldsFacts
<1>6. Store!Drop(p) BY <1>4, <1>5, SettledContent DEF Store!Drop
<1>7. QED BY <1>6 DEF Store!Next

LEMMA ModifySim ==
  ASSUME DiskInv, DiskInv', NEW p \in Procs, NEW d \in Data, Modify(p, d)
  PROVE  Store!Next
<1> USE DEF DiskInv
<1>1. PICK b \in Bufs : b = buf[p] /\ lock[b] = p
  BY DEF Modify, CacheInv, CacheTypes, Referring, Locking, Away, Locked
<1>2. /\ at[p] = "held" /\ data' = [data EXCEPT ![b] = d]
      /\ UNCHANGED <<blockno, disk, valid, at, buf, want>>
  BY <1>1 DEF Modify, callVars, cacheVars, deviceVars
<1>3. PICK m \in Blocks : m = want[p] /\ blockno[b] = m
  BY <1>1, <1>2, HoldsAlone DEF Away
<1>4. valid[b] BY <1>1, <1>2 DEF DataInv, Callers
<1>5. \A c \in Bufs : data'[c] = IF c = b THEN d ELSE data[c] BY <1>2 DEF DataInv, DataTypes
<1>6. Content'[m] = d BY <1>2, <1>3, <1>4, <1>5, ContentFacts
<1>7. ASSUME NEW n \in Blocks \ {m} PROVE Content'[n] = Content[n]
  <2>1. CASE \E c \in Bufs : blockno[c] = n /\ valid[c]
    <3>1. PICK c \in Bufs : blockno[c] = n /\ valid[c] BY <2>1
    <3>2. Content[n] = data[c] /\ Content'[n] = data'[c] BY <1>2, <3>1, ContentFacts
    <3>3. QED BY <1>3, <1>5, <3>1, <3>2
  <2>2. CASE \A c \in Bufs : blockno[c] = n => ~valid[c]
    <3>1. Content[n] = disk[n] /\ Content'[n] = disk'[n] BY <1>2, <2>2, ContentFacts
    <3>2. QED BY <1>2, <3>1
  <2>3. QED BY <2>1, <2>2
<1>8. Holds[p] = m /\ Holds' = Holds
  <2>1. Holding(p) BY <1>2 DEF Holding
  <2>2. Holds[p] = m BY <1>3, <2>1, HoldsFacts
  <2>3. \A q \in Procs : Holding(q)' <=> Holding(q) BY <1>2 DEF Holding
  <2>4. \A q \in Procs : Holds'[q] = Holds[q] BY <1>2, <2>3, HoldsFacts
  <2>5. QED BY <2>2, <2>4, HoldsFacts
<1>9. Content' = [Content EXCEPT ![m] = d] BY <1>6, <1>7, ContentFacts
<1>10. m # None BY DiskAssumption
<1>11. Store!Put(p, d) BY <1>8, <1>9, <1>10 DEF Store!Put
<1>12. QED BY <1>11 DEF Store!Next

LEMMA OutsideSim ==
  ASSUME DiskInv, DiskInv', NEW p \in Procs, Outside(p) PROVE [Store!Next]_storeVars
<1>1. ASSUME \/ \E n \in Blocks : bget_cached(p, n) \/ bget_panic(p, n)
             \/ acquiresleep(p) \/ brelse(p) \/ bwrite(p) \/ bpin(p) \/ bunpin(p)
             \/ releasesleep(p) \/ Kill(p)
      PROVE  [Store!Next]_storeVars
  <2>1. Settled BY <1>1, CacheSettled DEF DiskInv
  <2>2. QED BY <1>1, <2>1, CachedSim, AcquireSim, QuietSim, ReleaseSim
<1>2. QED BY <1>1, RecycleSim, ModifySim DEF Outside, Caller

LEMMA RwSim ==
  ASSUME DiskInv, NEW p \in Procs, Rw(p) \/ (rw_return(p) /\ ~Done(buf[p]))
  PROVE  UNCHANGED storeVars
<1>1. Settled BY RwData DEF DiskInv
<1>2. UNCHANGED <<buf, want>> BY DEF Rw, Submit, NoDescs, rw_return, Finish, cacheVars
<1>3. \A q \in Procs : /\ at'[q] \in InRw <=> at[q] \in InRw
                       /\ at'[q] = "held" <=> at[q] = "held"
  BY DEF Rw, Submit, NoDescs, Goto, Woken, rw_return, Finish, Done, InRw, DiskInv, CacheInv, CacheTypes
<1>4. \A q \in Procs : Holding(q)' <=> Holding(q) BY <1>1, <1>2, <1>3 DEF Holding, Settled
<1>5. QED BY <1>1, <1>2, <1>4, SettledContent, StutterSim

LEMMA ReturnSim ==
  ASSUME DiskInv, DiskInv', NEW p \in Procs, rw_return(p), Done(buf[p])
  PROVE  [Store!Next]_storeVars
<1> USE DEF DiskInv
<1>1. PICK b \in Bufs : b = buf[p] BY ReturnFacts
<1>2. /\ lock[b] = p /\ at[p] = "io" /\ OnDisk(b)
      /\ valid' = [valid EXCEPT ![b] = TRUE]
      /\ at' = [Woken("desc_sleep", "rw") EXCEPT ![p] = "held"]
      /\ UNCHANGED <<data, disk, blockno, buf, lock, want>>
  BY <1>1, ReturnFacts
<1>3. PICK m \in Blocks : /\ m = want[p] /\ blockno[b] = m
                          /\ \A q \in Procs \ {p} : Holds[q] # m
  BY <1>1, <1>2, HoldsAlone DEF Away
<1>4. \A c \in Bufs : valid'[c] <=> valid[c] \/ c = b BY <1>2 DEF DataInv, DataTypes
<1>5. ASSUME NEW n \in Blocks PROVE Content'[n] = Content[n]
  <2>1. CASE \E c \in Bufs : blockno[c] = n /\ valid[c]
    <3>1. PICK c \in Bufs : blockno[c] = n /\ valid[c] BY <2>1
    <3>2. blockno'[c] = n /\ valid'[c] BY <1>2, <1>4, <3>1
    <3>3. Content[n] = data[c] /\ Content'[n] = data'[c] BY <3>1, <3>2, ContentFacts
    <3>4. QED BY <1>2, <3>3
  <2>2. CASE (\A c \in Bufs : blockno[c] = n => ~valid[c]) /\ n = m
    <3>1. Content[n] = disk[n] BY <2>2, ContentFacts
    <3>2. blockno'[b] = n /\ valid'[b] BY <1>2, <1>3, <1>4, <2>2
    <3>3. Content'[n] = data'[b] BY <3>2, ContentFacts
    <3>4. QED BY <1>2, <1>3, <2>2, <3>1, <3>3 DEF OnDisk
  <2>3. CASE (\A c \in Bufs : blockno[c] = n => ~valid[c]) /\ n # m
    <3>1. \A c \in Bufs : blockno'[c] = n => ~valid'[c] BY <1>2, <1>3, <1>4, <2>3
    <3>2. Content[n] = disk[n] /\ Content'[n] = disk'[n] BY <2>3, <3>1, ContentFacts
    <3>3. QED BY <1>2, <3>2
  <2>4. QED BY <2>1, <2>2, <2>3
<1>6. Content' = Content BY <1>5, ContentFacts
<1>7. ASSUME NEW q \in Procs \ {p} PROVE Holding(q)' <=> Holding(q)
  <2>1. /\ at'[q] \in InRw <=> at[q] \in InRw
        /\ at'[q] = "held" <=> at[q] = "held"
    BY <1>2 DEF Woken, InRw
  <2>2. at[q] \in InRw => buf[q] \in Bufs /\ buf[q] # b
    BY <1>1, <1>2, OwnBuffer DEF InRw
  <2>3. QED BY <1>2, <1>4, <2>1, <2>2 DEF Holding
<1>8. Holding(p)' BY <1>2 DEF Holding, Woken
<1>9. CASE Holding(p)
  <2>1. \A q \in Procs : Holding(q)' <=> Holding(q) BY <1>7, <1>8, <1>9
  <2>2. UNCHANGED storeVars BY <1>2, <1>6, <2>1, StutterSim
  <2>3. QED BY <2>2
<1>10. CASE ~Holding(p)
  <2>1. Store!Next BY <1>2, <1>3, <1>6, <1>7, <1>8, <1>10, TakeSim
  <2>2. QED BY <2>1
<1>11. QED BY <1>9, <1>10

LEMMA AnswerSim ==
  ASSUME DiskInv, DiskInv', NEW h \in Descs, DeviceFinish(h), UNCHANGED cacheVars
  PROVE  UNCHANGED storeVars
<1> USE DEF DiskInv, cacheVars
<1>1. PICK b \in Bufs, m \in Blocks :
        /\ blockno[b] = m /\ \A c \in Bufs \ {b} : blockno[c] # m
        /\ \/ valid[b] /\ disk' = [disk EXCEPT ![m] = data[b]] /\ data' = data
           \/ ~valid[b] /\ data' = [data EXCEPT ![b] = disk[m]] /\ disk' = disk
        /\ UNCHANGED <<at, buf, blockno>>
  BY AnswerFacts
<1>2. \A c \in Bufs : valid[c] => data'[c] = data[c] BY <1>1 DEF DataInv, DataTypes
<1>3. ASSUME NEW n \in Blocks PROVE Content'[n] = Content[n]
  <2>1. CASE \E c \in Bufs : blockno[c] = n /\ valid[c]
    <3>1. PICK c \in Bufs : blockno[c] = n /\ valid[c] BY <2>1
    <3>2. Content[n] = data[c] /\ Content'[n] = data'[c] BY <1>1, <3>1, ContentFacts
    <3>3. QED BY <1>2, <3>1, <3>2
  <2>2. CASE \A c \in Bufs : blockno[c] = n => ~valid[c]
    <3>1. Content[n] = disk[n] /\ Content'[n] = disk'[n] BY <1>1, <2>2, ContentFacts
    <3>2. disk'[n] = disk[n] BY <1>1, <2>2 DEF DataInv, DataTypes
    <3>3. QED BY <3>1, <3>2
  <2>3. QED BY <2>1, <2>2
<1>4. Content' = Content BY <1>3, ContentFacts
<1>5. \A q \in Procs : Holding(q)' <=> Holding(q) BY <1>1 DEF Holding
<1>6. QED BY <1>4, <1>5, StutterSim

LEMMA DevicesSim == ASSUME DiskInv, DiskInv', Devices PROVE UNCHANGED storeVars
<1>1. ASSUME IntrStart \/ IntrLoop \/ DeviceTake, UNCHANGED cacheVars PROVE UNCHANGED storeVars
  <2>1. /\ Settled /\ UNCHANGED <<buf, want>>
        /\ \A q \in Procs : /\ at'[q] \in InRw <=> at[q] \in InRw
                            /\ at'[q] = "held" <=> at[q] = "held"
    BY <1>1, DevicesSettled DEF DiskInv
  <2>2. \A q \in Procs : Holding(q)' <=> Holding(q) BY <2>1 DEF Holding, Settled
  <2>3. QED BY <2>1, <2>2, SettledContent, StutterSim
<1>2. QED BY <1>1, AnswerSim DEF Devices, Machine

LEMMA StoreStep ==
  ASSUME DiskInv, DiskInv', [Next]_vars PROVE [Store!Next]_storeVars
<1>1. CASE UNCHANGED vars
  <2>1. Settled /\ UNCHANGED <<at, buf, want>>
    BY <1>1 DEF vars, callVars, diskVars, deviceVars, cacheVars, Settled
  <2>2. \A q \in Procs : Holding(q)' <=> Holding(q) BY <2>1 DEF Holding, Settled
  <2>3. UNCHANGED storeVars BY <2>1, <2>2, SettledContent, StutterSim
  <2>4. QED BY <2>3
<1>2. CASE Devices BY <1>2, DevicesSim
<1>3. ASSUME NEW p \in Procs, Step(p) \/ Caller(p) PROVE [Store!Next]_storeVars
  BY <1>3, RwSim, ReturnSim, OutsideSim DEF Step, Outside
<1>4. QED BY <1>1, <1>2, <1>3 DEF Next

LEMMA StoreInit == Init => Store!Init
<1> SUFFICES ASSUME Init PROVE Store!Init OBVIOUS
<1>1. Content = disk /\ disk \in [Blocks -> Data] BY DEF Init, Content, Cached
<1>2. Holds = [p \in Procs |-> None] BY DEF Init, Holds, InRw
<1>3. QED BY <1>1, <1>2 DEF Store!Init

(* The buffer cache and the driver implement BlockStore: between bread() and  *)
(* brelse() one process holds a block, and finds in it what the last holder   *)
(* left, whatever was recycled, read, written, pinned, completed out of order *)
(* or woken by kill() in between (bio.c:7, virtio_disk.c:215).                *)
THEOREM BlocksImplemented == Spec => Implements
<1>1. Init => DiskInv /\ Store!Init BY DiskInvInit, StoreInit
<1>2. DiskInv /\ [Next]_vars => DiskInv' /\ [Store!Next]_storeVars BY DiskInvInductive, StoreStep
<1>3. Spec => Store!Init /\ [][Store!Next]_storeVars BY <1>1, <1>2, PTL DEF Spec
<1>4. QED BY <1>3 DEF Implements, Store!Spec, Store!vars, storeVars
=============================================================================
