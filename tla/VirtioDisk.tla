----------------------------- MODULE VirtioDisk -----------------------------
(***************************************************************************)
(* The driver of the virtio disk (kernel/virtio_disk.c) and the device:    *)
(* virtio_disk_rw() in any number of processes, virtio_disk_intr(), and    *)
(* the two rings in between, addressed by indices that wrap.               *)
(*                                                                         *)
(* A critical section of vdisk_lock is a step, except that the device goes *)
(* on while the interrupt handler has the lock.  The caller (BufferCache)  *)
(* EXTENDS the module and says when virtio_disk_rw() is called.            *)
(***************************************************************************)
EXTENDS Integers, Sequences, FiniteSets

CONSTANTS Procs,
          Blocks, Data,  \* the blocks of the disk and their contents
          NBUF,          \* struct bufs
          NUM,           \* descriptors, and slots of each ring
          IdxMod,        \* the indices are uint16: 2^16
          None

ASSUME DiskAssumption ==
  /\ NBUF \in Nat \ {0} /\ NUM \in Nat /\ NUM >= 3
  /\ IdxMod \in Nat \ {0} /\ IdxMod % NUM = 0
  /\ IsFiniteSet(Procs) /\ None \notin Procs \cup Blocks \cup Data \cup Int
  \* None is no request either
  /\ None \notin [write : BOOLEAN, sector : Blocks, addr : 1 .. NBUF]

Bufs  == 1 .. NBUF
Descs == 0 .. NUM - 1
NoNext == -1   \* a descriptor without VRING_DESC_F_NEXT

VARIABLES at,                     \* where each process is
          buf, write,             \* the arguments of its virtio_disk_rw()
          blockno, data, owned,   \* of struct buf; owned is b->disk
          free, next,             \* disk.free[], disk.desc[].next
          req,                    \* what the device finds at a chain: ops[] and the data descriptor
          info,                   \* disk.info[].b
          avail, avail_idx,       \* the avail ring; None in slots the device has read
          used, used_idx, seen,   \* the used ring, used->idx, disk.used_idx
          irq, handler,          \* an interrupt is pending; virtio_disk_intr() has the lock
          taken, inflight,        \* in the device: how far it has read, what it works on
          disk                    \* the contents of the blocks

callVars   == <<at, buf, write>>
ringVars   == <<avail, avail_idx, used, used_idx, seen>>
driverVars == <<owned, free, next, req, info, avail, avail_idx, seen, handler>>
deviceVars == <<used, used_idx, irq, taken, inflight, disk>>
diskVars   == <<driverVars, deviceVars, data>>

DiskInit ==
  /\ owned = [b \in Bufs |-> FALSE]
  /\ free = Descs /\ next = [i \in Descs |-> NoNext]
  /\ req = [i \in Descs |-> None] /\ info = [i \in Descs |-> None]
  /\ avail = [i \in Descs |-> None] /\ used = [i \in Descs |-> None]
  /\ avail_idx = 0 /\ used_idx = 0 /\ seen = 0 /\ taken = 0
  /\ irq = FALSE /\ handler = "idle" /\ inflight = {}

Inc(idx)  == (idx + 1) % IdxMod
Slot(idx) == idx % NUM

Goto(p, l)    == at' = [at EXCEPT ![p] = l]
Woken(from, to) == [q \in Procs |-> IF at[q] = from THEN to ELSE at[q]]

-----------------------------------------------------------------------------
(* alloc3_desc(): three descriptors, each the first one free.                *)
First(S) == CHOOSE i \in S : \A j \in S : i <= j
Alloc3 == LET i == First(free)  j == First(free \ {i})
          IN <<i, j, First(free \ {i, j})>>

(* virtio_disk_rw() up to its sleep().                                       *)
Submit(p) ==
  LET idx == Alloc3  h == idx[1] IN
  /\ at[p] = "rw" /\ handler = "idle" /\ Cardinality(free) >= 3
  /\ free'  = free \ {idx[i] : i \in 1 .. 3}
  /\ next'  = [next EXCEPT ![h] = idx[2], ![idx[2]] = idx[3], ![idx[3]] = NoNext]
  /\ req'   = [req EXCEPT ![h] = [write |-> write[p], sector |-> blockno[buf[p]], addr |-> buf[p]]]
  /\ info'  = [info EXCEPT ![h] = buf[p]]
  /\ owned' = [owned EXCEPT ![buf[p]] = TRUE]
  /\ avail' = [avail EXCEPT ![Slot(avail_idx)] = h]
  /\ avail_idx' = Inc(avail_idx)
  /\ Goto(p, "io_sleep")
  /\ UNCHANGED <<buf, write, seen, handler, data, blockno>> /\ UNCHANGED deviceVars

(* alloc3_desc() fails and gives back what it got: free_desc() wakes the      *)
(* others before p goes to sleep itself.                                      *)
NoDescs(p) ==
  /\ at[p] = "rw" /\ handler = "idle" /\ Cardinality(free) < 3
  /\ at' = [IF free = {} THEN at ELSE Woken("desc_sleep", "rw") EXCEPT ![p] = "desc_sleep"]
  /\ UNCHANGED <<buf, write, blockno>> /\ UNCHANGED diskVars

(* free_chain(): follows the next fields, wakes who waits for descriptors.    *)
Chain(h) == {h, next[h], next[next[h]]}

free_chain(h) == Chain(h)

Done(b) == ~owned[b]

(* The loop around sleep(b, ...): done, or woken by kill() only.              *)
Finish(p, to) ==
  LET b == buf[p] IN
  /\ at[p] = "io" /\ handler = "idle"
  /\ \/ /\ ~Done(b)
        /\ Goto(p, "io_sleep")
        /\ UNCHANGED <<free, next, info, req, write>>
     \/ /\ Done(b)
        /\ \E h \in Descs :
             /\ info[h] = b
             /\ info' = [info EXCEPT ![h] = None] /\ req' = [req EXCEPT ![h] = None]
             /\ free' = free \cup free_chain(h)
             /\ next' = [i \in Descs |-> IF i \in Chain(h) THEN NoNext ELSE next[i]]
        /\ write' = [write EXCEPT ![p] = FALSE]
        /\ at' = [Woken("desc_sleep", "rw") EXCEPT ![p] = to]
  /\ UNCHANGED <<buf, blockno, data, owned, avail, avail_idx, seen, handler>>
  /\ UNCHANGED deviceVars

-----------------------------------------------------------------------------
(* virtio_disk_intr(): acknowledge, then every entry the device has added,    *)
(* those it adds meanwhile included.                                          *)
IntrStart ==
  /\ irq /\ handler = "idle"
  /\ irq' = FALSE /\ handler' = "loop"
  /\ UNCHANGED <<owned, free, next, req, info, blockno, data, disk, taken, inflight>>
  /\ UNCHANGED ringVars /\ UNCHANGED callVars

(* The entries of a ring from one index up to another.                        *)
Window(ring, from, to) == {ring[Slot(i)] : i \in {j \in 0 .. IdxMod - 1 :
                             (j - from) % IdxMod < (to - from) % IdxMod}}

(* Mutant: an interrupt, one entry.                                            *)
ReapedOne == Inc(seen)

Reaped == used_idx
IntrLoop ==
  LET done == {info[h] : h \in Window(used, seen, Reaped)} IN
  /\ handler = "loop"
  /\ owned' = [b \in Bufs |-> owned[b] /\ b \notin done]
  /\ at' = [q \in Procs |-> IF at[q] = "io_sleep" /\ buf[q] \in done THEN "io" ELSE at[q]]
  /\ seen' = Reaped
  /\ used' = [i \in Descs |-> None]
  /\ handler' = "idle"
  /\ UNCHANGED <<buf, write, blockno, data, free, next, req, info, avail, avail_idx,
                 used_idx, irq, taken, inflight, disk>>

(* The device takes requests in order and finishes them in any order.         *)
DeviceTake ==
  /\ taken # avail_idx
  /\ inflight' = inflight \cup {avail[Slot(taken)]}
  /\ avail' = [avail EXCEPT ![Slot(taken)] = None]
  /\ taken' = Inc(taken)
  /\ UNCHANGED <<owned, free, next, req, info, avail_idx, seen, handler, blockno, data,
                 used, used_idx, irq, disk>> /\ UNCHANGED callVars

DeviceFinish(h) ==
  LET r == req[h] IN
  /\ h \in inflight
  /\ IF r.write THEN disk' = [disk EXCEPT ![r.sector] = data[r.addr]] /\ data' = data
     ELSE data' = [data EXCEPT ![r.addr] = disk[r.sector]] /\ disk' = disk
  /\ inflight' = inflight \ {h}
  /\ used' = [used EXCEPT ![Slot(used_idx)] = h]
  /\ used_idx' = Inc(used_idx)
  /\ irq' = TRUE
  /\ UNCHANGED <<owned, free, next, req, info, avail, avail_idx, seen, handler, blockno, taken>>
  /\ UNCHANGED callVars

Machine ==
  \/ IntrStart \/ IntrLoop
  \/ DeviceTake \/ \E h \in Descs : DeviceFinish(h)

-----------------------------------------------------------------------------
(* The driver without the buffer cache: each process has a buffer of its own, *)
(* so that more requests than there are chains compete for descriptors.       *)
AloneInit ==
  /\ DiskInit
  /\ at = [p \in Procs |-> "out"] /\ write = [p \in Procs |-> FALSE]
  /\ buf = CHOOSE own \in [Procs -> Bufs] : \A p, q \in Procs : own[p] = own[q] => p = q
  /\ blockno = [b \in Bufs |-> CHOOSE n \in Blocks : TRUE]
  /\ data = [b \in Bufs |-> CHOOSE d \in Data : TRUE]
  /\ disk = [b \in Blocks |-> CHOOSE d \in Data : TRUE]

CallAlone(p) == /\ at[p] = "out" /\ Goto(p, "rw")
                /\ UNCHANGED <<buf, write, blockno, diskVars>>
Spurious(p)  == /\ at[p] = "io_sleep" /\ Goto(p, "io")  \* kill()
                /\ UNCHANGED <<buf, write, blockno, diskVars>>
AloneNext == \/ Machine
             \/ \E p \in Procs : \/ CallAlone(p) \/ Spurious(p)
                                 \/ Submit(p) \/ NoDescs(p) \/ Finish(p, "out")

-----------------------------------------------------------------------------
InRw == {"rw", "desc_sleep", "io_sleep", "io"}

DiskTypeOK ==
  /\ owned \in [Bufs -> BOOLEAN]
  /\ free \subseteq Descs /\ next \in [Descs -> Descs \cup {NoNext}]
  /\ info \in [Descs -> Bufs \cup {None}]
  /\ {avail, used} \subseteq [Descs -> Descs \cup {None}]
  /\ {avail_idx, used_idx, seen, taken} \subseteq 0 .. IdxMod - 1
  /\ inflight \subseteq Descs

(* Every descriptor is free or part of the chain of a request in progress,    *)
(* and no two requests share one: none leaks and none is freed twice.         *)
Heads == {h \in Descs : info[h] # None}
DescsAccounted ==
  /\ Descs \ free = UNION {Chain(h) : h \in Heads}
  /\ \A h, k \in Heads : h # k => Chain(h) \cap Chain(k) = {}
  /\ Cardinality(Heads) = Cardinality({p \in Procs : at[p] \in {"io_sleep", "io"}})

(* A request the driver waits for is in one place: in the avail ring, with    *)
(* the device, or in the used ring, announced by an interrupt that is pending *)
(* or being handled.  Completions in any order, several for one interrupt,    *)
(* and interrupts that find nothing lose and repeat none.                     *)
RequestsInPlace ==
  LET pending == {h \in Heads : owned[info[h]]}
      places  == <<Window(avail, taken, avail_idx), inflight, Window(used, seen, used_idx)>>
  IN /\ pending = UNION {places[i] : i \in 1 .. 3}
     /\ \A i, j \in 1 .. 3 : i # j => places[i] \cap places[j] = {}
     /\ seen # used_idx => irq \/ handler = "loop"

(* PROPERTY: the rings and the descriptors are right, in any order of         *)
(* completions (virtio_disk_rw() and virtio_disk_intr(), virtio_disk.c:215).  *)
DriverRight == DiskTypeOK /\ DescsAccounted /\ RequestsInPlace

(* PROPERTY: nobody sleeps for descriptors while there are three free ones    *)
(* (alloc3_desc() and the wakeup() of free_desc()).                           *)
DescriptorsFreed == \A p \in Procs : at[p] = "desc_sleep" => Cardinality(free) < 3
=============================================================================
