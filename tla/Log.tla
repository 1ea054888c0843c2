-------------------------------- MODULE Log --------------------------------
(***************************************************************************)
(* The logging layer of the file system (kernel/log.c): file system calls  *)
(* bracketed by begin_op() and end_op(), log_write() in between, the       *)
(* commit of all the calls of a group by the last of them, and recovery    *)
(* after a crash, which may strike between any two writes of blocks.       *)
(*                                                                         *)
(* The critical sections of log.lock are single steps, and so is the time  *)
(* a buffer is held (between bread() and brelse(), kernel/bio.c).  A block *)
(* is written atomically: the used part of the header lies in one sector.  *)
(***************************************************************************)
EXTENDS Integers, Sequences, FiniteSets

CONSTANTS Procs,
          First,        \* the process whose forkret() runs recovery
          Blocks, Data, \* home blocks of the file system, and their contents
          MAXOPBLOCKS,  \* blocks begin_op() reserves for a call
          LOGSIZE,      \* length of log.lh.block[]
          NLog,         \* log.size: the blocks of the log, its header included
          OpBlocks,     \* blocks a call really writes at most
          NotCached     \* no buffer holds the block

ASSUME LogAssumption ==
  /\ First \in Procs /\ NotCached \notin Data
  /\ {MAXOPBLOCKS, LOGSIZE, NLog} \subseteq Nat \ {0}
  /\ OpBlocks \in 0 .. MAXOPBLOCKS
  /\ IsFiniteSet(Procs)

VARIABLES home,         \* the home blocks on disk
          logb,         \* the data blocks of the log on disk
          head,         \* the header on disk: the numbers of the committed blocks
          cache,        \* the contents of the buffers
          pin,          \* the references bpin() holds on a buffer
          lh,           \* log.lh
          outstanding, committing,
          at,           \* where each process is
          tail,         \* its variable of that name
          written       \* the blocks the call in progress has passed to log_write()

diskVars == <<home, logb, head>>
vars     == <<home, logb, head, cache, pin, lh, outstanding, committing, at, tail, written>>

LogData == 1 .. NLog - 1

(* Every boot starts from nothing but the disk.                             *)
NoBuffers == [b \in Blocks |-> NotCached]
Unpinned  == [b \in Blocks |-> 0]
Booting   == [p \in Procs |-> IF p = First THEN "boot" ELSE "unborn"]

Init ==
  /\ home \in [Blocks -> Data] /\ logb \in [LogData -> Data] /\ head = << >>
  /\ cache = NoBuffers /\ pin = Unpinned
  /\ lh = << >> /\ outstanding = 0 /\ committing = FALSE
  /\ at = Booting /\ tail = [p \in Procs |-> 0] /\ written = [p \in Procs |-> {}]

Goto(p, l) == at' = [at EXCEPT ![p] = l]

Logged(s) == {s[i] : i \in DOMAIN s}

Contents(b) == IF cache[b] = NotCached THEN home[b] ELSE cache[b]

(* wakeup(&log): the sleepers go back to the loop of begin_op().            *)
Woken == [q \in Procs |-> IF at[q] = "asleep" THEN "begin" ELSE at[q]]

-----------------------------------------------------------------------------
(* Buffers: any process may read a block, and bget() recycles any buffer      *)
(* that is referred to by nobody.                                             *)
Read(p, b) ==
  /\ at[p] \in {"user", "in"}
  /\ cache' = [cache EXCEPT ![b] = Contents(b)]
  /\ UNCHANGED <<pin, lh, outstanding, committing, at, tail, written>>
  /\ UNCHANGED diskVars

Recycle(b) ==
  /\ pin[b] = 0
  /\ cache' = [cache EXCEPT ![b] = NotCached]
  /\ UNCHANGED <<pin, lh, outstanding, committing, at, tail, written>>
  /\ UNCHANGED diskVars

-----------------------------------------------------------------------------
Start(p) ==
  /\ at[p] = "user"
  /\ Goto(p, "begin")
  /\ UNCHANGED <<cache, pin, lh, outstanding, committing, tail, written>>
  /\ UNCHANGED diskVars

(* Mutants: a commit in progress is not waited for; the space of the caller   *)
(* itself is not counted.                                                     *)
begin_op_eager(p) ==
  /\ at[p] = "begin"
  /\ IF Len(lh) + (outstanding + 1) * MAXOPBLOCKS > LOGSIZE
     THEN Goto(p, "asleep") /\ outstanding' = outstanding
     ELSE Goto(p, "in") /\ outstanding' = outstanding + 1
  /\ UNCHANGED <<cache, pin, lh, committing, tail, written>> /\ UNCHANGED diskVars

begin_op_short(p) ==
  /\ at[p] = "begin"
  /\ IF committing \/ Len(lh) + outstanding * MAXOPBLOCKS > LOGSIZE
     THEN Goto(p, "asleep") /\ outstanding' = outstanding
     ELSE Goto(p, "in") /\ outstanding' = outstanding + 1
  /\ UNCHANGED <<cache, pin, lh, committing, tail, written>> /\ UNCHANGED diskVars

begin_op(p) ==
  /\ at[p] = "begin"
  /\ IF committing \/ Len(lh) + (outstanding + 1) * MAXOPBLOCKS > LOGSIZE
     THEN Goto(p, "asleep") /\ outstanding' = outstanding
     ELSE Goto(p, "in") /\ outstanding' = outstanding + 1
  /\ UNCHANGED <<cache, pin, lh, committing, tail, written>> /\ UNCHANGED diskVars

(* The caller has put d into its buffer of block b.  A block that is in the   *)
(* log already is absorbed, although the test for room comes first: a panic   *)
(* leaves the buffer locked, and nobody sees what is in it.                   *)
log_write(p, b, d) ==
  /\ at[p] = "in" /\ Cardinality(written[p] \cup {b}) <= OpBlocks
  /\ IF Len(lh) >= LOGSIZE \/ Len(lh) >= NLog - 1 \/ outstanding < 1
     THEN Goto(p, "panic") /\ UNCHANGED <<cache, lh, pin, written>>
     ELSE /\ cache' = [cache EXCEPT ![b] = d]
          /\ written' = [written EXCEPT ![p] = @ \cup {b}]
          /\ at' = at
          /\ IF b \in Logged(lh) THEN UNCHANGED <<lh, pin>>
             ELSE lh' = Append(lh, b) /\ pin' = [pin EXCEPT ![b] = @ + 1]
  /\ UNCHANGED <<outstanding, committing, tail>> /\ UNCHANGED diskVars

(* The last call in progress commits for all; the others only make room.      *)
end_op(p) ==
  /\ at[p] = "in"
  /\ outstanding' = outstanding - 1
  /\ tail' = [tail EXCEPT ![p] = 0]
  /\ \/ committing /\ Goto(p, "panic") /\ committing' = committing
     \/ /\ ~committing /\ outstanding = 1
        /\ committing' = TRUE
        /\ Goto(p, IF lh = << >> THEN "committed" ELSE "write_log")
     \/ /\ ~committing /\ outstanding # 1
        /\ at' = [Woken EXCEPT ![p] = "user"]
        /\ committing' = committing
  /\ written' = [written EXCEPT ![p] = {}]
  /\ UNCHANGED <<cache, pin, lh>> /\ UNCHANGED diskVars

-----------------------------------------------------------------------------
(* commit(), one write to the disk at a time.                                 *)
write_log(p) ==
  LET i == tail[p] + 1 IN
  /\ at[p] = "write_log"
  /\ logb' = [logb EXCEPT ![i] = Contents(lh[i])]
  /\ cache' = [cache EXCEPT ![lh[i]] = Contents(lh[i])]
  /\ tail' = [tail EXCEPT ![p] = i]
  /\ Goto(p, IF i < Len(lh) THEN "write_log" ELSE "write_head")
  /\ UNCHANGED <<home, head, pin, lh, outstanding, committing, written>>

(* The true point at which the current transaction commits.                   *)
write_head(p) ==
  /\ at[p] = "write_head"
  /\ head' = lh
  /\ tail' = [tail EXCEPT ![p] = 0]
  /\ Goto(p, "install")
  /\ UNCHANGED <<home, logb, cache, pin, lh, outstanding, committing, written>>

(* install_trans(): bunpin() undoes the bpin() of log_write(), so recovery,   *)
(* which starts from an empty cache, leaves it out.                           *)
install_trans(p) ==
  LET i == tail[p] + 1  b == lh[i] IN
  /\ at[p] \in {"install", "recover"}
  /\ home' = [home EXCEPT ![b] = logb[i]]
  /\ cache' = [cache EXCEPT ![b] = logb[i]]
  /\ pin' = IF at[p] = "install" THEN [pin EXCEPT ![b] = @ - 1] ELSE pin
  /\ tail' = [tail EXCEPT ![p] = i]
  /\ Goto(p, IF i < Len(lh) THEN at[p] ELSE IF at[p] = "install" THEN "clear" ELSE "cleanup")
  /\ UNCHANGED <<logb, head, lh, outstanding, committing, written>>

(* Mutant: the transaction is erased from log.lh only.                        *)
clear_memory(p) ==
  /\ at[p] = "clear"
  /\ lh' = << >>
  /\ Goto(p, "committed")
  /\ UNCHANGED <<cache, pin, outstanding, committing, tail, written>> /\ UNCHANGED diskVars

(* The second write_head() of commit(), with n = 0.                           *)
clear(p) ==
  /\ at[p] = "clear"
  /\ lh' = << >> /\ head' = << >>
  /\ Goto(p, "committed")
  /\ UNCHANGED <<home, logb, cache, pin, outstanding, committing, tail, written>>

(* Mutant: no wakeup() after the commit.                                      *)
committed_silent(p) ==
  /\ at[p] = "committed"
  /\ committing' = FALSE
  /\ Goto(p, "user")
  /\ UNCHANGED <<cache, pin, lh, outstanding, tail, written>> /\ UNCHANGED diskVars

committed(p) ==
  /\ at[p] = "committed"
  /\ committing' = FALSE
  /\ at' = [Woken EXCEPT ![p] = "user"]
  /\ UNCHANGED <<cache, pin, lh, outstanding, tail, written>> /\ UNCHANGED diskVars

-----------------------------------------------------------------------------
(* initlog(), in the first process to run; the others are born after it.      *)
read_head ==
  /\ at[First] = "boot"
  /\ lh' = head
  /\ Goto(First, IF head = << >> THEN "cleanup" ELSE "recover")
  /\ UNCHANGED <<cache, pin, outstanding, committing, tail, written>>
  /\ UNCHANGED diskVars

recovered ==
  /\ at[First] = "cleanup"
  /\ lh' = << >> /\ head' = << >>
  /\ at' = [p \in Procs |-> "user"]
  /\ UNCHANGED <<home, logb, cache, pin, outstanding, committing, tail, written>>

(* The power fails: memory is lost.                                           *)
Crash ==
  /\ cache' = NoBuffers /\ pin' = Unpinned
  /\ lh' = << >> /\ outstanding' = 0 /\ committing' = FALSE
  /\ at' = Booting /\ tail' = [p \in Procs |-> 0] /\ written' = [p \in Procs |-> {}]
  /\ UNCHANGED diskVars

Commit(p) == write_log(p) \/ write_head(p) \/ install_trans(p) \/ clear(p) \/ committed(p)

Next ==
  \/ \E p \in Procs : Start(p) \/ begin_op(p) \/ end_op(p) \/ Commit(p)
  \/ \E p \in Procs, b \in Blocks : Read(p, b) \/ \E d \in Data : log_write(p, b, d)
  \/ \E b \in Blocks : Recycle(b)
  \/ read_head \/ recovered \/ Crash

Spec == Init /\ [][Next]_vars

(* A process in the kernel keeps running, and a file system call makes        *)
(* finitely many log_write()s before its end_op().                            *)
FairSpec ==
  /\ Spec
  /\ \A p \in Procs : WF_vars(begin_op(p)) /\ WF_vars(end_op(p)) /\ WF_vars(Commit(p))

-----------------------------------------------------------------------------
Places == {"boot", "recover", "cleanup", "unborn", "user", "begin", "asleep", "in",
           "write_log", "write_head", "install", "clear", "committed", "panic"}

TypeOK ==
  /\ home \in [Blocks -> Data] /\ logb \in [LogData -> Data]
  /\ head \in Seq(Blocks) /\ lh \in Seq(Blocks)
  /\ cache \in [Blocks -> Data \cup {NotCached}]
  /\ pin \in [Blocks -> {0, 1}]
  /\ outstanding \in Nat /\ committing \in BOOLEAN
  /\ at \in [Procs -> Places]
  /\ tail \in [Procs -> Nat]
  /\ written \in [Procs -> SUBSET Blocks]

(* None of the panics of log.c: the space begin_op() reserves is enough for   *)
(* every log_write() of the calls it admits, and nobody ends a call during a  *)
(* commit.                                                                    *)
NoPanic == \A p \in Procs : at[p] # "panic"

(* What recovery would make of the disk as it is now: the data l of the       *)
(* blocks the header s names goes over the home blocks h.                     *)
Replay(s, l, h) ==
  [b \in Blocks |-> IF b \in Logged(s) THEN l[CHOOSE i \in DOMAIN s : s[i] = b] ELSE h[b]]
Recovered == Replay(head, logb, home)

Running == at[First] \notin {"boot", "recover", "cleanup"}

(* When no call is in progress and no commit is, all that was written is on   *)
(* the disk, home blocks included: a crash would lose nothing.                *)
NothingToLose ==
  Running /\ outstanding = 0 /\ ~committing =>
    head = << >> /\ \A b \in Blocks : Contents(b) = home[b]

(* Every process asleep in begin_op() is woken in the end.                    *)
SleepersWoken == \A p \in Procs : at[p] = "asleep" ~> at[p] # "asleep"

(* File system calls are atomic with respect to crashes.                      *)
Inside  == {p \in Procs : at[p] = "in"}
Current == IF Running THEN [b \in Blocks |-> Contents(b)] ELSE Recovered
Disk == INSTANCE AtomicDisk WITH durable <- Recovered, current <- Current, active <- Inside
CrashAtomic == Disk!Spec

-----------------------------------------------------------------------------
(* The inductive invariant behind CrashAtomic and NothingToLose.              *)

(* Only the last call in progress commits, and nobody starts until it is      *)
(* through; recovery runs alone.                                              *)
Committing == {"write_log", "write_head", "install", "clear", "committed"}
CallsInv ==
  /\ Cardinality(Inside) <= outstanding
  /\ committing => outstanding = 0
  /\ \A p \in Procs : at[p] \in Committing =>
       committing /\ \A q \in Procs : at[q] \in Committing => q = p
  /\ \A p \in Procs : at[p] \in {"boot", "recover", "cleanup"} => p = First
  /\ ~Running => /\ ~committing
                 /\ \A p \in Procs \ {First} : at[p] = "unborn"
                 /\ \A b \in Blocks : pin[b] = 0
  /\ Running /\ lh # << >> => outstanding > 0 \/ committing

(* A log, in memory or on disk, names no block twice and has room for them.   *)
Fits(s) == Len(s) < NLog /\ \A i, j \in DOMAIN s : s[i] = s[j] => i = j

(* What the disk holds at each stage of a commit and of recovery.             *)
Stage(p) ==
  /\ at[p] \in {"install", "clear", "recover", "cleanup"} => head = lh
  /\ at[p] = "boot" => tail[p] = 0
  /\ at[p] = "committed" => lh = << >>
  /\ at[p] \in {"write_log", "install", "recover"} => tail[p] < Len(lh)
  /\ at[p] = "write_log" => \A i \in 1 .. tail[p] : logb[i] = cache[lh[i]]
  /\ at[p] = "write_head" => lh # << >> /\ \A i \in DOMAIN lh : logb[i] = cache[lh[i]]
  /\ at[p] \in {"install", "recover"} => \A i \in 1 .. tail[p] : home[lh[i]] = logb[i]
  /\ at[p] = "install" => \A i \in tail[p] + 1 .. Len(lh) : cache[lh[i]] = logb[i]
  /\ at[p] \in {"clear", "cleanup"} => \A i \in DOMAIN lh : home[lh[i]] = logb[i]
StageInv ==
  /\ Fits(lh) /\ Fits(head)
  /\ Running /\ (\A p \in Procs : at[p] \notin {"install", "clear"}) => head = << >>
  /\ \A p \in Procs : Stage(p)

(* A buffer is pinned from its log_write() to its installation, and only a    *)
(* pinned one may differ from the disk.                                       *)
Installed(i) == \E p \in Procs : at[p] = "clear" \/ (at[p] = "install" /\ i <= tail[p])
BufferInv ==
  /\ \A b \in Blocks : IF pin[b] = 0 THEN cache[b] \in {NotCached, home[b]}
                       ELSE cache[b] # NotCached
  /\ Running => \A b \in Blocks :
       pin[b] = 1 <=> \E i \in DOMAIN lh : lh[i] = b /\ ~Installed(i)

(* All of it: what commit(), recovery and the pins of log_write() and         *)
(* install_trans() keep true of memory and disk between any two steps.        *)
LogInv == TypeOK /\ CallsInv /\ StageInv /\ BufferInv
=============================================================================
