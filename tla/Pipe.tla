-------------------------------- MODULE Pipe --------------------------------
(***************************************************************************)
(* Pipes (kernel/pipe.c): pipewrite(), piperead() and pipeclose() on the   *)
(* pages that hold a struct pipe.  A call holds pi->lock except in         *)
(* sleep(), but kill() needs no lock of the pipe: the look at p->killed,   *)
(* the sleep() and every byte of pipewrite() are steps of their own.       *)
(* Files says who calls.                                                   *)
(***************************************************************************)
EXTENDS Integers, Sequences, FiniteSets

CONSTANTS Procs, None,
          Pages,     \* what kalloc() has left
          PIPESIZE,
          UintMod,   \* nread and nwrite are uint: 2^32
          Sizes,     \* bound: the n of a read and of a write, a record of two sets
          Victims,   \* bound: processes that may be killed
          MaxKilled  \* bound: processes on their way out because of a kill()

ASSUME PipeAssumption ==
  /\ IsFiniteSet(Procs) /\ None \notin Procs \cup Pages
  /\ PIPESIZE \in Nat \ {0} /\ UintMod \in Nat /\ PIPESIZE < UintMod /\ UintMod % PIPESIZE = 0
  /\ Sizes \in [{"read", "write"} -> SUBSET Nat]

VARIABLES at,                  \* where each process is
          killed,
          pi, left,            \* the pipe of its call, and the bytes to go
          got,                 \* what its read() has returned; <<-1>> at the end of the file
          unsaid,              \* it has written bytes and has not called wakeup()
          inuse,               \* the pages kalloc() has given away
          data, nread, nwrite, readopen, writeopen,  \* struct pipe
          lock,                \* pi->lock
          cut                  \* ghost: pipes where a killed writer left bytes unsaid

pipeVars == <<inuse, data, nread, nwrite, readopen, writeopen>>
procVars == <<killed, pi, left, got, unsaid>>

Goto(p, l)  == at' = [at EXCEPT ![p] = l]
Free(x, p)  == lock[x] \in {None, p}
Succ(n)     == (n + 1) % UintMod
Unread(x)   == (nwrite[x] - nread[x]) % UintMod
Full(x)     == nwrite[x] = (nread[x] + PIPESIZE) % UintMod
Content(x)  == [i \in 1 .. Unread(x) |-> data[x][(nread[x] + i - 1) % PIPESIZE]]

PipeInit ==
  /\ killed = [p \in Procs |-> FALSE] /\ pi = [p \in Procs |-> None]
  /\ left = [p \in Procs |-> 0] /\ got = [p \in Procs |-> <<>>]
  /\ unsaid = [p \in Procs |-> FALSE]
  /\ inuse = {} /\ data = [x \in Pages |-> [i \in 0 .. PIPESIZE - 1 |-> None]]
  /\ nread = [x \in Pages |-> 0] /\ nwrite = [x \in Pages |-> 0]
  /\ readopen = [x \in Pages |-> FALSE] /\ writeopen = [x \in Pages |-> FALSE]
  /\ lock = [x \in Pages |-> None] /\ cut = {}

(* wakeup(&pi->nread) and wakeup(&pi->nwrite), when p itself goes to l.       *)
Wake(x, from, to, p, l) ==
  [q \in Procs |-> IF q = p THEN l ELSE IF at[q] = from /\ pi[q] = x THEN to ELSE at[q]]
WakeReaders(x, p, l) == at' = Wake(x, "rsleep", "read", p, l)
WakeWriters(x, p, l) == at' = Wake(x, "wsleep", "write", p, l)

(* pi->lock is released, and in the second case p returns.                    *)
Release(x)   == lock' = [lock EXCEPT ![x] = None]
Leave(p)     == pi' = [pi EXCEPT ![p] = None] /\ left' = [left EXCEPT ![p] = 0]
Said(p)      == unsaid' = [unsaid EXCEPT ![p] = FALSE]

-----------------------------------------------------------------------------
(* The head of the loop of pipewrite(): all done, no reader, or killed.       *)
WriteCheck(p) ==
  LET x == pi[p]  gone == ~readopen[x] \/ killed[p] IN
  /\ at[p] = "write" /\ Free(x, p)
  /\ \/ /\ left[p] = 0
        /\ WakeReaders(x, p, "user") /\ Release(x) /\ Leave(p) /\ Said(p) /\ cut' = cut \ {x}
     \/ /\ left[p] > 0 /\ gone
        /\ Goto(p, "user") /\ Release(x) /\ Leave(p) /\ Said(p)
        /\ cut' = IF unsaid[p] THEN cut \cup {x} ELSE cut
     \/ /\ left[p] > 0 /\ ~gone
        /\ Goto(p, "put") /\ lock' = [lock EXCEPT ![x] = p]
        /\ UNCHANGED <<pi, left, unsaid, cut>>
  /\ UNCHANGED <<pipeVars, killed, got>>

(* Mutant: it sleeps without wakeup(&pi->nread).                              *)
WriteSleepSilent(p) ==
  /\ at[p] = "put" /\ Full(pi[p])
  /\ Goto(p, "wsleep") /\ Release(pi[p]) /\ Said(p) /\ UNCHANGED cut
  /\ UNCHANGED <<pipeVars, killed, pi, left, got>>

WriteSleep(p) ==
  /\ at[p] = "put" /\ Full(pi[p])
  /\ WakeReaders(pi[p], p, "wsleep") /\ Release(pi[p]) /\ Said(p) /\ cut' = cut \ {pi[p]}
  /\ UNCHANGED <<pipeVars, killed, pi, left, got>>

(* A byte is told from others by its number.                                  *)
WriteByte(p) ==
  LET x == pi[p] IN
  /\ at[p] = "put" /\ ~Full(x)
  /\ data' = [data EXCEPT ![x][nwrite[x] % PIPESIZE] = nwrite[x]]
  /\ nwrite' = [nwrite EXCEPT ![x] = Succ(@)]
  /\ left' = [left EXCEPT ![p] = @ - 1]
  /\ unsaid' = [unsaid EXCEPT ![p] = TRUE]
  /\ Goto(p, "write")
  /\ UNCHANGED <<inuse, nread, readopen, writeopen, killed, pi, got, lock, cut>>

(* copyin() fails: the loop ends as if all were done.                         *)
WriteFault(p) ==
  /\ at[p] = "put" /\ ~Full(pi[p])
  /\ Goto(p, "write") /\ left' = [left EXCEPT ![p] = 0]
  /\ UNCHANGED <<pipeVars, killed, pi, got, unsaid, lock, cut>>

(* Mutant: after one sleep() it goes on, whatever it finds.                   *)
ReadyAlways(x) == TRUE

Ready(x) == Unread(x) > 0 \/ ~writeopen[x]

(* piperead(): nothing to read, and perhaps killed.                           *)
ReadCheck(p) ==
  LET x == pi[p] IN
  /\ at[p] = "read" /\ Free(x, p) /\ ~Ready(x)
  /\ \/ killed[p] /\ Goto(p, "user") /\ Leave(p) /\ UNCHANGED lock
     \/ ~killed[p] /\ Goto(p, "doze") /\ lock' = [lock EXCEPT ![x] = p] /\ UNCHANGED <<pi, left>>
  /\ UNCHANGED <<pipeVars, killed, got, unsaid, cut>>

ReadSleep(p) ==
  /\ at[p] = "doze"
  /\ Goto(p, "rsleep") /\ Release(pi[p])
  /\ UNCHANGED <<pipeVars, procVars, cut>>

(* The copying loop: k bytes reach the user; when copyout() fails the next    *)
(* byte is consumed and lost.                                                 *)
ReadBytes(p, k, fault) ==
  LET x == pi[p]  gone == k + (IF fault THEN 1 ELSE 0) IN
  /\ at[p] = "read" /\ Free(x, p) /\ Ready(x)
  /\ gone <= Unread(x) /\ gone <= left[p]
  /\ fault \/ k = left[p] \/ k = Unread(x)
  /\ got' = [got EXCEPT ![p] = IF Unread(x) = 0 THEN <<-1>> ELSE SubSeq(Content(x), 1, k)]
  /\ nread' = [nread EXCEPT ![x] = (@ + gone) % UintMod]
  /\ WakeWriters(x, p, "user") /\ Leave(p)
  /\ UNCHANGED <<inuse, data, nwrite, readopen, writeopen, killed, unsaid, lock, cut>>

(* pipeclose(): kfree() of the page, which spoils it, when both ends are      *)
(* closed.                                                                    *)
InUse(r, w) == r \/ w
pipeclose(p, x, writable, l) ==
  LET r == readopen[x] /\ writable  w == writeopen[x] /\ ~writable IN
  /\ Free(x, p)
  /\ readopen' = [readopen EXCEPT ![x] = r] /\ writeopen' = [writeopen EXCEPT ![x] = w]
  /\ IF writable THEN WakeReaders(x, p, l) ELSE WakeWriters(x, p, l)
  /\ IF InUse(r, w) THEN UNCHANGED <<inuse, data, nread, nwrite>>
     ELSE /\ inuse' = inuse \ {x} /\ data' = [data EXCEPT ![x] = [i \in DOMAIN @ |-> None]]
          /\ nread' = [nread EXCEPT ![x] = 0] /\ nwrite' = [nwrite EXCEPT ![x] = 0]
  /\ cut' = IF writable THEN cut \ {x} ELSE cut
  /\ UNCHANGED <<lock, procVars>>

(* What pipealloc() does with the page it gets from kalloc().                 *)
pipeinit(x) ==
  /\ inuse' = inuse \cup {x}
  /\ nread' = [nread EXCEPT ![x] = 0] /\ nwrite' = [nwrite EXCEPT ![x] = 0]
  /\ readopen' = [readopen EXCEPT ![x] = TRUE] /\ writeopen' = [writeopen EXCEPT ![x] = TRUE]
  /\ UNCHANGED data

(* kill() of a process in a call here.  Bound: elsewhere all a kill() brings  *)
(* about is exit(), which a process may call anyway.                          *)
InCall(p) == at[p] \in {"read", "doze", "rsleep", "write", "put", "wsleep"}
Kill(p) ==
  /\ p \in Victims /\ ~killed[p] /\ InCall(p)
  /\ Cardinality({q \in Procs : killed[q]}) < MaxKilled
  /\ killed' = [killed EXCEPT ![p] = TRUE]
  /\ Goto(p, CASE at[p] = "rsleep" -> "read" [] at[p] = "wsleep" -> "write" [] OTHER -> at[p])
  /\ UNCHANGED <<pipeVars, pi, left, got, unsaid, lock, cut>>

Call(p) ==
  \/ WriteCheck(p) \/ WriteSleep(p) \/ WriteByte(p) \/ WriteFault(p)
  \/ ReadCheck(p) \/ ReadSleep(p)
  \/ \E k \in 0 .. left[p], fault \in BOOLEAN : ReadBytes(p, k, fault)

-----------------------------------------------------------------------------
(* Nobody sleeps in a pipe without a reason, however many sleep at either     *)
(* end and whatever is closed meanwhile.  Two exceptions are the code's: the  *)
(* writer that still has the lock will call wakeup(); and a writer that is    *)
(* killed between two bytes returns without, leaving readers asleep beside    *)
(* the bytes until the next write or close.                                   *)
SleepersJustified == \A p \in Procs :
  /\ at[p] = "rsleep" => /\ writeopen[pi[p]]
                         /\ Unread(pi[p]) = 0 \/ lock[pi[p]] # None \/ pi[p] \in cut
  /\ at[p] = "wsleep" => readopen[pi[p]] /\ Full(pi[p])
=============================================================================
