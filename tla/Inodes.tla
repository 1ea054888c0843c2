------------------------------- MODULE Inodes -------------------------------
(***************************************************************************)
(* Names and inodes: the inode table and directories (kernel/fs.c) and the *)
(* system calls that walk, make and remove names (kernel/sysfile.c), in    *)
(* any number of processes.  A step is what a process does while it holds  *)
(* inode locks, up to the next ilock() or iput(); Log makes the disk       *)
(* changes of a call atomic, here a dinode and its valid copy are one.     *)
(***************************************************************************)
EXTENDS Integers, Sequences, FiniteSets

CONSTANTS Procs,
          NINODES,   \* sb.ninodes: inodes on the disk; 1 is the root
          Names,     \* bound: names but "." and ".."
          Paths,     \* bound: paths the programs use, without the leading /
          Calls,     \* bound: the calls each process makes
          MaxLinks,  \* bound: programs link() an inode only below this nlink
          None

Kinds == {"open", "create", "mkdir", "unlink", "link", "chdir"}   \* calls modelled

ASSUME InodesAssumption ==
  /\ NINODES \in Nat \ {0} /\ IsFiniteSet(Procs) /\ IsFiniteSet(Names)
  /\ None \notin Procs \cup (1 .. NINODES)
ASSUME CallsAssumption ==
  /\ None \notin Kinds \cup {"link to"} /\ ".." \notin Names
  /\ Paths \subseteq Seq(Names \cup {".."}) \ {<<>>}   \* "/" alone is not walked
  /\ \A p \in Procs : Calls[p] \subseteq Kinds

Inums == 1 .. NINODES
Root  == 1
Entry == Inums \cup {None}

VARIABLES type, nlink,  \* struct dinode; "free" is type 0
          entries,      \* the contents of a directory
          dotdot,       \* its entry ".."
          ref, valid,   \* struct inode, by inode number
          lock,         \* who holds ip->lock
          cwd, file,    \* p->cwd, and the inode of its open file
          pc, op,       \* where a process is, in which call
          path,         \* what namex() has not walked yet
          ip, other,    \* inodes it has a reference to: of namex(), and of the call
          drop,         \* inodes it is about to iput()
          stranded      \* ghost: inodes that had a name in a directory that was freed

diskVars == <<type, nlink, entries, dotdot, stranded>>
procVars == <<cwd, file, op, path, ip, other>>
vars == <<diskVars, ref, valid, lock, procVars, pc, drop>>

NoEntries == [n \in Names |-> None]
Init ==
  /\ type = [i \in Inums |-> IF i = Root THEN "dir" ELSE "free"]
  /\ nlink = [i \in Inums |-> IF i = Root THEN 1 ELSE 0]
  /\ entries = [i \in Inums |-> NoEntries] /\ dotdot = [i \in Inums |-> IF i = Root THEN Root ELSE None]
  /\ ref = [i \in Inums |-> IF i = Root THEN Cardinality(Procs) ELSE 0]
  /\ valid = [i \in Inums |-> i = Root] /\ lock = [i \in Inums |-> None]
  /\ cwd = [p \in Procs |-> Root] /\ file = [p \in Procs |-> None]
  /\ pc = [p \in Procs |-> "user"] /\ op = [p \in Procs |-> None]
  /\ path = [p \in Procs |-> <<>>] /\ ip = [p \in Procs |-> None]
  /\ other = [p \in Procs |-> None] /\ drop = [p \in Procs |-> <<>>]
  /\ stranded = {}

-----------------------------------------------------------------------------
Set(f, p, v) == [f EXCEPT ![p] = v]
Lookup(i, n) == IF n = ".." THEN dotdot[i] ELSE entries[i][n]
Wants        == {"create", "mkdir", "unlink", "link to"}  \* calls of nameiparent()

(* iget() and idup(); an entry without references is found by nobody, the     *)
(* next iget() starts with one that is not valid.                             *)
iget(i) == [ref EXCEPT ![i] = @ + 1]

(* ilock(), when the lock is free: reads the dinode.                          *)
CanLock(i) == lock[i] = None
NoType(i)  == ~valid[i] /\ type[i] = "free"

(* The step ends with iput()s of is, then the process goes to l; the call is  *)
(* over when l is "user".                                                     *)
Then(p, is, l) == pc' = Set(pc, p, l) /\ drop' = Set(drop, p, is)
At(p, l)       == pc[p] = l /\ drop[p] = <<>>
Give(p, d, o)  == ip' = Set(ip, p, d) /\ other' = Set(other, p, o)

Over(p, is) == /\ Then(p, is, "user") /\ Give(p, None, None)
               /\ op' = Set(op, p, None) /\ path' = Set(path, p, <<>>)

(* Mutant: the inodes stay referenced.                                        *)
FailLeaks(p, is) == Over(p, <<>>)

(* What a call that fails does: sys_link() takes its nlink back.              *)
Fail(p, is) == IF op[p] = "link to"
               THEN Then(p, is, "link bad") /\ Give(p, None, other[p]) /\ UNCHANGED <<op, path>>
               ELSE Over(p, is)

-----------------------------------------------------------------------------
(* Mutants: whoever drops a reference may free; nobody does.                  *)
LastOneShared(i) == valid[i] /\ nlink[i] = 0
LastOneNever(i)  == FALSE

(* iput(): under itable.lock, and the last reference to an inode without      *)
(* links frees it.                                                            *)
LastOne(i) == ref[i] = 1 /\ valid[i] /\ nlink[i] = 0
iput(p) ==
  LET i == Head(drop[p]) IN
  /\ drop[p] # <<>> /\ lock[i] # p
  /\ IF LastOne(i) THEN CanLock(i) /\ lock' = Set(lock, i, p) /\ UNCHANGED <<ref, valid, drop>>
     ELSE /\ ref' = [ref EXCEPT ![i] = @ - 1] /\ valid' = IF ref[i] = 1 THEN Set(valid, i, FALSE) ELSE valid
          /\ drop' = Set(drop, p, Tail(drop[p])) /\ UNCHANGED lock
  /\ UNCHANGED <<diskVars, procVars, pc>>

(* itrunc() and type 0 on the disk; then the reference.  Meanwhile ialloc()   *)
(* may take the inode again.                                                  *)
Free(p) ==
  LET i == Head(drop[p]) IN
  /\ drop[p] # <<>> /\ lock[i] = p
  /\ type' = Set(type, i, "free") /\ entries' = Set(entries, i, NoEntries)
  /\ dotdot' = Set(dotdot, i, None)
  /\ stranded' = (stranded \ {i}) \cup ({entries[i][n] : n \in Names} \ {None})
  /\ valid' = Set(valid, i, FALSE) /\ lock' = Set(lock, i, None)
  /\ UNCHANGED <<nlink, ref, procVars, pc, drop>>

-----------------------------------------------------------------------------
(* A call: namex() starts at the root or at the current directory.            *)
Call(p, c, w, i) ==
  /\ At(p, "user")
  /\ c \in {"open", "create"} => file[p] = None
  /\ op' = Set(op, p, c) /\ path' = Set(path, p, w)
  /\ ref' = iget(i)
  /\ Give(p, i, None) /\ Then(p, <<>>, "walk")
  /\ UNCHANGED <<diskVars, valid, lock, cwd, file>>

(* fileclose() of the open file.                                              *)
close(p) ==
  /\ At(p, "user") /\ file[p] # None
  /\ Then(p, <<file[p]>>, "user") /\ file' = Set(file, p, None)
  /\ UNCHANGED <<diskVars, ref, valid, lock, cwd, op, path, ip, other>>

(* A turn of namex(): ilock(), dirlookup() with its iget(), iunlockput();     *)
(* nameiparent() stops before the last name.                                  *)
Stops(p) == op[p] \in Wants /\ Len(path[p]) = 1
Walk(p) ==
  LET i == ip[p]  j == Lookup(i, Head(path[p])) IN
  /\ At(p, "walk") /\ CanLock(i) /\ ~NoType(i)
  /\ valid' = Set(valid, i, TRUE)
  /\ \/ /\ type[i] # "dir" \/ (j = None /\ ~Stops(p))
        /\ Fail(p, <<i>>) /\ UNCHANGED ref
     \/ /\ type[i] = "dir" /\ Stops(p)
        /\ Then(p, <<>>, "act") /\ UNCHANGED <<ref, op, path, ip, other>>
     \/ /\ type[i] = "dir" /\ ~Stops(p) /\ j # None
        /\ ref' = iget(j)
        /\ path' = Set(path, p, Tail(path[p])) /\ op' = op
        /\ Give(p, j, other[p]) /\ Then(p, <<i>>, IF Len(path[p]) = 1 THEN "act" ELSE "walk")
  /\ UNCHANGED <<diskVars, lock, cwd, file>>

-----------------------------------------------------------------------------
(* sys_open() without O_CREATE, sys_chdir(), and the first half of sys_link() *)
(* after namei(): each has ilock()ed ip.                                      *)
Found(p) == At(p, "act") /\ CanLock(ip[p]) /\ ~NoType(ip[p]) /\ valid' = Set(valid, ip[p], TRUE)

sys_open(p) ==
  /\ op[p] = "open" /\ Found(p)
  /\ file' = Set(file, p, ip[p]) /\ Over(p, <<>>)
  /\ UNCHANGED <<diskVars, ref, lock, cwd>>

sys_chdir(p) ==
  /\ op[p] = "chdir" /\ Found(p)
  /\ IF type[ip[p]] = "dir" THEN cwd' = Set(cwd, p, ip[p]) /\ Over(p, <<cwd[p]>>)
     ELSE Fail(p, <<ip[p]>>) /\ UNCHANGED cwd
  /\ UNCHANGED <<diskVars, ref, lock, file>>

sys_link(p, new) ==
  /\ op[p] = "link" /\ Found(p) /\ nlink[ip[p]] < MaxLinks
  /\ IF type[ip[p]] = "dir" THEN Fail(p, <<ip[p]>>) /\ UNCHANGED <<nlink, ref>>
     ELSE /\ nlink' = [nlink EXCEPT ![ip[p]] = @ + 1]
          /\ op' = Set(op, p, "link to") /\ path' = Set(path, p, new)
          /\ ref' = iget(Root) /\ Give(p, Root, ip[p]) /\ Then(p, <<>>, "walk")
  /\ UNCHANGED <<type, entries, dotdot, stranded, lock, cwd, file>>

(* The second half: dirlink(), which fails when the name is there or the disk *)
(* is full; then nlink is taken back.                                         *)
LinkTo(p) ==
  LET dp == ip[p]  n == Head(path[p]) IN
  /\ op[p] = "link to" /\ Found(p)
  /\ \/ /\ Lookup(dp, n) = None
        /\ entries' = [entries EXCEPT ![dp][n] = other[p]]
        /\ Over(p, <<dp, other[p]>>)
     \/ Fail(p, <<dp>>) /\ UNCHANGED entries
  /\ UNCHANGED <<type, nlink, dotdot, stranded, ref, lock, cwd, file>>

LinkBad(p) ==
  LET i == other[p] IN
  /\ At(p, "link bad") /\ CanLock(i) /\ ~NoType(i)
  /\ nlink' = [nlink EXCEPT ![i] = @ - 1] /\ valid' = Set(valid, i, TRUE)
  /\ Over(p, <<i>>)
  /\ UNCHANGED <<type, entries, dotdot, stranded, ref, lock, cwd, file>>

-----------------------------------------------------------------------------
(* create(), for open(O_CREATE) and mkdir(): the name exists, or ialloc()     *)
(* finds a free inode while dp stays locked.                                  *)
FirstFree == {i \in Inums : type[i] = "free" /\ \A j \in Inums : type[j] = "free" => i <= j}
create(p) ==
  LET dp == ip[p]  j == Lookup(dp, Head(path[p])) IN
  /\ op[p] \in {"create", "mkdir"} /\ Found(p)
  /\ \/ /\ j # None
        /\ ref' = iget(j)
        /\ Give(p, None, j) /\ Then(p, <<dp>>, "exists") /\ UNCHANGED <<type, lock, op, path>>
     \/ /\ j = None /\ FirstFree = {}
        /\ Fail(p, <<dp>>) /\ UNCHANGED <<type, ref, lock>>
     \/ \E i \in FirstFree :
        /\ j = None
        /\ type' = Set(type, i, IF op[p] = "mkdir" THEN "dir" ELSE "file")
        /\ ref' = iget(i) /\ lock' = Set(lock, dp, p)
        /\ Give(p, dp, i) /\ Then(p, <<>>, "new") /\ UNCHANGED <<op, path>>
  /\ UNCHANGED <<nlink, entries, dotdot, stranded, cwd, file>>

Exists(p) ==
  LET i == other[p] IN
  /\ At(p, "exists") /\ CanLock(i) /\ ~NoType(i)
  /\ valid' = Set(valid, i, TRUE)
  /\ IF op[p] = "create" /\ type[i] = "file" THEN file' = Set(file, p, i) /\ Over(p, <<>>)
     ELSE Fail(p, <<i>>) /\ UNCHANGED file
  /\ UNCHANGED <<diskVars, ref, lock, cwd>>

(* The new inode gets its link and its entries, dp gets the name; or there is *)
(* no room for them.                                                          *)
Made(p) ==
  LET dp == ip[p]  i == other[p]  dir == op[p] = "mkdir" IN
  /\ At(p, "new") /\ CanLock(i) /\ ~NoType(i)
  /\ valid' = Set(valid, i, TRUE) /\ lock' = Set(lock, dp, None)
  /\ dotdot' = IF dir THEN Set(dotdot, i, dp) ELSE dotdot
  /\ \/ /\ entries' = [entries EXCEPT ![dp][Head(path[p])] = i]
        /\ nlink' = [nlink EXCEPT ![i] = 1, ![dp] = @ + (IF dir THEN 1 ELSE 0)]
        /\ file' = IF dir THEN file ELSE Set(file, p, i)
        /\ Over(p, IF dir THEN <<dp, i>> ELSE <<dp>>)
     \/ Over(p, <<i, dp>>) /\ UNCHANGED <<nlink, entries, file>>
  /\ UNCHANGED <<type, stranded, ref, cwd>>

(* sys_unlink(): dp stays locked until ip is, and ip while dp is iput().      *)
sys_unlink(p) ==
  LET dp == ip[p]  j == Lookup(dp, Head(path[p])) IN
  /\ op[p] = "unlink" /\ Found(p)
  /\ IF j = None \/ Head(path[p]) = ".." THEN Fail(p, <<dp>>) /\ UNCHANGED <<ref, lock>>
     ELSE /\ ref' = iget(j) /\ lock' = Set(lock, dp, p)
          /\ Give(p, dp, j) /\ Then(p, <<>>, "remove") /\ UNCHANGED <<op, path>>
  /\ UNCHANGED <<diskVars, cwd, file>>

isdirempty(i) == entries[i] = NoEntries
Removes(p) ==
  LET dp == ip[p]  i == other[p] IN
  /\ At(p, "remove") /\ CanLock(i) /\ ~NoType(i) /\ nlink[i] >= 1
  /\ valid' = Set(valid, i, TRUE)
  /\ IF type[i] = "dir" /\ ~isdirempty(i)
     THEN /\ Fail(p, <<i, dp>>) /\ lock' = Set(lock, dp, None) /\ UNCHANGED <<entries, nlink>>
     ELSE /\ entries' = [entries EXCEPT ![dp][Head(path[p])] = None]
          /\ nlink' = IF type[i] = "dir" THEN [nlink EXCEPT ![dp] = @ - 1] ELSE nlink
          /\ lock' = [lock EXCEPT ![dp] = None, ![i] = p]
          /\ Give(p, None, i) /\ Then(p, <<dp>>, "removed") /\ UNCHANGED <<op, path>>
  /\ UNCHANGED <<type, dotdot, stranded, ref, cwd, file>>

Removed(p) ==
  LET i == other[p] IN
  /\ At(p, "removed")
  /\ nlink' = [nlink EXCEPT ![i] = @ - 1] /\ lock' = Set(lock, i, None)
  /\ Over(p, <<i>>)
  /\ UNCHANGED <<type, entries, dotdot, stranded, ref, valid, cwd, file>>

Next == \E p \in Procs :
  \/ \E c \in Calls[p], w \in Paths, i \in {Root, cwd[p]} : Call(p, c, w, i)
  \/ iput(p) \/ Free(p) \/ close(p) \/ Walk(p)
  \/ sys_open(p) \/ sys_chdir(p) \/ \E w \in Paths : sys_link(p, w)
  \/ LinkTo(p) \/ LinkBad(p) \/ create(p) \/ Exists(p) \/ Made(p)
  \/ sys_unlink(p) \/ Removes(p) \/ Removed(p)

Spec == Init /\ [][Next]_vars

-----------------------------------------------------------------------------
TypeOK ==
  /\ type \in [Inums -> {"free", "file", "dir"}] /\ nlink \in [Inums -> Nat]
  /\ entries \in [Inums -> [Names -> Entry]] /\ ref \in [Inums -> Nat]
  /\ lock \in [Inums -> Procs \cup {None}]

(* The kernel does not panic: nobody is about to ilock() a free inode, or to  *)
(* unlink() one without links.  (There is no action for that: it would stop.) *)
WillLock(p)  == IF pc[p] \in {"new", "exists", "remove", "link bad"} THEN other[p] ELSE ip[p]
NoLinks(p)   == pc[p] = "remove" /\ type[other[p]] # "free" /\ nlink[other[p]] < 1
NeverPanics  == \A p \in Procs : pc[p] \notin {"user", "removed"} /\ drop[p] = <<>> =>
                  LET i == WillLock(p) IN CanLock(i) => ~NoType(i) /\ ~NoLinks(p)

(* ref is the number of those who can use the inode, and of the iput()s to    *)
(* come: it is not recycled or freed under anybody.                           *)
Count(s, i) == Cardinality({k \in DOMAIN s : s[k] = i})
Users(i) == Cardinality({p \in Procs : cwd[p] = i}) + Cardinality({p \in Procs : file[p] = i})
          + Cardinality({p \in Procs : ip[p] = i}) + Cardinality({p \in Procs : other[p] = i})
Drops(i) == Cardinality({x \in Procs \X (1 .. 3) : x[2] <= Len(drop[x[1]]) /\ drop[x[1]][x[2]] = i})
RefsExact == \A i \in Inums : ref[i] = Users(i) + Drops(i)

(* nlink counts the names of an inode and, for a directory, its               *)
(* subdirectories; unlink() and link() are one off between their two steps.   *)
NamesOf(i) == Cardinality({x \in Inums \X Names : entries[x[1]][x[2]] = i})
Subdirs(i) == Cardinality({n \in Names : entries[i][n] # None /\ type[entries[i][n]] = "dir"})
OneOff(i)  == Cardinality({p \in Procs : other[p] = i /\
                             (op[p] = "link to" \/ pc[p] = "removed")})
LinksRight == \A i \in Inums : type[i] # "free" =>
  LET n == NamesOf(i) + Subdirs(i) + OneOff(i) + (IF i = Root THEN 1 ELSE 0)
  IN nlink[i] = n \/ (i \in stranded /\ nlink[i] > n)
CountsRight == TypeOK /\ RefsExact /\ LinksRight

(* No name leads to a free inode; and an inode is freed: without names it     *)
(* stays allocated only as long as somebody refers to it, unless its name was *)
(* created in a directory that somebody else had removed.                     *)
NoDangling == \A d \in Inums, n \in Names : entries[d][n] # None => type[entries[d][n]] # "free"
Reclaimed == \A i \in Inums \ {Root} :
  type[i] # "free" /\ ref[i] = 0 => NamesOf(i) + Subdirs(i) > 0 \/ i \in stranded
FreedRight == NoDangling /\ Reclaimed

(* "ip->ref == 1 means no other process can have ip locked": the acquiresleep *)
(* of iput(), with itable.lock held, never waits.                             *)
IputNeverWaits == \A p \in Procs :
  drop[p] # <<>> /\ LastOne(Head(drop[p])) => lock[Head(drop[p])] \in {None, p}
=============================================================================
