------------------------------- MODULE Strings -------------------------------
(***************************************************************************)
(* Bytes moved by the kernel: between its memory and that of a user, which *)
(* lies in frames all over physical memory (copyout(), copyin() and        *)
(* copyinstr() of lab2/kernel/vm.c), between places that overlap           *)
(* (memmove(), lab2/kernel/string.c), and the elements of a path           *)
(* (skipelem(), lab2/kernel/fs.c).                                         *)
(***************************************************************************)
EXTENDS Integers, Sequences, FiniteSetsExt, SequencesExt

CONSTANTS PGSIZE, DIRSIZ,
          MaxLen,       \* bound: bytes asked for
          Calls         \* bound: calls and their arguments (see below)

NPAGES == 3                     \* bound: pages of a user, and frames
MAXVA  == NPAGES * PGSIZE
Frames == 1 .. NPAGES

VARIABLES call,       \* the call and its arguments
          mem, kbuf,  \* frames; the buffer in the kernel
          va, left,   \* what the loops change
          ret         \* what is returned, <<>> before
stringVars == <<call, mem, kbuf, va, left, ret>>

(* User byte v is v + 1, or 0 for the end of a string; kernel byte n is -n-1. *)
Byte(c, v)  == IF v \in c.nuls THEN 0 ELSE v + 1
(* A call has an op, va, len, pt (the frames of the user's pages, 0 for none) *)
(* and nuls, where strings of the user end; or op "path", and a path.         *)
Init ==
  /\ call \in Calls
  /\ mem = [f \in Frames, n \in 0 .. PGSIZE - 1 |->
              LET pages == {v \in 0 .. NPAGES - 1 : call.pt[v] = f}
              IN IF pages = {} THEN 0 ELSE Byte(call, Min(pages) * PGSIZE + n)]
  /\ kbuf = [n \in 0 .. 2 * MaxLen |-> -n - 1]
  /\ va = call.va /\ left = call.len /\ ret = <<>>

-----------------------------------------------------------------------------
walkaddr(v) == IF v >= MAXVA THEN 0 ELSE call.pt[v \div PGSIZE]
Done   == call.len - left                          \* bytes copied so far
Piece  == Min({PGSIZE - (va % PGSIZE), left})      \* n: what is left of the page, or of the bytes
Turn(o) == call.op = o /\ ret = <<>> /\ left > 0 /\ walkaddr(va) # 0
Advance == /\ left' = left - Piece /\ va' = (va \div PGSIZE + 1) * PGSIZE
           /\ UNCHANGED call

copyout ==
  /\ Turn("copyout") /\ Advance /\ UNCHANGED <<kbuf, ret>>
  /\ mem' = [x \in DOMAIN mem |->
               IF x[1] = walkaddr(va) /\ x[2] - (va % PGSIZE) \in 0 .. Piece - 1
               THEN kbuf[Done + x[2] - (va % PGSIZE)] ELSE mem[x]]

Fetched(n) == [i \in DOMAIN kbuf |->
                 IF i - Done \in 0 .. n - 1 THEN mem[walkaddr(va), (va % PGSIZE) + i - Done] ELSE kbuf[i]]
copyin == Turn("copyin") /\ Advance /\ UNCHANGED <<mem, ret>> /\ kbuf' = Fetched(Piece)

copyinstr ==
  /\ Turn("copyinstr") /\ Advance /\ UNCHANGED mem
  /\ LET nuls == {n \in 0 .. Piece - 1 : mem[walkaddr(va), (va % PGSIZE) + n] = 0}
     IN IF nuls = {} THEN kbuf' = Fetched(Piece) /\ UNCHANGED ret
        ELSE kbuf' = Fetched(Min(nuls) + 1) /\ ret' = <<0>>

(* All bytes are copied; or a page is not the user's.                         *)
CopyOver ==
  /\ call.op \in {"copyout", "copyin", "copyinstr"} /\ ret = <<>>
  /\ \/ left = 0 /\ ret' = IF call.op = "copyinstr" THEN <<-1>> ELSE <<0>>
     \/ left > 0 /\ walkaddr(va) = 0 /\ ret' = <<-1>>
  /\ UNCHANGED <<call, mem, kbuf, va, left>>

(* The bytes of m from s on go to d, one by one, in the order of their numbers. *)
Bytes(order, m, d, s) == FoldLeft(LAMBDA b, n : [b EXCEPT ![d + n] = b[s + n]], m, order)
Forward(n)  == [i \in 1 .. n |-> i - 1]
Backward(n) == [i \in 1 .. n |-> n - i]
(* A bug in the next definition: bytes are always taken from the first on.    *)
AlwaysForward(m, d, s, n) == Bytes(Forward(n), m, d, s)
memmove(m, d, s, n) ==
  IF s < d /\ s + n > d THEN Bytes(Backward(n), m, d, s) ELSE Bytes(Forward(n), m, d, s)
umemmove(m, d, s, n) ==   \* of user programs
  IF s > d THEN Bytes(Forward(n), m, d, s) ELSE Bytes(Backward(n), m, d, s)
To == MaxLen \div 2
Move ==
  /\ ret = <<>> /\ ret' = <<0>> /\ UNCHANGED <<call, mem, va, left>>
  /\ \/ call.op = "memmove"  /\ kbuf' = memmove(kbuf, To, call.va, call.len)
     \/ call.op = "umemmove" /\ kbuf' = umemmove(kbuf, To, call.va, call.len)

(* The next element of a path and what follows it, no element if there is none. *)
Slashes(path) == Min({i \in 1 .. Len(path) + 1 : i > Len(path) \/ path[i] # "/"}) - 1
Elem(path)    == SubSeq(path, 1, Min({i \in 1 .. Len(path) + 1 : i > Len(path) \/ path[i] = "/"}) - 1)
Skip(path, n) == SubSeq(path, n + 1, Len(path))
skipelem(path) ==
  LET s == Skip(path, Slashes(path))
      after == Skip(s, Len(Elem(s)))
  IN [name |-> SubSeq(Elem(s), 1, Min({Len(Elem(s)), DIRSIZ})), rest |-> Skip(after, Slashes(after))]

(* The elements namex() looks up, and whether each is the one nameiparent()   *)
(* stops at.                                                                  *)
RECURSIVE Walk(_)
Walk(path) == LET e == skipelem(path)
              IN IF e.name = <<>> THEN <<>> ELSE <<<<e.name, e.rest = <<>>>>>> \o Walk(e.rest)
namex == /\ call.op = "path" /\ ret = <<>> /\ ret' = <<Walk(call.path)>>
         /\ UNCHANGED <<call, mem, kbuf, va, left>>

Over == ret # <<>> /\ UNCHANGED stringVars
Next == copyout \/ copyin \/ copyinstr \/ CopyOver \/ Move \/ namex \/ Over
Spec == Init /\ [][Next]_stringVars

-----------------------------------------------------------------------------
Mine(v) == v < MAXVA /\ call.pt[v \div PGSIZE] # 0
Reach   == Min({n \in 0 .. call.len : n = call.len \/ ~Mine(call.va + n)})
Nuls    == {n \in 0 .. Reach - 1 : call.va + n \in call.nuls}
Got(n)  == kbuf = [i \in DOMAIN kbuf |-> IF i < n THEN Byte(call, call.va + i) ELSE -i - 1]

(* PROPERTY: across pages whose frames are anywhere, copyout() and copyin()   *)
(* move the bytes up to the first that is not the user's, and succeed when    *)
(* there is none; copyinstr() succeeds when a string ends in time, and gives  *)
(* it to its end; no other byte of the user's memory or the buffer changes.   *)
CopyRight == ret # <<>> =>
  /\ call.op \in {"copyout", "copyin"} => ret = IF Reach = call.len THEN <<0>> ELSE <<-1>>
  /\ call.op = "copyinstr" => ret = IF Nuls # {} THEN <<0>> ELSE <<-1>>
  /\ call.op = "copyin" => Got(Reach)
  /\ call.op = "copyinstr" /\ Nuls # {} => Got(Min(Nuls) + 1)
  /\ \A v \in 0 .. MAXVA - 1 : Mine(v) =>
       mem[call.pt[v \div PGSIZE], v % PGSIZE] =
         IF call.op = "copyout" /\ v - call.va \in 0 .. Reach - 1 THEN call.va - v - 1 ELSE Byte(call, v)

(* PROPERTY: both memmove()s give the destination what the source was, though *)
(* they overlap, and change nothing else.                                     *)
MoveRight == ret # <<>> /\ call.op \in {"memmove", "umemmove"} =>
  \A i \in DOMAIN kbuf : kbuf[i] = IF i - To \in 0 .. call.len - 1 THEN To - i - call.va - 1 ELSE -i - 1

(* PROPERTY: the elements of a path are what stands between slashes, however  *)
(* many, cut to DIRSIZ; only the last is the last (fs.c:616-620).             *)
PathRight == ret # <<>> /\ call.op = "path" =>
  LET p == call.path
      Starts == {i \in DOMAIN p : p[i] # "/" /\ (i = 1 \/ p[i - 1] = "/")}
      first  == SetToSortSeq(Starts, <)
      Size(i) == Min({n \in 1 .. Len(p) : i + n > Len(p) \/ p[i + n] = "/"})
  IN ret[1] = [k \in DOMAIN first |->
                <<SubSeq(p, first[k], first[k] + Min({Size(first[k]), DIRSIZ}) - 1), k = Len(first)>>]
=============================================================================
