------------------------------- MODULE Malloc -------------------------------
(***************************************************************************)
(* malloc() and free() of the user library (user/umalloc.c): a ring of     *)
(* free blocks in the order of their addresses, each with a header that    *)
(* holds its size, in units of a header.  Address 0 is base, which is in   *)
(* front of the heap and has no units; the heap is 1 .. brk.               *)
(***************************************************************************)
EXTENDS Integers, FiniteSets
LOCAL INSTANCE FiniteSetsExt

CONSTANTS HEAP,      \* bound: sbrk() fails beyond
          MinCore,   \* 4096 in morecore()
          Wants      \* bound: nunits of the calls, header included

VARIABLES ptr, size,  \* of the headers of free blocks; size, of all blocks
          freep,      \* -1 before the first malloc()
          brk,
          live,       \* the blocks of the program
          own         \* what the program itself takes with sbrk()

heapVars == <<ptr, size, freep, brk, live, own>>

Init == /\ ptr = <<>> /\ size = <<>> /\ freep = -1 /\ brk = 0 /\ live = {} /\ own = {}

Put(f, a, v) == [x \in DOMAIN f \cup {a} |-> IF x = a THEN v ELSE f[x]]
Drop(f, a)   == [x \in DOMAIN f \ {a} |-> f[x]]

(* Along the ring pt from p, the first block with property Ok.                *)
Steps(pt, p) == LET at[k \in 0 .. HEAP + 1] == IF k = 0 THEN p ELSE pt[at[k - 1]] IN at
Least(S)     == CHOOSE k \in S : \A j \in S : k <= j

(* free(): bp goes between p and p->s.ptr, joined with both if they touch.    *)
Touches(p, bp) == p + size[p] = bp
Between(p, bp) == \/ bp > p /\ bp < ptr[p]
                  \/ p >= ptr[p] /\ (bp > p \/ bp < ptr[p])
Place(bp) == LET at == Steps(ptr, freep) IN
             at[Least({k \in 0 .. HEAP + 1 : Between(at[k], bp)})]

Freed(bp, units) ==
  LET p == Place(bp)  q == ptr[p]
      up   == bp + units = q
      nptr == IF up THEN ptr[q] ELSE q
      nsz  == IF up THEN units + size[q] ELSE units
      pt   == IF up THEN Drop(ptr, q) ELSE ptr
      s    == IF up THEN Drop(size, q) ELSE size
  IN /\ freep' = p
     /\ IF Touches(p, bp)
        THEN ptr' = Put(pt, p, nptr) /\ size' = Put(Drop(s, bp), p, size[p] + nsz)
        ELSE ptr' = Put(Put(pt, bp, nptr), p, bp) /\ size' = Put(s, bp, nsz)

free(bp) == /\ bp \in live /\ live' = live \ {bp} /\ Freed(bp, size[bp])
            /\ UNCHANGED <<brk, own>>

(* malloc(): the first time, the ring is base alone.                          *)
FirstTime == /\ freep = -1 /\ freep' = 0 /\ ptr' = Put(ptr, 0, 0) /\ size' = Put(size, 0, 0)
             /\ UNCHANGED <<brk, live, own>>

(* The first block that is large enough, as a whole or its tail; freep is the *)
(* one in front of it.                                                        *)
Turns(n) == {k \in 1 .. Cardinality(DOMAIN ptr) : size[Steps(ptr, freep)[k]] >= n}

Left(p, n) == size[p] - n
malloc(n) ==
  /\ freep # -1 /\ Turns(n) # {}
  /\ LET at == Steps(ptr, freep)  k == Least(Turns(n))  p == at[k] IN
     /\ freep' = at[k - 1]
     /\ IF size[p] = n
        THEN ptr' = Drop(Put(ptr, at[k - 1], ptr[p]), p) /\ live' = live \cup {p} /\ size' = size
        ELSE /\ size' = Put(Put(size, p, Left(p, n)), p + Left(p, n), n)
             /\ live' = live \cup {p + Left(p, n)} /\ ptr' = ptr
  /\ UNCHANGED <<brk, own>>

(* morecore(), with no block large enough: sbrk() and free(); or sbrk() fails *)
(* and malloc() returns 0.                                                    *)
Core(n) == IF n < MinCore THEN MinCore ELSE n
morecore(n) ==
  /\ freep # -1 /\ Turns(n) = {} /\ brk + Core(n) <= HEAP
  /\ brk' = brk + Core(n) /\ Freed(brk + 1, Core(n))
  /\ UNCHANGED <<live, own>>

NoCore(n) == /\ freep # -1 /\ Turns(n) = {} /\ brk + Core(n) > HEAP
             /\ UNCHANGED heapVars

(* The program uses sbrk() too.                                               *)
Sbrk == /\ brk < HEAP /\ brk' = brk + 1 /\ own' = own \cup {brk + 1}
        /\ UNCHANGED <<ptr, size, freep, live>>

Next == \/ FirstTime \/ Sbrk
        \/ \E n \in Wants : malloc(n) \/ morecore(n) \/ NoCore(n)
        \/ \E bp \in live : free(bp)

-----------------------------------------------------------------------------
Units(a)   == a .. a + size[a] - 1
FreeBlocks == DOMAIN ptr \ {0}

(* Every unit of the heap is in exactly one block, free or the program's:     *)
(* blocks do not overlap, and splitting and joining lose none.                *)
HeapIsBlocks ==
  /\ UNION {Units(a) : a \in live \cup FreeBlocks} = 1 .. brk \ own
  /\ MapThenSumSet(LAMBDA a : size[a], live \cup FreeBlocks) = brk - Cardinality(own)

(* The ring goes through all free blocks in the order of their addresses, and *)
(* two of them never touch.                                                   *)
Ring == freep # -1 =>
  /\ freep \in DOMAIN ptr
  /\ \A a \in DOMAIN ptr : LET above == {b \in DOMAIN ptr : b > a} IN
       ptr[a] = IF above = {} THEN 0 ELSE Least(above)
  /\ \A a, b \in FreeBlocks : a + size[a] # b
=============================================================================
