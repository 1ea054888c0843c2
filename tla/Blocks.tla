------------------------------- MODULE Blocks -------------------------------
(***************************************************************************)
(* The blocks of files: balloc() and bfree() on the bitmap, bmap(),        *)
(* itrunc(), readi() and writei() (kernel/fs.c), and the loop in           *)
(* filewrite() that splits a write into transactions.  Processes share the *)
(* offset of an open file.  A step of a call changes one block number; the *)
(* inode stays locked over the steps of writei() and of itrunc().          *)
(***************************************************************************)
EXTENDS Integers, FiniteSets

CONSTANTS Callers,
          Inos,               \* struct inode, referenced all the time
          NBLOCKS,            \* data blocks, 1 .. NBLOCKS
          NDIRECT, NINDIRECT,
          BSIZE,              \* in units of data; an indirect block has as many numbers
          MAXOPBLOCKS,
          Writes, Truncates,  \* bound: who does so with which inode, <<p, i>>
          WriteSizes, ReadSizes,       \* bound: the n of a write() and of a read(), in units
          NoHolder

(* A transaction writes a block at least; indirect blocks have room for the   *)
(* numbers.                                                                   *)
ASSUME BlocksAssumption ==
  /\ {NBLOCKS, NDIRECT, NINDIRECT, MAXOPBLOCKS} \subseteq Nat /\ MAXOPBLOCKS >= 6
  /\ BSIZE \in Nat \ {0} /\ NINDIRECT <= BSIZE
  /\ Writes \cup Truncates \subseteq Callers \X Inos
  /\ WriteSizes \subseteq Nat \ {0} /\ ReadSizes \subseteq Nat /\ NoHolder \notin Callers \cup Inos

Blocks  == 1 .. NBLOCKS
MAXFILE == NDIRECT + NINDIRECT

VARIABLES bitmap,       \* the blocks marked in use
          addrs, size,  \* of struct inode; addrs[i][NDIRECT] is the indirect block
          content,      \* of every block: units of data, or block numbers
          off,          \* f->off: one open file per inode
          holder,       \* who has ip->lock
          where, ino,      \* where a process is, with which inode
          left, tot,    \* filewrite(): n - i; writei(): tot
          n1            \* this writei()'s n

blockVars == <<bitmap, addrs, size, content, off, holder, where, ino, left, tot, n1>>

Zeroes == [k \in 0 .. BSIZE - 1 |-> 0]
BlocksInit ==
  /\ bitmap = {} /\ addrs = [i \in Inos |-> [k \in 0 .. NDIRECT |-> 0]]
  /\ size = [i \in Inos |-> 0] /\ content = [b \in Blocks |-> Zeroes]
  /\ off = [i \in Inos |-> 0] /\ holder = [i \in Inos |-> NoHolder]
  /\ where = [p \in Callers |-> "user"] /\ ino = [p \in Callers |-> NoHolder]
  /\ left = [p \in Callers |-> 0] /\ tot = [p \in Callers |-> 0] /\ n1 = [p \in Callers |-> 0]

Change(f, p, v) == [f EXCEPT ![p] = v]
Least(a, b)  == IF a <= b THEN a ELSE b

(* The number of the n-th block, 0 when there is none.                        *)
Number(i, n) == IF n < NDIRECT THEN addrs[i][n]
                ELSE IF addrs[i][NDIRECT] = 0 THEN 0 ELSE content[addrs[i][NDIRECT]][n - NDIRECT]
(* The unit it writes next.                                                   *)
Pos(p) == off[ino[p]] + tot[p]

-----------------------------------------------------------------------------
(* write() on an open file.                                                   *)
FileWrite(p, i, n) ==
  /\ where[p] = "user" /\ where' = Change(where, p, "chunk")
  /\ ino' = Change(ino, p, i) /\ left' = Change(left, p, n)
  /\ UNCHANGED <<bitmap, addrs, size, content, off, holder, tot, n1>>

Return(p) == /\ where' = Change(where, p, "user") /\ ino' = Change(ino, p, NoHolder)
             /\ left' = Change(left, p, 0) /\ tot' = Change(tot, p, 0) /\ n1' = Change(n1, p, 0)

(* begin_op(), ilock(), and the checks of writei().                           *)
ChunkMax == ((MAXOPBLOCKS - 1 - 1 - 2) \div 2) * BSIZE
Chunk(p) ==
  LET i == ino[p]  n == Least(left[p], ChunkMax) IN
  /\ where[p] = "chunk" /\ holder[i] = NoHolder
  /\ \/ /\ off[i] > size[i] \/ off[i] + n > MAXFILE * BSIZE
        /\ Return(p) /\ UNCHANGED holder
     \/ /\ ~(off[i] > size[i] \/ off[i] + n > MAXFILE * BSIZE)
        /\ holder' = Change(holder, i, p)
        /\ where' = Change(where, p, "writei") /\ n1' = Change(n1, p, n)
        /\ UNCHANGED <<ino, left, tot>>
  /\ UNCHANGED <<bitmap, addrs, size, content, off>>

(* bmap() finds no number: balloc() and bzero() of the first free block, for  *)
(* the indirect block first; or the disk is full.                             *)
FreeBlock == {b \in Blocks \ bitmap : \A c \in Blocks \ bitmap : b <= c}

bzero(b) == [content EXCEPT ![b] = Zeroes]

Lacks(p) == where[p] = "writei" /\ tot[p] < n1[p] /\ Number(ino[p], Pos(p) \div BSIZE) = 0
Balloc(p) ==
  LET i == ino[p]  bn == Pos(p) \div BSIZE  ind == addrs[i][NDIRECT] IN
  /\ Lacks(p)
  /\ \E b \in FreeBlock :
       /\ bitmap' = bitmap \cup {b}
       /\ IF bn < NDIRECT \/ ind = 0
          THEN /\ addrs' = [addrs EXCEPT ![i][Least(bn, NDIRECT)] = b]
               /\ content' = bzero(b)
          ELSE /\ content' = [bzero(b) EXCEPT ![ind][bn - NDIRECT] = b]
               /\ addrs' = addrs
  /\ UNCHANGED <<size, off, holder, where, ino, left, tot, n1>>

(* A block's worth of either_copyin().                                        *)
Filled(b, o, m, i) ==
  [content EXCEPT ![b] = [k \in DOMAIN @ |-> IF k \in o .. o + m - 1 THEN i ELSE @[k]]]
Copy(p) ==
  LET i == ino[p]  o == Pos(p) % BSIZE  m == Least(n1[p] - tot[p], BSIZE - o)
      b == Number(i, Pos(p) \div BSIZE) IN
  /\ where[p] = "writei" /\ tot[p] < n1[p] /\ b # 0
  /\ content' = Filled(b, o, m, i) /\ tot' = [tot EXCEPT ![p] = @ + m]
  /\ UNCHANGED <<bitmap, addrs, size, off, holder, where, ino, left, n1>>

(* The end of writei(), and of a turn in filewrite(), which goes on only when *)
(* all was written.                                                           *)
Grown(p) == IF Pos(p) > size[ino[p]] THEN Pos(p) ELSE size[ino[p]]
Wrote(p) ==
  LET i == ino[p]  more == tot[p] = n1[p] /\ left[p] > n1[p] IN
  /\ size' = Change(size, i, Grown(p))
  /\ off' = Change(off, i, Pos(p)) /\ holder' = Change(holder, i, NoHolder)
  /\ IF more THEN /\ where' = Change(where, p, "chunk") /\ left' = [left EXCEPT ![p] = @ - n1[p]]
                  /\ tot' = Change(tot, p, 0) /\ n1' = Change(n1, p, 0)
                  /\ UNCHANGED ino
     ELSE Return(p)
  /\ UNCHANGED <<bitmap, addrs>>

Written(p) == /\ where[p] = "writei" /\ (tot[p] = n1[p] \/ (Lacks(p) /\ bitmap = Blocks))
              /\ Wrote(p) /\ UNCHANGED content

(* either_copyin() fails, maybe after a part of the block, which log_write()  *)
(* then never sees.                                                           *)
BadAddress(p) ==
  LET o == Pos(p) % BSIZE  m == Least(n1[p] - tot[p], BSIZE - o)
      b == Number(ino[p], Pos(p) \div BSIZE) IN
  /\ where[p] = "writei" /\ tot[p] < n1[p] /\ b # 0
  /\ \E k \in 0 .. m - 1 : content' = Filled(b, o, k, ino[p])
  /\ Wrote(p)

(* read(): readi() and the new offset.                                        *)
FileRead(p, i, n) ==
  /\ where[p] = "user" /\ holder[i] = NoHolder /\ off[i] < size[i]
  /\ off' = Change(off, i, Least(off[i] + n, size[i]))
  /\ UNCHANGED <<bitmap, addrs, size, content, holder, where, ino, left, tot, n1>>

(* The file is closed and the inode opened again, with the offset 0; nobody   *)
(* is in a call, which would have the old struct file.                        *)
Reopen(i) ==
  /\ \A q \in Callers : ino[q] # i
  /\ off[i] # 0 /\ off' = Change(off, i, 0)
  /\ UNCHANGED <<bitmap, addrs, size, content, holder, where, ino, left, tot, n1>>

-----------------------------------------------------------------------------
(* itrunc(), for open(O_TRUNC) and the last iput(): one bfree() after another *)
(* and each number set to 0, but not those in the indirect block.             *)
Truncate(p, i) ==
  /\ where[p] = "user" /\ holder[i] = NoHolder
  /\ holder' = Change(holder, i, p) /\ ino' = Change(ino, p, i)
  /\ where' = Change(where, p, "itrunc")
  /\ UNCHANGED <<bitmap, addrs, size, content, off, left, tot, n1>>

bfree(p, b) == bitmap' = bitmap \ {b}

Direct(i)  == {k \in 0 .. NDIRECT - 1 : addrs[i][k] # 0}
FreeDirect(p) ==
  LET i == ino[p] IN
  /\ where[p] = "itrunc"
  /\ \E k \in Direct(i) : /\ \A j \in Direct(i) : k <= j
                          /\ bfree(p, addrs[i][k]) /\ addrs' = [addrs EXCEPT ![i][k] = 0]
  /\ UNCHANGED <<size, content, off, holder, where, ino, left, tot, n1>>

(* j is counted in tot.                                                       *)
InIndirect(i) == content[addrs[i][NDIRECT]]
FreeListed(p) ==
  LET i == ino[p]  j == tot[p] IN
  /\ where[p] = "itrunc" /\ Direct(i) = {} /\ addrs[i][NDIRECT] # 0 /\ j < NINDIRECT
  /\ IF InIndirect(i)[j] # 0 THEN bfree(p, InIndirect(i)[j]) ELSE UNCHANGED bitmap
  /\ tot' = [tot EXCEPT ![p] = @ + 1]
  /\ UNCHANGED <<addrs, size, content, off, holder, where, ino, left, n1>>

(* Mutant: the number of the indirect block stays in the inode.               *)
WithIndirect(i) == addrs

NoIndirect(i) == [addrs EXCEPT ![i][NDIRECT] = 0]
FreeIndirect(p) ==
  LET i == ino[p] IN
  /\ where[p] = "itrunc" /\ Direct(i) = {} /\ addrs[i][NDIRECT] # 0 /\ tot[p] = NINDIRECT
  /\ bfree(p, addrs[i][NDIRECT]) /\ addrs' = NoIndirect(i)
  /\ UNCHANGED <<size, content, off, holder, where, ino, left, tot, n1>>

Truncated(p) ==
  LET i == ino[p] IN
  /\ where[p] = "itrunc" /\ Direct(i) = {} /\ addrs[i][NDIRECT] = 0
  /\ size' = Change(size, i, 0) /\ holder' = Change(holder, i, NoHolder)
  /\ Return(p)
  /\ UNCHANGED <<bitmap, addrs, content, off>>

BlocksNext ==
  \/ \E x \in Writes : \/ \E n \in WriteSizes : FileWrite(x[1], x[2], n)
                      \/ \E n \in ReadSizes : FileRead(x[1], x[2], n)
                      \/ Reopen(x[2])
  \/ \E x \in Truncates : Truncate(x[1], x[2])
  \/ \E p \in Callers : \/ Chunk(p) \/ Balloc(p) \/ Copy(p) \/ Written(p) \/ BadAddress(p)
                      \/ FreeDirect(p) \/ FreeListed(p) \/ FreeIndirect(p) \/ Truncated(p)
BlocksSpec == BlocksInit /\ [][BlocksNext]_blockVars

-----------------------------------------------------------------------------
(* Every block in use is in one place of one inode, and no other is in any.   *)
Gone(i)   == IF holder[i] # NoHolder /\ where[holder[i]] = "itrunc" THEN tot[holder[i]] ELSE 0
PlacesOf(i) == {<<"inode", k>> : k \in {j \in 0 .. NDIRECT : addrs[i][j] # 0}}
        \cup {<<"indirect", k>> : k \in {j \in Gone(i) .. NINDIRECT - 1 :
                                   addrs[i][NDIRECT] # 0 /\ InIndirect(i)[j] # 0}}
NumberAt(i, x)  == IF x[1] = "inode" THEN addrs[i][x[2]] ELSE InIndirect(i)[x[2]]
AllPlaces == UNION {{<<i, x>> : x \in PlacesOf(i)} : i \in Inos}
BlocksOwned ==
  /\ {NumberAt(y[1], y[2]) : y \in AllPlaces} = bitmap
  /\ Cardinality(AllPlaces) = Cardinality(bitmap)

(* A file has no holes: every unit below its size has been written since it   *)
(* was truncated.                                                             *)
AtRest(i) == holder[i] = NoHolder \/ where[holder[i]] = "writei"
NoHoles == \A i \in Inos : AtRest(i) => \A u \in 0 .. size[i] - 1 :
  LET b == Number(i, u \div BSIZE) IN b # 0 /\ content[b][u % BSIZE] = i

(* PROPERTY: whatever fails and whoever writes and truncates, no block is     *)
(* lost and none is in two places (fs.c:379, 424), and readi(), which is in   *)
(* no transaction, finds all blocks there and nobody else's data in them.     *)
BlocksRight == BlocksOwned /\ NoHoles
=============================================================================
