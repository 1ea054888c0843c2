-------------------------------- MODULE Mkfs ---------------------------------
(***************************************************************************)
(* mkfs (lab2/mkfs/mkfs.c) writes the image of a file system with the      *)
(* programs in its root directory. Data is counted in units of the size of *)
(* a directory entry; read() of a host file may give any part of a block.  *)
(***************************************************************************)
EXTENDS Integers, Sequences, FiniteSets, FiniteSetsExt

CONSTANTS Hosts,                   \* bound: the host files are of these sizes, in units
          BSIZE, NDIRECT, NINDIRECT,
          nmeta,                   \* the blocks before the data blocks
          FSSIZE, NINODES          \* bounds: enough for Hosts, which mkfs does not check

ROOTINO == 1
MAXFILE == NDIRECT + NINDIRECT
Zero    == <<"zero", 0, 0>>
Dirent(inum, name) == <<"entry", inum, name>>   \* names: 0 is ".", -1 "..", f the f-th file
Unit(f, k)         == <<"data", f, k>>          \* the k-th unit of the f-th host file
NoInode == [type |-> "none", size |-> 0, addrs |-> [n \in 0 .. NDIRECT |-> 0]]

VARIABLES at,          \* the statement of main()
          host, f, k,  \* the sizes of the host files, the file copied, how much of it
          image        \* inodes, blocks, bitmap, freeinode and freeblock
mkfsVars == <<at, host, f, k, image>>

Init == /\ at = "root" /\ host \in Hosts /\ f = 0 /\ k = 0
        /\ image = [inode |-> [i \in 1 .. NINODES |-> NoInode],
                    block |-> [b \in 0 .. FSSIZE - 1 |-> [n \in 1 .. BSIZE |-> Zero]],
                    bitmap |-> {}, freeinode |-> 1, freeblock |-> nmeta]

-----------------------------------------------------------------------------
(* The number of the inode is im.freeinode.                                   *)
ialloc(im, type) ==
  [im EXCEPT !.inode[im.freeinode] = [NoInode EXCEPT !.type = type], !.freeinode = @ + 1]

(* Block fbn of an inode gets a number, if it has none.                       *)
Direct(im, inum, n) ==
  IF im.inode[inum].addrs[n] # 0 THEN im
  ELSE [im EXCEPT !.inode[inum].addrs[n] = im.freeblock, !.freeblock = @ + 1]
Indirect(im, ind, n) ==
  IF im.block[ind][n] # Zero THEN im
  ELSE [im EXCEPT !.block[ind][n] = <<"block", im.freeblock, 0>>, !.freeblock = @ + 1]
Mapped(im, inum, fbn) ==
  IF fbn < NDIRECT THEN Direct(im, inum, fbn)
  ELSE LET with == Direct(im, inum, NDIRECT)
       IN Indirect(with, with.inode[inum].addrs[NDIRECT], fbn - NDIRECT + 1)
Number(im, inum, fbn) ==
  IF fbn < NDIRECT THEN im.inode[inum].addrs[fbn]
  ELSE im.block[im.inode[inum].addrs[NDIRECT]][fbn - NDIRECT + 1][2]

(* The loop over the blocks that xs goes to.                                  *)
RECURSIVE iappend(_, _, _)
iappend(im, inum, xs) ==
  LET off == im.inode[inum].size
      fbn == off \div BSIZE
      n1  == Min({Len(xs), (fbn + 1) * BSIZE - off})
      with == Mapped(im, inum, fbn)
      x    == Number(with, inum, fbn)
      put(n) == LET i == n - (off - fbn * BSIZE) IN IF i \in 1 .. n1 THEN xs[i] ELSE with.block[x][n]
  IN IF xs = <<>> THEN im
     ELSE iappend([with EXCEPT !.block[x] = [n \in 1 .. BSIZE |-> put(n)],
                               !.inode[inum].size = off + n1],
                  inum, SubSeq(xs, n1 + 1, Len(xs)))

balloc(im, used)  == [im EXCEPT !.bitmap = 0 .. used - 1]

-----------------------------------------------------------------------------
(* main().                                                                    *)
MakeRoot ==
  /\ at = "root" /\ at' = "next" /\ UNCHANGED <<host, f, k>>
  /\ image' = iappend(iappend(ialloc(image, "dir"), ROOTINO, <<Dirent(ROOTINO, 0)>>),
                      ROOTINO, <<Dirent(ROOTINO, -1)>>)

NewFile ==
  /\ at = "next" /\ f < Len(host) /\ at' = "copy" /\ f' = f + 1 /\ k' = 0 /\ UNCHANGED host
  /\ image' = iappend(ialloc(image, "file"), ROOTINO, <<Dirent(image.freeinode, f')>>)

Inum == image.freeinode - 1
Copy(cc) ==
  /\ at = "copy" /\ k + cc <= MAXFILE * BSIZE
  /\ image' = iappend(image, Inum, [n \in 1 .. cc |-> Unit(f, k + n)])
  /\ k' = k + cc /\ UNCHANGED <<at, host, f>>
TooLarge(cc) ==   \* assert(fbn < MAXFILE)
  at = "copy" /\ k + cc > MAXFILE * BSIZE /\ at' = "aborted" /\ UNCHANGED <<host, f, k, image>>
Copied ==
  at = "copy" /\ k = host[f] /\ at' = "next" /\ UNCHANGED <<host, f, k, image>>

Finish ==
  /\ at = "next" /\ f = Len(host) /\ at' = "over" /\ UNCHANGED <<host, f, k>>
  /\ LET size == (image.inode[ROOTINO].size \div BSIZE + 1) * BSIZE
     IN image' = balloc([image EXCEPT !.inode[ROOTINO].size = size], image.freeblock)

Over == at \in {"over", "aborted"} /\ UNCHANGED mkfsVars
Read == IF at = "copy" THEN 1 .. Min({BSIZE, host[f] - k}) ELSE {}
Next == MakeRoot \/ NewFile \/ (\E cc \in Read : Copy(cc) \/ TooLarge(cc)) \/ Copied \/ Finish \/ Over
Spec == Init /\ [][Next]_mkfsVars

-----------------------------------------------------------------------------
(* Where the kernel looks for block fbn of an inode: bmap() of lab2/kernel/   *)
(* fs.c; 0 when it would have to allocate it.                                 *)
Bmap(i, fbn) ==
  LET addrs == image.inode[i].addrs
  IN IF fbn < NDIRECT THEN addrs[fbn]
     ELSE IF addrs[NDIRECT] = 0 THEN 0 ELSE image.block[addrs[NDIRECT]][fbn - NDIRECT + 1][2]
Blocks(i)  == (image.inode[i].size + BSIZE - 1) \div BSIZE
Contents(i) == [n \in 1 .. image.inode[i].size |->
                  image.block[Bmap(i, (n - 1) \div BSIZE)][((n - 1) % BSIZE) + 1]]
Inodes == 1 .. image.freeinode - 1

(* The entries of the root directory fill their last block: its size counts a *)
(* block it does not have (mkfs.c:166).                                       *)
RootFull == (Len(host) + 2) % BSIZE = 0

(* PROPERTY: the kernel finds in the image what mkfs was given: every host    *)
(* file whole, in the inode its entry in the root directory names, and no     *)
(* block to allocate when it reads.                                           *)
ImageRight == at = "over" =>
  /\ \A i \in Inodes : ~(i = ROOTINO /\ RootFull) => \A b \in 0 .. Blocks(i) - 1 : Bmap(i, b) # 0
  /\ \A n \in DOMAIN host : \E i \in Inodes \ {ROOTINO} :
       /\ ~RootFull => Contents(ROOTINO)[n + 2] = Dirent(i, n)
       /\ Contents(i) = [j \in 1 .. host[n] |-> Unit(n, j)]

(* PROPERTY: the bitmap of the image is that of the kernel: a block is marked *)
(* if and only if it is one of the blocks before the data or of one inode,    *)
(* in one place of it.                                                        *)
Places == {<<i, b>> \in Inodes \X (0 .. MAXFILE) :
             IF b = MAXFILE THEN image.inode[i].addrs[NDIRECT] # 0 ELSE Bmap(i, b) # 0}
BlockAt(p) == IF p[2] = MAXFILE THEN image.inode[p[1]].addrs[NDIRECT] ELSE Bmap(p[1], p[2])
BitmapRight == at = "over" =>
  /\ image.bitmap = (0 .. nmeta - 1) \cup {BlockAt(p) : p \in Places}
  /\ \A p, q \in Places : BlockAt(p) = BlockAt(q) => p = q
  /\ \A p \in Places : BlockAt(p) >= nmeta
=============================================================================
