---------------------------- MODULE InodesProof -----------------------------
(***************************************************************************)
(* Machine-checked theorems about Inodes, for every number of processes,   *)
(* inodes and names, and about Blocks, the blocks of their files. RefInv   *)
(* says what a call has in hand at each place, who holds each inode's lock *)
(* between two steps, and that ref counts the references; NameInv what     *)
(* unlinked, fresh and free inodes are like, and that nlink counts the     *)
(* names. A step of p is described by what it does to everybody else       *)
(* (Step, Own, Quiet), and the counts change by the part of p alone.       *)
(* NameInv needs paths without "..": with it the root can be reached       *)
(* through a directory that is gone, and the kernel panics. BlockInv says  *)
(* where every block number is, and how far each file is its own data.     *)
(***************************************************************************)
EXTENDS Inodes, Blocks, TLAPS, FiniteSetTheorems, SequenceTheorems

(* In Types nlink is only an integer: that it is not negative needs NameInv.  *)
Ops    == Kinds \cup {"link to"}
Makes  == {"create", "mkdir"}
Places == {"user", "walk", "act", "exists", "new", "remove", "removed", "link bad"}
Words  == Names \cup {".."}
Drop2  == {<<>>} \cup {<<i>> : i \in Inums} \cup {<<i, j>> : i, j \in Inums}

Types ==
  /\ type \in [Inums -> {"free", "file", "dir"}] /\ nlink \in [Inums -> Int]
  /\ entries \in [Inums -> [Names -> Entry]] /\ dotdot \in [Inums -> Entry]
  /\ ref \in [Inums -> Nat] /\ valid \in [Inums -> BOOLEAN]
  /\ lock \in [Inums -> Procs \cup {None}]
  /\ cwd \in [Procs -> Inums] /\ file \in [Procs -> Entry]
  /\ pc \in [Procs -> Places] /\ op \in [Procs -> Ops \cup {None}]
  /\ ip \in [Procs -> Entry] /\ other \in [Procs -> Entry]
  /\ drop \in [Procs -> Drop2]
  /\ path \in [Procs -> Seq(Words)]

(* What a call has in hand at which place.                                    *)
Stage(p) ==
  /\ pc[p] = "user" => op[p] = None /\ ip[p] = None /\ other[p] = None
  /\ pc[p] # "user" => op[p] \in Ops
  /\ pc[p] \in {"walk", "act"} => ip[p] \in Inums /\ (other[p] # None <=> op[p] = "link to")
  /\ pc[p] \in {"exists", "removed", "link bad"} => ip[p] = None /\ other[p] # None
  /\ pc[p] \in {"new", "remove"} => ip[p] # None /\ other[p] # None /\ drop[p] = <<>>
  /\ pc[p] \in {"exists", "new"} => op[p] \in Makes
  /\ pc[p] \in {"remove", "removed"} => op[p] = "unlink"
  /\ pc[p] = "link bad" => op[p] = "link to"
  /\ pc[p] = "walk" => path[p] # <<>>
  /\ pc[p] = "act" /\ op[p] \in Wants => Len(path[p]) = 1 /\ drop[p] = <<>>
  /\ pc[p] \in {"new", "remove"} => Len(path[p]) = 1
  /\ pc[p] = "removed" => (drop[p] # <<>> => Len(drop[p]) = 1 /\ Head(drop[p]) # other[p])
  /\ op[p] \in {"open", "create"} => file[p] = None
Stages == \A p \in Procs : Stage(p)

(* Who holds an inode's lock between two steps.                               *)
Holds(p, i) ==
  \/ pc[p] \in {"new", "remove"} /\ ip[p] = i
  \/ pc[p] = "removed" /\ other[p] = i
  \/ drop[p] # <<>> /\ Head(drop[p]) = i
Holder(p) ==
  /\ \A i \in Inums : lock[i] = p => Holds(p, i)
  /\ pc[p] \in {"new", "remove"} => lock[ip[p]] = p
  /\ pc[p] = "removed" => lock[other[p]] = p
Holders == \A p \in Procs : Holder(p)

RefInv == Types /\ Stages /\ Holders /\ RefsExact

-----------------------------------------------------------------------------
One(b) == IF b THEN 1 ELSE 0

(* Counting: a set split into what is of p, or of one entry, and the rest.     *)
(* The references that p has to i, and those of the other processes.          *)
InDrop(d, i) == One(Len(d) >= 1 /\ d[1] = i) + One(Len(d) >= 2 /\ d[2] = i)
Is(x, i) == One(x = i)
Mine(p, i) == Is(cwd[p], i) + Is(file[p], i) + Is(ip[p], i) + Is(other[p], i) + InDrop(drop[p], i)
With(Q, f, i)  == {q \in Q : f[q] = i}
Drop(Q, i)     == {x \in Q \X (1 .. 3) : x[2] <= Len(drop[x[1]]) /\ drop[x[1]][x[2]] = i}
Rest(p, i) ==
  LET Q == Procs \ {p} IN
  Cardinality(With(Q, cwd, i)) + Cardinality(With(Q, file, i)) + Cardinality(With(Q, ip, i))
  + Cardinality(With(Q, other, i)) + Cardinality(Drop(Q, i))

LEMMA Finite ==
  IsFiniteSet(Procs) /\ IsFiniteSet(Names) /\ IsFiniteSet(Inums) /\ IsFiniteSet(Inums \X Names)
<1>1. IsFiniteSet(Procs) /\ IsFiniteSet(Names) /\ 1 \in Int /\ NINODES \in Int BY InodesAssumption
<1>2. IsFiniteSet(Inums) BY <1>1, FS_Interval DEF Inums
<1>3. QED BY <1>1, <1>2, FS_Product

LEMMA AddOne ==
  ASSUME NEW S, NEW T, NEW x, NEW b \in BOOLEAN, IsFiniteSet(T), x \notin T,
         S = IF b THEN T \cup {x} ELSE T
  PROVE  IsFiniteSet(S) /\ Cardinality(S) = Cardinality(T) + One(b) /\ Cardinality(T) \in Nat
BY FS_AddElement, FS_CardinalityType DEF One

LEMMA SplitOne ==
  ASSUME NEW f, NEW i, NEW p \in Procs
  PROVE  /\ IsFiniteSet(With(Procs \ {p}, f, i)) /\ Cardinality(With(Procs \ {p}, f, i)) \in Nat
         /\ Cardinality(With(Procs, f, i)) = Cardinality(With(Procs \ {p}, f, i)) + One(f[p] = i)
<1> DEFINE S == With(Procs, f, i)  T == With(Procs \ {p}, f, i)
<1>1. IsFiniteSet(T) BY InodesAssumption, FS_Subset DEF With
<1>2. S = IF f[p] = i THEN T \cup {p} ELSE T BY DEF With
<1>3. p \notin T BY DEF With
<1> HIDE DEF S, T
<1>4. IsFiniteSet(S) /\ Cardinality(S) = Cardinality(T) + One(f[p] = i) /\ Cardinality(T) \in Nat
  BY <1>1, <1>2, <1>3, AddOne
<1>5. QED BY <1>1, <1>4 DEF S, T

LEMMA DropFacts ==
  ASSUME NEW d \in Drop2
  PROVE  /\ Len(d) \in 0 .. 2 /\ (d = <<>> <=> Len(d) = 0)
         /\ d # <<>> => /\ Head(d) = d[1] /\ Head(d) \in Inums /\ Tail(d) \in Drop2
                        /\ Len(Tail(d)) = Len(d) - 1
                        /\ Len(d) = 2 => Tail(d)[1] = d[2]
         /\ Len(d) = 2 => d[1] \in Inums /\ d[2] \in Inums
<1>1. CASE d = <<>> BY <1>1
<1>2. CASE \E i \in Inums : d = <<i>>
  <2>1. PICK i \in Inums : d = <<i>> BY <1>2
  <2>2. Tail(d) = <<>> BY <2>1
  <2>3. Len(d) = 1 /\ Head(d) = i /\ d[1] = i /\ Tail(d) \in Drop2 BY <2>1, <2>2 DEF Drop2
  <2>4. QED BY <2>1, <2>2, <2>3
<1>3. CASE \E i, j \in Inums : d = <<i, j>>
  <2>1. PICK i, j \in Inums : d = <<i, j>> BY <1>3
  <2>2. Tail(d) = <<j>> BY <2>1
  <2>3. Len(d) = 2 /\ Head(d) = i /\ d[1] = i /\ d[2] = j /\ Tail(d) \in Drop2 BY <2>1, <2>2 DEF Drop2
  <2>4. QED BY <2>1, <2>2, <2>3
<1>4. QED BY <1>1, <1>2, <1>3 DEF Drop2

LEMMA Three == IsFiniteSet(1 .. 3)
<1>1. \A n \in Int : IsFiniteSet(1 .. n) BY FS_Interval
<1>2. PICK n \in Int : n = 3 OBVIOUS
<1>3. IsFiniteSet(1 .. n) BY <1>1
<1>4. QED BY <1>2, <1>3

LEMMA SplitDrops ==
  ASSUME NEW p \in Procs, NEW i, drop[p] \in Drop2
  PROVE  /\ IsFiniteSet(Drop(Procs \ {p}, i)) /\ Cardinality(Drop(Procs \ {p}, i)) \in Nat
         /\ Cardinality(Drop(Procs, i)) = Cardinality(Drop(Procs \ {p}, i)) + InDrop(drop[p], i)
<1> DEFINE S == Drop(Procs, i)  T == Drop(Procs \ {p}, i)
           a == Len(drop[p]) >= 1 /\ drop[p][1] = i
           b == Len(drop[p]) >= 2 /\ drop[p][2] = i
           U == IF a THEN T \cup {<<p, 1>>} ELSE T
<1>1. IsFiniteSet((Procs \ {p}) \X (1 .. 3))
  <2>1. IsFiniteSet(Procs \ {p}) BY InodesAssumption, FS_Subset
  <2>2. IsFiniteSet(1 .. 3) BY Three
  <2>3. QED BY <2>1, <2>2, FS_Product
<1>2. IsFiniteSet(T) BY <1>1, FS_Subset DEF Drop
<1>3. Len(drop[p]) \in 0 .. 2 BY DropFacts
<1>4. <<p, 1>> \notin T /\ <<p, 2>> \notin T /\ <<p, 1>> # <<p, 2>>
  <2>1. \A x \in T : x[1] # p BY DEF Drop
  <2>2. <<p, 1>>[1] = p /\ <<p, 2>>[1] = p /\ <<p, 1>>[2] # <<p, 2>>[2] OBVIOUS
  <2>3. QED BY <2>1, <2>2
<1>5. S = IF b THEN U \cup {<<p, 2>>} ELSE U
  <2>1. \A x \in S : x \in IF b THEN U \cup {<<p, 2>>} ELSE U
    <3> TAKE x \in S
    <3>1. PICK q \in Procs, k \in 1 .. 3 : x = <<q, k>> /\ k <= Len(drop[q]) /\ drop[q][k] = i BY DEF Drop
    <3>2. CASE q # p BY <3>1, <3>2 DEF Drop
    <3>3. CASE q = p
      <4>1. k = 1 \/ k = 2 BY <1>3, <3>1, <3>3
      <4>2. QED BY <3>1, <3>3, <4>1, <1>3
    <3>4. QED BY <3>2, <3>3
  <2>2. T \subseteq S BY DEF Drop
  <2>3. a => <<p, 1>> \in S BY <1>3 DEF Drop
  <2>4. b => <<p, 2>> \in S BY <1>3 DEF Drop
  <2>5. QED BY <2>1, <2>2, <2>3, <2>4
<1>6. U = IF a THEN T \cup {<<p, 1>>} ELSE T OBVIOUS
<1>7. <<p, 2>> \notin U BY <1>4
<1>8. a \in BOOLEAN /\ b \in BOOLEAN BY <1>3
<1> HIDE DEF S, T, U, a, b
<1>9. IsFiniteSet(U) /\ Cardinality(U) = Cardinality(T) + One(a) /\ Cardinality(T) \in Nat
  BY <1>2, <1>4, <1>6, <1>8, AddOne
<1>10. IsFiniteSet(S) /\ Cardinality(S) = Cardinality(U) + One(b) BY <1>5, <1>7, <1>8, <1>9, AddOne
<1>11. One(a) + One(b) = InDrop(drop[p], i) BY DEF InDrop, a, b
<1>12. One(a) \in Nat /\ One(b) \in Nat BY DEF One
<1>13. QED BY <1>2, <1>9, <1>10, <1>11, <1>12 DEF S, T

LEMMA RefSplit ==
  ASSUME Types, NEW p \in Procs, NEW i
  PROVE  Rest(p, i) \in Nat /\ Mine(p, i) \in Nat /\ Users(i) + Drops(i) = Rest(p, i) + Mine(p, i)
<1> DEFINE Q == Procs \ {p}
           A == Cardinality(With(Q, cwd, i))  B == Cardinality(With(Q, file, i))
           C == Cardinality(With(Q, ip, i))  D == Cardinality(With(Q, other, i))
           E == Cardinality(Drop(Q, i))
<1>1. Cardinality(With(Procs, cwd, i)) = A + One(cwd[p] = i) /\ A \in Nat BY SplitOne
<1>2. Cardinality(With(Procs, file, i)) = B + One(file[p] = i) /\ B \in Nat BY SplitOne
<1>3. Cardinality(With(Procs, ip, i)) = C + One(ip[p] = i) /\ C \in Nat BY SplitOne
<1>4. Cardinality(With(Procs, other, i)) = D + One(other[p] = i) /\ D \in Nat BY SplitOne
<1>5. /\ Drops(i) = E + InDrop(drop[p], i)
      /\ E \in Nat
  <2>1. drop[p] \in Drop2 BY DEF Types
  <2>2. Drops(i) = Cardinality(Drop(Procs, i)) BY DEF Drops, Drop
  <2>3. QED BY <2>1, <2>2, SplitDrops
<1>6. Rest(p, i) = A + B + C + D + E BY DEF Rest
<1> HIDE DEF A, B, C, D, E
<1>7. (\A b : One(b) \in Nat) /\ InDrop(drop[p], i) \in Nat BY DEF One, InDrop
<1>8. Users(i) = (A + One(cwd[p] = i)) + (B + One(file[p] = i)) + (C + One(ip[p] = i)) + (D + One(other[p] = i))
  <2>1. Users(i) = Cardinality(With(Procs, cwd, i)) + Cardinality(With(Procs, file, i))
                 + Cardinality(With(Procs, ip, i)) + Cardinality(With(Procs, other, i)) BY DEF Users, With
  <2>2. QED BY <2>1, <1>1, <1>2, <1>3, <1>4
<1>9. QED BY <1>1, <1>2, <1>3, <1>4, <1>5, <1>6, <1>7, <1>8 DEF Mine, Is

(* The others' part of their calls stays.                                     *)
Alone(p) == \A q \in Procs \ {p} :
  /\ pc'[q] = pc[q] /\ op'[q] = op[q] /\ path'[q] = path[q] /\ cwd'[q] = cwd[q] /\ file'[q] = file[q]
  /\ ip'[q] = ip[q] /\ other'[q] = other[q] /\ drop'[q] = drop[q]

LEMMA RefStep ==
  ASSUME NEW p \in Procs, Alone(p), NEW i
  PROVE  Rest(p, i)' = Rest(p, i)
<1> DEFINE Q == Procs \ {p}
<1>1. With(Q, cwd', i) = With(Q, cwd, i) /\ With(Q, file', i) = With(Q, file, i) BY DEF Alone, With
<1>2. With(Q, ip', i) = With(Q, ip, i) /\ With(Q, other', i) = With(Q, other, i) BY DEF Alone, With
<1>3. Drop(Q, i)' = Drop(Q, i)
  <2>1. \A x \in Q \X (1 .. 3) : drop'[x[1]] = drop[x[1]] BY DEF Alone
  <2>2. QED BY <2>1 DEF Drop
<1>4. QED BY <1>1, <1>2, <1>3 DEF Rest

(* ref changes by what the references of p do.                                *)
LEMMA RefsStep ==
  ASSUME Types, Types', RefsExact, NEW p \in Procs, Alone(p),
         \A i \in Inums : ref'[i] + Mine(p, i) = ref[i] + Mine(p, i)'
  PROVE  RefsExact'
<1>1. ASSUME NEW i \in Inums PROVE ref'[i] = (Users(i) + Drops(i))'
  <2>1. ref[i] = Rest(p, i) + Mine(p, i) /\ Rest(p, i) \in Nat /\ Mine(p, i) \in Nat
    BY RefSplit DEF RefsExact
  <2>2. (Users(i) + Drops(i))' = Rest(p, i)' + Mine(p, i)' /\ Mine(p, i)' \in Nat
    <3>1. Types' => (Users(i) + Drops(i) = Rest(p, i) + Mine(p, i) /\ Mine(p, i) \in Nat)' BY RefSplit, PTL
    <3>2. QED BY <3>1
  <2>3. Rest(p, i)' = Rest(p, i) BY RefStep
  <2>4. ref'[i] \in Nat BY DEF Types
  <2>5. QED BY <2>1, <2>2, <2>3, <2>4
<1>2. QED BY <1>1 DEF RefsExact

LEMMA SoleUser ==
  ASSUME Types, RefsExact, NEW p \in Procs, NEW q \in Procs \ {p}, NEW i \in Inums,
         Mine(q, i) > 0
  PROVE  ref[i] > Mine(p, i)
<1> DEFINE Q == Procs \ {p}
           A == With(Q, cwd, i)  B == With(Q, file, i)  C == With(Q, ip, i)  D == With(Q, other, i)
           E == Drop(Q, i)
<1>1. /\ IsFiniteSet(A) /\ Cardinality(A) \in Nat /\ IsFiniteSet(B) /\ Cardinality(B) \in Nat
      /\ IsFiniteSet(C) /\ Cardinality(C) \in Nat /\ IsFiniteSet(D) /\ Cardinality(D) \in Nat
  BY SplitOne
<1>2. IsFiniteSet(E) /\ Cardinality(E) \in Nat
  <2>1. drop[p] \in Drop2 BY DEF Types
  <2>2. QED BY <2>1, SplitDrops
<1>3. q \in A \/ q \in B \/ q \in C \/ q \in D \/ <<q, 1>> \in E \/ <<q, 2>> \in E
  <2>1. drop[q] \in Drop2 BY DEF Types
  <2>2. Len(drop[q]) \in 0 .. 2 BY <2>1, DropFacts
  <2>3. QED BY <2>2 DEF Mine, Is, InDrop, One, With, Drop
<1>4. Rest(p, i) = Cardinality(A) + Cardinality(B) + Cardinality(C) + Cardinality(D) + Cardinality(E)
  BY DEF Rest
<1> HIDE DEF A, B, C, D, E
<1>5. Cardinality(A) > 0 \/ Cardinality(B) > 0 \/ Cardinality(C) > 0 \/ Cardinality(D) > 0 \/ Cardinality(E) > 0
  BY <1>1, <1>2, <1>3, FS_EmptySet
<1>6. Rest(p, i) > 0 BY <1>1, <1>2, <1>4, <1>5
<1>7. QED BY <1>6, RefSplit DEF RefsExact

(* What nlink counts: an entry that is a directory, a call that is one off.   *)
IsDir(j)  == j # None /\ type[j] = "dir"
Off(p, i) == other[p] = i /\ (op[p] = "link to" \/ pc[p] = "removed")

(* All entries but the one for n in d stay.                                   *)
Except(d, n) == \A e \in Inums, m \in Names : e # d \/ m # n => entries'[e][m] = entries[e][m]

NameSet(E, i)   == {x \in Inums \X Names : E[x[1]][x[2]] = i}
NameRest(E, i, d, n) == NameSet(E, i) \ {<<d, n>>}
SubdirSet(E, i) == {n \in Names : E[i][n] # None /\ type[E[i][n]] = "dir"}
SubdirRest(E, d, n) == SubdirSet(E, d) \ {n}

LEMMA CountTypes ==
  ASSUME NEW i \in Inums
  PROVE  NamesOf(i) \in Nat /\ Subdirs(i) \in Nat /\ OneOff(i) \in Nat
<1>2. IsFiniteSet(Inums \X Names) BY Finite
<1>3. IsFiniteSet(NameSet(entries, i)) BY <1>2, FS_Subset DEF NameSet
<1>4. IsFiniteSet(SubdirSet(entries, i)) BY Finite, FS_Subset DEF SubdirSet
<1>5. IsFiniteSet({p \in Procs : Off(p, i)}) BY Finite, FS_Subset
<1>6. /\ NamesOf(i) = Cardinality(NameSet(entries, i)) /\ Subdirs(i) = Cardinality(SubdirSet(entries, i))
      /\ OneOff(i) = Cardinality({p \in Procs : Off(p, i)})
  BY DEF NamesOf, NameSet, Subdirs, SubdirSet, OneOff, Off
<1>7. QED BY <1>3, <1>4, <1>5, <1>6, FS_CardinalityType

LEMMA NameSplit ==
  ASSUME NEW E, NEW d \in Inums, NEW n \in Names, NEW i \in Inums
  PROVE  /\ Cardinality(NameRest(E, i, d, n)) \in Nat
         /\ Cardinality(NameSet(E, i)) = Cardinality(NameRest(E, i, d, n)) + One(E[d][n] = i)
<1> DEFINE S == NameSet(E, i)  T == S \ {<<d, n>>}
<1>2. IsFiniteSet(Inums \X Names) BY Finite
<1>3. IsFiniteSet(S) BY <1>2, FS_Subset DEF NameSet
<1>4. IsFiniteSet(T) BY <1>3, FS_Subset
<1>5. <<d, n>> \in S <=> E[d][n] = i BY DEF NameSet
<1>6. S = IF E[d][n] = i THEN T \cup {<<d, n>>} ELSE T BY <1>5
<1>7. <<d, n>> \notin T OBVIOUS
<1> HIDE DEF S, T
<1>8. Cardinality(S) = Cardinality(T) + One(E[d][n] = i) /\ Cardinality(T) \in Nat
  BY <1>4, <1>6, <1>7, AddOne
<1>9. T = NameRest(E, i, d, n) BY DEF S, T, NameRest
<1>10. QED BY <1>8, <1>9 DEF S

LEMMA NamesStep ==
  ASSUME NEW d \in Inums, NEW n \in Names, Except(d, n), NEW i \in Inums
  PROVE  /\ NamesOf(i)' + One(entries[d][n] = i) = NamesOf(i) + One(entries'[d][n] = i)
         /\ NamesOf(i)' \in Nat
<1> DEFINE T == NameRest(entries, i, d, n)  U == NameRest(entries', i, d, n)
<1>1. T = U
  <2>1. ASSUME NEW e \in Inums, NEW m \in Names PROVE <<e, m>> \in T <=> <<e, m>> \in U
    BY DEF NameRest, NameSet, Except
  <2>2. \A x \in T \cup U : \E e \in Inums, m \in Names : x = <<e, m>> BY DEF NameRest, NameSet
  <2>3. QED BY <2>1, <2>2
<1>2. /\ NamesOf(i) = Cardinality(NameSet(entries, i)) /\ NamesOf(i)' = Cardinality(NameSet(entries', i))
  BY DEF NamesOf, NameSet
<1>3. Cardinality(NameSet(entries, i)) = Cardinality(T) + One(entries[d][n] = i) /\ Cardinality(T) \in Nat
  BY NameSplit
<1>4. Cardinality(NameSet(entries', i)) = Cardinality(U) + One(entries'[d][n] = i) BY NameSplit
<1> HIDE DEF T, U
<1>5. One(entries[d][n] = i) \in Nat /\ One(entries'[d][n] = i) \in Nat BY DEF One
<1>6. QED BY <1>1, <1>2, <1>3, <1>4, <1>5

LEMMA SubdirSplit ==
  ASSUME NEW E, NEW d \in Inums, NEW n \in Names, NEW b \in BOOLEAN,
         b <=> E[d][n] # None /\ type[E[d][n]] = "dir"
  PROVE  /\ Cardinality(SubdirRest(E, d, n)) \in Nat
         /\ Cardinality(SubdirSet(E, d)) = Cardinality(SubdirRest(E, d, n)) + One(b)
<1> DEFINE S == SubdirSet(E, d)  T == S \ {n}
<1>1. IsFiniteSet(S) BY Finite, FS_Subset DEF SubdirSet
<1>2. IsFiniteSet(T) BY <1>1, FS_Subset
<1>3. n \in S <=> b BY DEF SubdirSet
<1>4. S = IF b THEN T \cup {n} ELSE T BY <1>3
<1>5. n \notin T OBVIOUS
<1> HIDE DEF S, T
<1>6. Cardinality(S) = Cardinality(T) + One(b) /\ Cardinality(T) \in Nat BY <1>2, <1>4, <1>5, AddOne
<1>7. T = SubdirRest(E, d, n) BY DEF S, T, SubdirRest
<1>8. QED BY <1>6, <1>7 DEF S

LEMMA SubdirsStep ==
  ASSUME NEW d \in Inums, NEW n \in Names, Except(d, n), type' = type, NEW i \in Inums
  PROVE  /\ i # d => Subdirs(i)' = Subdirs(i)
         /\ Subdirs(d)' + One(IsDir(entries[d][n])) = Subdirs(d) + One(IsDir(entries'[d][n]))
         /\ Subdirs(i)' \in Nat
<1>1. \A j \in Inums : /\ Subdirs(j) = Cardinality(SubdirSet(entries, j))
                       /\ Subdirs(j)' = Cardinality(SubdirSet(entries', j))
  BY DEF Subdirs, SubdirSet
<1>2. i # d => SubdirSet(entries', i) = SubdirSet(entries, i) BY DEF SubdirSet, Except
<1>3. SubdirRest(entries', d, n) = SubdirRest(entries, d, n) BY DEF SubdirRest, SubdirSet, Except
<1> DEFINE T == SubdirRest(entries, d, n)
           a == IsDir(entries[d][n])  b == IsDir(entries'[d][n])
<1>a. a \in BOOLEAN /\ b \in BOOLEAN BY DEF IsDir
<1>4. Cardinality(SubdirSet(entries, d)) = Cardinality(T) + One(a) /\ Cardinality(T) \in Nat
  <2>1. a <=> entries[d][n] # None /\ type[entries[d][n]] = "dir" BY DEF IsDir
  <2> HIDE DEF a
  <2>2. QED BY <1>a, <2>1, SubdirSplit
<1>5. Cardinality(SubdirSet(entries', d)) = Cardinality(T) + One(b)
  <2>1. b <=> entries'[d][n] # None /\ type[entries'[d][n]] = "dir" BY DEF IsDir
  <2> HIDE DEF b
  <2>2. QED BY <1>a, <1>3, <2>1, SubdirSplit
<1>6. One(a) \in Nat /\ One(b) \in Nat BY DEF One
<1>7. Subdirs(i) \in Nat BY CountTypes
<1> HIDE DEF T, a, b
<1>8. Subdirs(d)' + One(a) = Subdirs(d) + One(b) /\ Subdirs(d)' \in Nat BY <1>1, <1>4, <1>5, <1>6
<1>9. i # d => Subdirs(i)' = Subdirs(i) BY <1>1, <1>2
<1>10. QED BY <1>7, <1>8, <1>9 DEF a, b

LEMMA OffStep ==
  ASSUME NEW p \in Procs, Alone(p), NEW i \in Inums
  PROVE  /\ OneOff(i)' + One(Off(p, i)) = OneOff(i) + One(Off(p, i)')
         /\ OneOff(i)' \in Nat
<1> DEFINE S == {q \in Procs : Off(q, i)}  T == {q \in Procs \ {p} : Off(q, i)}
           U == {q \in Procs : Off(q, i)'}  a == Off(p, i)  b == Off(p, i)'
<1>1. IsFiniteSet(T) BY Finite, FS_Subset
<1>2. S = IF a THEN T \cup {p} ELSE T OBVIOUS
<1>3. U = IF b THEN T \cup {p} ELSE T BY DEF Alone, Off
<1>4. p \notin T /\ a \in BOOLEAN /\ b \in BOOLEAN BY DEF Off
<1>5. OneOff(i) = Cardinality(S) /\ OneOff(i)' = Cardinality(U) BY DEF OneOff, Off
<1> HIDE DEF S, T, U, a, b
<1>6. Cardinality(S) = Cardinality(T) + One(a) /\ Cardinality(T) \in Nat BY <1>1, <1>2, <1>4, AddOne
<1>7. Cardinality(U) = Cardinality(T) + One(b) BY <1>1, <1>3, <1>4, AddOne
<1>8. One(a) \in Nat /\ One(b) \in Nat BY DEF One
<1>9. QED BY <1>5, <1>6, <1>7, <1>8 DEF a, b

(* What is there is counted.                                                  *)
LEMMA CountPositive ==
  ASSUME NEW i \in Inums
  PROVE  /\ NamesOf(i) > 0 <=> \E d \in Inums, n \in Names : entries[d][n] = i
         /\ Subdirs(i) > 0 <=> \E n \in Names : IsDir(entries[i][n])
         /\ OneOff(i) > 0 <=> \E p \in Procs : Off(p, i)
<1>1. ASSUME NEW S, IsFiniteSet(S) PROVE Cardinality(S) > 0 <=> \E x \in S : TRUE
  BY <1>1, FS_EmptySet, FS_CardinalityType
<1>3. IsFiniteSet(Inums \X Names) BY Finite
<1>4. IsFiniteSet(NameSet(entries, i)) BY <1>3, FS_Subset DEF NameSet
<1>5. IsFiniteSet(SubdirSet(entries, i)) BY Finite, FS_Subset DEF SubdirSet
<1>6. IsFiniteSet({p \in Procs : Off(p, i)}) BY Finite, FS_Subset
<1>7. /\ NamesOf(i) = Cardinality(NameSet(entries, i)) /\ Subdirs(i) = Cardinality(SubdirSet(entries, i))
      /\ OneOff(i) = Cardinality({p \in Procs : Off(p, i)})
  BY DEF NamesOf, NameSet, Subdirs, SubdirSet, OneOff, Off
<1>8. (\E x \in NameSet(entries, i) : TRUE) <=> \E d \in Inums, n \in Names : entries[d][n] = i
  <2>1. \A x \in NameSet(entries, i) : \E d \in Inums, n \in Names : x = <<d, n>> /\ entries[d][n] = i
    BY DEF NameSet
  <2>2. \A d \in Inums, n \in Names : entries[d][n] = i => <<d, n>> \in NameSet(entries, i) BY DEF NameSet
  <2>3. QED BY <2>1, <2>2
<1>9. (\E x \in SubdirSet(entries, i) : TRUE) <=> \E n \in Names : IsDir(entries[i][n])
  BY DEF SubdirSet, IsDir
<1>10. QED BY <1>1, <1>4, <1>5, <1>6, <1>7, <1>8, <1>9

-----------------------------------------------------------------------------
(* A step of p: of the locks it changes its own, of ref its own references.   *)
Locks(p) == \A i \in Inums : lock'[i] # lock[i] => lock[i] \in {p, None} /\ lock'[i] \in {p, None}
Refs(p)  == \A i \in Inums : ref'[i] + Mine(p, i) = ref[i] + Mine(p, i)'
Step(p)  == Alone(p) /\ Types' /\ Stage(p)' /\ Holder(p)' /\ Locks(p) /\ Refs(p)

LEMMA DropValues ==
  /\ <<>> \in Drop2 /\ Len(<<>>) = 0 /\ \A k : InDrop(<<>>, k) = 0
  /\ \A i \in Inums : /\ <<i>> \in Drop2 /\ <<i>> # <<>> /\ Head(<<i>>) = i /\ Len(<<i>>) = 1
                      /\ \A k : InDrop(<<i>>, k) = Is(i, k)
  /\ \A i, j \in Inums : /\ <<i, j>> \in Drop2 /\ <<i, j>> # <<>> /\ Head(<<i, j>>) = i
                         /\ Len(<<i, j>>) = 2
                         /\ \A k : InDrop(<<i, j>>, k) = Is(i, k) + Is(j, k)
BY DEF Drop2, InDrop, Is, One

LEMMA DropTail ==
  ASSUME NEW d \in Drop2, d # <<>>, NEW k
  PROVE  InDrop(Tail(d), k) + Is(Head(d), k) = InDrop(d, k) /\ InDrop(Tail(d), k) \in Nat
<1>1. CASE \E i \in Inums : d = <<i>>
  <2>1. PICK i \in Inums : d = <<i>> BY <1>1
  <2>2. Tail(d) = <<>> /\ Head(d) = i BY <2>1
  <2>a. InDrop(<<i>>, k) = Is(i, k) /\ InDrop(<<>>, k) = 0 BY DropValues
  <2>b. InDrop(d, k) = InDrop(<<i>>, k) BY <2>1
  <2>3. InDrop(d, k) = Is(i, k) /\ InDrop(<<>>, k) = 0 BY <2>a, <2>b
  <2>4. Is(i, k) \in Nat BY DEF Is, One
  <2>5. InDrop(Tail(d), k) = InDrop(<<>>, k) /\ Is(Head(d), k) = Is(i, k) BY <2>2
  <2>6. QED BY <2>3, <2>4, <2>5
<1>2. CASE \E i, j \in Inums : d = <<i, j>>
  <2>1. PICK i, j \in Inums : d = <<i, j>> BY <1>2
  <2>2. Tail(d) = <<j>> /\ Head(d) = i BY <2>1
  <2>a. InDrop(<<i, j>>, k) = Is(i, k) + Is(j, k) /\ InDrop(<<j>>, k) = Is(j, k) BY DropValues
  <2>b. InDrop(d, k) = InDrop(<<i, j>>, k) BY <2>1
  <2>3. InDrop(d, k) = Is(i, k) + Is(j, k) /\ InDrop(<<j>>, k) = Is(j, k) BY <2>a, <2>b
  <2>4. Is(i, k) \in Nat /\ Is(j, k) \in Nat BY DEF Is, One
  <2>5. InDrop(Tail(d), k) = InDrop(<<j>>, k) /\ Is(Head(d), k) = Is(i, k) BY <2>2
  <2>6. QED BY <2>3, <2>4, <2>5
<1>3. QED BY <1>1, <1>2 DEF Drop2

LEMMA InumFacts == None \notin Inums /\ Root \in Inums /\ None \notin Procs /\ Entry = Inums \cup {None}
BY InodesAssumption DEF Inums, Root, Entry

LEMMA StepKeeps ==
  ASSUME RefInv, NEW p \in Procs, Step(p)
  PROVE  RefInv'
<1>1. Stages'
  <2>1. ASSUME NEW q \in Procs \ {p} PROVE Stage(q)'
    <3>1. /\ pc'[q] = pc[q] /\ op'[q] = op[q] /\ path'[q] = path[q] /\ file'[q] = file[q]
          /\ ip'[q] = ip[q] /\ other'[q] = other[q] /\ drop'[q] = drop[q]
      BY DEF Step, Alone
    <3>2. Stage(q) BY DEF RefInv, Stages
    <3>3. QED BY <3>1, <3>2 DEF Stage
  <2>2. QED BY <2>1 DEF Stages, Step
<1>2. Holders'
  <2>1. ASSUME NEW q \in Procs \ {p} PROVE Holder(q)'
    <3>1. \A i \in Inums : lock'[i] = q <=> lock[i] = q BY InumFacts DEF Step, Locks
    <3>2. /\ pc'[q] = pc[q] /\ ip'[q] = ip[q] /\ other'[q] = other[q] /\ drop'[q] = drop[q]
      BY DEF Step, Alone
    <3>3. Holder(q) /\ Stage(q) /\ ip[q] \in Entry /\ other[q] \in Entry
      BY DEF RefInv, Holders, Stages, Types
    <3>4. pc[q] \in {"new", "remove"} => ip[q] \in Inums BY <3>3 DEF Stage, Entry
    <3>5. pc[q] = "removed" => other[q] \in Inums BY <3>3 DEF Stage, Entry
    <3>6. QED BY <3>1, <3>2, <3>3, <3>4, <3>5 DEF Holder, Holds
  <2>2. QED BY <2>1 DEF Holders, Step
<1>3. RefsExact' BY RefsStep DEF RefInv, Step, Refs
<1>4. QED BY <1>1, <1>2, <1>3 DEF RefInv, Step

LEMMA IputRef ==
  ASSUME RefInv, NEW p \in Procs, iput(p)
  PROVE  Step(p)
<1> DEFINE d == drop[p]  i == Head(drop[p])
<1>0. Types /\ Stage(p) /\ Holder(p) /\ d \in Drop2 /\ d # <<>>
  BY DEF RefInv, Stages, Holders, Types, iput
<1>1. i \in Inums /\ Tail(d) \in Drop2 /\ Len(Tail(d)) = Len(d) - 1 /\ Len(d) \in 1 .. 2 BY <1>0, DropFacts
<1>2. Alone(p) /\ UNCHANGED <<cwd, file, ip, other, pc, op, path, type, nlink, entries, dotdot>>
  <2>1. UNCHANGED <<cwd, file, ip, other, pc, op, path, type, nlink, entries, dotdot>>
    BY DEF iput, diskVars, procVars
  <2>2. drop' = drop \/ drop' = [drop EXCEPT ![p] = Tail(d)] BY DEF iput, Set
  <2>3. \A q \in Procs \ {p} : drop'[q] = drop[q] BY <1>0, <2>2 DEF Types
  <2>4. QED BY <2>1, <2>3 DEF Alone
<1>3. CASE LastOne(i)
  <2>1. lock[i] = None /\ lock' = [lock EXCEPT ![i] = p] /\ UNCHANGED <<ref, valid, drop>>
    BY <1>3 DEF iput, CanLock, Set
  <2>2. Types' BY <1>0, <1>1, <1>2, <2>1 DEF Types
  <2>3. Stage(p)' BY <1>0, <1>2, <2>1 DEF Stage
  <2>4. Locks(p) BY <1>0, <1>1, <2>1 DEF Locks, Types
  <2>5. Holder(p)' BY <1>0, <1>1, <1>2, <2>1 DEF Holder, Holds, Types
  <2>6. Refs(p) BY <1>2, <2>1 DEF Refs, Mine
  <2>7. QED BY <1>2, <2>2, <2>3, <2>4, <2>5, <2>6 DEF Step
<1>4. CASE ~LastOne(i)
  <2>1. /\ ref' = [ref EXCEPT ![i] = @ - 1] /\ UNCHANGED lock
        /\ valid' = IF ref[i] = 1 THEN [valid EXCEPT ![i] = FALSE] ELSE valid
        /\ drop' = [drop EXCEPT ![p] = Tail(d)] /\ lock[i] # p
    BY <1>4 DEF iput, Set
  <2>2. ref[i] > 0
    <3>1. InDrop(d, i) > 0
      <4>1. InDrop(Tail(d), i) + Is(Head(d), i) = InDrop(d, i) /\ InDrop(Tail(d), i) \in Nat
        BY <1>0, DropTail
      <4>2. QED BY <4>1 DEF Is, One
    <3>2. Mine(p, i) > 0
      <4>1. \A x, k : Is(x, k) \in Nat BY DEF Is, One
      <4>2. InDrop(d, i) \in Nat BY DEF InDrop, Is, One
      <4>3. QED BY <3>1, <4>1, <4>2 DEF Mine
    <3>3. QED BY <3>2, <1>1, RefSplit DEF RefInv, RefsExact
  <2>3. ref' \in [Inums -> Nat] BY <1>0, <1>1, <2>1, <2>2 DEF Types
  <2>4. Types' BY <1>0, <1>1, <1>2, <2>1, <2>3 DEF Types
  <2>5. Stage(p)'
    <3>1. drop'[p] = Tail(d) BY <1>0, <2>1 DEF Types
    <3>2. Len(d) = 1 => Tail(d) = <<>>
      <4>1. Tail(d) = <<>> <=> Len(Tail(d)) = 0 BY <1>1, DropFacts
      <4>2. QED BY <1>1, <4>1
    <3>3. QED BY <1>0, <1>1, <1>2, <3>1, <3>2 DEF Stage
  <2>6. Holder(p)' BY <1>0, <1>1, <1>2, <2>1 DEF Holder, Holds, Types
  <2>7. Refs(p)
    <3>1. drop'[p] = Tail(d) BY <1>0, <2>1 DEF Types
    <3>2. ASSUME NEW k \in Inums PROVE ref'[k] + Mine(p, k) = ref[k] + Mine(p, k)'
      <4>1. InDrop(Tail(d), k) + Is(i, k) = InDrop(d, k) /\ InDrop(Tail(d), k) \in Nat BY <1>0, DropTail
      <4>2. ref'[k] + Is(i, k) = ref[k] /\ ref[k] \in Nat BY <1>0, <1>1, <2>1, <2>2 DEF Types, Is, One
      <4> DEFINE m == Is(cwd[p], k) + Is(file[p], k) + Is(ip[p], k) + Is(other[p], k)
      <4>3. Mine(p, k) = m + InDrop(d, k) BY DEF Mine
      <4>4. Mine(p, k)' = m + InDrop(Tail(d), k) BY <1>2, <3>1 DEF Mine
      <4>5. m \in Nat /\ Is(i, k) \in Nat BY DEF Is, One
      <4> HIDE DEF m
      <4>6. ref'[k] \in Nat BY <2>3
      <4>7. QED BY <4>1, <4>2, <4>3, <4>4, <4>5, <4>6
    <3>3. QED BY <3>2 DEF Refs
  <2>8. QED BY <1>2, <2>1, <2>4, <2>5, <2>6, <2>7 DEF Step, Locks
<1>5. QED BY <1>3, <1>4

LEMMA FreeRef ==
  ASSUME RefInv, NEW p \in Procs, Free(p)
  PROVE  Step(p)
<1> DEFINE i == Head(drop[p])
<1>0. Types /\ Stage(p) /\ Holder(p) /\ drop[p] \in Drop2 /\ drop[p] # <<>>
  BY DEF RefInv, Stages, Holders, Types, Free
<1>1. i \in Inums /\ Len(drop[p]) \in 1 .. 2 BY <1>0, DropFacts
<1>2. /\ Alone(p) /\ UNCHANGED <<cwd, file, ip, other, pc, op, path, nlink, drop, ref>>
      /\ lock[i] = p /\ lock' = [lock EXCEPT ![i] = None] /\ valid' = [valid EXCEPT ![i] = FALSE]
      /\ type' = [type EXCEPT ![i] = "free"] /\ dotdot' = [dotdot EXCEPT ![i] = None]
      /\ entries' = [entries EXCEPT ![i] = NoEntries]
  BY DEF Free, procVars, Alone, Set
<1>3. NoEntries \in [Names -> Entry] BY DEF NoEntries, Entry
<1>4. Types' BY <1>0, <1>1, <1>2, <1>3, InumFacts DEF Types
<1>5. Stage(p)' BY <1>0, <1>2 DEF Stage
<1>6. Locks(p) BY <1>0, <1>1, <1>2 DEF Locks, Types
<1>7. Holder(p)'
  <2>1. pc[p] \notin {"new", "remove"} BY <1>0 DEF Stage
  <2>2. pc[p] = "removed" => i # other[p] /\ other[p] \in Inums BY <1>0, InumFacts DEF Stage, Types
  <2>3. QED BY <1>0, <1>1, <1>2, <2>1, <2>2, InumFacts DEF Holder, Holds, Types
<1>8. Refs(p) BY <1>2 DEF Refs, Mine
<1>9. QED BY <1>2, <1>4, <1>5, <1>6, <1>7, <1>8 DEF Step

LEMMA NoDrop ==
  ASSUME NEW d, NEW k, d = <<>>
  PROVE  InDrop(d, k) = 0
<1>1. InDrop(<<>>, k) = 0 BY DEF InDrop, One
<1>2. QED BY <1>1

LEMMA OneDrop ==
  ASSUME NEW i, NEW d, NEW k, d = <<i>>
  PROVE  InDrop(d, k) = Is(i, k)
<1>1. InDrop(<<i>>, k) = Is(i, k) BY DEF InDrop, Is, One
<1>2. QED BY <1>1

LEMMA TwoDrops ==
  ASSUME NEW i, NEW j, NEW d, NEW k, d = <<i, j>>
  PROVE  InDrop(d, k) = Is(i, k) + Is(j, k)
<1>1. InDrop(<<i, j>>, k) = Is(i, k) + Is(j, k) BY DEF InDrop, Is, One
<1>2. QED BY <1>1

LEMMA DropIn ==
  <<>> \in Drop2 /\ (\A i \in Inums : <<i>> \in Drop2) /\ \A i, j \in Inums : <<i, j>> \in Drop2
BY DropValues

LEMMA NoneFacts == /\ None \notin Ops /\ \A k \in Inums : Is(None, k) = 0
BY CallsAssumption, InumFacts DEF Ops, Is, One

(* The state of calls and of the disk, in two halves.                         *)
CallTypes ==
  /\ pc \in [Procs -> Places] /\ op \in [Procs -> Ops \cup {None}]
  /\ ip \in [Procs -> Entry] /\ other \in [Procs -> Entry]
  /\ drop \in [Procs -> Drop2] /\ path \in [Procs -> Seq(Words)]
CallAlone(p) == \A q \in Procs \ {p} :
  /\ pc'[q] = pc[q] /\ op'[q] = op[q] /\ path'[q] = path[q]
  /\ ip'[q] = ip[q] /\ other'[q] = other[q] /\ drop'[q] = drop[q]

LEMMA ThenFacts ==
  ASSUME Types, NEW p \in Procs, NEW is \in Drop2, NEW l \in Places, Then(p, is, l)
  PROVE  /\ pc' \in [Procs -> Places] /\ pc'[p] = l /\ \A q \in Procs \ {p} : pc'[q] = pc[q]
         /\ drop' \in [Procs -> Drop2] /\ drop'[p] = is /\ \A q \in Procs \ {p} : drop'[q] = drop[q]
BY DEF Types, Then, Set

LEMMA GiveFacts ==
  ASSUME Types, NEW p \in Procs, NEW d \in Entry, NEW o \in Entry, Give(p, d, o)
  PROVE  /\ ip' \in [Procs -> Entry] /\ ip'[p] = d /\ \A q \in Procs \ {p} : ip'[q] = ip[q]
         /\ other' \in [Procs -> Entry] /\ other'[p] = o /\ \A q \in Procs \ {p} : other'[q] = other[q]
BY DEF Types, Give, Set

LEMMA OverFacts ==
  ASSUME Types, NEW p \in Procs, NEW is \in Drop2, Over(p, is)
  PROVE  /\ CallTypes' /\ CallAlone(p)
         /\ pc'[p] = "user" /\ drop'[p] = is /\ ip'[p] = None /\ other'[p] = None
         /\ op'[p] = None /\ path'[p] = <<>>
<1>1. Then(p, is, "user") /\ Give(p, None, None) BY DEF Over
<1>2. "user" \in Places /\ None \in Entry BY DEF Places, Entry
<1>3. /\ pc' \in [Procs -> Places] /\ pc'[p] = "user" /\ \A q \in Procs \ {p} : pc'[q] = pc[q]
      /\ drop' \in [Procs -> Drop2] /\ drop'[p] = is /\ \A q \in Procs \ {p} : drop'[q] = drop[q]
  BY <1>1, <1>2, ThenFacts
<1>4. /\ ip' \in [Procs -> Entry] /\ ip'[p] = None /\ \A q \in Procs \ {p} : ip'[q] = ip[q]
      /\ other' \in [Procs -> Entry] /\ other'[p] = None /\ \A q \in Procs \ {p} : other'[q] = other[q]
  BY <1>1, <1>2, GiveFacts
<1>5. /\ op' \in [Procs -> Ops \cup {None}] /\ op'[p] = None /\ \A q \in Procs \ {p} : op'[q] = op[q]
  BY DEF Over, Set, Types
<1>6. /\ path' \in [Procs -> Seq(Words)] /\ path'[p] = <<>> /\ \A q \in Procs \ {p} : path'[q] = path[q]
  <2>1. <<>> \in Seq(Words) OBVIOUS
  <2>2. path \in [Procs -> Seq(Words)] /\ path' = [path EXCEPT ![p] = <<>>] BY DEF Over, Set, Types
  <2>3. QED BY <2>1, <2>2
<1>7. QED BY <1>3, <1>4, <1>5, <1>6 DEF CallTypes, CallAlone

LEMMA FailFacts ==
  ASSUME Types, NEW p \in Procs, NEW is \in Drop2, Fail(p, is)
  PROVE  /\ CallTypes' /\ CallAlone(p) /\ drop'[p] = is /\ ip'[p] = None
         /\ \/ /\ op[p] # "link to" /\ pc'[p] = "user" /\ other'[p] = None
               /\ op'[p] = None /\ path'[p] = <<>>
            \/ /\ op[p] = "link to" /\ pc'[p] = "link bad" /\ other'[p] = other[p]
               /\ op' = op /\ path' = path
<1>1. CASE op[p] # "link to"
  <2>1. Over(p, is) BY <1>1 DEF Fail
  <2>2. QED BY <1>1, <2>1, OverFacts
<1>2. CASE op[p] = "link to"
  <2>1. Then(p, is, "link bad") /\ Give(p, None, other[p]) /\ op' = op /\ path' = path BY <1>2 DEF Fail
  <2>2. "link bad" \in Places /\ None \in Entry /\ other[p] \in Entry BY DEF Places, Entry, Types
  <2>3. /\ pc' \in [Procs -> Places] /\ pc'[p] = "link bad" /\ \A q \in Procs \ {p} : pc'[q] = pc[q]
        /\ drop' \in [Procs -> Drop2] /\ drop'[p] = is /\ \A q \in Procs \ {p} : drop'[q] = drop[q]
    BY <2>1, <2>2, ThenFacts
  <2>4. /\ ip' \in [Procs -> Entry] /\ ip'[p] = None /\ \A q \in Procs \ {p} : ip'[q] = ip[q]
        /\ other' \in [Procs -> Entry] /\ other'[p] = other[p] /\ \A q \in Procs \ {p} : other'[q] = other[q]
    BY <2>1, <2>2, GiveFacts
  <2>5. op' \in [Procs -> Ops \cup {None}] /\ path' \in [Procs -> Seq(Words)] BY <2>1 DEF Types
  <2>6. QED BY <1>2, <2>1, <2>3, <2>4, <2>5 DEF CallTypes, CallAlone
<1>3. QED BY <1>1, <1>2

LEMMA IgetFacts ==
  ASSUME Types, NEW i \in Inums
  PROVE  iget(i) \in [Inums -> Nat] /\ \A k \in Inums : iget(i)[k] = ref[k] + Is(i, k)
BY DEF Types, iget, Is, One

(* A step inside a call, that leaves cwd, file, lock and the names alone.     *)
CallStep(p) ==
  /\ CallTypes' /\ CallAlone(p)
  /\ UNCHANGED <<type, entries, dotdot, lock>>
  /\ nlink' \in [Inums -> Int] /\ valid' \in [Inums -> BOOLEAN]

LEMMA ValidFacts ==
  ASSUME Types, NEW i \in Inums, valid' = Set(valid, i, TRUE)
  PROVE  valid' \in [Inums -> BOOLEAN] /\ valid'[i] /\ \A k \in Inums \ {i} : valid'[k] = valid[k]
BY DEF Types, Set

LEMMA OneNat == (\A x, k : Is(x, k) \in Nat) /\ \A d, k : InDrop(d, k) \in Nat
<1>1. \A x, k : Is(x, k) \in Nat BY DEF Is, One
<1>2. QED BY DEF InDrop, One, Is

LEMMA MineStep ==
  ASSUME NEW p \in Procs, NEW k, UNCHANGED <<cwd, file>>
  PROVE  /\ Mine(p, k) = Is(cwd[p], k) + Is(file[p], k) + (Is(ip[p], k) + Is(other[p], k) + InDrop(drop[p], k))
         /\ Mine(p, k)' = Is(cwd[p], k) + Is(file[p], k) + (Is(ip'[p], k) + Is(other'[p], k) + InDrop(drop'[p], k))
         /\ Is(cwd[p], k) \in Nat /\ Is(file[p], k) \in Nat
<1>1. \A x : Is(x, k) \in Nat BY OneNat
<1>2. \A d : InDrop(d, k) \in Nat BY OneNat
<1>3. QED BY <1>1, <1>2 DEF Mine

LEMMA CallKeeps ==
  ASSUME RefInv, NEW p \in Procs, CallStep(p), UNCHANGED <<cwd, file>>,
         ref' \in [Inums -> Nat], Stage(p)', Holder(p)',
         \A k \in Inums : ref'[k] + (Is(ip[p], k) + Is(other[p], k) + InDrop(drop[p], k))
                        = ref[k] + (Is(ip'[p], k) + Is(other'[p], k) + InDrop(drop'[p], k))
  PROVE  Step(p)
<1>1. Alone(p) BY DEF Alone, CallStep, CallAlone
<1>2. Types' BY DEF Types, CallStep, CallTypes, RefInv
<1>3. Locks(p) BY DEF Locks, CallStep
<1>4. ASSUME NEW k \in Inums PROVE ref'[k] + Mine(p, k) = ref[k] + Mine(p, k)'
  <2> DEFINE a == Is(ip[p], k) + Is(other[p], k) + InDrop(drop[p], k)
             b == Is(ip'[p], k) + Is(other'[p], k) + InDrop(drop'[p], k)
             c == Is(cwd[p], k) + Is(file[p], k)
  <2>1. \A e : Is(e, k) \in Nat BY OneNat
  <2>2. \A d : InDrop(d, k) \in Nat BY OneNat
  <2>3. a \in Nat /\ b \in Nat /\ c \in Nat BY <2>1, <2>2
  <2>4. Mine(p, k) = c + a /\ Mine(p, k)' = c + b BY MineStep
  <2>5. ref'[k] + a = ref[k] + b OBVIOUS
  <2>6. ref[k] \in Nat /\ ref'[k] \in Nat BY DEF RefInv, Types
  <2> HIDE DEF a, b, c
  <2>7. QED BY <2>3, <2>4, <2>5, <2>6
<1>5. Refs(p) BY <1>4 DEF Refs
<1>6. QED BY <1>1, <1>2, <1>3, <1>5 DEF Step

LEMMA PathFacts ==
  ASSUME NEW w \in Seq(Words), w # <<>>
  PROVE  /\ Head(w) \in Words /\ Tail(w) \in Seq(Words) /\ Len(Tail(w)) = Len(w) - 1
         /\ Len(w) \in Nat \ {0} /\ (Len(w) # 1 => Tail(w) # <<>>)
<1>1. Head(w) \in Words /\ Tail(w) \in Seq(Words) /\ Len(Tail(w)) = Len(w) - 1
  BY HeadTailProperties
<1>2. Len(w) \in Nat \ {0} /\ Len(<<>>) = 0
  <2>1. \A s \in Seq(Words) : s # <<>> => Len(s) \in Nat \ {0} BY EmptySeq
  <2>2. QED BY <2>1
<1>3. \A t : t = <<>> => Len(t) = 0 OBVIOUS
<1>4. Len(w) # 1 => Len(Tail(w)) # 0 BY <1>1, <1>2
<1>5. Len(w) # 1 => Tail(w) # <<>> BY <1>3, <1>4, Zenon
<1>6. QED BY <1>1, <1>2, <1>5, Zenon

LEMMA LookupFacts ==
  ASSUME Types, NEW i \in Inums, NEW n \in Words
  PROVE  Lookup(i, n) \in Entry
BY DEF Types, Lookup, Words

LEMMA CallRef ==
  ASSUME RefInv, NEW p \in Procs, NEW c \in Calls[p], NEW w \in Paths, NEW i \in {Root, cwd[p]},
         Call(p, c, w, i)
  PROVE  Step(p)
<1>0. Types /\ Stage(p) /\ Holder(p) BY DEF RefInv, Stages, Holders
<1>1. i \in Inums /\ i \in Entry BY <1>0, InumFacts DEF Types
<1>2. /\ pc[p] = "user" /\ drop[p] = <<>> /\ ip[p] = None /\ other[p] = None
      /\ c \in {"open", "create"} => file[p] = None
  BY <1>0 DEF Call, At, Stage
<1>3. c \in Kinds /\ c \in Ops /\ c # "link to" BY CallsAssumption DEF Kinds, Ops
<1>4. w \in Seq(Words) /\ w # <<>> BY CallsAssumption DEF Words
<1>5. /\ pc' \in [Procs -> Places] /\ pc'[p] = "walk" /\ \A q \in Procs \ {p} : pc'[q] = pc[q]
      /\ drop' \in [Procs -> Drop2] /\ drop'[p] = <<>> /\ \A q \in Procs \ {p} : drop'[q] = drop[q]
  <2>1. <<>> \in Drop2 /\ "walk" \in Places BY DEF Drop2, Places
  <2>2. Then(p, <<>>, "walk") BY DEF Call
  <2>3. QED BY <1>0, <2>1, <2>2, ThenFacts
<1>6. /\ ip' \in [Procs -> Entry] /\ ip'[p] = i /\ \A q \in Procs \ {p} : ip'[q] = ip[q]
      /\ other' \in [Procs -> Entry] /\ other'[p] = None /\ \A q \in Procs \ {p} : other'[q] = other[q]
  <2>1. None \in Entry /\ Give(p, i, None) BY DEF Entry, Call
  <2>2. QED BY <1>0, <1>1, <2>1, GiveFacts
<1>7. /\ op' \in [Procs -> Ops \cup {None}] /\ op'[p] = c /\ \A q \in Procs \ {p} : op'[q] = op[q]
  BY <1>0, <1>3 DEF Call, Set, Types
<1>8. /\ path' \in [Procs -> Seq(Words)] /\ path'[p] = w /\ \A q \in Procs \ {p} : path'[q] = path[q]
  <2>1. path \in [Procs -> Seq(Words)] /\ path' = [path EXCEPT ![p] = w] BY <1>0 DEF Call, Set, Types
  <2>2. QED BY <1>4, <2>1
<1>9. UNCHANGED <<cwd, file, lock, type, entries, dotdot, valid, nlink>> BY DEF Call, diskVars
<1>10. CallStep(p) BY <1>0, <1>5, <1>6, <1>7, <1>8, <1>9 DEF CallStep, CallTypes, CallAlone, Types
<1>11. ref' = iget(i) BY DEF Call
<1>12. ref' \in [Inums -> Nat] /\ \A k \in Inums : ref'[k] = ref[k] + Is(i, k)
  BY <1>0, <1>1, <1>11, IgetFacts
<1>13. Stage(p)'
  <2>1. pc'[p] = "walk" /\ op'[p] = c /\ file'[p] = file[p] BY <1>5, <1>7, <1>9
  <2>2. path'[p] # <<>> /\ ip'[p] \in Inums /\ other'[p] = None BY <1>1, <1>4, <1>6, <1>8
  <2>3. QED BY <1>2, <1>3, <2>1, <2>2 DEF Stage
<1>14. Holder(p)' BY <1>0, <1>2, <1>5, <1>9 DEF Holder, Holds
<1>15. ASSUME NEW k \in Inums
       PROVE  ref'[k] + (Is(ip[p], k) + Is(other[p], k) + InDrop(drop[p], k))
              = ref[k] + (Is(ip'[p], k) + Is(other'[p], k) + InDrop(drop'[p], k))
  <2>1. ref'[k] = ref[k] + Is(i, k) BY <1>12
  <2>2. InDrop(drop'[p], k) = InDrop(drop[p], k) BY <1>2, <1>5
  <2>3. Is(ip[p], k) = 0 /\ Is(other[p], k) = 0 /\ Is(ip'[p], k) = Is(i, k) /\ Is(other'[p], k) = 0
    BY <1>2, <1>6, InumFacts DEF Is, One
  <2>4. Is(i, k) \in Nat /\ InDrop(drop[p], k) \in Nat /\ ref[k] \in Nat BY <1>0, OneNat DEF Types
  <2>5. QED BY <2>1, <2>2, <2>3, <2>4
<1>16. QED BY <1>9, <1>10, <1>12, <1>13, <1>14, <1>15, CallKeeps

(* What a call that fails leaves alone.                                      *)
Same == UNCHANGED <<cwd, file, type, entries, dotdot, lock>>

LEMMA FailKeeps ==
  ASSUME RefInv, NEW p \in Procs, pc[p] \in {"walk", "act"}, drop[p] = <<>>, Fail(p, <<ip[p]>>),
         Same, ref' = ref, nlink' \in [Inums -> Int], valid' \in [Inums -> BOOLEAN]
  PROVE  Step(p)
<1> DEFINE i == ip[p]
<1>0. Types /\ Stage(p) /\ Holder(p) BY DEF RefInv, Stages, Holders
<1>1. i \in Inums /\ <<i>> \in Drop2 /\ (op[p] # "link to" => other[p] = None)
  BY <1>0, DropIn DEF Stage
<1>2. /\ CallTypes' /\ CallAlone(p) /\ drop'[p] = <<i>> /\ ip'[p] = None /\ other'[p] = other[p]
      /\ \/ op'[p] = None /\ pc'[p] = "user" /\ other[p] = None
         \/ op'[p] = "link to" /\ pc'[p] = "link bad" /\ op[p] = "link to"
  BY <1>0, <1>1, FailFacts
<1>3. CallStep(p) BY <1>2 DEF CallStep, Same
<1>4. Stage(p)'
  <2>2. CASE op'[p] = None /\ pc'[p] = "user" /\ other[p] = None
    <3>1. op'[p] \notin {"open", "create"} BY <2>2, NoneFacts DEF Ops, Kinds
    <3>2. QED BY <1>2, <2>2, <3>1 DEF Stage
  <2>3. CASE op'[p] = "link to" /\ pc'[p] = "link bad" /\ op[p] = "link to"
    <3>1. other'[p] # None BY <1>0, <1>2, <2>3 DEF Stage
    <3>2. QED BY <1>2, <2>3, <3>1 DEF Stage, Ops
  <2>4. QED BY <1>2, <2>2, <2>3
<1>5. Holder(p)'
  <2>1. \A k \in Inums : lock[k] # p BY <1>0 DEF Holder, Holds
  <2>2. QED BY <1>2, <2>1 DEF Holder, Holds, Same
<1>6. ASSUME NEW k \in Inums
      PROVE  ref'[k] + (Is(ip[p], k) + Is(other[p], k) + InDrop(drop[p], k))
             = ref[k] + (Is(ip'[p], k) + Is(other'[p], k) + InDrop(drop'[p], k))
  <2>1. InDrop(drop[p], k) = 0 BY NoDrop
  <2>2. InDrop(drop'[p], k) = Is(i, k) BY <1>1, <1>2, OneDrop
  <2>3. Is(ip'[p], k) = 0 /\ Is(other'[p], k) = Is(other[p], k) BY <1>2, InumFacts DEF Is, One
  <2>4. Is(i, k) \in Nat /\ Is(other[p], k) \in Nat /\ ref[k] \in Nat BY <1>0, OneNat DEF Types
  <2>5. QED BY <2>1, <2>2, <2>3, <2>4
<1>7. ref' \in [Inums -> Nat] BY <1>0 DEF Types
<1>8. QED BY <1>3, <1>4, <1>5, <1>6, <1>7, CallKeeps DEF Same

LEMMA CloseRef ==
  ASSUME RefInv, NEW p \in Procs, close(p)
  PROVE  Step(p)
<1> DEFINE i == file[p]
<1>0. Types /\ Stage(p) /\ Holder(p) BY DEF RefInv, Stages, Holders
<1>1. pc[p] = "user" /\ drop[p] = <<>> /\ i \in Inums /\ <<i>> \in Drop2 /\ "user" \in Places
  <2>1. pc[p] = "user" /\ drop[p] = <<>> /\ i \in Inums BY <1>0 DEF close, At, Types, Entry
  <2>2. QED BY <2>1, DropIn DEF Places
<1>2. Then(p, <<i>>, "user") /\ file' = [file EXCEPT ![p] = None]
      /\ UNCHANGED <<type, nlink, entries, dotdot, ref, valid, lock, cwd, op, path, ip, other>>
  BY DEF close, Set, diskVars
<1>3. /\ pc' \in [Procs -> Places] /\ pc'[p] = "user" /\ \A q \in Procs \ {p} : pc'[q] = pc[q]
      /\ drop' \in [Procs -> Drop2] /\ drop'[p] = <<i>> /\ \A q \in Procs \ {p} : drop'[q] = drop[q]
  BY <1>0, <1>1, <1>2, ThenFacts
<1>4. /\ file' \in [Procs -> Entry] /\ file'[p] = None /\ \A q \in Procs \ {p} : file'[q] = file[q]
  BY <1>0, <1>2 DEF Types, Entry
<1>5. Alone(p) BY <1>2, <1>3, <1>4 DEF Alone
<1>6. Types' BY <1>0, <1>2, <1>3, <1>4 DEF Types
<1>7. Stage(p)' BY <1>0, <1>1, <1>2, <1>3, <1>4 DEF Stage
<1>8. Holder(p)' BY <1>0, <1>1, <1>2, <1>3 DEF Holder, Holds
<1>9. ASSUME NEW k \in Inums PROVE ref'[k] + Mine(p, k) = ref[k] + Mine(p, k)'
  <2>1. InDrop(drop[p], k) = 0 BY <1>1, NoDrop
  <2>2. InDrop(drop'[p], k) = Is(i, k) BY <1>1, <1>3, OneDrop
  <2>3. Is(file'[p], k) = 0 /\ Is(ip'[p], k) = Is(ip[p], k) /\ Is(other'[p], k) = Is(other[p], k)
        /\ Is(cwd'[p], k) = Is(cwd[p], k)
    BY <1>2, <1>4, InumFacts DEF Is, One
  <2>4. (\A x : Is(x, k) \in Nat) /\ ref[k] \in Nat /\ ref'[k] = ref[k] BY <1>0, <1>2, OneNat DEF Types
  <2> DEFINE a == Is(cwd[p], k)  b == Is(ip[p], k)  c == Is(other[p], k)  d == Is(i, k)
  <2>5. Mine(p, k) = a + d + b + c + 0 BY <2>1 DEF Mine
  <2>6. Mine(p, k)' = a + 0 + b + c + d BY <2>1, <2>2, <2>3 DEF Mine
  <2>7. a \in Nat /\ b \in Nat /\ c \in Nat /\ d \in Nat BY <2>4
  <2> HIDE DEF a, b, c, d
  <2>8. QED BY <2>4, <2>5, <2>6, <2>7
<1>10. QED BY <1>2, <1>5, <1>6, <1>7, <1>8, <1>9 DEF Step, Locks, Refs

LEMMA WalkRef ==
  ASSUME RefInv, NEW p \in Procs, Walk(p)
  PROVE  Step(p)
<1> DEFINE i == ip[p]  j == Lookup(i, Head(path[p]))
<1>0. Types /\ Stage(p) /\ Holder(p) BY DEF RefInv, Stages, Holders
<1>1. pc[p] = "walk" /\ drop[p] = <<>> /\ i \in Inums /\ path[p] # <<>> /\ path[p] \in Seq(Words)
  BY <1>0 DEF Walk, At, Stage, Types
<1>2. j \in Entry BY <1>0, <1>1, PathFacts, LookupFacts
<1>3. valid' \in [Inums -> BOOLEAN] BY <1>0, <1>1, ValidFacts DEF Walk
<1>4. Same /\ nlink' = nlink /\ nlink' \in [Inums -> Int] BY <1>0 DEF Walk, Same, diskVars, Types
<1>5. CASE Fail(p, <<i>>) /\ ref' = ref BY <1>1, <1>3, <1>4, <1>5, FailKeeps
<1>6. CASE /\ Stops(p) /\ Then(p, <<>>, "act") /\ UNCHANGED <<ref, op, path, ip, other>>
  <2>1. <<>> \in Drop2 /\ "act" \in Places BY DEF Drop2, Places
  <2>2. /\ pc' \in [Procs -> Places] /\ pc'[p] = "act" /\ \A q \in Procs \ {p} : pc'[q] = pc[q]
        /\ drop' \in [Procs -> Drop2] /\ drop'[p] = <<>> /\ \A q \in Procs \ {p} : drop'[q] = drop[q]
    BY <1>0, <1>6, <2>1, ThenFacts
  <2>3. CallStep(p) BY <1>0, <1>3, <1>4, <1>6, <2>2 DEF CallStep, CallTypes, CallAlone, Same, Types
  <2>4. Stage(p)' BY <1>0, <1>1, <1>4, <1>6, <2>2 DEF Stage, Stops, Same
  <2>5. Holder(p)' BY <1>0, <1>1, <1>4, <2>2 DEF Holder, Holds, Same
  <2>6. /\ ref' \in [Inums -> Nat] /\ drop'[p] = drop[p] /\ UNCHANGED <<cwd, file>>
    BY <1>0, <1>1, <1>4, <1>6, <2>2 DEF Types, Same
  <2>7. \A k : ref'[k] + (Is(ip[p], k) + Is(other[p], k) + InDrop(drop[p], k))
               = ref[k] + (Is(ip'[p], k) + Is(other'[p], k) + InDrop(drop'[p], k))
    BY <1>6, <2>6
  <2>8. QED BY <2>3, <2>4, <2>5, <2>6, <2>7, CallKeeps
<1>7. CASE /\ ~Stops(p) /\ j # None /\ ref' = iget(j)
           /\ path' = Set(path, p, Tail(path[p])) /\ op' = op
           /\ Give(p, j, other[p]) /\ Then(p, <<i>>, IF Len(path[p]) = 1 THEN "act" ELSE "walk")
  <2> DEFINE l == IF Len(path[p]) = 1 THEN "act" ELSE "walk"
  <2>1. <<i>> \in Drop2 /\ l \in Places /\ j \in Inums /\ other[p] \in Entry
    <3>1. l \in Places BY DEF Places
    <3>2. <<i>> \in Drop2 BY <1>1, DropIn
    <3>3. j \in Inums BY <1>2, <1>7 DEF Entry
    <3>4. QED BY <1>0, <3>1, <3>2, <3>3 DEF Types
  <2>2. /\ pc' \in [Procs -> Places] /\ pc'[p] = l /\ \A q \in Procs \ {p} : pc'[q] = pc[q]
        /\ drop' \in [Procs -> Drop2] /\ drop'[p] = <<i>> /\ \A q \in Procs \ {p} : drop'[q] = drop[q]
    BY <1>0, <1>7, <2>1, ThenFacts
  <2>3. /\ ip' \in [Procs -> Entry] /\ ip'[p] = j /\ \A q \in Procs \ {p} : ip'[q] = ip[q]
        /\ other' \in [Procs -> Entry] /\ other'[p] = other[p] /\ \A q \in Procs \ {p} : other'[q] = other[q]
    BY <1>0, <1>2, <1>7, <2>1, GiveFacts
  <2>4. Tail(path[p]) \in Seq(Words) /\ (Len(path[p]) # 1 => Tail(path[p]) # <<>>) BY <1>1, PathFacts
  <2>5. /\ path' \in [Procs -> Seq(Words)] /\ path'[p] = Tail(path[p]) /\ \A q \in Procs \ {p} : path'[q] = path[q]
    <3>1. path \in [Procs -> Seq(Words)] /\ path' = [path EXCEPT ![p] = Tail(path[p])] BY <1>0, <1>7 DEF Types, Set
    <3>2. QED BY <2>4, <3>1
  <2>6. CallStep(p) BY <1>0, <1>3, <1>4, <1>7, <2>2, <2>3, <2>5 DEF CallStep, CallTypes, CallAlone, Same, Types
  <2>7. ref' \in [Inums -> Nat] /\ \A k \in Inums : ref'[k] = ref[k] + Is(j, k)
    BY <1>0, <1>7, <2>1, IgetFacts
  <2>8. Stage(p)'
    <3>1. op'[p] = op[p] /\ file'[p] = file[p] BY <1>4, <1>7 DEF Same
    <3>2. Len(path[p]) = 1 => op[p] \notin Wants BY <1>7 DEF Stops
    <3>3. pc'[p] = "walk" => path'[p] # <<>> BY <2>2, <2>4, <2>5
    <3>4. pc'[p] \in {"walk", "act"} /\ (pc'[p] = "act" => op'[p] \notin Wants) BY <2>2, <3>1, <3>2
    <3>5. ip'[p] \in Inums /\ other'[p] = other[p] BY <2>1, <2>3
    <3>6. QED BY <1>0, <1>1, <3>1, <3>3, <3>4, <3>5 DEF Stage
  <2>9. Holder(p)'
    <3>1. \A k \in Inums : lock[k] # p BY <1>0, <1>1 DEF Holder, Holds
    <3>2. QED BY <1>4, <2>2, <3>1 DEF Holder, Same
  <2>10. ASSUME NEW k \in Inums
        PROVE  ref'[k] + (Is(ip[p], k) + Is(other[p], k) + InDrop(drop[p], k))
             = ref[k] + (Is(ip'[p], k) + Is(other'[p], k) + InDrop(drop'[p], k))
    <3>1. InDrop(drop[p], k) = 0 BY <1>1, NoDrop
    <3>2. InDrop(drop'[p], k) = Is(i, k) BY <1>1, <2>2, OneDrop
    <3>3. Is(ip'[p], k) = Is(j, k) /\ Is(other'[p], k) = Is(other[p], k) BY <2>3
    <3>4. Is(i, k) \in Nat /\ Is(j, k) \in Nat /\ Is(other[p], k) \in Nat /\ ref[k] \in Nat
      BY <1>0, OneNat DEF Types
    <3>5. ref'[k] = ref[k] + Is(j, k) BY <2>7
    <3> DEFINE a == Is(i, k)  b == Is(j, k)  c == Is(other[p], k)  e == Is(ip'[p], k)
               f == Is(other'[p], k)
    <3>6. Is(ip[p], k) = a OBVIOUS
    <3> HIDE DEF a, b, c, e, f
    <3>7. QED BY <3>1, <3>2, <3>3, <3>4, <3>5, <3>6 DEF a, b, c, e, f
  <2>11. UNCHANGED <<cwd, file>> BY <1>4 DEF Same
  <2>12. QED BY <2>6, <2>7, <2>8, <2>9, <2>10, <2>11, CallKeeps
<1>8. QED BY <1>5, <1>6, <1>7 DEF Walk

(* Where a process is when it has found its inode.                            *)
FoundFacts(p) ==
  /\ pc[p] = "act" /\ drop[p] = <<>> /\ ip[p] \in Inums /\ lock[ip[p]] = None
  /\ valid' \in [Inums -> BOOLEAN] /\ (op[p] # "link to" => other[p] = None)
  /\ \A k \in Inums : lock[k] # p

LEMMA FoundRef ==
  ASSUME RefInv, NEW p \in Procs, Found(p)
  PROVE  FoundFacts(p)
<1>0. Types /\ Stage(p) /\ Holder(p) BY DEF RefInv, Stages, Holders
<1>1. pc[p] = "act" /\ drop[p] = <<>> /\ ip[p] \in Inums /\ lock[ip[p]] = None
      /\ (op[p] # "link to" => other[p] = None)
  BY <1>0 DEF Found, At, Stage, CanLock
<1>2. valid' \in [Inums -> BOOLEAN] BY <1>0, <1>1, ValidFacts DEF Found
<1>3. \A k \in Inums : lock[k] # p BY <1>0, <1>1 DEF Holder, Holds
<1>4. QED BY <1>1, <1>2, <1>3 DEF FoundFacts

LEMMA OpenRef ==
  ASSUME RefInv, NEW p \in Procs, sys_open(p)
  PROVE  Step(p)
<1> DEFINE i == ip[p]
<1>0. Types /\ Stage(p) BY DEF RefInv, Stages
<1>1. FoundFacts(p) /\ op[p] = "open" /\ file[p] = None /\ other[p] = None
  BY <1>0, FoundRef DEF sys_open, FoundFacts, Stage
<1>2. i \in Inums /\ i \in Entry /\ pc[p] = "act" /\ drop[p] = <<>> BY <1>1 DEF FoundFacts, Entry
<1>3. file' = [file EXCEPT ![p] = i] /\ Over(p, <<>>)
      /\ UNCHANGED <<type, nlink, entries, dotdot, ref, lock, cwd>>
  BY DEF sys_open, Set, diskVars
<1>4. /\ CallTypes' /\ CallAlone(p) /\ pc'[p] = "user" /\ drop'[p] = <<>> /\ ip'[p] = None
      /\ other'[p] = None /\ op'[p] = None /\ path'[p] = <<>>
  BY <1>0, <1>3, DropIn, OverFacts
<1>5. file' \in [Procs -> Entry] /\ file'[p] = i /\ \A q \in Procs \ {p} : file'[q] = file[q]
  BY <1>0, <1>2, <1>3 DEF Types
<1>6. Alone(p) BY <1>3, <1>4, <1>5 DEF Alone, CallAlone
<1>7. Types' BY <1>0, <1>1, <1>3, <1>4, <1>5 DEF Types, CallTypes, FoundFacts
<1>8. Stage(p)'
  <2>1. op'[p] \notin {"open", "create"} BY <1>4, NoneFacts DEF Ops, Kinds
  <2>2. QED BY <1>4, <2>1 DEF Stage
<1>9. Holder(p)' BY <1>1, <1>3, <1>4 DEF Holder, FoundFacts
<1>10. ASSUME NEW k \in Inums PROVE ref'[k] + Mine(p, k) = ref[k] + Mine(p, k)'
  <2>1. InDrop(drop[p], k) = 0 /\ InDrop(drop'[p], k) = 0 BY <1>2, <1>4, NoDrop
  <2>2. /\ Is(file[p], k) = 0 /\ Is(other[p], k) = 0 /\ Is(ip'[p], k) = 0 /\ Is(other'[p], k) = 0
        /\ Is(file'[p], k) = Is(i, k) /\ Is(cwd'[p], k) = Is(cwd[p], k)
    BY <1>1, <1>3, <1>4, <1>5, InumFacts DEF Is, One
  <2>3. Is(cwd[p], k) \in Nat /\ Is(i, k) \in Nat BY OneNat
  <2>4. ref[k] \in Nat /\ ref'[k] = ref[k] BY <1>0, <1>3 DEF Types
  <2>5. Mine(p, k) = Is(cwd[p], k) + 0 + Is(i, k) + 0 + 0 BY <2>1, <2>2 DEF Mine
  <2>6. Mine(p, k)' = Is(cwd[p], k) + Is(i, k) + 0 + 0 + 0 BY <2>1, <2>2 DEF Mine
  <2>7. QED BY <2>3, <2>4, <2>5, <2>6
<1>11. QED BY <1>3, <1>6, <1>7, <1>8, <1>9, <1>10 DEF Step, Locks, Refs

LEMMA ChdirRef ==
  ASSUME RefInv, NEW p \in Procs, sys_chdir(p)
  PROVE  Step(p)
<1> DEFINE i == ip[p]
<1>0. Types /\ Stage(p) BY DEF RefInv, Stages
<1>1. FoundFacts(p) /\ op[p] = "chdir" /\ other[p] = None
  BY <1>0, FoundRef DEF sys_chdir, FoundFacts
<1>2. i \in Inums /\ pc[p] = "act" /\ drop[p] = <<>> BY <1>1 DEF FoundFacts
<1>3. UNCHANGED <<type, nlink, entries, dotdot, ref, lock, file>> BY DEF sys_chdir, diskVars
<1>4. CASE Fail(p, <<i>>) /\ cwd' = cwd
  <2>1. Same /\ nlink' \in [Inums -> Int] /\ valid' \in [Inums -> BOOLEAN]
    BY <1>0, <1>1, <1>3, <1>4 DEF Same, Types, FoundFacts
  <2>2. QED BY <1>2, <1>3, <1>4, <2>1, FailKeeps
<1>5. CASE cwd' = [cwd EXCEPT ![p] = i] /\ Over(p, <<cwd[p]>>)
  <2>1. cwd[p] \in Inums /\ <<cwd[p]>> \in Drop2 BY <1>0, DropIn DEF Types
  <2>2. /\ CallTypes' /\ CallAlone(p) /\ pc'[p] = "user" /\ drop'[p] = <<cwd[p]>> /\ ip'[p] = None
        /\ other'[p] = None /\ op'[p] = None /\ path'[p] = <<>>
    BY <1>0, <1>5, <2>1, OverFacts
  <2>3. cwd' \in [Procs -> Inums] /\ cwd'[p] = i /\ \A q \in Procs \ {p} : cwd'[q] = cwd[q]
    BY <1>0, <1>2, <1>5 DEF Types
  <2>4. Alone(p) BY <1>3, <2>2, <2>3 DEF Alone, CallAlone
  <2>5. Types' BY <1>0, <1>1, <1>3, <2>2, <2>3 DEF Types, CallTypes, FoundFacts
  <2>6. Stage(p)'
    <3>1. op'[p] \notin {"open", "create"} BY <2>2, NoneFacts DEF Ops, Kinds
    <3>2. QED BY <2>2, <3>1 DEF Stage
  <2>7. Holder(p)' BY <1>1, <1>3, <2>2 DEF Holder, FoundFacts
  <2>8. ASSUME NEW k \in Inums PROVE ref'[k] + Mine(p, k) = ref[k] + Mine(p, k)'
    <3>1. InDrop(drop[p], k) = 0 /\ InDrop(drop'[p], k) = Is(cwd[p], k) BY <1>2, <2>2, NoDrop, OneDrop
    <3>2. /\ Is(other[p], k) = 0 /\ Is(ip'[p], k) = 0 /\ Is(other'[p], k) = 0
          /\ Is(cwd'[p], k) = Is(i, k) /\ Is(file'[p], k) = Is(file[p], k)
      BY <1>1, <1>3, <2>2, <2>3, InumFacts DEF Is, One
    <3>3. Is(cwd[p], k) \in Nat /\ Is(i, k) \in Nat /\ Is(file[p], k) \in Nat BY OneNat
    <3>4. ref[k] \in Nat /\ ref'[k] = ref[k] BY <1>0, <1>3 DEF Types
    <3>5. Mine(p, k) = Is(cwd[p], k) + Is(file[p], k) + Is(i, k) + 0 + 0 BY <3>1, <3>2 DEF Mine
    <3>6. Mine(p, k)' = Is(i, k) + Is(file[p], k) + 0 + 0 + Is(cwd[p], k) BY <3>1, <3>2 DEF Mine
    <3>7. QED BY <3>3, <3>4, <3>5, <3>6
  <2>9. QED BY <1>3, <2>4, <2>5, <2>6, <2>7, <2>8 DEF Step, Locks, Refs
<1>6. QED BY <1>4, <1>5 DEF sys_chdir, Set

LEMMA LinkRef ==
  ASSUME RefInv, NEW p \in Procs, NEW w \in Paths, sys_link(p, w)
  PROVE  Step(p)
<1> DEFINE i == ip[p]
<1>0. Types /\ Stage(p) BY DEF RefInv, Stages
<1>1. FoundFacts(p) /\ op[p] = "link" /\ other[p] = None
  BY <1>0, FoundRef DEF sys_link, FoundFacts
<1>2. i \in Inums /\ pc[p] = "act" /\ drop[p] = <<>> BY <1>1 DEF FoundFacts
<1>3. UNCHANGED <<type, entries, dotdot, lock, cwd, file>> BY DEF sys_link
<1>4. CASE Fail(p, <<i>>) /\ UNCHANGED <<nlink, ref>>
  <2>1. Same /\ nlink' \in [Inums -> Int] /\ valid' \in [Inums -> BOOLEAN]
    BY <1>0, <1>1, <1>3, <1>4 DEF Same, Types, FoundFacts
  <2>2. QED BY <1>2, <1>3, <1>4, <2>1, FailKeeps
<1>5. CASE /\ nlink' = [nlink EXCEPT ![i] = @ + 1]
           /\ op' = [op EXCEPT ![p] = "link to"] /\ path' = [path EXCEPT ![p] = w]
           /\ ref' = iget(Root) /\ Give(p, Root, i) /\ Then(p, <<>>, "walk")
  <2>1. w \in Seq(Words) /\ w # <<>> BY CallsAssumption DEF Words
  <2>2. Root \in Inums /\ Root \in Entry /\ i \in Entry /\ i # None BY <1>2, InumFacts
  <2>3. /\ pc' \in [Procs -> Places] /\ pc'[p] = "walk" /\ \A q \in Procs \ {p} : pc'[q] = pc[q]
        /\ drop' \in [Procs -> Drop2] /\ drop'[p] = <<>> /\ \A q \in Procs \ {p} : drop'[q] = drop[q]
    <3>1. "walk" \in Places BY DEF Places
    <3>2. QED BY <1>0, <1>5, <3>1, DropIn, ThenFacts
  <2>4. /\ ip' \in [Procs -> Entry] /\ ip'[p] = Root /\ \A q \in Procs \ {p} : ip'[q] = ip[q]
        /\ other' \in [Procs -> Entry] /\ other'[p] = i /\ \A q \in Procs \ {p} : other'[q] = other[q]
    BY <1>0, <1>5, <2>2, GiveFacts
  <2>5. /\ op' \in [Procs -> Ops \cup {None}] /\ op'[p] = "link to" /\ \A q \in Procs \ {p} : op'[q] = op[q]
    BY <1>0, <1>5 DEF Types, Ops
  <2>6. /\ path' \in [Procs -> Seq(Words)] /\ path'[p] = w /\ \A q \in Procs \ {p} : path'[q] = path[q]
    <3>1. path \in [Procs -> Seq(Words)] /\ path' = [path EXCEPT ![p] = w] BY <1>0, <1>5 DEF Types
    <3>2. QED BY <2>1, <3>1
  <2>7. nlink' \in [Inums -> Int]
    <3>1. nlink \in [Inums -> Int] /\ nlink' = [nlink EXCEPT ![i] = nlink[i] + 1] BY <1>0, <1>5 DEF Types
    <3>2. nlink[i] + 1 \in Int BY <3>1, <1>2
    <3>3. QED BY <3>1, <3>2
  <2>8. CallStep(p)
    BY <1>1, <1>3, <2>3, <2>4, <2>5, <2>6, <2>7 DEF CallStep, CallTypes, CallAlone, FoundFacts
  <2>9. ref' \in [Inums -> Nat] /\ \A k \in Inums : ref'[k] = ref[k] + Is(Root, k)
    BY <1>0, <1>5, <2>2, IgetFacts
  <2>10. Stage(p)' BY <2>1, <2>2, <2>3, <2>4, <2>5, <2>6 DEF Stage, Ops
  <2>11. Holder(p)' BY <1>1, <1>3, <2>3 DEF Holder, FoundFacts
  <2>12. ASSUME NEW k \in Inums
        PROVE  ref'[k] + (Is(ip[p], k) + Is(other[p], k) + InDrop(drop[p], k))
             = ref[k] + (Is(ip'[p], k) + Is(other'[p], k) + InDrop(drop'[p], k))
    <3>1. InDrop(drop[p], k) = 0 /\ InDrop(drop'[p], k) = 0 BY <1>2, <2>3, NoDrop
    <3>2. Is(ip'[p], k) = Is(Root, k) /\ Is(other'[p], k) = Is(i, k) /\ Is(other[p], k) = 0
      BY <1>1, <2>4, NoneFacts
    <3>3. Is(i, k) \in Nat /\ Is(Root, k) \in Nat /\ ref[k] \in Nat BY <1>0, OneNat DEF Types
    <3>4. ref'[k] = ref[k] + Is(Root, k) BY <2>9
    <3>5. QED BY <3>1, <3>2, <3>3, <3>4
  <2>13. UNCHANGED <<cwd, file>> BY <1>3
  <2>14. QED BY <2>8, <2>9, <2>10, <2>11, <2>12, <2>13, CallKeeps
<1>6. QED BY <1>4, <1>5 DEF sys_link, Set

DiskTypes ==
  /\ type \in [Inums -> {"free", "file", "dir"}] /\ nlink \in [Inums -> Int]
  /\ entries \in [Inums -> [Names -> Entry]] /\ dotdot \in [Inums -> Entry]
  /\ ref \in [Inums -> Nat] /\ valid \in [Inums -> BOOLEAN]
  /\ lock \in [Inums -> Procs \cup {None}]

LEMMA LinkInt ==
  ASSUME Types, NEW i \in Inums
  PROVE  nlink[i] \in Int /\ nlink[i] - 1 \in Int /\ nlink[i] + 1 \in Int
<1>1. nlink[i] \in Int BY DEF Types
<1>2. QED BY <1>1

(* A call that is over, and has dropped or kept in file what it had in hand.  *)
LEMMA OverKeeps ==
  ASSUME RefInv, NEW p \in Procs, NEW is \in Drop2, Over(p, is), DiskTypes', Locks(p),
         UNCHANGED <<ref, cwd>>,
         file' \in [Procs -> Entry], \A q \in Procs \ {p} : file'[q] = file[q],
         \A k \in Inums : lock'[k] = p => is # <<>> /\ Head(is) = k,
         \A k \in Inums : Is(file[p], k) + (Is(ip[p], k) + Is(other[p], k) + InDrop(drop[p], k))
                          = Is(file'[p], k) + InDrop(is, k)
  PROVE  Step(p)
<1>0. Types BY DEF RefInv
<1>1. /\ CallTypes' /\ CallAlone(p) /\ pc'[p] = "user" /\ drop'[p] = is /\ ip'[p] = None
      /\ other'[p] = None /\ op'[p] = None /\ path'[p] = <<>>
  BY <1>0, OverFacts
<1>2. Alone(p) BY <1>1 DEF Alone, CallAlone
<1>3. Types' BY <1>0, <1>1 DEF Types, CallTypes, DiskTypes
<1>4. Stage(p)'
  <2>1. op'[p] \notin {"open", "create"} BY <1>1, NoneFacts DEF Ops, Kinds
  <2>2. QED BY <1>1, <2>1 DEF Stage
<1>5. Holder(p)' BY <1>1 DEF Holder, Holds
<1>6. ASSUME NEW k \in Inums PROVE ref'[k] + Mine(p, k) = ref[k] + Mine(p, k)'
  <2> DEFINE a == Is(ip[p], k)  b == Is(other[p], k)  c == InDrop(drop[p], k)  d == Is(cwd[p], k)
             e == Is(file[p], k)  f == Is(file'[p], k)  g == InDrop(is, k)
  <2>1. a \in Nat /\ b \in Nat /\ c \in Nat /\ d \in Nat /\ e \in Nat /\ f \in Nat /\ g \in Nat BY OneNat
  <2>2. e + (a + b + c) = f + g OBVIOUS
  <2>3. Is(ip'[p], k) = 0 /\ Is(other'[p], k) = 0 BY <1>1, NoneFacts
  <2>4. Is(cwd'[p], k) = d /\ InDrop(drop'[p], k) = g BY <1>1
  <2>5. Mine(p, k) = d + e + a + b + c BY DEF Mine
  <2>6. Mine(p, k)' = d + f + 0 + 0 + g BY <2>3, <2>4 DEF Mine
  <2>7. ref[k] \in Nat /\ ref'[k] = ref[k] BY <1>0 DEF Types
  <2> HIDE DEF a, b, c, d, e, f, g
  <2>8. d + e + a + b + c = d + f + 0 + 0 + g BY <2>1, <2>2
  <2>9. Mine(p, k)' = Mine(p, k) BY <2>5, <2>6, <2>8
  <2>10. QED BY <2>7, <2>9
<1>7. QED BY <1>2, <1>3, <1>4, <1>5, <1>6 DEF Step, Refs

LEMMA LinkToRef ==
  ASSUME RefInv, NEW p \in Procs, LinkTo(p)
  PROVE  Step(p)
<1> DEFINE dp == ip[p]  o == other[p]  n == Head(path[p])
<1>0. Types /\ Stage(p) BY DEF RefInv, Stages
<1>1. FoundFacts(p) /\ op[p] = "link to" BY FoundRef DEF LinkTo
<1>2. dp \in Inums /\ pc[p] = "act" /\ drop[p] = <<>> /\ o \in Inums
  BY <1>0, <1>1, InumFacts DEF FoundFacts, Stage, Types
<1>3. UNCHANGED <<type, nlink, dotdot, ref, lock, cwd, file>> BY DEF LinkTo
<1>4. CASE Fail(p, <<dp>>) /\ UNCHANGED entries
  <2>1. Same /\ nlink' \in [Inums -> Int] /\ valid' \in [Inums -> BOOLEAN]
    BY <1>0, <1>1, <1>3, <1>4 DEF Same, Types, FoundFacts
  <2>2. QED BY <1>2, <1>3, <1>4, <2>1, FailKeeps
<1>5. CASE entries' = [entries EXCEPT ![dp][n] = o] /\ Over(p, <<dp, o>>)
  <2>1. <<dp, o>> \in Drop2 BY <1>2, DropIn
  <2>2. DiskTypes'
    <3>1. entries' \in [Inums -> [Names -> Entry]] BY <1>0, <1>2, <1>5 DEF Types, Entry
    <3>2. QED BY <1>0, <1>1, <1>3, <3>1 DEF DiskTypes, Types, FoundFacts
  <2>3. Locks(p) /\ \A k \in Inums : lock'[k] # p BY <1>1, <1>3 DEF Locks, FoundFacts
  <2>4. file' \in [Procs -> Entry] /\ file'[p] = file[p] /\ \A q \in Procs \ {p} : file'[q] = file[q]
    BY <1>0, <1>3 DEF Types
  <2>5. ASSUME NEW k \in Inums
        PROVE  Is(file[p], k) + (Is(dp, k) + Is(o, k) + InDrop(drop[p], k))
               = Is(file'[p], k) + InDrop(<<dp, o>>, k)
    <3>1. InDrop(drop[p], k) = 0 /\ InDrop(<<dp, o>>, k) = Is(dp, k) + Is(o, k)
      BY <1>2, NoDrop, TwoDrops
    <3>2. Is(file[p], k) \in Nat /\ Is(dp, k) \in Nat /\ Is(o, k) \in Nat BY OneNat
    <3>3. Is(file'[p], k) = Is(file[p], k) BY <2>4
    <3>4. QED BY <3>1, <3>2, <3>3
  <2>6. QED BY <1>3, <1>5, <2>1, <2>2, <2>3, <2>4, <2>5, OverKeeps
<1>6. QED BY <1>4, <1>5 DEF LinkTo

LEMMA LinkBadRef ==
  ASSUME RefInv, NEW p \in Procs, LinkBad(p)
  PROVE  Step(p)
<1> DEFINE i == other[p]
<1>0. Types /\ Stage(p) /\ Holder(p) BY DEF RefInv, Stages, Holders
<1>1. pc[p] = "link bad" /\ drop[p] = <<>> /\ ip[p] = None /\ i \in Inums
  BY <1>0, InumFacts DEF LinkBad, At, Stage, Types
<1>2. UNCHANGED <<type, entries, dotdot, ref, lock, cwd, file>> /\ Over(p, <<i>>)
  BY DEF LinkBad
<1>3. DiskTypes'
  <2>1. nlink \in [Inums -> Int] /\ nlink' = [nlink EXCEPT ![i] = nlink[i] - 1] BY <1>0 DEF Types, LinkBad
  <2>a. nlink[i] - 1 \in Int BY <1>0, <1>1, LinkInt
  <2>2. nlink' \in [Inums -> Int] BY <2>1, <2>a
  <2>3. valid' \in [Inums -> BOOLEAN] BY <1>0, <1>1, ValidFacts DEF LinkBad
  <2>4. QED BY <1>0, <1>2, <2>2, <2>3 DEF DiskTypes, Types
<1>4. <<i>> \in Drop2 BY <1>1, DropIn
<1>5. Locks(p) /\ \A k \in Inums : lock'[k] # p BY <1>0, <1>1, <1>2 DEF Locks, Holder, Holds
<1>6. file' \in [Procs -> Entry] /\ file'[p] = file[p] /\ \A q \in Procs \ {p} : file'[q] = file[q]
  BY <1>0, <1>2 DEF Types
<1>7. ASSUME NEW k \in Inums
      PROVE  Is(file[p], k) + (Is(ip[p], k) + Is(i, k) + InDrop(drop[p], k))
             = Is(file'[p], k) + InDrop(<<i>>, k)
  <2>1. InDrop(drop[p], k) = 0 /\ InDrop(<<i>>, k) = Is(i, k) BY <1>1, NoDrop, OneDrop
  <2>2. Is(file[p], k) \in Nat /\ Is(i, k) \in Nat /\ Is(ip[p], k) = 0 BY <1>1, OneNat, NoneFacts
  <2>3. Is(file'[p], k) = Is(file[p], k) BY <1>6
  <2>4. QED BY <2>1, <2>2, <2>3
<1>8. QED BY <1>2, <1>3, <1>4, <1>5, <1>6, <1>7, OverKeeps

LEMMA ExistsRef ==
  ASSUME RefInv, NEW p \in Procs, Exists(p)
  PROVE  Step(p)
<1> DEFINE i == other[p]
<1>0. Types /\ Stage(p) /\ Holder(p) BY DEF RefInv, Stages, Holders
<1>1. pc[p] = "exists" /\ drop[p] = <<>> /\ ip[p] = None /\ i \in Inums /\ op[p] \in Makes
  BY <1>0, InumFacts DEF Exists, At, Stage, Types
<1>2. UNCHANGED <<type, nlink, entries, dotdot, ref, lock, cwd>> BY DEF Exists, diskVars
<1>3. DiskTypes'
  <2>1. valid' \in [Inums -> BOOLEAN] BY <1>0, <1>1, ValidFacts DEF Exists
  <2>2. QED BY <1>0, <1>2, <2>1 DEF DiskTypes, Types
<1>4. Locks(p) /\ \A k \in Inums : lock'[k] # p BY <1>0, <1>1, <1>2 DEF Locks, Holder, Holds
<1>5. CASE op[p] = "create" /\ file' = [file EXCEPT ![p] = i] /\ Over(p, <<>>)
  <2>1. /\ file' \in [Procs -> Entry] /\ file'[p] = i /\ file[p] = None
        /\ \A q \in Procs \ {p} : file'[q] = file[q]
    BY <1>0, <1>1, <1>5 DEF Types, Entry, Stage
  <2>2. ASSUME NEW k \in Inums
        PROVE  Is(file[p], k) + (Is(ip[p], k) + Is(i, k) + InDrop(drop[p], k))
               = Is(file'[p], k) + InDrop(<<>>, k)
    <3>1. InDrop(drop[p], k) = 0 /\ InDrop(<<>>, k) = 0 BY <1>1, NoDrop
    <3>2. Is(i, k) \in Nat /\ Is(ip[p], k) = 0 /\ Is(file[p], k) = 0 BY <1>1, <2>1, OneNat, NoneFacts
    <3>3. Is(file'[p], k) = Is(i, k) BY <2>1
    <3>4. QED BY <3>1, <3>2, <3>3
  <2>3. QED BY <1>2, <1>3, <1>4, <1>5, <2>1, <2>2, DropIn, OverKeeps
<1>6. CASE Fail(p, <<i>>) /\ UNCHANGED file
  <2>1. Over(p, <<i>>) BY <1>1, <1>6 DEF Fail, Makes
  <2>2. file' \in [Procs -> Entry] /\ file'[p] = file[p] /\ \A q \in Procs \ {p} : file'[q] = file[q]
    BY <1>0, <1>6 DEF Types
  <2>3. ASSUME NEW k \in Inums
        PROVE  Is(file[p], k) + (Is(ip[p], k) + Is(i, k) + InDrop(drop[p], k))
               = Is(file'[p], k) + InDrop(<<i>>, k)
    <3>1. InDrop(drop[p], k) = 0 /\ InDrop(<<i>>, k) = Is(i, k) BY <1>1, NoDrop, OneDrop
    <3>2. Is(file[p], k) \in Nat /\ Is(i, k) \in Nat /\ Is(ip[p], k) = 0 BY <1>1, OneNat, NoneFacts
    <3>3. Is(file'[p], k) = Is(file[p], k) BY <2>2
    <3>4. QED BY <3>1, <3>2, <3>3
  <2>4. <<i>> \in Drop2 BY <1>1, DropIn
  <2>5. QED BY <1>2, <1>3, <1>4, <2>1, <2>2, <2>3, <2>4, OverKeeps
<1>7. QED BY <1>5, <1>6 DEF Exists, Set

(* A step inside a call that may take and leave locks.                        *)
LEMMA MoveKeeps ==
  ASSUME RefInv, NEW p \in Procs, CallTypes', CallAlone(p), DiskTypes', Locks(p),
         UNCHANGED <<cwd, file>>, Stage(p)', Holder(p)',
         \A k \in Inums : ref'[k] + (Is(ip[p], k) + Is(other[p], k) + InDrop(drop[p], k))
                        = ref[k] + (Is(ip'[p], k) + Is(other'[p], k) + InDrop(drop'[p], k))
  PROVE  Step(p)
<1>0. Types BY DEF RefInv
<1>1. Alone(p) BY DEF Alone, CallAlone
<1>2. Types' BY <1>0 DEF Types, CallTypes, DiskTypes
<1>3. ASSUME NEW k \in Inums PROVE ref'[k] + Mine(p, k) = ref[k] + Mine(p, k)'
  <2> DEFINE a == Is(ip[p], k) + Is(other[p], k) + InDrop(drop[p], k)
             b == Is(ip'[p], k) + Is(other'[p], k) + InDrop(drop'[p], k)
             c == Is(cwd[p], k) + Is(file[p], k)
  <2>1. a \in Nat /\ b \in Nat /\ c \in Nat
    <3>1. \A e : Is(e, k) \in Nat BY OneNat
    <3>2. \A d : InDrop(d, k) \in Nat BY OneNat
    <3>3. QED BY <3>1, <3>2
  <2>2. Mine(p, k) = c + a /\ Mine(p, k)' = c + b BY MineStep
  <2>3. ref'[k] + a = ref[k] + b OBVIOUS
  <2>4. ref[k] \in Nat /\ ref'[k] \in Nat BY <1>0, <1>2 DEF Types
  <2> HIDE DEF a, b, c
  <2>5. QED BY <2>1, <2>2, <2>3, <2>4
<1>4. QED BY <1>1, <1>2, <1>3 DEF Step, Refs

LEMMA EmptyLen == \A t : Len(t) # 0 => t # <<>>
<1>1. \A t : t = <<>> => Len(t) = 0 OBVIOUS
<1>2. QED BY <1>1, Zenon

LEMMA CreateRef ==
  ASSUME RefInv, NEW p \in Procs, create(p)
  PROVE  Step(p)
<1> DEFINE dp == ip[p]  j == Lookup(dp, Head(path[p]))
<1>0. Types /\ Stage(p) BY DEF RefInv, Stages
<1>1. FoundFacts(p) /\ op[p] \in Makes BY FoundRef DEF create, Makes
<1>2. /\ dp \in Inums /\ pc[p] = "act" /\ drop[p] = <<>> /\ other[p] = None /\ lock[dp] = None
      /\ op[p] \in Wants /\ op[p] # "link to" /\ op[p] \in Ops
  BY <1>1 DEF FoundFacts, Makes, Wants, Ops, Kinds
<1>3. UNCHANGED <<nlink, entries, dotdot, cwd, file>> BY DEF create
<1>4. Len(path[p]) = 1 /\ path[p] \in Seq(Words) /\ path[p] # <<>>
  <2>1. Len(path[p]) = 1 /\ path[p] \in Seq(Words) BY <1>0, <1>2 DEF Stage, Types
  <2>2. Len(path[p]) # 0 BY <2>1
  <2>3. QED BY <2>1, <2>2, EmptyLen, Zenon
<1>5. j \in Entry BY <1>0, <1>2, <1>4, PathFacts, LookupFacts
<1>6. CASE /\ j # None /\ ref' = iget(j) /\ Give(p, None, j) /\ Then(p, <<dp>>, "exists")
           /\ UNCHANGED <<type, lock, op, path>>
  <2>1. j \in Inums /\ None \in Entry /\ "exists" \in Places /\ <<dp>> \in Drop2
    BY <1>2, <1>5, <1>6, DropIn DEF Entry, Places
  <2>2. /\ pc' \in [Procs -> Places] /\ pc'[p] = "exists" /\ \A q \in Procs \ {p} : pc'[q] = pc[q]
        /\ drop' \in [Procs -> Drop2] /\ drop'[p] = <<dp>> /\ \A q \in Procs \ {p} : drop'[q] = drop[q]
    BY <1>0, <1>6, <2>1, ThenFacts
  <2>3. /\ ip' \in [Procs -> Entry] /\ ip'[p] = None /\ \A q \in Procs \ {p} : ip'[q] = ip[q]
        /\ other' \in [Procs -> Entry] /\ other'[p] = j /\ \A q \in Procs \ {p} : other'[q] = other[q]
    BY <1>0, <1>5, <1>6, <2>1, GiveFacts
  <2>4. ref' \in [Inums -> Nat] /\ \A k \in Inums : ref'[k] = ref[k] + Is(j, k)
    BY <1>0, <1>6, <2>1, IgetFacts
  <2>5. CallTypes' /\ CallAlone(p) BY <1>0, <1>6, <2>2, <2>3 DEF CallTypes, CallAlone, Types
  <2>6. DiskTypes' BY <1>0, <1>1, <1>3, <1>6, <2>4 DEF DiskTypes, Types, FoundFacts
  <2>7. Locks(p) BY <1>6 DEF Locks
  <2>8. Stage(p)'
    <3>1. op'[p] = op[p] /\ file'[p] = file[p] /\ j # None BY <1>3, <1>6
    <3>2. (op[p] \in {"open", "create"} => file[p] = None) BY <1>0 DEF Stage
    <3>3. QED BY <1>1, <1>2, <2>2, <2>3, <3>1, <3>2 DEF Stage
  <2>9. Holder(p)' BY <1>1, <1>6, <2>2 DEF Holder, FoundFacts
  <2>10. ASSUME NEW k \in Inums
         PROVE  ref'[k] + (Is(ip[p], k) + Is(other[p], k) + InDrop(drop[p], k))
              = ref[k] + (Is(ip'[p], k) + Is(other'[p], k) + InDrop(drop'[p], k))
    <3>1. InDrop(drop[p], k) = 0 /\ InDrop(drop'[p], k) = Is(dp, k) BY <1>2, <2>2, NoDrop, OneDrop
    <3>2. Is(other[p], k) = 0 /\ Is(ip'[p], k) = 0 /\ Is(other'[p], k) = Is(j, k)
      BY <1>2, <2>3, NoneFacts
    <3>3. Is(dp, k) \in Nat /\ Is(j, k) \in Nat /\ ref[k] \in Nat BY <1>0, OneNat DEF Types
    <3>4. ref'[k] = ref[k] + Is(j, k) BY <2>4
    <3> HIDE DEF j
    <3>5. QED BY <3>1, <3>2, <3>3, <3>4
  <2>11. QED BY <1>3, <2>5, <2>6, <2>7, <2>8, <2>9, <2>10, MoveKeeps
<1>7. CASE Fail(p, <<dp>>) /\ UNCHANGED <<type, ref, lock>>
  <2>1. Same /\ nlink' \in [Inums -> Int] /\ valid' \in [Inums -> BOOLEAN]
    BY <1>0, <1>1, <1>3, <1>7 DEF Same, Types, FoundFacts
  <2>2. QED BY <1>2, <1>3, <1>7, <2>1, FailKeeps
<1>8. CASE \E i \in FirstFree :
        /\ type' = Set(type, i, IF op[p] = "mkdir" THEN "dir" ELSE "file")
        /\ ref' = iget(i) /\ lock' = Set(lock, dp, p)
        /\ Give(p, dp, i) /\ Then(p, <<>>, "new") /\ UNCHANGED <<op, path>>
  <2>1. PICK i \in Inums :
        /\ type' = Set(type, i, IF op[p] = "mkdir" THEN "dir" ELSE "file")
        /\ ref' = iget(i) /\ lock' = Set(lock, dp, p)
        /\ Give(p, dp, i) /\ Then(p, <<>>, "new") /\ UNCHANGED <<op, path>>
    BY <1>8 DEF FirstFree
  <2>2. "new" \in Places /\ dp \in Entry /\ i \in Entry /\ dp # None /\ i # None
    BY <1>2, InumFacts DEF Places
  <2>3. /\ pc' \in [Procs -> Places] /\ pc'[p] = "new" /\ \A q \in Procs \ {p} : pc'[q] = pc[q]
        /\ drop' \in [Procs -> Drop2] /\ drop'[p] = <<>> /\ \A q \in Procs \ {p} : drop'[q] = drop[q]
    BY <1>0, <2>1, <2>2, DropIn, ThenFacts
  <2>4. /\ ip' \in [Procs -> Entry] /\ ip'[p] = dp /\ \A q \in Procs \ {p} : ip'[q] = ip[q]
        /\ other' \in [Procs -> Entry] /\ other'[p] = i /\ \A q \in Procs \ {p} : other'[q] = other[q]
    BY <1>0, <2>1, <2>2, GiveFacts
  <2>5. ref' \in [Inums -> Nat] /\ \A k \in Inums : ref'[k] = ref[k] + Is(i, k)
    BY <1>0, <2>1, IgetFacts
  <2>6. CallTypes' /\ CallAlone(p) BY <1>0, <2>1, <2>3, <2>4 DEF CallTypes, CallAlone, Types
  <2>7. /\ type' \in [Inums -> {"free", "file", "dir"}]
        /\ lock' \in [Inums -> Procs \cup {None}] /\ lock'[dp] = p
        /\ \A k \in Inums \ {dp} : lock'[k] = lock[k]
    BY <1>0, <1>2, <2>1 DEF Types, Set
  <2>8. DiskTypes' BY <1>0, <1>1, <1>3, <2>5, <2>7 DEF DiskTypes, Types, FoundFacts
  <2>9. Locks(p) BY <1>2, <2>7 DEF Locks
  <2>10. Stage(p)'
    <3>1. op'[p] = op[p] /\ file'[p] = file[p] /\ path'[p] = path[p] BY <1>3, <2>1
    <3>2. (op[p] \in {"open", "create"} => file[p] = None) BY <1>0 DEF Stage
    <3>3. QED BY <1>1, <1>2, <1>4, <2>2, <2>3, <2>4, <3>1, <3>2 DEF Stage
  <2>11. Holder(p)'
    <3>1. \A k \in Inums : lock'[k] = p => k = dp BY <1>1, <2>7 DEF FoundFacts
    <3>2. QED BY <2>3, <2>4, <2>7, <3>1 DEF Holder, Holds
  <2>12. ASSUME NEW k \in Inums
         PROVE  ref'[k] + (Is(ip[p], k) + Is(other[p], k) + InDrop(drop[p], k))
              = ref[k] + (Is(ip'[p], k) + Is(other'[p], k) + InDrop(drop'[p], k))
    <3>1. InDrop(drop[p], k) = 0 /\ InDrop(drop'[p], k) = 0 BY <1>2, <2>3, NoDrop
    <3>2. Is(other[p], k) = 0 /\ Is(ip'[p], k) = Is(dp, k) /\ Is(other'[p], k) = Is(i, k)
      BY <1>2, <2>4, NoneFacts
    <3>3. Is(dp, k) \in Nat /\ Is(i, k) \in Nat /\ ref[k] \in Nat BY <1>0, OneNat DEF Types
    <3>4. ref'[k] = ref[k] + Is(i, k) BY <2>5
    <3>5. QED BY <3>1, <3>2, <3>3, <3>4
  <2>13. QED BY <1>3, <2>6, <2>8, <2>9, <2>10, <2>11, <2>12, MoveKeeps
<1>9. QED BY <1>6, <1>7, <1>8 DEF create

LEMMA MadeRef ==
  ASSUME RefInv, NEW p \in Procs, Made(p)
  PROVE  Step(p)
<1> DEFINE dp == ip[p]  i == other[p]  n == Head(path[p])
<1>0. Types /\ Stage(p) /\ Holder(p) BY DEF RefInv, Stages, Holders
<1>1. /\ pc[p] = "new" /\ drop[p] = <<>> /\ dp \in Inums /\ i \in Inums /\ op[p] \in Makes
      /\ lock[dp] = p /\ \A k \in Inums : lock[k] = p => k = dp
  BY <1>0, InumFacts DEF Made, At, Stage, Types, Holder, Holds
<1>2. UNCHANGED <<type, ref, cwd>> /\ lock' = [lock EXCEPT ![dp] = None] BY DEF Made, Set
<1>3. /\ lock' \in [Inums -> Procs \cup {None}] /\ Locks(p) /\ \A k \in Inums : lock'[k] # p
  <2>1. lock \in [Inums -> Procs \cup {None}] BY <1>0 DEF Types
  <2>2. lock'[dp] = None /\ \A k \in Inums \ {dp} : lock'[k] = lock[k] BY <1>1, <1>2, <2>1
  <2>3. QED BY <1>1, <1>2, <2>1, <2>2, InumFacts DEF Locks
<1>4. valid' \in [Inums -> BOOLEAN] BY <1>0, <1>1, ValidFacts DEF Made
<1>5. dotdot' \in [Inums -> Entry]
  <2>1. dotdot' = dotdot \/ dotdot' = [dotdot EXCEPT ![i] = dp] BY DEF Made, Set
  <2>2. QED BY <1>0, <1>1, <2>1 DEF Types, Entry
<1>6. ASSUME NEW k \in Inums
      PROVE  InDrop(drop[p], k) = 0 /\ InDrop(<<i, dp>>, k) = Is(i, k) + Is(dp, k)
             /\ InDrop(<<dp, i>>, k) = Is(i, k) + Is(dp, k) /\ InDrop(<<dp>>, k) = Is(dp, k)
             /\ Is(i, k) \in Nat /\ Is(dp, k) \in Nat /\ Is(file[p], k) \in Nat
  <2>1. InDrop(<<dp, i>>, k) = Is(dp, k) + Is(i, k) /\ InDrop(<<i, dp>>, k) = Is(i, k) + Is(dp, k)
    BY TwoDrops
  <2>2. InDrop(drop[p], k) = 0 /\ InDrop(<<dp>>, k) = Is(dp, k) BY <1>1, NoDrop, OneDrop
  <2>3. Is(i, k) \in Nat /\ Is(dp, k) \in Nat /\ Is(file[p], k) \in Nat BY OneNat
  <2>4. QED BY <2>1, <2>2, <2>3
<1>7. <<dp, i>> \in Drop2 /\ <<i, dp>> \in Drop2 /\ <<dp>> \in Drop2 BY <1>1, DropIn
<1>8. CASE /\ entries' = [entries EXCEPT ![dp][n] = i]
           /\ nlink' = [nlink EXCEPT ![i] = 1, ![dp] = @ + (IF op[p] = "mkdir" THEN 1 ELSE 0)]
           /\ file' = IF op[p] = "mkdir" THEN file ELSE [file EXCEPT ![p] = i]
           /\ Over(p, IF op[p] = "mkdir" THEN <<dp, i>> ELSE <<dp>>)
  <2>1. entries' \in [Inums -> [Names -> Entry]] BY <1>0, <1>1, <1>8 DEF Types, Entry
  <2>2. nlink' \in [Inums -> Int]
    <3>1. \A k \in Inums : nlink[k] \in Int /\ nlink[k] + 1 \in Int /\ nlink[k] + 0 \in Int /\ 1 \in Int /\ 1 + 1 \in Int /\ 1 + 0 \in Int
      <4>1. \A k \in Inums : nlink[k] \in Int BY <1>0 DEF Types
      <4>2. QED BY <4>1
    <3>2. nlink \in [Inums -> Int] BY <1>0 DEF Types
    <3>3. QED BY <1>1, <1>8, <3>1, <3>2
  <2>3. DiskTypes' BY <1>0, <1>2, <1>3, <1>4, <1>5, <2>1, <2>2 DEF DiskTypes, Types
  <2>4. CASE op[p] = "mkdir"
    <3>1. Over(p, <<dp, i>>) /\ file' = file BY <1>8, <2>4
    <3>2. file' \in [Procs -> Entry] /\ file'[p] = file[p] /\ \A q \in Procs \ {p} : file'[q] = file[q]
      BY <1>0, <3>1 DEF Types
    <3>3. ASSUME NEW k \in Inums
          PROVE  Is(file[p], k) + (Is(ip[p], k) + Is(other[p], k) + InDrop(drop[p], k))
                 = Is(file'[p], k) + InDrop(<<dp, i>>, k)
      <4>1. Is(file'[p], k) = Is(file[p], k) BY <3>1
      <4>2. QED BY <1>6, <4>1
    <3>4. QED BY <1>2, <1>3, <1>7, <2>3, <3>1, <3>2, <3>3, OverKeeps
  <2>5. CASE op[p] # "mkdir"
    <3>1. Over(p, <<dp>>) /\ file' = [file EXCEPT ![p] = i] BY <1>8, <2>5
    <3>2. /\ file' \in [Procs -> Entry] /\ file'[p] = i /\ file[p] = None
          /\ \A q \in Procs \ {p} : file'[q] = file[q]
      BY <1>0, <1>1, <2>5, <3>1 DEF Types, Entry, Makes, Stage
    <3>3. ASSUME NEW k \in Inums
          PROVE  Is(file[p], k) + (Is(ip[p], k) + Is(other[p], k) + InDrop(drop[p], k))
                 = Is(file'[p], k) + InDrop(<<dp>>, k)
      <4>1. Is(file'[p], k) = Is(i, k) /\ Is(file[p], k) = 0 BY <3>2, NoneFacts
      <4>2. QED BY <1>6, <4>1
    <3>4. QED BY <1>2, <1>3, <1>7, <2>3, <3>1, <3>2, <3>3, OverKeeps
  <2>6. QED BY <2>4, <2>5
<1>9. CASE Over(p, <<i, dp>>) /\ UNCHANGED <<nlink, entries, file>>
  <2>1. DiskTypes' BY <1>0, <1>2, <1>3, <1>4, <1>5, <1>9 DEF DiskTypes, Types
  <2>2. file' \in [Procs -> Entry] /\ file'[p] = file[p] /\ \A q \in Procs \ {p} : file'[q] = file[q]
    BY <1>0, <1>9 DEF Types
  <2>3. ASSUME NEW k \in Inums
        PROVE  Is(file[p], k) + (Is(ip[p], k) + Is(other[p], k) + InDrop(drop[p], k))
               = Is(file'[p], k) + InDrop(<<i, dp>>, k)
    <3>1. Is(file'[p], k) = Is(file[p], k) BY <2>2
    <3>2. QED BY <1>6, <3>1
  <2>4. QED BY <1>2, <1>3, <1>7, <1>9, <2>1, <2>2, <2>3, OverKeeps
<1>10. QED BY <1>8, <1>9 DEF Made, Set

LEMMA UnlinkRef ==
  ASSUME RefInv, NEW p \in Procs, sys_unlink(p)
  PROVE  Step(p)
<1> DEFINE dp == ip[p]  j == Lookup(dp, Head(path[p]))
<1>0. Types /\ Stage(p) BY DEF RefInv, Stages
<1>1. FoundFacts(p) /\ op[p] = "unlink" BY FoundRef DEF sys_unlink
<1>2. /\ dp \in Inums /\ pc[p] = "act" /\ drop[p] = <<>> /\ other[p] = None /\ lock[dp] = None
      /\ op[p] \in Wants /\ op[p] \in Ops
  BY <1>1 DEF FoundFacts, Wants, Ops, Kinds
<1>3. UNCHANGED <<type, nlink, entries, dotdot, cwd, file>> BY DEF sys_unlink, diskVars
<1>4. Len(path[p]) = 1 /\ path[p] \in Seq(Words) /\ path[p] # <<>>
  <2>1. Len(path[p]) = 1 /\ path[p] \in Seq(Words) BY <1>0, <1>2 DEF Stage, Types
  <2>2. Len(path[p]) # 0 BY <2>1
  <2>3. QED BY <2>1, <2>2, EmptyLen, Zenon
<1>5. j \in Entry BY <1>0, <1>2, <1>4, PathFacts, LookupFacts
<1>6. CASE Fail(p, <<dp>>) /\ UNCHANGED <<ref, lock>>
  <2>1. Same /\ nlink' \in [Inums -> Int] /\ valid' \in [Inums -> BOOLEAN]
    BY <1>0, <1>1, <1>3, <1>6 DEF Same, Types, FoundFacts
  <2>2. QED BY <1>2, <1>3, <1>6, <2>1, FailKeeps
<1>7. CASE /\ j # None /\ ref' = iget(j) /\ lock' = [lock EXCEPT ![dp] = p]
           /\ Give(p, dp, j) /\ Then(p, <<>>, "remove") /\ UNCHANGED <<op, path>>
  <2>1. j \in Inums /\ "remove" \in Places /\ dp \in Entry /\ dp # None
    BY <1>2, <1>5, <1>7, InumFacts DEF Entry, Places
  <2>2. /\ pc' \in [Procs -> Places] /\ pc'[p] = "remove" /\ \A q \in Procs \ {p} : pc'[q] = pc[q]
        /\ drop' \in [Procs -> Drop2] /\ drop'[p] = <<>> /\ \A q \in Procs \ {p} : drop'[q] = drop[q]
    BY <1>0, <1>7, <2>1, DropIn, ThenFacts
  <2>3. /\ ip' \in [Procs -> Entry] /\ ip'[p] = dp /\ \A q \in Procs \ {p} : ip'[q] = ip[q]
        /\ other' \in [Procs -> Entry] /\ other'[p] = j /\ \A q \in Procs \ {p} : other'[q] = other[q]
    BY <1>0, <1>5, <1>7, <2>1, GiveFacts
  <2>4. ref' \in [Inums -> Nat] /\ \A k \in Inums : ref'[k] = ref[k] + Is(j, k)
    BY <1>0, <1>7, <2>1, IgetFacts
  <2>5. CallTypes' /\ CallAlone(p) BY <1>0, <1>7, <2>2, <2>3 DEF CallTypes, CallAlone, Types
  <2>6. /\ lock' \in [Inums -> Procs \cup {None}] /\ lock'[dp] = p
        /\ \A k \in Inums \ {dp} : lock'[k] = lock[k]
    BY <1>0, <1>2, <1>7 DEF Types
  <2>7. DiskTypes' BY <1>0, <1>1, <1>3, <2>4, <2>6 DEF DiskTypes, Types, FoundFacts
  <2>8. Locks(p) BY <1>2, <2>6 DEF Locks
  <2>9. Stage(p)'
    <3>1. op'[p] = op[p] /\ file'[p] = file[p] /\ path'[p] = path[p] BY <1>3, <1>7
    <3>2. (op[p] \in {"open", "create"} => file[p] = None) BY <1>0 DEF Stage
    <3>3. j # None BY <1>7
    <3> HIDE DEF j
    <3>4. QED BY <1>1, <1>2, <1>4, <2>1, <2>2, <2>3, <3>1, <3>2, <3>3 DEF Stage
  <2>10. Holder(p)'
    <3>1. \A k \in Inums : lock'[k] = p => k = dp BY <1>1, <2>6 DEF FoundFacts
    <3>2. QED BY <2>2, <2>3, <2>6, <3>1 DEF Holder, Holds
  <2>11. ASSUME NEW k \in Inums
         PROVE  ref'[k] + (Is(ip[p], k) + Is(other[p], k) + InDrop(drop[p], k))
              = ref[k] + (Is(ip'[p], k) + Is(other'[p], k) + InDrop(drop'[p], k))
    <3>1. InDrop(drop[p], k) = 0 /\ InDrop(drop'[p], k) = 0 BY <1>2, <2>2, NoDrop
    <3>2. Is(other[p], k) = 0 /\ Is(ip'[p], k) = Is(dp, k) /\ Is(other'[p], k) = Is(j, k)
      BY <1>2, <2>3, NoneFacts
    <3>3. Is(dp, k) \in Nat /\ Is(j, k) \in Nat /\ ref[k] \in Nat BY <1>0, OneNat DEF Types
    <3>4. ref'[k] = ref[k] + Is(j, k) BY <2>4
    <3> HIDE DEF j
    <3>5. QED BY <3>1, <3>2, <3>3, <3>4
  <2>12. QED BY <1>3, <2>5, <2>7, <2>8, <2>9, <2>10, <2>11, MoveKeeps
<1>8. QED BY <1>6, <1>7 DEF sys_unlink, Set

LEMMA RemovesRef ==
  ASSUME RefInv, NEW p \in Procs, Removes(p)
  PROVE  Step(p)
<1> DEFINE dp == ip[p]  i == other[p]  n == Head(path[p])
<1>0. Types /\ Stage(p) /\ Holder(p) BY DEF RefInv, Stages, Holders
<1>1. /\ pc[p] = "remove" /\ drop[p] = <<>> /\ dp \in Inums /\ i \in Inums /\ op[p] = "unlink"
      /\ lock[dp] = p /\ lock[i] = None /\ dp # i /\ \A k \in Inums : lock[k] = p => k = dp
  BY <1>0, InumFacts DEF Removes, At, Stage, Types, Holder, Holds, CanLock
<1>2. UNCHANGED <<type, dotdot, ref, cwd, file>> BY DEF Removes
<1>3. valid' \in [Inums -> BOOLEAN] BY <1>0, <1>1, ValidFacts DEF Removes
<1>4. /\ <<i, dp>> \in Drop2 /\ <<dp>> \in Drop2 BY <1>1, DropIn
<1>5. CASE Fail(p, <<i, dp>>) /\ lock' = [lock EXCEPT ![dp] = None] /\ UNCHANGED <<entries, nlink>>
  <2>1. Over(p, <<i, dp>>) BY <1>1, <1>5 DEF Fail
  <2>2. /\ lock' \in [Inums -> Procs \cup {None}] /\ Locks(p) /\ \A k \in Inums : lock'[k] # p
    <3>1. lock \in [Inums -> Procs \cup {None}] BY <1>0 DEF Types
    <3>2. lock'[dp] = None /\ \A k \in Inums \ {dp} : lock'[k] = lock[k] BY <1>1, <1>5, <3>1
    <3>3. QED BY <1>1, <1>5, <3>1, <3>2, InumFacts DEF Locks
  <2>3. DiskTypes' BY <1>0, <1>2, <1>3, <1>5, <2>2 DEF DiskTypes, Types
  <2>4. file' \in [Procs -> Entry] /\ file'[p] = file[p] /\ \A q \in Procs \ {p} : file'[q] = file[q]
    BY <1>0, <1>2 DEF Types
  <2>5. ASSUME NEW k \in Inums
        PROVE  Is(file[p], k) + (Is(ip[p], k) + Is(other[p], k) + InDrop(drop[p], k))
               = Is(file'[p], k) + InDrop(<<i, dp>>, k)
    <3>1. InDrop(drop[p], k) = 0 /\ InDrop(<<i, dp>>, k) = Is(i, k) + Is(dp, k) BY <1>1, NoDrop, TwoDrops
    <3>2. Is(i, k) \in Nat /\ Is(dp, k) \in Nat /\ Is(file[p], k) \in Nat BY OneNat
    <3>3. Is(file'[p], k) = Is(file[p], k) BY <2>4
    <3>4. QED BY <3>1, <3>2, <3>3
  <2>6. QED BY <1>2, <1>4, <2>1, <2>2, <2>3, <2>4, <2>5, OverKeeps
<1>6. CASE /\ entries' = [entries EXCEPT ![dp][n] = None]
           /\ nlink' = IF type[i] = "dir" THEN [nlink EXCEPT ![dp] = @ - 1] ELSE nlink
           /\ lock' = [lock EXCEPT ![dp] = None, ![i] = p]
           /\ Give(p, None, i) /\ Then(p, <<dp>>, "removed") /\ UNCHANGED <<op, path>>
  <2>1. None \in Entry /\ i \in Entry /\ i # None /\ "removed" \in Places
    BY <1>1, InumFacts DEF Places
  <2>2. /\ pc' \in [Procs -> Places] /\ pc'[p] = "removed" /\ \A q \in Procs \ {p} : pc'[q] = pc[q]
        /\ drop' \in [Procs -> Drop2] /\ drop'[p] = <<dp>> /\ \A q \in Procs \ {p} : drop'[q] = drop[q]
    BY <1>0, <1>4, <1>6, <2>1, ThenFacts
  <2>3. /\ ip' \in [Procs -> Entry] /\ ip'[p] = None /\ \A q \in Procs \ {p} : ip'[q] = ip[q]
        /\ other' \in [Procs -> Entry] /\ other'[p] = i /\ \A q \in Procs \ {p} : other'[q] = other[q]
    BY <1>0, <1>6, <2>1, GiveFacts
  <2>4. CallTypes' /\ CallAlone(p) BY <1>0, <1>6, <2>2, <2>3 DEF CallTypes, CallAlone, Types
  <2>5. /\ lock' \in [Inums -> Procs \cup {None}] /\ lock'[dp] = None /\ lock'[i] = p
        /\ \A k \in Inums \ {dp, i} : lock'[k] = lock[k]
    BY <1>0, <1>1, <1>6 DEF Types
  <2>6. nlink' \in [Inums -> Int]
    <3>1. nlink[dp] - 1 \in Int BY <1>0, <1>1, LinkInt
    <3>2. nlink \in [Inums -> Int] BY <1>0 DEF Types
    <3>3. QED BY <1>1, <1>6, <3>1, <3>2
  <2>7. entries' \in [Inums -> [Names -> Entry]] BY <1>0, <1>1, <1>6 DEF Types, Entry
  <2>8. DiskTypes' BY <1>0, <1>2, <1>3, <2>5, <2>6, <2>7 DEF DiskTypes, Types
  <2>9. Locks(p) BY <1>1, <2>5 DEF Locks
  <2>10. Stage(p)'
    <3>1. op'[p] = op[p] /\ file'[p] = file[p] /\ path'[p] = path[p] BY <1>2, <1>6
    <3>2. Len(drop'[p]) = 1 /\ Head(drop'[p]) = dp BY <2>2
    <3>3. op[p] \in Ops BY <1>1 DEF Ops, Kinds
    <3>4. QED BY <1>1, <2>1, <2>2, <2>3, <3>1, <3>2, <3>3 DEF Stage
  <2>11. Holder(p)'
    <3>1. \A k \in Inums : lock'[k] = p => k = i BY <1>1, <2>5, InumFacts
    <3>2. QED BY <2>2, <2>3, <2>5, <3>1 DEF Holder, Holds
  <2>12. ASSUME NEW k \in Inums
         PROVE  ref'[k] + (Is(ip[p], k) + Is(other[p], k) + InDrop(drop[p], k))
              = ref[k] + (Is(ip'[p], k) + Is(other'[p], k) + InDrop(drop'[p], k))
    <3>1. InDrop(drop[p], k) = 0 /\ InDrop(drop'[p], k) = Is(dp, k) BY <1>1, <2>2, NoDrop, OneDrop
    <3>2. Is(ip'[p], k) = 0 /\ Is(other'[p], k) = Is(i, k) BY <2>3, NoneFacts
    <3>3. Is(dp, k) \in Nat /\ Is(i, k) \in Nat /\ ref[k] \in Nat /\ ref'[k] = ref[k]
      BY <1>0, <1>2, OneNat DEF Types
    <3>4. QED BY <3>1, <3>2, <3>3
  <2>13. QED BY <1>2, <2>4, <2>8, <2>9, <2>10, <2>11, <2>12, MoveKeeps
<1>7. QED BY <1>5, <1>6 DEF Removes, Set

LEMMA RemovedRef ==
  ASSUME RefInv, NEW p \in Procs, Removed(p)
  PROVE  Step(p)
<1> DEFINE i == other[p]
<1>0. Types /\ Stage(p) /\ Holder(p) BY DEF RefInv, Stages, Holders
<1>1. /\ pc[p] = "removed" /\ drop[p] = <<>> /\ ip[p] = None /\ i \in Inums
      /\ lock[i] = p /\ \A k \in Inums : lock[k] = p => k = i
  BY <1>0, InumFacts DEF Removed, At, Stage, Types, Holder, Holds
<1>2. UNCHANGED <<type, entries, dotdot, ref, valid, cwd, file>> /\ Over(p, <<i>>)
      /\ lock' = [lock EXCEPT ![i] = None] /\ nlink' = [nlink EXCEPT ![i] = nlink[i] - 1]
  BY DEF Removed, Set
<1>3. /\ lock' \in [Inums -> Procs \cup {None}] /\ Locks(p) /\ \A k \in Inums : lock'[k] # p
  <2>1. lock \in [Inums -> Procs \cup {None}] BY <1>0 DEF Types
  <2>2. lock'[i] = None /\ \A k \in Inums \ {i} : lock'[k] = lock[k] BY <1>1, <1>2, <2>1
  <2>3. QED BY <1>1, <1>2, <2>1, <2>2, InumFacts DEF Locks
<1>4. DiskTypes'
  <2>1. nlink \in [Inums -> Int] BY <1>0 DEF Types
  <2>2. nlink[i] - 1 \in Int BY <1>0, <1>1, LinkInt
  <2>3. nlink' \in [Inums -> Int] BY <1>2, <2>1, <2>2
  <2>4. QED BY <1>0, <1>2, <1>3, <2>3 DEF DiskTypes, Types
<1>5. <<i>> \in Drop2 BY <1>1, DropIn
<1>6. file' \in [Procs -> Entry] /\ file'[p] = file[p] /\ \A q \in Procs \ {p} : file'[q] = file[q]
  BY <1>0, <1>2 DEF Types
<1>7. ASSUME NEW k \in Inums
      PROVE  Is(file[p], k) + (Is(ip[p], k) + Is(i, k) + InDrop(drop[p], k))
             = Is(file'[p], k) + InDrop(<<i>>, k)
  <2>1. InDrop(drop[p], k) = 0 /\ InDrop(<<i>>, k) = Is(i, k) BY <1>1, NoDrop, OneDrop
  <2>2. Is(file[p], k) \in Nat /\ Is(i, k) \in Nat /\ Is(ip[p], k) = 0 BY <1>1, OneNat, NoneFacts
  <2>3. Is(file'[p], k) = Is(file[p], k) BY <1>6
  <2>4. QED BY <2>1, <2>2, <2>3
<1>8. QED BY <1>2, <1>3, <1>4, <1>5, <1>6, <1>7, OverKeeps

LEMMA NextRef ==
  ASSUME RefInv, Next
  PROVE  \E p \in Procs : Step(p)
<1>1. PICK p \in Procs :
        \/ \E c \in Calls[p], w \in Paths, i \in {Root, cwd[p]} : Call(p, c, w, i)
        \/ iput(p) \/ Free(p) \/ close(p) \/ Walk(p)
        \/ sys_open(p) \/ sys_chdir(p) \/ \E w \in Paths : sys_link(p, w)
        \/ LinkTo(p) \/ LinkBad(p) \/ create(p) \/ Exists(p) \/ Made(p)
        \/ sys_unlink(p) \/ Removes(p) \/ Removed(p)
  BY DEF Next
<1>2. (\E c \in Calls[p], w \in Paths, i \in {Root, cwd[p]} : Call(p, c, w, i)) => Step(p) BY CallRef
<1>3. (iput(p) => Step(p)) /\ (Free(p) => Step(p)) BY IputRef, FreeRef
<1>4. (close(p) => Step(p)) /\ (Walk(p) => Step(p)) BY CloseRef, WalkRef
<1>5. (sys_open(p) => Step(p)) /\ (sys_chdir(p) => Step(p)) BY OpenRef, ChdirRef
<1>6. (\E w \in Paths : sys_link(p, w)) => Step(p) BY LinkRef
<1>7. (LinkTo(p) => Step(p)) /\ (LinkBad(p) => Step(p)) BY LinkToRef, LinkBadRef
<1>8. (create(p) => Step(p)) /\ (Exists(p) => Step(p)) BY CreateRef, ExistsRef
<1>9. (Made(p) => Step(p)) /\ (sys_unlink(p) => Step(p)) BY MadeRef, UnlinkRef
<1>10. (Removes(p) => Step(p)) /\ (Removed(p) => Step(p)) BY RemovesRef, RemovedRef
<1>11. QED BY <1>1, <1>2, <1>3, <1>4, <1>5, <1>6, <1>7, <1>8, <1>9, <1>10

LEMMA InitRef == Init => RefInv
<1> SUFFICES ASSUME Init PROVE RefInv OBVIOUS
<1>1. Cardinality(Procs) \in Nat /\ Cardinality({}) = 0 BY Finite, FS_CardinalityType, FS_EmptySet
<1>2. Types
  <2>1. /\ type \in [Inums -> {"free", "file", "dir"}] /\ nlink \in [Inums -> Int]
        /\ dotdot \in [Inums -> Entry] /\ ref \in [Inums -> Nat] /\ valid \in [Inums -> BOOLEAN]
        /\ lock \in [Inums -> Procs \cup {None}]
    BY <1>1, InumFacts DEF Init
  <2>2. entries \in [Inums -> [Names -> Entry]] BY DEF Init, NoEntries, Entry
  <2>3. /\ cwd \in [Procs -> Inums] /\ file \in [Procs -> Entry] /\ ip \in [Procs -> Entry]
        /\ other \in [Procs -> Entry] /\ op \in [Procs -> Ops \cup {None}] /\ pc \in [Procs -> Places]
    BY InumFacts DEF Init, Places
  <2>4. drop \in [Procs -> Drop2] BY DropIn DEF Init
  <2>5. path \in [Procs -> Seq(Words)]
    <3>1. <<>> \in Seq(Words) OBVIOUS
    <3>2. QED BY <3>1 DEF Init
  <2>6. QED BY <2>1, <2>2, <2>3, <2>4, <2>5 DEF Types
<1>3. Stages
  <2>1. None \notin {"open", "create"} BY NoneFacts DEF Ops, Kinds
  <2>2. QED BY <2>1 DEF Init, Stages, Stage
<1>4. Holders BY InumFacts DEF Init, Holders, Holder
<1>5. RefsExact
  <2>1. ASSUME NEW i \in Inums PROVE ref[i] = Users(i) + Drops(i)
    <3>1. Drops(i) = 0
      <4>1. {x \in Procs \X (1 .. 3) : x[2] <= Len(drop[x[1]]) /\ drop[x[1]][x[2]] = i} = {}
        <5>1. ASSUME NEW q \in Procs, NEW m \in 1 .. 3 PROVE ~(m <= Len(drop[q])) BY DEF Init
        <5>2. QED BY <5>1
      <4>2. QED BY <1>1, <4>1 DEF Drops
    <3>2. /\ {p \in Procs : file[p] = i} = {} /\ {p \in Procs : ip[p] = i} = {}
          /\ {p \in Procs : other[p] = i} = {}
      BY InumFacts DEF Init
    <3>3. {p \in Procs : cwd[p] = i} = IF i = Root THEN Procs ELSE {} BY DEF Init
    <3>4. ref[i] = IF i = Root THEN Cardinality(Procs) ELSE 0 BY DEF Init
    <3>5. Users(i) = (IF i = Root THEN Cardinality(Procs) ELSE 0) + 0 + 0 + 0
      BY <1>1, <3>2, <3>3 DEF Users
    <3>6. QED BY <1>1, <3>1, <3>4, <3>5
  <2>2. QED BY <2>1 DEF RefsExact
<1>6. QED BY <1>2, <1>3, <1>4, <1>5 DEF RefInv

LEMMA RefSame == RefInv /\ UNCHANGED vars => RefInv'
<1> SUFFICES ASSUME RefInv, UNCHANGED vars PROVE RefInv' OBVIOUS
<1>1. UNCHANGED <<type, nlink, entries, dotdot, ref, valid, lock, cwd, file, op, path, ip, other, pc, drop>>
  BY DEF vars, diskVars, procVars
<1>2. Types' BY <1>1 DEF RefInv, Types
<1>3. Stages' BY <1>1 DEF RefInv, Stages, Stage
<1>4. Holders' BY <1>1 DEF RefInv, Holders, Holder, Holds
<1>5. RefsExact'
  <2>1. ASSUME NEW i \in Inums PROVE Users(i)' = Users(i) /\ Drops(i)' = Drops(i) BY <1>1 DEF Users, Drops
  <2>2. QED BY <1>1, <2>1 DEF RefInv, RefsExact
<1>6. QED BY <1>2, <1>3, <1>4, <1>5 DEF RefInv

(* The reference counts of iget(), idup() and iput() are exact, whatever the  *)
(* paths: no inode is recycled or freed while a call, a current directory or  *)
(* an open file refers to it, and every lock is held by who will release it.  *)
THEOREM RefAlways == Spec => []RefInv
<1>1. RefInv /\ [Next]_vars => RefInv'
  <2>1. RefInv /\ Next => RefInv' BY NextRef, StepKeeps
  <2>2. QED BY <2>1, RefSame
<1>2. QED BY <1>1, InitRef, PTL DEF Spec

LEMMA HoldsMine ==
  ASSUME Types, NEW q \in Procs, NEW i \in Inums, Holds(q, i)
  PROVE  Mine(q, i) > 0
<1>1. /\ Is(cwd[q], i) \in Nat /\ Is(file[q], i) \in Nat /\ Is(ip[q], i) \in Nat
      /\ Is(other[q], i) \in Nat /\ InDrop(drop[q], i) \in Nat
  BY OneNat
<1>2. Is(i, i) = 1 BY DEF Is, One
<1>3. Is(ip[q], i) = 1 \/ Is(other[q], i) = 1 \/ InDrop(drop[q], i) > 0
  <2>1. CASE drop[q] # <<>> /\ Head(drop[q]) = i
    <3>1. drop[q] \in Drop2 BY DEF Types
    <3>2. InDrop(Tail(drop[q]), i) + Is(Head(drop[q]), i) = InDrop(drop[q], i)
          /\ InDrop(Tail(drop[q]), i) \in Nat
      BY <2>1, <3>1, DropTail
    <3>3. Is(Head(drop[q]), i) = 1 BY <1>2, <2>1
    <3>4. QED BY <3>2, <3>3
  <2>2. QED BY <1>2, <2>1 DEF Holds
<1>4. QED BY <1>1, <1>3 DEF Mine

LEMMA SoleRef ==
  ASSUME RefInv, NEW p \in Procs, NEW q \in Procs \ {p}, NEW i \in Inums,
         Mine(p, i) > 0, Mine(q, i) > 0
  PROVE  ref[i] > 1
<1>1. Types /\ RefsExact BY DEF RefInv
<1>2. ref[i] > Mine(p, i) BY <1>1, SoleUser
<1>3. Mine(p, i) \in Nat /\ ref[i] \in Nat BY <1>1, RefSplit DEF Types
<1>4. QED BY <1>2, <1>3

LEMMA NoWait == RefInv => IputNeverWaits
<1> SUFFICES ASSUME RefInv, NEW p \in Procs, drop[p] # <<>>, LastOne(Head(drop[p]))
             PROVE  lock[Head(drop[p])] \in {None, p}
  BY DEF IputNeverWaits
<1> DEFINE i == Head(drop[p])
<1>1. Types /\ drop[p] \in Drop2 BY DEF RefInv, Types
<1>2. i \in Inums /\ ref[i] = 1 /\ lock[i] \in Procs \cup {None} BY <1>1, DropFacts DEF LastOne, Types
<1>3. Mine(p, i) > 0 BY <1>1, <1>2, HoldsMine DEF Holds
<1>4. ASSUME NEW q \in Procs \ {p}, lock[i] = q PROVE FALSE
  <2>1. Holds(q, i) BY <1>2, <1>4 DEF RefInv, Holders, Holder
  <2>2. Mine(q, i) > 0 BY <1>1, <1>2, <2>1, HoldsMine
  <2>3. ref[i] > 1 BY <1>2, <1>3, <2>2, SoleRef
  <2>4. QED BY <1>2, <2>3
<1>5. QED BY <1>2, <1>4

(* The acquiresleep() of iput(), under itable.lock, finds the inode's lock    *)
(* free, as its comment says: who had it would have a reference too.          *)
THEOREM IputNeverWaitsAlways == Spec => []IputNeverWaits
BY RefAlways, NoWait, PTL

-----------------------------------------------------------------------------
(* What is between the acquiresleep() of iput() and the end of itrunc().      *)
Freeing(p, i) == drop[p] # <<>> /\ Head(drop[p]) = i /\ lock[i] = p
Uses(p, i)    == cwd[p] = i \/ file[p] = i \/ ip[p] = i \/ other[p] = i

(* Nobody walks "..".                                                         *)
Plain == \A p \in Procs : path[p] \in Seq(Names)
(* What a call has for a directory is one, and what it links is a file.       *)
DirOf(p) ==
  /\ type[cwd[p]] = "dir"
  /\ (pc[p] = "act" /\ op[p] \in Wants) \/ pc[p] \in {"new", "remove"} => type[ip[p]] = "dir"
  /\ op[p] = "link to" => type[other[p]] = "file"
NoFiles == \A i \in Inums : type[i] # "dir" => entries[i] = NoEntries
Dirs  == type[Root] = "dir" /\ (\A p \in Procs : DirOf(p)) /\ NoFiles
Used  == \A p \in Procs, i \in Inums : Uses(p, i) => type[i] # "free"
Freed == \A i \in Inums : type[i] = "free" => nlink[i] = 0 /\ ~valid[i]
(* The inode that create() has allocated is nobody else's.                    *)
FreshOf(p) == pc[p] = "new" =>
  /\ nlink[other[p]] = 0 /\ entries[other[p]] = NoEntries
  /\ type[other[p]] = IF op[p] = "mkdir" THEN "dir" ELSE "file"
  /\ entries[ip[p]][Head(path[p])] = None
  /\ \A q \in Procs \ {p} : ~Uses(q, other[p])
Fresh == \A p \in Procs : FreshOf(p)
(* What unlink() removes is still there.                                      *)
RemovingOf(p) ==
  /\ pc[p] = "remove" => entries[ip[p]][Head(path[p])] = other[p] /\ valid[ip[p]]
  /\ pc[p] = "removed" => valid[other[p]]
Removing == \A p \in Procs : RemovingOf(p)
(* An inode that is being freed has no other user and no link; one without    *)
(* links is in use, or create() has not linked it yet.                        *)
Leaving == \A p \in Procs, i \in Inums : Freeing(p, i) =>
  ref[i] = 1 /\ valid[i] /\ nlink[i] = 0
Kept == \A i \in Inums : type[i] # "free" /\ nlink[i] = 0 =>
  (valid[i] /\ ref[i] > 0) \/ \E p \in Procs : pc[p] = "new" /\ other[p] = i

NameInv == Plain /\ Dirs /\ Used /\ Freed /\ Fresh /\ Removing /\ Leaving /\ Kept /\ LinksRight /\ NoDangling

-----------------------------------------------------------------------------
(* The programs use no path with "..".                                        *)
PlainPaths == Paths \subseteq Seq(Names)
Named(i)   == \E d \in Inums, n \in Names : entries[d][n] = i

LEMMA UsesMine ==
  ASSUME Types, NEW p \in Procs, NEW i \in Inums
  PROVE  /\ Uses(p, i) => Mine(p, i) > 0
         /\ drop[p] = <<>> /\ ~Uses(p, i) => Mine(p, i) = 0
         /\ Uses(p, i) /\ drop[p] # <<>> /\ Head(drop[p]) = i => Mine(p, i) > 1
<1>1. /\ Is(cwd[p], i) \in Nat /\ Is(file[p], i) \in Nat /\ Is(ip[p], i) \in Nat
      /\ Is(other[p], i) \in Nat /\ InDrop(drop[p], i) \in Nat
  BY OneNat
<1>2. \A x : Is(x, i) = IF x = i THEN 1 ELSE 0 BY DEF Is, One
<1>3. Uses(p, i) <=> Is(cwd[p], i) = 1 \/ Is(file[p], i) = 1 \/ Is(ip[p], i) = 1 \/ Is(other[p], i) = 1
  BY <1>2 DEF Uses
<1>4. ~Uses(p, i) => Is(cwd[p], i) = 0 /\ Is(file[p], i) = 0 /\ Is(ip[p], i) = 0 /\ Is(other[p], i) = 0
  BY <1>2 DEF Uses
<1>5. drop[p] = <<>> => InDrop(drop[p], i) = 0 BY NoDrop
<1>6. drop[p] # <<>> /\ Head(drop[p]) = i => InDrop(drop[p], i) > 0
  <2>1. drop[p] \in Drop2 BY DEF Types
  <2>2. ASSUME drop[p] # <<>>, Head(drop[p]) = i PROVE InDrop(drop[p], i) > 0
    <3>1. InDrop(Tail(drop[p]), i) + Is(Head(drop[p]), i) = InDrop(drop[p], i)
          /\ InDrop(Tail(drop[p]), i) \in Nat
      BY <2>1, <2>2, DropTail
    <3>2. Is(Head(drop[p]), i) = 1 BY <1>2, <2>2
    <3>3. QED BY <3>1, <3>2
  <2>3. QED BY <2>2
<1>7. QED BY <1>1, <1>3, <1>4, <1>5, <1>6 DEF Mine

LEMMA RefPositive ==
  ASSUME RefInv, NEW p \in Procs, NEW i \in Inums, Mine(p, i) > 0
  PROVE  ref[i] > 0
<1>1. Types /\ RefsExact BY DEF RefInv
<1>2. ref[i] = Rest(p, i) + Mine(p, i) /\ Rest(p, i) \in Nat /\ Mine(p, i) \in Nat
  BY <1>1, RefSplit DEF RefsExact
<1>3. QED BY <1>2

(* An inode without links has no name, no subdirectory, and no call that is   *)
(* one off; and it is not the root.                                           *)
LinkCount(i) == NamesOf(i) + Subdirs(i) + OneOff(i) + (IF i = Root THEN 1 ELSE 0)
LEMMA LinkFacts ==
  ASSUME Types, LinksRight, NoDangling, NEW i \in Inums, type[i] # "free"
  PROVE  /\ LinkCount(i) \in Nat /\ nlink[i] >= LinkCount(i)
         /\ nlink[i] = LinkCount(i) \/ (i \in stranded /\ nlink[i] > LinkCount(i))
         /\ nlink[i] = 0 => /\ ~Named(i) /\ i # Root /\ NamesOf(i) = 0 /\ Subdirs(i) = 0 /\ OneOff(i) = 0
         /\ Named(i) => nlink[i] > 0
<1>1. NamesOf(i) \in Nat /\ Subdirs(i) \in Nat /\ OneOff(i) \in Nat BY CountTypes
<1>2. NamesOf(i) > 0 <=> Named(i) BY CountPositive DEF Named
<1>3. nlink[i] = LinkCount(i) \/ (i \in stranded /\ nlink[i] > LinkCount(i)) BY DEF LinksRight, LinkCount
<1>4. nlink[i] \in Int BY DEF Types
<1>5. LinkCount(i) \in Nat /\ LinkCount(i) >= NamesOf(i) /\ LinkCount(i) >= Subdirs(i)
      /\ LinkCount(i) >= OneOff(i) /\ (i = Root => LinkCount(i) > 0)
  BY <1>1 DEF LinkCount
<1>6. nlink[i] >= LinkCount(i) BY <1>3, <1>4, <1>5
<1>7. nlink[i] = 0 => ~Named(i) /\ i # Root /\ NamesOf(i) = 0 /\ Subdirs(i) = 0 /\ OneOff(i) = 0
  BY <1>1, <1>2, <1>4, <1>5, <1>6
<1>8. Named(i) => nlink[i] > 0 BY <1>1, <1>2, <1>4, <1>5, <1>6
<1>9. QED BY <1>3, <1>5, <1>6, <1>7, <1>8

LEMMA FreeUnnamed ==
  ASSUME NameInv, NEW i \in Inums, type[i] = "free"
  PROVE  ~Named(i) /\ i # Root /\ \A p \in Procs : ~Uses(p, i)
<1>1. i # None BY InumFacts
<1>2. QED BY <1>1 DEF NameInv, NoDangling, Named, Dirs, Used

(* What a step of a call does to the inodes, seen by everybody else.          *)
Own(p) ==
  /\ drop[p] = <<>> /\ stranded' = stranded /\ path'[p] \in Seq(Names)
  /\ \A i \in Inums :
       /\ ref'[i] >= ref[i] /\ (valid[i] => valid'[i]) /\ (valid'[i] /\ ~valid[i] => type[i] # "free")
       /\ ref'[i] > ref[i] => Uses(p, i) \/ i = Root \/ Named(i) \/ (type[i] = "free" /\ type'[i] # "free")
       /\ lock'[i] = p /\ drop'[p] # <<>> => Head(drop'[p]) # i
       /\ type'[i] # type[i] => type[i] = "free"
       /\ nlink'[i] # nlink[i] => Uses(p, i)
       /\ entries'[i] # entries[i] => Uses(p, i) /\ lock[i] \in {None, p}
(* The inodes that are left without links stay in use.                        *)
StillUsed(p) == \A i \in Inums : type'[i] # "free" /\ nlink'[i] = 0 =>
  \/ type[i] # "free" /\ nlink[i] = 0 /\ (pc[p] = "new" /\ other[p] = i => valid'[i])
  \/ valid'[i] /\ Uses(p, i)
  \/ pc'[p] = "new" /\ other'[p] = i
Parts(p) == DirOf(p)' /\ NoFiles' /\ FreshOf(p)' /\ RemovingOf(p)' /\ StillUsed(p)
            /\ LinksRight' /\ NoDangling'

LEMMA OwnUses ==
  ASSUME RefInv, NameInv, NEW p \in Procs, Step(p), Own(p), NEW i \in Inums, Uses(p, i)'
  PROVE  Uses(p, i) \/ i = Root \/ Named(i) \/ (type[i] = "free" /\ type'[i] # "free")
<1>1. Types /\ Types' BY DEF RefInv, Step
<1>2. SUFFICES ASSUME ~Uses(p, i) PROVE ref'[i] > ref[i] BY DEF Own
<1>3. Mine(p, i) = 0 BY <1>1, <1>2, UsesMine DEF Own
<1>4. Mine(p, i)' > 0
  <2>1. /\ Is(cwd'[p], i) \in Nat /\ Is(file'[p], i) \in Nat /\ Is(ip'[p], i) \in Nat
        /\ Is(other'[p], i) \in Nat /\ InDrop(drop'[p], i) \in Nat
    BY OneNat
  <2>2. Is(cwd'[p], i) = 1 \/ Is(file'[p], i) = 1 \/ Is(ip'[p], i) = 1 \/ Is(other'[p], i) = 1
    BY DEF Uses, Is, One
  <2>3. QED BY <2>1, <2>2 DEF Mine
<1>5. ref'[i] + Mine(p, i) = ref[i] + Mine(p, i)' BY DEF Step, Refs
<1>6. ref[i] \in Nat /\ ref'[i] \in Nat BY <1>1 DEF Types
<1>7. Mine(p, i)' \in Nat
  <2>1. /\ Is(cwd'[p], i) \in Nat /\ Is(file'[p], i) \in Nat /\ Is(ip'[p], i) \in Nat
        /\ Is(other'[p], i) \in Nat /\ InDrop(drop'[p], i) \in Nat
    BY OneNat
  <2>2. QED BY <2>1 DEF Mine
<1>8. QED BY <1>3, <1>4, <1>5, <1>6, <1>7

LEMMA OwnKeeps ==
  ASSUME RefInv, NameInv, NEW p \in Procs, Step(p), Own(p), Parts(p)
  PROVE  NameInv'
<1>0. Types /\ Types' /\ RefsExact /\ Alone(p) /\ Locks(p) /\ Refs(p) BY DEF RefInv, Step
<1>1. ASSUME NEW q \in Procs \ {p}
      PROVE  /\ pc'[q] = pc[q] /\ op'[q] = op[q] /\ path'[q] = path[q] /\ cwd'[q] = cwd[q]
             /\ file'[q] = file[q] /\ ip'[q] = ip[q] /\ other'[q] = other[q] /\ drop'[q] = drop[q]
             /\ \A i \in Inums : lock'[i] = q <=> lock[i] = q
  BY <1>0, InumFacts DEF Alone, Locks
<1>2. ASSUME NEW q \in Procs \ {p}, NEW i \in Inums PROVE Uses(q, i)' <=> Uses(q, i)
  BY <1>1 DEF Uses
<1>3. ASSUME NEW i \in Inums, type[i] # "free" PROVE type'[i] = type[i] BY <1>3 DEF Own
<1>4. ASSUME NEW q \in Procs, NEW i \in Inums, Uses(q, i) PROVE type'[i] = type[i] /\ type[i] # "free"
  BY <1>3, <1>4 DEF NameInv, Used
<1>5. ASSUME NEW i \in Inums, type[i] # "free", nlink[i] = 0, ~Uses(p, i)
      PROVE  ref'[i] = ref[i] /\ ~Uses(p, i)'
  <2>1. ~Named(i) /\ i # Root BY <1>0, <1>5, LinkFacts DEF NameInv
  <2>2. ref[i] \in Nat /\ ref'[i] \in Nat BY <1>0 DEF Types
  <2>3. ~(ref'[i] > ref[i]) /\ ref'[i] >= ref[i] BY <1>5, <2>1 DEF Own
  <2>4. ~Uses(p, i)' BY <1>5, <2>1, OwnUses
  <2>5. QED BY <2>2, <2>3, <2>4
<1>6. Plain' BY <1>1 DEF Own, NameInv, Plain
<1>7. Dirs'
  <2>1. type'[Root] = "dir" BY <1>3, InumFacts DEF NameInv, Dirs
  <2>2. ASSUME NEW q \in Procs \ {p} PROVE DirOf(q)'
    <3>1. DirOf(q) /\ Stage(q) BY DEF NameInv, Dirs, RefInv, Stages
    <3>2. cwd[q] \in Inums /\ type'[cwd[q]] = type[cwd[q]] BY <1>0, <1>4 DEF Types, Uses
    <3>3. ASSUME (pc[q] = "act" /\ op[q] \in Wants) \/ pc[q] \in {"new", "remove"}
          PROVE  type'[ip[q]] = type[ip[q]]
      <4>1. ip[q] \in Inums BY <1>0, <3>1, <3>3 DEF Types, Entry, Stage
      <4>2. QED BY <1>4, <4>1 DEF Uses
    <3>4. ASSUME op[q] = "link to" PROVE type'[other[q]] = type[other[q]]
      <4>1. pc[q] \in Places /\ other[q] \in Entry BY <1>0 DEF Types
      <4>2. pc[q] \in {"walk", "act", "link bad"} BY <3>1, <3>4, <4>1, NoneFacts DEF Stage, Places, Makes, Ops
      <4>3. other[q] \in Inums BY <3>1, <3>4, <4>1, <4>2 DEF Stage, Entry
      <4>4. QED BY <1>4, <4>3 DEF Uses
    <3>5. QED BY <1>1, <3>1, <3>2, <3>3, <3>4 DEF DirOf
  <2>3. QED BY <2>1, <2>2 DEF Dirs, Parts
<1>8. Used'
  <2>1. ASSUME NEW q \in Procs, NEW i \in Inums, Uses(q, i)' PROVE type'[i] # "free"
    <3>1. CASE q # p BY <1>2, <1>4, <2>1, <3>1
    <3>2. CASE q = p
      <4>1. Uses(p, i) \/ i = Root \/ Named(i) \/ (type[i] = "free" /\ type'[i] # "free")
        BY <2>1, <3>2, OwnUses
      <4>2. Named(i) => type[i] # "free" BY FreeUnnamed
      <4>3. type[Root] # "free" BY DEF NameInv, Dirs
      <4>4. QED BY <1>3, <1>4, <4>1, <4>2, <4>3
    <3>3. QED BY <3>1, <3>2
  <2>2. QED BY <2>1 DEF Used
<1>9. Freed'
  <2>1. ASSUME NEW i \in Inums, type'[i] = "free" PROVE nlink'[i] = 0 /\ ~valid'[i]
    <3>1. type[i] = "free" BY <1>3, <2>1
    <3>2. nlink[i] = 0 /\ ~valid[i] /\ ~Uses(p, i) BY <3>1 DEF NameInv, Freed, Used
    <3>3. QED BY <3>1, <3>2 DEF Own
  <2>2. QED BY <2>1 DEF Freed
<1>10. Fresh'
  <2>1. ASSUME NEW q \in Procs, pc'[q] = "new" PROVE FreshOf(q)'
    <3>1. CASE q = p BY <3>1 DEF Parts
    <3>2. CASE q # p
      <4>1. pc[q] = "new" /\ FreshOf(q) /\ Stage(q) /\ Holder(q)
        BY <1>1, <2>1, <3>2 DEF NameInv, Fresh, RefInv, Stages, Holders
      <4>2. PICK i \in Inums, d \in Inums : i = other[q] /\ d = ip[q]
        BY <1>0, <4>1 DEF Types, Entry, Stage
      <4>3. Uses(q, i) /\ Uses(q, d) /\ ~Uses(p, i) /\ lock[d] = q
        BY <3>2, <4>1, <4>2 DEF Uses, FreshOf, Holder
      <4>4. type'[i] = type[i] /\ type[i] # "free" BY <1>4, <4>3
      <4>5. nlink[i] = 0 BY <4>1, <4>2 DEF FreshOf
      <4>6. nlink'[i] = 0 /\ entries'[i] = entries[i] BY <4>3, <4>5 DEF Own
      <4>7. entries'[d] = entries[d] BY <3>2, <4>3, InumFacts DEF Own
      <4>8. ~Uses(p, i)' BY <1>5, <4>3, <4>4, <4>5
      <4>9. \A r \in Procs \ {q} : ~Uses(r, i)'
        <5>1. \A r \in Procs \ {q} : ~Uses(r, i) BY <4>1, <4>2 DEF FreshOf
        <5>2. QED BY <1>2, <4>8, <5>1
      <4>10. other'[q] = i /\ ip'[q] = d /\ op'[q] = op[q] /\ path'[q] = path[q] BY <1>1, <3>2, <4>2
      <4>11. /\ nlink'[i] = 0 /\ entries'[i] = NoEntries /\ entries'[d][Head(path'[q])] = None
             /\ type'[i] = IF op'[q] = "mkdir" THEN "dir" ELSE "file"
        BY <4>1, <4>2, <4>4, <4>6, <4>7, <4>10 DEF FreshOf
      <4>12. \A r \in Procs \ {q} : ~Uses(r, other[q])' BY <4>9, <4>10 DEF Uses
      <4>13. QED BY <4>10, <4>11, <4>12 DEF FreshOf, NoEntries
    <3>3. QED BY <3>1, <3>2
  <2>2. ASSUME NEW q \in Procs, pc'[q] # "new" PROVE FreshOf(q)' BY <2>2 DEF FreshOf
  <2>3. QED BY <2>1, <2>2 DEF Fresh
<1>11. Removing'
  <2>1. ASSUME NEW q \in Procs \ {p} PROVE RemovingOf(q)'
    <3>1. RemovingOf(q) /\ Stage(q) /\ Holder(q) BY DEF NameInv, Removing, RefInv, Stages, Holders
    <3>2. pc[q] = "remove" => ip[q] \in Inums /\ lock[ip[q]] = q
      BY <1>0, <3>1 DEF Types, Entry, Stage, Holder
    <3>3. pc[q] = "removed" => other[q] \in Inums BY <1>0, <3>1 DEF Types, Entry, Stage
    <3>4. pc[q] = "remove" => entries'[ip[q]] = entries[ip[q]] /\ (valid[ip[q]] => valid'[ip[q]])
      BY <3>2, InumFacts DEF Own
    <3>5. pc[q] = "removed" => (valid[other[q]] => valid'[other[q]]) BY <3>3 DEF Own
    <3>6. QED BY <1>1, <3>1, <3>4, <3>5 DEF RemovingOf
  <2>2. QED BY <2>1 DEF Removing, Parts
<1>12. Leaving'
  <2>1. ASSUME NEW q \in Procs, NEW i \in Inums, Freeing(q, i)' PROVE ref'[i] = 1 /\ valid'[i] /\ nlink'[i] = 0
    <3>1. CASE q = p BY <2>1, <3>1 DEF Own, Freeing
    <3>2. CASE q # p
      <4>1. Freeing(q, i) BY <1>1, <2>1, <3>2 DEF Freeing
      <4>2. ref[i] = 1 /\ valid[i] /\ nlink[i] = 0 BY <4>1 DEF NameInv, Leaving
      <4>3. Mine(q, i) > 0 BY <1>0, <4>1, HoldsMine DEF Holds, Freeing
      <4>4. ~Uses(p, i)
        <5>1. Mine(p, i) > 0 => ref[i] > 1 BY <3>2, <4>3, SoleRef
        <5>2. QED BY <1>0, <4>2, <5>1, UsesMine
      <4>5. type[i] # "free" BY <4>2 DEF NameInv, Freed
      <4>6. ref'[i] = ref[i] BY <1>5, <4>2, <4>4, <4>5
      <4>7. QED BY <4>2, <4>4, <4>6 DEF Own
    <3>3. QED BY <3>1, <3>2
  <2>2. QED BY <2>1 DEF Leaving
<1>13. Kept'
  <2>1. ASSUME NEW i \in Inums, type'[i] # "free", nlink'[i] = 0
        PROVE  (valid'[i] /\ ref'[i] > 0) \/ \E q \in Procs : pc'[q] = "new" /\ other'[q] = i
    <3>1. ref[i] \in Nat /\ ref'[i] \in Nat /\ ref'[i] >= ref[i] /\ (valid[i] => valid'[i])
      BY <1>0 DEF Types, Own
    <3>2. CASE pc'[p] = "new" /\ other'[p] = i BY <3>2
    <3>3. CASE valid'[i] /\ Uses(p, i)
      <4>1. ref[i] > 0 BY <1>0, <3>3, UsesMine, RefPositive
      <4>2. QED BY <3>1, <3>3, <4>1
    <3>4. CASE type[i] # "free" /\ nlink[i] = 0 /\ (pc[p] = "new" /\ other[p] = i => valid'[i])
      <4>1. CASE valid[i] /\ ref[i] > 0 BY <3>1, <4>1
      <4>2. CASE \E q \in Procs : pc[q] = "new" /\ other[q] = i
        <5>1. PICK q \in Procs : pc[q] = "new" /\ other[q] = i BY <4>2
        <5>2. CASE q # p BY <1>1, <5>1, <5>2
        <5>3. CASE q = p
          <6>1. valid'[i] /\ Uses(p, i) BY <3>4, <5>1, <5>3 DEF Uses
          <6>2. ref[i] > 0 BY <1>0, <6>1, UsesMine, RefPositive
          <6>3. QED BY <3>1, <6>1, <6>2
        <5>4. QED BY <5>2, <5>3
      <4>3. QED BY <3>4, <4>1, <4>2 DEF NameInv, Kept
    <3>5. QED BY <2>1, <3>2, <3>3, <3>4 DEF Parts, StillUsed
  <2>2. QED BY <2>1 DEF Kept
<1>14. QED BY <1>6, <1>7, <1>8, <1>9, <1>10, <1>11, <1>12, <1>13 DEF NameInv, Parts

LEMMA LinksMove ==
  ASSUME Types, Types', LinksRight, type' = type, stranded' = stranded,
         \A i \in Inums : LinkCount(i)' \in Int,
         \A i \in Inums : type[i] # "free" => nlink'[i] + LinkCount(i) = nlink[i] + LinkCount(i)'
  PROVE  LinksRight'
<1>1. ASSUME NEW i \in Inums, type'[i] # "free"
      PROVE  nlink'[i] = LinkCount(i)' \/ (i \in stranded' /\ nlink'[i] > LinkCount(i)')
  <2>1. nlink[i] = LinkCount(i) \/ (i \in stranded /\ nlink[i] > LinkCount(i))
    BY <1>1 DEF LinksRight, LinkCount
  <2>2. nlink[i] \in Int /\ nlink'[i] \in Int BY DEF Types
  <2>3. LinkCount(i) \in Int
    <3>1. NamesOf(i) \in Nat /\ Subdirs(i) \in Nat /\ OneOff(i) \in Nat BY CountTypes
    <3>2. QED BY <3>1 DEF LinkCount
  <2>4. nlink'[i] + LinkCount(i) = nlink[i] + LinkCount(i)' /\ LinkCount(i)' \in Int BY <1>1
  <2> DEFINE a == nlink[i]  b == nlink'[i]  c == LinkCount(i)  d == LinkCount(i)'
  <2>5. a \in Int /\ b \in Int /\ c \in Int /\ d \in Int /\ b + c = a + d BY <2>2, <2>3, <2>4
  <2>6. a = c \/ (i \in stranded' /\ a > c) BY <2>1
  <2> HIDE DEF a, b, c, d
  <2>7. (a = c => b = d) /\ (a > c => b > d) BY <2>5
  <2>8. b = d \/ (i \in stranded' /\ b > d) BY <2>6, <2>7
  <2>9. QED BY <2>8 DEF b, d
<1>2. QED BY <1>1 DEF LinksRight, LinkCount

ValidUp == \A i \in Inums :
  (valid[i] => valid'[i]) /\ (valid'[i] /\ ~valid[i] => type[i] # "free")

(* A step of a call that leaves the disk as it is.                            *)
Quiet(p) ==
  /\ UNCHANGED <<type, nlink, entries, stranded>> /\ ValidUp
  /\ drop[p] = <<>> /\ path'[p] \in Seq(Names)
  /\ \A i \in Inums :
       /\ ref'[i] >= ref[i]
       /\ ref'[i] > ref[i] => Uses(p, i) \/ i = Root \/ Named(i)
       /\ lock'[i] = p /\ drop'[p] # <<>> => Head(drop'[p]) # i
       /\ Off(p, i)' <=> Off(p, i)
  /\ pc[p] = "new" => valid'[other[p]]
  /\ pc'[p] \notin {"new", "removed"}

LEMMA QuietKeeps ==
  ASSUME RefInv, NameInv, NEW p \in Procs, Step(p), Quiet(p), DirOf(p)', RemovingOf(p)'
  PROVE  NameInv'
<1>0. Types /\ Types' /\ Alone(p) BY DEF RefInv, Step
<1>1. Own(p) BY DEF Own, Quiet, ValidUp
<1>2. NoFiles' /\ NoDangling' BY DEF NameInv, Dirs, NoFiles, NoDangling, Quiet, NoEntries
<1>3. FreshOf(p)' BY DEF FreshOf, Quiet
<1>4. StillUsed(p) BY DEF StillUsed, Quiet
<1>5. LinksRight'
  <2>1. ASSUME NEW i \in Inums PROVE LinkCount(i)' = LinkCount(i) /\ LinkCount(i) \in Int
    <3>1. NamesOf(i)' = NamesOf(i) /\ Subdirs(i)' = Subdirs(i) BY DEF NamesOf, Subdirs, Quiet
    <3>2. OneOff(i)' + One(Off(p, i)) = OneOff(i) + One(Off(p, i)') /\ OneOff(i)' \in Nat
      BY <1>0, OffStep
    <3>3. One(Off(p, i)) = One(Off(p, i)') /\ One(Off(p, i)) \in Nat BY DEF Quiet, One
    <3>4. NamesOf(i) \in Nat /\ Subdirs(i) \in Nat /\ OneOff(i) \in Nat BY CountTypes
    <3>5. OneOff(i)' = OneOff(i) BY <3>2, <3>3, <3>4
    <3>6. QED BY <3>1, <3>4, <3>5 DEF LinkCount
  <2>2. \A i \in Inums : nlink[i] \in Int /\ nlink'[i] = nlink[i] BY <1>0 DEF Types, Quiet
  <2>3. QED BY <1>0, <2>1, <2>2, LinksMove DEF NameInv, Quiet
<1>6. QED BY <1>1, <1>2, <1>3, <1>4, <1>5, OwnKeeps DEF Parts

LEMMA PlainFacts ==
  ASSUME NameInv, NEW p \in Procs
  PROVE  /\ path[p] \in Seq(Names) /\ <<>> \in Seq(Names)
         /\ path[p] # <<>> => Head(path[p]) \in Names /\ Tail(path[p]) \in Seq(Names)
<1>1. path[p] \in Seq(Names) BY DEF NameInv, Plain
<1>2. <<>> \in Seq(Names) OBVIOUS
<1>3. path[p] # <<>> => Head(path[p]) \in Names /\ Tail(path[p]) \in Seq(Names)
  BY <1>1, HeadTailProperties
<1>4. QED BY <1>1, <1>2, <1>3

LEMMA LookupPlain ==
  ASSUME Types, NEW i \in Inums, NEW n \in Names
  PROVE  /\ Lookup(i, n) = entries[i][n] /\ Lookup(i, n) \in Entry
         /\ Lookup(i, n) # None => Lookup(i, n) \in Inums /\ Named(Lookup(i, n))
<1>1. Lookup(i, n) = entries[i][n] BY CallsAssumption DEF Lookup
<1>2. entries[i][n] \in Entry BY DEF Types
<1>3. QED BY <1>1, <1>2 DEF Entry, Named

LEMMA ValidRead ==
  ASSUME Types, NEW i \in Inums, ~NoType(i), valid' = Set(valid, i, TRUE)
  PROVE  ValidUp /\ valid'[i]
BY DEF Types, Set, NoType, ValidUp

LEMMA FailQuiet ==
  ASSUME RefInv, NameInv, NEW p \in Procs, Step(p), NEW is \in Drop2, Fail(p, is), drop[p] = <<>>,
         UNCHANGED <<type, nlink, entries, stranded, cwd, ref>>, ValidUp,
         \A k \in Inums : lock'[k] # p, pc[p] = "new" => valid'[other[p]],
         pc[p] # "removed"
  PROVE  NameInv'
<1>0. Types BY DEF RefInv
<1>1. /\ drop'[p] = is /\ ip'[p] = None
      /\ \/ /\ op[p] # "link to" /\ pc'[p] = "user" /\ other'[p] = None
            /\ op'[p] = None /\ path'[p] = <<>>
         \/ /\ op[p] = "link to" /\ pc'[p] = "link bad" /\ other'[p] = other[p]
            /\ op'[p] = op[p] /\ path'[p] = path[p]
  BY <1>0, FailFacts
<1>2. path'[p] \in Seq(Names) BY <1>1, PlainFacts
<1>3. \A i \in Inums : Off(p, i)' <=> Off(p, i)
  <2>1. None # "link to" BY NoneFacts DEF Ops
  <2>2. QED BY <1>1, <2>1, InumFacts DEF Off
<1>4. Quiet(p)
  <2>1. \A i \in Inums : ref'[i] >= ref[i] /\ ~(ref'[i] > ref[i])
    <3>1. \A i \in Inums : ref[i] \in Nat BY <1>0 DEF Types
    <3>2. QED BY <3>1
  <2>2. QED BY <1>1, <1>2, <1>3, <2>1 DEF Quiet
<1>5. DirOf(p)'
  <2>1. None # "link to" BY NoneFacts DEF Ops
  <2>2. DirOf(p) BY DEF NameInv, Dirs
  <2>3. QED BY <1>1, <2>1, <2>2 DEF DirOf
<1>6. RemovingOf(p)' BY <1>1 DEF RemovingOf
<1>7. QED BY <1>4, <1>5, <1>6, QuietKeeps

LEMMA RefSteady ==
  ASSUME Types, ref' = ref
  PROVE  \A i \in Inums : ref'[i] >= ref[i] /\ ~(ref'[i] > ref[i])
<1>1. \A i \in Inums : ref[i] \in Nat BY DEF Types
<1>2. QED BY <1>1

LEMMA RefGrows ==
  ASSUME Types, NEW j \in Inums, ref' = iget(j)
  PROVE  \A i \in Inums : ref'[i] >= ref[i] /\ (ref'[i] > ref[i] => i = j)
<1>1. \A i \in Inums : ref[i] \in Nat /\ ref'[i] = ref[i] + Is(j, i) BY IgetFacts DEF Types
<1>2. \A i : Is(j, i) = IF j = i THEN 1 ELSE 0 BY DEF Is, One
<1>3. QED BY <1>1, <1>2

LEMMA ValidSteady == valid' = valid => ValidUp
BY DEF ValidUp

LEMMA CallName ==
  ASSUME RefInv, NameInv, PlainPaths, NEW p \in Procs, NEW c \in Calls[p], NEW w \in Paths,
         NEW i \in {Root, cwd[p]}, Step(p), Call(p, c, w, i)
  PROVE  NameInv'
<1>0. Types /\ Stage(p) /\ Holder(p) BY DEF RefInv, Stages, Holders
<1>1. /\ pc[p] = "user" /\ drop[p] = <<>> /\ op[p] = None /\ ip[p] = None /\ other[p] = None
  BY <1>0 DEF Call, At, Stage
<1>2. c \in Kinds /\ c # "link to" /\ None # "link to" BY CallsAssumption DEF Kinds
<1>3. /\ pc'[p] = "walk" /\ drop'[p] = <<>> /\ ip'[p] = i /\ other'[p] = None
      /\ op'[p] = c /\ path'[p] = w
  BY <1>0 DEF Call, Then, Give, Set, Types
<1>4. UNCHANGED <<type, nlink, entries, stranded, valid, lock, cwd, file>> BY DEF Call, diskVars
<1>5. i \in Inums BY <1>0, InumFacts DEF Types
<1>6. \A k \in Inums : ref'[k] >= ref[k] /\ (ref'[k] > ref[k] => k = i) BY <1>0, <1>5, RefGrows DEF Call
<1>7. i = Root \/ Uses(p, i) BY DEF Uses
<1>8. w \in Seq(Names) BY DEF PlainPaths
<1>9. Quiet(p)
  <2>1. \A k \in Inums : Off(p, k)' <=> Off(p, k) BY <1>1, <1>2, <1>3 DEF Off
  <2>2. ValidUp BY <1>4, ValidSteady
  <2>3. QED BY <1>1, <1>3, <1>4, <1>6, <1>7, <1>8, <2>1, <2>2 DEF Quiet
<1>10. DirOf(p)'
  <2>1. DirOf(p) BY DEF NameInv, Dirs
  <2>2. QED BY <1>2, <1>3, <1>4, <2>1 DEF DirOf
<1>11. RemovingOf(p)' BY <1>3 DEF RemovingOf
<1>12. QED BY <1>9, <1>10, <1>11, QuietKeeps

LEMMA CloseName ==
  ASSUME RefInv, NameInv, NEW p \in Procs, Step(p), close(p)
  PROVE  NameInv'
<1>0. Types /\ Stage(p) /\ Holder(p) BY DEF RefInv, Stages, Holders
<1>1. /\ pc[p] = "user" /\ drop[p] = <<>> /\ op[p] = None
  BY <1>0 DEF close, At, Stage
<1>2. None # "link to" BY NoneFacts DEF Ops
<1>3. pc'[p] = "user" BY <1>0 DEF close, Then, Set, Types
<1>4. UNCHANGED <<type, nlink, entries, stranded, ref, valid, lock, cwd, op, path, ip, other>>
  BY DEF close, diskVars
<1>5. \A k \in Inums : lock'[k] # p BY <1>0, <1>1, <1>4 DEF Holder, Holds
<1>6. Quiet(p)
  <2>1. \A k \in Inums : Off(p, k)' <=> Off(p, k) BY <1>1, <1>2, <1>3, <1>4 DEF Off
  <2>2. ValidUp BY <1>4, ValidSteady
  <2>3. path'[p] \in Seq(Names) BY <1>4, PlainFacts
  <2>4. \A i \in Inums : ref'[i] >= ref[i] /\ ~(ref'[i] > ref[i]) BY <1>0, <1>4, RefSteady
  <2>5. QED BY <1>1, <1>3, <1>4, <1>5, <2>1, <2>2, <2>3, <2>4 DEF Quiet
<1>7. DirOf(p)'
  <2>1. DirOf(p) BY DEF NameInv, Dirs
  <2>2. QED BY <1>1, <1>2, <1>3, <1>4, <2>1 DEF DirOf
<1>8. RemovingOf(p)' BY <1>3 DEF RemovingOf
<1>9. QED BY <1>6, <1>7, <1>8, QuietKeeps

LEMMA WalkName ==
  ASSUME RefInv, NameInv, NEW p \in Procs, Step(p), Walk(p)
  PROVE  NameInv'
<1> DEFINE i == ip[p]  j == Lookup(i, Head(path[p]))
<1>0. Types /\ Stage(p) /\ Holder(p) BY DEF RefInv, Stages, Holders
<1>1. pc[p] = "walk" /\ drop[p] = <<>> /\ i \in Inums /\ path[p] # <<>> BY <1>0 DEF Walk, At, Stage
<1>2. ValidUp BY <1>0, <1>1, ValidRead DEF Walk
<1>3. UNCHANGED <<type, nlink, entries, stranded, lock, cwd, file>> BY DEF Walk, diskVars
<1>4. \A k \in Inums : lock'[k] # p BY <1>0, <1>1, <1>3 DEF Holder, Holds
<1>5. DirOf(p) BY DEF NameInv, Dirs
<1>6. CASE Fail(p, <<i>>) /\ ref' = ref
  <2>1. <<i>> \in Drop2 BY <1>1, DropIn
  <2>2. QED BY <1>1, <1>2, <1>3, <1>4, <1>6, <2>1, FailQuiet
<1>7. CASE /\ type[i] = "dir" /\ Then(p, <<>>, "act") /\ UNCHANGED <<ref, op, path, ip, other>>
  <2>1. pc'[p] = "act" /\ drop'[p] = <<>> BY <1>0, <1>7 DEF Then, Set, Types
  <2>2. Quiet(p)
    <3>1. \A k \in Inums : Off(p, k)' <=> Off(p, k) BY <1>1, <1>7, <2>1 DEF Off
    <3>2. \A k \in Inums : ref'[k] >= ref[k] /\ ~(ref'[k] > ref[k]) BY <1>0, <1>7, RefSteady
    <3>3. path'[p] \in Seq(Names) BY <1>7, PlainFacts
    <3>4. QED BY <1>1, <1>2, <1>3, <1>4, <2>1, <3>1, <3>2, <3>3 DEF Quiet
  <2>3. DirOf(p)' BY <1>3, <1>5, <1>7 DEF DirOf
  <2>4. RemovingOf(p)' BY <2>1 DEF RemovingOf
  <2>5. QED BY <2>2, <2>3, <2>4, QuietKeeps
<1>8. CASE /\ ~Stops(p) /\ j # None /\ ref' = iget(j)
           /\ path' = Set(path, p, Tail(path[p])) /\ op' = op
           /\ Give(p, j, other[p]) /\ Then(p, <<i>>, IF Len(path[p]) = 1 THEN "act" ELSE "walk")
  <2>1. j \in Inums /\ Named(j) BY <1>0, <1>1, <1>8, PlainFacts, LookupPlain
  <2>2. /\ pc'[p] = IF Len(path[p]) = 1 THEN "act" ELSE "walk"
        /\ drop'[p] = <<i>> /\ other'[p] = other[p]
    BY <1>0, <1>8 DEF Then, Give, Set, Types
  <2>3. path'[p] = Tail(path[p]) BY <1>0, <1>8 DEF Set, Types
  <2>4. Quiet(p)
    <3>1. \A k \in Inums : Off(p, k)' <=> Off(p, k) BY <1>1, <1>8, <2>2 DEF Off
    <3>2. \A k \in Inums : ref'[k] >= ref[k] /\ (ref'[k] > ref[k] => k = j)
      BY <1>0, <1>8, <2>1, RefGrows
    <3>3. path'[p] \in Seq(Names) BY <1>1, <2>3, PlainFacts
    <3> HIDE DEF j
    <3>4. QED BY <1>1, <1>2, <1>3, <1>4, <2>1, <2>2, <3>1, <3>2, <3>3 DEF Quiet
  <2>5. DirOf(p)'
    <3>1. pc'[p] = "act" => op'[p] \notin Wants BY <1>8, <2>2 DEF Stops
    <3>2. pc'[p] \in {"act", "walk"} /\ op'[p] = op[p] BY <1>8, <2>2
    <3>3. QED BY <1>3, <1>5, <2>2, <3>1, <3>2 DEF DirOf
  <2>6. RemovingOf(p)' BY <2>2 DEF RemovingOf
  <2>7. QED BY <2>4, <2>5, <2>6, QuietKeeps
<1>9. QED BY <1>6, <1>7, <1>8 DEF Walk

LEMMA FoundName ==
  ASSUME RefInv, NEW p \in Procs, Found(p)
  PROVE  /\ pc[p] = "act" /\ drop[p] = <<>> /\ ip[p] \in Inums /\ lock[ip[p]] = None
         /\ (op[p] # "link to" => other[p] = None) /\ (\A k \in Inums : lock[k] # p)
         /\ ValidUp /\ valid'[ip[p]] /\ <<ip[p]>> \in Drop2
<1>1. FoundFacts(p) BY FoundRef
<1>2. ValidUp /\ valid'[ip[p]]
  BY <1>1, ValidRead DEF Found, FoundFacts, RefInv
<1>3. QED BY <1>1, <1>2, DropIn DEF FoundFacts

LEMMA OpenName ==
  ASSUME RefInv, NameInv, NEW p \in Procs, Step(p), sys_open(p)
  PROVE  NameInv'
<1>0. Types BY DEF RefInv
<1>1. /\ pc[p] = "act" /\ drop[p] = <<>> /\ op[p] = "open" /\ ValidUp /\ \A k \in Inums : lock[k] # p
  BY FoundName DEF sys_open
<1>2. UNCHANGED <<type, nlink, entries, stranded, ref, lock, cwd>> BY DEF sys_open, diskVars
<1>3. pc'[p] = "user" /\ op'[p] = None /\ path'[p] = <<>> /\ other'[p] = None /\ drop'[p] = <<>>
  BY <1>0, DropIn, OverFacts DEF sys_open
<1>4. None # "link to" BY NoneFacts DEF Ops
<1>5. Quiet(p)
  <2>1. \A k \in Inums : Off(p, k)' <=> Off(p, k) BY <1>1, <1>3, <1>4 DEF Off
  <2>2. \A k \in Inums : ref'[k] >= ref[k] /\ ~(ref'[k] > ref[k]) BY <1>0, <1>2, RefSteady
  <2>3. path'[p] \in Seq(Names) BY <1>3, PlainFacts
  <2>4. QED BY <1>1, <1>2, <1>3, <2>1, <2>2, <2>3 DEF Quiet
<1>6. DirOf(p)'
  <2>1. DirOf(p) BY DEF NameInv, Dirs
  <2>2. QED BY <1>2, <1>3, <1>4, <2>1 DEF DirOf
<1>7. RemovingOf(p)' BY <1>3 DEF RemovingOf
<1>8. QED BY <1>5, <1>6, <1>7, QuietKeeps

LEMMA ChdirName ==
  ASSUME RefInv, NameInv, NEW p \in Procs, Step(p), sys_chdir(p)
  PROVE  NameInv'
<1> DEFINE i == ip[p]
<1>0. Types BY DEF RefInv
<1>1. /\ pc[p] = "act" /\ drop[p] = <<>> /\ op[p] = "chdir" /\ ValidUp /\ i \in Inums /\ <<i>> \in Drop2
      /\ \A k \in Inums : lock[k] # p
  BY FoundName DEF sys_chdir
<1>2. UNCHANGED <<type, nlink, entries, stranded, ref, lock>> BY DEF sys_chdir, diskVars
<1>3. CASE Fail(p, <<i>>) /\ UNCHANGED cwd
  BY <1>1, <1>2, <1>3, FailQuiet
<1>4. CASE type[i] = "dir" /\ cwd' = [cwd EXCEPT ![p] = i] /\ Over(p, <<cwd[p]>>)
  <2>1. cwd[p] \in Inums /\ <<cwd[p]>> \in Drop2 /\ cwd'[p] = i BY <1>0, <1>4, DropIn DEF Types
  <2>2. pc'[p] = "user" /\ op'[p] = None /\ path'[p] = <<>> /\ other'[p] = None /\ drop'[p] = <<cwd[p]>>
    BY <1>0, <1>4, <2>1, OverFacts
  <2>3. None # "link to" BY NoneFacts DEF Ops
  <2>4. Quiet(p)
    <3>1. \A k \in Inums : Off(p, k)' <=> Off(p, k) BY <1>1, <2>2, <2>3 DEF Off
    <3>2. \A k \in Inums : ref'[k] >= ref[k] /\ ~(ref'[k] > ref[k]) BY <1>0, <1>2, RefSteady
    <3>3. path'[p] \in Seq(Names) BY <2>2, PlainFacts
    <3>4. QED BY <1>1, <1>2, <2>2, <3>1, <3>2, <3>3 DEF Quiet
  <2>5. DirOf(p)' BY <1>2, <1>4, <2>1, <2>2, <2>3 DEF DirOf
  <2>6. RemovingOf(p)' BY <2>2 DEF RemovingOf
  <2>7. QED BY <2>4, <2>5, <2>6, QuietKeeps
<1>5. QED BY <1>3, <1>4 DEF sys_chdir, Set

(* A step that changes only nlink and how far p is from the right count.      *)
LEMMA CountMoves ==
  ASSUME Types, Types', LinksRight, NEW p \in Procs, Alone(p), UNCHANGED <<type, entries, stranded>>,
         \A i \in Inums : type[i] # "free" =>
            nlink'[i] + One(Off(p, i)) = nlink[i] + One(Off(p, i)')
  PROVE  LinksRight'
<1>1. ASSUME NEW i \in Inums
      PROVE  LinkCount(i)' \in Int /\ (type[i] # "free" => nlink'[i] + LinkCount(i) = nlink[i] + LinkCount(i)')
  <2>1. NamesOf(i)' = NamesOf(i) /\ Subdirs(i)' = Subdirs(i) BY DEF NamesOf, Subdirs
  <2>2. OneOff(i)' + One(Off(p, i)) = OneOff(i) + One(Off(p, i)') /\ OneOff(i)' \in Nat BY OffStep
  <2>3. One(Off(p, i)) \in Nat /\ One(Off(p, i)') \in Nat BY DEF One
  <2>4. NamesOf(i) \in Nat /\ Subdirs(i) \in Nat /\ OneOff(i) \in Nat BY CountTypes
  <2>5. nlink[i] \in Int /\ nlink'[i] \in Int BY DEF Types
  <2> DEFINE r == IF i = Root THEN 1 ELSE 0  a == One(Off(p, i))  b == One(Off(p, i)')
             m == NamesOf(i) + Subdirs(i) + r
  <2>6. LinkCount(i) = m + OneOff(i) /\ LinkCount(i)' = m + OneOff(i)' /\ m \in Nat
    BY <2>1, <2>2, <2>4 DEF LinkCount
  <2>7. type[i] # "free" => nlink'[i] + a = nlink[i] + b OBVIOUS
  <2> DEFINE x == OneOff(i)  y == OneOff(i)'  u == nlink[i]  v == nlink'[i]
  <2>8. a \in Nat /\ b \in Nat /\ y + a = x + b BY <2>2, <2>3
  <2>9. x \in Nat /\ y \in Nat /\ u \in Int /\ v \in Int /\ m \in Nat BY <2>2, <2>4, <2>5, <2>6
  <2>10. LinkCount(i) = m + x /\ LinkCount(i)' = m + y BY <2>6
  <2>11. type[i] # "free" => v + a = u + b BY <2>7
  <2> HIDE DEF a, b, m, x, y, u, v
  <2>12. v + a = u + b => v + (m + x) = u + (m + y) BY <2>8, <2>9
  <2>13. m + y \in Int BY <2>9
  <2>14. QED BY <2>10, <2>11, <2>12, <2>13 DEF u, v
<1>2. QED BY <1>1, LinksMove

LEMMA LinkName ==
  ASSUME RefInv, NameInv, PlainPaths, NEW p \in Procs, NEW w \in Paths, Step(p), sys_link(p, w)
  PROVE  NameInv'
<1> DEFINE i == ip[p]
<1>0. Types /\ Types' /\ Alone(p) BY DEF RefInv, Step
<1>1. /\ pc[p] = "act" /\ drop[p] = <<>> /\ op[p] = "link" /\ ValidUp /\ i \in Inums /\ <<i>> \in Drop2
      /\ valid'[i] /\ other[p] = None /\ \A k \in Inums : lock[k] # p
  BY FoundName DEF sys_link
<1>2. UNCHANGED <<type, entries, stranded, lock, cwd, file>> BY DEF sys_link
<1>3. CASE Fail(p, <<i>>) /\ UNCHANGED <<nlink, ref>>
  BY <1>1, <1>2, <1>3, FailQuiet
<1>4. CASE /\ type[i] # "dir" /\ nlink' = [nlink EXCEPT ![i] = @ + 1]
           /\ op' = [op EXCEPT ![p] = "link to"] /\ path' = [path EXCEPT ![p] = w]
           /\ ref' = iget(Root) /\ Give(p, Root, i) /\ Then(p, <<>>, "walk")
  <2>1. /\ pc'[p] = "walk" /\ drop'[p] = <<>> /\ op'[p] = "link to" /\ path'[p] = w
        /\ ip'[p] = Root /\ other'[p] = i
    BY <1>0, <1>4 DEF Then, Give, Set, Types
  <2>2. Uses(p, i) BY DEF Uses
  <2>3. type[i] = "file"
    <3>1. type[i] # "free" BY <1>1, <2>2 DEF NameInv, Used
    <3>2. type[i] \in {"free", "file", "dir"} BY <1>0, <1>1 DEF Types
    <3>3. QED BY <1>4, <3>1, <3>2
  <2>4. nlink'[i] = nlink[i] + 1 /\ \A k \in Inums \ {i} : nlink'[k] = nlink[k] BY <1>0, <1>1, <1>4 DEF Types
  <2>5. \A k \in Inums : nlink[k] \in Int BY <1>0 DEF Types
  <2>6. Own(p)
    <3>1. \A k \in Inums : ref'[k] >= ref[k] /\ (ref'[k] > ref[k] => k = Root)
      BY <1>0, <1>4, InumFacts, RefGrows
    <3>2. w \in Seq(Names) BY DEF PlainPaths
    <3>3. \A k \in Inums : nlink'[k] # nlink[k] => Uses(p, k) BY <2>2, <2>4
    <3>4. QED BY <1>1, <1>2, <2>1, <3>1, <3>2, <3>3 DEF Own, ValidUp
  <2>7. DirOf(p)'
    <3>1. DirOf(p) BY DEF NameInv, Dirs
    <3>2. QED BY <1>2, <2>1, <2>3, <3>1 DEF DirOf
  <2>8. NoFiles' /\ NoDangling' /\ FreshOf(p)' /\ RemovingOf(p)'
    BY <1>2, <2>1 DEF NameInv, Dirs, NoFiles, NoDangling, NoEntries, FreshOf, RemovingOf
  <2>9. StillUsed(p) BY <1>1, <1>2, <2>2, <2>4 DEF StillUsed
  <2>10. LinksRight'
    <3>1. ASSUME NEW k \in Inums PROVE nlink'[k] + One(Off(p, k)) = nlink[k] + One(Off(p, k)')
      <4>1. ~Off(p, k) BY <1>1, InumFacts DEF Off
      <4>2. Off(p, k)' <=> k = i BY <2>1 DEF Off
      <4>3. One(Off(p, k)) = 0 BY <4>1 DEF One
      <4>4. One(Off(p, k)') = IF k = i THEN 1 ELSE 0 BY <4>2 DEF One
      <4>5. QED BY <2>4, <2>5, <4>3, <4>4
    <3>2. QED BY <1>0, <1>2, <3>1, CountMoves DEF NameInv
  <2>11. QED BY <2>6, <2>7, <2>8, <2>9, <2>10, OwnKeeps DEF Parts
<1>5. QED BY <1>3, <1>4 DEF sys_link, Set

LEMMA LinkBadName ==
  ASSUME RefInv, NameInv, NEW p \in Procs, Step(p), LinkBad(p)
  PROVE  NameInv'
<1> DEFINE i == other[p]
<1>0. Types /\ Types' /\ Alone(p) /\ Stage(p) /\ Holder(p) BY DEF RefInv, Step, Stages, Holders
<1>1. /\ pc[p] = "link bad" /\ drop[p] = <<>> /\ op[p] = "link to" /\ i \in Inums
      /\ \A k \in Inums : lock[k] # p
  BY <1>0, InumFacts DEF LinkBad, At, Stage, Types, Holder, Holds
<1>2. ValidUp /\ valid'[i] BY <1>0, <1>1, ValidRead DEF LinkBad
<1>3. UNCHANGED <<type, entries, stranded, ref, lock, cwd, file>> BY DEF LinkBad
<1>4. <<i>> \in Drop2 BY <1>1, DropIn
<1>5. pc'[p] = "user" /\ op'[p] = None /\ path'[p] = <<>> /\ other'[p] = None /\ drop'[p] = <<i>>
  BY <1>0, <1>4, OverFacts DEF LinkBad
<1>6. None # "link to" BY NoneFacts DEF Ops
<1>7. nlink'[i] = nlink[i] - 1 /\ \A k \in Inums \ {i} : nlink'[k] = nlink[k]
  BY <1>0, <1>1 DEF Types, LinkBad
<1>8. \A k \in Inums : nlink[k] \in Int BY <1>0 DEF Types
<1>9. Uses(p, i) BY DEF Uses
<1>10. Own(p)
  <2>1. \A k \in Inums : ref'[k] >= ref[k] /\ ~(ref'[k] > ref[k]) BY <1>0, <1>3, RefSteady
  <2>2. path'[p] \in Seq(Names) BY <1>5, PlainFacts
  <2>3. \A k \in Inums : nlink'[k] # nlink[k] => Uses(p, k) BY <1>7, <1>9
  <2>4. QED BY <1>1, <1>2, <1>3, <1>5, <2>1, <2>2, <2>3 DEF Own, ValidUp
<1>11. DirOf(p)'
  <2>1. DirOf(p) BY DEF NameInv, Dirs
  <2>2. QED BY <1>3, <1>5, <1>6, <2>1 DEF DirOf
<1>12. NoFiles' /\ NoDangling' /\ FreshOf(p)' /\ RemovingOf(p)'
  BY <1>3, <1>5 DEF NameInv, Dirs, NoFiles, NoDangling, NoEntries, FreshOf, RemovingOf
<1>13. StillUsed(p) BY <1>1, <1>2, <1>3, <1>7, <1>9 DEF StillUsed
<1>14. LinksRight'
  <2>1. ASSUME NEW k \in Inums PROVE nlink'[k] + One(Off(p, k)) = nlink[k] + One(Off(p, k)')
    <3>1. Off(p, k) <=> k = i BY <1>1 DEF Off
    <3>2. ~(Off(p, k)') BY <1>5, <1>6 DEF Off
    <3>3. One(Off(p, k)) = IF k = i THEN 1 ELSE 0 BY <3>1 DEF One
    <3>4. One(Off(p, k)') = 0 BY <3>2 DEF One
    <3>5. QED BY <1>7, <1>8, <3>3, <3>4
  <2>2. QED BY <1>0, <1>3, <2>1, CountMoves DEF NameInv
<1>15. QED BY <1>10, <1>11, <1>12, <1>13, <1>14, OwnKeeps DEF Parts

(* What the name n in d and the call of p add to the links of i.              *)
Share(p, d, n, i) == Is(entries[d][n], i) + (IF i = d THEN One(IsDir(entries[d][n])) ELSE 0)
                     + One(Off(p, i))

LEMMA EntryMoves ==
  ASSUME Types, Types', LinksRight, NEW p \in Procs, Alone(p), NEW d \in Inums, NEW n \in Names,
         Except(d, n), UNCHANGED <<type, stranded>>,
         \A i \in Inums : type[i] # "free" =>
            nlink'[i] + Share(p, d, n, i) = nlink[i] + Share(p, d, n, i)'
  PROVE  LinksRight'
<1>1. ASSUME NEW i \in Inums
      PROVE  LinkCount(i)' \in Int /\ (type[i] # "free" => nlink'[i] + LinkCount(i) = nlink[i] + LinkCount(i)')
  <2> DEFINE r == IF i = Root THEN 1 ELSE 0
             a1 == Is(entries[d][n], i)  a2 == Is(entries'[d][n], i)
             b1 == IF i = d THEN One(IsDir(entries[d][n])) ELSE 0
             b2 == IF i = d THEN One(IsDir(entries[d][n])') ELSE 0
             c1 == One(Off(p, i))  c2 == One(Off(p, i)')
             x1 == NamesOf(i)  x2 == NamesOf(i)'  y1 == Subdirs(i)  y2 == Subdirs(i)'
             z1 == OneOff(i)  z2 == OneOff(i)'  u == nlink[i]  v == nlink'[i]
  <2>1. x2 + a1 = x1 + a2 /\ x2 \in Nat BY NamesStep DEF Is
  <2>2. y2 + b1 = y1 + b2 /\ y2 \in Nat
    <3>1. i # d => y2 = y1 BY SubdirsStep
    <3>2. i = d => y2 + One(IsDir(entries[d][n])) = y1 + One(IsDir(entries'[d][n])) BY SubdirsStep
    <3>3. IsDir(entries'[d][n]) = IsDir(entries[d][n])' BY DEF IsDir
    <3>4. y1 \in Nat /\ y2 \in Nat BY CountTypes, SubdirsStep
    <3>5. QED BY <3>1, <3>2, <3>3, <3>4
  <2>3. z2 + c1 = z1 + c2 /\ z2 \in Nat BY OffStep
  <2>4. x1 \in Nat /\ y1 \in Nat /\ z1 \in Nat BY CountTypes
  <2>5. a1 \in Nat /\ a2 \in Nat /\ b1 \in Nat /\ b2 \in Nat /\ c1 \in Nat /\ c2 \in Nat
    BY DEF One, Is
  <2>6. u \in Int /\ v \in Int /\ r \in Nat BY DEF Types
  <2>7. LinkCount(i) = x1 + y1 + z1 + r /\ LinkCount(i)' = x2 + y2 + z2 + r BY DEF LinkCount
  <2>8. Share(p, d, n, i) = a1 + b1 + c1 /\ Share(p, d, n, i)' = a2 + b2 + c2 BY DEF Share
  <2>9. type[i] # "free" => v + (a1 + b1 + c1) = u + (a2 + b2 + c2) BY <2>8
  <2> HIDE DEF r, a1, a2, b1, b2, c1, c2, x1, x2, y1, y2, z1, z2, u, v
  <2>10. (x2 + y2 + z2 + r) + (a1 + b1 + c1) = (x1 + y1 + z1 + r) + (a2 + b2 + c2)
    BY <2>1, <2>2, <2>3, <2>4, <2>5, <2>6
  <2>11. v + (a1 + b1 + c1) = u + (a2 + b2 + c2) => v + (x1 + y1 + z1 + r) = u + (x2 + y2 + z2 + r)
    BY <2>1, <2>2, <2>3, <2>4, <2>5, <2>6, <2>10
  <2>12. x2 + y2 + z2 + r \in Int BY <2>1, <2>2, <2>3, <2>6
  <2>13. QED BY <2>7, <2>9, <2>11, <2>12 DEF u, v
<1>2. QED BY <1>1, LinksMove

LEMMA ShareNone ==
  ASSUME NEW p \in Procs, NEW d \in Inums, NEW n \in Names, NEW i \in Inums, entries[d][n] = None
  PROVE  Share(p, d, n, i) = One(Off(p, i))
<1>1. Is(None, i) = 0 BY NoneFacts
<1>2. One(IsDir(None)) = 0 BY DEF One, IsDir
<1>3. One(Off(p, i)) \in Nat BY DEF One
<1>4. QED BY <1>1, <1>2, <1>3 DEF Share

LEMMA ShareName ==
  ASSUME NEW p \in Procs, NEW d \in Inums, NEW n \in Names, NEW i \in Inums, NEW j \in Inums,
         entries[d][n] = j, \A k \in Inums : ~Off(p, k)
  PROVE  Share(p, d, n, i) = (IF i = j THEN 1 ELSE 0) + (IF i = d /\ type[j] = "dir" THEN 1 ELSE 0)
<1>1. Is(j, i) = IF i = j THEN 1 ELSE 0 BY DEF Is, One
<1>2. One(IsDir(j)) = IF type[j] = "dir" THEN 1 ELSE 0 BY InumFacts DEF One, IsDir
<1>3. One(Off(p, i)) = 0 BY DEF One
<1>4. QED BY <1>1, <1>2, <1>3 DEF Share

LEMMA LinkToName ==
  ASSUME RefInv, NameInv, NEW p \in Procs, Step(p), LinkTo(p)
  PROVE  NameInv'
<1>0. Types /\ Types' /\ Alone(p) /\ Stage(p) BY DEF RefInv, Step, Stages
<1>1. /\ pc[p] = "act" /\ drop[p] = <<>> /\ op[p] = "link to" /\ ValidUp /\ ip[p] \in Inums
      /\ <<ip[p]>> \in Drop2 /\ lock[ip[p]] = None /\ \A k \in Inums : lock[k] # p
  BY FoundName DEF LinkTo
<1>2. UNCHANGED <<type, nlink, stranded, ref, lock, cwd, file>> BY DEF LinkTo
<1>3. CASE Fail(p, <<ip[p]>>) /\ UNCHANGED entries
  BY <1>1, <1>2, <1>3, FailQuiet
<1>4. CASE /\ Lookup(ip[p], Head(path[p])) = None
           /\ entries' = [entries EXCEPT ![ip[p]][Head(path[p])] = other[p]]
           /\ Over(p, <<ip[p], other[p]>>)
  <2>1. other[p] \in Inums BY <1>0, <1>1, InumFacts DEF Stage, Types
  <2>2. path[p] # <<>>
    <3>1. Len(path[p]) = 1
      <4>1. op[p] \in Wants BY <1>1 DEF Wants
      <4>2. QED BY <1>0, <1>1, <4>1 DEF Stage
    <3>2. Len(path[p]) # 0 BY <3>1
    <3>3. QED BY <3>2, EmptyLen, Zenon
  <2>3. PICK d \in Inums, o \in Inums, n \in Names : d = ip[p] /\ o = other[p] /\ n = Head(path[p])
    BY <1>1, <2>1, <2>2, PlainFacts
  <2>4. DirOf(p) BY DEF NameInv, Dirs
  <2>5. type[d] = "dir" /\ type[o] = "file" BY <1>1, <2>3, <2>4 DEF DirOf, Wants
  <2>6. entries[d][n] = None BY <1>0, <1>4, <2>3, LookupPlain
  <2>7. entries'[d][n] = o /\ Except(d, n) /\ \A e \in Inums : e # d => entries'[e] = entries[e]
    BY <1>0, <1>4, <2>3 DEF Types, Except
  <2>8. <<d, o>> \in Drop2 BY DropIn
  <2>9. pc'[p] = "user" /\ op'[p] = None /\ path'[p] = <<>> /\ other'[p] = None /\ drop'[p] = <<d, o>>
    BY <1>0, <1>4, <2>3, <2>8, OverFacts
  <2>10. None # "link to" BY NoneFacts DEF Ops
  <2>11. Own(p)
    <3>1. \A k \in Inums : ref'[k] >= ref[k] /\ ~(ref'[k] > ref[k]) BY <1>0, <1>2, RefSteady
    <3>2. path'[p] \in Seq(Names) BY <2>9, PlainFacts
    <3>3. \A k \in Inums : entries'[k] # entries[k] => Uses(p, k) /\ lock[k] \in {None, p}
      BY <1>1, <2>3, <2>7 DEF Uses
    <3>4. QED BY <1>1, <1>2, <2>9, <3>1, <3>2, <3>3 DEF Own, ValidUp
  <2>12. DirOf(p)' BY <1>2, <2>4, <2>9, <2>10 DEF DirOf
  <2>13. FreshOf(p)' /\ RemovingOf(p)' BY <2>9 DEF FreshOf, RemovingOf
  <2>14. NoFiles'
    <3>1. \A e \in Inums : type[e] # "dir" => entries[e] = NoEntries BY DEF NameInv, Dirs, NoFiles
    <3>2. QED BY <1>2, <2>5, <2>7, <3>1 DEF NoFiles, NoEntries
  <2>15. NoDangling'
    <3>1. ASSUME NEW e \in Inums, NEW m \in Names, entries'[e][m] # None PROVE type'[entries'[e][m]] # "free"
      <4>1. CASE e = d /\ m = n BY <1>2, <2>5, <2>7, <4>1
      <4>2. CASE e # d \/ m # n BY <1>2, <2>7, <3>1, <4>2 DEF Except, NameInv, NoDangling
      <4>3. QED BY <4>1, <4>2
    <3>2. QED BY <3>1 DEF NoDangling
  <2>16. StillUsed(p) BY <1>1, <1>2 DEF StillUsed
  <2>17. LinksRight'
    <3>1. ASSUME NEW i \in Inums PROVE nlink'[i] + Share(p, d, n, i) = nlink[i] + Share(p, d, n, i)'
      <4>1. Off(p, i) <=> i = o BY <1>1, <2>3 DEF Off
      <4>2. Share(p, d, n, i) = One(Off(p, i)) BY <2>6, ShareNone
      <4>3. One(Off(p, i)) = IF i = o THEN 1 ELSE 0 BY <4>1 DEF One
      <4>4. Is(entries'[d][n], i) = IF i = o THEN 1 ELSE 0 BY <2>7 DEF Is, One
      <4>5. One(IsDir(entries[d][n])') = 0 BY <1>2, <2>5, <2>7 DEF One, IsDir
      <4>6. One(Off(p, i)') = 0 BY <2>9, <2>10 DEF One, Off
      <4>7. Share(p, d, n, i)' = IF i = o THEN 1 ELSE 0 BY <4>4, <4>5, <4>6 DEF Share
      <4>8. QED BY <1>2, <4>2, <4>3, <4>7
    <3>2. QED BY <1>0, <1>2, <2>7, <3>1, EntryMoves DEF NameInv
  <2>18. QED BY <2>11, <2>12, <2>13, <2>14, <2>15, <2>16, <2>17, OwnKeeps DEF Parts
<1>5. QED BY <1>3, <1>4 DEF LinkTo

LEMMA ExistsName ==
  ASSUME RefInv, NameInv, NEW p \in Procs, Step(p), Exists(p)
  PROVE  NameInv'
<1> DEFINE i == other[p]
<1>0. Types /\ Stage(p) /\ Holder(p) BY DEF RefInv, Stages, Holders
<1>1. pc[p] = "exists" /\ drop[p] = <<>> /\ i \in Inums /\ op[p] \in Makes
  BY <1>0, InumFacts DEF Exists, At, Stage, Types
<1>2. UNCHANGED <<type, nlink, entries, stranded, ref, lock, cwd>> BY DEF Exists, diskVars
<1>3. ValidUp BY <1>0, <1>1, ValidRead DEF Exists
<1>4. \A k \in Inums : lock'[k] # p BY <1>0, <1>1, <1>2 DEF Holder, Holds
<1>5. CASE Fail(p, <<i>>)
  <2>1. <<i>> \in Drop2 BY <1>1, DropIn
  <2>2. QED BY <1>1, <1>2, <1>3, <1>4, <1>5, <2>1, FailQuiet
<1>6. CASE Over(p, <<>>)
  <2>1. pc'[p] = "user" /\ op'[p] = None /\ path'[p] = <<>> /\ other'[p] = None /\ drop'[p] = <<>>
    BY <1>0, <1>6, DropIn, OverFacts
  <2>2. None # "link to" /\ op[p] # "link to" BY <1>1, NoneFacts DEF Ops, Makes
  <2>3. Quiet(p)
    <3>1. \A k \in Inums : Off(p, k)' <=> Off(p, k) BY <1>1, <2>1, <2>2 DEF Off
    <3>2. \A k \in Inums : ref'[k] >= ref[k] /\ ~(ref'[k] > ref[k]) BY <1>0, <1>2, RefSteady
    <3>3. path'[p] \in Seq(Names) BY <2>1, PlainFacts
    <3>4. QED BY <1>1, <1>2, <1>3, <2>1, <3>1, <3>2, <3>3 DEF Quiet
  <2>4. DirOf(p)'
    <3>1. DirOf(p) BY DEF NameInv, Dirs
    <3>2. QED BY <1>2, <2>1, <2>2, <3>1 DEF DirOf
  <2>5. RemovingOf(p)' BY <2>1 DEF RemovingOf
  <2>6. QED BY <2>3, <2>4, <2>5, QuietKeeps
<1>7. QED BY <1>5, <1>6 DEF Exists

LEMMA UnlinkName ==
  ASSUME RefInv, NameInv, NEW p \in Procs, Step(p), sys_unlink(p)
  PROVE  NameInv'
<1> DEFINE j == Lookup(ip[p], Head(path[p]))
<1>0. Types /\ Stage(p) BY DEF RefInv, Stages
<1>1. /\ pc[p] = "act" /\ drop[p] = <<>> /\ op[p] = "unlink" /\ ValidUp /\ ip[p] \in Inums
      /\ <<ip[p]>> \in Drop2 /\ valid'[ip[p]] /\ other[p] = None /\ \A k \in Inums : lock[k] # p
  BY FoundName DEF sys_unlink
<1>2. UNCHANGED <<type, nlink, entries, stranded, cwd, file>> BY DEF sys_unlink, diskVars
<1>3. path[p] # <<>>
  <2>1. Len(path[p]) # 0 BY <1>0, <1>1 DEF Stage, Wants
  <2>2. QED BY <2>1, EmptyLen, Zenon
<1>4. CASE Fail(p, <<ip[p]>>) /\ UNCHANGED <<ref, lock>>
  BY <1>1, <1>2, <1>4, FailQuiet
<1>5. CASE /\ j # None /\ ref' = iget(j) /\ Give(p, ip[p], j) /\ Then(p, <<>>, "remove")
           /\ UNCHANGED <<op, path>>
  <2>1. PICK d \in Inums, n \in Names : d = ip[p] /\ n = Head(path[p]) BY <1>1, <1>3, PlainFacts
  <2>2. PICK k \in Inums : k = j /\ entries[d][n] = k /\ Named(k) BY <1>0, <1>5, <2>1, LookupPlain
  <2>3. /\ pc'[p] = "remove" /\ drop'[p] = <<>> /\ op'[p] = op[p] /\ path'[p] = path[p]
        /\ ip'[p] = d /\ other'[p] = k
    BY <1>0, <1>5, <2>1, <2>2 DEF Then, Give, Set, Types
  <2>4. Quiet(p)
    <3>1. \A i \in Inums : Off(p, i)' <=> Off(p, i) BY <1>1, <2>3 DEF Off
    <3>2. \A i \in Inums : ref'[i] >= ref[i] /\ (ref'[i] > ref[i] => i = k)
      BY <1>0, <1>5, <2>2, RefGrows
    <3>3. path'[p] \in Seq(Names) BY <2>3, PlainFacts
    <3>4. QED BY <1>1, <1>2, <2>2, <2>3, <3>1, <3>2, <3>3 DEF Quiet
  <2>5. DirOf(p)'
    <3>1. DirOf(p) BY DEF NameInv, Dirs
    <3>2. QED BY <1>1, <1>2, <2>1, <2>3, <3>1 DEF DirOf, Wants
  <2>6. RemovingOf(p)' BY <1>1, <1>2, <2>1, <2>2, <2>3 DEF RemovingOf
  <2>7. QED BY <2>4, <2>5, <2>6, QuietKeeps
<1>6. QED BY <1>4, <1>5 DEF sys_unlink

(* ialloc(): an inode that nobody knows becomes p's.                          *)
LEMMA AllocName ==
  ASSUME RefInv, NameInv, NEW p \in Procs, Step(p), NEW d \in Inums, NEW n \in Names, NEW i \in Inums,
         ip[p] = d, n = Head(path[p]), entries[d][n] = None, type[d] = "dir", type[i] = "free",
         pc[p] = "act", drop[p] = <<>>, op[p] \in Makes, ValidUp,
         UNCHANGED <<nlink, entries, stranded, cwd, file, op, path>>,
         type' = Set(type, i, IF op[p] = "mkdir" THEN "dir" ELSE "file"),
         ref' = iget(i), pc'[p] = "new", drop'[p] = <<>>, ip'[p] = d, other'[p] = i
  PROVE  NameInv'
<1>0. Types /\ Types' /\ Alone(p) BY DEF RefInv, Step
<1>1. ~Named(i) /\ i # Root /\ \A q \in Procs : ~Uses(q, i) BY FreeUnnamed
<1>2. nlink[i] = 0 /\ entries[i] = NoEntries BY DEF NameInv, Freed, Dirs, NoFiles
<1>3. /\ type'[i] = IF op[p] = "mkdir" THEN "dir" ELSE "file"
      /\ \A k \in Inums \ {i} : type'[k] = type[k]
  BY <1>0 DEF Types, Set
<1>4. op[p] # "link to" /\ op'[p] = op[p] /\ path'[p] = path[p] BY DEF Makes
<1>5. Own(p)
  <2>1. \A k \in Inums : ref'[k] >= ref[k] /\ (ref'[k] > ref[k] => k = i) BY <1>0, RefGrows
  <2>2. path'[p] \in Seq(Names) BY <1>4, PlainFacts
  <2>3. type'[i] # "free" BY <1>3
  <2>4. QED BY <1>3, <2>1, <2>2, <2>3 DEF Own, ValidUp
<1>6. DirOf(p)'
  <2>1. DirOf(p) BY DEF NameInv, Dirs
  <2>2. cwd[p] \in Inums /\ cwd[p] # i BY <1>0, <1>1 DEF Types, Uses
  <2>3. d # i OBVIOUS
  <2>4. QED BY <1>3, <1>4, <2>1, <2>2, <2>3 DEF DirOf
<1>7. NoFiles'
  <2>1. \A k \in Inums : type[k] # "dir" => entries[k] = NoEntries BY DEF NameInv, Dirs, NoFiles
  <2>2. QED BY <1>2, <1>3, <2>1 DEF NoFiles, NoEntries
<1>8. FreshOf(p)'
  <2>1. \A q \in Procs \ {p} : ~Uses(q, i)' BY <1>0, <1>1 DEF Uses, Alone
  <2>2. \A q \in Procs \ {p} : ~Uses(q, other[p])' BY <2>1 DEF Uses
  <2>3. nlink'[i] = 0 /\ entries'[i] = NoEntries /\ entries'[d][Head(path'[p])] = None
    BY <1>2, <1>4
  <2>4. QED BY <1>3, <1>4, <2>2, <2>3 DEF FreshOf, NoEntries
<1>9. RemovingOf(p)' BY DEF RemovingOf
<1>10. NoDangling'
  <2>1. \A e \in Inums, m \in Names : entries[e][m] # None => entries[e][m] \in Inums \ {i}
    BY <1>0, <1>1 DEF Types, Entry, Named
  <2>2. \A e \in Inums, m \in Names : entries[e][m] # None => type[entries[e][m]] # "free"
    BY DEF NameInv, NoDangling
  <2>3. QED BY <1>3, <2>1, <2>2 DEF NoDangling
<1>11. StillUsed(p) BY <1>3 DEF StillUsed
<1>12. LinksRight'
  <2>1. ASSUME NEW k \in Inums PROVE NamesOf(k)' = NamesOf(k) /\ OneOff(k)' = OneOff(k)
    <3>1. NamesOf(k)' = NamesOf(k) BY DEF NamesOf
    <3>2. ~Off(p, k) /\ ~(Off(p, k)') BY <1>4 DEF Off
    <3>3. OneOff(k)' + One(Off(p, k)) = OneOff(k) + One(Off(p, k)') /\ OneOff(k)' \in Nat
      BY <1>0, OffStep
    <3>4. One(Off(p, k)) = 0 /\ One(Off(p, k)') = 0 BY <3>2 DEF One
    <3>5. OneOff(k) \in Nat BY CountTypes
    <3>6. QED BY <3>1, <3>3, <3>4, <3>5
  <2>2. ASSUME NEW k \in Inums \ {i} PROVE Subdirs(k)' = Subdirs(k)
    <3>1. \A m \in Names : entries[k][m] # None => entries[k][m] \in Inums \ {i}
      BY <1>0, <1>1 DEF Types, Entry, Named
    <3>2. \A m \in Names : (entries'[k][m] # None /\ type'[entries'[k][m]] = "dir")
                           <=> (entries[k][m] # None /\ type[entries[k][m]] = "dir")
      BY <1>3, <3>1
    <3>3. QED BY <3>2 DEF Subdirs
  <2>3. NamesOf(i) = 0 /\ OneOff(i) = 0
    <3>1. ~(NamesOf(i) > 0) BY <1>1, CountPositive DEF Named
    <3>2. ~(OneOff(i) > 0) BY <1>1, CountPositive DEF Off, Uses
    <3>3. NamesOf(i) \in Nat /\ OneOff(i) \in Nat BY CountTypes
    <3>4. QED BY <3>1, <3>2, <3>3
  <2>4. Subdirs(i)' = 0
    <3>1. {m \in Names : entries'[i][m] # None /\ type'[entries'[i][m]] = "dir"} = {}
      BY <1>2 DEF NoEntries
    <3>2. QED BY <3>1, FS_EmptySet DEF Subdirs
  <2>5. ASSUME NEW k \in Inums, type'[k] # "free"
        PROVE  nlink'[k] = LinkCount(k)' \/ (k \in stranded' /\ nlink'[k] > LinkCount(k)')
    <3>1. CASE k = i BY <1>1, <1>2, <2>1, <2>3, <2>4, <3>1 DEF LinkCount
    <3>2. CASE k # i
      <4>1. LinkCount(k)' = LinkCount(k) BY <2>1, <2>2, <3>2 DEF LinkCount
      <4>2. nlink[k] = LinkCount(k) \/ (k \in stranded /\ nlink[k] > LinkCount(k))
        BY <1>3, <2>5, <3>2 DEF NameInv, LinksRight, LinkCount
      <4>3. QED BY <4>1, <4>2
    <3>3. QED BY <3>1, <3>2
  <2>6. QED BY <2>5 DEF LinksRight, LinkCount
<1>13. QED BY <1>5, <1>6, <1>7, <1>8, <1>9, <1>10, <1>11, <1>12, OwnKeeps DEF Parts

LEMMA CreateName ==
  ASSUME RefInv, NameInv, NEW p \in Procs, Step(p), create(p)
  PROVE  NameInv'
<1> DEFINE j == Lookup(ip[p], Head(path[p]))
<1>0. Types /\ Stage(p) BY DEF RefInv, Stages
<1>1. /\ pc[p] = "act" /\ drop[p] = <<>> /\ op[p] \in Makes /\ ValidUp /\ ip[p] \in Inums
      /\ <<ip[p]>> \in Drop2 /\ \A k \in Inums : lock[k] # p
  BY FoundName DEF create, Makes
<1>2. UNCHANGED <<nlink, entries, stranded, cwd, file>> BY DEF create
<1>3. op[p] \in Wants /\ op[p] # "link to" BY <1>1 DEF Makes, Wants
<1>4. path[p] # <<>>
  <2>1. Len(path[p]) = 1 BY <1>0, <1>1, <1>3 DEF Stage
  <2>2. Len(path[p]) # 0 BY <2>1
  <2>3. QED BY <2>2, EmptyLen, Zenon
<1>5. PICK d \in Inums, n \in Names : d = ip[p] /\ n = Head(path[p]) BY <1>1, <1>4, PlainFacts
<1>6. DirOf(p) BY DEF NameInv, Dirs
<1>7. CASE /\ j # None /\ ref' = iget(j) /\ Give(p, None, j) /\ Then(p, <<ip[p]>>, "exists")
           /\ UNCHANGED <<type, lock, op, path>>
  <2>1. PICK k \in Inums : k = j /\ Named(k) BY <1>0, <1>5, <1>7, LookupPlain
  <2>2. /\ pc'[p] = "exists" /\ drop'[p] = <<d>> /\ op'[p] = op[p] /\ path'[p] = path[p]
        /\ other'[p] = k
    BY <1>0, <1>5, <1>7, <2>1 DEF Then, Give, Set, Types
  <2>3. Quiet(p)
    <3>1. \A i \in Inums : Off(p, i)' <=> Off(p, i) BY <1>1, <1>3, <2>2 DEF Off
    <3>2. \A i \in Inums : ref'[i] >= ref[i] /\ (ref'[i] > ref[i] => i = k)
      BY <1>0, <1>7, <2>1, RefGrows
    <3>3. path'[p] \in Seq(Names) BY <2>2, PlainFacts
    <3>4. QED BY <1>1, <1>2, <1>7, <2>1, <2>2, <3>1, <3>2, <3>3 DEF Quiet
  <2>4. DirOf(p)' BY <1>2, <1>3, <1>6, <1>7, <2>2 DEF DirOf
  <2>5. RemovingOf(p)' BY <2>2 DEF RemovingOf
  <2>6. QED BY <2>3, <2>4, <2>5, QuietKeeps
<1>8. CASE Fail(p, <<ip[p]>>) /\ UNCHANGED <<type, ref, lock>>
  BY <1>1, <1>2, <1>8, FailQuiet
<1>9. CASE \E i \in FirstFree :
        /\ j = None
        /\ type' = Set(type, i, IF op[p] = "mkdir" THEN "dir" ELSE "file")
        /\ ref' = iget(i) /\ Give(p, ip[p], i) /\ Then(p, <<>>, "new") /\ UNCHANGED <<op, path>>
  <2>1. PICK i \in Inums :
        /\ type[i] = "free" /\ j = None
        /\ type' = Set(type, i, IF op[p] = "mkdir" THEN "dir" ELSE "file")
        /\ ref' = iget(i) /\ Give(p, ip[p], i) /\ Then(p, <<>>, "new") /\ UNCHANGED <<op, path>>
    BY <1>9 DEF FirstFree
  <2>2. pc'[p] = "new" /\ drop'[p] = <<>> /\ ip'[p] = d /\ other'[p] = i
    BY <1>0, <1>5, <2>1 DEF Then, Give, Set, Types
  <2>3. entries[d][n] = None BY <1>0, <1>5, <2>1, LookupPlain
  <2>4. type[d] = "dir" BY <1>1, <1>3, <1>5, <1>6 DEF DirOf
  <2>5. QED BY <1>1, <1>2, <1>5, <2>1, <2>2, <2>3, <2>4, AllocName
<1>10. QED BY <1>7, <1>8, <1>9 DEF create

LEMMA MadeName ==
  ASSUME RefInv, NameInv, NEW p \in Procs, Step(p), Made(p)
  PROVE  NameInv'
<1>0. Types /\ Types' /\ Alone(p) /\ Stage(p) /\ Holder(p) /\ DirOf(p) /\ FreshOf(p)
  BY DEF RefInv, Step, Stages, Holders, NameInv, Dirs, Fresh
<1>1. /\ pc[p] = "new" /\ drop[p] = <<>> /\ op[p] \in Makes /\ ip[p] \in Inums /\ other[p] \in Inums
      /\ lock[ip[p]] = p /\ lock[other[p]] = None /\ ~NoType(other[p])
  BY <1>0, InumFacts DEF Made, At, Stage, Types, Holder, CanLock
<1>2. path[p] # <<>>
  <2>1. Len(path[p]) = 1 BY <1>0, <1>1 DEF Stage
  <2>2. Len(path[p]) # 0 BY <2>1
  <2>3. QED BY <2>2, EmptyLen, Zenon
<1>3. PICK d \in Inums, i \in Inums, n \in Names : d = ip[p] /\ i = other[p] /\ n = Head(path[p])
  BY <1>1, <1>2, PlainFacts
<1>4. i # d BY <1>1, <1>3, InumFacts
<1>5. ValidUp /\ valid'[i] BY <1>0, <1>1, <1>3, ValidRead DEF Made
<1>6. UNCHANGED <<type, stranded, ref, cwd>> BY DEF Made
<1>7. lock'[d] = None /\ \A k \in Inums : lock'[k] # p
  <2>1. \A k \in Inums : lock[k] = p => k = d BY <1>0, <1>1, <1>3 DEF Holder, Holds
  <2>2. lock'[d] = None /\ \A k \in Inums \ {d} : lock'[k] = lock[k] BY <1>0, <1>3 DEF Made, Set, Types
  <2>3. QED BY <2>1, <2>2, InumFacts
<1>8. None # "link to" /\ op[p] # "link to" BY <1>1, NoneFacts DEF Ops, Makes
<1>9. \A k \in Inums : ref'[k] >= ref[k] /\ ~(ref'[k] > ref[k]) BY <1>0, <1>6, RefSteady
<1>10. <<i, d>> \in Drop2 /\ <<d, i>> \in Drop2 /\ <<d>> \in Drop2 BY DropIn
<1>11. \A k \in Inums : ~Off(p, k) BY <1>1, <1>8 DEF Off
<1>12. CASE Over(p, <<i, d>>) /\ UNCHANGED <<nlink, entries>>
  <2>1. pc'[p] = "user" /\ op'[p] = None /\ path'[p] = <<>> /\ other'[p] = None /\ drop'[p] = <<i, d>>
    BY <1>0, <1>10, <1>12, OverFacts
  <2>2. Quiet(p)
    <3>1. \A k \in Inums : Off(p, k)' <=> Off(p, k) BY <1>8, <1>11, <2>1 DEF Off
    <3>2. path'[p] \in Seq(Names) BY <2>1, PlainFacts
    <3>3. QED BY <1>1, <1>3, <1>5, <1>6, <1>7, <1>9, <1>12, <2>1, <3>1, <3>2 DEF Quiet
  <2>3. DirOf(p)' BY <1>0, <1>6, <1>8, <2>1 DEF DirOf
  <2>4. RemovingOf(p)' BY <2>1 DEF RemovingOf
  <2>5. QED BY <2>2, <2>3, <2>4, QuietKeeps
<1>13. CASE /\ entries' = [entries EXCEPT ![d][n] = i]
            /\ nlink' = [nlink EXCEPT ![i] = 1, ![d] = @ + (IF op[p] = "mkdir" THEN 1 ELSE 0)]
            /\ Over(p, IF op[p] = "mkdir" THEN <<d, i>> ELSE <<d>>)
  <2>1. pc'[p] = "user" /\ op'[p] = None /\ path'[p] = <<>> /\ other'[p] = None
    <3>1. CASE op[p] = "mkdir" BY <1>0, <1>10, <1>13, <3>1, OverFacts
    <3>2. CASE op[p] # "mkdir" BY <1>0, <1>10, <1>13, <3>2, OverFacts
    <3>3. QED BY <3>1, <3>2
  <2>2. /\ type[d] = "dir" /\ type[i] = IF op[p] = "mkdir" THEN "dir" ELSE "file"
        /\ nlink[i] = 0 /\ entries[d][n] = None
    BY <1>0, <1>1, <1>3 DEF DirOf, FreshOf
  <2>3. entries'[d][n] = i /\ Except(d, n) /\ \A e \in Inums : e # d => entries'[e] = entries[e]
    BY <1>0, <1>13 DEF Types, Except
  <2>4. /\ nlink'[i] = 1 /\ nlink'[d] = nlink[d] + (IF op[p] = "mkdir" THEN 1 ELSE 0)
        /\ \A k \in Inums \ {i, d} : nlink'[k] = nlink[k]
    BY <1>0, <1>4, <1>13 DEF Types
  <2>5. nlink[d] \in Int /\ nlink[d] >= 0
    <3>1. LinkCount(d) \in Nat /\ nlink[d] >= LinkCount(d) BY <1>0, <2>2, LinkFacts DEF NameInv
    <3>2. nlink[d] \in Int BY <1>0 DEF Types
    <3>3. QED BY <3>1, <3>2
  <2>6. Own(p)
    <3>1. path'[p] \in Seq(Names) BY <2>1, PlainFacts
    <3>2. \A k \in Inums : entries'[k] # entries[k] => Uses(p, k) /\ lock[k] \in {None, p}
      BY <1>1, <1>3, <2>3 DEF Uses
    <3>3. \A k \in Inums : nlink'[k] # nlink[k] => Uses(p, k) BY <1>3, <2>4 DEF Uses
    <3>4. QED BY <1>1, <1>5, <1>6, <1>7, <1>9, <3>1, <3>2, <3>3 DEF Own, ValidUp
  <2>7. DirOf(p)' BY <1>0, <1>6, <1>8, <2>1 DEF DirOf
  <2>8. FreshOf(p)' /\ RemovingOf(p)' BY <2>1 DEF FreshOf, RemovingOf
  <2>9. NoFiles'
    <3>1. \A e \in Inums : type[e] # "dir" => entries[e] = NoEntries BY DEF NameInv, Dirs, NoFiles
    <3>2. QED BY <1>6, <2>2, <2>3, <3>1 DEF NoFiles, NoEntries
  <2>10. NoDangling'
    <3>1. ASSUME NEW e \in Inums, NEW m \in Names, entries'[e][m] # None PROVE type'[entries'[e][m]] # "free"
      <4>1. CASE e = d /\ m = n BY <1>6, <2>2, <2>3, <4>1
      <4>2. CASE e # d \/ m # n BY <1>6, <2>3, <3>1, <4>2 DEF Except, NameInv, NoDangling
      <4>3. QED BY <4>1, <4>2
    <3>2. QED BY <3>1 DEF NoDangling
  <2>11. StillUsed(p)
    <3>1. ASSUME NEW k \in Inums, type'[k] # "free", nlink'[k] = 0
          PROVE  type[k] # "free" /\ nlink[k] = 0 /\ k # i
      <4>1. k # i BY <2>4, <3>1
      <4>2. k = d => nlink[d] = 0
        <5>1. CASE op[p] = "mkdir" BY <2>4, <2>5, <3>1, <5>1
        <5>2. CASE op[p] # "mkdir" BY <2>4, <2>5, <3>1, <5>2
        <5>3. QED BY <5>1, <5>2
      <4>3. QED BY <1>6, <2>4, <3>1, <4>1, <4>2
    <3>2. QED BY <1>3, <3>1 DEF StillUsed
  <2>12. LinksRight'
    <3>1. ASSUME NEW k \in Inums PROVE nlink'[k] + Share(p, d, n, k) = nlink[k] + Share(p, d, n, k)'
      <4> DEFINE b == IF k = d /\ op[p] = "mkdir" THEN 1 ELSE 0  a == IF k = i THEN 1 ELSE 0
      <4>1. Share(p, d, n, k) = 0
        <5>1. One(Off(p, k)) = 0 BY <1>11 DEF One
        <5>2. QED BY <2>2, <5>1, ShareNone
      <4>2. Is(entries'[d][n], k) = a BY <2>3 DEF Is, One
      <4>3. (IF k = d THEN One(IsDir(entries[d][n])') ELSE 0) = b
        <5>1. IsDir(entries[d][n])' <=> op[p] = "mkdir" BY <1>6, <2>2, <2>3, InumFacts DEF IsDir
        <5>2. One(IsDir(entries[d][n])') = IF op[p] = "mkdir" THEN 1 ELSE 0 BY <5>1 DEF One
        <5>3. QED BY <5>2
      <4>4. One(Off(p, k)') = 0 BY <1>8, <2>1 DEF One, Off
      <4>5. Share(p, d, n, k)' = a + b BY <4>2, <4>3, <4>4 DEF Share
      <4>6. nlink[k] \in Int BY <1>0 DEF Types
      <4>7. nlink'[k] = nlink[k] + (a + b)
        <5>1. k = i => a = 1 /\ b = 0 /\ nlink[k] = 0 BY <1>4, <2>2
        <5>2. k = d => a = 0 /\ b = IF op[p] = "mkdir" THEN 1 ELSE 0 BY <1>4
        <5>3. k # i /\ k # d => a = 0 /\ b = 0 OBVIOUS
        <5> HIDE DEF a, b
        <5>4. CASE k = i BY <2>4, <5>1, <5>4
        <5>5. CASE k = d BY <2>4, <4>6, <5>2, <5>5
        <5>6. CASE k # i /\ k # d BY <2>4, <4>6, <5>3, <5>6
        <5>7. QED BY <5>4, <5>5, <5>6
      <4>8. a \in Nat /\ b \in Nat OBVIOUS
      <4> HIDE DEF a, b
      <4>9. QED BY <4>1, <4>5, <4>6, <4>7, <4>8
    <3>2. QED BY <1>0, <1>6, <2>3, <3>1, EntryMoves DEF NameInv
  <2>13. QED BY <2>6, <2>7, <2>8, <2>9, <2>10, <2>11, <2>12, OwnKeeps DEF Parts
<1>14. QED BY <1>3, <1>12, <1>13 DEF Made

LEMMA RemovesName ==
  ASSUME RefInv, NameInv, NEW p \in Procs, Step(p), Removes(p)
  PROVE  NameInv'
<1>0. Types /\ Types' /\ Alone(p) /\ Stage(p) /\ Holder(p) /\ DirOf(p) /\ RemovingOf(p)
  BY DEF RefInv, Step, Stages, Holders, NameInv, Dirs, Removing
<1>1. /\ pc[p] = "remove" /\ drop[p] = <<>> /\ op[p] = "unlink" /\ ip[p] \in Inums /\ other[p] \in Inums
      /\ lock[ip[p]] = p /\ lock[other[p]] = None /\ ~NoType(other[p])
  BY <1>0, InumFacts DEF Removes, At, Stage, Types, Holder, CanLock
<1>2. path[p] # <<>>
  <2>1. Len(path[p]) = 1 BY <1>0, <1>1 DEF Stage
  <2>2. Len(path[p]) # 0 BY <2>1
  <2>3. QED BY <2>2, EmptyLen, Zenon
<1>3. PICK d \in Inums, i \in Inums, n \in Names : d = ip[p] /\ i = other[p] /\ n = Head(path[p])
  BY <1>1, <1>2, PlainFacts
<1>4. i # d BY <1>1, <1>3, InumFacts
<1>5. ValidUp /\ valid'[i] BY <1>0, <1>1, <1>3, ValidRead DEF Removes
<1>6. UNCHANGED <<type, stranded, ref, cwd, file>> BY DEF Removes
<1>7. \A k \in Inums : lock[k] = p => k = d BY <1>0, <1>1, <1>3 DEF Holder, Holds
<1>8. \A k \in Inums : ref'[k] >= ref[k] /\ ~(ref'[k] > ref[k]) BY <1>0, <1>6, RefSteady
<1>9. <<i, d>> \in Drop2 /\ <<d>> \in Drop2 BY DropIn
<1>10. \A k \in Inums : ~Off(p, k) BY <1>1 DEF Off
<1>11. type[d] = "dir" /\ entries[d][n] = i /\ valid[d] BY <1>0, <1>1, <1>3 DEF DirOf, RemovingOf
<1>12. CASE Fail(p, <<i, d>>) /\ lock' = Set(lock, d, None) /\ UNCHANGED <<entries, nlink>>
  <2>1. \A k \in Inums : lock'[k] # p BY <1>0, <1>7, <1>12, InumFacts DEF Set, Types
  <2>2. QED BY <1>1, <1>5, <1>6, <1>9, <1>12, <2>1, FailQuiet
<1>13. CASE /\ entries' = [entries EXCEPT ![d][n] = None]
            /\ nlink' = IF type[i] = "dir" THEN [nlink EXCEPT ![d] = @ - 1] ELSE nlink
            /\ lock' = [lock EXCEPT ![d] = None, ![i] = p]
            /\ Give(p, None, i) /\ Then(p, <<d>>, "removed") /\ UNCHANGED <<op, path>>
  <2>1. /\ pc'[p] = "removed" /\ drop'[p] = <<d>> /\ op'[p] = op[p] /\ path'[p] = path[p]
        /\ other'[p] = i
    BY <1>0, <1>13 DEF Then, Give, Set, Types
  <2>2. entries'[d][n] = None /\ Except(d, n) /\ \A e \in Inums : e # d => entries'[e] = entries[e]
    BY <1>0, <1>13 DEF Types, Except
  <2>3. /\ nlink'[d] = nlink[d] - (IF type[i] = "dir" THEN 1 ELSE 0)
        /\ \A k \in Inums \ {d} : nlink'[k] = nlink[k]
    <3>1. nlink[d] \in Int BY <1>0 DEF Types
    <3>2. CASE type[i] = "dir" BY <1>0, <1>13, <3>1, <3>2 DEF Types
    <3>3. CASE type[i] # "dir" BY <1>13, <3>1, <3>3
    <3>4. QED BY <3>2, <3>3
  <2>4. \A k \in Inums : lock'[k] = p => k = i BY <1>0, <1>7, <1>13, InumFacts DEF Types
  <2>5. Own(p)
    <3>1. path'[p] \in Seq(Names) BY <2>1, PlainFacts
    <3>2. \A k \in Inums : entries'[k] # entries[k] => Uses(p, k) /\ lock[k] \in {None, p}
      BY <1>1, <1>3, <2>2 DEF Uses
    <3>3. \A k \in Inums : nlink'[k] # nlink[k] => Uses(p, k) BY <1>3, <2>3 DEF Uses
    <3>4. Head(<<d>>) = d OBVIOUS
    <3>5. QED BY <1>1, <1>4, <1>5, <1>6, <1>8, <2>1, <2>4, <3>1, <3>2, <3>3, <3>4 DEF Own, ValidUp
  <2>6. DirOf(p)' BY <1>0, <1>1, <1>6, <2>1 DEF DirOf
  <2>7. FreshOf(p)' BY <2>1 DEF FreshOf
  <2>8. RemovingOf(p)' BY <1>5, <2>1 DEF RemovingOf
  <2>9. NoFiles'
    <3>1. \A e \in Inums : type[e] # "dir" => entries[e] = NoEntries BY DEF NameInv, Dirs, NoFiles
    <3>2. QED BY <1>6, <1>11, <2>2, <3>1 DEF NoFiles, NoEntries
  <2>10. NoDangling'
    <3>1. ASSUME NEW e \in Inums, NEW m \in Names, entries'[e][m] # None PROVE type'[entries'[e][m]] # "free"
      <4>1. e # d \/ m # n BY <2>2, <3>1
      <4>2. QED BY <1>6, <2>2, <3>1, <4>1 DEF Except, NameInv, NoDangling
    <3>2. QED BY <3>1 DEF NoDangling
  <2>11. StillUsed(p)
    <3>1. valid'[d] /\ Uses(p, d) BY <1>3, <1>5, <1>11 DEF ValidUp, Uses
    <3>2. \A k \in Inums : k # d => nlink'[k] = nlink[k] BY <2>3
    <3>3. QED BY <1>1, <1>6, <3>1, <3>2 DEF StillUsed
  <2>12. LinksRight'
    <3>1. ASSUME NEW k \in Inums PROVE nlink'[k] + Share(p, d, n, k) = nlink[k] + Share(p, d, n, k)'
      <4> DEFINE b == IF k = d /\ type[i] = "dir" THEN 1 ELSE 0  a == IF k = i THEN 1 ELSE 0
      <4>1. Share(p, d, n, k) = a + b BY <1>10, <1>11, ShareName
      <4>2. Is(entries'[d][n], k) = 0 BY <2>2, NoneFacts
      <4>3. One(IsDir(entries[d][n])') = 0 BY <2>2 DEF One, IsDir
      <4>4. One(Off(p, k)') = a
        <5>1. Off(p, k)' <=> k = i BY <1>1, <2>1 DEF Off
        <5>2. QED BY <5>1 DEF One
      <4>5. a \in Nat /\ b \in Nat OBVIOUS
      <4>6. Share(p, d, n, k)' = a BY <4>2, <4>3, <4>4, <4>5 DEF Share
      <4>7. nlink[k] \in Int BY <1>0 DEF Types
      <4>8. nlink'[k] = nlink[k] - b BY <2>3, <4>7
      <4> HIDE DEF a, b
      <4>9. QED BY <4>1, <4>5, <4>6, <4>7, <4>8
    <3>2. QED BY <1>0, <1>6, <2>2, <3>1, EntryMoves DEF NameInv
  <2>13. QED BY <2>5, <2>6, <2>7, <2>8, <2>9, <2>10, <2>11, <2>12, OwnKeeps DEF Parts
<1>14. QED BY <1>3, <1>12, <1>13 DEF Removes

LEMMA RemovedName ==
  ASSUME RefInv, NameInv, NEW p \in Procs, Step(p), Removed(p)
  PROVE  NameInv'
<1>0. Types /\ Types' /\ Alone(p) /\ Stage(p) /\ Holder(p) /\ DirOf(p) /\ RemovingOf(p)
  BY DEF RefInv, Step, Stages, Holders, NameInv, Dirs, Removing
<1>1. pc[p] = "removed" /\ drop[p] = <<>> /\ op[p] = "unlink" /\ other[p] \in Inums
  BY <1>0, InumFacts DEF Removed, At, Stage, Types
<1>2. PICK i \in Inums : i = other[p] BY <1>1
<1>3. valid[i] /\ lock[i] = p BY <1>0, <1>1, <1>2 DEF RemovingOf, Holder
<1>4. UNCHANGED <<type, entries, stranded, ref, valid, cwd, file>> BY DEF Removed
<1>5. \A k \in Inums : lock'[k] # p
  <2>1. \A k \in Inums : lock[k] = p => k = i BY <1>0, <1>1, <1>2 DEF Holder, Holds
  <2>2. lock'[i] = None /\ \A k \in Inums \ {i} : lock'[k] = lock[k] BY <1>0, <1>2 DEF Removed, Set, Types
  <2>3. QED BY <2>1, <2>2, InumFacts
<1>6. <<i>> \in Drop2 BY DropIn
<1>7. pc'[p] = "user" /\ op'[p] = None /\ path'[p] = <<>> /\ other'[p] = None /\ drop'[p] = <<i>>
  BY <1>0, <1>2, <1>6, OverFacts DEF Removed
<1>8. None # "link to" BY NoneFacts DEF Ops
<1>9. \A k \in Inums : nlink[k] \in Int BY <1>0 DEF Types
<1>10. nlink'[i] = nlink[i] - 1 /\ \A k \in Inums \ {i} : nlink'[k] = nlink[k]
  BY <1>0, <1>2 DEF Types, Removed
<1>11. Own(p)
  <2>1. \A k \in Inums : ref'[k] >= ref[k] /\ ~(ref'[k] > ref[k]) BY <1>0, <1>4, RefSteady
  <2>2. path'[p] \in Seq(Names) BY <1>7, PlainFacts
  <2>3. \A k \in Inums : nlink'[k] # nlink[k] => Uses(p, k) BY <1>2, <1>10 DEF Uses
  <2>4. QED BY <1>1, <1>4, <1>5, <2>1, <2>2, <2>3 DEF Own
<1>12. DirOf(p)' BY <1>0, <1>4, <1>7, <1>8 DEF DirOf
<1>13. NoFiles' /\ NoDangling' /\ FreshOf(p)' /\ RemovingOf(p)'
  BY <1>4, <1>7 DEF NameInv, Dirs, NoFiles, NoDangling, NoEntries, FreshOf, RemovingOf
<1>14. StillUsed(p)
  <2>1. valid'[i] /\ Uses(p, i) BY <1>2, <1>3, <1>4 DEF Uses
  <2>2. QED BY <1>1, <1>4, <1>10, <2>1 DEF StillUsed
<1>15. LinksRight'
  <2>1. ASSUME NEW k \in Inums PROVE nlink'[k] + One(Off(p, k)) = nlink[k] + One(Off(p, k)')
    <3>1. Off(p, k) <=> k = i BY <1>1, <1>2 DEF Off
    <3>2. ~(Off(p, k)') BY <1>7, <1>8 DEF Off
    <3>3. One(Off(p, k)) = IF k = i THEN 1 ELSE 0 BY <3>1 DEF One
    <3>4. One(Off(p, k)') = 0 BY <3>2 DEF One
    <3>5. QED BY <1>9, <1>10, <3>3, <3>4
  <2>2. QED BY <1>0, <1>4, <2>1, CountMoves DEF NameInv
<1>16. QED BY <1>11, <1>12, <1>13, <1>14, <1>15, OwnKeeps DEF Parts

(* Of what a process has in hand, what DirOf() needs is an inode.             *)
LEMMA InHand ==
  ASSUME RefInv, NEW q \in Procs
  PROVE  /\ cwd[q] \in Inums
         /\ (pc[q] = "act" /\ op[q] \in Wants) \/ pc[q] \in {"new", "remove"} => ip[q] \in Inums
         /\ op[q] = "link to" \/ pc[q] \in {"new", "remove", "removed"} => other[q] \in Inums
<1>0. Types /\ Stage(q) BY DEF RefInv, Stages
<1>1. pc[q] \in Places /\ other[q] \in Entry /\ ip[q] \in Entry /\ cwd[q] \in Inums BY <1>0 DEF Types
<1>2. op[q] = "link to" => pc[q] \in {"walk", "act", "link bad"}
  BY <1>0, <1>1, NoneFacts DEF Stage, Places, Makes, Ops
<1>3. QED BY <1>0, <1>1, <1>2 DEF Stage, Entry

LEMMA Resting ==
  ASSUME NameInv, UNCHANGED <<type, nlink, entries, stranded, cwd, file, op, path, ip, other, pc>>
  PROVE  Plain' /\ Dirs' /\ Used' /\ Fresh' /\ LinksRight' /\ NoDangling'
<1>1. Plain' BY DEF NameInv, Plain
<1>2. Dirs' BY DEF NameInv, Dirs, DirOf, NoFiles, NoEntries
<1>3. Used'
  <2>1. \A q \in Procs, i \in Inums : Uses(q, i)' <=> Uses(q, i) BY DEF Uses
  <2>2. QED BY <2>1 DEF NameInv, Used
<1>4. Fresh'
  <2>1. ASSUME NEW q \in Procs PROVE FreshOf(q)'
    <3>1. FreshOf(q) BY DEF NameInv, Fresh
    <3>2. QED BY <3>1 DEF FreshOf, Uses, NoEntries
  <2>2. QED BY <2>1 DEF Fresh
<1>5. LinksRight'
  <2>1. \A i \in Inums : NamesOf(i)' = NamesOf(i) /\ Subdirs(i)' = Subdirs(i) /\ OneOff(i)' = OneOff(i)
    BY DEF NamesOf, Subdirs, OneOff
  <2>2. QED BY <2>1 DEF NameInv, LinksRight
<1>6. NoDangling' BY DEF NameInv, NoDangling
<1>7. QED BY <1>1, <1>2, <1>3, <1>4, <1>5, <1>6

LEMMA IputName ==
  ASSUME RefInv, NameInv, NEW p \in Procs, iput(p)
  PROVE  NameInv'
<1>0. Types /\ Stages /\ Holders BY DEF RefInv
<1>1. drop[p] \in Drop2 /\ drop[p] # <<>> BY <1>0 DEF Types, iput
<1>2. PICK i \in Inums : i = Head(drop[p]) BY <1>1, DropFacts
<1>3. lock[i] # p /\ UNCHANGED <<type, nlink, entries, stranded, cwd, file, op, path, ip, other, pc>>
  BY <1>2 DEF iput, diskVars, procVars
<1>4. Plain' /\ Dirs' /\ Used' /\ Fresh' /\ LinksRight' /\ NoDangling' BY <1>3, Resting
<1>5. CASE LastOne(i) /\ lock' = Set(lock, i, p) /\ UNCHANGED <<ref, valid, drop>>
  <2>1. Freed' /\ Removing' /\ Kept'
    BY <1>3, <1>5 DEF NameInv, Freed, Removing, RemovingOf, Kept
  <2>2. Leaving'
    <3>1. ASSUME NEW q \in Procs, NEW k \in Inums, Freeing(q, k)' PROVE ref'[k] = 1 /\ valid'[k] /\ nlink'[k] = 0
      <4>1. CASE k = i BY <1>3, <1>5, <4>1 DEF LastOne
      <4>2. CASE k # i
        <5>1. lock'[k] = lock[k] BY <1>0, <1>5, <4>2 DEF Set, Types
        <5>2. Freeing(q, k) BY <1>5, <3>1, <5>1 DEF Freeing
        <5>3. QED BY <1>3, <1>5, <5>2 DEF NameInv, Leaving
      <4>3. QED BY <4>1, <4>2
    <3>2. QED BY <3>1 DEF Leaving
  <2>3. QED BY <1>4, <2>1, <2>2 DEF NameInv
<1>6. CASE /\ ~LastOne(i) /\ ref' = [ref EXCEPT ![i] = @ - 1]
           /\ valid' = IF ref[i] = 1 THEN Set(valid, i, FALSE) ELSE valid
           /\ drop' = Set(drop, p, Tail(drop[p])) /\ UNCHANGED lock
  <2>1. /\ ref'[i] = ref[i] - 1 /\ \A k \in Inums \ {i} : ref'[k] = ref[k] /\ valid'[k] = valid[k]
        /\ (ref[i] # 1 => valid'[i] = valid[i]) /\ (valid'[i] => valid[i])
    <3>1. ref'[i] = ref[i] - 1 /\ \A k \in Inums \ {i} : ref'[k] = ref[k] BY <1>0, <1>6 DEF Types
    <3>2. \A k \in Inums \ {i} : valid'[k] = valid[k] BY <1>0, <1>6 DEF Types, Set
    <3>3. ref[i] # 1 => valid'[i] = valid[i] BY <1>6
    <3>4. ref[i] = 1 => ~valid'[i] BY <1>0, <1>6 DEF Types, Set
    <3>5. QED BY <3>1, <3>2, <3>3, <3>4
  <2>2. drop'[p] = Tail(drop[p]) /\ \A q \in Procs \ {p} : drop'[q] = drop[q]
    BY <1>0, <1>6 DEF Types, Set
  <2>3. Mine(p, i) > 0 BY <1>0, <1>1, <1>2, HoldsMine DEF Holds
  <2>4. ASSUME NEW q \in Procs \ {p}, Uses(q, i) \/ Holds(q, i) PROVE ref[i] > 1
    <3>1. Mine(q, i) > 0 BY <1>0, <2>4, UsesMine, HoldsMine
    <3>2. QED BY <2>3, <3>1, SoleRef
  <2>5. \A k \in Inums : ref[k] \in Nat BY <1>0 DEF Types
  <2>6. Freed' BY <1>3, <2>1 DEF NameInv, Freed
  <2>7. Removing'
    <3>1. ASSUME NEW q \in Procs PROVE RemovingOf(q)'
      <4>1. RemovingOf(q) /\ Stage(q) BY <1>0 DEF NameInv, Removing, Stages
      <4>2. pc[q] = "remove" => ip[q] \in Inums /\ other[q] \in Inums BY InHand
      <4>3. pc[q] = "removed" => other[q] \in Inums BY InHand
      <4>4. pc[q] = "remove" => valid'[ip[q]]
        <5>1. ASSUME pc[q] = "remove", ip[q] = i PROVE ref[i] # 1
          <6>1. q # p BY <1>1, <4>1, <5>1 DEF Stage
          <6>2. ref[i] > 1 BY <2>4, <5>1, <6>1 DEF Uses
          <6>3. QED BY <2>5, <6>2
        <5>2. QED BY <2>1, <4>1, <4>2, <5>1 DEF RemovingOf
      <4>5. pc[q] = "removed" => valid'[other[q]]
        <5>1. ASSUME pc[q] = "removed", other[q] = i PROVE ref[i] # 1
          <6>1. q # p BY <1>1, <1>2, <4>1, <5>1 DEF Stage
          <6>2. ref[i] > 1 BY <2>4, <5>1, <6>1 DEF Uses
          <6>3. QED BY <2>5, <6>2
        <5>2. QED BY <2>1, <4>1, <4>3, <5>1 DEF RemovingOf
      <4>6. QED BY <1>3, <4>1, <4>4, <4>5 DEF RemovingOf
    <3>2. QED BY <3>1 DEF Removing
  <2>8. Kept'
    <3>1. ASSUME NEW k \in Inums, type'[k] # "free", nlink'[k] = 0
          PROVE  (valid'[k] /\ ref'[k] > 0) \/ \E q \in Procs : pc'[q] = "new" /\ other'[q] = k
      <4>1. (valid[k] /\ ref[k] > 0) \/ \E q \in Procs : pc[q] = "new" /\ other[q] = k
        BY <1>3, <3>1 DEF NameInv, Kept
      <4>2. CASE \E q \in Procs : pc[q] = "new" /\ other[q] = k BY <1>3, <4>2
      <4>3. CASE valid[k] /\ ref[k] > 0 /\ k = i
        <5>1. ref[i] # 1 BY <1>3, <1>6, <3>1, <4>3 DEF LastOne
        <5>2. QED BY <2>1, <2>5, <4>3, <5>1
      <4>4. CASE valid[k] /\ ref[k] > 0 /\ k # i BY <2>1, <4>4
      <4>5. QED BY <4>1, <4>2, <4>3, <4>4
    <3>2. QED BY <3>1 DEF Kept
  <2>9. Leaving'
    <3>1. ASSUME NEW q \in Procs, NEW k \in Inums, Freeing(q, k)' PROVE ref'[k] = 1 /\ valid'[k] /\ nlink'[k] = 0
      <4>1. CASE q # p
        <5>1. Freeing(q, k) BY <1>6, <2>2, <3>1, <4>1 DEF Freeing
        <5>2. ref[k] = 1 /\ valid[k] /\ nlink[k] = 0 BY <5>1 DEF NameInv, Leaving
        <5>3. k # i
          <6>1. k = i => ref[i] > 1 BY <2>4, <4>1, <5>1 DEF Freeing, Holds
          <6>2. QED BY <5>2, <6>1
        <5>4. QED BY <1>3, <2>1, <5>2, <5>3
      <4>2. CASE q = p
        <5>1. lock[k] = p /\ drop'[p] # <<>> BY <1>6, <3>1, <4>2 DEF Freeing
        <5>2. Holds(p, k) /\ Stage(p) BY <1>0, <5>1 DEF Holders, Holder, Stages
        <5>3. k # i BY <1>3, <5>1
        <5>4. pc[p] = "removed" BY <1>1, <1>2, <5>2, <5>3 DEF Holds, Stage
        <5>5. Len(drop[p]) = 1 BY <1>1, <5>2, <5>4 DEF Stage
        <5>6. Tail(drop[p]) \in Drop2 /\ Len(Tail(drop[p])) = 0 BY <1>1, <5>5, DropFacts
        <5>7. Tail(drop[p]) = <<>> BY <5>6, DropFacts
        <5>8. QED BY <2>2, <5>1, <5>7
      <4>3. QED BY <4>1, <4>2
    <3>2. QED BY <3>1 DEF Leaving
  <2>10. QED BY <1>4, <2>6, <2>7, <2>8, <2>9 DEF NameInv
<1>7. QED BY <1>2, <1>5, <1>6 DEF iput

(* What itrunc() of i takes away: the names in it.                            *)
LEMMA NamesFall ==
  ASSUME NEW i \in Inums, NEW k \in Inums, \A n \in Names : entries'[i][n] = None,
         \A e \in Inums \ {i} : entries'[e] = entries[e]
  PROVE  /\ NamesOf(k)' \in Nat /\ NamesOf(k)' <= NamesOf(k)
         /\ (\A n \in Names : entries[i][n] # k) => NamesOf(k)' = NamesOf(k)
         /\ (\E n \in Names : entries[i][n] = k) => NamesOf(k)' < NamesOf(k)
<1> DEFINE S == NameSet(entries, k)  T == NameSet(entries', k)
<1>1. IsFiniteSet(S)
  <2>1. IsFiniteSet(Inums \X Names) BY Finite
  <2>2. QED BY <2>1, FS_Subset DEF NameSet
<1>2. T \subseteq S
  <2>1. ASSUME NEW e \in Inums, NEW m \in Names, entries'[e][m] = k PROVE entries[e][m] = k
    <3>1. e # i BY <2>1, InumFacts
    <3>2. QED BY <2>1, <3>1
  <2>2. ASSUME NEW x \in Inums \X Names, entries'[x[1]][x[2]] = k PROVE entries[x[1]][x[2]] = k
    <3>1. x[1] \in Inums /\ x[2] \in Names OBVIOUS
    <3>2. QED BY <2>1, <2>2, <3>1
  <2>3. QED BY <2>2 DEF NameSet
<1>3. (\A n \in Names : entries[i][n] # k) => T = S
  <2>1. ASSUME \A n \in Names : entries[i][n] # k, NEW x \in Inums \X Names, entries[x[1]][x[2]] = k
        PROVE  entries'[x[1]][x[2]] = k
    <3>1. x[1] \in Inums /\ x[2] \in Names OBVIOUS
    <3>2. x[1] # i BY <2>1, <3>1
    <3>3. QED BY <2>1, <3>1, <3>2
  <2>2. ASSUME \A n \in Names : entries[i][n] # k PROVE S \subseteq T BY <2>1, <2>2 DEF NameSet
  <2>3. QED BY <1>2, <2>2
<1>4. (\E n \in Names : entries[i][n] = k) => T # S
  <2>1. ASSUME NEW n \in Names, entries[i][n] = k PROVE T # S
    <3>1. <<i, n>> \in S BY <2>1 DEF NameSet
    <3>2. <<i, n>> \notin T BY InumFacts DEF NameSet
    <3>3. QED BY <3>1, <3>2
  <2>2. QED BY <2>1
<1>5. NamesOf(k) = Cardinality(S) /\ NamesOf(k)' = Cardinality(T) BY DEF NamesOf, NameSet
<1> HIDE DEF S, T
<1>6. IsFiniteSet(T) /\ Cardinality(T) <= Cardinality(S) /\ (Cardinality(S) = Cardinality(T) => S = T)
  BY <1>1, <1>2, FS_Subset
<1>7. Cardinality(S) \in Nat /\ Cardinality(T) \in Nat BY <1>1, <1>6, FS_CardinalityType
<1>8. QED BY <1>3, <1>4, <1>5, <1>6, <1>7

LEMMA FreeName ==
  ASSUME RefInv, NameInv, NEW p \in Procs, Free(p)
  PROVE  NameInv'
<1>0. Types /\ Stages /\ Holders /\ RefsExact BY DEF RefInv
<1>1. drop[p] \in Drop2 /\ drop[p] # <<>> BY <1>0 DEF Types, Free
<1>2. PICK i \in Inums : i = Head(drop[p]) BY <1>1, DropFacts
<1>3. Freeing(p, i) BY <1>1, <1>2 DEF Free, Freeing
<1>4. ref[i] = 1 /\ valid[i] /\ nlink[i] = 0 BY <1>3 DEF NameInv, Leaving
<1>5. type[i] # "free" BY <1>4 DEF NameInv, Freed
<1>6. ~Named(i) /\ i # Root BY <1>0, <1>4, <1>5, LinkFacts DEF NameInv
<1>7. \A q \in Procs : ~Uses(q, i)
  <2>1. Mine(p, i) > 0 BY <1>0, <1>3, HoldsMine DEF Holds, Freeing
  <2>2. ASSUME NEW q \in Procs \ {p}, Uses(q, i) PROVE FALSE
    <3>1. Mine(q, i) > 0 BY <1>0, <2>2, UsesMine
    <3>2. ref[i] > 1 BY <2>1, <3>1, SoleRef
    <3>3. QED BY <1>4, <3>2
  <2>3. ASSUME Uses(p, i) PROVE FALSE
    <3>1. Mine(p, i) > 1 BY <1>0, <1>3, <2>3, UsesMine DEF Freeing
    <3>2. ref[i] = Rest(p, i) + Mine(p, i) /\ Rest(p, i) \in Nat /\ Mine(p, i) \in Nat
      BY <1>0, RefSplit DEF RefsExact
    <3>3. QED BY <1>4, <3>1, <3>2
  <2>4. QED BY <2>2, <2>3
<1>8. UNCHANGED <<nlink, ref, cwd, file, op, path, ip, other, pc, drop>> BY DEF Free, procVars
<1>9. /\ type'[i] = "free" /\ entries'[i] = NoEntries /\ ~valid'[i] /\ lock'[i] = None
      /\ \A k \in Inums \ {i} : type'[k] = type[k] /\ entries'[k] = entries[k]
                                /\ valid'[k] = valid[k] /\ lock'[k] = lock[k]
  BY <1>0, <1>2 DEF Free, Set, Types
<1>10. \A q \in Procs, k \in Inums : (Uses(q, k)' <=> Uses(q, k)) /\ (Uses(q, k) => k # i)
  BY <1>7, <1>8 DEF Uses
<1>11. \A e \in Inums, m \in Names : entries[e][m] # None => entries[e][m] \in Inums \ {i}
  BY <1>0, <1>6 DEF Types, Entry, Named
<1>12. Plain' BY <1>8 DEF NameInv, Plain
<1>13. Dirs'
  <2>1. type'[Root] = "dir" BY <1>6, <1>9, InumFacts DEF NameInv, Dirs
  <2>2. NoFiles'
    <3>1. \A e \in Inums : type[e] # "dir" => entries[e] = NoEntries BY DEF NameInv, Dirs, NoFiles
    <3>2. QED BY <1>9, <3>1 DEF NoFiles, NoEntries
  <2>3. ASSUME NEW q \in Procs PROVE DirOf(q)'
    <3>1. DirOf(q) BY DEF NameInv, Dirs
    <3>2. cwd[q] \in Inums \ {i} BY <1>7, InHand DEF Uses
    <3>3. (pc[q] = "act" /\ op[q] \in Wants) \/ pc[q] \in {"new", "remove"} => ip[q] \in Inums \ {i}
      BY <1>7, InHand DEF Uses
    <3>4. op[q] = "link to" => other[q] \in Inums \ {i} BY <1>7, InHand DEF Uses
    <3>5. QED BY <1>8, <1>9, <3>1, <3>2, <3>3, <3>4 DEF DirOf
  <2>4. QED BY <2>1, <2>2, <2>3 DEF Dirs
<1>14. Used' BY <1>9, <1>10 DEF NameInv, Used
<1>15. Freed' BY <1>4, <1>8, <1>9 DEF NameInv, Freed
<1>16. Fresh'
  <2>1. ASSUME NEW q \in Procs, pc[q] = "new" PROVE FreshOf(q)'
    <3>1. FreshOf(q) BY DEF NameInv, Fresh
    <3>2. ip[q] \in Inums \ {i} /\ other[q] \in Inums \ {i} BY <1>7, <2>1, InHand DEF Uses
    <3>3. /\ nlink'[other'[q]] = 0 /\ entries'[other'[q]] = NoEntries
          /\ type'[other'[q]] = IF op'[q] = "mkdir" THEN "dir" ELSE "file"
          /\ entries'[ip'[q]][Head(path'[q])] = None
      BY <1>8, <1>9, <2>1, <3>1, <3>2 DEF FreshOf
    <3>4. \A r \in Procs \ {q} : ~Uses(r, other[q])' BY <1>8, <2>1, <3>1 DEF FreshOf, Uses
    <3>5. QED BY <3>3, <3>4 DEF FreshOf, NoEntries
  <2>2. ASSUME NEW q \in Procs, pc[q] # "new" PROVE FreshOf(q)' BY <1>8, <2>2 DEF FreshOf
  <2>3. QED BY <2>1, <2>2 DEF Fresh
<1>17. Removing'
  <2>1. ASSUME NEW q \in Procs PROVE RemovingOf(q)'
    <3>1. RemovingOf(q) BY DEF NameInv, Removing
    <3>2. pc[q] = "remove" => ip[q] \in Inums \ {i} BY <1>7, InHand DEF Uses
    <3>3. pc[q] = "removed" => other[q] \in Inums \ {i} BY <1>7, InHand DEF Uses
    <3>4. QED BY <1>8, <1>9, <3>1, <3>2, <3>3 DEF RemovingOf
  <2>2. QED BY <2>1 DEF Removing
<1>18. Leaving'
  <2>1. ASSUME NEW q \in Procs, NEW k \in Inums, Freeing(q, k)' PROVE ref'[k] = 1 /\ valid'[k] /\ nlink'[k] = 0
    <3>1. k # i BY <1>9, <2>1, InumFacts DEF Freeing
    <3>2. Freeing(q, k) BY <1>8, <1>9, <2>1, <3>1 DEF Freeing
    <3>3. QED BY <1>8, <1>9, <3>1, <3>2 DEF NameInv, Leaving
  <2>2. QED BY <2>1 DEF Leaving
<1>19. Kept' BY <1>8, <1>9 DEF NameInv, Kept
<1>20. NoDangling'
  <2>1. ASSUME NEW e \in Inums, NEW m \in Names, entries'[e][m] # None PROVE type'[entries'[e][m]] # "free"
    <3>1. e # i BY <1>9, <2>1 DEF NoEntries
    <3>2. entries'[e][m] = entries[e][m] /\ entries[e][m] \in Inums \ {i} BY <1>9, <1>11, <2>1, <3>1
    <3>3. QED BY <1>9, <2>1, <3>2 DEF NameInv, NoDangling
  <2>2. QED BY <2>1 DEF NoDangling
<1>21. LinksRight'
  <2>1. stranded' = (stranded \ {i}) \cup ({entries[i][n] : n \in Names} \ {None}) BY <1>2 DEF Free
  <2>2. ASSUME NEW k \in Inums, type'[k] # "free"
        PROVE  nlink'[k] = LinkCount(k)' \/ (k \in stranded' /\ nlink'[k] > LinkCount(k)')
    <3>1. k # i /\ type[k] # "free" BY <1>9, <2>2
    <3>2. Subdirs(k)' = Subdirs(k)
      <4>1. \A m \in Names : (entries'[k][m] # None /\ type'[entries'[k][m]] = "dir")
                             <=> (entries[k][m] # None /\ type[entries[k][m]] = "dir")
        BY <1>9, <1>11, <3>1
      <4>2. QED BY <4>1 DEF Subdirs
    <3>3. OneOff(k)' = OneOff(k) BY <1>8 DEF OneOff
    <3>4. nlink[k] = LinkCount(k) \/ (k \in stranded /\ nlink[k] > LinkCount(k))
      BY <3>1 DEF NameInv, LinksRight, LinkCount
    <3>5. NamesOf(k) \in Nat /\ Subdirs(k) \in Nat /\ OneOff(k) \in Nat /\ nlink[k] \in Int
      BY <1>0, CountTypes DEF Types
    <3>6. \A n \in Names : entries'[i][n] = None BY <1>9 DEF NoEntries
    <3>7. CASE \A n \in Names : entries[i][n] # k
      <4>1. NamesOf(k)' = NamesOf(k) BY <1>9, <3>6, <3>7, NamesFall
      <4>2. LinkCount(k)' = LinkCount(k) BY <3>2, <3>3, <4>1 DEF LinkCount
      <4>3. k \in stranded => k \in stranded' BY <2>1, <3>1
      <4>4. QED BY <1>8, <3>4, <4>2, <4>3
    <3>8. CASE \E n \in Names : entries[i][n] = k
      <4>1. NamesOf(k)' < NamesOf(k) /\ NamesOf(k)' \in Nat BY <1>9, <3>6, <3>8, NamesFall
      <4>2. k \in stranded' BY <2>1, <3>8, InumFacts
      <4> DEFINE x == NamesOf(k)  y == NamesOf(k)'  s == Subdirs(k)  o == OneOff(k)
                 r == IF k = Root THEN 1 ELSE 0
      <4>3. LinkCount(k) = x + s + o + r /\ LinkCount(k)' = y + s + o + r BY <3>2, <3>3 DEF LinkCount
      <4>4. x \in Nat /\ y \in Nat /\ s \in Nat /\ o \in Nat /\ r \in Nat /\ y < x BY <3>5, <4>1
      <4>5. nlink'[k] = nlink[k] BY <1>8
      <4> HIDE DEF x, y, s, o, r
      <4>6. nlink'[k] > LinkCount(k)' BY <3>4, <3>5, <4>3, <4>4, <4>5
      <4>7. QED BY <4>2, <4>6
    <3>9. QED BY <3>7, <3>8
  <2>3. QED BY <2>2 DEF LinksRight, LinkCount
<1>22. QED BY <1>12, <1>13, <1>14, <1>15, <1>16, <1>17, <1>18, <1>19, <1>20, <1>21 DEF NameInv

LEMMA InitName == Init => NameInv
<1> SUFFICES ASSUME Init PROVE NameInv OBVIOUS
<1>1. None # "link to" /\ None \notin Inums /\ Root \in Inums /\ None \notin Procs BY NoneFacts, InumFacts DEF Ops
<1>2. Plain
  <2>1. <<>> \in Seq(Names) OBVIOUS
  <2>2. QED BY <2>1 DEF Plain, Init
<1>3. \A e \in Inums, m \in Names : entries[e][m] = None BY DEF Init, NoEntries
<1>4. Dirs /\ NoDangling
  <2>1. NoFiles BY DEF Init, NoFiles
  <2>2. \A p \in Procs : DirOf(p) BY <1>1 DEF Init, DirOf
  <2>3. QED BY <1>1, <1>3, <2>1, <2>2 DEF Init, Dirs, NoDangling
<1>5. Used BY <1>1 DEF Init, Used, Uses
<1>6. Freed /\ Kept
  <2>1. ASSUME NEW i \in Inums
        PROVE  /\ type[i] = IF i = Root THEN "dir" ELSE "free"
               /\ nlink[i] = IF i = Root THEN 1 ELSE 0
               /\ valid[i] <=> i = Root
    BY DEF Init
  <2>2. Freed BY <2>1 DEF Freed
  <2>3. \A i \in Inums : type[i] # "free" => nlink[i] = 1 BY <2>1
  <2>4. 1 # 0 OBVIOUS
  <2>5. Kept BY <2>3, <2>4 DEF Kept
  <2>6. QED BY <2>2, <2>5
<1>7. Fresh /\ Removing /\ Leaving
  BY DEF Init, Fresh, FreshOf, Removing, RemovingOf, Leaving, Freeing
<1>8. LinksRight
  <2>1. ASSUME NEW i \in Inums PROVE NamesOf(i) = 0 /\ Subdirs(i) = 0 /\ OneOff(i) = 0
    <3>1. ~(NamesOf(i) > 0) BY <1>1, <1>3, CountPositive
    <3>2. ~(Subdirs(i) > 0) BY <1>3, CountPositive DEF IsDir
    <3>3. ~(OneOff(i) > 0) BY <1>1, CountPositive DEF Init, Off
    <3>4. NamesOf(i) \in Nat /\ Subdirs(i) \in Nat /\ OneOff(i) \in Nat BY CountTypes
    <3>5. QED BY <3>1, <3>2, <3>3, <3>4
  <2>2. ASSUME NEW i \in Inums, type[i] # "free"
        PROVE  nlink[i] = NamesOf(i) + Subdirs(i) + OneOff(i) + (IF i = Root THEN 1 ELSE 0)
    <3>1. i = Root /\ nlink[i] = 1 BY <2>2 DEF Init
    <3>2. QED BY <2>1, <3>1
  <2>3. QED BY <2>2 DEF LinksRight
<1>9. QED BY <1>2, <1>4, <1>5, <1>6, <1>7, <1>8 DEF NameInv

LEMMA NextName ==
  ASSUME RefInv, NameInv, PlainPaths, Next
  PROVE  NameInv'
<1>1. PICK p \in Procs :
        \/ \E c \in Calls[p], w \in Paths, i \in {Root, cwd[p]} : Call(p, c, w, i)
        \/ iput(p) \/ Free(p) \/ close(p) \/ Walk(p)
        \/ sys_open(p) \/ sys_chdir(p) \/ \E w \in Paths : sys_link(p, w)
        \/ LinkTo(p) \/ LinkBad(p) \/ create(p) \/ Exists(p) \/ Made(p)
        \/ sys_unlink(p) \/ Removes(p) \/ Removed(p)
  BY DEF Next
<1>2. (\E c \in Calls[p], w \in Paths, i \in {Root, cwd[p]} : Call(p, c, w, i)) => NameInv'
  BY CallRef, CallName
<1>3. (iput(p) => NameInv') /\ (Free(p) => NameInv') BY IputName, FreeName
<1>4. (close(p) => NameInv') /\ (Walk(p) => NameInv') BY CloseRef, WalkRef, CloseName, WalkName
<1>5. (sys_open(p) => NameInv') /\ (sys_chdir(p) => NameInv') BY OpenRef, ChdirRef, OpenName, ChdirName
<1>6. (\E w \in Paths : sys_link(p, w)) => NameInv' BY LinkRef, LinkName
<1>7. (LinkTo(p) => NameInv') /\ (LinkBad(p) => NameInv') BY LinkToRef, LinkBadRef, LinkToName, LinkBadName
<1>8. (create(p) => NameInv') /\ (Exists(p) => NameInv') BY CreateRef, ExistsRef, CreateName, ExistsName
<1>9. (Made(p) => NameInv') /\ (sys_unlink(p) => NameInv') BY MadeRef, UnlinkRef, MadeName, UnlinkName
<1>10. (Removes(p) => NameInv') /\ (Removed(p) => NameInv') BY RemovesRef, RemovedRef, RemovesName, RemovedName
<1>11. QED BY <1>1, <1>2, <1>3, <1>4, <1>5, <1>6, <1>7, <1>8, <1>9, <1>10

LEMMA NameSame == NameInv /\ UNCHANGED vars => NameInv'
<1> SUFFICES ASSUME NameInv, UNCHANGED vars PROVE NameInv' OBVIOUS
<1>1. UNCHANGED <<type, nlink, entries, stranded, ref, valid, lock, cwd, file, op, path, ip, other, pc, drop>>
  BY DEF vars, diskVars, procVars
<1>2. Plain' /\ Dirs' /\ Used' /\ Fresh' /\ LinksRight' /\ NoDangling' BY <1>1, Resting
<1>3. Freed' /\ Removing' /\ Leaving' /\ Kept'
  BY <1>1 DEF NameInv, Freed, Removing, RemovingOf, Leaving, Freeing, Kept
<1>4. QED BY <1>2, <1>3 DEF NameInv

LEMMA CountsHold == RefInv /\ NameInv => CountsRight
<1> SUFFICES ASSUME RefInv, NameInv PROVE CountsRight OBVIOUS
<1>1. Types /\ RefsExact /\ LinksRight BY DEF RefInv, NameInv
<1>2. ASSUME NEW i \in Inums PROVE nlink[i] \in Nat
  <2>1. CASE type[i] = "free" BY <2>1 DEF NameInv, Freed
  <2>2. CASE type[i] # "free"
    <3>1. LinkCount(i) \in Nat /\ nlink[i] >= LinkCount(i) BY <1>1, <2>2, LinkFacts DEF NameInv
    <3>2. nlink[i] \in Int BY <1>1 DEF Types
    <3>3. QED BY <3>1, <3>2
  <2>3. QED BY <2>1, <2>2
<1>3. TypeOK BY <1>1, <1>2 DEF Types, TypeOK
<1>4. QED BY <1>1, <1>3 DEF CountsRight

LEMMA UsedRef ==
  ASSUME RefInv, NEW i \in Inums, ref[i] = 0
  PROVE  \A q \in Procs : ~Uses(q, i)
<1>1. ASSUME NEW q \in Procs, Uses(q, i) PROVE FALSE
  <2>1. Mine(q, i) > 0 BY <1>1, UsesMine DEF RefInv
  <2>2. ref[i] > 0 BY <2>1, RefPositive
  <2>3. QED BY <2>2
<1>2. QED BY <1>1

LEMMA FreedHold == RefInv /\ NameInv => FreedRight
<1> SUFFICES ASSUME RefInv, NameInv, NEW i \in Inums \ {Root}, type[i] # "free", ref[i] = 0,
                    i \notin stranded
             PROVE  NamesOf(i) + Subdirs(i) > 0
  BY DEF FreedRight, Reclaimed, NameInv
<1>1. NamesOf(i) \in Nat /\ Subdirs(i) \in Nat /\ OneOff(i) \in Nat BY CountTypes
<1>2. \A q \in Procs : ~Uses(q, i) BY UsedRef
<1>3. OneOff(i) = 0
  <2>1. ~(OneOff(i) > 0) BY <1>2, CountPositive DEF Off, Uses
  <2>2. QED BY <1>1, <2>1
<1>4. nlink[i] = NamesOf(i) + Subdirs(i) BY <1>1, <1>3 DEF NameInv, LinksRight
<1>5. nlink[i] # 0 BY <1>2 DEF NameInv, Kept, Uses
<1>6. QED BY <1>1, <1>4, <1>5

LEMMA PanicsHold == RefInv /\ NameInv => NeverPanics
<1> SUFFICES ASSUME RefInv, NameInv, NEW p \in Procs, pc[p] \notin {"user", "removed"}, drop[p] = <<>>
             PROVE  ~NoType(WillLock(p)) /\ ~NoLinks(p)
  BY DEF NeverPanics
<1>0. Types /\ Stage(p) /\ RemovingOf(p) BY DEF RefInv, Stages, NameInv, Removing
<1>1. pc[p] \in Places /\ ip[p] \in Entry /\ other[p] \in Entry BY <1>0 DEF Types
<1>2. PICK i \in Inums : i = WillLock(p) /\ Uses(p, i)
  BY <1>0, <1>1 DEF Stage, Places, Entry, WillLock, Uses
<1>3. ~NoType(i) BY <1>2 DEF NameInv, Used, NoType
<1>4. ASSUME pc[p] = "remove" PROVE ~NoLinks(p)
  <2>1. i = other[p] BY <1>2, <1>4 DEF WillLock
  <2>2. ip[p] \in Inums /\ Len(path[p]) = 1 BY <1>0, <1>1, <1>4 DEF Stage, Entry
  <2>3. path[p] # <<>>
    <3>1. Len(path[p]) # 0 BY <2>2
    <3>2. QED BY <3>1, EmptyLen, Zenon
  <2>4. Named(i) BY <1>0, <1>4, <2>1, <2>2, <2>3, PlainFacts DEF RemovingOf, Named
  <2>5. type[i] # "free" BY <1>2 DEF NameInv, Used
  <2>6. nlink[i] > 0 BY <1>0, <2>4, <2>5, LinkFacts DEF NameInv
  <2>7. nlink[i] \in Int BY <1>0 DEF Types
  <2>8. QED BY <2>1, <2>6, <2>7 DEF NoLinks
<1>5. QED BY <1>2, <1>3, <1>4 DEF NoLinks

(* Without ".." in the paths, the invariant of names holds always.            *)
THEOREM NameAlways == ASSUME PlainPaths PROVE Spec => [](RefInv /\ NameInv)
<1>1. Init => RefInv /\ NameInv BY InitRef, InitName
<1>2. RefInv /\ NameInv /\ [Next]_vars => (RefInv /\ NameInv)'
  <2>1. RefInv /\ NameInv /\ Next => RefInv' BY NextRef, StepKeeps
  <2>2. RefInv /\ NameInv /\ Next => NameInv' BY NextName
  <2>3. QED BY <2>1, <2>2, RefSame, NameSame
<1>3. QED BY <1>1, <1>2, PTL DEF Spec

(* ref counts the references to an inode and nlink its names, at every step   *)
(* of link(), unlink(), create() and mkdir() but for the one they are off by. *)
THEOREM CountsRightAlways == ASSUME PlainPaths PROVE Spec => []CountsRight
BY NameAlways, CountsHold, PTL

(* No directory entry leads to an inode that iput() has freed, and no inode   *)
(* stays allocated that has neither a name nor a reference.                   *)
THEOREM FreedRightAlways == ASSUME PlainPaths PROVE Spec => []FreedRight
BY NameAlways, FreedHold, PTL

(* "ilock: no type" and "unlink: nlink < 1" are never reached.                *)
THEOREM NeverPanicsAlways == ASSUME PlainPaths PROVE Spec => []NeverPanics
BY NameAlways, PanicsHold, PTL
-----------------------------------------------------------------------------
(* Blocks: Exact says that the places for numbers, of inodes and of indirect  *)
(* blocks, hold each block in use once and no other; FilledRight how far each *)
(* file is its own data, the part of a writei() in progress included.         *)
Cells  == 0 .. MAXFILE
Units  == 0 .. BSIZE - 1
Word(i, k) == IF k <= NDIRECT THEN addrs[i][k]
              ELSE IF addrs[i][NDIRECT] = 0 \/ k - NDIRECT - 1 < Gone(i) THEN 0
              ELSE InIndirect(i)[k - NDIRECT - 1]
Numbers == [i \in Inos |-> [k \in Cells |-> Word(i, k)]]
Exact(f, B) ==
  /\ \A i \in Inos, k \in Cells : f[i][k] \in B \cup {0}
  /\ \A i, j \in Inos, k, l \in Cells : f[i][k] = f[j][l] /\ f[i][k] # 0 => i = j /\ k = l
  /\ \A b \in B : \E i \in Inos, k \in Cells : f[i][k] = b

BlockTypes ==
  /\ bitmap \subseteq Blocks /\ addrs \in [Inos -> [0 .. NDIRECT -> Blocks \cup {0}]]
  /\ content \in [Blocks -> [Units -> Blocks \cup {0} \cup Inos]]
  /\ size \in [Inos -> 0 .. MAXFILE * BSIZE] /\ off \in [Inos -> Nat]
  /\ holder \in [Inos -> Callers \cup {NoHolder}] /\ ino \in [Callers -> Inos \cup {NoHolder}]
  /\ where \in [Callers -> {"user", "chunk", "writei", "itrunc"}]
  /\ left \in [Callers -> Nat] /\ tot \in [Callers -> Nat] /\ n1 \in [Callers -> Nat]
InodeLocked == \A i \in Inos, p \in Callers :
  holder[i] = p <=> where[p] \in {"writei", "itrunc"} /\ ino[p] = i
InCall(p) ==
  /\ where[p] # "user" => ino[p] \in Inos
  /\ where[p] \in {"user", "chunk"} => tot[p] = 0
  /\ where[p] = "writei" => /\ tot[p] <= n1[p] /\ off[ino[p]] <= size[ino[p]]
                            /\ off[ino[p]] + n1[p] <= MAXFILE * BSIZE
  /\ where[p] = "itrunc" => tot[p] <= NINDIRECT
ListsNumbers(i) == addrs[i][NDIRECT] # 0 =>
  \A k \in 0 .. NINDIRECT - 1 : InIndirect(i)[k] \in Blocks \cup {0}
Reach(i) == IF holder[i] = NoHolder THEN size[i]
            ELSE IF where[holder[i]] = "itrunc" THEN 0 ELSE Grown(holder[i])
IsFilled(i, n) == \A u \in 0 .. n - 1 :
  Number(i, u \div BSIZE) # 0 /\ content[Number(i, u \div BSIZE)][u % BSIZE] = i
FilledRight == \A i \in Inos : IsFilled(i, Reach(i))
BlockInv ==
  /\ BlockTypes /\ InodeLocked /\ (\A p \in Callers : InCall(p))
  /\ (\A i \in Inos : ListsNumbers(i)) /\ Exact(Numbers, bitmap) /\ FilledRight

LEMMA DivSplit ==
  ASSUME NEW n \in Nat \ {0}, NEW a \in Nat
  PROVE  a \div n \in Nat /\ a % n \in 0 .. n - 1 /\ a = (n * (a \div n)) + (a % n)
OBVIOUS

(* A unit below m blocks is in one of them, and so is what follows it there.  *)
LEMMA DivBelow ==
  ASSUME NEW n \in Nat \ {0}, NEW m \in Nat, NEW a \in Nat, a < m * n
  PROVE  a \div n \in 0 .. m - 1
<1>1. PICK q \in Nat, t \in 0 .. n - 1 : a = n * q + t /\ q = a \div n BY DivSplit
<1>2. SUFFICES ASSUME q >= m PROVE FALSE BY <1>1
<1>3. PICK d \in Nat : q = m + d BY <1>1, <1>2
<1>4. n * m \in Nat /\ n * d \in Nat /\ n * (m + d) = n * m + n * d OBVIOUS
<1>5. n * m = m * n OBVIOUS
<1>6. PICK x \in Nat, y \in Nat : x = n * m /\ y = n * d /\ n * (m + d) = x + y BY <1>4
<1>7. n * q = x + y BY <1>3, <1>6
<1>8. a = (x + y) + t BY <1>1, <1>7
<1>9. a < x BY <1>5, <1>6
<1>10. QED BY <1>1, <1>8, <1>9

LEMMA DivNext ==
  ASSUME NEW n \in Nat \ {0}, NEW a \in Nat, NEW w \in Nat, (a % n) + w < n
  PROVE  (a + w) \div n = a \div n /\ (a + w) % n = (a % n) + w
OBVIOUS

LEMMA BlockFacts ==
  /\ NBLOCKS \in Nat /\ NDIRECT \in Nat /\ NINDIRECT \in Nat /\ BSIZE \in Nat \ {0}
  /\ NINDIRECT <= BSIZE /\ 0 \notin Blocks /\ Blocks \subseteq Nat
  /\ MAXFILE \in Nat /\ MAXFILE = NDIRECT + NINDIRECT /\ MAXFILE * BSIZE \in Nat
  /\ ChunkMax \in Nat /\ NoHolder \notin Callers /\ NoHolder \notin Inos
  /\ \A x \in Writes \cup Truncates : x[1] \in Callers /\ x[2] \in Inos
<1>1. NBLOCKS \in Nat /\ NDIRECT \in Nat /\ NINDIRECT \in Nat /\ BSIZE \in Nat \ {0}
      /\ MAXOPBLOCKS \in Nat /\ MAXOPBLOCKS >= 6 /\ NINDIRECT <= BSIZE
  BY BlocksAssumption
<1>2. MAXFILE \in Nat /\ MAXFILE = NDIRECT + NINDIRECT BY <1>1 DEF MAXFILE
<1>3. MAXFILE * BSIZE \in Nat BY <1>1, <1>2
<1>4. ChunkMax \in Nat
  <2>1. PICK x \in Nat : x = (MAXOPBLOCKS - 1 - 1 - 2) \div 2 BY <1>1
  <2>2. x * BSIZE \in Nat BY <1>1
  <2>3. QED BY <2>1, <2>2 DEF ChunkMax
<1>5. QED BY <1>1, <1>2, <1>3, <1>4, BlocksAssumption DEF Blocks

(* A number more and a number less.                                           *)
LEMMA ExactPut ==
  ASSUME NEW f, NEW g, NEW B, Exact(f, B), NEW i \in Inos, NEW k \in Cells, NEW b,
         0 \notin B, f[i][k] = 0, b \notin B, b # 0,
         \A j \in Inos, l \in Cells : g[j][l] = IF j = i /\ l = k THEN b ELSE f[j][l]
  PROVE  Exact(g, B \cup {b})
<1>1. \A j \in Inos, l \in Cells : g[j][l] \in (B \cup {b}) \cup {0} BY DEF Exact
<1>2. ASSUME NEW j \in Inos, NEW h \in Inos, NEW l \in Cells, NEW m \in Cells,
             g[j][l] = g[h][m], g[j][l] # 0
      PROVE  j = h /\ l = m
  <2>0. /\ g[j][l] = IF j = i /\ l = k THEN b ELSE f[j][l]
        /\ g[h][m] = IF h = i /\ m = k THEN b ELSE f[h][m]
    OBVIOUS
  <2>1. CASE g[j][l] = b
    <3>1. f[j][l] # b /\ f[h][m] # b BY DEF Exact
    <3>2. QED BY <1>2, <2>0, <2>1, <3>1
  <2>2. CASE g[j][l] # b
    <3>1. g[j][l] = f[j][l] /\ g[h][m] = f[h][m] BY <1>2, <2>0, <2>2
    <3>2. f[j][l] = f[h][m] /\ f[j][l] # 0 BY <1>2, <3>1
    <3>3. QED BY <3>2 DEF Exact
  <2>3. QED BY <2>1, <2>2
<1>3. ASSUME NEW c \in B \cup {b} PROVE \E j \in Inos, l \in Cells : g[j][l] = c
  <2>1. CASE c = b BY <2>1
  <2>2. CASE c \in B
    <3>1. PICK j \in Inos, l \in Cells : f[j][l] = c BY <2>2 DEF Exact
    <3>2. CASE j = i /\ l = k
      <4>1. c = 0 BY <3>1, <3>2
      <4>2. QED BY <4>1, <2>2
    <3>3. CASE ~(j = i /\ l = k) BY <3>1, <3>3
    <3>4. QED BY <3>2, <3>3
  <2>3. QED BY <2>1, <2>2
<1>4. QED BY <1>1, <1>2, <1>3 DEF Exact

LEMMA ExactClear ==
  ASSUME NEW f, NEW g, NEW B, Exact(f, B), NEW i \in Inos, NEW k \in Cells, 0 \notin B,
         \A j \in Inos, l \in Cells : g[j][l] = IF j = i /\ l = k THEN 0 ELSE f[j][l]
  PROVE  Exact(g, B \ {f[i][k]})
<1>1. ASSUME NEW j \in Inos, NEW l \in Cells PROVE g[j][l] \in (B \ {f[i][k]}) \cup {0}
  <2>1. CASE f[j][l] = f[i][k] BY <2>1 DEF Exact
  <2>2. CASE f[j][l] # f[i][k] BY <2>2 DEF Exact
  <2>3. QED BY <2>1, <2>2
<1>2. ASSUME NEW j \in Inos, NEW h \in Inos, NEW l \in Cells, NEW m \in Cells,
             g[j][l] = g[h][m], g[j][l] # 0
      PROVE  j = h /\ l = m
  BY <1>2 DEF Exact
<1>3. ASSUME NEW c \in B \ {f[i][k]} PROVE \E j \in Inos, l \in Cells : g[j][l] = c
  <2>1. PICK j \in Inos, l \in Cells : f[j][l] = c BY <1>3 DEF Exact
  <2>2. g[j][l] = c BY <2>1, <1>3
  <2>3. QED BY <2>2
<1>4. QED BY <1>1, <1>2, <1>3 DEF Exact

(* What Numbers says of an inode, and of the blocks of its file.                *)
LEMMA WordIs ==
  ASSUME NEW i \in Inos, NEW k \in Cells
  PROVE  Numbers[i][k] = Word(i, k)
BY DEF Numbers

LEMMA ThisWord ==
  ASSUME BlockInv, NEW i \in Inos
  PROVE  /\ \A k \in 0 .. NDIRECT : k \in Cells /\ Numbers[i][k] = addrs[i][k]
         /\ \A k \in 0 .. NINDIRECT - 1 :
              /\ NDIRECT + 1 + k \in Cells
              /\ addrs[i][NDIRECT] # 0 /\ k >= Gone(i) =>
                   Numbers[i][NDIRECT + 1 + k] = InIndirect(i)[k]
              /\ addrs[i][NDIRECT] = 0 \/ k < Gone(i) => Numbers[i][NDIRECT + 1 + k] = 0
<1> USE BlockFacts
<1>1. ASSUME NEW k \in 0 .. NDIRECT PROVE k \in Cells /\ Numbers[i][k] = addrs[i][k]
  <2>1. k \in Cells /\ k <= NDIRECT BY DEF Cells
  <2>2. QED BY <2>1, WordIs DEF Word
<1>2. ASSUME NEW k \in 0 .. NINDIRECT - 1
      PROVE  /\ NDIRECT + 1 + k \in Cells
             /\ addrs[i][NDIRECT] # 0 /\ k >= Gone(i) =>
                  Numbers[i][NDIRECT + 1 + k] = InIndirect(i)[k]
             /\ addrs[i][NDIRECT] = 0 \/ k < Gone(i) => Numbers[i][NDIRECT + 1 + k] = 0
  <2>1. PICK l \in Cells : l = NDIRECT + 1 + k /\ ~(l <= NDIRECT) /\ l - NDIRECT - 1 = k BY DEF Cells
  <2>2. Numbers[i][l] = IF addrs[i][NDIRECT] = 0 \/ k < Gone(i) THEN 0 ELSE InIndirect(i)[k]
    BY <2>1, WordIs DEF Word
  <2>3. Gone(i) \in Nat
    <3>1. holder[i] # NoHolder => tot[holder[i]] \in Nat BY DEF BlockInv, BlockTypes
    <3>2. QED BY <3>1 DEF Gone
  <2>4. k < Gone(i) <=> ~(k >= Gone(i)) BY <2>3
  <2>5. QED BY <2>1, <2>2, <2>4
<1>3. QED BY <1>1, <1>2

(* The cell of the n-th block of a file.                                      *)
CellOf(n) == IF n < NDIRECT THEN n ELSE n + 1
LEMMA NumberIs ==
  ASSUME BlockInv, NEW i \in Inos, Gone(i) = 0, NEW n \in 0 .. MAXFILE - 1
  PROVE  /\ CellOf(n) \in Cells /\ CellOf(n) # NDIRECT /\ Number(i, n) = Numbers[i][CellOf(n)]
         /\ n >= NDIRECT => n - NDIRECT \in 0 .. NINDIRECT - 1
<1> USE BlockFacts
<1>1. CASE n < NDIRECT BY <1>1, ThisWord DEF CellOf, Number
<1>2. CASE n >= NDIRECT
  <2>1. PICK k \in 0 .. NINDIRECT - 1 : k = n - NDIRECT /\ n + 1 = NDIRECT + 1 + k BY <1>2
  <2>2. ~(n < NDIRECT) /\ CellOf(n) = NDIRECT + 1 + k BY <1>2, <2>1 DEF CellOf
  <2>3. Number(i, n) = IF addrs[i][NDIRECT] = 0 THEN 0 ELSE InIndirect(i)[k]
    BY <2>1, <2>2 DEF Number, InIndirect
  <2>4. NDIRECT + 1 + k \in Cells /\ Number(i, n) = Numbers[i][NDIRECT + 1 + k]
    <3>1. /\ NDIRECT + 1 + k \in Cells
          /\ addrs[i][NDIRECT] # 0 /\ k >= Gone(i) => Numbers[i][NDIRECT + 1 + k] = InIndirect(i)[k]
          /\ addrs[i][NDIRECT] = 0 => Numbers[i][NDIRECT + 1 + k] = 0
      BY ThisWord
    <3>2. k >= Gone(i) OBVIOUS
    <3>3. QED BY <2>3, <3>1, <3>2
  <2>5. QED BY <2>1, <2>2, <2>4
<1>3. QED BY <1>1, <1>2

(* Who writes a file has its inode alone, and nobody is truncating it.        *)
LEMMA HasInode ==
  ASSUME BlockInv, NEW p \in Callers, where[p] \in {"writei", "itrunc"}
  PROVE  /\ ino[p] \in Inos /\ holder[ino[p]] = p /\ holder[ino[p]] # NoHolder
         /\ where[p] = "writei" => Gone(ino[p]) = 0 /\ Reach(ino[p]) = Grown(p)
         /\ where[p] = "itrunc" => Gone(ino[p]) = tot[p] /\ Reach(ino[p]) = 0
         /\ \A q \in Callers : where[q] \in {"writei", "itrunc"} /\ ino[q] = ino[p] => q = p
         /\ \A j \in Inos : j # ino[p] => holder[j] # p
<1>1. ino[p] \in Inos BY DEF BlockInv, InCall
<1>2. holder[ino[p]] = p /\ p # NoHolder BY <1>1, BlockFacts DEF BlockInv, InodeLocked
<1>3. \A q \in Callers : where[q] \in {"writei", "itrunc"} /\ ino[q] = ino[p] => q = p
  BY <1>1, <1>2 DEF BlockInv, InodeLocked
<1>4. \A j \in Inos : j # ino[p] => holder[j] # p BY DEF BlockInv, InodeLocked
<1>5. QED BY <1>1, <1>2, <1>3, <1>4 DEF Gone, Reach

LEMMA WriteFacts ==
  ASSUME BlockInv, NEW p \in Callers, where[p] = "writei"
  PROVE  /\ Pos(p) \in 0 .. MAXFILE * BSIZE /\ tot[p] \in Nat /\ n1[p] \in Nat /\ tot[p] <= n1[p]
         /\ Grown(p) \in 0 .. MAXFILE * BSIZE /\ Pos(p) = off[ino[p]] + tot[p]
         /\ Pos(p) <= Grown(p) /\ size[ino[p]] <= Grown(p) /\ Pos(p) + (n1[p] - tot[p]) <= MAXFILE * BSIZE
         /\ tot[p] < n1[p] => Pos(p) \div BSIZE \in 0 .. MAXFILE - 1
         /\ Pos(p) % BSIZE \in Units
<1>1. ino[p] \in Inos BY HasInode
<1>2. PICK m \in Nat : m = MAXFILE * BSIZE BY BlockFacts
<1>3. /\ off[ino[p]] \in Nat /\ size[ino[p]] \in 0 .. m /\ tot[p] \in Nat /\ n1[p] \in Nat
      /\ tot[p] <= n1[p] /\ off[ino[p]] <= size[ino[p]] /\ off[ino[p]] + n1[p] <= m
  BY <1>1, <1>2 DEF BlockInv, BlockTypes, InCall
<1>4. Pos(p) = off[ino[p]] + tot[p] BY DEF Pos
<1>5. Pos(p) \in 0 .. m /\ Pos(p) + (n1[p] - tot[p]) <= m BY <1>3, <1>4
<1>6. Grown(p) \in 0 .. m /\ Pos(p) <= Grown(p) /\ size[ino[p]] <= Grown(p) BY <1>3, <1>5 DEF Grown
<1>7. ASSUME tot[p] < n1[p] PROVE Pos(p) \div BSIZE \in 0 .. MAXFILE - 1
  <2>1. Pos(p) < MAXFILE * BSIZE BY <1>2, <1>3, <1>5, <1>7
  <2>2. PICK a \in Nat : a = Pos(p) BY <1>5
  <2>3. a \div BSIZE \in 0 .. MAXFILE - 1 BY <2>1, <2>2, DivBelow, BlockFacts
  <2>4. QED BY <2>2, <2>3
<1>8. Pos(p) % BSIZE \in Units
  <2>1. PICK a \in Nat : a = Pos(p) BY <1>5
  <2>2. a % BSIZE \in 0 .. BSIZE - 1 BY DivSplit, BlockFacts
  <2>3. QED BY <2>1, <2>2 DEF Units
<1>9. QED BY <1>2, <1>3, <1>4, <1>5, <1>6, <1>7, <1>8

-----------------------------------------------------------------------------
(* Blocks: what a step leaves as it was.                                      *)
LEMMA ExactKept ==
  ASSUME BlockInv, bitmap' = bitmap,
         \A i \in Inos, k \in Cells : Word(i, k)' = Word(i, k)
  PROVE  Exact(Numbers, bitmap)'
<1>1. Numbers' = Numbers BY DEF Numbers
<1>2. QED BY <1>1 DEF BlockInv, Exact

LEMMA WordKept ==
  ASSUME BlockInv, NEW i \in Inos, addrs'[i] = addrs[i],
         Gone(i)' = Gone(i) \/ addrs[i][NDIRECT] = 0,
         addrs[i][NDIRECT] # 0 => content'[addrs[i][NDIRECT]] = content[addrs[i][NDIRECT]]
  PROVE  \A k \in Cells : Word(i, k)' = Word(i, k)
BY DEF Word, InIndirect

LEMMA FilledKept ==
  ASSUME BlockInv, NEW i \in Inos, NEW n \in 0 .. Reach(i),
         \A m \in 0 .. MAXFILE - 1 : Number(i, m) # 0 =>
           /\ Number(i, m)' = Number(i, m)
           /\ \A k \in Units : content[Number(i, m)][k] = i => content'[Number(i, m)][k] = i
  PROVE  IsFilled(i, n)'
<1>1. SUFFICES ASSUME NEW u \in 0 .. n - 1
               PROVE  /\ Number(i, u \div BSIZE)' # 0
                      /\ content'[Number(i, u \div BSIZE)'][u % BSIZE] = i
  BY DEF IsFilled
<1>2. Reach(i) \in 0 .. MAXFILE * BSIZE
  <2>1. size[i] \in 0 .. MAXFILE * BSIZE /\ MAXFILE * BSIZE \in Nat
    BY BlockFacts DEF BlockInv, BlockTypes
  <2>2. CASE holder[i] = NoHolder BY <2>1, <2>2 DEF Reach
  <2>3. CASE holder[i] # NoHolder
    <3>1. PICK p \in Callers : holder[i] = p BY <2>3 DEF BlockInv, BlockTypes
    <3>2. where[p] \in {"writei", "itrunc"} /\ ino[p] = i BY <3>1 DEF BlockInv, InodeLocked
    <3>3. CASE where[p] = "itrunc" BY <2>1, <2>3, <3>1, <3>3 DEF Reach
    <3>4. CASE where[p] = "writei" BY <2>3, <3>1, <3>4, WriteFacts DEF Reach
    <3>5. QED BY <3>2, <3>3, <3>4
  <2>4. QED BY <2>2, <2>3
<1>3. u \in Nat /\ u < MAXFILE * BSIZE /\ u \in 0 .. Reach(i) - 1
  <2>1. PICK m \in Nat : m = MAXFILE * BSIZE BY BlockFacts
  <2>2. QED BY <1>2, <2>1
<1>4. PICK m \in 0 .. MAXFILE - 1 : m = u \div BSIZE BY <1>3, DivBelow, BlockFacts
<1>5. u % BSIZE \in Units BY <1>3, DivSplit, BlockFacts DEF Units
<1>6. Number(i, m) # 0 /\ content[Number(i, m)][u % BSIZE] = i
  BY <1>3, <1>4 DEF BlockInv, FilledRight, IsFilled
<1>7. QED BY <1>4, <1>5, <1>6

LEMMA NothingMoves ==
  ASSUME BlockInv, UNCHANGED <<bitmap, addrs, content>>,
         \A i \in Inos : Gone(i)' = Gone(i) \/ addrs[i][NDIRECT] = 0,
         \A i \in Inos : Reach(i)' = Reach(i) \/ Reach(i)' = 0
  PROVE  (\A i \in Inos : ListsNumbers(i)') /\ Exact(Numbers, bitmap)' /\ FilledRight'
<1>1. \A i \in Inos : ListsNumbers(i)' BY DEF BlockInv, ListsNumbers, InIndirect
<1>2. \A i \in Inos : addrs'[i] = addrs[i] OBVIOUS
<1>3. Exact(Numbers, bitmap)' BY <1>2, WordKept, ExactKept
<1>4. ASSUME NEW i \in Inos PROVE IsFilled(i, Reach(i))'
  <2>1. CASE Reach(i)' = 0 BY <2>1 DEF IsFilled
  <2>2. CASE Reach(i)' = Reach(i)
    BY <2>2 DEF BlockInv, FilledRight, IsFilled, Number
  <2>3. QED BY <2>1, <2>2
<1>5. QED BY <1>1, <1>3, <1>4 DEF FilledRight

LEMMA HoldsNone ==
  ASSUME BlockInv, NEW p \in Callers, where[p] \notin {"writei", "itrunc"}
  PROVE  \A i \in Inos : holder[i] # p
BY DEF BlockInv, InodeLocked

(* The holder of an inode other than p's is somebody else.                    *)
LEMMA HolderIs ==
  ASSUME BlockInv, NEW i \in Inos, holder[i] # NoHolder
  PROVE  holder[i] \in Callers /\ where[holder[i]] \in {"writei", "itrunc"} /\ ino[holder[i]] = i
BY DEF BlockInv, BlockTypes, InodeLocked

-----------------------------------------------------------------------------
(* Blocks: the steps that leave all blocks alone.                             *)
LEMMA FileWriteStep ==
  ASSUME BlockInv, NEW p \in Callers, NEW i \in Inos, NEW n \in WriteSizes, FileWrite(p, i, n)
  PROVE  BlockInv'
<1>1. /\ where[p] = "user" /\ where' = [where EXCEPT ![p] = "chunk"]
      /\ ino' = [ino EXCEPT ![p] = i] /\ left' = [left EXCEPT ![p] = n] /\ n \in Nat
      /\ UNCHANGED <<bitmap, addrs, size, content, off, holder, tot, n1>>
  BY BlocksAssumption DEF FileWrite, Change
<1>2. \A j \in Inos : holder[j] # p BY <1>1, HoldsNone
<1>3. \A j \in Inos : Gone(j)' = Gone(j) /\ Reach(j)' = Reach(j)
  BY <1>1, <1>2, HolderIs DEF Gone, Reach, Grown, Pos, BlockInv, BlockTypes
<1>4. BlockTypes' BY <1>1 DEF BlockInv, BlockTypes
<1>5. InodeLocked' BY <1>1, <1>2 DEF BlockInv, BlockTypes, InodeLocked
<1>6. \A q \in Callers : InCall(q)' BY <1>1 DEF BlockInv, BlockTypes, InCall
<1>7. QED BY <1>1, <1>3, <1>4, <1>5, <1>6, NothingMoves DEF BlockInv

LEMMA FileReadStep ==
  ASSUME BlockInv, NEW p \in Callers, NEW i \in Inos, NEW n \in ReadSizes, FileRead(p, i, n)
  PROVE  BlockInv'
<1>1. /\ holder[i] = NoHolder /\ off[i] < size[i] /\ n \in Nat
      /\ off' = [off EXCEPT ![i] = Least(off[i] + n, size[i])]
      /\ UNCHANGED <<bitmap, addrs, size, content, holder, where, ino, left, tot, n1>>
  BY BlocksAssumption DEF FileRead, Change
<1>2. \A q \in Callers : where[q] = "writei" => ino[q] # i
  BY <1>1, HasInode
<1>3. Least(off[i] + n, size[i]) \in Nat
  <2>1. off[i] \in Nat /\ size[i] \in Nat BY BlockFacts DEF BlockInv, BlockTypes
  <2>2. QED BY <1>1, <2>1 DEF Least
<1>4. BlockTypes' BY <1>1, <1>3 DEF BlockInv, BlockTypes
<1>5. InodeLocked' BY <1>1 DEF BlockInv, InodeLocked
<1>6. \A q \in Callers : InCall(q)' BY <1>1, <1>2 DEF BlockInv, BlockTypes, InCall
<1>7. \A j \in Inos : Gone(j)' = Gone(j) BY <1>1 DEF Gone
<1>8. ASSUME NEW j \in Inos PROVE Reach(j)' = Reach(j)
  <2>1. CASE holder[j] = NoHolder BY <1>1, <2>1 DEF Reach
  <2>2. CASE holder[j] # NoHolder
    <3>1. PICK q \in Callers : q = holder[j] /\ ino[q] = j BY <2>2, HolderIs
    <3>2. j # i BY <1>1, <2>2
    <3>3. off'[j] = off[j] BY <1>1, <3>2 DEF BlockInv, BlockTypes
    <3>4. Grown(q)' = Grown(q) BY <1>1, <3>1, <3>3 DEF Grown, Pos
    <3>5. QED BY <1>1, <2>2, <3>1, <3>4 DEF Reach
  <2>3. QED BY <2>1, <2>2
<1>9. QED BY <1>1, <1>4, <1>5, <1>6, <1>7, <1>8, NothingMoves DEF BlockInv

LEMMA ReopenStep ==
  ASSUME BlockInv, NEW i \in Inos, Reopen(i)
  PROVE  BlockInv'
<1>1. /\ \A q \in Callers : ino[q] # i
      /\ off' = [off EXCEPT ![i] = 0]
      /\ UNCHANGED <<bitmap, addrs, size, content, holder, where, ino, left, tot, n1>>
  BY DEF Reopen, Change
<1>2. BlockTypes' BY <1>1 DEF BlockInv, BlockTypes
<1>3. InodeLocked' BY <1>1 DEF BlockInv, InodeLocked
<1>4. \A q \in Callers : InCall(q)' BY <1>1 DEF BlockInv, BlockTypes, InCall
<1>5. \A j \in Inos : Gone(j)' = Gone(j) BY <1>1 DEF Gone
<1>6. \A j \in Inos : Reach(j)' = Reach(j)
  BY <1>1, HolderIs DEF Reach, Grown, Pos, BlockInv, BlockTypes
<1>7. QED BY <1>1, <1>2, <1>3, <1>4, <1>5, <1>6, NothingMoves DEF BlockInv

LEMMA ChunkStep ==
  ASSUME BlockInv, NEW p \in Callers, Chunk(p)
  PROVE  BlockInv'
<1> DEFINE i == ino[p]
           n == Least(left[p], ChunkMax)
<1>1. i \in Inos /\ where[p] = "chunk" /\ tot[p] = 0 /\ holder[i] = NoHolder
  BY DEF Chunk, BlockInv, InCall
<1>2. n \in Nat BY BlockFacts DEF Least, BlockInv, BlockTypes
<1>3. UNCHANGED <<bitmap, addrs, size, content, off>> BY DEF Chunk
<1>4. \A j \in Inos : holder[j] # p BY <1>1, HoldsNone
<1>5. CASE Return(p) /\ UNCHANGED holder
  <2>1. /\ where' = [where EXCEPT ![p] = "user"] /\ ino' = [ino EXCEPT ![p] = NoHolder]
        /\ left' = [left EXCEPT ![p] = 0] /\ tot' = [tot EXCEPT ![p] = 0]
        /\ n1' = [n1 EXCEPT ![p] = 0] /\ holder' = holder
    BY <1>5 DEF Return, Change
  <2>2. \A j \in Inos : Gone(j)' = Gone(j) /\ Reach(j)' = Reach(j)
    BY <1>3, <1>4, <2>1, HolderIs DEF Gone, Reach, Grown, Pos, BlockInv, BlockTypes
  <2>3. BlockTypes' BY <1>3, <2>1 DEF BlockInv, BlockTypes
  <2>4. InodeLocked' BY <1>3, <1>4, <2>1 DEF BlockInv, BlockTypes, InodeLocked
  <2>5. \A q \in Callers : InCall(q)' BY <1>3, <2>1 DEF BlockInv, BlockTypes, InCall
  <2>6. QED BY <1>3, <2>2, <2>3, <2>4, <2>5, NothingMoves DEF BlockInv
<1>6. CASE /\ ~(off[i] > size[i] \/ off[i] + n > MAXFILE * BSIZE)
           /\ holder' = [holder EXCEPT ![i] = p] /\ where' = [where EXCEPT ![p] = "writei"]
           /\ n1' = [n1 EXCEPT ![p] = n] /\ UNCHANGED <<ino, left, tot>>
  <2>1. PICK m \in Nat : m = MAXFILE * BSIZE BY BlockFacts
  <2>2. off[i] \in Nat /\ size[i] \in 0 .. m BY <1>1, <2>1 DEF BlockInv, BlockTypes
  <2>3. off[i] <= size[i] /\ off[i] + n <= MAXFILE * BSIZE BY <1>2, <1>6, <2>1, <2>2
  <2>4. BlockTypes' BY <1>1, <1>2, <1>3, <1>6 DEF BlockInv, BlockTypes
  <2>5. InodeLocked' BY <1>1, <1>3, <1>4, <1>6, BlockFacts DEF BlockInv, BlockTypes, InodeLocked
  <2>6. ASSUME NEW q \in Callers PROVE InCall(q)'
    <3>1. CASE q = p BY <1>1, <1>2, <1>3, <1>6, <2>3, <3>1 DEF BlockInv, BlockTypes, InCall
    <3>2. CASE q # p BY <1>3, <1>6, <3>2 DEF BlockInv, BlockTypes, InCall
    <3>3. QED BY <3>1, <3>2
  <2>7. ASSUME NEW j \in Inos PROVE Gone(j)' = Gone(j) /\ Reach(j)' = Reach(j)
    <3>1. CASE j = i
      <4>1. holder'[j] = p /\ where'[p] = "writei" /\ p # NoHolder
        BY <1>1, <1>6, <3>1, BlockFacts DEF BlockInv, BlockTypes
      <4>2. Gone(j)' = 0 /\ Gone(j) = 0 BY <1>1, <3>1, <4>1 DEF Gone
      <4>3. Reach(j)' = Grown(p)' /\ Reach(j) = size[i] BY <1>1, <3>1, <4>1 DEF Reach
      <4>4. Pos(p)' = off[i] BY <1>1, <1>3, <1>6, <2>2 DEF Pos
      <4>5. Grown(p)' = size[i] BY <1>3, <1>6, <2>2, <2>3, <4>4 DEF Grown
      <4>6. QED BY <4>2, <4>3, <4>5
    <3>2. CASE j # i
      <4>1. holder'[j] = holder[j] /\ holder[j] # p BY <1>4, <1>6, <3>2 DEF BlockInv, BlockTypes
      <4>2. \A q \in Callers : q # p => where'[q] = where[q] /\ Grown(q)' = Grown(q)
        BY <1>3, <1>6 DEF Grown, Pos, BlockInv, BlockTypes
      <4>3. holder[j] # NoHolder => holder[j] \in Callers BY HolderIs
      <4>4. QED BY <1>3, <1>6, <4>1, <4>2, <4>3 DEF Gone, Reach
    <3>3. QED BY <3>1, <3>2
  <2>8. QED BY <1>3, <2>4, <2>5, <2>6, <2>7, NothingMoves DEF BlockInv
<1>7. QED BY <1>5, <1>6 DEF Chunk, Change

LEMMA TruncateStep ==
  ASSUME BlockInv, NEW p \in Callers, NEW i \in Inos, Truncate(p, i)
  PROVE  BlockInv'
<1>1. /\ where[p] = "user" /\ holder[i] = NoHolder /\ holder' = [holder EXCEPT ![i] = p]
      /\ ino' = [ino EXCEPT ![p] = i] /\ where' = [where EXCEPT ![p] = "itrunc"]
      /\ UNCHANGED <<bitmap, addrs, size, content, off, left, tot, n1>>
  BY DEF Truncate, Change
<1>2. tot[p] = 0 /\ 0 <= NINDIRECT BY <1>1, BlockFacts DEF BlockInv, InCall
<1>3. \A j \in Inos : holder[j] # p BY <1>1, HoldsNone
<1>4. BlockTypes' BY <1>1 DEF BlockInv, BlockTypes
<1>5. InodeLocked' BY <1>1, <1>3, BlockFacts DEF BlockInv, BlockTypes, InodeLocked
<1>6. \A q \in Callers : InCall(q)' BY <1>1, <1>2 DEF BlockInv, BlockTypes, InCall
<1>7. ASSUME NEW j \in Inos PROVE Gone(j)' = Gone(j) /\ (Reach(j)' = Reach(j) \/ Reach(j)' = 0)
  <2>1. CASE j = i
    <3>1. holder'[j] = p /\ where'[p] = "itrunc" /\ p # NoHolder /\ tot'[p] = 0
      BY <1>1, <1>2, <2>1, BlockFacts DEF BlockInv, BlockTypes
    <3>2. QED BY <1>1, <2>1, <3>1 DEF Gone, Reach
  <2>2. CASE j # i
    <3>1. holder'[j] = holder[j] /\ holder[j] # p BY <1>1, <1>3, <2>2 DEF BlockInv, BlockTypes
    <3>2. \A q \in Callers : q # p => where'[q] = where[q] /\ Grown(q)' = Grown(q)
      BY <1>1 DEF Grown, Pos, BlockInv, BlockTypes
    <3>3. holder[j] # NoHolder => holder[j] \in Callers BY HolderIs
    <3>4. QED BY <1>1, <3>1, <3>2, <3>3 DEF Gone, Reach
  <2>3. QED BY <2>1, <2>2
<1>8. QED BY <1>1, <1>4, <1>5, <1>6, <1>7, NothingMoves DEF BlockInv

LEMMA TruncatedStep ==
  ASSUME BlockInv, NEW p \in Callers, Truncated(p)
  PROVE  BlockInv'
<1> DEFINE i == ino[p]
<1>1. /\ where[p] = "itrunc" /\ addrs[i][NDIRECT] = 0
      /\ size' = [size EXCEPT ![i] = 0] /\ holder' = [holder EXCEPT ![i] = NoHolder]
      /\ where' = [where EXCEPT ![p] = "user"] /\ ino' = [ino EXCEPT ![p] = NoHolder]
      /\ left' = [left EXCEPT ![p] = 0] /\ tot' = [tot EXCEPT ![p] = 0]
      /\ n1' = [n1 EXCEPT ![p] = 0] /\ UNCHANGED <<bitmap, addrs, content, off>>
  BY DEF Truncated, Return, Change
<1>2. /\ i \in Inos /\ holder[i] = p
      /\ \A q \in Callers : where[q] \in {"writei", "itrunc"} /\ ino[q] = i => q = p
      /\ \A j \in Inos : j # i => holder[j] # p
  BY <1>1, HasInode
<1>3. 0 \in 0 .. MAXFILE * BSIZE
  <2>1. PICK m \in Nat : m = MAXFILE * BSIZE BY BlockFacts
  <2>2. QED BY <2>1
<1>4. BlockTypes' BY <1>1, <1>3 DEF BlockInv, BlockTypes
<1>5. InodeLocked'
  <2>1. SUFFICES ASSUME NEW j \in Inos, NEW q \in Callers
                 PROVE  holder'[j] = q <=> where'[q] \in {"writei", "itrunc"} /\ ino'[q] = j
    BY DEF InodeLocked
  <2>2. holder[j] = q <=> where[q] \in {"writei", "itrunc"} /\ ino[q] = j
    BY DEF BlockInv, InodeLocked
  <2>3. /\ where'[q] = IF q = p THEN "user" ELSE where[q]
        /\ ino'[q] = IF q = p THEN NoHolder ELSE ino[q]
        /\ holder'[j] = IF j = i THEN NoHolder ELSE holder[j]
    BY <1>1, <1>2 DEF BlockInv, BlockTypes
  <2>4. q # NoHolder BY BlockFacts
  <2>5. QED BY <1>2, <2>2, <2>3, <2>4
<1>6. ASSUME NEW q \in Callers PROVE InCall(q)'
  <2>1. CASE q = p BY <1>1, <2>1 DEF BlockInv, BlockTypes, InCall
  <2>2. CASE q # p BY <1>1, <1>2, <2>2 DEF BlockInv, BlockTypes, InCall
  <2>3. QED BY <2>1, <2>2
<1>7. ASSUME NEW j \in Inos
      PROVE  /\ Gone(j)' = Gone(j) \/ addrs[j][NDIRECT] = 0
             /\ Reach(j)' = Reach(j) \/ Reach(j)' = 0
  <2>1. CASE j = i
    <3>1. holder'[j] = NoHolder /\ size'[j] = 0 BY <1>1, <1>2, <2>1 DEF BlockInv, BlockTypes
    <3>2. QED BY <1>1, <2>1, <3>1 DEF Reach
  <2>2. CASE j # i
    <3>1. holder'[j] = holder[j] /\ holder[j] # p /\ size'[j] = size[j]
      BY <1>1, <1>2, <2>2 DEF BlockInv, BlockTypes
    <3>2. CASE holder[j] = NoHolder BY <3>1, <3>2 DEF Gone, Reach
    <3>3. CASE holder[j] # NoHolder
      <4>1. PICK q \in Callers : q = holder[j] /\ q # p /\ ino[q] = j BY <3>1, <3>3, HolderIs
      <4>2. where'[q] = where[q] /\ tot'[q] = tot[q] /\ ino'[q] = ino[q]
        BY <1>1, <4>1 DEF BlockInv, BlockTypes
      <4>3. Grown(q)' = Grown(q) BY <1>1, <3>1, <4>1, <4>2 DEF Grown, Pos
      <4>4. QED BY <3>1, <4>1, <4>2, <4>3 DEF Gone, Reach
    <3>4. QED BY <3>2, <3>3
  <2>3. QED BY <2>1, <2>2
<1>8. QED BY <1>1, <1>4, <1>5, <1>6, <1>7, NothingMoves DEF BlockInv

-----------------------------------------------------------------------------
(* Blocks: the steps that take numbers back.                                  *)
LEMMA WordsPut ==
  ASSUME BlockInv, NEW i \in Inos, NEW k \in Cells, NEW b \in Blocks, b \notin bitmap,
         Word(i, k) = 0, bitmap' = bitmap \cup {b},
         \A j \in Inos, l \in Cells : Word(j, l)' = IF j = i /\ l = k THEN b ELSE Word(j, l)
  PROVE  Exact(Numbers, bitmap)'
<1>1. \A j \in Inos, l \in Cells : Numbers'[j][l] = IF j = i /\ l = k THEN b ELSE Numbers[j][l]
  BY DEF Numbers
<1>2. Numbers[i][k] = 0 BY WordIs
<1>3. 0 \notin bitmap /\ b # 0 BY BlockFacts DEF BlockInv, BlockTypes
<1>4. Exact(Numbers, bitmap) BY DEF BlockInv
<1>5. Exact(Numbers', bitmap \cup {b}) BY <1>1, <1>2, <1>3, <1>4, ExactPut
<1>6. QED BY <1>5 DEF Exact

LEMMA WordsClear ==
  ASSUME BlockInv, NEW i \in Inos, NEW k \in Cells, bitmap' = bitmap \ {Word(i, k)},
         \A j \in Inos, l \in Cells : Word(j, l)' = IF j = i /\ l = k THEN 0 ELSE Word(j, l)
  PROVE  Exact(Numbers, bitmap)'
<1>1. \A j \in Inos, l \in Cells : Numbers'[j][l] = IF j = i /\ l = k THEN 0 ELSE Numbers[j][l]
  BY DEF Numbers
<1>2. Numbers[i][k] = Word(i, k) BY WordIs
<1>3. 0 \notin bitmap BY BlockFacts DEF BlockInv, BlockTypes
<1>4. Exact(Numbers, bitmap) BY DEF BlockInv
<1>5. Exact(Numbers', bitmap \ {Numbers[i][k]}) BY <1>1, <1>3, <1>4, ExactClear
<1>6. Exact(Numbers', bitmap') BY <1>2, <1>5
<1>7. QED BY <1>6 DEF Exact

LEMMA TruncatingStep ==
  ASSUME BlockInv, NEW p \in Callers, where[p] = "itrunc",
         UNCHANGED <<size, content, off, holder, where, ino, left, n1>>,
         \A j \in Inos : j # ino[p] => addrs'[j] = addrs[j],
         tot' = tot \/ (tot' = [tot EXCEPT ![p] = tot[p] + 1] /\ tot[p] < NINDIRECT),
         addrs' \in [Inos -> [0 .. NDIRECT -> Blocks \cup {0}]],
         addrs'[ino[p]][NDIRECT] \in {0, addrs[ino[p]][NDIRECT]}, bitmap' \subseteq bitmap
  PROVE  /\ BlockTypes' /\ InodeLocked' /\ (\A q \in Callers : InCall(q)')
         /\ (\A j \in Inos : ListsNumbers(j)') /\ FilledRight'
         /\ \A j \in Inos : j # ino[p] => Gone(j)' = Gone(j)
<1> DEFINE i == ino[p]
<1>1. /\ i \in Inos /\ holder[i] = p /\ p # NoHolder /\ tot[p] \in Nat
      /\ \A j \in Inos : j # i => holder[j] # p
  BY HasInode, BlockFacts DEF BlockInv, BlockTypes
<1>2. BlockTypes'
  <2>1. tot' \in [Callers -> Nat]
    <3>1. tot \in [Callers -> Nat] /\ tot[p] + 1 \in Nat BY <1>1 DEF BlockInv, BlockTypes
    <3>2. CASE tot' = tot BY <3>1, <3>2
    <3>3. CASE tot' = [tot EXCEPT ![p] = tot[p] + 1] BY <3>1, <3>3
    <3>4. QED BY <3>2, <3>3
  <2>2. bitmap' \subseteq Blocks BY DEF BlockInv, BlockTypes
  <2>3. QED BY <2>1, <2>2 DEF BlockInv, BlockTypes
<1>3. InodeLocked' BY DEF BlockInv, InodeLocked
<1>4. \A q \in Callers : InCall(q)'
  <2>1. tot'[p] <= NINDIRECT
    BY <1>1, BlockFacts DEF BlockInv, BlockTypes, InCall
  <2>2. \A q \in Callers : q # p => tot'[q] = tot[q] BY DEF BlockInv, BlockTypes
  <2>3. QED BY <2>1, <2>2 DEF BlockInv, InCall
<1>5. \A j \in Inos : ListsNumbers(j)'
  <2>1. \A j \in Inos : addrs'[j][NDIRECT] \in {0, addrs[j][NDIRECT]} OBVIOUS
  <2>2. QED BY <2>1 DEF BlockInv, ListsNumbers, InIndirect
<1>6. ASSUME NEW j \in Inos, j # i
      PROVE  Gone(j)' = Gone(j) /\ Reach(j)' = Reach(j) /\ addrs'[j] = addrs[j]
  <2>1. holder[j] # p BY <1>1, <1>6
  <2>2. \A q \in Callers : q # p => tot'[q] = tot[q] /\ Grown(q)' = Grown(q)
    BY DEF BlockInv, BlockTypes, Grown, Pos
  <2>3. holder[j] # NoHolder => holder[j] \in Callers BY HolderIs
  <2>4. QED BY <1>6, <2>1, <2>2, <2>3 DEF Gone, Reach
<1>7. ASSUME NEW j \in Inos PROVE IsFilled(j, Reach(j))'
  <2>1. CASE j = i
    <3>1. Reach(j)' = 0 BY <1>1, <2>1 DEF Reach
    <3>2. QED BY <3>1 DEF IsFilled
  <2>2. CASE j # i
    BY <1>6, <2>2 DEF BlockInv, FilledRight, IsFilled, Number
  <2>3. QED BY <2>1, <2>2
<1>8. QED BY <1>2, <1>3, <1>4, <1>5, <1>6, <1>7 DEF FilledRight

LEMMA FreeDirectStep ==
  ASSUME BlockInv, NEW p \in Callers, FreeDirect(p)
  PROVE  BlockInv'
<1> DEFINE i == ino[p]
<1>1. PICK k \in 0 .. NDIRECT - 1 :
        /\ where[p] = "itrunc" /\ bitmap' = bitmap \ {addrs[i][k]}
        /\ addrs' = [addrs EXCEPT ![i][k] = 0]
        /\ UNCHANGED <<size, content, off, holder, where, ino, left, tot, n1>>
  BY DEF FreeDirect, Direct, bfree
<1>2. i \in Inos /\ NDIRECT \in Nat /\ k \in 0 .. NDIRECT /\ k # NDIRECT
  BY <1>1, HasInode, BlockFacts
<1>3. /\ addrs' \in [Inos -> [0 .. NDIRECT -> Blocks \cup {0}]]
      /\ \A j \in Inos, l \in 0 .. NDIRECT : addrs'[j][l] = IF j = i /\ l = k THEN 0 ELSE addrs[j][l]
      /\ \A j \in Inos : j # i => addrs'[j] = addrs[j]
  BY <1>1, <1>2 DEF BlockInv, BlockTypes
<1>4. NDIRECT \in 0 .. NDIRECT /\ addrs'[i][NDIRECT] = addrs[i][NDIRECT] BY <1>2, <1>3
<1>5. /\ BlockTypes' /\ InodeLocked' /\ (\A q \in Callers : InCall(q)')
      /\ (\A j \in Inos : ListsNumbers(j)') /\ FilledRight'
  <2>1. tot' = tot \/ (tot' = [tot EXCEPT ![p] = tot[p] + 1] /\ tot[p] < NINDIRECT) BY <1>1
  <2>2. bitmap' \subseteq bitmap BY <1>1
  <2>3. addrs'[ino[p]][NDIRECT] \in {0, addrs[ino[p]][NDIRECT]} BY <1>4
  <2>4. UNCHANGED <<size, content, off, holder, where, ino, left, n1>> BY <1>1
  <2>5. where[p] = "itrunc" BY <1>1
  <2>6. /\ addrs' \in [Inos -> [0 .. NDIRECT -> Blocks \cup {0}]]
        /\ \A j \in Inos : j # ino[p] => addrs'[j] = addrs[j]
    BY <1>3
  <2>7. QED BY <2>1, <2>2, <2>3, <2>4, <2>5, <2>6, TruncatingStep
<1>6. \A j \in Inos : Gone(j)' = Gone(j) BY <1>1 DEF Gone
<1>7. k \in Cells /\ Word(i, k) = addrs[i][k] BY <1>2, BlockFacts DEF Cells, Word
<1>8. ASSUME NEW j \in Inos, NEW l \in Cells
      PROVE  Word(j, l)' = IF j = i /\ l = k THEN 0 ELSE Word(j, l)
  <2>1. CASE l <= NDIRECT
    <3>1. l \in 0 .. NDIRECT BY <2>1, BlockFacts DEF Cells
    <3>2. QED BY <1>3, <2>1, <3>1 DEF Word
  <2>2. CASE ~(l <= NDIRECT)
    <3>1. l # k /\ addrs'[j][NDIRECT] = addrs[j][NDIRECT] BY <1>2, <1>3, <1>4, <2>2
    <3>2. QED BY <1>1, <1>6, <2>2, <3>1 DEF Word, InIndirect
  <2>3. QED BY <2>1, <2>2
<1>9. Exact(Numbers, bitmap)' BY <1>1, <1>2, <1>7, <1>8, WordsClear
<1>10. QED BY <1>5, <1>9 DEF BlockInv

LEMMA FreeListedStep ==
  ASSUME BlockInv, NEW p \in Callers, FreeListed(p)
  PROVE  BlockInv'
<1> DEFINE i == ino[p]
           k == tot[p]
           w == NDIRECT + 1 + k
<1>1. /\ where[p] = "itrunc" /\ addrs[i][NDIRECT] # 0 /\ k < NINDIRECT
      /\ bitmap' = IF InIndirect(i)[k] # 0 THEN bitmap \ {InIndirect(i)[k]} ELSE bitmap
      /\ tot' = [tot EXCEPT ![p] = tot[p] + 1]
      /\ UNCHANGED <<addrs, size, content, off, holder, where, ino, left, n1>>
  BY DEF FreeListed, bfree
<1>2. /\ i \in Inos /\ holder[i] = p /\ p # NoHolder /\ Gone(i) = k /\ k \in Nat
      /\ k \in 0 .. NINDIRECT - 1
  BY <1>1, HasInode, BlockFacts DEF BlockInv, BlockTypes
<1>3. /\ BlockTypes' /\ InodeLocked' /\ (\A q \in Callers : InCall(q)')
      /\ (\A j \in Inos : ListsNumbers(j)') /\ FilledRight'
      /\ \A j \in Inos : j # ino[p] => Gone(j)' = Gone(j)
  <2>1. addrs' \in [Inos -> [0 .. NDIRECT -> Blocks \cup {0}]] BY <1>1 DEF BlockInv, BlockTypes
  <2>2. bitmap' \subseteq bitmap BY <1>1
  <2>3. QED BY <1>1, <2>1, <2>2, TruncatingStep
<1>4. Gone(i)' = k + 1 BY <1>1, <1>2 DEF Gone, BlockInv, BlockTypes
<1>5. w \in Cells /\ Numbers[i][w] = InIndirect(i)[k]
  BY <1>1, <1>2, ThisWord
<1>6. Word(i, w) = InIndirect(i)[k] BY <1>2, <1>5, WordIs
<1>7. bitmap' = bitmap \ {Word(i, w)}
  <2>1. 0 \notin bitmap BY BlockFacts DEF BlockInv, BlockTypes
  <2>2. QED BY <1>1, <1>6, <2>1
<1>8. ASSUME NEW j \in Inos, NEW l \in Cells
      PROVE  Word(j, l)' = IF j = i /\ l = w THEN 0 ELSE Word(j, l)
  <2>1. CASE j # i BY <1>1, <1>3, <2>1 DEF Word, InIndirect
  <2>2. CASE j = i /\ l <= NDIRECT
    <3>1. l # w BY <1>2, <2>2, BlockFacts DEF Cells
    <3>2. QED BY <1>1, <2>2, <3>1 DEF Word
  <2>3. CASE j = i /\ ~(l <= NDIRECT)
    <3>1. PICK m \in Nat : l = NDIRECT + 1 + m /\ l - NDIRECT - 1 = m BY <2>3, BlockFacts DEF Cells
    <3>2. Word(j, l) = IF m < k THEN 0 ELSE InIndirect(i)[m]
      BY <1>1, <1>2, <2>3, <3>1 DEF Word
    <3>3. Word(j, l)' = IF m < k + 1 THEN 0 ELSE InIndirect(i)[m]
      BY <1>1, <1>4, <2>3, <3>1 DEF Word, InIndirect
    <3>4. l = w <=> m = k
      <4>1. NDIRECT \in Nat /\ k \in Nat /\ m \in Nat BY <1>2, BlockFacts
      <4>2. QED BY <3>1, <4>1
    <3>5. m < k + 1 <=> m < k \/ m = k BY <1>2
    <3>6. QED BY <2>3, <3>2, <3>3, <3>4, <3>5
  <2>4. QED BY <2>1, <2>2, <2>3
<1>9. Exact(Numbers, bitmap)' BY <1>2, <1>5, <1>7, <1>8, WordsClear
<1>10. QED BY <1>3, <1>9 DEF BlockInv

LEMMA FreeIndirectStep ==
  ASSUME BlockInv, NEW p \in Callers, FreeIndirect(p)
  PROVE  BlockInv'
<1> DEFINE i == ino[p]
<1>1. /\ where[p] = "itrunc" /\ addrs[i][NDIRECT] # 0 /\ tot[p] = NINDIRECT
      /\ bitmap' = bitmap \ {addrs[i][NDIRECT]} /\ addrs' = [addrs EXCEPT ![i][NDIRECT] = 0]
      /\ UNCHANGED <<size, content, off, holder, where, ino, left, tot, n1>>
  BY DEF FreeIndirect, bfree, NoIndirect
<1>2. i \in Inos /\ Gone(i) = NINDIRECT /\ NDIRECT \in 0 .. NDIRECT
  BY <1>1, HasInode, BlockFacts
<1>3. /\ addrs' \in [Inos -> [0 .. NDIRECT -> Blocks \cup {0}]]
      /\ \A j \in Inos, l \in 0 .. NDIRECT :
           addrs'[j][l] = IF j = i /\ l = NDIRECT THEN 0 ELSE addrs[j][l]
      /\ \A j \in Inos : j # i => addrs'[j] = addrs[j]
  BY <1>1, <1>2 DEF BlockInv, BlockTypes
<1>4. addrs'[i][NDIRECT] = 0 BY <1>2, <1>3
<1>5. /\ BlockTypes' /\ InodeLocked' /\ (\A q \in Callers : InCall(q)')
      /\ (\A j \in Inos : ListsNumbers(j)') /\ FilledRight'
  <2>1. tot' = tot \/ (tot' = [tot EXCEPT ![p] = tot[p] + 1] /\ tot[p] < NINDIRECT) BY <1>1
  <2>2. bitmap' \subseteq bitmap BY <1>1
  <2>3. addrs'[ino[p]][NDIRECT] \in {0, addrs[ino[p]][NDIRECT]} BY <1>4
  <2>4. UNCHANGED <<size, content, off, holder, where, ino, left, n1>> BY <1>1
  <2>5. where[p] = "itrunc" BY <1>1
  <2>6. /\ addrs' \in [Inos -> [0 .. NDIRECT -> Blocks \cup {0}]]
        /\ \A j \in Inos : j # ino[p] => addrs'[j] = addrs[j]
    BY <1>3
  <2>7. QED BY <2>1, <2>2, <2>3, <2>4, <2>5, <2>6, TruncatingStep
<1>6. \A j \in Inos : Gone(j)' = Gone(j) BY <1>1 DEF Gone
<1>7. NDIRECT \in Cells /\ Word(i, NDIRECT) = addrs[i][NDIRECT] BY BlockFacts DEF Cells, Word
<1>8. ASSUME NEW j \in Inos, NEW l \in Cells
      PROVE  Word(j, l)' = IF j = i /\ l = NDIRECT THEN 0 ELSE Word(j, l)
  <2>1. CASE l <= NDIRECT
    <3>1. l \in 0 .. NDIRECT BY <2>1, BlockFacts DEF Cells
    <3>2. QED BY <1>3, <2>1, <3>1 DEF Word
  <2>2. CASE ~(l <= NDIRECT) /\ j # i BY <1>1, <1>3, <1>6, <2>2 DEF Word, InIndirect
  <2>3. CASE ~(l <= NDIRECT) /\ j = i
    <3>1. l - NDIRECT - 1 < NINDIRECT /\ l # NDIRECT BY <2>3, BlockFacts DEF Cells
    <3>2. QED BY <1>2, <1>4, <2>3, <3>1 DEF Word
  <2>4. QED BY <2>1, <2>2, <2>3
<1>9. Exact(Numbers, bitmap)' BY <1>1, <1>2, <1>7, <1>8, WordsClear
<1>10. QED BY <1>5, <1>9 DEF BlockInv

-----------------------------------------------------------------------------
(* Blocks: the steps of writei() that write into blocks that are there.       *)
Contents  == [Blocks -> [Units -> Blocks \cup {0} \cup Inos]]
FilesKept ==
  /\ content' \in Contents
  /\ \A j \in Inos : addrs[j][NDIRECT] # 0 => content'[addrs[j][NDIRECT]] = content[addrs[j][NDIRECT]]
  /\ \A j \in Inos : Gone(j) = 0 => \A m \in 0 .. MAXFILE - 1 : Number(j, m) # 0 =>
       /\ Number(j, m)' = Number(j, m)
       /\ \A k \in Units : content[Number(j, m)][k] = j => content'[Number(j, m)][k] = j

LEMMA NextBlock ==
  ASSUME BlockInv, NEW p \in Callers, where[p] = "writei", tot[p] < n1[p],
         NEW i \in Inos, i = ino[p], NEW n \in Int, n = Pos(p) \div BSIZE
  PROVE  /\ n \in 0 .. MAXFILE - 1 /\ CellOf(n) \in Cells /\ CellOf(n) # NDIRECT
         /\ Number(i, n) = Numbers[i][CellOf(n)] /\ Number(i, n) \in bitmap \cup {0}
         /\ n >= NDIRECT => n - NDIRECT \in 0 .. NINDIRECT - 1 /\ n - NDIRECT \in Units
<1>1. n \in 0 .. MAXFILE - 1 BY WriteFacts
<1>2. Gone(i) = 0 BY HasInode
<1>3. /\ CellOf(n) \in Cells /\ CellOf(n) # NDIRECT /\ Number(i, n) = Numbers[i][CellOf(n)]
      /\ n >= NDIRECT => n - NDIRECT \in 0 .. NINDIRECT - 1
  BY <1>1, <1>2, NumberIs
<1>4. Numbers[i][CellOf(n)] \in bitmap \cup {0} BY <1>3 DEF BlockInv, Exact
<1>5. 0 .. NINDIRECT - 1 \subseteq Units BY BlockFacts DEF Units
<1>6. QED BY <1>1, <1>3, <1>4, <1>5

(* A block of data is no indirect block, and in no other file.                *)
LEMMA FilledKeeps ==
  ASSUME BlockInv, NEW p \in Callers, where[p] = "writei", tot[p] < n1[p], addrs' = addrs,
         NEW i \in Inos, i = ino[p], NEW n \in Int, n = Pos(p) \div BSIZE,
         NEW b, b = Number(i, n), b # 0, NEW o \in Nat, NEW k \in Nat, content' = Filled(b, o, k, i)
  PROVE  /\ b \in Blocks /\ FilesKept
         /\ content'[b] = [x \in Units |-> IF x \in o .. o + k - 1 THEN i ELSE content[b][x]]
<1>1. /\ n \in 0 .. MAXFILE - 1 /\ CellOf(n) \in Cells /\ CellOf(n) # NDIRECT
      /\ b = Numbers[i][CellOf(n)] /\ b \in bitmap /\ b \in Blocks
  BY NextBlock DEF BlockInv, BlockTypes
<1>2. content \in Contents /\ DOMAIN content[b] = Units
  BY <1>1 DEF BlockInv, BlockTypes, Contents
<1>3. /\ content' \in Contents
      /\ \A x \in Blocks : x # b => content'[x] = content[x]
      /\ content'[b] = [x \in Units |-> IF x \in o .. o + k - 1 THEN i ELSE content[b][x]]
  BY <1>1, <1>2 DEF Filled, Contents
<1>4. ASSUME NEW j \in Inos, NEW c \in Cells, Numbers[j][c] = b PROVE j = i /\ c = CellOf(n)
  BY <1>1, <1>4 DEF BlockInv, Exact
<1>5. ASSUME NEW j \in Inos, addrs[j][NDIRECT] # 0
      PROVE  content'[addrs[j][NDIRECT]] = content[addrs[j][NDIRECT]]
  <2>1. NDIRECT \in Cells /\ NDIRECT \in 0 .. NDIRECT /\ Numbers[j][NDIRECT] = addrs[j][NDIRECT]
    BY ThisWord, BlockFacts
  <2>2. addrs[j][NDIRECT] \in Blocks /\ addrs[j][NDIRECT] # b
    BY <1>1, <1>4, <1>5, <2>1 DEF BlockInv, BlockTypes
  <2>3. QED BY <1>3, <2>2
<1>6. ASSUME NEW j \in Inos, Gone(j) = 0, NEW m \in 0 .. MAXFILE - 1, Number(j, m) # 0
      PROVE  /\ Number(j, m)' = Number(j, m)
             /\ \A x \in Units : content[Number(j, m)][x] = j => content'[Number(j, m)][x] = j
  <2>1. Number(j, m)' = Number(j, m) BY <1>5, <1>6 DEF Number
  <2>2. CellOf(m) \in Cells /\ Number(j, m) = Numbers[j][CellOf(m)] BY <1>6, NumberIs
  <2>3. Number(j, m) \in Blocks BY <1>6, <2>2 DEF BlockInv, Exact, BlockTypes
  <2>4. CASE Number(j, m) = b
    <3>1. j = i BY <1>4, <2>2, <2>4
    <3>2. QED BY <1>3, <2>1, <2>4, <3>1
  <2>5. CASE Number(j, m) # b BY <1>3, <2>1, <2>3, <2>5
  <2>6. QED BY <2>4, <2>5
<1>7. QED BY <1>1, <1>3, <1>5, <1>6 DEF FilesKept

LEMMA KeptStep ==
  ASSUME BlockInv, FilesKept, bitmap' = bitmap, addrs' = addrs,
         \A j \in Inos : Gone(j)' = Gone(j)
  PROVE  /\ (\A j \in Inos : ListsNumbers(j)') /\ Exact(Numbers, bitmap)'
         /\ \A j \in Inos : Gone(j) = 0 => \A n \in 0 .. Reach(j) : IsFilled(j, n)'
<1>1. \A j \in Inos : ListsNumbers(j)' BY DEF FilesKept, BlockInv, ListsNumbers, InIndirect
<1>2. \A j \in Inos, k \in Cells : Word(j, k)' = Word(j, k) BY WordKept DEF FilesKept
<1>3. Exact(Numbers, bitmap)' BY <1>2, ExactKept
<1>4. ASSUME NEW j \in Inos, Gone(j) = 0, NEW n \in 0 .. Reach(j) PROVE IsFilled(j, n)'
  BY <1>4, FilledKept DEF FilesKept
<1>5. QED BY <1>1, <1>3, <1>4

(* Who truncates a file has none of it to show.                               *)
LEMMA GoneOrNot ==
  ASSUME BlockInv, NEW j \in Inos PROVE Gone(j) = 0 \/ Reach(j) = 0
BY HolderIs DEF Gone, Reach

LEMMA ReachNat ==
  ASSUME BlockInv, NEW j \in Inos PROVE Reach(j) \in Nat
<1>1. PICK m \in Nat : m = MAXFILE * BSIZE BY BlockFacts
<1>2. size[j] \in Nat BY <1>1 DEF BlockInv, BlockTypes
<1>3. CASE holder[j] = NoHolder BY <1>2, <1>3 DEF Reach
<1>4. CASE holder[j] # NoHolder
  <2>1. PICK p \in Callers : holder[j] = p /\ where[p] \in {"writei", "itrunc"} BY <1>4, HolderIs
  <2>2. CASE where[p] = "itrunc" BY <1>4, <2>1, <2>2 DEF Reach
  <2>3. CASE where[p] = "writei"
    <3>1. Grown(p) \in Nat BY <1>1, <2>3, WriteFacts
    <3>2. QED BY <1>4, <2>1, <2>3, <3>1 DEF Reach
  <2>4. QED BY <2>1, <2>2, <2>3
<1>5. QED BY <1>3, <1>4

LEMMA CopyStep ==
  ASSUME BlockInv, NEW p \in Callers, Copy(p)
  PROVE  BlockInv'
<1>1. /\ where[p] = "writei" /\ tot[p] < n1[p]
      /\ UNCHANGED <<bitmap, addrs, size, off, holder, where, ino, left, n1>>
  BY DEF Copy
<1>2. PICK i \in Inos :
        /\ i = ino[p] /\ holder[i] = p /\ p # NoHolder /\ Gone(i) = 0 /\ Reach(i) = Grown(p)
        /\ \A q \in Callers : where[q] \in {"writei", "itrunc"} /\ ino[q] = i => q = p
        /\ \A j \in Inos : j # i => holder[j] # p
  BY <1>1, HasInode, BlockFacts
<1>3. PICK z \in Nat, n \in 0 .. MAXFILE - 1, o \in Units, s \in Nat :
        /\ z = Pos(p) /\ n = z \div BSIZE /\ o = z % BSIZE /\ s = size[i]
        /\ tot[p] \in Nat /\ n1[p] \in Nat /\ Grown(p) \in Nat /\ off[i] \in Nat
        /\ z = off[i] + tot[p] /\ z <= Grown(p) /\ s <= Grown(p)
  <2>1. PICK x \in Nat : x = MAXFILE * BSIZE BY BlockFacts
  <2>2. size[i] \in Nat /\ off[i] \in Nat BY <1>2, <2>1 DEF BlockInv, BlockTypes
  <2>3. Pos(p) \in 0 .. x /\ Grown(p) \in 0 .. x BY <1>1, <2>1, WriteFacts
  <2>4. Pos(p) \in Nat /\ Grown(p) \in Nat BY <2>1, <2>3
  <2>5. /\ Pos(p) \div BSIZE \in 0 .. MAXFILE - 1 /\ Pos(p) % BSIZE \in Units
        /\ tot[p] \in Nat /\ n1[p] \in Nat /\ Pos(p) = off[i] + tot[p]
        /\ Pos(p) <= Grown(p) /\ size[i] <= Grown(p)
    BY <1>1, <1>2, WriteFacts
  <2>6. QED BY <2>2, <2>4, <2>5
<1>4. PICK m \in Nat :
        /\ m = Least(n1[p] - tot[p], BSIZE - o) /\ o + m <= BSIZE /\ tot[p] + m <= n1[p]
  <2>1. /\ BSIZE \in Nat /\ o \in 0 .. BSIZE - 1 /\ n1[p] - tot[p] \in Nat
        /\ n1[p] \in Nat /\ tot[p] \in Nat
    BY <1>1, <1>3, BlockFacts DEF Units
  <2>2. PICK m \in Int : m = IF n1[p] - tot[p] <= BSIZE - o THEN n1[p] - tot[p] ELSE BSIZE - o
    BY <1>3, <2>1
  <2>3. m \in Nat /\ o + m <= BSIZE /\ tot[p] + m <= n1[p] BY <2>1, <2>2
  <2>4. QED BY <2>2, <2>3 DEF Least
<1>a. PICK b : /\ b = Number(i, n) /\ b # 0 /\ content' = Filled(b, o, m, i)
               /\ tot' = [tot EXCEPT ![p] = tot[p] + m]
  BY <1>2, <1>3, <1>4 DEF Copy
<1>5. /\ b \in Blocks /\ FilesKept
      /\ content'[b] = [x \in Units |-> IF x \in o .. o + m - 1 THEN i ELSE content[b][x]]
  <2>1. n \in Int /\ o \in Nat /\ n = Pos(p) \div BSIZE BY <1>3, BlockFacts DEF Units
  <2>2. addrs' = addrs BY <1>1
  <2>3. QED BY <1>1, <1>2, <1>4, <1>a, <2>1, <2>2, FilledKeeps
<1>6. BlockTypes'
  <2>1. content' \in [Blocks -> [Units -> Blocks \cup {0} \cup Inos]] BY <1>5 DEF FilesKept, Contents
  <2>2. tot' \in [Callers -> Nat] BY <1>a, <1>3, <1>4 DEF BlockInv, BlockTypes
  <2>3. QED BY <1>1, <2>1, <2>2 DEF BlockInv, BlockTypes
<1>7. InodeLocked' BY <1>1 DEF BlockInv, InodeLocked
<1>8. ASSUME NEW q \in Callers PROVE InCall(q)'
  <2>1. tot'[p] = tot[p] + m BY <1>a DEF BlockInv, BlockTypes
  <2>2. CASE q = p BY <1>1, <1>4, <2>1, <2>2 DEF BlockInv, InCall
  <2>3. CASE q # p
    <3>1. tot'[q] = tot[q] BY <1>a, <2>3 DEF BlockInv, BlockTypes
    <3>2. QED BY <1>1, <3>1 DEF BlockInv, InCall
  <2>4. QED BY <2>2, <2>3
<1>9. ASSUME NEW j \in Inos PROVE Gone(j)' = Gone(j) /\ (j # i => Reach(j)' = Reach(j))
  <2>1. CASE j = i BY <1>1, <1>2, <2>1 DEF Gone
  <2>2. CASE j # i
    <3>1. \A q \in Callers : q # p => tot'[q] = tot[q] /\ Grown(q)' = Grown(q)
      BY <1>1, <1>a DEF BlockInv, BlockTypes, Grown, Pos
    <3>2. holder[j] # NoHolder => holder[j] \in Callers /\ holder[j] # p BY <1>2, <2>2, HolderIs
    <3>3. QED BY <1>1, <2>2, <3>1, <3>2 DEF Gone, Reach
  <2>3. QED BY <2>1, <2>2
<1>10. /\ (\A j \in Inos : ListsNumbers(j)') /\ Exact(Numbers, bitmap)'
       /\ \A j \in Inos : Gone(j) = 0 => \A g \in 0 .. Reach(j) : IsFilled(j, g)'
  BY <1>1, <1>5, <1>9, KeptStep
<1>11. IsFilled(i, Reach(i))'
  <2>1. Reach(i)' = Grown(p)' BY <1>1, <1>2 DEF Reach
  <2>2. Pos(p)' = z + m
    <3>1. tot'[p] = tot[p] + m BY <1>a DEF BlockInv, BlockTypes
    <3>2. QED BY <1>1, <1>2, <1>3, <1>4, <3>1 DEF Pos
  <2>3. Reach(i)' = IF z + m > s THEN z + m ELSE s
    BY <1>1, <1>2, <1>3, <2>1, <2>2 DEF Grown
  <2>4. PICK g \in Nat : g = Grown(p) BY <1>3
  <2>5. g \in 0 .. Reach(i) BY <1>2, <2>4
  <2>6. \A u \in 0 .. g - 1 : /\ Number(i, u \div BSIZE)' # 0
                              /\ content'[Number(i, u \div BSIZE)'][u % BSIZE] = i
    <3>1. IsFilled(i, g)' BY <1>2, <1>10, <2>5
    <3>2. QED BY <3>1 DEF IsFilled
  <2>7. PICK t \in Nat : t = Reach(i)' BY <1>3, <1>4, <2>3
  <2>8. SUFFICES ASSUME NEW u \in 0 .. t - 1
                 PROVE  /\ Number(i, u \div BSIZE)' # 0
                        /\ content'[Number(i, u \div BSIZE)'][u % BSIZE] = i
    BY <2>7 DEF IsFilled
  <2>9. CASE u < g BY <2>4, <2>6, <2>9
  <2>10. CASE u >= g
    <3>1. PICK w \in Nat : u = z + w /\ w < m
      <4>1. u >= z /\ u < z + m BY <1>3, <1>4, <2>3, <2>4, <2>7, <2>10
      <4>2. u - z \in Nat BY <1>3, <4>1
      <4>3. QED BY <1>3, <1>4, <4>1, <4>2
    <3>2. o + w < BSIZE
      <4>1. BSIZE \in Nat /\ o \in Nat /\ o + m <= BSIZE BY <1>4, BlockFacts DEF Units
      <4>2. QED BY <3>1, <4>1
    <3>3. u \div BSIZE = n /\ u % BSIZE = o + w BY <1>3, <3>1, <3>2, DivNext, BlockFacts
    <3>4. Number(i, n)' = b BY <1>a, <1>2, <1>3, <1>5 DEF FilesKept
    <3>5. o + w \in Units /\ o + w \in o .. o + m - 1 BY <1>4, <3>1, <3>2, BlockFacts DEF Units
    <3>6. content'[b][o + w] = i BY <1>5, <3>5
    <3>7. QED BY <1>a, <3>3, <3>4, <3>6
  <2>11. QED BY <2>4, <2>9, <2>10
<1>12. ASSUME NEW j \in Inos PROVE IsFilled(j, Reach(j))'
  <2>1. CASE j = i BY <1>11, <2>1
  <2>2. CASE j # i /\ Gone(j) = 0
    <3>1. PICK g \in Nat : g = Reach(j) BY ReachNat
    <3>2. IsFilled(j, g)' /\ Reach(j)' = g BY <1>9, <1>10, <2>2, <3>1
    <3>3. QED BY <3>2 DEF IsFilled
  <2>3. CASE j # i /\ Gone(j) # 0
    <3>1. Reach(j)' = 0 BY <1>9, <2>3, GoneOrNot
    <3>2. QED BY <3>1 DEF IsFilled
  <2>4. QED BY <2>1, <2>2, <2>3
<1>13. QED BY <1>6, <1>7, <1>8, <1>10, <1>12 DEF BlockInv, FilledRight

LEMMA WroteStep ==
  ASSUME BlockInv, NEW p \in Callers, where[p] = "writei", FilesKept, Wrote(p)
  PROVE  BlockInv'
<1>1. PICK i \in Inos :
        /\ i = ino[p] /\ holder[i] = p /\ p # NoHolder /\ Gone(i) = 0 /\ Reach(i) = Grown(p)
        /\ \A q \in Callers : where[q] \in {"writei", "itrunc"} /\ ino[q] = i => q = p
        /\ \A j \in Inos : j # i => holder[j] # p
  BY HasInode, BlockFacts
<1>2. PICK s \in 0 .. MAXFILE * BSIZE, z \in Nat : s = Grown(p) /\ z = Pos(p)
  <2>1. PICK x \in Nat : x = MAXFILE * BSIZE BY BlockFacts
  <2>2. Pos(p) \in 0 .. x BY <2>1, WriteFacts
  <2>3. Pos(p) \in Nat BY <2>2
  <2>4. QED BY <2>3, WriteFacts
<1>3. /\ size' = [size EXCEPT ![i] = s] /\ off' = [off EXCEPT ![i] = z]
      /\ holder' = [holder EXCEPT ![i] = NoHolder] /\ bitmap' = bitmap /\ addrs' = addrs
  BY <1>1, <1>2 DEF Wrote, Change
<1>4. PICK l \in Nat, g \in {"chunk", "user"}, f \in Inos \cup {NoHolder} :
        /\ where' = [where EXCEPT ![p] = g] /\ left' = [left EXCEPT ![p] = l]
        /\ tot' = [tot EXCEPT ![p] = 0] /\ n1' = [n1 EXCEPT ![p] = 0]
        /\ ino' = [ino EXCEPT ![p] = f] /\ (g # "user" => f = i)
  <2>1. CASE tot[p] = n1[p] /\ left[p] > n1[p]
    <3>1. left[p] - n1[p] \in Nat BY <2>1 DEF BlockInv, BlockTypes
    <3>2. ino' = [ino EXCEPT ![p] = i] BY <1>1, <2>1 DEF Wrote, BlockInv, BlockTypes
    <3>3. /\ where' = [where EXCEPT ![p] = "chunk"] /\ left' = [left EXCEPT ![p] = left[p] - n1[p]]
          /\ tot' = [tot EXCEPT ![p] = 0] /\ n1' = [n1 EXCEPT ![p] = 0]
      BY <2>1 DEF Wrote, Change
    <3>4. QED BY <3>1, <3>2, <3>3
  <2>2. CASE ~(tot[p] = n1[p] /\ left[p] > n1[p])
    <3>1. /\ where' = [where EXCEPT ![p] = "user"] /\ left' = [left EXCEPT ![p] = 0]
          /\ tot' = [tot EXCEPT ![p] = 0] /\ n1' = [n1 EXCEPT ![p] = 0]
          /\ ino' = [ino EXCEPT ![p] = NoHolder]
      BY <2>2 DEF Wrote, Return, Change
    <3>2. QED BY <3>1
  <2>3. QED BY <2>1, <2>2
<1>5. BlockTypes'
  <2>1. content' \in [Blocks -> [Units -> Blocks \cup {0} \cup Inos]] BY DEF FilesKept, Contents
  <2>2. size' \in [Inos -> 0 .. MAXFILE * BSIZE] BY <1>2, <1>3 DEF BlockInv, BlockTypes
  <2>3. /\ off' \in [Inos -> Nat] /\ holder' \in [Inos -> Callers \cup {NoHolder}]
        /\ bitmap' \subseteq Blocks /\ addrs' \in [Inos -> [0 .. NDIRECT -> Blocks \cup {0}]]
    BY <1>2, <1>3 DEF BlockInv, BlockTypes
  <2>4. /\ ino' \in [Callers -> Inos \cup {NoHolder}] /\ left' \in [Callers -> Nat]
        /\ where' \in [Callers -> {"user", "chunk", "writei", "itrunc"}]
        /\ tot' \in [Callers -> Nat] /\ n1' \in [Callers -> Nat]
    BY <1>4 DEF BlockInv, BlockTypes
  <2>5. QED BY <2>1, <2>2, <2>3, <2>4 DEF BlockTypes
<1>6. where'[p] = g /\ g \notin {"writei", "itrunc"} /\ tot'[p] = 0 /\ ino'[p] = f
  BY <1>4 DEF BlockInv, BlockTypes
<1>7. ASSUME NEW q \in Callers, q # p
      PROVE  /\ where'[q] = where[q] /\ tot'[q] = tot[q] /\ n1'[q] = n1[q] /\ ino'[q] = ino[q]
  BY <1>4, <1>7 DEF BlockInv, BlockTypes
<1>8. ASSUME NEW j \in Inos, j # i
      PROVE  holder'[j] = holder[j] /\ size'[j] = size[j] /\ off'[j] = off[j]
  BY <1>3, <1>8 DEF BlockInv, BlockTypes
<1>9. holder'[i] = NoHolder /\ size'[i] = s BY <1>3 DEF BlockInv, BlockTypes
<1>10. InodeLocked'
  <2>1. SUFFICES ASSUME NEW j \in Inos, NEW q \in Callers
                 PROVE  holder'[j] = q <=> where'[q] \in {"writei", "itrunc"} /\ ino'[q] = j
    BY DEF InodeLocked
  <2>2. holder[j] = q <=> where[q] \in {"writei", "itrunc"} /\ ino[q] = j
    BY DEF BlockInv, InodeLocked
  <2>3. CASE q = p BY <1>1, <1>6, <1>8, <1>9, <2>3
  <2>4. CASE q # p
    <3>1. q # NoHolder BY BlockFacts
    <3>2. QED BY <1>1, <1>7, <1>8, <1>9, <2>2, <2>4, <3>1
  <2>5. QED BY <2>3, <2>4
<1>11. ASSUME NEW q \in Callers PROVE InCall(q)'
  <2>1. CASE q = p BY <1>4, <1>6, <2>1 DEF InCall
  <2>2. CASE q # p
    <3>1. where[q] = "writei" => ino[q] # i /\ ino[q] \in Inos
      BY <1>1, <2>2 DEF BlockInv, InCall
    <3>2. where[q] = "writei" => off'[ino[q]] = off[ino[q]] /\ size'[ino[q]] = size[ino[q]]
      BY <1>8, <3>1
    <3>3. QED BY <1>7, <2>2, <3>2 DEF BlockInv, InCall
  <2>3. QED BY <2>1, <2>2
<1>12. ASSUME NEW j \in Inos PROVE Gone(j)' = Gone(j) /\ Reach(j)' = Reach(j)
  <2>1. CASE j = i BY <1>1, <1>2, <1>9, <2>1 DEF Gone, Reach
  <2>2. CASE j # i /\ holder[j] = NoHolder BY <1>8, <2>2 DEF Gone, Reach
  <2>3. CASE j # i /\ holder[j] # NoHolder
    <3>1. PICK q \in Callers : q = holder[j] /\ q # p /\ ino[q] = j BY <1>1, <2>3, HolderIs
    <3>2. where'[q] = where[q] /\ tot'[q] = tot[q] /\ ino'[q] = j BY <1>7, <3>1
    <3>3. size'[j] = size[j] /\ off'[j] = off[j] /\ holder'[j] = q BY <1>8, <2>3, <3>1
    <3>4. Grown(q)' = Grown(q) BY <3>1, <3>2, <3>3 DEF Grown, Pos
    <3>5. QED BY <2>3, <3>1, <3>2, <3>3, <3>4 DEF Gone, Reach
  <2>4. QED BY <2>1, <2>2, <2>3
<1>13. /\ (\A j \in Inos : ListsNumbers(j)') /\ Exact(Numbers, bitmap)'
       /\ \A j \in Inos : Gone(j) = 0 => \A n \in 0 .. Reach(j) : IsFilled(j, n)'
  BY <1>3, <1>12, KeptStep
<1>14. ASSUME NEW j \in Inos PROVE IsFilled(j, Reach(j))'
  <2>1. CASE Gone(j) = 0
    <3>1. PICK n \in Nat : n = Reach(j) BY ReachNat
    <3>2. IsFilled(j, n)' /\ Reach(j)' = n BY <1>12, <1>13, <2>1, <3>1
    <3>3. QED BY <3>2 DEF IsFilled
  <2>2. CASE Gone(j) # 0
    <3>1. Reach(j)' = 0 BY <1>12, <2>2, GoneOrNot
    <3>2. QED BY <3>1 DEF IsFilled
  <2>3. QED BY <2>1, <2>2
<1>15. QED BY <1>5, <1>10, <1>11, <1>13, <1>14 DEF BlockInv, FilledRight

LEMMA WrittenStep ==
  ASSUME BlockInv, NEW p \in Callers, Written(p)
  PROVE  BlockInv'
<1>1. where[p] = "writei" /\ Wrote(p) /\ content' = content /\ addrs' = addrs
  BY DEF Written, Wrote
<1>2. FilesKept
  BY <1>1 DEF FilesKept, Contents, Number, BlockInv, BlockTypes
<1>3. QED BY <1>1, <1>2, WroteStep

LEMMA BadAddressStep ==
  ASSUME BlockInv, NEW p \in Callers, BadAddress(p)
  PROVE  BlockInv'
<1>1. where[p] = "writei" /\ tot[p] < n1[p] /\ Wrote(p) /\ addrs' = addrs
  BY DEF BadAddress, Wrote
<1>2. PICK i \in Inos : i = ino[p] BY <1>1, HasInode
<1>3. PICK n \in Int, o \in Nat, g \in Nat :
        n = Pos(p) \div BSIZE /\ o = Pos(p) % BSIZE /\ g = n1[p] - tot[p]
  <2>1. Pos(p) \div BSIZE \in 0 .. MAXFILE - 1 /\ Pos(p) % BSIZE \in Units BY <1>1, WriteFacts
  <2>2. n1[p] - tot[p] \in Nat BY <1>1 DEF BlockInv, BlockTypes
  <2>3. QED BY <2>1, <2>2, BlockFacts DEF Units
<1>4. PICK k \in Nat : content' = Filled(Number(i, n), o, k, i) /\ Number(i, n) # 0
  BY <1>2, <1>3 DEF BadAddress
<1>5. FilesKept BY <1>1, <1>2, <1>3, <1>4, FilledKeeps
<1>6. QED BY <1>1, <1>5, WroteStep

-----------------------------------------------------------------------------
(* Blocks: balloc() for a cell that has no number.                            *)
LEMMA NumberWord ==
  ASSUME NEW j \in Inos, NEW m \in 0 .. MAXFILE - 1
  PROVE  Gone(j) = 0 => Number(j, m) = Word(j, CellOf(m))
<1> USE BlockFacts
<1>1. CASE m < NDIRECT BY <1>1 DEF CellOf, Number, Word
<1>2. CASE ~(m < NDIRECT)
  <2>1. PICK k \in Nat : k = m - NDIRECT BY <1>2
  <2>2. CellOf(m) = m + 1 /\ ~(m + 1 <= NDIRECT) /\ (m + 1) - NDIRECT - 1 = k
    BY <1>2, <2>1 DEF CellOf
  <2>3. ~(k < 0) BY <2>1
  <2>4. QED BY <1>2, <2>1, <2>2, <2>3 DEF Number, Word, InIndirect
<1>3. QED BY <1>1, <1>2

LEMMA NumberWordNext ==
  ASSUME NEW j \in Inos, NEW m \in 0 .. MAXFILE - 1
  PROVE  Gone(j)' = 0 => Number(j, m)' = Word(j, CellOf(m))'
<1> USE BlockFacts
<1>1. CASE m < NDIRECT BY <1>1 DEF CellOf, Number, Word
<1>2. CASE ~(m < NDIRECT)
  <2>1. PICK k \in Nat : k = m - NDIRECT BY <1>2
  <2>2. CellOf(m) = m + 1 /\ ~(m + 1 <= NDIRECT) /\ (m + 1) - NDIRECT - 1 = k
    BY <1>2, <2>1 DEF CellOf
  <2>3. ~(k < 0) BY <2>1
  <2>4. QED BY <1>2, <2>1, <2>2, <2>3 DEF Number, Word, InIndirect
<1>3. QED BY <1>1, <1>2

(* A block of data is in use, and no indirect block.                          *)
LEMMA DataBlock ==
  ASSUME BlockInv, NEW j \in Inos, Gone(j) = 0, NEW m \in 0 .. MAXFILE - 1, Number(j, m) # 0,
         NEW i \in Inos
  PROVE  Number(j, m) \in Blocks /\ Number(j, m) \in bitmap /\ Number(j, m) # addrs[i][NDIRECT]
<1>1. CellOf(m) \in Cells /\ CellOf(m) # NDIRECT /\ Number(j, m) = Numbers[j][CellOf(m)]
  BY NumberIs
<1>2. NDIRECT \in Cells /\ Numbers[i][NDIRECT] = addrs[i][NDIRECT] BY ThisWord, BlockFacts
<1>3. Number(j, m) \in bitmap BY <1>1 DEF BlockInv, Exact
<1>4. Number(j, m) # addrs[i][NDIRECT] BY <1>1, <1>2 DEF BlockInv, Exact
<1>5. QED BY <1>3, <1>4 DEF BlockInv, BlockTypes

LEMMA PutStep ==
  ASSUME BlockInv, NEW p \in Callers, where[p] = "writei", NEW i \in Inos, i = ino[p],
         NEW c \in Cells, Word(i, c) = 0, NEW b \in Blocks, b \notin bitmap,
         bitmap' = bitmap \cup {b}, UNCHANGED <<size, off, holder, where, ino, left, tot, n1>>,
         addrs' \in [Inos -> [0 .. NDIRECT -> Blocks \cup {0}]], content' \in Contents,
         \A j \in Inos, l \in Cells : Word(j, l)' = IF j = i /\ l = c THEN b ELSE Word(j, l),
         \A x \in Blocks : x # b /\ x # addrs[i][NDIRECT] => content'[x] = content[x],
         \A j \in Inos : ListsNumbers(j)'
  PROVE  BlockInv'
<1>1. Exact(Numbers, bitmap)' BY WordsPut
<1>2. BlockTypes' BY DEF BlockInv, BlockTypes, Contents
<1>3. InodeLocked' BY DEF BlockInv, InodeLocked
<1>4. \A q \in Callers : InCall(q)' BY DEF BlockInv, InCall
<1>5. \A j \in Inos : Gone(j)' = Gone(j) /\ Reach(j)' = Reach(j) BY DEF Gone, Reach, Grown, Pos
<1>6. ASSUME NEW j \in Inos, Gone(j) = 0, NEW m \in 0 .. MAXFILE - 1, Number(j, m) # 0
      PROVE  /\ Number(j, m)' = Number(j, m)
             /\ \A k \in Units : content[Number(j, m)][k] = j => content'[Number(j, m)][k] = j
  <2>1. /\ CellOf(m) \in Cells /\ CellOf(m) # NDIRECT /\ Number(j, m) = Numbers[j][CellOf(m)]
        /\ Number(j, m) = Word(j, CellOf(m))
    BY <1>6, NumberIs, NumberWord
  <2>2. Number(j, m)' = Word(j, CellOf(m))' BY <1>5, <1>6, NumberWordNext
  <2>3. ~(j = i /\ CellOf(m) = c) BY <1>6, <2>1
  <2>4. Number(j, m)' = Number(j, m) BY <2>1, <2>2, <2>3
  <2>5. Number(j, m) \in Blocks /\ Number(j, m) \in bitmap /\ Number(j, m) # addrs[i][NDIRECT]
    BY <1>6, DataBlock
  <2>6. Number(j, m) # b BY <2>5
  <2>7. content'[Number(j, m)] = content[Number(j, m)] BY <2>5, <2>6
  <2>8. QED BY <2>4, <2>7
<1>7. ASSUME NEW j \in Inos PROVE IsFilled(j, Reach(j))'
  <2>1. PICK n \in Nat : n = Reach(j) BY ReachNat
  <2>2. Reach(j)' = n BY <1>5, <2>1
  <2>3. CASE Gone(j) = 0
    <3>1. n \in 0 .. Reach(j) BY <2>1
    <3>2. IsFilled(j, n)' BY <1>6, <2>3, <3>1, FilledKept
    <3>3. QED BY <2>2, <3>2 DEF IsFilled
  <2>4. CASE Gone(j) # 0
    <3>1. n = 0 BY <2>1, <2>4, GoneOrNot
    <3>2. QED BY <2>2, <3>1 DEF IsFilled
  <2>5. QED BY <2>3, <2>4
<1>8. QED BY <1>1, <1>2, <1>3, <1>4, <1>7 DEF BlockInv, FilledRight

(* A number in the inode, maybe that of an empty indirect block.              *)
LEMMA PutInInode ==
  ASSUME BlockInv, NEW p \in Callers, where[p] = "writei", NEW i \in Inos, i = ino[p],
         NEW c \in 0 .. NDIRECT, addrs[i][c] = 0, NEW b \in Blocks, b \notin bitmap,
         bitmap' = bitmap \cup {b}, UNCHANGED <<size, off, holder, where, ino, left, tot, n1>>,
         addrs' = [addrs EXCEPT ![i][c] = b], content' = bzero(b)
  PROVE  BlockInv'
<1>1. /\ addrs' \in [Inos -> [0 .. NDIRECT -> Blocks \cup {0}]]
      /\ \A j \in Inos, l \in 0 .. NDIRECT : addrs'[j][l] = IF j = i /\ l = c THEN b ELSE addrs[j][l]
  BY DEF BlockInv, BlockTypes
<1>2. content \in Contents BY DEF BlockInv, BlockTypes, Contents
<1>3. Zeroes \in [Units -> {0}] BY DEF Zeroes, Units
<1>4. /\ content' \in Contents /\ content'[b] = Zeroes
      /\ \A x \in Blocks : x # b => content'[x] = content[x]
  BY <1>2, <1>3 DEF bzero, Contents
<1>5. NDIRECT \in 0 .. NDIRECT /\ NDIRECT \in Nat /\ NINDIRECT \in Nat BY BlockFacts
<1>6. ASSUME NEW j \in Inos
      PROVE  addrs[j][NDIRECT] # 0 => addrs[j][NDIRECT] \in Blocks /\ addrs[j][NDIRECT] # b
  <2>1. NDIRECT \in Cells /\ Numbers[j][NDIRECT] = addrs[j][NDIRECT] BY <1>5, ThisWord
  <2>2. addrs[j][NDIRECT] \in bitmap \cup {0} BY <2>1 DEF BlockInv, Exact
  <2>3. QED BY <2>2 DEF BlockInv, BlockTypes
<1>7. \A j \in Inos : Gone(j)' = Gone(j) BY DEF Gone
<1>8. 0 .. NINDIRECT - 1 \subseteq Units BY BlockFacts DEF Units
<1>9. ASSUME NEW j \in Inos PROVE ListsNumbers(j)'
  <2>1. CASE addrs'[j][NDIRECT] = b
    BY <1>3, <1>4, <1>8, <2>1 DEF ListsNumbers, InIndirect
  <2>2. CASE addrs'[j][NDIRECT] # b
    <3>1. addrs'[j][NDIRECT] = addrs[j][NDIRECT] BY <1>1, <1>5, <2>2
    <3>2. addrs[j][NDIRECT] # 0 => content'[addrs[j][NDIRECT]] = content[addrs[j][NDIRECT]]
      BY <1>4, <1>6
    <3>3. QED BY <3>1, <3>2 DEF BlockInv, ListsNumbers, InIndirect
  <2>3. QED BY <2>1, <2>2
<1>10. ASSUME NEW j \in Inos, NEW l \in Cells
       PROVE  Word(j, l)' = IF j = i /\ l = c THEN b ELSE Word(j, l)
  <2>1. CASE l <= NDIRECT
    <3>1. l \in 0 .. NDIRECT BY <2>1, <1>5 DEF Cells
    <3>2. QED BY <1>1, <2>1, <3>1 DEF Word
  <2>2. CASE ~(l <= NDIRECT)
    <3>1. PICK m \in 0 .. NINDIRECT - 1 : m = l - NDIRECT - 1 BY <2>2, BlockFacts DEF Cells
    <3>2. l # c BY <1>5, <2>2 DEF Cells
    <3>3. CASE j = i /\ c = NDIRECT
      <4>1. addrs'[j][NDIRECT] = b /\ Word(j, l) = 0 BY <1>1, <1>5, <2>2, <3>3 DEF Word
      <4>2. InIndirect(j)'[m] = 0 BY <1>3, <1>4, <1>8, <4>1 DEF InIndirect
      <4>3. QED BY <2>2, <3>1, <3>2, <4>1, <4>2 DEF Word
    <3>4. CASE ~(j = i /\ c = NDIRECT)
      <4>1. addrs'[j][NDIRECT] = addrs[j][NDIRECT] BY <1>1, <1>5, <3>4
      <4>2. addrs[j][NDIRECT] # 0 => InIndirect(j)' = InIndirect(j)
        BY <1>4, <1>6, <4>1 DEF InIndirect
      <4>3. QED BY <1>7, <2>2, <3>2, <4>1, <4>2 DEF Word
    <3>5. QED BY <3>3, <3>4
  <2>3. QED BY <2>1, <2>2
<1>11. c \in Cells /\ Word(i, c) = 0 BY <1>5, BlockFacts DEF Cells, Word
<1>12. QED BY <1>1, <1>4, <1>9, <1>10, <1>11, PutStep

(* A number in the indirect block.                                            *)
LEMMA PutInIndirect ==
  ASSUME BlockInv, NEW p \in Callers, where[p] = "writei", NEW i \in Inos, i = ino[p],
         NEW k \in 0 .. NINDIRECT - 1, NEW e, e = addrs[i][NDIRECT], e # 0, content[e][k] = 0,
         NEW b \in Blocks, b \notin bitmap,
         bitmap' = bitmap \cup {b}, UNCHANGED <<size, off, holder, where, ino, left, tot, n1>>,
         addrs' = addrs, content' = [bzero(b) EXCEPT ![e][k] = b]
  PROVE  BlockInv'
<1>1. k \in Units BY BlockFacts DEF Units
<1>2. content \in Contents /\ bzero(b) \in Contents
  <2>1. Zeroes \in [Units -> {0}] BY DEF Zeroes, Units
  <2>2. QED BY <2>1 DEF BlockInv, BlockTypes, Contents, bzero
<1>3. ASSUME NEW j \in Inos
      PROVE  addrs[j][NDIRECT] # 0 => /\ addrs[j][NDIRECT] \in Blocks /\ addrs[j][NDIRECT] # b
                                      /\ j # i => addrs[j][NDIRECT] # e
  <2>1. /\ NDIRECT \in Cells /\ Numbers[j][NDIRECT] = addrs[j][NDIRECT]
        /\ Numbers[i][NDIRECT] = addrs[i][NDIRECT]
    BY BlockFacts, ThisWord
  <2>2. addrs[j][NDIRECT] \in bitmap \cup {0} BY <2>1 DEF BlockInv, Exact
  <2>3. addrs[j][NDIRECT] = e => j = i BY <2>1 DEF BlockInv, Exact
  <2>4. QED BY <2>2, <2>3 DEF BlockInv, BlockTypes
<1>4. e \in Blocks /\ e # b BY <1>3
<1>5. bzero(b)[e] = content[e] /\ \A x \in Blocks : x # b => bzero(b)[x] = content[x]
  BY <1>2, <1>4 DEF bzero, Contents
<1>6. /\ content' \in Contents
      /\ \A x \in Units : content'[e][x] = IF x = k THEN b ELSE content[e][x]
      /\ \A x \in Blocks : x # b /\ x # e => content'[x] = content[x]
  <2>1. PICK z \in Contents : z = bzero(b) /\ content' = [z EXCEPT ![e][k] = b] BY <1>2
  <2>2. \A x \in Units : content'[e][x] = IF x = k THEN b ELSE z[e][x]
    BY <1>1, <1>4, <2>1 DEF Contents
  <2>3. content' \in Contents BY <1>1, <1>4, <2>1 DEF Contents
  <2>4. \A x \in Blocks : x # b /\ x # e => content'[x] = content[x]
    BY <1>5, <2>1 DEF Contents
  <2>5. QED BY <1>5, <2>1, <2>2, <2>3, <2>4
<1>7. 0 .. NINDIRECT - 1 \subseteq Units BY BlockFacts DEF Units
<1>8. Gone(i) = 0 BY HasInode
<1>9. \A j \in Inos : Gone(j)' = Gone(j) BY DEF Gone
<1>10. ASSUME NEW j \in Inos, j # i
       PROVE  addrs[j][NDIRECT] # 0 => InIndirect(j)' = InIndirect(j)
  BY <1>3, <1>6, <1>10 DEF InIndirect
<1>11. \A x \in Units : InIndirect(i)'[x] = IF x = k THEN b ELSE InIndirect(i)[x]
  BY <1>6 DEF InIndirect
<1>12. ASSUME NEW j \in Inos PROVE ListsNumbers(j)'
  <2>1. CASE j = i BY <1>7, <1>11, <2>1 DEF BlockInv, ListsNumbers
  <2>2. CASE j # i BY <1>10, <2>2 DEF BlockInv, ListsNumbers
  <2>3. QED BY <2>1, <2>2
<1>13. PICK c \in Cells : c = NDIRECT + 1 + k /\ ~(c <= NDIRECT) /\ c - NDIRECT - 1 = k
  BY BlockFacts DEF Cells
<1>14. ~(k < 0) BY BlockFacts
<1>15. Word(i, c) = 0 BY <1>8, <1>13, <1>14 DEF Word, InIndirect
<1>16. ASSUME NEW j \in Inos, NEW l \in Cells
       PROVE  Word(j, l)' = IF j = i /\ l = c THEN b ELSE Word(j, l)
  <2>1. CASE l <= NDIRECT BY <1>13, <2>1 DEF Word
  <2>2. CASE ~(l <= NDIRECT) /\ j # i BY <1>9, <1>10, <2>2 DEF Word
  <2>3. CASE ~(l <= NDIRECT) /\ j = i
    <3>1. PICK m \in 0 .. NINDIRECT - 1 : m = l - NDIRECT - 1 BY <2>3, BlockFacts DEF Cells
    <3>2. ~(m < 0) /\ m \in Units BY <1>7, <3>1, BlockFacts
    <3>3. Word(j, l) = InIndirect(i)[m] BY <1>8, <2>3, <3>1, <3>2 DEF Word
    <3>4. Word(j, l)' = InIndirect(i)'[m] BY <1>8, <1>9, <2>3, <3>1, <3>2 DEF Word
    <3>5. l = c <=> m = k
      <4>1. NDIRECT \in Nat /\ k \in Nat /\ m \in Nat /\ l \in Nat BY BlockFacts DEF Cells
      <4>2. QED BY <1>13, <3>1, <4>1
    <3>6. QED BY <1>11, <2>3, <3>2, <3>3, <3>4, <3>5
  <2>4. QED BY <2>1, <2>2, <2>3
<1>17. addrs' \in [Inos -> [0 .. NDIRECT -> Blocks \cup {0}]] BY DEF BlockInv, BlockTypes
<1>18. \A x \in Blocks : x # b /\ x # addrs[i][NDIRECT] => content'[x] = content[x] BY <1>6
<1>19. content' \in Contents BY <1>6
<1>20. QED BY <1>12, <1>15, <1>16, <1>17, <1>18, <1>19, PutStep

LEMMA BallocStep ==
  ASSUME BlockInv, NEW p \in Callers, Balloc(p)
  PROVE  BlockInv'
<1>1. /\ where[p] = "writei" /\ tot[p] < n1[p] /\ Number(ino[p], Pos(p) \div BSIZE) = 0
      /\ UNCHANGED <<size, off, holder, where, ino, left, tot, n1>>
  BY DEF Balloc, Lacks
<1>2. PICK i \in Inos : i = ino[p] BY <1>1, HasInode
<1>3. PICK n \in 0 .. MAXFILE - 1 : n = Pos(p) \div BSIZE BY <1>1, WriteFacts
<1>4. PICK e : e = addrs[i][NDIRECT] OBVIOUS
<1>5. PICK b \in Blocks \ bitmap :
        /\ bitmap' = bitmap \cup {b}
        /\ IF n < NDIRECT \/ e = 0
           THEN addrs' = [addrs EXCEPT ![i][Least(n, NDIRECT)] = b] /\ content' = bzero(b)
           ELSE content' = [bzero(b) EXCEPT ![e][n - NDIRECT] = b] /\ addrs' = addrs
  BY <1>2, <1>3, <1>4 DEF Balloc, FreeBlock
<1>6. NDIRECT \in Nat /\ NINDIRECT \in Nat /\ n \in Nat /\ Number(i, n) = 0
  BY <1>1, <1>2, <1>3, BlockFacts
<1>7. CASE n < NDIRECT
  <2>1. n \in 0 .. NDIRECT /\ Least(n, NDIRECT) = n /\ addrs[i][n] = 0
    BY <1>6, <1>7 DEF Least, Number
  <2>2. QED BY <1>1, <1>2, <1>5, <1>7, <2>1, PutInInode
<1>8. CASE ~(n < NDIRECT) /\ e = 0
  <2>1. NDIRECT \in 0 .. NDIRECT /\ Least(n, NDIRECT) = NDIRECT /\ addrs[i][NDIRECT] = 0
    BY <1>4, <1>6, <1>8 DEF Least
  <2>2. QED BY <1>1, <1>2, <1>5, <1>8, <2>1, PutInInode
<1>9. CASE ~(n < NDIRECT) /\ e # 0
  <2>1. PICK k \in 0 .. NINDIRECT - 1 : k = n - NDIRECT BY <1>6, <1>9, BlockFacts
  <2>2. content[e][k] = 0 BY <1>4, <1>6, <1>9, <2>1 DEF Number
  <2>3. QED BY <1>1, <1>2, <1>4, <1>5, <1>9, <2>1, <2>2, PutInIndirect
<1>10. QED BY <1>7, <1>8, <1>9

-----------------------------------------------------------------------------
(* Blocks: the invariant, and what it says.                                   *)
LEMMA BlocksStart == BlocksInit => BlockInv
<1> SUFFICES ASSUME BlocksInit PROVE BlockInv OBVIOUS
<1> USE BlockFacts
<1>1. /\ bitmap = {} /\ addrs = [i \in Inos |-> [k \in 0 .. NDIRECT |-> 0]]
      /\ size = [i \in Inos |-> 0] /\ content = [b \in Blocks |-> Zeroes]
      /\ off = [i \in Inos |-> 0] /\ holder = [i \in Inos |-> NoHolder]
      /\ where = [p \in Callers |-> "user"] /\ ino = [p \in Callers |-> NoHolder]
      /\ left = [p \in Callers |-> 0] /\ tot = [p \in Callers |-> 0] /\ n1 = [p \in Callers |-> 0]
  BY DEF BlocksInit
<1>2. BlockTypes
  <2>1. Zeroes \in [Units -> {0}] BY DEF Zeroes, Units
  <2>2. 0 \in 0 .. MAXFILE * BSIZE
    <3>1. PICK m \in Nat : m = MAXFILE * BSIZE OBVIOUS
    <3>2. QED BY <3>1
  <2>3. content \in [Blocks -> [Units -> Blocks \cup {0} \cup Inos]] BY <1>1, <2>1
  <2>4. size \in [Inos -> 0 .. MAXFILE * BSIZE] BY <1>1, <2>2
  <2>5. QED BY <1>1, <2>3, <2>4 DEF BlockTypes
<1>3. InodeLocked BY <1>1 DEF InodeLocked
<1>4. \A p \in Callers : InCall(p) BY <1>1 DEF InCall
<1>5. \A i \in Inos : addrs[i][NDIRECT] = 0
  <2>1. NDIRECT \in 0 .. NDIRECT OBVIOUS
  <2>2. QED BY <1>1, <2>1
<1>6. \A i \in Inos : ListsNumbers(i) BY <1>5 DEF ListsNumbers
<1>7. ASSUME NEW i \in Inos, NEW k \in Cells PROVE Numbers[i][k] = 0
  <2>1. k <= NDIRECT => k \in 0 .. NDIRECT BY DEF Cells
  <2>2. Word(i, k) = 0 BY <1>1, <1>5, <2>1 DEF Word
  <2>3. QED BY <2>2, WordIs
<1>8. Exact(Numbers, bitmap)
  <2>1. \A i \in Inos, k \in Cells : Numbers[i][k] \in {0} BY <1>7
  <2>2. bitmap = {} BY <1>1
  <2>3. QED BY <1>7, <2>1, <2>2 DEF Exact
<1>9. FilledRight BY <1>1 DEF FilledRight, IsFilled, Reach
<1>10. QED BY <1>2, <1>3, <1>4, <1>6, <1>8, <1>9 DEF BlockInv

LEMMA BlocksStep == BlockInv /\ [BlocksNext]_blockVars => BlockInv'
<1> SUFFICES ASSUME BlockInv, [BlocksNext]_blockVars PROVE BlockInv' OBVIOUS
<1>1. ASSUME NEW x \in Writes, NEW n \in WriteSizes, FileWrite(x[1], x[2], n) PROVE BlockInv'
  <2>1. x[1] \in Callers /\ x[2] \in Inos BY BlockFacts
  <2>2. QED BY <1>1, <2>1, FileWriteStep
<1>2. ASSUME NEW x \in Writes, NEW n \in ReadSizes, FileRead(x[1], x[2], n) PROVE BlockInv'
  <2>1. x[1] \in Callers /\ x[2] \in Inos BY BlockFacts
  <2>2. QED BY <1>2, <2>1, FileReadStep
<1>3. ASSUME NEW x \in Writes, Reopen(x[2]) PROVE BlockInv'
  <2>1. x[2] \in Inos BY BlockFacts
  <2>2. QED BY <1>3, <2>1, ReopenStep
<1>4. ASSUME NEW x \in Truncates, Truncate(x[1], x[2]) PROVE BlockInv'
  <2>1. x[1] \in Callers /\ x[2] \in Inos BY BlockFacts
  <2>2. QED BY <1>4, <2>1, TruncateStep
<1>5. ASSUME NEW p \in Callers,
             \/ Chunk(p) \/ Balloc(p) \/ Copy(p) \/ Written(p) \/ BadAddress(p)
             \/ FreeDirect(p) \/ FreeListed(p) \/ FreeIndirect(p) \/ Truncated(p)
      PROVE  BlockInv'
  <2>1. CASE Chunk(p) BY <2>1, ChunkStep
  <2>2. CASE Balloc(p) BY <2>2, BallocStep
  <2>3. CASE Copy(p) BY <2>3, CopyStep
  <2>4. CASE Written(p) BY <2>4, WrittenStep
  <2>5. CASE BadAddress(p) BY <2>5, BadAddressStep
  <2>6. CASE FreeDirect(p) BY <2>6, FreeDirectStep
  <2>7. CASE FreeListed(p) BY <2>7, FreeListedStep
  <2>8. CASE FreeIndirect(p) BY <2>8, FreeIndirectStep
  <2>9. CASE Truncated(p) BY <2>9, TruncatedStep
  <2>10. QED BY <1>5, <2>1, <2>2, <2>3, <2>4, <2>5, <2>6, <2>7, <2>8, <2>9
<1>6. CASE UNCHANGED blockVars
  <2>1. UNCHANGED <<bitmap, addrs, size, content, off, holder, where, ino, left, tot, n1>>
    BY <1>6 DEF blockVars
  <2>2. \A j \in Inos : Gone(j)' = Gone(j) /\ Reach(j)' = Reach(j)
    BY <2>1 DEF Gone, Reach, Grown, Pos
  <2>3. BlockTypes' /\ InodeLocked' BY <2>1 DEF BlockInv, BlockTypes, InodeLocked
  <2>4. \A q \in Callers : InCall(q)' BY <2>1 DEF BlockInv, InCall
  <2>5. QED BY <2>1, <2>2, <2>3, <2>4, NothingMoves DEF BlockInv
<1>7. QED BY <1>1, <1>2, <1>3, <1>4, <1>5, <1>6 DEF BlocksNext

(* The cell a place is.                                                       *)
CellAt(x) == IF x[1] = "inode" THEN x[2] ELSE NDIRECT + 1 + x[2]
LEMMA PlaceIs ==
  ASSUME BlockInv, NEW i \in Inos
  PROVE  /\ \A x \in PlacesOf(i) : /\ CellAt(x) \in Cells /\ NumberAt(i, x) = Numbers[i][CellAt(x)]
                                   /\ NumberAt(i, x) # 0
         /\ \A x, y \in PlacesOf(i) : CellAt(x) = CellAt(y) => x = y
         /\ \A c \in Cells : Numbers[i][c] # 0 => \E x \in PlacesOf(i) : CellAt(x) = c
<1> USE BlockFacts
<1> DEFINE Here == {j \in 0 .. NDIRECT : addrs[i][j] # 0}
           Far  == {j \in Gone(i) .. NINDIRECT - 1 : addrs[i][NDIRECT] # 0 /\ InIndirect(i)[j] # 0}
<1>1. Gone(i) \in Nat
  <2>1. holder[i] # NoHolder => tot[holder[i]] \in Nat BY DEF BlockInv, BlockTypes
  <2>2. QED BY <2>1 DEF Gone
<1>2. ASSUME NEW x \in PlacesOf(i)
      PROVE  \/ \E k \in Here : x = <<"inode", k>> /\ CellAt(x) = k /\ NumberAt(i, x) = addrs[i][k]
             \/ \E k \in Far : /\ x = <<"indirect", k>> /\ CellAt(x) = NDIRECT + 1 + k
                               /\ NumberAt(i, x) = InIndirect(i)[k]
  BY DEF PlacesOf, CellAt, NumberAt
<1>3. ASSUME NEW x \in PlacesOf(i)
      PROVE  /\ CellAt(x) \in Cells /\ NumberAt(i, x) = Numbers[i][CellAt(x)]
             /\ NumberAt(i, x) # 0
  <2>1. CASE \E k \in Here : x = <<"inode", k>> /\ CellAt(x) = k /\ NumberAt(i, x) = addrs[i][k]
    BY <2>1, ThisWord
  <2>2. CASE \E k \in Far : /\ x = <<"indirect", k>> /\ CellAt(x) = NDIRECT + 1 + k
                            /\ NumberAt(i, x) = InIndirect(i)[k]
    <3>1. PICK k \in Far : CellAt(x) = NDIRECT + 1 + k /\ NumberAt(i, x) = InIndirect(i)[k] BY <2>2
    <3>2. k \in 0 .. NINDIRECT - 1 /\ k >= Gone(i) BY <1>1
    <3>3. NDIRECT + 1 + k \in Cells /\ Numbers[i][NDIRECT + 1 + k] = InIndirect(i)[k]
      BY <3>2, ThisWord
    <3>4. QED BY <3>1, <3>3
  <2>3. QED BY <1>2, <2>1, <2>2
<1>4. ASSUME NEW x \in PlacesOf(i), NEW y \in PlacesOf(i), CellAt(x) = CellAt(y) PROVE x = y
  <2>1. \/ \E k \in 0 .. NDIRECT : x = <<"inode", k>> /\ CellAt(x) = k
        \/ \E k \in Nat : x = <<"indirect", k>> /\ CellAt(x) = NDIRECT + 1 + k
    BY <1>1, <1>2
  <2>2. \/ \E k \in 0 .. NDIRECT : y = <<"inode", k>> /\ CellAt(y) = k
        \/ \E k \in Nat : y = <<"indirect", k>> /\ CellAt(y) = NDIRECT + 1 + k
    BY <1>1, <1>2
  <2>3. QED BY <1>4, <2>1, <2>2
<1>5. ASSUME NEW c \in Cells, Numbers[i][c] # 0 PROVE \E x \in PlacesOf(i) : CellAt(x) = c
  <2>1. CASE c <= NDIRECT
    <3>1. c \in Here BY <1>5, <2>1, ThisWord DEF Cells
    <3>2. <<"inode", c>> \in PlacesOf(i) BY <3>1 DEF PlacesOf
    <3>3. CellAt(<<"inode", c>>) = c BY DEF CellAt
    <3>4. QED BY <3>2, <3>3
  <2>2. CASE ~(c <= NDIRECT)
    <3>1. PICK k \in 0 .. NINDIRECT - 1 : c = NDIRECT + 1 + k BY <2>2 DEF Cells
    <3>2. addrs[i][NDIRECT] # 0 /\ k >= Gone(i) /\ Numbers[i][c] = InIndirect(i)[k]
      <4>1. /\ addrs[i][NDIRECT] # 0 /\ k >= Gone(i) => Numbers[i][c] = InIndirect(i)[k]
            /\ addrs[i][NDIRECT] = 0 \/ k < Gone(i) => Numbers[i][c] = 0
        BY <3>1, ThisWord
      <4>2. k \in Nat /\ Gone(i) \in Nat BY <1>1
      <4>3. QED BY <1>5, <4>1, <4>2
    <3>3. k \in Far BY <1>1, <1>5, <3>1, <3>2
    <3>4. <<"indirect", k>> \in PlacesOf(i) BY <3>3 DEF PlacesOf
    <3>5. CellAt(<<"indirect", k>>) = NDIRECT + 1 + k BY DEF CellAt
    <3>6. QED BY <3>1, <3>4, <3>5
  <2>3. QED BY <2>1, <2>2
<1>6. QED BY <1>3, <1>4, <1>5

LEMMA OneCell ==
  ASSUME BlockInv, NEW i \in Inos, NEW j \in Inos, NEW k \in Cells, NEW l \in Cells,
         Numbers[i][k] = Numbers[j][l], Numbers[i][k] # 0
  PROVE  i = j /\ k = l
BY DEF BlockInv, Exact

LEMMA InvOwned == BlockInv => BlocksOwned
<1> SUFFICES ASSUME BlockInv PROVE BlocksOwned OBVIOUS
<1>1. \A y \in AllPlaces : /\ y[1] \in Inos /\ y[2] \in PlacesOf(y[1]) /\ y = <<y[1], y[2]>>
  BY DEF AllPlaces
<1>2. \A i \in Inos : \A x \in PlacesOf(i) : <<i, x>> \in AllPlaces BY DEF AllPlaces
<1> DEFINE Num(y) == NumberAt(y[1], y[2])
           f == [y \in AllPlaces |-> Num(y)]
<1>3. ASSUME NEW y \in AllPlaces PROVE Num(y) \in bitmap
  <2>1. CellAt(y[2]) \in Cells /\ Num(y) = Numbers[y[1]][CellAt(y[2])] /\ Num(y) # 0 /\ y[1] \in Inos
    BY <1>1, PlaceIs
  <2>2. QED BY <2>1 DEF BlockInv, Exact
<1>4. ASSUME NEW y \in AllPlaces, NEW z \in AllPlaces, Num(y) = Num(z) PROVE y = z
  <2>1. CellAt(y[2]) \in Cells /\ Num(y) = Numbers[y[1]][CellAt(y[2])] /\ Num(y) # 0 /\ y[1] \in Inos
    BY <1>1, PlaceIs
  <2>2. CellAt(z[2]) \in Cells /\ Num(z) = Numbers[z[1]][CellAt(z[2])] /\ z[1] \in Inos
    BY <1>1, PlaceIs
  <2>3. PICK i \in Inos, j \in Inos, k \in Cells, l \in Cells :
          i = y[1] /\ j = z[1] /\ k = CellAt(y[2]) /\ l = CellAt(z[2])
    BY <2>1, <2>2
  <2>4. Numbers[i][k] = Numbers[j][l] /\ Numbers[i][k] # 0 BY <1>4, <2>1, <2>2, <2>3
  <2>5. i = j /\ k = l BY <2>4, OneCell
  <2>6. y[2] = z[2]
    <3>1. PICK v \in PlacesOf(i), x \in PlacesOf(i) : v = y[2] /\ x = z[2] BY <1>1, <2>3, <2>5
    <3>2. CellAt(v) = CellAt(x) BY <2>3, <2>5, <3>1
    <3>3. v = x BY <3>2, PlaceIs
    <3>4. QED BY <3>1, <3>3
  <2>7. QED BY <1>1, <2>3, <2>5, <2>6
<1>5. ASSUME NEW b \in bitmap PROVE \E y \in AllPlaces : Num(y) = b
  <2>1. PICK i \in Inos, c \in Cells : Numbers[i][c] = b BY DEF BlockInv, Exact
  <2>2. b # 0 BY BlockFacts DEF BlockInv, BlockTypes
  <2>3. PICK x \in PlacesOf(i) : CellAt(x) = c BY <2>1, <2>2, PlaceIs
  <2>4. NumberAt(i, x) = b BY <2>1, <2>3, PlaceIs
  <2>5. Num(<<i, x>>) = b BY <2>4
  <2>6. QED BY <1>2, <2>5
<1>6. {Num(y) : y \in AllPlaces} = bitmap BY <1>3, <1>5
<1>7. f \in Injection(AllPlaces, bitmap) BY <1>3, <1>4 DEF Injection, IsInjective
<1>8. f \in Surjection(AllPlaces, bitmap) BY <1>3, <1>5 DEF Surjection
<1>9. IsFiniteSet(bitmap)
  <2>1. IsFiniteSet(Blocks) BY FS_Interval, BlockFacts DEF Blocks
  <2>2. QED BY <2>1, FS_Subset DEF BlockInv, BlockTypes
<1>10. Cardinality(AllPlaces) = Cardinality(bitmap) BY <1>7, <1>8, <1>9, FS_Injection
<1>11. QED BY <1>6, <1>10 DEF BlocksOwned

LEMMA InvNoHoles == BlockInv => NoHoles
<1> SUFFICES ASSUME BlockInv, NEW i \in Inos, AtRest(i), NEW u \in 0 .. size[i] - 1
             PROVE  /\ Number(i, u \div BSIZE) # 0
                    /\ content[Number(i, u \div BSIZE)][u % BSIZE] = i
  BY DEF NoHoles
<1>1. PICK m \in Nat : m = MAXFILE * BSIZE BY BlockFacts
<1>2. PICK s \in Nat : s = size[i] BY <1>1 DEF BlockInv, BlockTypes
<1>3. PICK n \in Nat : n = Reach(i) /\ s <= n
  <2>1. CASE holder[i] = NoHolder BY <1>2, <2>1 DEF Reach
  <2>2. CASE holder[i] # NoHolder
    <3>1. PICK p \in Callers : holder[i] = p /\ where[p] = "writei" /\ ino[p] = i
      BY <2>2, HolderIs DEF AtRest
    <3>2. Reach(i) = Grown(p) BY <2>2, <3>1 DEF Reach
    <3>3. Grown(p) \in Nat /\ s <= Grown(p) BY <1>1, <1>2, <3>1, WriteFacts
    <3>4. QED BY <3>2, <3>3
  <2>3. QED BY <2>1, <2>2
<1>4. u \in 0 .. n - 1 BY <1>2, <1>3
<1>5. IsFilled(i, n) BY <1>3 DEF BlockInv, FilledRight
<1>6. QED BY <1>4, <1>5 DEF IsFilled

(* balloc(), bfree(), bmap(), itrunc() and writei() keep every block in use   *)
(* in one place and every file without holes, for any number of processes,    *)
(* inodes and blocks, any size of a block and any number of direct and        *)
(* indirect blocks, also when the disk is full or a copy fails.               *)
THEOREM BlocksRightAlways == BlocksSpec => []BlocksRight
<1>1. BlocksInit => BlockInv BY BlocksStart
<1>2. BlockInv /\ [BlocksNext]_blockVars => BlockInv' BY BlocksStep
<1>3. BlockInv => BlocksRight BY InvOwned, InvNoHoles DEF BlocksRight
<1>4. QED BY <1>1, <1>2, <1>3, PTL DEF BlocksSpec
=============================================================================
