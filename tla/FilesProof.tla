----------------------------- MODULE FilesProof ------------------------------
(***************************************************************************)
(* Machine-checked theorems about Files and Pipe, for every number of      *)
(* processes, files, descriptors and pages and every size of a pipe.       *)
(* FilesInv is inductive: it says what every process may have in hand, who *)
(* holds pi->lock and what a process in a pipe call can rely on, that each *)
(* end of a pipe is one file or one pipeclose() to come, and why everybody *)
(* asleep in a pipe is.  The last part shows that pipes are the streams of *)
(* bytes of module ByteStreams.                                            *)
(***************************************************************************)
EXTENDS Files, TLAPS, FiniteSetTheorems, SequenceTheorems, WellFoundedInduction

Reading == {"read", "doze", "rsleep"}
Writing == {"write", "put", "wsleep"}
Places  == Reading \cup Writing \cup {"user", "unused", "closing", "exiting", "pipe", "fds"}
Hands   == {<<>>} \cup {<<f>> : f \in FileIds} \cup {<<f, g>> : f \in FileIds, g \in FileIds}

FileTypes ==
  /\ ref \in [FileIds -> Nat] /\ type \in [FileIds -> {"none", "pipe"}]
  /\ writable \in [FileIds -> BOOLEAN] /\ pipe \in [FileIds -> Pages \cup {None}]
  /\ ofile \in [Procs -> [Fds -> FileIds \cup {None}]]
  /\ hand \in [Procs -> Hands] /\ last \in [Procs -> Ends \cup {None}]
PipeTypes ==
  /\ at \in [Procs -> Places] /\ pi \in [Procs -> Pages \cup {None}]
  /\ killed \in [Procs -> BOOLEAN] /\ left \in [Procs -> Nat] /\ unsaid \in [Procs -> BOOLEAN]
  /\ inuse \in SUBSET Pages /\ cut \in SUBSET Pages /\ lock \in [Pages -> Procs \cup {None}]
  /\ nread \in [Pages -> 0 .. UintMod - 1] /\ nwrite \in [Pages -> 0 .. UintMod - 1]
  /\ readopen \in [Pages -> BOOLEAN] /\ writeopen \in [Pages -> BOOLEAN]
  /\ \A x \in Pages : Unread(x) \in 0 .. PIPESIZE

(* What a process has in hand depends on the call it is in; what sys_pipe()   *)
(* has allocated nobody else refers to, and it is no pipe before pipealloc(). *)
HandRight(p) ==
  /\ at[p] \notin {"pipe", "fds", "closing"} => hand[p] = <<>>
  /\ at[p] \notin {"closing", "exiting"} => last[p] = None
  /\ at[p] = "unused" => \A fd \in Fds : ofile[p][fd] = None
  /\ at[p] = "fds" => Len(hand[p]) = 2
  /\ Len(hand[p]) = 2 => hand[p][1] # hand[p][2]
  /\ at[p] \in {"pipe", "fds"} => \A f \in InHand(p) : ref[f] = 1
  /\ at[p] = "pipe" => \A f \in InHand(p) : type[f] = "none"
  /\ at[p] = "fds" => \A f \in InHand(p) : type[f] = "pipe"
  /\ \A fd \in Fds : ofile[p][fd] \in FileIds => type[ofile[p][fd]] = "pipe"
Handling == \A p \in Procs : HandRight(p)

Counted == \A f \in FileIds : ref[f] = Cardinality(Holders(f))

(* Each end of a pipe is one file in use or one pipeclose() to come.          *)
IsEnd(f, x, w)   == type[f] = "pipe" /\ pipe[f] = x /\ writable[f] = w
ToClose(p, x, w) == last[p] # None /\ last[p] = [pipe |-> x, writable |-> w]
OneEnd ==
  /\ \A f \in FileIds : type[f] = "pipe" => pipe[f] \in Pages /\ ref[f] >= 1
  /\ \A x \in Pages, w \in BOOLEAN :
       /\ \A f, g \in FileIds : IsEnd(f, x, w) /\ IsEnd(g, x, w) => f = g
       /\ \A p, q \in Procs : ToClose(p, x, w) /\ ToClose(q, x, w) => p = q
       /\ \A f \in FileIds, p \in Procs : ~(IsEnd(f, x, w) /\ ToClose(p, x, w))

OpenRight == \A x \in Pages :
  /\ x \in inuse => /\ readopen[x] <=> EndOpen(x, FALSE)
                    /\ writeopen[x] <=> EndOpen(x, TRUE)
  /\ x \in inuse <=> EndOpen(x, TRUE) \/ EndOpen(x, FALSE)

(* A process in a call has the end it uses open: it keeps the page in use.    *)
HasEnd(p, x, w) == \E fd \in Fds : ofile[p][fd] \in FileIds /\ IsEnd(ofile[p][fd], x, w)
CallRight(p) ==
  /\ at[p] \in Reading => pi[p] \in Pages /\ HasEnd(p, pi[p], FALSE)
  /\ at[p] \in Writing => pi[p] \in Pages /\ HasEnd(p, pi[p], TRUE)
  /\ at[p] \notin Reading \cup Writing => pi[p] = None
  /\ at[p] \in {"put", "doze"} => lock[pi[p]] = p
  /\ at[p] = "put" => left[p] > 0
  /\ unsaid[p] => at[p] \in {"put", "write"} /\ lock[pi[p]] = p
InCalls ==
  /\ \A p \in Procs : CallRight(p)
  /\ \A x \in Pages : lock[x] # None => pi[lock[x]] = x /\ at[lock[x]] \in {"put", "write", "doze"}

(* Why somebody is asleep in a pipe, or about to be.                          *)
Unsaid(x) == lock[x] # None /\ unsaid[lock[x]]
SleepRight(p) ==
  /\ at[p] = "rsleep" => writeopen[pi[p]] /\ (Unread(pi[p]) = 0 \/ pi[p] \in cut \/ Unsaid(pi[p]))
  /\ at[p] = "doze" => writeopen[pi[p]] /\ Unread(pi[p]) = 0
  /\ at[p] = "put" => readopen[pi[p]]
  /\ at[p] = "wsleep" => readopen[pi[p]] /\ Full(pi[p])
Asleep == \A p \in Procs : SleepRight(p)

FilesInv ==
  FileTypes /\ PipeTypes /\ Handling /\ Counted /\ OneEnd /\ OpenRight /\ InCalls /\ Asleep

-----------------------------------------------------------------------------
LEMMA FirstOfFacts ==
  ASSUME NEW S, S \subseteq Nat, S # {} PROVE FirstOf(S) \in S
<1> DEFINE R == OpToRel(<, Nat)
<1>1. IsWellFoundedOn(R, Nat) BY NatLessThanWellFounded
<1>2. PICK i \in S : \A j \in S : ~ (<<j, i>> \in R)
  <2>1. PICK k \in S : TRUE OBVIOUS
  <2> HIDE DEF R
  <2>2. \E i \in S : \A j \in S : ~ (<<j, i>> \in R) BY <1>1, <2>1, WFMin
  <2>3. QED BY <2>2
<1>3. ASSUME NEW j \in S PROVE i <= j
  <2>1. j \in Nat /\ i \in Nat OBVIOUS
  <2>2. j < i => <<j, i>> \in R BY <2>1 DEF OpToRel
  <2>3. <<j, i>> \notin R BY <1>2, Zenon
  <2>4. ~ (j < i) BY <2>2, <2>3, Zenon
  <2>5. QED BY <2>1, <2>4
<1>4. QED BY <1>3 DEF FirstOf

LEMMA TableFacts ==
  /\ FileIds \subseteq Nat /\ Fds \subseteq Nat /\ OfCall \notin Fds
  /\ None \notin FileIds /\ None \notin Ends
  /\ IsFiniteSet(Fds) /\ IsFiniteSet(Fds \cup {OfCall})
  /\ IsFiniteSet(Procs \X (Fds \cup {OfCall}))
<1>1. FileIds \subseteq Nat /\ Fds \subseteq Nat /\ OfCall \notin Fds /\ None \notin FileIds
      /\ None \notin Ends
  BY FilesAssumption DEF FileIds, Fds, OfCall
<1>2. IsFiniteSet(Fds)
  <2>1. 0 \in Int /\ NOFILE - 1 \in Int BY FilesAssumption
  <2>2. QED BY <2>1, FS_Interval, Zenon DEF Fds
<1>3. IsFiniteSet(Fds \cup {OfCall}) BY <1>2, FS_AddElement
<1>4. IsFiniteSet(Procs \X (Fds \cup {OfCall})) BY <1>3, PipeAssumption, FS_Product
<1>5. QED BY <1>1, <1>2, <1>3, <1>4

(* What the definition of Holders comes to, reference by reference.           *)
LEMMA HoldersFinite == \A f : IsFiniteSet(Holders(f)) /\ Cardinality(Holders(f)) \in Nat
<1>1. ASSUME NEW f PROVE IsFiniteSet(Holders(f)) /\ Cardinality(Holders(f)) \in Nat
  <2>1. Holders(f) \in SUBSET (Procs \X (Fds \cup {OfCall})) BY DEF Holders
  <2>2. IsFiniteSet(Holders(f)) BY <2>1, TableFacts, FS_Subset
  <2>3. QED BY <2>2, FS_CardinalityType
<1>2. QED BY <1>1

LEMMA HeldBy ==
  ASSUME NEW f, NEW q \in Procs
  PROVE  /\ \A fd \in Fds : <<q, fd>> \in Holders(f) <=> ofile[q][fd] = f
         /\ <<q, OfCall>> \in Holders(f) <=> f \in InHand(q)
BY TableFacts DEF Holders

(* What is to be shown of the references to a file after a step.              *)
LEMMA NextHolders ==
  ASSUME NEW f, NEW H, H \subseteq Procs \X (Fds \cup {OfCall}),
         \A q \in Procs : /\ \A fd \in Fds : ofile'[q][fd] = f <=> <<q, fd>> \in H
                          /\ f \in InHand(q)' <=> <<q, OfCall>> \in H
  PROVE  Holders(f)' = H
<1>1. ASSUME NEW h \in Procs \X (Fds \cup {OfCall})
      PROVE  h \in Holders(f)' <=> h \in H
  <2>1. h[1] \in Procs /\ (h[2] # OfCall => h[2] \in Fds) /\ h = <<h[1], h[2]>> OBVIOUS
  <2>2. QED BY <2>1 DEF Holders
<1>2. QED BY <1>1 DEF Holders

LEMMA SameHolders ==
  ASSUME NEW f,
         \A q \in Procs : /\ \A fd \in Fds : ofile'[q][fd] = f <=> ofile[q][fd] = f
                          /\ f \in InHand(q)' <=> f \in InHand(q)
  PROVE  Holders(f)' = Holders(f)
<1>1. PICK H : H = Holders(f) OBVIOUS
<1>2. H \subseteq Procs \X (Fds \cup {OfCall}) BY <1>1 DEF Holders
<1>3. \A q \in Procs : /\ \A fd \in Fds : ofile'[q][fd] = f <=> <<q, fd>> \in H
                       /\ f \in InHand(q)' <=> <<q, OfCall>> \in H
  BY <1>1, HeldBy
<1>4. Holders(f)' = H BY <1>2, <1>3, NextHolders
<1>5. QED BY <1>1, <1>4

LEMMA Exchange ==
  ASSUME NEW S, NEW h, NEW k, IsFiniteSet(S), Cardinality(S) \in Nat, h \in S, k \notin S
  PROVE  Cardinality((S \ {h}) \cup {k}) = Cardinality(S)
<1>1. IsFiniteSet(S \ {h}) /\ Cardinality(S \ {h}) = Cardinality(S) - 1 BY FS_RemoveElement
<1>2. k \notin S \ {h} OBVIOUS
<1>3. Cardinality((S \ {h}) \cup {k}) = Cardinality(S) - 1 + 1 BY <1>1, <1>2, FS_AddElement
<1>4. QED BY <1>3

(* A file with one reference has no other holder.                             *)
LEMMA SoleHolder ==
  ASSUME Counted, NEW f \in FileIds, ref[f] = 1, NEW h \in Holders(f), NEW k \in Holders(f)
  PROVE  h = k
<1>1. IsFiniteSet(Holders(f)) /\ Cardinality(Holders(f)) = 1 BY HoldersFinite DEF Counted
<1>2. PICK x : Holders(f) = {x} BY <1>1, FS_Singleton
<1>3. QED BY <1>2

LEMMA HeldOnce ==
  ASSUME Counted, NEW f \in FileIds, NEW h \in Holders(f)
  PROVE  ref[f] # 0
<1>1. IsFiniteSet(Holders(f)) /\ Holders(f) # {} BY HoldersFinite
<1>2. Cardinality(Holders(f)) # 0 BY <1>1, FS_EmptySet
<1>3. QED BY <1>2 DEF Counted

(* What a call can have in hand, and how that changes.                        *)
Handful(s) == {s[i] : i \in DOMAIN s}
LEMMA HandsFacts ==
  ASSUME NEW s \in Hands
  PROVE  /\ Len(s) \in {0, 1, 2} /\ Handful(s) \subseteq FileIds
         /\ Len(s) = 0 => s = <<>> /\ Handful(s) = {}
         /\ Len(s) = 1 => s = <<s[1]>> /\ s[1] \in FileIds /\ Handful(s) = {s[1]}
         /\ Len(s) = 2 => /\ s = <<s[1], s[2]>> /\ s[1] \in FileIds /\ s[2] \in FileIds
                          /\ Handful(s) = {s[1], s[2]}
<1>1. CASE s = <<>>
  <2>1. Len(s) = 0 /\ DOMAIN s = {} BY <1>1
  <2>2. QED BY <1>1, <2>1 DEF Handful
<1>2. CASE \E f \in FileIds : s = <<f>>
  <2>1. PICK f \in FileIds : s = <<f>> BY <1>2
  <2>2. Len(s) = 1 /\ DOMAIN s = {1} /\ s[1] = f BY <2>1
  <2>3. QED BY <2>1, <2>2 DEF Handful
<1>3. CASE \E f, g \in FileIds : s = <<f, g>>
  <2>1. PICK f \in FileIds, g \in FileIds : s = <<f, g>> BY <1>3
  <2>2. Len(s) = 2 /\ DOMAIN s = {1, 2} /\ s[1] = f /\ s[2] = g BY <2>1
  <2>3. QED BY <2>1, <2>2 DEF Handful
<1>4. QED BY <1>1, <1>2, <1>3 DEF Hands

LEMMA OneInHand ==
  ASSUME NEW f \in FileIds
  PROVE  <<f>> \in Hands /\ Handful(<<f>>) = {f} /\ Len(<<f>>) = 1
<1>1. <<f>> \in Hands BY DEF Hands
<1>2. Len(<<f>>) = 1 /\ <<f>>[1] = f OBVIOUS
<1>3. QED BY <1>1, <1>2, HandsFacts

LEMMA TwoInHand ==
  ASSUME NEW f \in FileIds, NEW g \in FileIds
  PROVE  <<f, g>> \in Hands /\ Handful(<<f, g>>) = {f, g} /\ Len(<<f, g>>) = 2
<1>1. <<f, g>> \in Hands BY DEF Hands
<1>2. Len(<<f, g>>) = 2 /\ <<f, g>>[1] = f /\ <<f, g>>[2] = g OBVIOUS
<1>3. QED BY <1>1, <1>2, HandsFacts

LEMMA NoneInHand == <<>> \in Hands /\ Handful(<<>>) = {}
<1>1. <<>> \in Hands BY DEF Hands
<1>2. Len(<<>>) = 0 OBVIOUS
<1>3. QED BY <1>1, <1>2, HandsFacts

LEMMA Append2 ==
  ASSUME NEW S, NEW g \in S, NEW f \in S PROVE Append(<<g>>, f) = <<g, f>>
<1> DEFINE a == Append(<<g>>, f)  b == <<g, f>>
<1>1. <<g>> \in Seq(S) /\ Len(<<g>>) = 1 /\ <<g>>[1] = g OBVIOUS
<1>2. a \in Seq(S) /\ Len(a) = 2 /\ a[1] = g /\ a[2] = f BY <1>1
<1>3. b \in Seq(S) /\ Len(b) = 2 /\ b[1] = g /\ b[2] = f OBVIOUS
<1> HIDE DEF a, b
<1>4. Len(a) = Len(b) /\ \A i \in 1 .. Len(a) : a[i] = b[i] BY <1>2, <1>3
<1>5. a = b BY <1>2, <1>3, <1>4, SeqEqual
<1>6. QED BY <1>5 DEF a, b

LEMMA PutInHand ==
  ASSUME NEW s \in Hands, NEW f \in FileIds, Len(s) \in {0, 1}
  PROVE  /\ Append(s, f) \in Hands /\ Len(Append(s, f)) = Len(s) + 1
         /\ Handful(Append(s, f)) = Handful(s) \cup {f}
         /\ Len(s) = 1 => Append(s, f)[1] = s[1] /\ Append(s, f)[2] = f
<1>1. CASE Len(s) = 0
  <2>1. Append(s, f) = <<f>> /\ Handful(s) = {} BY <1>1, HandsFacts
  <2>2. QED BY <1>1, <2>1, OneInHand
<1>2. CASE Len(s) = 1
  <2>1. s = <<s[1]>> /\ s[1] \in FileIds /\ Handful(s) = {s[1]} BY <1>2, HandsFacts
  <2>2. PICK g \in FileIds : s = <<g>> BY <2>1
  <2>3. Append(s, f) = <<g, f>> BY <2>2, Append2
  <2>4. s[1] = g BY <2>2
  <2>5. <<g, f>>[1] = g /\ <<g, f>>[2] = f OBVIOUS
  <2>6. QED BY <1>2, <2>1, <2>3, <2>4, <2>5, TwoInHand
<1>3. QED BY <1>1, <1>2

LEMMA TakeFromHand ==
  ASSUME NEW s \in Hands, s # <<>>, Len(s) = 2 => s[1] # s[2]
  PROVE  /\ Tail(s) \in Hands /\ s[1] \in FileIds
         /\ Len(s) > 1 <=> Tail(s) # <<>>
         /\ Len(Tail(s)) # 2 /\ s[1] \in Handful(s)
         /\ Handful(Tail(s)) = Handful(s) \ {s[1]}
<1>1. CASE Len(s) = 1
  <2>1. PICK g \in FileIds : s = <<g>> BY <1>1, HandsFacts
  <2>2. Tail(s) = <<>> /\ s[1] = g BY <2>1
  <2>3. Handful(s) = {g} BY <2>1, OneInHand
  <2>4. Len(<<>>) = 0 OBVIOUS
  <2>5. Handful(Tail(s)) = Handful(s) \ {s[1]} BY <2>2, <2>3, NoneInHand
  <2>6. ~ (Len(s) > 1) /\ Len(Tail(s)) # 2 BY <1>1, <2>2, <2>4
  <2>7. QED BY <2>2, <2>3, <2>5, <2>6, NoneInHand
<1>2. CASE Len(s) = 2
  <2>1. PICK g \in FileIds, h \in FileIds : s = <<g, h>> BY <1>2, HandsFacts
  <2>2. Tail(s) = <<h>> /\ s[1] = g /\ s[2] = h BY <2>1
  <2>3. Handful(s) = {g, h} BY <2>1, TwoInHand
  <2>4. g # h BY <1>2, <2>2
  <2>5. <<h>> # <<>> OBVIOUS
  <2>6. Handful(Tail(s)) = Handful(s) \ {s[1]} BY <2>2, <2>3, <2>4, OneInHand
  <2>7. Len(s) > 1 /\ Len(Tail(s)) # 2 BY <1>2, <2>2, OneInHand
  <2>8. QED BY <2>2, <2>3, <2>5, <2>6, <2>7, OneInHand
<1>3. Len(s) # 0 BY HandsFacts
<1>4. QED BY <1>1, <1>2, <1>3, HandsFacts

LEMMA HandChange ==
  ASSUME NEW p \in Procs, NEW s \in Hands, hand \in [Procs -> Hands],
         hand' = [hand EXCEPT ![p] = s]
  PROVE  /\ hand' \in [Procs -> Hands] /\ hand'[p] = s
         /\ \A q \in Procs : InHand(q)' = IF q = p THEN Handful(s) ELSE InHand(q)
         /\ \A q \in Procs : InHand(q) = Handful(hand[q])
<1>1. \A q \in Procs : hand'[q] = IF q = p THEN s ELSE hand[q] OBVIOUS
<1>2. hand' \in [Procs -> Hands] OBVIOUS
<1>3. QED BY <1>1, <1>2 DEF InHand, Handful

-----------------------------------------------------------------------------
(* The references, action by action.                                          *)
LEMMA CountedSame ==
  ASSUME Counted, ref' = ref, ofile' = ofile, hand' = hand PROVE Counted'
<1>1. \A f \in FileIds, q \in Procs : f \in InHand(q)' <=> f \in InHand(q) BY DEF InHand
<1>2. \A f \in FileIds : Holders(f)' = Holders(f) BY <1>1, SameHolders
<1>3. QED BY <1>2 DEF Counted

(* One reference appears or goes, or one takes the place of another.          *)
LEMMA CountedNext ==
  ASSUME FileTypes, Counted, NEW g \in FileIds, NEW H, IsFiniteSet(H),
         \A f \in FileIds : f # g => Holders(f)' = Holders(f) /\ ref'[f] = ref[f],
         Holders(g)' = H, ref'[g] = Cardinality(H)
  PROVE  Counted'
BY DEF Counted

LEMMA CountedDup ==
  ASSUME FileTypes, Counted, NEW p \in Procs, NEW fd \in Fds, sys_dup(p, fd) PROVE Counted'
<1> DEFINE g == ofile[p][fd]  e == FirstOf(Empty(p))
<1>1. e \in Empty(p) BY TableFacts, FirstOfFacts DEF sys_dup, Empty
<1>2. e \in Fds /\ ofile[p][e] = None /\ g \in FileIds BY <1>1, TableFacts DEF FileTypes, sys_dup, Empty
<1> HIDE DEF e
<1>3. \A q \in Procs, d \in Fds : ofile'[q][d] = IF q = p /\ d = e THEN g ELSE ofile[q][d]
  BY <1>2 DEF sys_dup, FileTypes, e
<1>4. \A f, q : InHand(q)' = InHand(q) BY DEF sys_dup, InHand
<1>5. ASSUME NEW f \in FileIds, f # g PROVE Holders(f)' = Holders(f) /\ ref'[f] = ref[f]
  <2>1. \A q \in Procs, d \in Fds : ofile'[q][d] = f <=> ofile[q][d] = f
    BY <1>2, <1>3, <1>5, TableFacts
  <2>2. Holders(f)' = Holders(f) BY <2>1, <1>4, SameHolders
  <2>3. QED BY <2>2, <1>5, <1>2 DEF sys_dup, FileTypes
<1>6. PICK h : h = g OBVIOUS
<1>7. PICK H : H = Holders(h) \cup {<<p, e>>} OBVIOUS
<1>8. Holders(h)' = H
  <2>1. H \subseteq Procs \X (Fds \cup {OfCall}) BY <1>2, <1>7 DEF Holders
  <2>2. ASSUME NEW q \in Procs
        PROVE  /\ \A d \in Fds : ofile'[q][d] = h <=> <<q, d>> \in H
               /\ h \in InHand(q)' <=> <<q, OfCall>> \in H
    BY <1>2, <1>3, <1>4, <1>6, <1>7, HeldBy, TableFacts
  <2>3. QED BY <2>1, <2>2, NextHolders
<1>9. <<p, e>> \notin Holders(h)
  <2>1. ofile[p][e] # h BY <1>2, <1>6, TableFacts
  <2>2. QED BY <1>2, <2>1, HeldBy
<1>10. IsFiniteSet(H) /\ Cardinality(H) = Cardinality(Holders(h)) + 1
  BY <1>7, <1>9, HoldersFinite, FS_AddElement
<1>11. ref'[h] = ref[h] + 1 BY <1>2, <1>6 DEF sys_dup, FileTypes
<1>12. QED BY <1>2, <1>5, <1>6, <1>8, <1>10, <1>11, CountedNext DEF Counted

LEMMA CountedSysClose ==
  ASSUME FileTypes, Handling, Counted, NEW p \in Procs, NEW fd \in Fds, sys_close(p, fd)
  PROVE  Counted'
<1>1. PICK g : g = ofile[p][fd] OBVIOUS
<1>2. g \in FileIds /\ g # None BY <1>1, TableFacts DEF FileTypes, sys_close
<1>3. \A q \in Procs, d \in Fds : ofile'[q][d] = IF q = p /\ d = fd THEN None ELSE ofile[q][d]
  BY DEF sys_close, FileTypes
<1>4. hand[p] = <<>> BY DEF Handling, HandRight, sys_close, Running
<1>5. hand' = [hand EXCEPT ![p] = <<g>>] BY <1>1 DEF sys_close, Closing
<1>6. \A q \in Procs : InHand(q)' = IF q = p THEN {g} ELSE InHand(q)
  BY <1>2, <1>5, OneInHand, HandChange DEF FileTypes
<1>7. InHand(p) = {} BY <1>4, NoneInHand DEF InHand, Handful
<1>8. ASSUME NEW f \in FileIds, f # g PROVE Holders(f)' = Holders(f) /\ ref'[f] = ref[f]
  <2>1. \A q \in Procs, d \in Fds : ofile'[q][d] = f <=> ofile[q][d] = f
    BY <1>1, <1>3, <1>8, TableFacts
  <2>2. \A q \in Procs : f \in InHand(q)' <=> f \in InHand(q) BY <1>6, <1>7, <1>8
  <2>3. Holders(f)' = Holders(f) BY <2>1, <2>2, SameHolders
  <2>4. QED BY <2>3 DEF sys_close
<1>9. PICK H : H = (Holders(g) \ {<<p, fd>>}) \cup {<<p, OfCall>>} OBVIOUS
<1>10. Holders(g)' = H
  <2>1. H \subseteq Procs \X (Fds \cup {OfCall}) BY <1>9 DEF Holders
  <2>2. ASSUME NEW q \in Procs
        PROVE  /\ \A d \in Fds : ofile'[q][d] = g <=> <<q, d>> \in H
               /\ g \in InHand(q)' <=> <<q, OfCall>> \in H
    BY <1>1, <1>2, <1>3, <1>6, <1>7, <1>9, HeldBy, TableFacts
  <2>3. QED BY <2>1, <2>2, NextHolders
<1>11. <<p, fd>> \in Holders(g) /\ <<p, OfCall>> \notin Holders(g)
  BY <1>1, <1>7, HeldBy
<1>12. IsFiniteSet(H) BY <1>9, HoldersFinite, FS_AddElement, FS_RemoveElement
<1>13. Cardinality(H) = Cardinality(Holders(g)) BY <1>9, <1>11, HoldersFinite, Exchange
<1>14. ref' = ref BY DEF sys_close
<1>15. QED BY <1>2, <1>8, <1>10, <1>12, <1>13, <1>14, CountedNext DEF Counted

LEMMA CountedAlloc ==
  ASSUME FileTypes, Handling, Counted, NEW p \in Procs, filealloc(p) PROVE Counted'
<1>1. hand[p] \in Hands /\ Len(hand[p]) \in {0, 1}
  <2>1. CASE Parent(p)
    <3>1. hand[p] = <<>> BY <2>1 DEF Handling, HandRight, Parent, Running
    <3>2. QED BY <3>1, NoneInHand
  <2>2. CASE Len(hand[p]) = 1 BY <2>2 DEF FileTypes
  <2>3. QED BY <2>1, <2>2 DEF filealloc
<1>2. ofile' = ofile BY DEF filealloc
<1>3. CASE Unused = {}
  <2>1. hand' = hand BY <1>3 DEF filealloc, Closing, FileTypes
  <2>2. QED BY <1>3, <2>1, <1>2, CountedSame DEF filealloc
<1>4. CASE Unused # {}
  <2>1. PICK g : g = FirstOf(Unused) OBVIOUS
  <2>2. g \in Unused BY <1>4, <2>1, TableFacts, FirstOfFacts DEF Unused
  <2>3. g \in FileIds /\ ref[g] = 0 BY <2>2 DEF Unused
  <2>4. PICK s : s = Append(hand[p], g) OBVIOUS
  <2>5. s \in Hands /\ Handful(s) = Handful(hand[p]) \cup {g} BY <1>1, <2>3, <2>4, PutInHand
  <2>6. hand' = [hand EXCEPT ![p] = s] BY <1>4, <2>1, <2>4 DEF filealloc, FileTypes
  <2>7. \A q \in Procs : InHand(q)' = IF q = p THEN InHand(q) \cup {g} ELSE InHand(q)
    BY <2>5, <2>6, HandChange DEF FileTypes
  <2>8. Holders(g) = {}
    <3>1. Cardinality(Holders(g)) = 0 BY <2>3 DEF Counted
    <3>2. QED BY <3>1, HoldersFinite, FS_EmptySet
  <2>9. ASSUME NEW f \in FileIds, f # g PROVE Holders(f)' = Holders(f) /\ ref'[f] = ref[f]
    <3>1. \A q \in Procs : f \in InHand(q)' <=> f \in InHand(q) BY <2>7, <2>9
    <3>2. Holders(f)' = Holders(f) BY <3>1, <1>2, SameHolders
    <3>3. QED BY <3>2, <2>9, <2>3, <1>4, <2>1 DEF filealloc, FileTypes
  <2>10. Holders(g)' = {<<p, OfCall>>}
    <3>1. {<<p, OfCall>>} \subseteq Procs \X (Fds \cup {OfCall}) OBVIOUS
    <3>2. ASSUME NEW q \in Procs
          PROVE  /\ \A d \in Fds : ofile'[q][d] = g <=> <<q, d>> \in {<<p, OfCall>>}
                 /\ g \in InHand(q)' <=> <<q, OfCall>> \in {<<p, OfCall>>}
      <4>1. \A d \in Fds : ofile[q][d] # g BY <2>8, HeldBy
      <4>2. g \notin InHand(q) BY <2>8, HeldBy
      <4>3. QED BY <4>1, <4>2, <1>2, <2>7, TableFacts
    <3>3. QED BY <3>1, <3>2, NextHolders
  <2>11. IsFiniteSet({<<p, OfCall>>}) /\ Cardinality({<<p, OfCall>>}) = 1 BY FS_Singleton
  <2>12. ref'[g] = 1 BY <1>4, <2>1, <2>3 DEF filealloc, FileTypes
  <2>13. QED BY <2>3, <2>9, <2>10, <2>11, <2>12, CountedNext
<1>5. QED BY <1>3, <1>4

(* The two descriptors that sys_pipe() finds are different.                   *)
LEMMA TwoFree ==
  ASSUME NEW p \in Procs, Cardinality(Empty(p)) >= 2,
         NEW fd0, fd0 = FirstOf(Empty(p)), NEW fd1, fd1 = FirstOf(Empty(p) \ {fd0})
  PROVE  fd0 \in Empty(p) /\ fd1 \in Empty(p) /\ fd0 # fd1
<1>1. Empty(p) \subseteq Nat /\ IsFiniteSet(Empty(p)) BY TableFacts, FS_Subset DEF Empty
<1>2. Empty(p) # {} BY FS_EmptySet
<1>3. fd0 \in Empty(p) BY <1>1, <1>2, FirstOfFacts
<1>4. Cardinality(Empty(p) \ {fd0}) = Cardinality(Empty(p)) - 1 BY <1>1, <1>3, FS_RemoveElement
<1>5. Cardinality(Empty(p)) \in Nat BY <1>1, FS_CardinalityType
<1>6. Empty(p) \ {fd0} # {} BY <1>4, <1>5, FS_EmptySet
<1>7. fd1 \in Empty(p) \ {fd0} BY <1>1, <1>6, FirstOfFacts
<1>8. QED BY <1>3, <1>7

LEMMA CountedFds ==
  ASSUME FileTypes, Handling, Counted, NEW p \in Procs, PipeFds(p) PROVE Counted'
<1>1. hand[p] \in Hands /\ Len(hand[p]) = 2 /\ hand[p][1] # hand[p][2]
  BY DEF PipeFds, FileTypes, Handling, HandRight
<1>2. PICK r \in FileIds, w \in FileIds :
        r = hand[p][1] /\ w = hand[p][2] /\ r # w /\ InHand(p) = {r, w}
  BY <1>1, HandsFacts DEF InHand, Handful
<1>3. ref' = ref BY DEF PipeFds
<1>4. CASE Closing(p, Undo(p)) /\ UNCHANGED ofile
  <2>1. hand' = hand BY <1>4 DEF Closing, Undo, FileTypes
  <2>2. QED BY <1>3, <1>4, <2>1, CountedSame
<1>5. ASSUME Cardinality(Empty(p)) >= 2, NEW fd0, fd0 = FirstOf(Empty(p)),
             NEW fd1, fd1 = FirstOf(Empty(p) \ {fd0}),
             ofile' = [ofile EXCEPT ![p][fd0] = hand[p][1], ![p][fd1] = hand[p][2]],
             Closing(p, <<>>)
      PROVE  Counted'
  <2>1. fd0 \in Fds /\ fd1 \in Fds /\ fd0 # fd1 /\ ofile[p][fd0] = None /\ ofile[p][fd1] = None
    BY <1>5, TwoFree DEF Empty
  <2>2. \A q \in Procs, d \in Fds : ofile'[q][d] =
          IF q = p /\ d = fd0 THEN r ELSE IF q = p /\ d = fd1 THEN w ELSE ofile[q][d]
    BY <1>2, <1>5, <2>1 DEF FileTypes
  <2>3. hand' = [hand EXCEPT ![p] = <<>>] BY <1>5 DEF Closing
  <2>4. \A q \in Procs : InHand(q)' = IF q = p THEN {} ELSE InHand(q)
    BY <2>3, NoneInHand, HandChange DEF FileTypes
  <2>5. ASSUME NEW f \in FileIds, f # r, f # w PROVE Holders(f)' = Holders(f)
    <3>1. \A q \in Procs, d \in Fds : ofile'[q][d] = f <=> ofile[q][d] = f
      BY <2>1, <2>2, <2>5, TableFacts
    <3>2. \A q \in Procs : f \in InHand(q)' <=> f \in InHand(q) BY <1>2, <2>4, <2>5
    <3>3. QED BY <3>1, <3>2, SameHolders
  <2>6. ASSUME NEW f \in FileIds, NEW e \in Fds, (f = r /\ e = fd0) \/ (f = w /\ e = fd1)
        PROVE  Cardinality(Holders(f)') = Cardinality(Holders(f))
    <3>1. PICK H : H = (Holders(f) \ {<<p, OfCall>>}) \cup {<<p, e>>} OBVIOUS
    <3>2. Holders(f)' = H
      <4>1. H \subseteq Procs \X (Fds \cup {OfCall}) BY <3>1 DEF Holders
      <4>2. ASSUME NEW q \in Procs
            PROVE  /\ \A d \in Fds : ofile'[q][d] = f <=> <<q, d>> \in H
                   /\ f \in InHand(q)' <=> <<q, OfCall>> \in H
        <5>1. ASSUME NEW d \in Fds PROVE ofile'[q][d] = f <=> <<q, d>> \in H
          <6>1. <<q, d>> \in H <=> ofile[q][d] = f \/ (q = p /\ d = e)
            BY <3>1, HeldBy, TableFacts
          <6>2. QED BY <6>1, <1>2, <2>1, <2>2, <2>6, TableFacts
        <5>2. f \in InHand(q)' <=> <<q, OfCall>> \in H
          BY <1>2, <2>4, <2>6, <3>1, HeldBy, TableFacts
        <5>3. QED BY <5>1, <5>2
      <4>3. QED BY <4>1, <4>2, NextHolders
    <3>3. <<p, OfCall>> \in Holders(f) BY <1>2, <2>6, HeldBy
    <3>4. <<p, e>> \notin Holders(f)
      <4>1. ofile[p][e] # f BY <2>1, <2>6, TableFacts
      <4>2. QED BY <4>1, HeldBy
    <3>5. QED BY <3>1, <3>2, <3>3, <3>4, HoldersFinite, Exchange
  <2>7. QED BY <1>2, <1>3, <2>1, <2>5, <2>6 DEF Counted
<1>6. QED BY <1>4, <1>5 DEF PipeFds

LEMMA CountedFork ==
  ASSUME FileTypes, Handling, Counted, NEW p \in Procs, NEW q \in Procs, fork(p, q)
  PROVE  Counted'
<1>1. p # q BY DEF fork, Parent, Running
<1>2. hand[q] = <<>> /\ \A fd \in Fds : ofile[q][fd] = None BY DEF fork, Handling, HandRight
<1>3. InHand(q) = {} BY <1>2, NoneInHand DEF InHand, Handful
<1>4. hand' = hand BY DEF fork
<1>5. \A o \in Procs, d \in Fds : ofile'[o][d] = IF o = q THEN ofile[p][d] ELSE ofile[o][d]
  BY DEF fork, FileTypes
<1>6. ASSUME NEW f \in FileIds PROVE ref'[f] = Cardinality(Holders(f)')
  <2>1. PICK D : D = {d \in Fds : ofile[p][d] = f} OBVIOUS
  <2>2. PICK H : H = Holders(f) \cup ({q} \X D) OBVIOUS
  <2>3. Holders(f)' = H
    <3>1. H \subseteq Procs \X (Fds \cup {OfCall}) BY <2>1, <2>2 DEF Holders
    <3>2. ASSUME NEW o \in Procs
          PROVE  /\ \A d \in Fds : ofile'[o][d] = f <=> <<o, d>> \in H
                 /\ f \in InHand(o)' <=> <<o, OfCall>> \in H
      <4>1. ASSUME NEW d \in Fds PROVE ofile'[o][d] = f <=> <<o, d>> \in H
        <5>1. <<o, d>> \in H <=> ofile[o][d] = f \/ (o = q /\ ofile[p][d] = f)
          BY <2>1, <2>2, HeldBy
        <5>2. QED BY <5>1, <1>2, <1>5, TableFacts
      <4>2. f \in InHand(o)' <=> f \in InHand(o) BY <1>4 DEF InHand
      <4>3. <<o, OfCall>> \in H <=> f \in InHand(o)
        <5>1. <<o, OfCall>> \notin {q} \X D BY <2>1, TableFacts
        <5>2. QED BY <2>2, <5>1, HeldBy
      <4>4. QED BY <4>1, <4>2, <4>3
    <3>3. QED BY <3>1, <3>2, NextHolders
  <2>4. IsFiniteSet(D) BY <2>1, TableFacts, FS_Subset
  <2>5. IsFiniteSet({q}) /\ Cardinality({q}) = 1 BY FS_Singleton
  <2>6. IsFiniteSet({q} \X D) /\ Cardinality({q} \X D) = Cardinality(D)
    <3>1. IsFiniteSet({q} \X D) /\ Cardinality({q} \X D) = Cardinality({q}) * Cardinality(D)
      BY <2>4, <2>5, FS_Product
    <3>2. Cardinality(D) \in Nat BY <2>4, FS_CardinalityType
    <3>3. QED BY <2>5, <3>1, <3>2
  <2>7. Holders(f) \cap ({q} \X D) = {}
    <3>1. ASSUME NEW h \in Holders(f), h \in {q} \X D PROVE FALSE
      <4>1. PICK d \in D : h = <<q, d>> BY <3>1
      <4>2. d \in Fds BY <2>1
      <4>3. ofile[q][d] = f BY <3>1, <4>1, <4>2, HeldBy
      <4>4. f = None BY <4>2, <4>3, <1>2
      <4>5. QED BY <4>4, TableFacts
    <3>2. QED BY <3>1
  <2>8. Cardinality(H) = Cardinality(Holders(f)) + Cardinality(D)
    <3>1. Cardinality(Holders(f) \cap ({q} \X D)) = 0 BY <2>7, FS_EmptySet
    <3>2. Cardinality(Holders(f) \cup ({q} \X D)) =
            Cardinality(Holders(f)) + Cardinality({q} \X D)
              - Cardinality(Holders(f) \cap ({q} \X D))
      BY <2>6, HoldersFinite, FS_Union
    <3>3. Cardinality(D) \in Nat BY <2>4, FS_CardinalityType
    <3>4. QED BY <2>2, <2>6, <3>1, <3>2, <3>3, HoldersFinite
  <2>9. ref'[f] = ref[f] + Cardinality(D) BY <2>1 DEF fork, DupAll, Refs
  <2>10. QED BY <2>3, <2>8, <2>9 DEF Counted
<1>7. QED BY <1>6 DEF Counted

(* fileclose(): one holder of the file less.                                  *)
LEMMA CountedLess ==
  ASSUME FileTypes, Counted, NEW g \in FileIds, NEW h \in Holders(g),
         ref' = [ref EXCEPT ![g] = @ - 1], Holders(g)' = Holders(g) \ {h},
         \A f \in FileIds : f # g => Holders(f)' = Holders(f)
  PROVE  Counted'
<1>1. PICK H : H = Holders(g) \ {h} OBVIOUS
<1>2. IsFiniteSet(H) /\ Cardinality(H) = Cardinality(Holders(g)) - 1
  BY <1>1, HoldersFinite, FS_RemoveElement
<1>3. ref'[g] = ref[g] - 1 /\ \A f \in FileIds : f # g => ref'[f] = ref[f] BY DEF FileTypes
<1>4. QED BY <1>1, <1>2, <1>3, CountedNext DEF Counted

LEMMA CountedInHand ==
  ASSUME FileTypes, Handling, Counted, NEW p \in Procs, CloseInHand(p) PROVE Counted'
<1>1. PICK g : g = hand[p][1] OBVIOUS
<1>2. hand[p] \in Hands /\ hand[p] # <<>> /\ (Len(hand[p]) = 2 => hand[p][1] # hand[p][2])
  BY DEF CloseInHand, FileTypes, Handling, HandRight
<1>3. PICK s \in Hands : s = Tail(hand[p]) /\ Handful(s) = Handful(hand[p]) \ {g}
  BY <1>1, <1>2, TakeFromHand
<1>4. g \in FileIds /\ g \in Handful(hand[p]) BY <1>1, <1>2, TakeFromHand
<1>5. hand' = [hand EXCEPT ![p] = s] BY <1>3 DEF CloseInHand, FileTypes
<1>6. \A q \in Procs : InHand(q)' = IF q = p THEN InHand(q) \ {g} ELSE InHand(q)
  BY <1>3, <1>5, HandChange DEF FileTypes
<1>7. ofile' = ofile /\ ref' = [ref EXCEPT ![g] = @ - 1] BY <1>1 DEF CloseInHand, fileclose
<1>8. \A f \in FileIds : f # g => Holders(f)' = Holders(f)
  <2>1. ASSUME NEW f \in FileIds, f # g PROVE Holders(f)' = Holders(f)
    <3>1. \A q \in Procs : f \in InHand(q)' <=> f \in InHand(q) BY <1>6, <2>1
    <3>2. QED BY <3>1, <1>7, SameHolders
  <2>2. QED BY <2>1
<1>9. PICK H : H = Holders(g) \ {<<p, OfCall>>} OBVIOUS
<1>10. Holders(g)' = H
  <2>1. H \subseteq Procs \X (Fds \cup {OfCall}) BY <1>9 DEF Holders
  <2>2. ASSUME NEW q \in Procs
        PROVE  /\ \A d \in Fds : ofile'[q][d] = g <=> <<q, d>> \in H
               /\ g \in InHand(q)' <=> <<q, OfCall>> \in H
    BY <1>6, <1>7, <1>9, HeldBy, TableFacts
  <2>3. QED BY <2>1, <2>2, NextHolders
<1>11. <<p, OfCall>> \in Holders(g) BY <1>4, HeldBy DEF InHand, Handful
<1>12. QED BY <1>4, <1>7, <1>8, <1>9, <1>10, <1>11, CountedLess

LEMMA CountedOpen ==
  ASSUME FileTypes, Handling, Counted, NEW p \in Procs, CloseOpen(p) PROVE Counted'
<1>1. PICK fd : fd = FirstOf(Open(p)) OBVIOUS
<1>2. fd \in Open(p) BY <1>1, TableFacts, FirstOfFacts DEF CloseOpen, Open
<1>3. PICK g : g = ofile[p][fd] OBVIOUS
<1>4. fd \in Fds /\ g \in FileIds BY <1>2, <1>3 DEF Open, Empty, FileTypes
<1>5. \A q \in Procs, d \in Fds : ofile'[q][d] = IF q = p /\ d = fd THEN None ELSE ofile[q][d]
  BY <1>1, <1>4 DEF CloseOpen, FileTypes
<1>6. hand' = hand /\ ref' = [ref EXCEPT ![g] = @ - 1] BY <1>1, <1>3 DEF CloseOpen, fileclose
<1>7. \A f, q : f \in InHand(q)' <=> f \in InHand(q) BY <1>6 DEF InHand
<1>8. \A f \in FileIds : f # g => Holders(f)' = Holders(f)
  <2>1. ASSUME NEW f \in FileIds, f # g PROVE Holders(f)' = Holders(f)
    <3>1. \A q \in Procs, d \in Fds : ofile'[q][d] = f <=> ofile[q][d] = f
      BY <1>3, <1>5, <2>1, TableFacts
    <3>2. QED BY <3>1, <1>7, SameHolders
  <2>2. QED BY <2>1
<1>9. PICK H : H = Holders(g) \ {<<p, fd>>} OBVIOUS
<1>10. Holders(g)' = H
  <2>1. H \subseteq Procs \X (Fds \cup {OfCall}) BY <1>9 DEF Holders
  <2>2. ASSUME NEW q \in Procs
        PROVE  /\ \A d \in Fds : ofile'[q][d] = g <=> <<q, d>> \in H
               /\ g \in InHand(q)' <=> <<q, OfCall>> \in H
    BY <1>4, <1>5, <1>7, <1>9, HeldBy, TableFacts
  <2>3. QED BY <2>1, <2>2, NextHolders
<1>11. <<p, fd>> \in Holders(g) BY <1>3, <1>4, HeldBy
<1>12. QED BY <1>4, <1>6, <1>8, <1>9, <1>10, <1>11, CountedLess

(* The other actions leave the references alone.                              *)
LEMMA CountedStep ==
  ASSUME FileTypes, Handling, Counted, [Next]_vars PROVE Counted'
<1>1. ASSUME NEW p \in Procs, (Call(p) \/ Kill(p)) /\ UNCHANGED fileVars PROVE Counted'
  BY <1>1, CountedSame DEF fileVars
<1>2. ASSUME NEW p \in Procs, NEW fd \in Fds, NEW l, NEW n, ReadWrite(p, fd, n, l) PROVE Counted'
  BY <1>2, CountedSame DEF ReadWrite, fileVars
<1>3. ASSUME NEW p \in Procs, Return(p) \/ exit(p) \/ ClosePipe(p) PROVE Counted'
  <2>1. CASE Return(p) BY <2>1, CountedSame DEF Return, fileVars
  <2>2. CASE exit(p) BY <2>2, CountedSame DEF exit, fileVars
  <2>3. CASE ClosePipe(p) BY <2>3, CountedSame DEF ClosePipe
  <2>4. QED BY <1>3, <2>1, <2>2, <2>3
<1>4. ASSUME NEW p \in Procs, pipealloc(p) PROVE Counted'
  <2>1. hand' = hand BY <1>4 DEF pipealloc, Closing, FileTypes
  <2>2. QED BY <1>4, <2>1, CountedSame DEF pipealloc
<1>5. CASE UNCHANGED vars BY <1>5, CountedSame DEF vars, fileVars
<1>6. QED
  BY <1>1, <1>2, <1>3, <1>4, <1>5, CountedDup, CountedSysClose, CountedAlloc, CountedFds,
     CountedFork, CountedInHand, CountedOpen DEF Next

-----------------------------------------------------------------------------
(* Counting bytes modulo 2^32.                                                *)
LEMMA ModIs ==
  ASSUME NEW n \in Nat \ {0}, NEW q \in Int, NEW r \in 0 .. n - 1, NEW a \in Int, a = n * q + r
  PROVE  a % n = r
OBVIOUS

LEMMA ModCase ==
  ASSUME NEW n \in Nat \ {0}, NEW a \in Int, -n <= a, a < 2 * n
  PROVE  a % n = IF a < 0 THEN a + n ELSE IF a < n THEN a ELSE a - n
<1>1. CASE a < 0
  <2>1. a + n \in 0 .. n - 1 /\ a = n * (-1) + (a + n) BY <1>1
  <2>2. QED BY <1>1, <2>1, ModIs
<1>2. CASE 0 <= a /\ a < n
  <2>1. a \in 0 .. n - 1 /\ a = n * 0 + a BY <1>2
  <2>2. QED BY <1>2, <2>1, ModIs
<1>3. CASE n <= a
  <2>1. a - n \in 0 .. n - 1 /\ a = n * 1 + (a - n) BY <1>3
  <2>2. QED BY <1>3, <2>1, ModIs
<1>4. QED BY <1>1, <1>2, <1>3

Gap(w, r) == (w - r) % UintMod
LEMMA GapIs ==
  ASSUME NEW w \in 0 .. UintMod - 1, NEW r \in 0 .. UintMod - 1
  PROVE  Gap(w, r) = IF w >= r THEN w - r ELSE w - r + UintMod
<1>1. UintMod \in Nat \ {0} /\ w - r \in Int /\ -UintMod <= w - r /\ w - r < 2 * UintMod
  BY PipeAssumption
<1>2. (w - r) % UintMod = IF w - r < 0 THEN (w - r) + UintMod
                          ELSE IF w - r < UintMod THEN w - r ELSE w - r - UintMod
  BY <1>1, ModCase
<1>3. QED BY <1>1, <1>2 DEF Gap

LEMMA SumIs ==
  ASSUME NEW r \in 0 .. UintMod - 1, NEW k \in 0 .. UintMod - 1
  PROVE  /\ (r + k) % UintMod = IF r + k < UintMod THEN r + k ELSE r + k - UintMod
         /\ (r + k) % UintMod \in 0 .. UintMod - 1
<1>1. UintMod \in Nat \ {0} BY PipeAssumption
<1>2. PICK a \in Int : a = r + k OBVIOUS
<1>3. 0 <= a /\ a < 2 * UintMod /\ -UintMod <= a BY <1>1, <1>2
<1>4. a % UintMod = IF a < 0 THEN a + UintMod ELSE IF a < UintMod THEN a ELSE a - UintMod
  BY <1>1, <1>3, ModCase
<1>5. a % UintMod = IF a < UintMod THEN a ELSE a - UintMod BY <1>3, <1>4
<1>6. a % UintMod \in 0 .. UintMod - 1 BY <1>1, <1>3, <1>5
<1>7. QED BY <1>1, <1>2, <1>5, <1>6

(* A byte more, k bytes less, and a full pipe.                                *)
LEMMA GapFacts ==
  ASSUME NEW w \in 0 .. UintMod - 1, NEW r \in 0 .. UintMod - 1, Gap(w, r) \in 0 .. PIPESIZE
  PROVE  /\ Succ(w) \in 0 .. UintMod - 1
         /\ (Gap(w, r) # PIPESIZE) => Gap(Succ(w), r) = Gap(w, r) + 1
         /\ \A k \in 0 .. Gap(w, r) : /\ (r + k) % UintMod \in 0 .. UintMod - 1
                                      /\ Gap(w, (r + k) % UintMod) = Gap(w, r) - k
         /\ (w = (r + PIPESIZE) % UintMod) <=> Gap(w, r) = PIPESIZE
<1>1. /\ PIPESIZE \in Nat \ {0} /\ UintMod \in Nat /\ PIPESIZE < UintMod
      /\ 1 \in 0 .. UintMod - 1 /\ PIPESIZE \in 0 .. UintMod - 1
  BY PipeAssumption
<1>2. Gap(w, r) = IF w >= r THEN w - r ELSE w - r + UintMod BY GapIs
<1>3. Succ(w) = (IF w + 1 < UintMod THEN w + 1 ELSE w + 1 - UintMod) /\ Succ(w) \in 0 .. UintMod - 1
  BY <1>1, SumIs DEF Succ
<1>4. (Gap(w, r) # PIPESIZE) => Gap(Succ(w), r) = Gap(w, r) + 1
  <2>1. Gap(Succ(w), r) = IF Succ(w) >= r THEN Succ(w) - r ELSE Succ(w) - r + UintMod
    BY <1>3, GapIs
  <2>2. QED BY <1>1, <1>2, <1>3, <2>1
<1>5. ASSUME NEW k \in 0 .. Gap(w, r)
      PROVE  /\ (r + k) % UintMod \in 0 .. UintMod - 1
             /\ Gap(w, (r + k) % UintMod) = Gap(w, r) - k
  <2>1. k \in 0 .. UintMod - 1 BY <1>1
  <2>2. PICK s : s = (r + k) % UintMod OBVIOUS
  <2>3. s = (IF r + k < UintMod THEN r + k ELSE r + k - UintMod) /\ s \in 0 .. UintMod - 1
    BY <2>1, <2>2, SumIs
  <2>4. Gap(w, s) = IF w >= s THEN w - s ELSE w - s + UintMod BY <2>3, GapIs
  <2>5. QED BY <1>1, <1>2, <2>1, <2>2, <2>3, <2>4
<1>6. (w = (r + PIPESIZE) % UintMod) <=> Gap(w, r) = PIPESIZE
  <2>1. (r + PIPESIZE) % UintMod =
          IF r + PIPESIZE < UintMod THEN r + PIPESIZE ELSE r + PIPESIZE - UintMod
    BY <1>1, SumIs
  <2>2. QED BY <1>1, <1>2, <2>1
<1>7. QED BY <1>3, <1>4, <1>5, <1>6

LEMMA GapZero ==
  ASSUME NEW w \in 0 .. UintMod - 1 PROVE Gap(w, w) = 0 /\ 0 \in 0 .. UintMod - 1
BY GapIs, PipeAssumption

-----------------------------------------------------------------------------
(* Types: who closes a file refers to it.                                     *)
LEMMA ClosedFile ==
  ASSUME FileTypes, Handling, NEW p \in Procs, CloseInHand(p) \/ CloseOpen(p)
  PROVE  /\ at[p] \in {"closing", "exiting"} /\ last[p] = None
         /\ \E f \in FileIds : \E h \in Holders(f), more \in BOOLEAN :
              /\ h[1] = p /\ fileclose(p, f, more)
              /\ \A d \in Fds : h = <<p, d>> => ofile'[p][d] = None
              /\ more <=> hand'[p] # <<>> \/ (at[p] = "exiting" /\ Open(p)' # {})
         /\ hand' \in [Procs -> Hands] /\ ofile' \in [Procs -> [Fds -> FileIds \cup {None}]]
         /\ \A q \in Procs : q # p => hand'[q] = hand[q] /\ ofile'[q] = ofile[q]
         /\ \A fd \in Fds : ofile'[p][fd] \in {ofile[p][fd], None}
         /\ Len(hand'[p]) # 2 /\ (at[p] = "exiting" => hand'[p] = <<>>)
<1>1. CASE CloseInHand(p)
  <2>1. hand[p] \in Hands /\ hand[p] # <<>> /\ (Len(hand[p]) = 2 => hand[p][1] # hand[p][2])
    BY <1>1 DEF CloseInHand, FileTypes, Handling, HandRight
  <2>2. PICK g \in FileIds : g = hand[p][1] /\ g \in Handful(hand[p]) BY <2>1, TakeFromHand
  <2>3. <<p, OfCall>> \in Holders(g) BY <2>2, HeldBy DEF InHand, Handful
  <2>4. /\ Tail(hand[p]) \in Hands /\ Len(Tail(hand[p])) # 2
        /\ Len(hand[p]) > 1 <=> Tail(hand[p]) # <<>>
    BY <2>1, TakeFromHand
  <2>5. hand' = [hand EXCEPT ![p] = Tail(hand[p])] BY <1>1 DEF CloseInHand, FileTypes
  <2>6. hand' \in [Procs -> Hands] /\ hand'[p] = Tail(hand[p])
        /\ \A q \in Procs : q # p => hand'[q] = hand[q]
    BY <2>4, <2>5 DEF FileTypes
  <2>7. ofile' = ofile /\ at[p] = "closing" /\ last[p] = None BY <1>1 DEF CloseInHand, fileclose
  <2>8. PICK more \in BOOLEAN : more <=> Len(hand[p]) > 1 OBVIOUS
  <2>9. fileclose(p, g, more) BY <1>1, <2>2, <2>8 DEF CloseInHand, fileclose, After
  <2>10. more <=> hand'[p] # <<>> \/ (at[p] = "exiting" /\ Open(p)' # {})
    BY <2>4, <2>6, <2>7, <2>8
  <2>11. \E f \in FileIds : \E h \in Holders(f), m \in BOOLEAN :
              /\ h[1] = p /\ fileclose(p, f, m)
              /\ \A d \in Fds : h = <<p, d>> => ofile'[p][d] = None
              /\ m <=> hand'[p] # <<>> \/ (at[p] = "exiting" /\ Open(p)' # {})
    BY <2>2, <2>3, <2>9, <2>10, TableFacts
  <2>12. QED BY <2>4, <2>6, <2>7, <2>11 DEF FileTypes
<1>2. CASE CloseOpen(p)
  <2>1. PICK fd : fd = FirstOf(Open(p)) OBVIOUS
  <2>2. fd \in Open(p) BY <1>2, <2>1, TableFacts, FirstOfFacts DEF CloseOpen, Open
  <2>3. PICK g : g = ofile[p][fd] OBVIOUS
  <2>4. fd \in Fds /\ g \in FileIds BY <2>2, <2>3 DEF Open, Empty, FileTypes
  <2>5. <<p, fd>> \in Holders(g) BY <2>3, <2>4, HeldBy
  <2>6. ofile' = [ofile EXCEPT ![p][fd] = None] BY <1>2, <2>1 DEF CloseOpen
  <2>7. /\ ofile' \in [Procs -> [Fds -> FileIds \cup {None}]]
        /\ \A q \in Procs : q # p => ofile'[q] = ofile[q]
        /\ \A d \in Fds : ofile'[p][d] = IF d = fd THEN None ELSE ofile[p][d]
    BY <2>4, <2>6 DEF FileTypes
  <2>8. hand' = hand /\ at[p] = "exiting" /\ last[p] = None BY <1>2 DEF CloseOpen, fileclose
  <2>9. hand[p] = <<>> BY <2>8 DEF Handling, HandRight
  <2>10. PICK more \in BOOLEAN : more = (Open(p) # {fd}) OBVIOUS
  <2>11. fileclose(p, g, more) BY <1>2, <2>1, <2>3, <2>10 DEF CloseOpen
  <2>12. Open(p)' = Open(p) \ {fd} BY <2>4, <2>7 DEF Open, Empty
  <2>13. more <=> hand'[p] # <<>> \/ (at[p] = "exiting" /\ Open(p)' # {})
    <3>1. more <=> Open(p) \ {fd} # {} BY <2>2, <2>10
    <3>2. QED BY <3>1, <2>8, <2>9, <2>12
  <2>14. \E f \in FileIds : \E h \in Holders(f), m \in BOOLEAN :
              /\ h[1] = p /\ fileclose(p, f, m)
              /\ \A d \in Fds : h = <<p, d>> => ofile'[p][d] = None
              /\ m <=> hand'[p] # <<>> \/ (at[p] = "exiting" /\ Open(p)' # {})
    BY <2>4, <2>5, <2>7, <2>11, <2>13
  <2>15. Len(hand'[p]) = 0 BY <2>8, <2>9
  <2>16. QED BY <2>7, <2>8, <2>9, <2>14, <2>15 DEF FileTypes
<1>3. QED BY <1>1, <1>2

(* The actions that leave the file table and the descriptors alone.           *)
Quiet(p) ==
  \/ (Call(p) \/ Kill(p)) /\ UNCHANGED fileVars
  \/ \E fd \in Fds, l \in {"read", "write"} : \E n \in Sizes[l] : ReadWrite(p, fd, n, l)
  \/ Return(p) \/ exit(p)
LEMMA QuietFiles ==
  ASSUME NEW p, Quiet(p) PROVE UNCHANGED fileVars
<1>1. ASSUME NEW fd, NEW n, NEW l, ReadWrite(p, fd, n, l) PROVE UNCHANGED fileVars
  BY <1>1 DEF ReadWrite
<1>2. CASE Return(p) BY <1>2 DEF Return
<1>3. CASE exit(p) BY <1>3 DEF exit
<1>4. QED BY <1>1, <1>2, <1>3 DEF Quiet

(* The actions of Next, in the groups the proofs go by.                       *)
LEMMA Actions ==
  ASSUME Next
  PROVE  \E p \in Procs :
           \/ Quiet(p)
           \/ \E fd \in Fds : sys_dup(p, fd) \/ sys_close(p, fd)
           \/ filealloc(p) \/ pipealloc(p) \/ PipeFds(p)
           \/ CloseInHand(p) \/ CloseOpen(p) \/ ClosePipe(p) \/ \E q \in Procs : fork(p, q)
BY DEF Next, Quiet

LEMMA FilecloseTypes ==
  ASSUME FileTypes, Counted, OneEnd, NEW p \in Procs, NEW f \in FileIds, NEW h \in Holders(f),
         NEW more, fileclose(p, f, more)
  PROVE  /\ ref' \in [FileIds -> Nat] /\ type' \in [FileIds -> {"none", "pipe"}]
         /\ writable' \in [FileIds -> BOOLEAN] /\ pipe' \in [FileIds -> Pages \cup {None}]
         /\ last' \in [Procs -> Ends \cup {None}]
<1>1. ref[f] # 0 BY HeldOnce
<1>2. ref' \in [FileIds -> Nat]
  <2>1. ref[f] - 1 \in Nat BY <1>1 DEF FileTypes
  <2>2. ref' = [ref EXCEPT ![f] = ref[f] - 1] BY DEF fileclose
  <2>3. QED BY <2>1, <2>2 DEF FileTypes
<1>3. CASE ref[f] = 1 /\ type[f] = "pipe"
  <2>1. [pipe |-> pipe[f], writable |-> writable[f]] \in Ends BY <1>3 DEF OneEnd, FileTypes, Ends
  <2>2. QED BY <1>2, <1>3, <2>1 DEF fileclose, Shut, FileTypes
<1>4. CASE ~(ref[f] = 1 /\ type[f] = "pipe") BY <1>2, <1>4 DEF fileclose, FileTypes
<1>5. QED BY <1>3, <1>4

LEMMA FileTypesStep ==
  ASSUME FileTypes, Handling, Counted, OneEnd, [Next]_vars PROVE FileTypes'
<1>1. ASSUME UNCHANGED fileVars PROVE FileTypes' BY <1>1 DEF FileTypes, fileVars
<1>2. ASSUME NEW p \in Procs, NEW fd \in Fds, sys_dup(p, fd) PROVE FileTypes'
  <2>1. ref' \in [FileIds -> Nat] BY <1>2 DEF sys_dup, FileTypes
  <2>2. ofile' \in [Procs -> [Fds -> FileIds \cup {None}]] BY <1>2 DEF sys_dup, FileTypes
  <2>3. QED BY <1>2, <2>1, <2>2 DEF sys_dup, FileTypes
<1>3. ASSUME NEW p \in Procs, NEW fd \in Fds, sys_close(p, fd) PROVE FileTypes'
  <2>1. ofile[p][fd] \in FileIds BY <1>3 DEF sys_close, FileTypes
  <2>2. <<ofile[p][fd]>> \in Hands BY <2>1, OneInHand
  <2>3. hand' \in [Procs -> Hands] BY <1>3, <2>2 DEF sys_close, Closing, FileTypes
  <2>4. ofile' \in [Procs -> [Fds -> FileIds \cup {None}]] BY <1>3 DEF sys_close, FileTypes
  <2>5. QED BY <1>3, <2>3, <2>4 DEF sys_close, FileTypes
<1>4. ASSUME NEW p \in Procs, filealloc(p) PROVE FileTypes'
  <2>1. hand' \in [Procs -> Hands] /\ ref' \in [FileIds -> Nat]
    <3>1. CASE Unused = {} BY <1>4, <3>1 DEF filealloc, Closing, FileTypes
    <3>2. CASE Unused # {}
      <4>1. FirstOf(Unused) \in FileIds BY <3>2, TableFacts, FirstOfFacts DEF Unused
      <4>2. hand[p] \in Hands /\ Len(hand[p]) \in {0, 1}
        <5>1. CASE Parent(p) BY <5>1, NoneInHand DEF Handling, HandRight, Parent, Running
        <5>2. CASE Len(hand[p]) = 1 BY <5>2 DEF FileTypes
        <5>3. QED BY <1>4, <5>1, <5>2 DEF filealloc
      <4>3. Append(hand[p], FirstOf(Unused)) \in Hands BY <4>1, <4>2, PutInHand
      <4>4. hand' = [hand EXCEPT ![p] = Append(hand[p], FirstOf(Unused))]
            /\ ref' = [ref EXCEPT ![FirstOf(Unused)] = 1]
        BY <1>4, <3>2 DEF filealloc
      <4>5. QED BY <4>1, <4>3, <4>4 DEF FileTypes
    <3>3. QED BY <3>1, <3>2
  <2>2. QED BY <1>4, <2>1 DEF filealloc, FileTypes
<1>5. ASSUME NEW p \in Procs, pipealloc(p) PROVE FileTypes'
  <2>1. hand' = hand BY <1>5 DEF pipealloc, Closing, FileTypes
  <2>2. /\ type' \in [FileIds -> {"none", "pipe"}] /\ writable' \in [FileIds -> BOOLEAN]
        /\ pipe' \in [FileIds -> Pages \cup {None}]
    <3>1. ASSUME NEW x \in Pages, NEW r, NEW w,
                 type' = [type EXCEPT ![r] = "pipe", ![w] = "pipe"],
                 writable' = [writable EXCEPT ![r] = FALSE, ![w] = TRUE],
                 pipe' = [pipe EXCEPT ![r] = x, ![w] = x]
          PROVE  /\ type' \in [FileIds -> {"none", "pipe"}] /\ writable' \in [FileIds -> BOOLEAN]
                 /\ pipe' \in [FileIds -> Pages \cup {None}]
      BY <3>1 DEF FileTypes
    <3>2. CASE UNCHANGED <<type, writable, pipe>> BY <3>2 DEF FileTypes
    <3>3. QED BY <1>5, <3>1, <3>2 DEF pipealloc
  <2>3. QED BY <1>5, <2>1, <2>2 DEF pipealloc, FileTypes
<1>6. ASSUME NEW p \in Procs, PipeFds(p) PROVE FileTypes'
  <2>1. hand[p] \in Hands /\ Len(hand[p]) = 2
    BY <1>6 DEF PipeFds, FileTypes, Handling, HandRight
  <2>2. hand[p][1] \in FileIds /\ hand[p][2] \in FileIds BY <2>1, HandsFacts
  <2>3. hand' \in [Procs -> Hands] BY <1>6, NoneInHand DEF PipeFds, Closing, Undo, FileTypes
  <2>4. ofile' \in [Procs -> [Fds -> FileIds \cup {None}]]
    <3>1. ASSUME NEW d, NEW e, NEW r \in FileIds, NEW w \in FileIds,
                 ofile' = [ofile EXCEPT ![p][d] = r, ![p][e] = w]
          PROVE  ofile' \in [Procs -> [Fds -> FileIds \cup {None}]]
      <4>1. [ofile[p] EXCEPT ![d] = r, ![e] = w] \in [Fds -> FileIds \cup {None}] BY DEF FileTypes
      <4>2. ofile' = [ofile EXCEPT ![p] = [ofile[p] EXCEPT ![d] = r, ![e] = w]]
        BY <3>1 DEF FileTypes
      <4>3. QED BY <4>1, <4>2 DEF FileTypes
    <3>2. CASE UNCHANGED ofile BY <3>2 DEF FileTypes
    <3>3. CASE ~ UNCHANGED ofile
      <4>1. PICK d, e : ofile' = [ofile EXCEPT ![p][d] = hand[p][1], ![p][e] = hand[p][2]]
        BY <1>6, <3>3, Zenon DEF PipeFds
      <4>2. QED BY <2>2, <3>1, <4>1, Zenon
    <3>4. QED BY <3>2, <3>3
  <2>5. QED BY <1>6, <2>3, <2>4 DEF PipeFds, FileTypes
<1>7. ASSUME NEW p \in Procs, CloseInHand(p) \/ CloseOpen(p) PROVE FileTypes'
  <2>1. PICK f \in FileIds : \E h \in Holders(f), more \in BOOLEAN : fileclose(p, f, more)
    BY <1>7, ClosedFile
  <2>2. /\ ref' \in [FileIds -> Nat] /\ type' \in [FileIds -> {"none", "pipe"}]
        /\ writable' \in [FileIds -> BOOLEAN] /\ pipe' \in [FileIds -> Pages \cup {None}]
        /\ last' \in [Procs -> Ends \cup {None}]
    BY <2>1, FilecloseTypes
  <2>3. hand' \in [Procs -> Hands] /\ ofile' \in [Procs -> [Fds -> FileIds \cup {None}]]
    BY <1>7, ClosedFile
  <2>4. QED BY <2>2, <2>3 DEF FileTypes
<1>8. ASSUME NEW p \in Procs, ClosePipe(p) PROVE FileTypes' BY <1>8 DEF ClosePipe, FileTypes
<1>9. ASSUME NEW p \in Procs, NEW q \in Procs, fork(p, q) PROVE FileTypes'
  <2>1. \A f \in FileIds : Refs(ofile[p], f) \in Nat
    BY TableFacts, FS_Subset, FS_CardinalityType DEF Refs
  <2>2. ref' \in [FileIds -> Nat] BY <1>9, <2>1 DEF fork, DupAll, FileTypes
  <2>3. ofile' \in [Procs -> [Fds -> FileIds \cup {None}]] BY <1>9 DEF fork, FileTypes
  <2>4. QED BY <1>9, <2>2, <2>3 DEF fork, FileTypes
<1>10. CASE UNCHANGED vars BY <1>1, <1>10 DEF vars
<1>11. QED
  BY <1>1, <1>2, <1>3, <1>4, <1>5, <1>6, <1>7, <1>8, <1>9, <1>10, Actions, QuietFiles

(* The other half of the types, pipe by pipe.                                 *)
Bytes ==
  /\ nread \in [Pages -> 0 .. UintMod - 1] /\ nwrite \in [Pages -> 0 .. UintMod - 1]
  /\ \A x \in Pages : Gap(nwrite[x], nread[x]) \in 0 .. PIPESIZE
LEMMA PipeTypesSplit ==
  PipeTypes <=> /\ at \in [Procs -> Places] /\ pi \in [Procs -> Pages \cup {None}]
                /\ killed \in [Procs -> BOOLEAN] /\ left \in [Procs -> Nat]
                /\ unsaid \in [Procs -> BOOLEAN]
                /\ inuse \in SUBSET Pages /\ cut \in SUBSET Pages
                /\ lock \in [Pages -> Procs \cup {None}]
                /\ readopen \in [Pages -> BOOLEAN] /\ writeopen \in [Pages -> BOOLEAN]
                /\ Bytes
BY DEF PipeTypes, Bytes, Unread, Gap

LEMMA BytesSame == ASSUME Bytes, nread' = nread, nwrite' = nwrite PROVE Bytes'
BY DEF Bytes, Gap

LEMMA BytesWrite ==
  ASSUME Bytes, NEW x \in Pages, ~Full(x), nwrite' = [nwrite EXCEPT ![x] = Succ(@)], nread' = nread
  PROVE  Bytes' /\ Unread(x)' = Unread(x) + 1
<1>1. nwrite[x] \in 0 .. UintMod - 1 /\ nread[x] \in 0 .. UintMod - 1
      /\ Gap(nwrite[x], nread[x]) \in 0 .. PIPESIZE
  BY DEF Bytes
<1>2. Gap(nwrite[x], nread[x]) # PIPESIZE BY <1>1, GapFacts DEF Full
<1>3. PICK n : n = Succ(nwrite[x]) OBVIOUS
<1>4. n \in 0 .. UintMod - 1 /\ Gap(n, nread[x]) = Gap(nwrite[x], nread[x]) + 1
  BY <1>1, <1>2, <1>3, GapFacts
<1>5. \A y \in Pages : nwrite'[y] = IF y = x THEN n ELSE nwrite[y] BY <1>3 DEF Bytes
<1>6. nwrite' \in [Pages -> 0 .. UintMod - 1] BY <1>3, <1>4 DEF Bytes
<1>7. \A y \in Pages : Gap(nwrite'[y], nread'[y]) =
        IF y = x THEN Gap(nwrite[x], nread[x]) + 1 ELSE Gap(nwrite[y], nread[y])
  BY <1>4, <1>5
<1>8. Gap(nwrite[x], nread[x]) + 1 \in 0 .. PIPESIZE BY <1>1, <1>2, PipeAssumption
<1>9. \A y \in Pages : Gap(nwrite'[y], nread'[y]) \in 0 .. PIPESIZE
  BY <1>7, <1>8 DEF Bytes
<1>10. Bytes'
  <2>1. nread' \in [Pages -> 0 .. UintMod - 1] BY DEF Bytes
  <2>2. QED BY <1>6, <1>9, <2>1 DEF Bytes, Gap
<1>11. QED BY <1>7, <1>10 DEF Unread, Gap

LEMMA BytesRead ==
  ASSUME Bytes, NEW x \in Pages, NEW k \in Nat, k <= Unread(x),
         nread' = [nread EXCEPT ![x] = (@ + k) % UintMod], nwrite' = nwrite
  PROVE  Bytes' /\ Unread(x)' = Unread(x) - k
<1>1. nwrite[x] \in 0 .. UintMod - 1 /\ nread[x] \in 0 .. UintMod - 1
      /\ Gap(nwrite[x], nread[x]) \in 0 .. PIPESIZE
  BY DEF Bytes
<1>2. k \in 0 .. Gap(nwrite[x], nread[x]) BY <1>1 DEF Unread, Gap
<1>3. PICK n : n = (nread[x] + k) % UintMod OBVIOUS
<1>4. n \in 0 .. UintMod - 1 /\ Gap(nwrite[x], n) = Gap(nwrite[x], nread[x]) - k
  BY <1>1, <1>2, <1>3, GapFacts
<1>5. \A y \in Pages : nread'[y] = IF y = x THEN n ELSE nread[y] BY <1>3 DEF Bytes
<1>6. nread' \in [Pages -> 0 .. UintMod - 1] BY <1>3, <1>4 DEF Bytes
<1>7. \A y \in Pages : Gap(nwrite'[y], nread'[y]) =
        IF y = x THEN Gap(nwrite[x], nread[x]) - k ELSE Gap(nwrite[y], nread[y])
  BY <1>4, <1>5
<1>8. Gap(nwrite[x], nread[x]) - k \in 0 .. PIPESIZE BY <1>1, <1>2, PipeAssumption
<1>9. \A y \in Pages : Gap(nwrite'[y], nread'[y]) \in 0 .. PIPESIZE
  BY <1>7, <1>8 DEF Bytes
<1>10. Bytes'
  <2>1. nwrite' \in [Pages -> 0 .. UintMod - 1] BY DEF Bytes
  <2>2. QED BY <1>6, <1>9, <2>1 DEF Bytes, Gap
<1>11. QED BY <1>7, <1>10 DEF Unread, Gap

LEMMA BytesNone ==
  ASSUME Bytes, NEW x \in Pages, nread' = [nread EXCEPT ![x] = 0], nwrite' = [nwrite EXCEPT ![x] = 0]
  PROVE  Bytes'
<1>1. 0 \in 0 .. UintMod - 1 /\ Gap(0, 0) = 0 BY GapZero, PipeAssumption
<1>2. nread' \in [Pages -> 0 .. UintMod - 1] /\ nwrite' \in [Pages -> 0 .. UintMod - 1]
  BY <1>1 DEF Bytes
<1>3. \A y \in Pages : Gap(nwrite'[y], nread'[y]) =
        IF y = x THEN Gap(0, 0) ELSE Gap(nwrite[y], nread[y])
  BY DEF Bytes
<1>4. \A y \in Pages : Gap(nwrite'[y], nread'[y]) \in 0 .. PIPESIZE
  BY <1>1, <1>3, PipeAssumption DEF Bytes
<1>5. QED BY <1>2, <1>4 DEF Bytes, Gap

(* Full and empty, in unread bytes.                                           *)
LEMMA FullFacts ==
  ASSUME Bytes, NEW x \in Pages
  PROVE  Unread(x) \in 0 .. PIPESIZE /\ (Full(x) <=> Unread(x) = PIPESIZE)
<1>1. nwrite[x] \in 0 .. UintMod - 1 /\ nread[x] \in 0 .. UintMod - 1
      /\ Gap(nwrite[x], nread[x]) \in 0 .. PIPESIZE
  BY DEF Bytes
<1>2. (nwrite[x] = (nread[x] + PIPESIZE) % UintMod) <=> Gap(nwrite[x], nread[x]) = PIPESIZE
  BY <1>1, GapFacts
<1>3. QED BY <1>1, <1>2 DEF Full, Unread, Gap

LEMMA WakeTypes ==
  ASSUME at \in [Procs -> Places], NEW x, NEW p, NEW from, NEW to \in Places, NEW l \in Places
  PROVE  Wake(x, from, to, p, l) \in [Procs -> Places]
BY DEF Wake

LEMMA GotoTypes ==
  ASSUME at \in [Procs -> Places], NEW p, NEW l \in Places, Goto(p, l)
  PROVE  at' \in [Procs -> Places]
BY DEF Goto

LEMMA CallTypes ==
  ASSUME PipeTypes, InCalls, NEW p \in Procs, Call(p) \/ Kill(p) PROVE PipeTypes'
<1> USE DEF Places, Reading, Writing
<1>1. /\ at \in [Procs -> Places] /\ pi \in [Procs -> Pages \cup {None}]
      /\ killed \in [Procs -> BOOLEAN] /\ left \in [Procs -> Nat]
      /\ unsaid \in [Procs -> BOOLEAN] /\ inuse \in SUBSET Pages /\ cut \in SUBSET Pages
      /\ lock \in [Pages -> Procs \cup {None}]
      /\ readopen \in [Pages -> BOOLEAN] /\ writeopen \in [Pages -> BOOLEAN] /\ Bytes
  BY PipeTypesSplit
<1>2. ASSUME at' \in [Procs -> Places], pi' \in [Procs -> Pages \cup {None}],
             killed' \in [Procs -> BOOLEAN], left' \in [Procs -> Nat],
             unsaid' \in [Procs -> BOOLEAN], cut' \in SUBSET Pages,
             lock' \in [Pages -> Procs \cup {None}],
             UNCHANGED <<inuse, readopen, writeopen>>, Bytes'
      PROVE  PipeTypes'
  BY <1>1, <1>2 DEF PipeTypes, Bytes, Unread, Gap
<1>3. at[p] \in Reading \cup Writing => pi[p] \in Pages BY DEF InCalls, CallRight
<1>4. ASSUME NEW x, nread' = nread, nwrite' = nwrite PROVE Bytes' BY <1>1, <1>4, BytesSame
<1>5. CASE WriteCheck(p)
  <2>1. pi[p] \in Pages BY <1>3, <1>5 DEF WriteCheck
  <2>2. at' \in [Procs -> Places]
    BY <1>1, <1>5, WakeTypes, GotoTypes DEF WriteCheck, WakeReaders
  <2>3. pi' \in [Procs -> Pages \cup {None}] /\ left' \in [Procs -> Nat]
        /\ unsaid' \in [Procs -> BOOLEAN]
    <3>1. CASE Leave(p) /\ Said(p) BY <1>1, <3>1 DEF Leave, Said
    <3>2. CASE UNCHANGED <<pi, left, unsaid>> BY <1>1, <3>2
    <3>3. QED BY <1>5, <3>1, <3>2 DEF WriteCheck
  <2>4. cut' \in SUBSET Pages BY <1>1, <1>5, <2>1 DEF WriteCheck
  <2>5. lock' \in [Pages -> Procs \cup {None}] BY <1>1, <1>5 DEF WriteCheck, Release
  <2>6. QED BY <1>1, <1>2, <1>4, <1>5, <2>2, <2>3, <2>4, <2>5 DEF WriteCheck, pipeVars
<1>6. CASE WriteSleep(p)
  <2>1. at' \in [Procs -> Places] BY <1>1, <1>6, WakeTypes DEF WriteSleep, WakeReaders
  <2>2. unsaid' \in [Procs -> BOOLEAN] /\ cut' \in SUBSET Pages
        /\ lock' \in [Pages -> Procs \cup {None}]
    BY <1>1, <1>6 DEF WriteSleep, Release, Said
  <2>3. QED BY <1>1, <1>2, <1>4, <1>6, <2>1, <2>2 DEF WriteSleep, pipeVars
<1>7. CASE WriteByte(p)
  <2>1. pi[p] \in Pages /\ left[p] > 0 BY <1>3, <1>7 DEF WriteByte, InCalls, CallRight
  <2>2. Bytes' BY <1>1, <1>7, <2>1, BytesWrite DEF WriteByte
  <2>3. at' \in [Procs -> Places] BY <1>1, <1>7, GotoTypes DEF WriteByte
  <2>4. left[p] - 1 \in Nat BY <1>1, <2>1
  <2>5. left' \in [Procs -> Nat] /\ unsaid' \in [Procs -> BOOLEAN]
    BY <1>1, <1>7, <2>4 DEF WriteByte
  <2>6. QED BY <1>1, <1>2, <1>7, <2>2, <2>3, <2>5 DEF WriteByte
<1>8. CASE WriteFault(p)
  <2>1. at' \in [Procs -> Places] BY <1>1, <1>8, GotoTypes DEF WriteFault
  <2>2. left' \in [Procs -> Nat] BY <1>1, <1>8 DEF WriteFault
  <2>3. QED BY <1>1, <1>2, <1>4, <1>8, <2>1, <2>2 DEF WriteFault, pipeVars
<1>9. CASE ReadCheck(p)
  <2>1. at' \in [Procs -> Places] BY <1>1, <1>9, GotoTypes DEF ReadCheck
  <2>2. pi' \in [Procs -> Pages \cup {None}] /\ left' \in [Procs -> Nat]
        /\ lock' \in [Pages -> Procs \cup {None}]
    BY <1>1, <1>9 DEF ReadCheck, Leave
  <2>3. QED BY <1>1, <1>2, <1>4, <1>9, <2>1, <2>2 DEF ReadCheck, pipeVars
<1>10. CASE ReadSleep(p)
  <2>1. at' \in [Procs -> Places] BY <1>1, <1>10, GotoTypes DEF ReadSleep
  <2>2. lock' \in [Pages -> Procs \cup {None}] BY <1>1, <1>10 DEF ReadSleep, Release
  <2>3. QED BY <1>1, <1>2, <1>4, <1>10, <2>1, <2>2 DEF ReadSleep, pipeVars, procVars
<1>11. ASSUME NEW k \in 0 .. left[p], NEW fault \in BOOLEAN, ReadBytes(p, k, fault)
       PROVE  PipeTypes'
  <2>1. pi[p] \in Pages BY <1>3, <1>11 DEF ReadBytes
  <2>2. PICK n \in Nat : n = k + (IF fault THEN 1 ELSE 0) BY <1>1
  <2>3. n <= Unread(pi[p]) /\ nread' = [nread EXCEPT ![pi[p]] = (@ + n) % UintMod]
    BY <1>11, <2>2 DEF ReadBytes
  <2>4. Bytes' BY <1>1, <1>11, <2>1, <2>3, BytesRead DEF ReadBytes
  <2>5. at' \in [Procs -> Places] BY <1>1, <1>11, WakeTypes DEF ReadBytes, WakeWriters
  <2>6. pi' \in [Procs -> Pages \cup {None}] /\ left' \in [Procs -> Nat]
    BY <1>1, <1>11 DEF ReadBytes, Leave
  <2>7. QED BY <1>1, <1>2, <1>11, <2>4, <2>5, <2>6 DEF ReadBytes
<1>12. CASE Kill(p)
  <2>1. at' \in [Procs -> Places] /\ killed' \in [Procs -> BOOLEAN]
    BY <1>1, <1>12 DEF Kill, Goto
  <2>2. QED BY <1>1, <1>2, <1>4, <1>12, <2>1 DEF Kill, pipeVars
<1>13. QED BY <1>5, <1>6, <1>7, <1>8, <1>9, <1>10, <1>11, <1>12 DEF Call

LEMMA PipeTypesStep ==
  ASSUME FileTypes, PipeTypes, Handling, Counted, OneEnd, InCalls, [Next]_vars
  PROVE  PipeTypes'
<1> USE DEF Places, Reading, Writing
<1>1. /\ at \in [Procs -> Places] /\ pi \in [Procs -> Pages \cup {None}]
      /\ killed \in [Procs -> BOOLEAN] /\ left \in [Procs -> Nat]
      /\ unsaid \in [Procs -> BOOLEAN] /\ inuse \in SUBSET Pages /\ cut \in SUBSET Pages
      /\ lock \in [Pages -> Procs \cup {None}]
      /\ readopen \in [Pages -> BOOLEAN] /\ writeopen \in [Pages -> BOOLEAN] /\ Bytes
  BY PipeTypesSplit
<1>2. ASSUME at' \in [Procs -> Places], UNCHANGED <<procVars, pipeVars, lock, cut>>
      PROVE  PipeTypes'
  BY <1>1, <1>2 DEF PipeTypes, Unread, procVars, pipeVars
<1>3. ASSUME NEW p \in Procs, NEW fd \in Fds, NEW l \in {"read", "write"}, NEW n \in Sizes[l],
             ReadWrite(p, fd, n, l)
      PROVE  PipeTypes'
  <2>1. n \in Nat BY PipeAssumption
  <2>2. at' \in [Procs -> Places] BY <1>1, <1>3, GotoTypes DEF ReadWrite
  <2>3. ofile[p][fd] \in FileIds BY <1>3 DEF ReadWrite, FileTypes
  <2>4. pi' \in [Procs -> Pages \cup {None}] BY <1>1, <1>3, <2>3 DEF ReadWrite, FileTypes
  <2>5. left' \in [Procs -> Nat] BY <1>1, <1>3, <2>1 DEF ReadWrite
  <2>6. QED BY <1>1, <1>3, <2>2, <2>4, <2>5 DEF ReadWrite, PipeTypes, pipeVars, Unread
<1>4. ASSUME NEW p \in Procs, Return(p) PROVE PipeTypes'
  BY <1>1, <1>4 DEF Return, PipeTypes, pipeVars, Unread
<1>5. ASSUME NEW p \in Procs, exit(p) PROVE PipeTypes'
  <2>1. at' \in [Procs -> Places] BY <1>1, <1>5, GotoTypes DEF exit
  <2>2. killed' \in [Procs -> BOOLEAN] BY <1>1, <1>5 DEF exit
  <2>3. QED BY <1>1, <1>5, <2>1, <2>2 DEF exit, PipeTypes, pipeVars, Unread
<1>6. ASSUME NEW p \in Procs, NEW fs, Closing(p, fs) PROVE at' \in [Procs -> Places]
  BY <1>1, <1>6, GotoTypes DEF Closing
<1>7. ASSUME NEW p \in Procs, NEW fd \in Fds, sys_dup(p, fd) \/ sys_close(p, fd) PROVE PipeTypes'
  <2>1. CASE sys_dup(p, fd) BY <1>1, <1>2, <2>1 DEF sys_dup
  <2>2. CASE sys_close(p, fd) BY <1>2, <1>6, <2>2 DEF sys_close
  <2>3. QED BY <1>7, <2>1, <2>2
<1>8. ASSUME NEW p \in Procs, filealloc(p) PROVE PipeTypes'
  <2>1. at' \in [Procs -> Places]
    <3>1. CASE Unused = {} BY <1>6, <1>8, <3>1 DEF filealloc
    <3>2. CASE Unused # {} BY <1>1, <1>8, <3>2, GotoTypes DEF filealloc
    <3>3. QED BY <3>1, <3>2
  <2>2. QED BY <1>2, <1>8, <2>1 DEF filealloc
<1>9. ASSUME NEW p \in Procs, pipealloc(p) PROVE PipeTypes'
  <2>1. CASE UNCHANGED pipeVars
    <3>1. at' \in [Procs -> Places]
      BY <1>1, <1>6, <1>9, GotoTypes DEF pipealloc
    <3>2. QED BY <1>2, <1>9, <2>1, <3>1 DEF pipealloc
  <2>2. ASSUME NEW x \in Pages, pipeinit(x), Goto(p, "fds") PROVE PipeTypes'
    <3>1. at' \in [Procs -> Places] BY <1>1, <2>2, GotoTypes
    <3>2. Bytes' BY <1>1, <2>2, BytesNone DEF pipeinit
    <3>3. /\ inuse' \in SUBSET Pages /\ readopen' \in [Pages -> BOOLEAN]
          /\ writeopen' \in [Pages -> BOOLEAN]
      BY <1>1, <2>2 DEF pipeinit
    <3>4. UNCHANGED <<procVars, lock, cut>> BY <1>9 DEF pipealloc
    <3>5. QED BY <1>1, <3>1, <3>2, <3>3, <3>4 DEF PipeTypes, Bytes, procVars, Unread, Gap
  <2>3. QED BY <1>9, <2>1, <2>2 DEF pipealloc
<1>10. ASSUME NEW p \in Procs, PipeFds(p) PROVE PipeTypes'
  BY <1>2, <1>6, <1>10 DEF PipeFds
<1>11. ASSUME NEW p \in Procs, NEW q \in Procs, fork(p, q) PROVE PipeTypes'
  <2>1. at' \in [Procs -> Places] BY <1>1, <1>11, GotoTypes DEF fork
  <2>2. QED BY <1>2, <1>11, <2>1 DEF fork
<1>12. \A p \in Procs, more \in BOOLEAN : After(p, more) \in Places BY <1>1 DEF After
<1>13. ASSUME NEW p \in Procs, CloseInHand(p) \/ CloseOpen(p) PROVE PipeTypes'
  <2>1. PICK f \in FileIds, more \in BOOLEAN : fileclose(p, f, more) BY <1>13, ClosedFile
  <2>2. at' \in [Procs -> Places] BY <1>1, <1>12, <2>1, GotoTypes DEF fileclose
  <2>3. QED BY <1>2, <2>1, <2>2 DEF fileclose
<1>14. ASSUME NEW p \in Procs, ClosePipe(p) PROVE PipeTypes'
  <2>1. last[p] \in Ends BY <1>14 DEF ClosePipe, FileTypes
  <2>2. PICK x \in Pages, w \in BOOLEAN : x = last[p].pipe /\ w = last[p].writable
    BY <2>1 DEF Ends
  <2>3. PICK l \in Places : pipeclose(p, x, w, l)
    <3>1. PICK more \in BOOLEAN : more <=> hand[p] # <<>> \/ (at[p] = "exiting" /\ Open(p) # {})
      OBVIOUS
    <3>2. After(p, more) \in Places BY <1>12
    <3>3. pipeclose(p, x, w, After(p, more)) BY <1>14, <2>2, <3>1 DEF ClosePipe, After
    <3>4. QED BY <3>2, <3>3
  <2>4. at' \in [Procs -> Places]
    <3>1. CASE WakeReaders(x, p, l) BY <1>1, <3>1, WakeTypes DEF WakeReaders
    <3>2. CASE WakeWriters(x, p, l) BY <1>1, <3>2, WakeTypes DEF WakeWriters
    <3>3. QED BY <2>3, <3>1, <3>2 DEF pipeclose
  <2>5. Bytes'
    <3>1. CASE UNCHANGED <<nread, nwrite>> BY <1>1, <3>1, BytesSame
    <3>2. CASE nread' = [nread EXCEPT ![x] = 0] /\ nwrite' = [nwrite EXCEPT ![x] = 0]
      BY <1>1, <3>2, BytesNone
    <3>3. QED BY <2>3, <3>1, <3>2 DEF pipeclose
  <2>6. readopen' \in [Pages -> BOOLEAN] /\ writeopen' \in [Pages -> BOOLEAN]
    BY <1>1, <2>2, <2>3 DEF pipeclose
  <2>7. inuse' \in SUBSET Pages /\ cut' \in SUBSET Pages BY <1>1, <2>3 DEF pipeclose
  <2>8. UNCHANGED <<lock, procVars>> BY <2>3 DEF pipeclose
  <2>9. QED BY <1>1, <2>4, <2>5, <2>6, <2>7, <2>8 DEF PipeTypes, Bytes, procVars, Unread, Gap
<1>15. CASE UNCHANGED vars BY <1>1, <1>2, <1>15 DEF vars
<1>16. QED
  BY <1>3, <1>4, <1>5, <1>7, <1>8, <1>9, <1>10, <1>11, <1>13, <1>14, <1>15, CallTypes DEF Next

-----------------------------------------------------------------------------
(* What is in hand.                                                           *)
LEMMA Alone ==
  ASSUME FileTypes, Handling, Counted, NEW o \in Procs, at[o] \in {"pipe", "fds"},
         NEW f, f \in InHand(o)
  PROVE  /\ f \in FileIds /\ ref[f] = 1
         /\ \A h \in Holders(f) : h = <<o, OfCall>>
         /\ \A q \in Procs, fd \in Fds : ofile[q][fd] # f
         /\ \A q \in Procs : q # o => f \notin InHand(q)
<1>1. f \in FileIds BY HandsFacts DEF InHand, Handful, FileTypes
<1>2. ref[f] = 1 BY DEF Handling, HandRight
<1>3. <<o, OfCall>> \in Holders(f) BY HeldBy
<1>4. \A h \in Holders(f) : h = <<o, OfCall>> BY <1>1, <1>2, <1>3, SoleHolder
<1>5. ASSUME NEW q \in Procs, NEW fd \in Fds, ofile[q][fd] = f PROVE FALSE
  <2>1. <<q, fd>> \in Holders(f) BY <1>5, HeldBy
  <2>2. <<q, fd>> = <<o, OfCall>> BY <2>1, <1>4
  <2>3. QED BY <2>2, TableFacts
<1>6. ASSUME NEW q \in Procs, q # o, f \in InHand(q) PROVE FALSE
  <2>1. <<q, OfCall>> \in Holders(f) BY <1>6, HeldBy
  <2>2. <<q, OfCall>> = <<o, OfCall>> BY <2>1, <1>4
  <2>3. QED BY <2>2, <1>6
<1>7. QED BY <1>1, <1>2, <1>4, <1>5, <1>6

(* In user space or in a call on a pipe.                                      *)
Plain == Reading \cup Writing \cup {"user"}
LEMMA HandSame ==
  ASSUME NEW o \in Procs, HandRight(o), hand'[o] = hand[o], ofile'[o] = ofile[o], last'[o] = last[o],
         at'[o] = at[o] \/ (at[o] \in Plain /\ at'[o] \in Plain),
         at[o] \in {"pipe", "fds"} =>
           \A f \in InHand(o) : ref'[f] = ref[f] /\ type'[f] = type[f],
         \A fd \in Fds : ofile[o][fd] \in FileIds /\ type[ofile[o][fd]] = "pipe"
                            => type'[ofile[o][fd]] = "pipe"
  PROVE  HandRight(o)'
<1>1. InHand(o)' = InHand(o) BY DEF InHand
<1>2. CASE at'[o] = at[o] BY <1>1, <1>2 DEF HandRight
<1>3. CASE at[o] \in Plain /\ at'[o] \in Plain
  BY <1>1, <1>3 DEF HandRight, Plain, Reading, Writing
<1>4. QED BY <1>2, <1>3

LEMMA CallPlain ==
  ASSUME PipeTypes, NEW p \in Procs, Call(p) \/ Kill(p)
  PROVE  \A o \in Procs : at'[o] = at[o] \/ (at[o] \in Plain /\ at'[o] \in Plain)
<1> USE DEF Plain, Reading, Writing
<1>1. at \in [Procs -> Places] BY DEF PipeTypes
<1>2. ASSUME at[p] \in Plain, NEW l \in Plain, Goto(p, l)
      PROVE  \A o \in Procs : at'[o] = at[o] \/ (at[o] \in Plain /\ at'[o] \in Plain)
  BY <1>1, <1>2 DEF Goto
<1>3. ASSUME at[p] \in Plain, NEW x, NEW l \in Plain, WakeReaders(x, p, l) \/ WakeWriters(x, p, l)
      PROVE  \A o \in Procs : at'[o] = at[o] \/ (at[o] \in Plain /\ at'[o] \in Plain)
  BY <1>1, <1>3 DEF WakeReaders, WakeWriters, Wake
<1>4. CASE WriteCheck(p) BY <1>2, <1>3, <1>4 DEF WriteCheck
<1>5. CASE WriteSleep(p) BY <1>2, <1>3, <1>5 DEF WriteSleep
<1>6. CASE WriteByte(p) BY <1>2, <1>3, <1>6 DEF WriteByte
<1>7. CASE WriteFault(p) BY <1>2, <1>3, <1>7 DEF WriteFault
<1>8. CASE ReadCheck(p) BY <1>2, <1>3, <1>8 DEF ReadCheck
<1>9. CASE ReadSleep(p) BY <1>2, <1>3, <1>9 DEF ReadSleep
<1>10. ASSUME NEW k, NEW fault, ReadBytes(p, k, fault)
       PROVE  \A o \in Procs : at'[o] = at[o] \/ (at[o] \in Plain /\ at'[o] \in Plain)
  BY <1>3, <1>10 DEF ReadBytes
<1>11. CASE Kill(p) BY <1>2, <1>11 DEF Kill, InCall
<1>12. QED BY <1>4, <1>5, <1>6, <1>7, <1>8, <1>9, <1>10, <1>11 DEF Call

LEMMA HandlingStep ==
  ASSUME FileTypes, PipeTypes, Handling, Counted, OneEnd, [Next]_vars
  PROVE  Handling'
<1> USE DEF Plain, Reading, Writing
<1>1. ASSUME NEW q \in Procs, Quiet(q), NEW o \in Procs PROVE HandRight(o)'
  <2>1. hand' = hand /\ ofile' = ofile /\ last' = last /\ ref' = ref /\ type' = type
    BY <1>1, QuietFiles DEF fileVars
  <2>2. HandRight(o) BY DEF Handling
  <2>3. CASE at'[o] = at[o] \/ (at[o] \in Plain /\ at'[o] \in Plain) BY <2>1, <2>2, <2>3, HandSame
  <2>4. CASE Call(q) \/ Kill(q) BY <2>3, <2>4, CallPlain
  <2>5. ASSUME NEW fd, NEW l \in {"read", "write"}, NEW n, ReadWrite(q, fd, n, l)
        PROVE  at'[o] = at[o] \/ (at[o] \in Plain /\ at'[o] \in Plain)
    BY <2>5 DEF ReadWrite, Running, Goto, PipeTypes
  <2>6. CASE Return(q) BY <2>3, <2>6 DEF Return
  <2>7. CASE exit(q)
    <3>1. \A p \in Procs : at'[p] = IF p = q THEN IF Open(q) = {} THEN "unused" ELSE "exiting"
                                    ELSE at[p]
      BY <2>7 DEF exit, Goto, PipeTypes
    <3>2. CASE o # q BY <2>3, <3>1, <3>2
    <3>3. CASE o = q
      <4>1. hand[q] = <<>> /\ last[q] = None BY <2>2, <3>3, <2>7 DEF HandRight, exit
      <4>2. InHand(q)' = {} BY <2>1, <4>1, NoneInHand DEF InHand, Handful
      <4>3. Open(q) = {} => \A fd \in Fds : ofile[q][fd] = None BY DEF Open, Empty
      <4>4. Len(hand[q]) = 0 BY <4>1
      <4>5. QED BY <2>1, <2>2, <3>1, <3>3, <4>1, <4>2, <4>3, <4>4 DEF HandRight
    <3>4. QED BY <3>2, <3>3
  <2>8. QED BY <1>1, <2>3, <2>4, <2>5, <2>6, <2>7 DEF Quiet
<1>2. ASSUME NEW q \in Procs, NEW fd \in Fds, sys_dup(q, fd), NEW o \in Procs PROVE HandRight(o)'
  <2>1. hand' = hand /\ last' = last /\ type' = type /\ at' = at BY <1>2 DEF sys_dup
  <2>2. HandRight(o) /\ HandRight(q) BY DEF Handling
  <2>3. ofile[q][fd] \in FileIds /\ at[q] = "user"
    BY <1>2 DEF sys_dup, FileTypes, Parent, Running
  <2>4. at[o] \in {"pipe", "fds"} => \A f \in InHand(o) : ref'[f] = ref[f]
    <3>1. ASSUME at[o] \in {"pipe", "fds"}, NEW f \in InHand(o) PROVE f # ofile[q][fd] /\ f \in FileIds
      BY <3>1, Alone
    <3>2. QED BY <1>2, <3>1 DEF sys_dup, FileTypes
  <2>5. CASE o # q
    <3>1. ofile'[o] = ofile[o] BY <1>2, <2>5 DEF sys_dup, FileTypes
    <3>2. QED BY <2>1, <2>2, <2>4, <3>1, HandSame
  <2>6. CASE o = q
    <3>1. \A d \in Fds : ofile'[q][d] \in {ofile[q][d], ofile[q][fd]} BY <1>2 DEF sys_dup, FileTypes
    <3>2. \A d \in Fds : ofile'[q][d] \in FileIds => type'[ofile'[q][d]] = "pipe"
      BY <2>1, <2>2, <2>3, <3>1 DEF HandRight
    <3>3. QED BY <2>1, <2>2, <2>3, <2>6, <3>2 DEF HandRight
  <2>7. QED BY <2>5, <2>6
<1>3. ASSUME NEW q \in Procs, NEW fd \in Fds, sys_close(q, fd), NEW o \in Procs PROVE HandRight(o)'
  <2>1. last' = last /\ type' = type /\ ref' = ref BY <1>3 DEF sys_close
  <2>2. HandRight(o) /\ HandRight(q) BY DEF Handling
  <2>3. PICK g \in FileIds : g = ofile[q][fd] BY <1>3 DEF sys_close, FileTypes
  <2>4. <<g>> # <<>> /\ Len(<<g>>) = 1 OBVIOUS
  <2>5. hand' = [hand EXCEPT ![q] = <<g>>] /\ at' = [at EXCEPT ![q] = "closing"]
    BY <1>3, <2>3, <2>4 DEF sys_close, Closing, Goto
  <2>6. CASE o # q
    <3>1. ofile'[o] = ofile[o] /\ hand'[o] = hand[o] /\ at'[o] = at[o]
      BY <1>3, <2>5, <2>6 DEF sys_close, FileTypes, PipeTypes
    <3>2. QED BY <2>1, <2>2, <3>1, HandSame
  <2>7. CASE o = q
    <3>1. at'[q] = "closing" /\ hand'[q] = <<g>> BY <2>5 DEF FileTypes, PipeTypes
    <3>2. \A d \in Fds : ofile'[q][d] \in {ofile[q][d], None} BY <1>3 DEF sys_close, FileTypes
    <3>3. \A d \in Fds : ofile'[q][d] \in FileIds => type'[ofile'[q][d]] = "pipe"
      BY <2>1, <2>2, <3>2, TableFacts DEF HandRight
    <3>4. QED BY <2>4, <2>7, <3>1, <3>3 DEF HandRight
  <2>8. QED BY <2>6, <2>7
<1>4. ASSUME NEW q \in Procs, filealloc(q), NEW o \in Procs PROVE HandRight(o)'
  <2>1. last' = last /\ type' = type /\ ofile' = ofile BY <1>4 DEF filealloc
  <2>2. HandRight(o) /\ HandRight(q) BY DEF Handling
  <2>3. at[q] \in {"user", "pipe"} /\ (at[q] = "pipe" => Len(hand[q]) = 1)
    BY <1>4 DEF filealloc, Parent, Running
  <2>4. last[q] = None /\ (at[q] = "user" => hand[q] = <<>>) BY <2>2, <2>3 DEF HandRight
  <2>5. hand[q] \in Hands /\ Len(hand[q]) \in {0, 1}
    <3>1. Len(<<>>) = 0 OBVIOUS
    <3>2. QED BY <2>3, <2>4, <3>1 DEF FileTypes
  <2>6. CASE Unused = {}
    <3>1. hand' = hand /\ ref' = ref BY <1>4, <2>6 DEF filealloc, Closing, FileTypes
    <3>2. at' = [at EXCEPT ![q] = IF hand[q] = <<>> THEN "user" ELSE "closing"]
      BY <1>4, <2>6 DEF filealloc, Closing, Goto
    <3>3. CASE o # q
      <4>1. at'[o] = at[o] BY <3>2, <3>3 DEF PipeTypes
      <4>2. QED BY <2>1, <2>2, <3>1, <4>1, HandSame
    <3>4. CASE o = q
      <4>1. at'[q] = IF hand[q] = <<>> THEN "user" ELSE "closing" BY <3>2 DEF PipeTypes
      <4>2. QED BY <2>1, <2>2, <2>4, <2>5, <3>1, <3>4, <4>1 DEF HandRight
    <3>5. QED BY <3>3, <3>4
  <2>7. CASE Unused # {}
    <3>1. PICK g : g = FirstOf(Unused) OBVIOUS
    <3>2. g \in Unused BY <2>7, <3>1, TableFacts, FirstOfFacts DEF Unused
    <3>3. g \in FileIds /\ ref[g] = 0 BY <3>2 DEF Unused
    <3>4. type[g] = "none" BY <3>3 DEF OneEnd, FileTypes
    <3>5. PICK s : s = Append(hand[q], g) OBVIOUS
    <3>6. /\ s \in Hands /\ Handful(s) = InHand(q) \cup {g} /\ Len(s) = Len(hand[q]) + 1
          /\ Len(hand[q]) = 1 => s[1] = hand[q][1] /\ s[2] = g
      BY <2>5, <3>3, <3>5, PutInHand DEF InHand, Handful
    <3>7. hand' = [hand EXCEPT ![q] = s] /\ ref' = [ref EXCEPT ![g] = 1] /\ at' = [at EXCEPT ![q] = "pipe"]
      BY <1>4, <2>7, <3>1, <3>5 DEF filealloc, FileTypes, Goto
    <3>8. CASE o # q
      <4>1. at'[o] = at[o] /\ hand'[o] = hand[o] BY <3>7, <3>8 DEF PipeTypes, FileTypes
      <4>2. at[o] \in {"pipe", "fds"} => \A f \in InHand(o) : ref'[f] = ref[f]
        <5>1. ASSUME at[o] \in {"pipe", "fds"}, NEW f \in InHand(o) PROVE f # g /\ f \in FileIds
          BY <3>3, <5>1, Alone
        <5>2. QED BY <3>7, <5>1 DEF FileTypes
      <4>3. QED BY <2>1, <2>2, <4>1, <4>2, HandSame
    <3>9. CASE o = q
      <4>1. at'[q] = "pipe" /\ hand'[q] = s BY <3>7 DEF PipeTypes, FileTypes
      <4>2. InHand(q)' = InHand(q) \cup {g} BY <3>6, <4>1 DEF InHand, Handful
      <4>3. ASSUME NEW f \in InHand(q) PROVE f \in FileIds /\ ref[f] = 1 /\ type[f] = "none" /\ f # g
        <5>1. CASE at[q] = "pipe" BY <2>2, <3>3, <4>3, <5>1, Alone DEF HandRight
        <5>2. CASE at[q] = "user" BY <2>4, <4>3, <5>2, NoneInHand DEF InHand, Handful
        <5>3. QED BY <2>3, <5>1, <5>2
      <4>4. \A f \in InHand(q)' : ref'[f] = 1 /\ type'[f] = "none"
        BY <2>1, <3>3, <3>4, <3>7, <4>2, <4>3 DEF FileTypes
      <4>5. Len(s) = 2 => s[1] # s[2]
        <5>1. Len(hand[q]) = 1 => hand[q][1] \in InHand(q)
          BY <2>5, HandsFacts DEF InHand, Handful
        <5>2. QED BY <2>5, <3>6, <4>3, <5>1
      <4>6. QED BY <2>1, <2>2, <2>4, <3>9, <4>1, <4>4, <4>5 DEF HandRight
    <3>10. QED BY <3>8, <3>9
  <2>8. QED BY <2>6, <2>7
<1>5. ASSUME NEW q \in Procs, pipealloc(q), NEW o \in Procs PROVE HandRight(o)'
  <2>1. last' = last /\ ref' = ref /\ ofile' = ofile /\ at[q] = "pipe" /\ Len(hand[q]) = 2
    BY <1>5 DEF pipealloc
  <2>2. HandRight(o) /\ HandRight(q) BY DEF Handling
  <2>3. hand' = hand BY <1>5 DEF pipealloc, Closing, FileTypes
  <2>4. hand[q] # <<>>
    <3>1. hand[q] = <<>> => Len(hand[q]) = 0 OBVIOUS
    <3>2. QED BY <2>1, <3>1
  <2>5. /\ hand[q][1] \in FileIds /\ hand[q][2] \in FileIds
        /\ InHand(q) = {hand[q][1], hand[q][2]}
    BY <2>1, HandsFacts DEF InHand, Handful, FileTypes
  <2>6. last[q] = None BY <2>1, <2>2 DEF HandRight
  <2>7. CASE UNCHANGED <<type>> /\ at' = [at EXCEPT ![q] = "closing"]
    <3>1. CASE o # q
      <4>1. at'[o] = at[o] BY <2>7, <3>1 DEF PipeTypes
      <4>2. QED BY <2>1, <2>2, <2>3, <2>7, <4>1, HandSame
    <3>2. CASE o = q
      <4>1. at'[q] = "closing" BY <2>7 DEF PipeTypes
      <4>2. QED BY <2>1, <2>2, <2>3, <2>7, <3>2, <4>1 DEF HandRight
    <3>3. QED BY <3>1, <3>2
  <2>8. CASE type' = [type EXCEPT ![hand[q][1]] = "pipe", ![hand[q][2]] = "pipe"]
             /\ at' = [at EXCEPT ![q] = "fds"]
    <3>1. \A f \in FileIds : type'[f] = IF f \in InHand(q) THEN "pipe" ELSE type[f]
      BY <2>5, <2>8 DEF FileTypes
    <3>2. CASE o # q
      <4>1. at'[o] = at[o] BY <2>8, <3>2 DEF PipeTypes
      <4>2. at[o] \in {"pipe", "fds"} => \A f \in InHand(o) : type'[f] = type[f]
        <5>1. ASSUME at[o] \in {"pipe", "fds"}, NEW f \in InHand(o)
              PROVE  f \in FileIds /\ f \notin InHand(q)
          BY <3>2, <5>1, Alone
        <5>2. QED BY <3>1, <5>1
      <4>3. QED BY <2>1, <2>2, <2>3, <3>1, <4>1, <4>2, HandSame
    <3>3. CASE o = q
      <4>1. at'[q] = "fds" BY <2>8 DEF PipeTypes
      <4>2. InHand(q)' = InHand(q) BY <2>3 DEF InHand
      <4>3. \A f \in InHand(q)' : ref'[f] = 1 /\ type'[f] = "pipe"
        BY <2>1, <2>2, <2>5, <3>1, <4>2 DEF HandRight
      <4>4. QED BY <2>1, <2>2, <2>3, <2>6, <3>1, <3>3, <4>1, <4>3 DEF HandRight
    <3>4. QED BY <3>2, <3>3
  <2>9. QED BY <1>5, <2>4, <2>7, <2>8 DEF pipealloc, Closing, Goto
<1>6. ASSUME NEW q \in Procs, PipeFds(q), NEW o \in Procs PROVE HandRight(o)'
  <2>1. last' = last /\ ref' = ref /\ type' = type /\ at[q] = "fds" BY <1>6 DEF PipeFds
  <2>2. HandRight(o) /\ HandRight(q) BY DEF Handling
  <2>3. /\ hand[q][1] \in FileIds /\ hand[q][2] \in FileIds
        /\ InHand(q) = {hand[q][1], hand[q][2]} /\ Len(hand[q]) = 2
    BY <2>1, <2>2, HandsFacts DEF InHand, Handful, FileTypes, HandRight
  <2>4. type[hand[q][1]] = "pipe" /\ type[hand[q][2]] = "pipe" /\ last[q] = None
    BY <2>1, <2>2, <2>3 DEF HandRight
  <2>5. Len(<<>>) = 0 OBVIOUS
  <2>6. CASE o # q
    <3>1. hand'[o] = hand[o] /\ at'[o] = at[o] /\ ofile'[o] = ofile[o]
      <4>1. hand'[o] = hand[o] /\ at'[o] = at[o]
        BY <1>6, <2>6 DEF PipeFds, Closing, Goto, FileTypes, PipeTypes
      <4>2. ASSUME NEW d, NEW e, NEW r, NEW w, ofile' = [ofile EXCEPT ![q][d] = r, ![q][e] = w]
            PROVE  ofile'[o] = ofile[o]
        BY <2>6, <4>2 DEF FileTypes
      <4>3. CASE UNCHANGED ofile BY <4>1, <4>3
      <4>4. CASE ~ UNCHANGED ofile
        <5>1. PICK d, e : ofile' = [ofile EXCEPT ![q][d] = hand[q][1], ![q][e] = hand[q][2]]
          BY <1>6, <4>4, Zenon DEF PipeFds
        <5>2. QED BY <4>1, <4>2, <5>1, Zenon
      <4>5. QED BY <4>3, <4>4
    <3>2. QED BY <2>1, <2>2, <3>1, HandSame
  <2>7. CASE o = q
    <3>1. CASE Closing(q, <<>>) /\ ~ UNCHANGED ofile
      <4>1. at'[q] = "user" /\ hand'[q] = <<>>
        BY <3>1 DEF Closing, Goto, FileTypes, PipeTypes
      <4>2. InHand(q)' = {} BY <4>1, NoneInHand DEF InHand, Handful
      <4>3. PICK d, e : ofile' = [ofile EXCEPT ![q][d] = hand[q][1], ![q][e] = hand[q][2]]
        BY <1>6, <3>1, Zenon DEF PipeFds
      <4>4. \A c \in Fds : ofile'[q][c] \in {ofile[q][c], hand[q][1], hand[q][2]}
        BY <4>3 DEF FileTypes
      <4>5. \A c \in Fds : ofile'[q][c] \in FileIds => type'[ofile'[q][c]] = "pipe"
        BY <2>1, <2>2, <2>4, <4>4 DEF HandRight
      <4>6. QED BY <2>1, <2>4, <2>5, <2>7, <4>1, <4>2, <4>5 DEF HandRight
    <3>2. CASE Closing(q, Undo(q)) /\ UNCHANGED ofile
      <4>1. hand' = hand BY <3>2 DEF Closing, Undo, FileTypes
      <4>2. at'[q] = "closing" BY <2>3, <2>5, <3>2 DEF Closing, Undo, Goto, PipeTypes
      <4>3. QED BY <2>1, <2>2, <2>7, <3>2, <4>1, <4>2 DEF HandRight
    <3>3. CASE Closing(q, <<>>) /\ UNCHANGED ofile
      <4>1. at'[q] = "user" /\ hand'[q] = <<>>
        BY <3>3 DEF Closing, Goto, FileTypes, PipeTypes
      <4>2. InHand(q)' = {} BY <4>1, NoneInHand DEF InHand, Handful
      <4>3. QED BY <2>1, <2>2, <2>4, <2>5, <2>7, <3>3, <4>1, <4>2 DEF HandRight
    <3>4. QED BY <1>6, <3>1, <3>2, <3>3 DEF PipeFds
  <2>8. QED BY <2>6, <2>7
<1>7. ASSUME NEW q \in Procs, NEW p \in Procs, fork(q, p), NEW o \in Procs PROVE HandRight(o)'
  <2>1. last' = last /\ type' = type /\ hand' = hand BY <1>7 DEF fork
  <2>2. HandRight(o) /\ HandRight(q) BY DEF Handling
  <2>3. \A c \in Procs : at'[c] = IF c = p THEN "user" ELSE at[c] BY <1>7 DEF fork, Goto, PipeTypes
  <2>4. \A c \in Procs : ofile'[c] = IF c = p THEN ofile[q] ELSE ofile[c] BY <1>7 DEF fork, FileTypes
  <2>5. at[p] = "unused" BY <1>7 DEF fork
  <2>6. CASE o # p
    <3>1. at[o] \in {"pipe", "fds"} => \A f \in InHand(o) : ref'[f] = ref[f]
      <4>1. ASSUME at[o] \in {"pipe", "fds"}, NEW f \in InHand(o) PROVE ref'[f] = ref[f]
        <5>1. f \in FileIds /\ ref[f] = 1 /\ \A fd \in Fds : ofile[q][fd] # f BY <4>1, Alone
        <5>2. {fd \in Fds : ofile[q][fd] = f} = {} BY <5>1
        <5>3. Refs(ofile[q], f) = 0 BY <5>2, FS_EmptySet DEF Refs
        <5>4. QED BY <1>7, <5>1, <5>3 DEF fork, DupAll
      <4>2. QED BY <4>1
    <3>2. QED BY <2>1, <2>2, <2>3, <2>4, <2>6, <3>1, HandSame
  <2>7. CASE o = p
    <3>1. hand[o] = <<>> /\ last[o] = None BY <2>2, <2>5, <2>7 DEF HandRight
    <3>2. InHand(o)' = {} BY <2>1, <3>1, NoneInHand DEF InHand, Handful
    <3>3. Len(<<>>) = 0 OBVIOUS
    <3>4. \A d \in Fds : ofile'[o][d] \in FileIds => type'[ofile'[o][d]] = "pipe"
      BY <2>1, <2>2, <2>4, <2>7 DEF HandRight
    <3>5. QED BY <2>1, <2>3, <2>7, <3>1, <3>2, <3>3, <3>4 DEF HandRight
  <2>8. QED BY <2>6, <2>7
<1>8. ASSUME NEW q \in Procs, CloseInHand(q) \/ CloseOpen(q), NEW o \in Procs PROVE HandRight(o)'
  <2>1. PICK f \in FileIds : \E k \in Holders(f), m \in BOOLEAN :
          /\ k[1] = q /\ fileclose(q, f, m)
          /\ \A d \in Fds : k = <<q, d>> => ofile'[q][d] = None
          /\ m <=> hand'[q] # <<>> \/ (at[q] = "exiting" /\ Open(q)' # {})
    BY <1>8, ClosedFile
  <2>2. PICK h \in Holders(f), more \in BOOLEAN :
          /\ h[1] = q /\ fileclose(q, f, more)
          /\ \A d \in Fds : h = <<q, d>> => ofile'[q][d] = None
          /\ more <=> hand'[q] # <<>> \/ (at[q] = "exiting" /\ Open(q)' # {})
    BY <2>1
  <2>3. /\ at[q] \in {"closing", "exiting"} /\ last[q] = None
        /\ \A c \in Procs : c # q => hand'[c] = hand[c] /\ ofile'[c] = ofile[c]
        /\ \A fd \in Fds : ofile'[q][fd] \in {ofile[q][fd], None}
        /\ Len(hand'[q]) # 2 /\ (at[q] = "exiting" => hand'[q] = <<>>)
    BY <1>8, ClosedFile
  <2>4. HandRight(o) /\ HandRight(q) BY DEF Handling
  <2>5. \A g \in FileIds : type'[g] # type[g] => g = f /\ ref[f] = 1 /\ type'[f] = "none"
    BY <2>2 DEF fileclose, Shut, FileTypes
  <2>6. ref' = [ref EXCEPT ![f] = @ - 1] BY <2>2 DEF fileclose
  <2>7. CASE o # q
    <3>1. at'[o] = at[o] /\ last'[o] = last[o]
      BY <2>2, <2>7 DEF fileclose, Goto, PipeTypes, FileTypes
    <3>2. at[o] \in {"pipe", "fds"} =>
            \A g \in InHand(o) : ref'[g] = ref[g] /\ type'[g] = type[g]
      <4>1. ASSUME at[o] \in {"pipe", "fds"}, NEW g \in InHand(o) PROVE g \in FileIds /\ g # f
        <5>1. g \in FileIds /\ \A k \in Holders(g) : k = <<o, OfCall>> BY <4>1, Alone
        <5>2. h # <<o, OfCall>> BY <2>2, <2>7
        <5>3. QED BY <5>1, <5>2
      <4>2. QED BY <2>5, <2>6, <4>1 DEF FileTypes
    <3>3. ASSUME NEW fd \in Fds, ofile[o][fd] \in FileIds PROVE type'[ofile[o][fd]] = type[ofile[o][fd]]
      <4>1. CASE ofile[o][fd] # f BY <2>5, <3>3, <4>1
      <4>2. CASE ofile[o][fd] = f
        <5>1. <<o, fd>> \in Holders(f) BY <4>2, HeldBy
        <5>2. h # <<o, fd>> BY <2>2, <2>7
        <5>3. ref[f] # 1 BY <5>1, <5>2, SoleHolder
        <5>4. QED BY <2>5, <3>3, <5>3
      <4>3. QED BY <4>1, <4>2
    <3>4. QED BY <2>3, <2>4, <2>7, <3>1, <3>2, <3>3, HandSame
  <2>8. CASE o = q
    <3>1. ASSUME NEW fd \in Fds, ofile'[q][fd] \in FileIds PROVE type'[ofile'[q][fd]] = "pipe"
      <4>1. PICK g \in FileIds : g = ofile'[q][fd] BY <3>1
      <4>2. ofile[q][fd] = g /\ type[g] = "pipe" BY <2>3, <2>4, <4>1, TableFacts DEF HandRight
      <4>3. <<q, fd>> \in Holders(g) BY <4>2, HeldBy
      <4>4. h # <<q, fd>> BY <2>2, <4>1, TableFacts
      <4>5. g = f => ref[f] # 1 BY <4>3, <4>4, SoleHolder
      <4>6. QED BY <2>5, <4>1, <4>2, <4>5
    <3>2. CASE at' = at
      <4>1. at'[q] \in {"closing", "exiting"} BY <2>3, <3>2
      <4>2. at'[q] = "exiting" => hand'[q] = <<>> BY <2>3, <3>2
      <4>3. QED BY <2>3, <2>8, <3>1, <4>1, <4>2 DEF HandRight
    <3>3. CASE last' = last /\ Goto(q, After(q, more))
      <4>1. at'[q] = After(q, more) BY <3>3 DEF Goto, PipeTypes
      <4>2. CASE more
        <5>1. at'[q] = at[q] BY <4>1, <4>2 DEF After
        <5>2. QED BY <2>3, <2>8, <3>1, <5>1 DEF HandRight
      <4>3. CASE ~more
        <5>1. hand'[q] = <<>> BY <2>2, <4>3
        <5>2. at'[q] = IF at[q] = "exiting" THEN "unused" ELSE "user" BY <4>1, <4>3 DEF After
        <5>3. at[q] = "exiting" => \A fd \in Fds : ofile'[q][fd] = None
          BY <2>2, <4>3 DEF Open, Empty
        <5>4. InHand(q)' = {} BY <5>1, NoneInHand DEF InHand, Handful
        <5>5. QED BY <2>3, <2>8, <3>1, <3>3, <5>1, <5>2, <5>3, <5>4 DEF HandRight
      <4>4. QED BY <4>2, <4>3
    <3>4. QED BY <2>2, <3>2, <3>3 DEF fileclose
  <2>9. QED BY <2>7, <2>8
<1>9. ASSUME NEW q \in Procs, ClosePipe(q), NEW o \in Procs PROVE HandRight(o)'
  <2>1. /\ ref' = ref /\ type' = type /\ ofile' = ofile /\ hand' = hand
        /\ last' = [last EXCEPT ![q] = None]
    BY <1>9 DEF ClosePipe
  <2>2. HandRight(o) /\ HandRight(q) BY DEF Handling
  <2>3. at[q] \in {"closing", "exiting"} BY <1>9, <2>2 DEF ClosePipe, HandRight
  <2>4. PICK more \in BOOLEAN : more <=> hand[q] # <<>> \/ (at[q] = "exiting" /\ Open(q) # {})
    OBVIOUS
  <2>5. PICK x, l : /\ WakeReaders(x, q, l) \/ WakeWriters(x, q, l)
                    /\ l = After(q, more)
    BY <1>9, <2>4 DEF ClosePipe, pipeclose, After
  <2>6. CASE o # q
    <3>1. at'[o] = at[o] \/ (at[o] \in Plain /\ at'[o] \in Plain)
      BY <2>5, <2>6 DEF WakeReaders, WakeWriters, Wake
    <3>2. last'[o] = last[o] BY <2>1, <2>6 DEF FileTypes
    <3>3. QED BY <2>1, <2>2, <3>1, <3>2, HandSame
  <2>7. CASE o = q
    <3>1. at'[q] = After(q, more) BY <2>5 DEF WakeReaders, WakeWriters, Wake
    <3>2. last'[q] = None BY <2>1 DEF FileTypes
    <3>3. InHand(q)' = InHand(q) BY <2>1 DEF InHand
    <3>4. CASE more
      <4>1. at'[q] = at[q] BY <3>1, <3>4 DEF After
      <4>2. QED BY <2>1, <2>2, <2>3, <2>7, <3>2, <4>1 DEF HandRight
    <3>5. CASE ~more
      <4>1. hand[q] = <<>> BY <2>4, <3>5
      <4>2. at'[q] = IF at[q] = "exiting" THEN "unused" ELSE "user" BY <3>1, <3>5 DEF After
      <4>3. at[q] = "exiting" => \A fd \in Fds : ofile[q][fd] = None
        BY <2>4, <3>5 DEF Open, Empty
      <4>4. QED BY <2>1, <2>2, <2>3, <2>7, <3>2, <3>3, <4>1, <4>2, <4>3 DEF HandRight
    <3>6. QED BY <3>4, <3>5
  <2>8. QED BY <2>6, <2>7
<1>10. CASE UNCHANGED vars
  <2>1. ASSUME NEW o \in Procs PROVE HandRight(o)'
    <3>1. HandRight(o) BY DEF Handling
    <3>2. QED BY <1>10, <3>1, HandSame DEF vars, fileVars
  <2>2. QED BY <2>1 DEF Handling
<1>11. CASE Next
  <2>1. ASSUME NEW o \in Procs PROVE HandRight(o)'
    BY <1>1, <1>2, <1>3, <1>4, <1>5, <1>6, <1>7, <1>8, <1>9, <1>11, Actions
  <2>2. QED BY <2>1 DEF Handling
<1>12. QED BY <1>10, <1>11

-----------------------------------------------------------------------------
(* The ends of the pipes: sys_pipe() makes two of them, the last fileclose()  *)
(* turns a file into a pipeclose() to come, and that removes it.              *)
LEMMA EndOpenIs ==
  ASSUME NEW x, NEW w
  PROVE  /\ EndOpen(x, w) <=> (\E f \in FileIds : IsEnd(f, x, w)) \/ (\E p \in Procs : ToClose(p, x, w))
         /\ EndOpen(x, w)' <=> (\E f \in FileIds : IsEnd(f, x, w)') \/ (\E p \in Procs : ToClose(p, x, w)')
BY DEF EndOpen, IsEnd, ToClose

LEMMA EndsAlloc ==
  ASSUME FileTypes, Handling, Counted, NEW q \in Procs, pipealloc(q)
  PROVE  \/ UNCHANGED <<type, writable, pipe, inuse, readopen, writeopen>>
         \/ \E x \in Pages, r \in FileIds, s \in FileIds :
              /\ x \notin inuse /\ pipeinit(x) /\ r # s
              /\ ref[r] = 1 /\ ref[s] = 1 /\ type[r] = "none" /\ type[s] = "none"
              /\ \A f \in FileIds :
                   /\ type'[f] = IF f \in {r, s} THEN "pipe" ELSE type[f]
                   /\ pipe'[f] = IF f \in {r, s} THEN x ELSE pipe[f]
              /\ \A f \in FileIds, y \in Pages, w \in BOOLEAN :
                   IsEnd(f, y, w)' <=> \/ f = r /\ y = x /\ w = FALSE
                                       \/ f = s /\ y = x /\ w = TRUE
                                       \/ IsEnd(f, y, w)
<1>1. at[q] = "pipe" /\ hand[q] \in Hands /\ Len(hand[q]) = 2 BY DEF pipealloc, FileTypes
<1>2. PICK r \in FileIds, s \in FileIds : r = hand[q][1] /\ s = hand[q][2] /\ InHand(q) = {r, s}
  BY <1>1, HandsFacts DEF InHand, Handful
<1>3. /\ r # s /\ ref[r] = 1 /\ ref[s] = 1 /\ type[r] = "none" /\ type[s] = "none"
  BY <1>1, <1>2 DEF Handling, HandRight
<1>4. ASSUME NEW x \in Pages, x \notin inuse, pipeinit(x),
             type' = [type EXCEPT ![r] = "pipe", ![s] = "pipe"],
             writable' = [writable EXCEPT ![r] = FALSE, ![s] = TRUE],
             pipe' = [pipe EXCEPT ![r] = x, ![s] = x]
      PROVE  \A f \in FileIds, y \in Pages, w \in BOOLEAN :
                   IsEnd(f, y, w)' <=> \/ f = r /\ y = x /\ w = FALSE
                                       \/ f = s /\ y = x /\ w = TRUE
                                       \/ IsEnd(f, y, w)
  <2>1. \A f \in FileIds :
          /\ type'[f] = IF f \in {r, s} THEN "pipe" ELSE type[f]
          /\ writable'[f] = IF f = s THEN TRUE ELSE IF f = r THEN FALSE ELSE writable[f]
          /\ pipe'[f] = IF f \in {r, s} THEN x ELSE pipe[f]
    BY <1>3, <1>4 DEF FileTypes
  <2>2. ASSUME NEW f \in FileIds, NEW y \in Pages, NEW w \in BOOLEAN
        PROVE  IsEnd(f, y, w)' <=> \/ f = r /\ y = x /\ w = FALSE
                                   \/ f = s /\ y = x /\ w = TRUE
                                   \/ IsEnd(f, y, w)
    <3>1. CASE f = r BY <1>3, <2>1, <3>1 DEF IsEnd
    <3>2. CASE f = s BY <1>3, <2>1, <3>2 DEF IsEnd
    <3>3. CASE f # r /\ f # s BY <2>1, <3>3 DEF IsEnd
    <3>4. QED BY <3>1, <3>2, <3>3
  <2>3. QED BY <2>2
<1>5. CASE UNCHANGED <<pipeVars, type, writable, pipe>> BY <1>5 DEF pipeVars
<1>6. CASE ~ UNCHANGED <<pipeVars, type, writable, pipe>>
  <2>1. PICK x \in Pages : /\ x \notin inuse /\ pipeinit(x)
                           /\ type' = [type EXCEPT ![r] = "pipe", ![s] = "pipe"]
                           /\ writable' = [writable EXCEPT ![r] = FALSE, ![s] = TRUE]
                           /\ pipe' = [pipe EXCEPT ![r] = x, ![s] = x]
    BY <1>2, <1>6 DEF pipealloc
  <2>2. \A f \in FileIds, y \in Pages, w \in BOOLEAN :
                   IsEnd(f, y, w)' <=> \/ f = r /\ y = x /\ w = FALSE
                                       \/ f = s /\ y = x /\ w = TRUE
                                       \/ IsEnd(f, y, w)
    BY <2>1, <1>4
  <2>3. \A f \in FileIds : /\ type'[f] = IF f \in {r, s} THEN "pipe" ELSE type[f]
                           /\ pipe'[f] = IF f \in {r, s} THEN x ELSE pipe[f]
    BY <2>1 DEF FileTypes
  <2>4. QED BY <1>3, <2>1, <2>2, <2>3
<1>7. QED BY <1>5, <1>6

LEMMA EndsClose ==
  ASSUME FileTypes, OneEnd, NEW q \in Procs, NEW f \in FileIds, NEW more, fileclose(q, f, more)
  PROVE  \/ UNCHANGED <<type, writable, pipe, last>> /\ (ref[f] # 1 \/ type[f] = "none")
         \/ /\ type[f] = "pipe" /\ pipe[f] \in Pages /\ writable[f] \in BOOLEAN /\ last[q] = None
            /\ \A g \in FileIds : type'[g] = "pipe" => g # f /\ type[g] = "pipe" /\ pipe'[g] = pipe[g]
            /\ \A g \in FileIds, y \in Pages, w \in BOOLEAN :
                 IsEnd(g, y, w)' <=> IsEnd(g, y, w) /\ g # f
            /\ \A p \in Procs, y \in Pages, w \in BOOLEAN :
                 ToClose(p, y, w)' <=> \/ ToClose(p, y, w)
                                       \/ p = q /\ y = pipe[f] /\ w = writable[f]
<1>1. CASE ref[f] = 1 /\ type[f] = "pipe"
  <2>1. pipe[f] \in Pages /\ writable[f] \in BOOLEAN /\ last[q] = None
    BY <1>1 DEF OneEnd, FileTypes, fileclose
  <2>2. \A g \in FileIds : g # f => /\ type'[g] = type[g] /\ pipe'[g] = pipe[g]
                                    /\ writable'[g] = writable[g]
    BY <1>1 DEF fileclose, Shut, FileTypes
  <2>3. type'[f] = "none" BY <1>1 DEF fileclose, Shut, FileTypes
  <2>4. \A g \in FileIds, y \in Pages, w \in BOOLEAN :
                 IsEnd(g, y, w)' <=> IsEnd(g, y, w) /\ g # f
    BY <2>2, <2>3 DEF IsEnd
  <2>5. PICK e : e = [pipe |-> pipe[f], writable |-> writable[f]] OBVIOUS
  <2>6. e \in Ends BY <2>1, <2>5 DEF Ends
  <2>7. \A p \in Procs : last'[p] = IF p = q THEN e ELSE last[p]
    BY <1>1, <2>5 DEF fileclose, FileTypes
  <2>8. e # None BY <2>6, TableFacts
  <2>9. \A y, w : e = [pipe |-> y, writable |-> w] <=> y = pipe[f] /\ w = writable[f] BY <2>5
  <2>10. \A p \in Procs, y \in Pages, w \in BOOLEAN :
           ToClose(p, y, w)' <=> ToClose(p, y, w) \/ (p = q /\ y = pipe[f] /\ w = writable[f])
    <3>1. ASSUME NEW p \in Procs, NEW y \in Pages, NEW w \in BOOLEAN
          PROVE  ToClose(p, y, w)' <=> ToClose(p, y, w) \/ (p = q /\ y = pipe[f] /\ w = writable[f])
      <4>1. CASE p = q
        <5>1. ~ ToClose(p, y, w) BY <2>1, <4>1 DEF ToClose
        <5>2. ToClose(p, y, w)' <=> e = [pipe |-> y, writable |-> w] BY <2>7, <2>8, <4>1 DEF ToClose
        <5>3. QED BY <2>9, <4>1, <5>1, <5>2
      <4>2. CASE p # q BY <2>7, <4>2 DEF ToClose
      <4>3. QED BY <4>1, <4>2
    <3>2. QED BY <3>1
  <2>11. \A g \in FileIds : type'[g] = "pipe" => g # f /\ type[g] = "pipe" /\ pipe'[g] = pipe[g]
    BY <2>2, <2>3
  <2>12. QED BY <1>1, <2>1, <2>4, <2>10, <2>11
<1>2. CASE ~(ref[f] = 1 /\ type[f] = "pipe") BY <1>2 DEF fileclose, FileTypes
<1>3. QED BY <1>1, <1>2

LEMMA EndsClosePipe ==
  ASSUME FileTypes, NEW q \in Procs, ClosePipe(q)
  PROVE  \E x \in Pages, v \in BOOLEAN :
           /\ \E l : pipeclose(q, x, v, l)
           /\ ToClose(q, x, v)
           /\ \A g \in FileIds, y \in Pages, w \in BOOLEAN : IsEnd(g, y, w)' <=> IsEnd(g, y, w)
           /\ \A p \in Procs, y \in Pages, w \in BOOLEAN :
                ToClose(p, y, w)' <=> ToClose(p, y, w) /\ p # q
<1>1. last[q] \in Ends /\ last[q] # None BY DEF ClosePipe, FileTypes
<1>2. PICK x \in Pages, v \in BOOLEAN : last[q] = [pipe |-> x, writable |-> v] BY <1>1 DEF Ends
<1>3. last[q].pipe = x /\ last[q].writable = v BY <1>2
<1>4. PICK l : pipeclose(q, x, v, l) BY <1>3 DEF ClosePipe
<1>5. ToClose(q, x, v) BY <1>1, <1>2 DEF ToClose
<1>6. \A g \in FileIds, y \in Pages, w \in BOOLEAN : IsEnd(g, y, w)' <=> IsEnd(g, y, w)
  BY DEF ClosePipe, IsEnd
<1>7. \A p \in Procs : last'[p] = IF p = q THEN None ELSE last[p] BY DEF ClosePipe, FileTypes
<1>8. \A p \in Procs, y \in Pages, w \in BOOLEAN :
        ToClose(p, y, w)' <=> ToClose(p, y, w) /\ p # q
  BY <1>7 DEF ToClose
<1>9. QED BY <1>4, <1>5, <1>6, <1>8

LEMMA OneEndSame ==
  ASSUME OneEnd, UNCHANGED <<type, writable, pipe, last>>,
         \A f \in FileIds : type[f] = "pipe" => ref'[f] >= 1
  PROVE  OneEnd'
<1>1. \A f, x, w : IsEnd(f, x, w)' <=> IsEnd(f, x, w) BY DEF IsEnd
<1>2. \A p, x, w : ToClose(p, x, w)' <=> ToClose(p, x, w) BY DEF ToClose
<1>3. \A f \in FileIds : type'[f] = "pipe" => pipe'[f] \in Pages /\ ref'[f] >= 1 BY DEF OneEnd
<1>4. QED BY <1>1, <1>2, <1>3 DEF OneEnd

LEMMA OneEndStep ==
  ASSUME FileTypes, Handling, Counted, OneEnd, OpenRight, [Next]_vars PROVE OneEnd'
<1>1. ASSUME UNCHANGED fileVars PROVE OneEnd'
  BY <1>1, OneEndSame DEF OneEnd, fileVars
<1>2. ASSUME NEW q \in Procs, NEW fd \in Fds, sys_dup(q, fd) PROVE OneEnd'
  <2>1. \A f \in FileIds : ref'[f] >= ref[f] BY <1>2 DEF sys_dup, FileTypes
  <2>2. \A f \in FileIds : type[f] = "pipe" => ref'[f] >= 1
    <3>1. ref' \in [FileIds -> Nat] BY <1>2 DEF sys_dup, FileTypes
    <3>2. QED BY <2>1, <3>1 DEF OneEnd, FileTypes
  <2>3. QED BY <1>2, <2>2, OneEndSame DEF sys_dup
<1>3. ASSUME NEW q \in Procs, NEW fd \in Fds, sys_close(q, fd) PROVE OneEnd'
  BY <1>3, OneEndSame DEF sys_close, OneEnd
<1>4. ASSUME NEW q \in Procs, filealloc(q) PROVE OneEnd'
  <2>1. \A f \in FileIds : type[f] = "pipe" => ref'[f] >= 1
    BY <1>4 DEF filealloc, FileTypes, OneEnd
  <2>2. QED BY <1>4, <2>1, OneEndSame DEF filealloc
<1>5. ASSUME NEW q \in Procs, pipealloc(q) PROVE OneEnd'
  <2>1. ref' = ref /\ last' = last BY <1>5 DEF pipealloc
  <2>2. CASE UNCHANGED <<type, writable, pipe>> BY <2>1, <2>2, OneEndSame DEF OneEnd
  <2>3. CASE ~ UNCHANGED <<type, writable, pipe>>
    <3>1. PICK x \in Pages, r \in FileIds, s \in FileIds :
              /\ x \notin inuse /\ r # s
              /\ ref[r] = 1 /\ ref[s] = 1 /\ type[r] = "none" /\ type[s] = "none"
              /\ \A f \in FileIds :
                   /\ type'[f] = IF f \in {r, s} THEN "pipe" ELSE type[f]
                   /\ pipe'[f] = IF f \in {r, s} THEN x ELSE pipe[f]
              /\ \A f \in FileIds, y \in Pages, w \in BOOLEAN :
                   IsEnd(f, y, w)' <=> \/ f = r /\ y = x /\ w = FALSE
                                       \/ f = s /\ y = x /\ w = TRUE
                                       \/ IsEnd(f, y, w)
      BY <1>5, <2>3, EndsAlloc
    <3>2. \A f \in FileIds : type'[f] = "pipe" => pipe'[f] \in Pages /\ ref'[f] >= 1
      BY <2>1, <3>1 DEF OneEnd
    <3>3. ~ EndOpen(x, TRUE) /\ ~ EndOpen(x, FALSE) BY <3>1 DEF OpenRight
    <3>4. \A w \in BOOLEAN : /\ \A f \in FileIds : ~ IsEnd(f, x, w)
                             /\ \A p \in Procs : ~ ToClose(p, x, w)
      BY <3>3, EndOpenIs
    <3>5. \A p, y, w : ToClose(p, y, w)' <=> ToClose(p, y, w) BY <2>1 DEF ToClose
    <3>6. ASSUME NEW y \in Pages, NEW w \in BOOLEAN
          PROVE  /\ \A f, g \in FileIds : IsEnd(f, y, w)' /\ IsEnd(g, y, w)' => f = g
                 /\ \A p, c \in Procs : ToClose(p, y, w)' /\ ToClose(c, y, w)' => p = c
                 /\ \A f \in FileIds, p \in Procs : ~(IsEnd(f, y, w)' /\ ToClose(p, y, w)')
      <4>1. CASE y = x BY <3>1, <3>4, <3>5, <4>1
      <4>2. CASE y # x BY <3>1, <3>5, <4>2 DEF OneEnd
      <4>3. QED BY <4>1, <4>2
    <3>7. QED BY <3>2, <3>6 DEF OneEnd
  <2>4. QED BY <2>2, <2>3
<1>6. ASSUME NEW q \in Procs, PipeFds(q) PROVE OneEnd'
  BY <1>6, OneEndSame DEF PipeFds, OneEnd
<1>7. ASSUME NEW q \in Procs, NEW p \in Procs, fork(q, p) PROVE OneEnd'
  <2>1. \A f \in FileIds : Refs(ofile[q], f) \in Nat
    BY TableFacts, FS_Subset, FS_CardinalityType DEF Refs
  <2>2. \A f \in FileIds : ref'[f] = ref[f] + Refs(ofile[q], f) BY <1>7 DEF fork, DupAll
  <2>3. \A f \in FileIds : type[f] = "pipe" => ref'[f] >= 1
    BY <2>1, <2>2 DEF OneEnd, FileTypes
  <2>4. QED BY <1>7, <2>3, OneEndSame DEF fork
<1>8. ASSUME NEW q \in Procs, CloseInHand(q) \/ CloseOpen(q) PROVE OneEnd'
  <2>1. PICK f \in FileIds, more \in BOOLEAN : Holders(f) # {} /\ fileclose(q, f, more)
    BY <1>8, ClosedFile
  <2>2. ref[f] # 0 BY <2>1, HeldOnce
  <2>3. \A g \in FileIds : ref'[g] = IF g = f THEN ref[f] - 1 ELSE ref[g]
    BY <2>1 DEF fileclose, FileTypes
  <2>4. CASE UNCHANGED <<type, writable, pipe, last>> /\ (ref[f] # 1 \/ type[f] = "none")
    <3>1. \A g \in FileIds : type[g] = "pipe" => ref'[g] >= 1
      <4>1. ref[f] \in Nat BY DEF FileTypes
      <4>2. type[f] = "pipe" => ref'[f] >= 1 BY <2>2, <2>3, <2>4, <4>1
      <4>3. QED BY <2>3, <4>2 DEF OneEnd
    <3>2. QED BY <2>4, <3>1, OneEndSame
  <2>5. CASE /\ type[f] = "pipe" /\ pipe[f] \in Pages /\ writable[f] \in BOOLEAN /\ last[q] = None
             /\ \A g \in FileIds : type'[g] = "pipe" => g # f /\ type[g] = "pipe" /\ pipe'[g] = pipe[g]
             /\ \A g \in FileIds, y \in Pages, w \in BOOLEAN :
                  IsEnd(g, y, w)' <=> IsEnd(g, y, w) /\ g # f
             /\ \A p \in Procs, y \in Pages, w \in BOOLEAN :
                  ToClose(p, y, w)' <=> \/ ToClose(p, y, w)
                                        \/ p = q /\ y = pipe[f] /\ w = writable[f]
    <3>1. \A g \in FileIds : type'[g] = "pipe" => pipe'[g] \in Pages /\ ref'[g] >= 1
      BY <2>3, <2>5 DEF OneEnd
    <3>2. IsEnd(f, pipe[f], writable[f]) BY <2>5 DEF IsEnd
    <3>3. ASSUME NEW y \in Pages, NEW w \in BOOLEAN
          PROVE  /\ \A g, h \in FileIds : IsEnd(g, y, w)' /\ IsEnd(h, y, w)' => g = h
                 /\ \A p, c \in Procs : ToClose(p, y, w)' /\ ToClose(c, y, w)' => p = c
                 /\ \A g \in FileIds, p \in Procs : ~(IsEnd(g, y, w)' /\ ToClose(p, y, w)')
      <4>1. /\ \A g, h \in FileIds : IsEnd(g, y, w) /\ IsEnd(h, y, w) => g = h
            /\ \A p, c \in Procs : ToClose(p, y, w) /\ ToClose(c, y, w) => p = c
            /\ \A g \in FileIds, p \in Procs : ~(IsEnd(g, y, w) /\ ToClose(p, y, w))
        BY DEF OneEnd
      <4>2. /\ \A g \in FileIds : IsEnd(g, y, w)' <=> IsEnd(g, y, w) /\ g # f
            /\ \A p \in Procs : ToClose(p, y, w)' <=>
                 ToClose(p, y, w) \/ (p = q /\ y = pipe[f] /\ w = writable[f])
        BY <2>5
      <4>3. CASE y = pipe[f] /\ w = writable[f]
        <5>1. \A p \in Procs : ~ ToClose(p, y, w) BY <3>2, <4>1, <4>3
        <5>2. \A g \in FileIds : ~ IsEnd(g, y, w)' BY <3>2, <4>1, <4>2, <4>3
        <5>3. QED BY <4>2, <5>1, <5>2
      <4>4. CASE ~(y = pipe[f] /\ w = writable[f]) BY <4>1, <4>2, <4>4
      <4>5. QED BY <4>3, <4>4
    <3>4. QED BY <3>1, <3>3 DEF OneEnd
  <2>6. QED BY <2>1, <2>4, <2>5, EndsClose
<1>9. ASSUME NEW q \in Procs, ClosePipe(q) PROVE OneEnd'
  <2>1. \A f \in FileIds : type'[f] = "pipe" => pipe'[f] \in Pages /\ ref'[f] >= 1
    BY <1>9 DEF ClosePipe, OneEnd
  <2>2. /\ \A g \in FileIds, y \in Pages, w \in BOOLEAN : IsEnd(g, y, w)' <=> IsEnd(g, y, w)
        /\ \A p \in Procs, y \in Pages, w \in BOOLEAN :
                ToClose(p, y, w)' <=> ToClose(p, y, w) /\ p # q
    BY <1>9, EndsClosePipe
  <2>3. ASSUME NEW y \in Pages, NEW w \in BOOLEAN
        PROVE  /\ \A g, h \in FileIds : IsEnd(g, y, w)' /\ IsEnd(h, y, w)' => g = h
               /\ \A p, c \in Procs : ToClose(p, y, w)' /\ ToClose(c, y, w)' => p = c
               /\ \A g \in FileIds, p \in Procs : ~(IsEnd(g, y, w)' /\ ToClose(p, y, w)')
    BY <2>2 DEF OneEnd
  <2>4. QED BY <2>1, <2>3 DEF OneEnd
<1>10. CASE UNCHANGED vars BY <1>1, <1>10 DEF vars
<1>11. CASE Next
  BY <1>1, <1>2, <1>3, <1>4, <1>5, <1>6, <1>7, <1>8, <1>9, <1>11, Actions, QuietFiles
<1>12. QED BY <1>10, <1>11

LEMMA QuietPipes ==
  ASSUME NEW p, Quiet(p) PROVE UNCHANGED <<inuse, readopen, writeopen>>
<1>1. ASSUME NEW fd, NEW n, NEW l, ReadWrite(p, fd, n, l) PROVE UNCHANGED pipeVars
  BY <1>1 DEF ReadWrite
<1>2. CASE Return(p) BY <1>2 DEF Return, pipeVars
<1>3. CASE exit(p) BY <1>3 DEF exit, pipeVars
<1>4. ASSUME NEW k, NEW fault, ReadBytes(p, k, fault) PROVE UNCHANGED <<inuse, readopen, writeopen>>
  BY <1>4 DEF ReadBytes
<1>5. CASE WriteByte(p) BY <1>5 DEF WriteByte
<1>6. CASE WriteCheck(p) \/ WriteSleep(p) \/ WriteFault(p)
  BY <1>6 DEF WriteCheck, WriteSleep, WriteFault, pipeVars
<1>7. CASE ReadCheck(p) \/ ReadSleep(p) \/ Kill(p)
  BY <1>7 DEF ReadCheck, ReadSleep, Kill, pipeVars
<1>8. QED BY <1>1, <1>2, <1>3, <1>4, <1>5, <1>6, <1>7 DEF Quiet, Call, pipeVars

LEMMA OpenRightSame ==
  ASSUME OpenRight, UNCHANGED <<inuse, readopen, writeopen>>,
         \A x \in Pages, w \in BOOLEAN : EndOpen(x, w)' <=> EndOpen(x, w)
  PROVE  OpenRight'
BY DEF OpenRight

LEMMA OpenRightStep ==
  ASSUME FileTypes, PipeTypes, Handling, Counted, OneEnd, OpenRight, [Next]_vars
  PROVE  OpenRight'
<1>1. ASSUME UNCHANGED <<type, writable, pipe, last, inuse, readopen, writeopen>> PROVE OpenRight'
  <2>1. \A x, w : EndOpen(x, w)' <=> EndOpen(x, w) BY <1>1 DEF EndOpen
  <2>2. QED BY <1>1, <2>1, OpenRightSame
<1>2. ASSUME NEW q \in Procs, Quiet(q) PROVE OpenRight'
  BY <1>1, <1>2, QuietFiles, QuietPipes DEF fileVars
<1>3. ASSUME NEW q \in Procs, NEW fd \in Fds, sys_dup(q, fd) \/ sys_close(q, fd) PROVE OpenRight'
  <2>1. CASE sys_dup(q, fd) BY <1>1, <2>1 DEF sys_dup, pipeVars
  <2>2. CASE sys_close(q, fd) BY <1>1, <2>2 DEF sys_close, pipeVars
  <2>3. QED BY <1>3, <2>1, <2>2
<1>4. ASSUME NEW q \in Procs, filealloc(q) \/ PipeFds(q) PROVE OpenRight'
  <2>1. CASE filealloc(q) BY <1>1, <2>1 DEF filealloc, pipeVars
  <2>2. CASE PipeFds(q) BY <1>1, <2>2 DEF PipeFds, pipeVars
  <2>3. QED BY <1>4, <2>1, <2>2
<1>5. ASSUME NEW q \in Procs, NEW p \in Procs, fork(q, p) PROVE OpenRight'
  BY <1>1, <1>5 DEF fork, pipeVars
<1>6. ASSUME NEW q \in Procs, pipealloc(q) PROVE OpenRight'
  <2>1. last' = last BY <1>6 DEF pipealloc
  <2>2. CASE UNCHANGED <<type, writable, pipe, inuse, readopen, writeopen>> BY <1>1, <2>1, <2>2
  <2>3. CASE ~ UNCHANGED <<type, writable, pipe, inuse, readopen, writeopen>>
    <3>1. PICK x \in Pages, r \in FileIds, s \in FileIds :
              /\ pipeinit(x)
              /\ \A f \in FileIds, y \in Pages, w \in BOOLEAN :
                   IsEnd(f, y, w)' <=> \/ f = r /\ y = x /\ w = FALSE
                                       \/ f = s /\ y = x /\ w = TRUE
                                       \/ IsEnd(f, y, w)
      BY <1>6, <2>3, EndsAlloc
    <3>2. \A p, y, w : ToClose(p, y, w)' <=> ToClose(p, y, w) BY <2>1 DEF ToClose
    <3>3. EndOpen(x, TRUE)' /\ EndOpen(x, FALSE)' BY <3>1, EndOpenIs
    <3>4. ASSUME NEW y \in Pages, y # x, NEW w \in BOOLEAN PROVE EndOpen(y, w)' <=> EndOpen(y, w)
      <4>1. \A f \in FileIds : IsEnd(f, y, w)' <=> IsEnd(f, y, w) BY <3>1, <3>4
      <4>2. QED BY <3>2, <4>1, EndOpenIs
    <3>5. /\ \A y \in Pages : readopen'[y] <=> y = x \/ readopen[y]
          /\ \A y \in Pages : writeopen'[y] <=> y = x \/ writeopen[y]
          /\ inuse' = inuse \cup {x}
      BY <3>1 DEF pipeinit, PipeTypes
    <3>6. ASSUME NEW y \in Pages
          PROVE  /\ y \in inuse' => /\ readopen'[y] <=> EndOpen(y, FALSE)'
                                    /\ writeopen'[y] <=> EndOpen(y, TRUE)'
                 /\ y \in inuse' <=> EndOpen(y, TRUE)' \/ EndOpen(y, FALSE)'
      <4>1. CASE y = x BY <3>3, <3>5, <4>1
      <4>2. CASE y # x BY <3>4, <3>5, <4>2 DEF OpenRight
      <4>3. QED BY <4>1, <4>2
    <3>7. QED BY <3>6 DEF OpenRight
  <2>4. QED BY <2>2, <2>3
<1>7. ASSUME NEW q \in Procs, CloseInHand(q) \/ CloseOpen(q) PROVE OpenRight'
  <2>1. PICK f \in FileIds, more \in BOOLEAN : fileclose(q, f, more) BY <1>7, ClosedFile
  <2>2. UNCHANGED <<inuse, readopen, writeopen>> BY <2>1 DEF fileclose, pipeVars
  <2>3. CASE UNCHANGED <<type, writable, pipe, last>> BY <1>1, <2>2, <2>3
  <2>4. CASE /\ type[f] = "pipe" /\ pipe[f] \in Pages /\ writable[f] \in BOOLEAN
             /\ \A g \in FileIds, y \in Pages, w \in BOOLEAN :
                  IsEnd(g, y, w)' <=> IsEnd(g, y, w) /\ g # f
             /\ \A p \in Procs, y \in Pages, w \in BOOLEAN :
                  ToClose(p, y, w)' <=> \/ ToClose(p, y, w)
                                        \/ p = q /\ y = pipe[f] /\ w = writable[f]
    <3>1. ASSUME NEW y \in Pages, NEW w \in BOOLEAN PROVE EndOpen(y, w)' <=> EndOpen(y, w)
      <4>1. IsEnd(f, y, w) <=> y = pipe[f] /\ w = writable[f] BY <2>4 DEF IsEnd
      <4>2. CASE y = pipe[f] /\ w = writable[f]
        <5>1. EndOpen(y, w) BY <4>1, <4>2, EndOpenIs
        <5>2. ToClose(q, y, w)' BY <2>4, <4>2
        <5>3. QED BY <5>1, <5>2, EndOpenIs
      <4>3. CASE ~(y = pipe[f] /\ w = writable[f])
        <5>1. /\ \A g \in FileIds : IsEnd(g, y, w)' <=> IsEnd(g, y, w)
              /\ \A p \in Procs : ToClose(p, y, w)' <=> ToClose(p, y, w)
          BY <2>4, <4>1, <4>3
        <5>2. QED BY <5>1, EndOpenIs
      <4>4. QED BY <4>2, <4>3
    <3>2. QED BY <2>2, <3>1, OpenRightSame
  <2>5. QED BY <2>1, <2>3, <2>4, EndsClose
<1>8. ASSUME NEW q \in Procs, ClosePipe(q) PROVE OpenRight'
  <2>1. PICK x \in Pages, v \in BOOLEAN :
           /\ \E l : pipeclose(q, x, v, l)
           /\ ToClose(q, x, v)
           /\ \A g \in FileIds, y \in Pages, w \in BOOLEAN : IsEnd(g, y, w)' <=> IsEnd(g, y, w)
           /\ \A p \in Procs, y \in Pages, w \in BOOLEAN :
                ToClose(p, y, w)' <=> ToClose(p, y, w) /\ p # q
    BY <1>8, EndsClosePipe
  <2>2. x \in inuse
    <3>1. EndOpen(x, v) BY <2>1, EndOpenIs
    <3>2. QED BY <3>1 DEF OpenRight
  <2>3. ASSUME NEW y \in Pages, NEW w \in BOOLEAN
        PROVE  EndOpen(y, w)' <=> EndOpen(y, w) /\ ~(y = x /\ w = v)
    <3>1. CASE y = x /\ w = v
      <4>1. \A g \in FileIds : ~ IsEnd(g, y, w)' BY <2>1, <3>1 DEF OneEnd
      <4>2. \A p \in Procs : ~ ToClose(p, y, w)' BY <2>1, <3>1 DEF OneEnd
      <4>3. QED BY <3>1, <4>1, <4>2, EndOpenIs
    <3>2. CASE ~(y = x /\ w = v)
      <4>1. ~ ToClose(q, y, w) BY <2>1, <3>2 DEF ToClose
      <4>2. /\ \A g \in FileIds : IsEnd(g, y, w)' <=> IsEnd(g, y, w)
            /\ \A p \in Procs : ToClose(p, y, w)' <=> ToClose(p, y, w)
        BY <2>1, <4>1
      <4>3. QED BY <3>2, <4>2, EndOpenIs
    <3>3. QED BY <3>1, <3>2
  <2>4. /\ \A y \in Pages : readopen'[y] <=> readopen[y] /\ (y = x => v)
        /\ \A y \in Pages : writeopen'[y] <=> writeopen[y] /\ (y = x => ~v)
    BY <2>1 DEF pipeclose, PipeTypes
  <2>5. inuse' = IF (readopen[x] /\ v) \/ (writeopen[x] /\ ~v) THEN inuse ELSE inuse \ {x}
    BY <2>1 DEF pipeclose, InUse
  <2>6. ASSUME NEW y \in Pages
        PROVE  /\ y \in inuse' => /\ readopen'[y] <=> EndOpen(y, FALSE)'
                                  /\ writeopen'[y] <=> EndOpen(y, TRUE)'
               /\ y \in inuse' <=> EndOpen(y, TRUE)' \/ EndOpen(y, FALSE)'
    <3>1. /\ y \in inuse => /\ readopen[y] <=> EndOpen(y, FALSE)
                            /\ writeopen[y] <=> EndOpen(y, TRUE)
          /\ y \in inuse <=> EndOpen(y, TRUE) \/ EndOpen(y, FALSE)
      BY DEF OpenRight
    <3>2. /\ EndOpen(y, TRUE)' <=> EndOpen(y, TRUE) /\ ~(y = x /\ v)
          /\ EndOpen(y, FALSE)' <=> EndOpen(y, FALSE) /\ ~(y = x /\ ~v)
      BY <2>3
    <3>3. CASE y = x BY <2>2, <2>4, <2>5, <3>1, <3>2, <3>3
    <3>4. CASE y # x
      <4>1. y \in inuse' <=> y \in inuse BY <2>5, <3>4
      <4>2. QED BY <2>4, <3>1, <3>2, <3>4, <4>1
    <3>5. QED BY <3>3, <3>4
  <2>7. QED BY <2>6 DEF OpenRight
<1>9. CASE UNCHANGED vars BY <1>1, <1>9 DEF vars, fileVars, pipeVars
<1>10. CASE Next BY <1>2, <1>3, <1>4, <1>5, <1>6, <1>7, <1>8, <1>10, Actions
<1>11. QED BY <1>9, <1>10

-----------------------------------------------------------------------------
(* The processes in calls on pipes.                                           *)
Calls == Reading \cup Writing
Woken(o) == \/ at[o] = "rsleep" /\ at'[o] = "read"
            \/ at[o] = "wsleep" /\ at'[o] = "write"

(* Nobody leaves or enters a call, and the files of those in calls stay.      *)
LEMMA InCallsFrame ==
  ASSUME InCalls, UNCHANGED <<pi, left, unsaid, lock>>,
         \A o \in Procs : at'[o] = at[o] \/ (at[o] \notin Calls /\ at'[o] \notin Calls) \/ Woken(o),
         \A o \in Procs : at[o] \in Calls =>
           /\ ofile'[o] = ofile[o]
           /\ \A fd \in Fds, x \in Pages, w \in BOOLEAN :
                ofile[o][fd] \in FileIds /\ IsEnd(ofile[o][fd], x, w) => IsEnd(ofile[o][fd], x, w)',
         lock \in [Pages -> Procs \cup {None}]
  PROVE  InCalls'
<1> USE DEF Calls, Reading, Writing, Woken
<1>1. ASSUME NEW o \in Procs, NEW x \in Pages, NEW w \in BOOLEAN, at[o] \in Calls, HasEnd(o, x, w)
      PROVE  HasEnd(o, x, w)'
  BY <1>1 DEF HasEnd
<1>2. ASSUME NEW o \in Procs PROVE CallRight(o)'
  <2>1. CallRight(o) BY DEF InCalls
  <2>2. CASE at'[o] = at[o] BY <1>1, <2>1, <2>2 DEF CallRight
  <2>3. CASE at[o] \notin Calls /\ at'[o] \notin Calls BY <2>1, <2>3 DEF CallRight
  <2>4. CASE Woken(o) BY <1>1, <2>1, <2>4 DEF CallRight
  <2>5. QED BY <2>2, <2>3, <2>4
<1>3. ASSUME NEW x \in Pages, lock'[x] # None
      PROVE  pi'[lock'[x]] = x /\ at'[lock'[x]] \in {"put", "write", "doze"}
  <2>1. pi[lock[x]] = x /\ at[lock[x]] \in {"put", "write", "doze"} /\ lock[x] \in Procs
    BY <1>3 DEF InCalls
  <2>2. at'[lock[x]] = at[lock[x]] BY <2>1
  <2>3. QED BY <2>1, <2>2
<1>4. QED BY <1>2, <1>3 DEF InCalls

(* p goes on in its call, with the lock of its pipe or on its own.            *)
LEMMA InCallsAct ==
  ASSUME InCalls, lock \in [Pages -> Procs \cup {None}], None \notin Procs,
         NEW p \in Procs, NEW x \in Pages, at[p] \in Calls, pi[p] = x, lock[x] \in {None, p},
         UNCHANGED fileVars,
         \A o \in Procs : o # p => /\ at'[o] = at[o] \/ Woken(o)
                                   /\ pi'[o] = pi[o] /\ left'[o] = left[o] /\ unsaid'[o] = unsaid[o],
         \A y \in Pages : y # x => lock'[y] = lock[y],
         lock'[x] \in {None, p},
         lock'[x] = p => pi'[p] = x /\ at'[p] \in {"put", "write", "doze"},
         /\ at'[p] \in Calls => pi'[p] = x
         /\ at'[p] \in Reading <=> at[p] \in Reading /\ at'[p] \in Calls
         /\ at'[p] \notin Calls => pi'[p] = None
         /\ at'[p] \in {"put", "doze"} => lock'[x] = p
         /\ at'[p] = "put" => left'[p] > 0
         /\ unsaid'[p] => at'[p] \in {"put", "write"} /\ lock'[x] = p
  PROVE  InCalls'
<1> USE DEF Calls, Reading, Writing, Woken
<1>1. \A o, y, w : HasEnd(o, y, w)' <=> HasEnd(o, y, w) BY DEF HasEnd, IsEnd, fileVars
<1>2. CallRight(p)'
  <2>1. CallRight(p) BY DEF InCalls
  <2>2. QED BY <1>1, <2>1 DEF CallRight
<1>3. ASSUME NEW o \in Procs, o # p PROVE CallRight(o)'
  <2>1. CallRight(o) BY DEF InCalls
  <2>2. CASE at'[o] = at[o]
    <3>1. CASE pi[o] = x
      <4>1. lock[x] # o BY <1>3
      <4>2. at[o] \notin {"put", "doze"} /\ ~ unsaid[o] BY <2>1, <3>1, <4>1 DEF CallRight
      <4>3. QED BY <1>1, <1>3, <2>1, <2>2, <4>2 DEF CallRight
    <3>2. CASE pi[o] # x BY <1>1, <1>3, <2>1, <2>2, <3>2 DEF CallRight
    <3>3. QED BY <3>1, <3>2
  <2>3. CASE Woken(o) BY <1>1, <1>3, <2>1, <2>3 DEF CallRight
  <2>4. QED BY <1>3, <2>2, <2>3
<1>4. ASSUME NEW y \in Pages, lock'[y] # None
      PROVE  pi'[lock'[y]] = y /\ at'[lock'[y]] \in {"put", "write", "doze"}
  <2>1. CASE y = x BY <1>4, <2>1
  <2>2. CASE y # x
    <3>1. lock'[y] = lock[y] /\ lock[y] \in Procs BY <1>4, <2>2
    <3>2. pi[lock[y]] = y /\ at[lock[y]] \in {"put", "write", "doze"}
      BY <1>4, <3>1 DEF InCalls
    <3>3. lock[y] # p BY <2>2, <3>2
    <3>4. QED BY <3>1, <3>2, <3>3
  <2>3. QED BY <2>1, <2>2
<1>5. ASSUME NEW o \in Procs PROVE CallRight(o)' BY <1>2, <1>3
<1>6. QED BY <1>4, <1>5 DEF InCalls

LEMMA InCallsCall ==
  ASSUME PipeTypes, InCalls, NEW p \in Procs, Call(p), UNCHANGED fileVars PROVE InCalls'
<1> USE DEF Calls, Reading, Writing, Woken
<1>1. /\ at \in [Procs -> Places] /\ pi \in [Procs -> Pages \cup {None}]
      /\ left \in [Procs -> Nat] /\ unsaid \in [Procs -> BOOLEAN]
      /\ lock \in [Pages -> Procs \cup {None}] /\ None \notin Procs
  BY PipeTypesSplit, PipeAssumption
<1>2. CallRight(p) BY DEF InCalls
<1>3. PICK x : x = pi[p] OBVIOUS
<1>4. ASSUME NEW l, WakeReaders(x, p, l) \/ WakeWriters(x, p, l)
      PROVE  at'[p] = l /\ \A o \in Procs : o # p => at'[o] = at[o] \/ Woken(o)
  BY <1>4 DEF WakeReaders, WakeWriters, Wake
<1>5. ASSUME NEW l, Goto(p, l)
      PROVE  at'[p] = l /\ \A o \in Procs : o # p => at'[o] = at[o]
  BY <1>1, <1>5 DEF Goto
<1>6. ASSUME Leave(p)
      PROVE  pi'[p] = None /\ \A o \in Procs : o # p => pi'[o] = pi[o] /\ left'[o] = left[o]
  BY <1>1, <1>6 DEF Leave
<1>7. ASSUME Said(p)
      PROVE  ~ unsaid'[p] /\ \A o \in Procs : o # p => unsaid'[o] = unsaid[o]
  BY <1>1, <1>7 DEF Said
<1>8. ASSUME Release(x), x \in Pages
      PROVE  lock'[x] = None /\ \A y \in Pages : y # x => lock'[y] = lock[y]
  BY <1>1, <1>8 DEF Release
<1>9. CASE WriteCheck(p)
  <2>1. at[p] = "write" /\ x \in Pages /\ lock[x] \in {None, p}
    BY <1>2, <1>3, <1>9 DEF WriteCheck, Free, CallRight
  <2>2. CASE at'[p] = "user" /\ Release(x) /\ Leave(p) /\ Said(p)
             /\ \A o \in Procs : o # p => at'[o] = at[o] \/ Woken(o)
    BY <1>1, <1>3, <1>6, <1>7, <1>8, <2>1, <2>2, InCallsAct
  <2>3. CASE /\ left[p] > 0 /\ Goto(p, "put") /\ lock' = [lock EXCEPT ![x] = p]
             /\ UNCHANGED <<pi, left, unsaid>>
    <3>1. lock'[x] = p /\ \A y \in Pages : y # x => lock'[y] = lock[y] BY <1>1, <2>1, <2>3
    <3>2. QED BY <1>1, <1>3, <1>5, <2>1, <2>3, <3>1, InCallsAct
  <2>4. QED BY <1>3, <1>4, <1>5, <1>9, <2>2, <2>3 DEF WriteCheck
<1>10. CASE WriteSleep(p)
  <2>1. at[p] = "put" /\ x \in Pages /\ lock[x] = p BY <1>2, <1>3, <1>10 DEF WriteSleep, CallRight
  <2>2. WakeReaders(x, p, "wsleep") /\ Release(x) /\ Said(p) /\ UNCHANGED <<pi, left>>
    BY <1>3, <1>10 DEF WriteSleep
  <2>3. QED BY <1>1, <1>3, <1>4, <1>7, <1>8, <2>1, <2>2, InCallsAct
<1>11. CASE WriteByte(p)
  <2>1. at[p] = "put" /\ x \in Pages /\ lock[x] = p BY <1>2, <1>3, <1>11 DEF WriteByte, CallRight
  <2>2. Goto(p, "write") /\ UNCHANGED <<pi, lock>> BY <1>11 DEF WriteByte
  <2>3. \A o \in Procs : o # p => left'[o] = left[o] /\ unsaid'[o] = unsaid[o]
    BY <1>1, <1>11 DEF WriteByte
  <2>4. QED BY <1>1, <1>3, <1>5, <2>1, <2>2, <2>3, InCallsAct
<1>12. CASE WriteFault(p)
  <2>1. at[p] = "put" /\ x \in Pages /\ lock[x] = p BY <1>2, <1>3, <1>12 DEF WriteFault, CallRight
  <2>2. Goto(p, "write") /\ pi' = pi /\ lock' = lock /\ unsaid' = unsaid
    BY <1>12 DEF WriteFault
  <2>3. \A o \in Procs : o # p => left'[o] = left[o] BY <1>1, <1>12 DEF WriteFault
  <2>4. QED BY <1>1, <1>3, <1>5, <2>1, <2>2, <2>3, InCallsAct
<1>13. CASE ReadCheck(p)
  <2>1. at[p] = "read" /\ x \in Pages /\ lock[x] \in {None, p} /\ ~ unsaid[p]
    BY <1>2, <1>3, <1>13 DEF ReadCheck, Free, CallRight
  <2>2. lock[x] # p BY <1>1, <2>1 DEF InCalls
  <2>3. UNCHANGED unsaid BY <1>13 DEF ReadCheck, procVars
  <2>4. CASE Goto(p, "user") /\ Leave(p) /\ UNCHANGED lock
    BY <1>1, <1>3, <1>5, <1>6, <2>1, <2>2, <2>3, <2>4, InCallsAct
  <2>5. CASE Goto(p, "doze") /\ lock' = [lock EXCEPT ![x] = p] /\ UNCHANGED <<pi, left>>
    <3>1. lock'[x] = p /\ \A y \in Pages : y # x => lock'[y] = lock[y] BY <1>1, <2>1, <2>5
    <3>2. QED BY <1>1, <1>3, <1>5, <2>1, <2>3, <2>5, <3>1, InCallsAct
  <2>6. QED BY <1>3, <1>13, <2>4, <2>5 DEF ReadCheck
<1>14. CASE ReadSleep(p)
  <2>1. at[p] = "doze" /\ x \in Pages /\ lock[x] = p /\ ~ unsaid[p]
    BY <1>2, <1>3, <1>14 DEF ReadSleep, CallRight
  <2>2. Goto(p, "rsleep") /\ Release(x) /\ UNCHANGED <<pi, left, unsaid>>
    BY <1>3, <1>14 DEF ReadSleep, procVars
  <2>3. QED BY <1>1, <1>3, <1>5, <1>8, <2>1, <2>2, InCallsAct
<1>15. ASSUME NEW k, NEW fault, ReadBytes(p, k, fault) PROVE InCalls'
  <2>1. at[p] = "read" /\ x \in Pages /\ lock[x] \in {None, p} /\ ~ unsaid[p]
    BY <1>2, <1>3, <1>15 DEF ReadBytes, Free, CallRight
  <2>2. lock[x] # p BY <1>1, <2>1 DEF InCalls
  <2>3. WakeWriters(x, p, "user") /\ Leave(p) /\ UNCHANGED <<unsaid, lock>>
    BY <1>3, <1>15 DEF ReadBytes
  <2>4. QED BY <1>1, <1>3, <1>4, <1>6, <2>1, <2>2, <2>3, InCallsAct
<1>16. QED BY <1>9, <1>10, <1>11, <1>12, <1>13, <1>14, <1>15 DEF Call

LEMMA InCallsStep ==
  ASSUME FileTypes, PipeTypes, Handling, Counted, OneEnd, InCalls, [Next]_vars
  PROVE  InCalls'
<1> USE DEF Calls, Reading, Writing, Woken
<1>1. /\ at \in [Procs -> Places] /\ pi \in [Procs -> Pages \cup {None}]
      /\ left \in [Procs -> Nat] /\ unsaid \in [Procs -> BOOLEAN]
      /\ lock \in [Pages -> Procs \cup {None}] /\ None \notin Procs
  BY PipeTypesSplit, PipeAssumption
<1>2. ASSUME UNCHANGED <<pi, left, unsaid, lock, type, writable, pipe, ofile>>,
             \A o \in Procs : at'[o] = at[o] \/ (at[o] \notin Calls /\ at'[o] \notin Calls) \/ Woken(o)
      PROVE  InCalls'
  <2>1. \A f, x, w : IsEnd(f, x, w) => IsEnd(f, x, w)' BY <1>2 DEF IsEnd
  <2>2. QED BY <1>1, <1>2, <2>1, InCallsFrame
<1>3. ASSUME NEW q \in Procs, NEW l, Goto(q, l), at[q] \notin Calls, l \notin Calls
      PROVE  \A o \in Procs : at'[o] = at[o] \/ (at[o] \notin Calls /\ at'[o] \notin Calls) \/ Woken(o)
  BY <1>1, <1>3 DEF Goto
<1>4. ASSUME NEW q \in Procs, Quiet(q) PROVE InCalls'
  <2>1. UNCHANGED fileVars BY <1>4, QuietFiles
  <2>2. CASE Call(q) BY <2>1, <2>2, InCallsCall
  <2>3. CASE Kill(q)
    <3>1. \A o \in Procs : at'[o] = at[o] \/ Woken(o) BY <1>1, <2>3 DEF Kill, Goto
    <3>2. QED BY <1>2, <2>1, <2>3, <3>1 DEF Kill, fileVars
  <2>4. ASSUME NEW fd \in Fds, NEW l \in {"read", "write"}, NEW n \in Sizes[l], ReadWrite(q, fd, n, l)
        PROVE  InCalls'
    <3>1. PICK f \in FileIds : f = ofile[q][fd] /\ type[f] = "pipe" /\ (writable[f] <=> l = "write")
      BY <2>4 DEF ReadWrite, FileTypes, Handling, HandRight
    <3>2. pipe[f] \in Pages BY <3>1 DEF OneEnd
    <3>3. CallRight(q) /\ at[q] = "user" BY <2>4 DEF InCalls, ReadWrite, Running
    <3>4. /\ \A o \in Procs : at'[o] = IF o = q THEN l ELSE at[o]
          /\ \A o \in Procs : pi'[o] = IF o = q THEN pipe[f] ELSE pi[o]
          /\ \A o \in Procs : o # q => left'[o] = left[o]
          /\ UNCHANGED <<unsaid, lock>>
      BY <1>1, <2>4, <3>1 DEF ReadWrite, Goto
    <3>5. \A o, y, w : HasEnd(o, y, w)' <=> HasEnd(o, y, w) BY <2>1 DEF HasEnd, IsEnd, fileVars
    <3>6. IsEnd(f, pipe[f], l = "write") /\ writable[f] \in BOOLEAN BY <3>1 DEF IsEnd, FileTypes
    <3>7. CallRight(q)'
      <4>1. CASE l = "write"
        <5>1. HasEnd(q, pipe[f], TRUE) BY <3>1, <4>1, <3>6 DEF HasEnd, IsEnd
        <5>2. QED BY <3>2, <3>3, <3>4, <3>5, <4>1, <5>1 DEF CallRight
      <4>2. CASE l = "read"
        <5>1. HasEnd(q, pipe[f], FALSE) BY <3>1, <4>2, <3>6 DEF HasEnd, IsEnd
        <5>2. QED BY <3>2, <3>3, <3>4, <3>5, <4>2, <5>1 DEF CallRight
      <4>3. QED BY <4>1, <4>2
    <3>8. ASSUME NEW o \in Procs PROVE CallRight(o)'
      <4>1. CASE o = q BY <3>7, <4>1
      <4>2. CASE o # q
        <5>1. CallRight(o) BY DEF InCalls
        <5>2. QED BY <3>4, <3>5, <4>2, <5>1 DEF CallRight
      <4>3. QED BY <4>1, <4>2
    <3>9. ASSUME NEW x \in Pages, lock'[x] # None
          PROVE  pi'[lock'[x]] = x /\ at'[lock'[x]] \in {"put", "write", "doze"}
      <4>1. /\ lock'[x] = lock[x] /\ lock[x] \in Procs
            /\ pi[lock[x]] = x /\ at[lock[x]] \in {"put", "write", "doze"}
        BY <1>1, <3>4, <3>9 DEF InCalls
      <4>2. lock[x] # q BY <3>3, <4>1
      <4>3. QED BY <3>4, <4>1, <4>2
    <3>10. QED BY <3>8, <3>9 DEF InCalls
  <2>5. CASE Return(q) BY <1>2, <2>1, <2>5 DEF Return, fileVars
  <2>6. CASE exit(q) BY <1>2, <1>3, <2>1, <2>6 DEF exit, fileVars
  <2>7. QED BY <1>4, <2>2, <2>3, <2>4, <2>5, <2>6 DEF Quiet
<1>5. ASSUME UNCHANGED <<pi, left, unsaid, lock>>, NEW q \in Procs, at[q] \notin Calls,
             \A o \in Procs : at'[o] = at[o] \/ (at[o] \notin Calls /\ at'[o] \notin Calls) \/ Woken(o),
             \A o \in Procs : o # q /\ at[o] \in Calls => ofile'[o] = ofile[o],
             UNCHANGED <<type, writable, pipe>>
      PROVE  InCalls'
  <2>1. \A f, x, w : IsEnd(f, x, w) => IsEnd(f, x, w)' BY <1>5 DEF IsEnd
  <2>2. \A o \in Procs : at[o] \in Calls => ofile'[o] = ofile[o] BY <1>5
  <2>3. QED BY <1>1, <1>5, <2>1, <2>2, InCallsFrame
<1>6. ASSUME NEW q \in Procs, NEW fd \in Fds, sys_dup(q, fd) PROVE InCalls'
  <2>1. at[q] \notin Calls /\ at' = at /\ UNCHANGED <<pi, left, unsaid, lock, type, writable, pipe>>
    BY <1>6 DEF sys_dup, Parent, Running, procVars
  <2>2. \A o \in Procs : o # q => ofile'[o] = ofile[o] BY <1>6 DEF sys_dup, FileTypes
  <2>3. QED BY <1>5, <2>1, <2>2
<1>7. ASSUME NEW q \in Procs, NEW fd \in Fds, sys_close(q, fd) PROVE InCalls'
  <2>1. at[q] \notin Calls /\ UNCHANGED <<pi, left, unsaid, lock, type, writable, pipe>>
    BY <1>7 DEF sys_close, Running, procVars
  <2>2. \A o \in Procs : o # q => ofile'[o] = ofile[o] BY <1>7 DEF sys_close, FileTypes
  <2>3. PICK l : Goto(q, l) /\ l \notin Calls BY <1>7 DEF sys_close, Closing
  <2>4. QED BY <1>3, <1>5, <2>1, <2>2, <2>3
<1>8. ASSUME NEW q \in Procs, filealloc(q) PROVE InCalls'
  <2>1. at[q] \notin Calls
        /\ UNCHANGED <<pi, left, unsaid, lock, type, writable, pipe, ofile>>
    BY <1>8 DEF filealloc, Parent, Running, procVars
  <2>2. PICK l : Goto(q, l) /\ l \notin Calls BY <1>8 DEF filealloc, Closing
  <2>3. QED BY <1>2, <1>3, <2>1, <2>2
<1>9. ASSUME NEW q \in Procs, PipeFds(q) PROVE InCalls'
  <2>1. at[q] \notin Calls /\ UNCHANGED <<pi, left, unsaid, lock, type, writable, pipe>>
    BY <1>9 DEF PipeFds, procVars
  <2>2. PICK l : Goto(q, l) /\ l \notin Calls BY <1>9 DEF PipeFds, Closing
  <2>3. ASSUME NEW o \in Procs, o # q PROVE ofile'[o] = ofile[o]
    <3>1. CASE UNCHANGED ofile BY <3>1
    <3>2. CASE ~ UNCHANGED ofile
      <4>1. PICK d, e : ofile' = [ofile EXCEPT ![q][d] = hand[q][1], ![q][e] = hand[q][2]]
        BY <1>9, <3>2, Zenon DEF PipeFds
      <4>2. QED BY <2>3, <4>1 DEF FileTypes
    <3>3. QED BY <3>1, <3>2
  <2>4. QED BY <1>3, <1>5, <2>1, <2>2, <2>3
<1>10. ASSUME NEW q \in Procs, NEW p \in Procs, fork(q, p) PROVE InCalls'
  <2>1. at[p] \notin Calls /\ Goto(p, "user")
        /\ UNCHANGED <<pi, left, unsaid, lock, type, writable, pipe>>
    BY <1>10 DEF fork, procVars
  <2>2. \A o \in Procs : o # p => ofile'[o] = ofile[o] BY <1>10 DEF fork, FileTypes
  <2>3. QED BY <1>3, <1>5, <2>1, <2>2
<1>11. ASSUME NEW q \in Procs, pipealloc(q) PROVE InCalls'
  <2>1. at[q] \notin Calls /\ UNCHANGED <<pi, left, unsaid, lock, ofile>>
    BY <1>11 DEF pipealloc, procVars
  <2>2. PICK l : Goto(q, l) /\ l \notin Calls BY <1>11 DEF pipealloc, Closing
  <2>3. \A f \in FileIds, x \in Pages, w \in BOOLEAN : IsEnd(f, x, w) => IsEnd(f, x, w)'
    <3>1. CASE UNCHANGED <<type, writable, pipe>> BY <3>1 DEF IsEnd
    <3>2. CASE ~ UNCHANGED <<type, writable, pipe>> BY <1>11, <3>2, EndsAlloc
    <3>3. QED BY <3>1, <3>2
  <2>4. QED BY <1>1, <1>3, <2>1, <2>2, <2>3, InCallsFrame
<1>12. ASSUME NEW q \in Procs, CloseInHand(q) \/ CloseOpen(q) PROVE InCalls'
  <2>1. PICK f \in FileIds : \E k \in Holders(f), m \in BOOLEAN : k[1] = q /\ fileclose(q, f, m)
    BY <1>12, ClosedFile
  <2>2. PICK h \in Holders(f), more \in BOOLEAN : h[1] = q /\ fileclose(q, f, more) BY <2>1
  <2>3. /\ at[q] \in {"closing", "exiting"}
        /\ \A c \in Procs : c # q => ofile'[c] = ofile[c]
    BY <1>12, ClosedFile
  <2>4. UNCHANGED <<pi, left, unsaid, lock>> BY <2>2 DEF fileclose, procVars
  <2>5. \A o \in Procs : at'[o] = at[o] \/ (at[o] \notin Calls /\ at'[o] \notin Calls)
    BY <1>1, <2>2, <2>3 DEF fileclose, Goto, After
  <2>6. ASSUME NEW o \in Procs, at[o] \in Calls, NEW fd \in Fds, NEW x \in Pages, NEW w \in BOOLEAN,
               ofile[o][fd] \in FileIds, IsEnd(ofile[o][fd], x, w)
        PROVE  IsEnd(ofile[o][fd], x, w)'
    <3>1. PICK g \in FileIds : g = ofile[o][fd] BY <2>6
    <3> ofile'[o][fd] = g BY <2>3, <2>6, <3>1
    <3>2. CASE UNCHANGED <<type, writable, pipe>> BY <2>6, <3>1, <3>2 DEF IsEnd
    <3>3. CASE ref[f] = 1
      <4>1. <<o, fd>> \in Holders(g) BY <3>1, HeldBy
      <4>2. h # <<o, fd>> BY <2>2, <2>3, <2>6
      <4>3. g # f BY <3>3, <4>1, <4>2, SoleHolder
      <4>4. type'[g] = type[g] /\ pipe'[g] = pipe[g] /\ writable'[g] = writable[g]
        BY <2>2, <4>3 DEF fileclose, Shut, FileTypes
      <4>5. QED BY <2>6, <3>1, <4>4 DEF IsEnd
    <3>4. QED BY <2>2, <3>2, <3>3 DEF fileclose
  <2>7. \A o \in Procs : at[o] \in Calls => ofile'[o] = ofile[o] BY <2>3
  <2>8. QED BY <1>1, <2>4, <2>5, <2>6, <2>7, InCallsFrame
<1>13. ASSUME NEW q \in Procs, ClosePipe(q) PROVE InCalls'
  <2>1. at[q] \in {"closing", "exiting"} BY <1>13 DEF ClosePipe, Handling, HandRight
  <2>2. PICK more \in BOOLEAN : more <=> hand[q] # <<>> \/ (at[q] = "exiting" /\ Open(q) # {})
    OBVIOUS
  <2>3. PICK x, l : (WakeReaders(x, q, l) \/ WakeWriters(x, q, l)) /\ l = After(q, more)
    BY <1>13, <2>2 DEF ClosePipe, pipeclose, After
  <2>4. l \notin Calls BY <2>1, <2>3 DEF After
  <2>5. \A o \in Procs : at'[o] = at[o] \/ (at[o] \notin Calls /\ at'[o] \notin Calls) \/ Woken(o)
    BY <2>1, <2>3, <2>4 DEF WakeReaders, WakeWriters, Wake
  <2>6. UNCHANGED <<pi, left, unsaid, lock, type, writable, pipe, ofile>>
    BY <1>13 DEF ClosePipe, pipeclose, procVars
  <2>7. QED BY <1>2, <2>5, <2>6
<1>14. CASE UNCHANGED vars BY <1>2, <1>14 DEF vars, fileVars, procVars
<1>15. CASE Next
  BY <1>4, <1>6, <1>7, <1>8, <1>9, <1>10, <1>11, <1>12, <1>13, <1>15, Actions
<1>16. QED BY <1>14, <1>15

-----------------------------------------------------------------------------
(* The processes asleep in pipes.                                             *)
Sleepy == {"rsleep", "doze", "put", "wsleep"}

(* The end a process uses is open, and its page in use.                       *)
LEMMA InUseByCall ==
  ASSUME FileTypes, OpenRight, InCalls, NEW o \in Procs, at[o] \in Calls
  PROVE  /\ pi[o] \in Pages /\ pi[o] \in inuse
         /\ at[o] \in Reading => readopen[pi[o]]
         /\ at[o] \in Writing => writeopen[pi[o]]
<1>1. CallRight(o) BY DEF InCalls
<1>2. PICK w \in BOOLEAN : /\ pi[o] \in Pages /\ HasEnd(o, pi[o], w)
                           /\ at[o] \in Reading => ~ w
                           /\ at[o] \in Writing => w
  BY <1>1 DEF CallRight, Calls, Reading, Writing
<1>3. EndOpen(pi[o], w) BY <1>2 DEF HasEnd, IsEnd, EndOpen
<1>4. EndOpen(pi[o], TRUE) \/ EndOpen(pi[o], FALSE) BY <1>3
<1>5. pi[o] \in inuse BY <1>2, <1>4 DEF OpenRight
<1>6. CASE w BY <1>2, <1>3, <1>5, <1>6 DEF OpenRight
<1>7. CASE ~ w BY <1>2, <1>3, <1>5, <1>7 DEF OpenRight
<1>8. QED BY <1>6, <1>7

LEMMA AsleepSame ==
  ASSUME Asleep, UNCHANGED <<nread, nwrite, readopen, writeopen, cut, lock, unsaid>>,
         \A o \in Procs : at'[o] \notin Sleepy \/ (at'[o] = at[o] /\ pi'[o] = pi[o])
  PROVE  Asleep'
<1>1. ASSUME NEW o \in Procs PROVE SleepRight(o)'
  <2>1. SleepRight(o) BY DEF Asleep
  <2>2. CASE at'[o] \notin Sleepy BY <2>2 DEF SleepRight, Sleepy
  <2>3. CASE at'[o] = at[o] /\ pi'[o] = pi[o]
    BY <2>1, <2>3 DEF SleepRight, Unsaid, Unread, Full
  <2>4. QED BY <2>2, <2>3
<1>2. QED BY <1>1 DEF Asleep

(* p acts on the pipe x: what is left to see is how it leaves the others that *)
(* sleep there.                                                               *)
LEMMA AsleepAct ==
  ASSUME Asleep, InCalls, NEW p \in Procs, NEW x \in Pages,
         lock \in [Pages -> Procs \cup {None}], lock[x] \in {None, p}, pi[p] \in {x, None},
         \A o \in Procs : o # p => /\ at'[o] = at[o] \/ Woken(o)
                                   /\ pi'[o] = pi[o] /\ unsaid'[o] = unsaid[o],
         \A y \in Pages : y # x => /\ lock'[y] = lock[y] /\ (y \in cut => y \in cut')
                                   /\ nread'[y] = nread[y] /\ nwrite'[y] = nwrite[y]
                                   /\ readopen'[y] = readopen[y] /\ writeopen'[y] = writeopen[y],
         \A o \in Procs : /\ o # p /\ pi[o] = x /\ at[o] = "rsleep" /\ at'[o] = "rsleep"
                          /\ writeopen[x] /\ (Unread(x) = 0 \/ x \in cut \/ Unsaid(x))
                          => writeopen'[x] /\ (Unread(x)' = 0 \/ x \in cut' \/ Unsaid(x)'),
         \A o \in Procs : /\ o # p /\ pi[o] = x /\ at[o] = "wsleep" /\ at'[o] = "wsleep"
                          /\ readopen[x] /\ Full(x)
                          => readopen'[x] /\ Full(x)',
         SleepRight(p)'
  PROVE  Asleep'
<1>1. ASSUME NEW o \in Procs, o # p PROVE SleepRight(o)'
  <2>1. SleepRight(o) /\ CallRight(o) BY DEF Asleep, InCalls
  <2>2. CASE at'[o] \notin Sleepy BY <2>2 DEF SleepRight, Sleepy
  <2>3. ASSUME at'[o] \in Sleepy, at'[o] = at[o], pi[o] = x PROVE SleepRight(o)'
    <3>1. pi'[o] = x BY <1>1, <2>3
    <3>2. at[o] \notin {"put", "doze"} BY <1>1, <2>1, <2>3, PipeAssumption DEF CallRight
    <3>3. CASE at[o] = "rsleep"
      <4>1. writeopen[x] /\ (Unread(x) = 0 \/ x \in cut \/ Unsaid(x))
        BY <2>1, <2>3, <3>3 DEF SleepRight
      <4>2. writeopen'[x] /\ (Unread(x)' = 0 \/ x \in cut' \/ Unsaid(x)')
        BY <1>1, <2>3, <3>3, <4>1
      <4>3. QED BY <2>3, <3>1, <3>3, <4>2 DEF SleepRight, Unread, Unsaid
    <3>4. CASE at[o] = "wsleep"
      <4>1. readopen[x] /\ Full(x) BY <2>1, <2>3, <3>4 DEF SleepRight
      <4>2. readopen'[x] /\ Full(x)' BY <1>1, <2>3, <3>4, <4>1
      <4>3. QED BY <2>3, <3>1, <3>4, <4>2 DEF SleepRight, Full
    <3>5. QED BY <2>3, <3>2, <3>3, <3>4 DEF Sleepy
  <2>4. ASSUME at'[o] \in Sleepy, at'[o] = at[o], pi[o] # x PROVE SleepRight(o)'
    <3>1. PICK y : y = pi[o] OBVIOUS
    <3>2. pi'[o] = y /\ y \in Pages /\ y # x
      BY <1>1, <2>1, <2>4, <3>1 DEF CallRight, Sleepy, Reading, Writing
    <3>3. lock[y] # None => pi[lock[y]] = y BY <3>2 DEF InCalls
    <3>4. lock[y] # p BY <3>2, <3>3, PipeAssumption
    <3>5. Unsaid(y) => Unsaid(y)' BY <3>2, <3>4 DEF Unsaid
    <3>6. /\ Unread(y)' = Unread(y) /\ (Full(y)' <=> Full(y)) /\ (y \in cut => y \in cut')
          /\ readopen'[y] = readopen[y] /\ writeopen'[y] = writeopen[y]
      BY <3>2 DEF Unread, Full
    <3> HIDE DEF Unread, Full, Unsaid
    <3>7. /\ at[o] = "rsleep" => writeopen[y] /\ (Unread(y) = 0 \/ y \in cut \/ Unsaid(y))
          /\ at[o] = "doze" => writeopen[y] /\ Unread(y) = 0
          /\ at[o] = "put" => readopen[y]
          /\ at[o] = "wsleep" => readopen[y] /\ Full(y)
      BY <2>1, <3>1 DEF SleepRight
    <3>8. /\ at'[o] = "rsleep" => writeopen'[y] /\ (Unread(y)' = 0 \/ y \in cut' \/ Unsaid(y)')
          /\ at'[o] = "doze" => writeopen'[y] /\ Unread(y)' = 0
          /\ at'[o] = "put" => readopen'[y]
          /\ at'[o] = "wsleep" => readopen'[y] /\ Full(y)'
      BY <2>4, <3>5, <3>6, <3>7
    <3>9. QED BY <3>2, <3>8 DEF SleepRight, Unread, Full, Unsaid
  <2>5. QED BY <1>1, <2>2, <2>3, <2>4 DEF Woken, Sleepy
<1>2. QED BY <1>1 DEF Asleep

LEMMA AsleepCall ==
  ASSUME PipeTypes, InCalls, Asleep, NEW p \in Procs, Call(p), UNCHANGED fileVars PROVE Asleep'
<1> USE DEF Woken
<1>1. /\ at \in [Procs -> Places] /\ pi \in [Procs -> Pages \cup {None}]
      /\ left \in [Procs -> Nat] /\ unsaid \in [Procs -> BOOLEAN] /\ cut \in SUBSET Pages
      /\ lock \in [Pages -> Procs \cup {None}] /\ None \notin Procs /\ Bytes
  BY PipeTypesSplit, PipeAssumption
<1>2. CallRight(p) /\ SleepRight(p) BY DEF InCalls, Asleep
<1>3. PICK x : x = pi[p] OBVIOUS
<1>4. ASSUME NEW l, WakeReaders(x, p, l)
      PROVE  at'[p] = l /\ \A o \in Procs : o # p => /\ at'[o] = at[o] \/ Woken(o)
                                                     /\ pi[o] = x => at'[o] # "rsleep"
  BY <1>4 DEF WakeReaders, Wake
<1>5. ASSUME NEW l, WakeWriters(x, p, l)
      PROVE  at'[p] = l /\ \A o \in Procs : o # p => /\ at'[o] = at[o] \/ Woken(o)
                                                     /\ pi[o] = x => at'[o] # "wsleep"
  BY <1>5 DEF WakeWriters, Wake
<1>6. ASSUME NEW l, Goto(p, l)
      PROVE  at'[p] = l /\ \A o \in Procs : o # p => at'[o] = at[o]
  BY <1>1, <1>6 DEF Goto
<1>7. ASSUME Leave(p) PROVE \A o \in Procs : o # p => pi'[o] = pi[o] BY <1>1, <1>7 DEF Leave
<1>8. ASSUME Said(p) PROVE \A o \in Procs : o # p => unsaid'[o] = unsaid[o]
  BY <1>1, <1>8 DEF Said
<1>9. ASSUME Release(x), x \in Pages
      PROVE  lock'[x] = None /\ \A y \in Pages : y # x => lock'[y] = lock[y]
  BY <1>1, <1>9 DEF Release
<1>10. x \in Pages /\ lock[x] \in {None, p}
  <2>1. (at[p] \in {"write", "read"} /\ Free(pi[p], p)) \/ at[p] \in {"put", "doze"}
    <3>1. CASE WriteCheck(p) BY <3>1 DEF WriteCheck
    <3>2. CASE WriteSleep(p) \/ WriteByte(p) \/ WriteFault(p) \/ ReadSleep(p)
      BY <3>2 DEF WriteSleep, WriteByte, WriteFault, ReadSleep
    <3>3. CASE ReadCheck(p) BY <3>3 DEF ReadCheck
    <3>4. ASSUME NEW k, NEW fault, ReadBytes(p, k, fault)
          PROVE  at[p] = "read" /\ Free(pi[p], p)
      BY <3>4 DEF ReadBytes
    <3>5. QED BY <3>1, <3>2, <3>3, <3>4 DEF Call
  <2>2. CallRight(p) BY <1>2
  <2>3. CASE at[p] \in {"write", "read"} /\ Free(pi[p], p)
    BY <1>3, <2>2, <2>3 DEF Free, CallRight, Reading, Writing
  <2>4. CASE at[p] \in {"put", "doze"} BY <1>3, <2>2, <2>4 DEF CallRight, Reading, Writing
  <2>5. QED BY <2>1, <2>3, <2>4
<1>11. ASSUME UNCHANGED <<nread, nwrite>> PROVE Unread(x)' = Unread(x) /\ (Full(x)' <=> Full(x))
  BY <1>11 DEF Unread, Full
<1>12. /\ at'[p] \notin Sleepy => SleepRight(p)'
       /\ pi'[p] = x => (SleepRight(p)' <=>
            /\ at'[p] = "rsleep" => writeopen'[x] /\ (Unread(x)' = 0 \/ x \in cut' \/ Unsaid(x)')
            /\ at'[p] = "doze" => writeopen'[x] /\ Unread(x)' = 0
            /\ at'[p] = "put" => readopen'[x]
            /\ at'[p] = "wsleep" => readopen'[x] /\ Full(x)')
  <2>1. at'[p] \notin Sleepy => SleepRight(p)' BY DEF SleepRight, Sleepy
  <2>2. QED BY <2>1 DEF SleepRight, Unsaid, Unread, Full
<1>13. CASE WriteCheck(p)
  <2>1. at[p] = "write" /\ UNCHANGED <<nread, nwrite, readopen, writeopen>>
    BY <1>13 DEF WriteCheck, pipeVars
  <2>2. CASE WakeReaders(x, p, "user") /\ Release(x) /\ Leave(p) /\ Said(p) /\ cut' = cut \ {x}
    <3>1. SleepRight(p)' BY <1>4, <1>12, <2>2 DEF Sleepy
    <3>2. QED BY <1>1, <1>3, <1>4, <1>7, <1>8, <1>9, <1>10, <1>11, <2>1, <2>2, <3>1, AsleepAct
  <2>3. CASE /\ Goto(p, "user") /\ Release(x) /\ Leave(p) /\ Said(p)
             /\ cut' = IF unsaid[p] THEN cut \cup {x} ELSE cut
    <3>1. SleepRight(p)' BY <1>6, <1>12, <2>3 DEF Sleepy
    <3>2. Unsaid(x) => x \in cut' BY <1>10, <2>3 DEF Unsaid
    <3>3. QED BY <1>1, <1>3, <1>6, <1>7, <1>8, <1>9, <1>10, <1>11, <2>1, <2>3, <3>1, <3>2, AsleepAct
  <2>4. CASE /\ readopen[x] /\ Goto(p, "put") /\ lock' = [lock EXCEPT ![x] = p]
             /\ UNCHANGED <<pi, left, unsaid, cut>>
    <3>1. SleepRight(p)' BY <1>3, <1>6, <1>12, <2>1, <2>4
    <3>2. lock'[x] = p /\ \A y \in Pages : y # x => lock'[y] = lock[y] BY <1>1, <1>10, <2>4
    <3>3. Unsaid(x) => Unsaid(x)' BY <1>10, <2>4, <3>2 DEF Unsaid
    <3>4. QED BY <1>1, <1>3, <1>6, <1>10, <1>11, <2>1, <2>4, <3>1, <3>2, <3>3, AsleepAct
  <2>5. QED BY <1>3, <1>13, <2>2, <2>3, <2>4 DEF WriteCheck
<1>14. CASE WriteSleep(p)
  <2>1. /\ at[p] = "put" /\ Full(x) /\ readopen[x] /\ UNCHANGED <<nread, nwrite, readopen, writeopen>>
        /\ WakeReaders(x, p, "wsleep") /\ Release(x) /\ Said(p) /\ UNCHANGED pi /\ cut' = cut \ {x}
    BY <1>2, <1>3, <1>14 DEF WriteSleep, pipeVars, SleepRight
  <2>2. SleepRight(p)' BY <1>3, <1>4, <1>11, <1>12, <2>1
  <2>3. QED BY <1>1, <1>3, <1>4, <1>8, <1>9, <1>10, <1>11, <2>1, <2>2, AsleepAct
<1>15. CASE WriteByte(p)
  <2>1. /\ at[p] = "put" /\ ~ Full(x) /\ UNCHANGED <<nread, readopen, writeopen, pi, lock, cut>>
        /\ Goto(p, "write") /\ unsaid' = [unsaid EXCEPT ![p] = TRUE]
    BY <1>3, <1>15 DEF WriteByte
  <2>2. \A y \in Pages : y # x => nwrite'[y] = nwrite[y] BY <1>1, <1>3, <1>15 DEF WriteByte, Bytes
  <2>3. SleepRight(p)' BY <1>6, <1>12, <2>1 DEF Sleepy
  <2>4. Unsaid(x)'
    <3>1. lock'[x] = p BY <1>2, <1>3, <2>1 DEF CallRight
    <3>2. unsaid'[p] = TRUE BY <1>1, <2>1
    <3>3. QED BY <1>1, <3>1, <3>2 DEF Unsaid
  <2>5. /\ \A o \in Procs : o # p => pi'[o] = pi[o] /\ unsaid'[o] = unsaid[o]
        /\ \A y \in Pages : /\ lock'[y] = lock[y] /\ nread'[y] = nread[y]
                            /\ readopen'[y] = readopen[y] /\ writeopen'[y] = writeopen[y]
        /\ cut' = cut /\ \A o \in Procs : o # p => at'[o] = at[o]
    BY <1>1, <1>6, <2>1
  <2>6. pi[p] = x /\ ~ Full(x) BY <1>3, <2>1
  <2>7. QED BY <1>1, <1>10, <2>2, <2>3, <2>4, <2>5, <2>6, AsleepAct
<1>16. CASE WriteFault(p)
  <2>1. at'[p] = "write" /\ \A o \in Procs : o # p => at'[o] = at[o] BY <1>6, <1>16 DEF WriteFault
  <2>2. UNCHANGED <<nread, nwrite, readopen, writeopen, cut, lock, unsaid, pi>>
    BY <1>16 DEF WriteFault, pipeVars
  <2>3. QED BY <2>1, <2>2, AsleepSame DEF Sleepy
<1>17. CASE ReadCheck(p)
  <2>1. /\ at[p] = "read" /\ UNCHANGED <<nread, nwrite, readopen, writeopen, cut, unsaid>>
        /\ writeopen[x] /\ ~ (Unread(x) > 0)
    BY <1>3, <1>17 DEF ReadCheck, Ready, pipeVars
  <2>2. Unread(x) = 0 BY <1>1, <1>10, <2>1, FullFacts, PipeAssumption
  <2>3. CASE Goto(p, "user") /\ Leave(p) /\ UNCHANGED lock
    <3>1. at'[p] = "user" /\ \A o \in Procs : o # p => at'[o] = at[o] /\ pi'[o] = pi[o]
      BY <1>6, <1>7, <2>3
    <3>2. QED BY <2>1, <2>3, <3>1, AsleepSame DEF Sleepy
  <2>4. CASE Goto(p, "doze") /\ lock' = [lock EXCEPT ![x] = p] /\ UNCHANGED pi
    <3>1. SleepRight(p)' BY <1>3, <1>6, <1>11, <1>12, <2>1, <2>2, <2>4
    <3>2. \A y \in Pages : y # x => lock'[y] = lock[y] BY <1>1, <1>10, <2>4
    <3>3. QED BY <1>1, <1>3, <1>6, <1>10, <1>11, <2>1, <2>2, <2>4, <3>1, <3>2, AsleepAct
  <2>5. QED BY <1>3, <1>17, <2>3, <2>4 DEF ReadCheck
<1>18. CASE ReadSleep(p)
  <2>1. /\ at[p] = "doze" /\ UNCHANGED <<nread, nwrite, readopen, writeopen, cut, unsaid, pi>>
        /\ writeopen[x] /\ Unread(x) = 0 /\ Goto(p, "rsleep") /\ Release(x)
    BY <1>2, <1>3, <1>18 DEF ReadSleep, SleepRight, pipeVars, procVars
  <2>2. SleepRight(p)' BY <1>3, <1>6, <1>11, <1>12, <2>1
  <2>3. QED BY <1>1, <1>3, <1>6, <1>9, <1>10, <1>11, <2>1, <2>2, AsleepAct
<1>19. ASSUME NEW k \in 0 .. left[p], NEW fault \in BOOLEAN, ReadBytes(p, k, fault) PROVE Asleep'
  <2>1. PICK n : n = k + (IF fault THEN 1 ELSE 0) OBVIOUS
  <2>2. /\ at[p] = "read" /\ UNCHANGED <<nwrite, readopen, writeopen, cut, unsaid, lock>>
        /\ n <= Unread(x) /\ nread' = [nread EXCEPT ![x] = (@ + n) % UintMod]
        /\ WakeWriters(x, p, "user") /\ Leave(p)
    BY <1>3, <1>19, <2>1 DEF ReadBytes
  <2>3. n \in Nat /\ Unread(x) \in Nat BY <1>1, <1>10, <2>1, FullFacts, PipeAssumption
  <2>4. Unread(x)' = Unread(x) - n BY <1>1, <1>10, <2>2, <2>3, BytesRead
  <2>5. Unread(x) = 0 => Unread(x)' = 0 BY <2>2, <2>3, <2>4
  <2>6. \A y \in Pages : y # x => nread'[y] = nread[y] BY <1>1, <2>2 DEF Bytes
  <2>7. SleepRight(p)' BY <1>5, <1>12, <2>2 DEF Sleepy
  <2>8. ~ Unsaid(x)
    <3>1. lock[x] # p BY <1>1, <1>10, <2>2 DEF InCalls
    <3>2. QED BY <1>10, <3>1 DEF Unsaid
  <2>9. QED BY <1>1, <1>3, <1>5, <1>7, <1>10, <2>2, <2>5, <2>6, <2>7, <2>8, AsleepAct
<1>20. QED BY <1>13, <1>14, <1>15, <1>16, <1>17, <1>18, <1>19 DEF Call
LEMMA AsleepStep ==
  ASSUME FileTypes, PipeTypes, Handling, OneEnd, OpenRight, InCalls, Asleep, [Next]_vars
  PROVE  Asleep'
<1> USE DEF Woken, Sleepy
<1>1. /\ at \in [Procs -> Places] /\ pi \in [Procs -> Pages \cup {None}]
      /\ lock \in [Pages -> Procs \cup {None}] /\ None \notin Procs /\ Bytes
      /\ \A o \in Procs : CallRight(o)
  BY PipeTypesSplit, PipeAssumption DEF InCalls
<1>2. ASSUME UNCHANGED <<pipeVars, cut, lock, unsaid>>,
             \A o \in Procs : at'[o] \notin Sleepy \/ (at'[o] = at[o] /\ pi'[o] = pi[o])
      PROVE  Asleep'
  BY <1>2, AsleepSame DEF pipeVars
<1>3. ASSUME NEW q \in Procs, NEW l, l \notin Sleepy, Goto(q, l), UNCHANGED pi
      PROVE  \A o \in Procs : at'[o] \notin Sleepy \/ (at'[o] = at[o] /\ pi'[o] = pi[o])
  BY <1>1, <1>3 DEF Goto
<1>4. ASSUME NEW q \in Procs, Quiet(q) PROVE Asleep'
  <2>1. CASE Call(q) /\ UNCHANGED fileVars BY <2>1, AsleepCall
  <2>2. CASE Kill(q)
    <3>1. PICK l : (l \notin Sleepy \/ l = at[q]) /\ Goto(q, l) /\ UNCHANGED <<pipeVars, pi, unsaid, lock, cut>>
      BY <2>2 DEF Kill
    <3>2. QED BY <1>1, <1>2, <3>1 DEF Goto
  <2>3. ASSUME NEW fd \in Fds, NEW l \in {"read", "write"}, NEW n \in Sizes[l], ReadWrite(q, fd, n, l)
        PROVE  Asleep'
    <3>1. Goto(q, l) /\ (\A o \in Procs : o # q => pi'[o] = pi[o])
          /\ UNCHANGED <<pipeVars, unsaid, lock, cut>>
      BY <1>1, <2>3 DEF ReadWrite
    <3>2. QED BY <1>1, <1>2, <3>1 DEF Goto
  <2>4. CASE Return(q) BY <1>2, <2>4 DEF Return
  <2>5. CASE exit(q)
    <3>1. PICK l \in {"unused", "exiting"} : Goto(q, l) BY <2>5 DEF exit
    <3>2. UNCHANGED <<pipeVars, pi, unsaid, lock, cut>> BY <2>5 DEF exit
    <3>3. QED BY <1>2, <1>3, <3>1, <3>2
  <2>6. QED BY <1>4, <2>1, <2>2, <2>3, <2>4, <2>5 DEF Quiet
<1>5. ASSUME NEW q \in Procs, NEW fd \in Fds, sys_dup(q, fd) PROVE Asleep'
  BY <1>2, <1>5 DEF sys_dup, procVars
<1>6. ASSUME NEW q \in Procs, NEW fd \in Fds, sys_close(q, fd) PROVE Asleep'
  <2>1. PICK l \in {"user", "closing"} : Goto(q, l) BY <1>6 DEF sys_close, Closing
  <2>2. UNCHANGED <<pipeVars, pi, unsaid, lock, cut>> BY <1>6 DEF sys_close, procVars
  <2>3. QED BY <1>2, <1>3, <2>1, <2>2
<1>7. ASSUME NEW q \in Procs, filealloc(q) PROVE Asleep'
  <2>1. PICK l \in {"user", "closing", "pipe"} : Goto(q, l) BY <1>7 DEF filealloc, Closing
  <2>2. UNCHANGED <<pipeVars, pi, unsaid, lock, cut>> BY <1>7 DEF filealloc, procVars
  <2>3. QED BY <1>2, <1>3, <2>1, <2>2
<1>8. ASSUME NEW q \in Procs, PipeFds(q) PROVE Asleep'
  <2>1. PICK l \in {"user", "closing"} : Goto(q, l) BY <1>8 DEF PipeFds, Closing
  <2>2. UNCHANGED <<pipeVars, pi, unsaid, lock, cut>> BY <1>8 DEF PipeFds, procVars
  <2>3. QED BY <1>2, <1>3, <2>1, <2>2
<1>9. ASSUME NEW q \in Procs, NEW p \in Procs, fork(q, p) PROVE Asleep'
  <2>1. Goto(p, "user") /\ UNCHANGED <<pipeVars, pi, unsaid, lock, cut>> BY <1>9 DEF fork, procVars
  <2>2. QED BY <1>2, <1>3, <2>1
<1>10. ASSUME NEW q \in Procs, CloseInHand(q) \/ CloseOpen(q) PROVE Asleep'
  <2>1. PICK f, more : fileclose(q, f, more) BY <1>10 DEF CloseInHand, CloseOpen
  <2>2. at[q] \in {"closing", "exiting"} BY <1>10 DEF CloseInHand, CloseOpen
  <2>3. at' = at \/ Goto(q, After(q, more)) BY <2>1 DEF fileclose
  <2>4. After(q, more) \notin Sleepy BY <2>2 DEF After
  <2>5. UNCHANGED <<pipeVars, pi, unsaid, lock, cut>> BY <2>1 DEF fileclose, procVars
  <2>6. QED BY <1>2, <1>3, <2>3, <2>4, <2>5
<1>11. ASSUME NEW q \in Procs, pipealloc(q) PROVE Asleep'
  <2>1. PICK l \in {"user", "closing", "fds"} : Goto(q, l) BY <1>11 DEF pipealloc, Closing
  <2>2. UNCHANGED <<pi, unsaid, lock, cut>> BY <1>11 DEF pipealloc, procVars
  <2>3. CASE UNCHANGED pipeVars BY <1>2, <1>3, <2>1, <2>2, <2>3
  <2>4. CASE ~ UNCHANGED pipeVars
    <3>1. at[q] = "pipe" /\ \E x \in Pages \ inuse : pipeinit(x)
      BY <1>11, <2>4 DEF pipealloc
    <3>2. PICK x \in Pages \ inuse : pipeinit(x) BY <3>1
    <3>3. ASSUME NEW o \in Procs, at[o] \in Calls PROVE pi[o] # x BY <3>2, <3>3, InUseByCall
    <3>4. lock[x] = None BY <1>1, <3>3 DEF InCalls, Calls, Reading, Writing
    <3>5. \A y \in Pages : y # x => /\ nread'[y] = nread[y] /\ nwrite'[y] = nwrite[y]
                                    /\ readopen'[y] = readopen[y] /\ writeopen'[y] = writeopen[y]
      BY <3>2 DEF pipeinit
    <3>6. at'[q] = l /\ \A o \in Procs : o # q => at'[o] = at[o] BY <1>1, <2>1 DEF Goto
    <3>7. SleepRight(q)' BY <3>6 DEF SleepRight
    <3>8. pi[q] = None BY <1>1, <3>1 DEF CallRight, Reading, Writing
    <3>9. \A o \in Procs : at[o] \in {"rsleep", "wsleep"} => pi[o] # x
      BY <3>3 DEF Calls, Reading, Writing
    <3>10. QED BY <1>1, <2>2, <3>2, <3>4, <3>5, <3>6, <3>7, <3>8, <3>9, AsleepAct
  <2>5. QED BY <2>3, <2>4
<1>12. ASSUME NEW q \in Procs, ClosePipe(q) PROVE Asleep'
  <2>1. at[q] \in {"closing", "exiting"} BY <1>12 DEF ClosePipe, Handling, HandRight
  <2>2. PICK more \in BOOLEAN : more <=> hand[q] # <<>> \/ (at[q] = "exiting" /\ Open(q) # {})
    OBVIOUS
  <2>3. PICK x, w, l : /\ x = last[q].pipe /\ w = last[q].writable /\ l = After(q, more)
                       /\ pipeclose(q, x, w, l)
    BY <1>12, <2>2 DEF ClosePipe, After
  <2>4. x \in Pages /\ w \in BOOLEAN BY <1>12, <2>3 DEF ClosePipe, FileTypes, Ends
  <2>5. l \notin Sleepy BY <2>1, <2>3 DEF After
  <2>6. lock[x] = None /\ pi[q] = None
    <3>1. pi[q] = None BY <1>1, <2>1 DEF CallRight, Reading, Writing
    <3>2. lock[x] \in {None, q} BY <2>3 DEF pipeclose, Free
    <3>3. lock[x] # q BY <1>1, <2>1, <2>4 DEF InCalls
    <3>4. QED BY <3>1, <3>2, <3>3
  <2>7. /\ UNCHANGED <<pi, unsaid, lock>> /\ (w => cut' = cut \ {x}) /\ (~ w => cut' = cut)
        /\ w => WakeReaders(x, q, l)
        /\ ~ w => WakeWriters(x, q, l)
    BY <2>3 DEF pipeclose, procVars
  <2>8. /\ at'[q] = l
        /\ \A o \in Procs : o # q => at'[o] = at[o] \/ Woken(o)
        /\ \A o \in Procs : o # q /\ pi[o] = x => at'[o] # IF w THEN "rsleep" ELSE "wsleep"
    BY <2>4, <2>7 DEF WakeReaders, WakeWriters, Wake
  <2>9. /\ \A y \in Pages : y # x => /\ nread'[y] = nread[y] /\ nwrite'[y] = nwrite[y]
                                     /\ readopen'[y] = readopen[y] /\ writeopen'[y] = writeopen[y]
        /\ readopen'[x] <=> readopen[x] /\ w
        /\ writeopen'[x] <=> writeopen[x] /\ ~ w
        /\ readopen'[x] \/ writeopen'[x] => UNCHANGED <<nread, nwrite>>
    <3>1. readopen \in [Pages -> BOOLEAN] /\ writeopen \in [Pages -> BOOLEAN] BY PipeTypesSplit
    <3>2. QED BY <1>1, <2>3, <2>4, <3>1 DEF pipeclose, InUse, Bytes
  <2>10. readopen'[x] \/ writeopen'[x] => Unread(x)' = Unread(x) /\ (Full(x)' <=> Full(x))
    BY <2>9 DEF Unread, Full
  <2>11. SleepRight(q)' BY <2>5, <2>8 DEF SleepRight
  <2>12. ~ Unsaid(x) BY <2>6 DEF Unsaid
  <2>13. CASE w
    BY <1>1, <2>4, <2>6, <2>7, <2>8, <2>9, <2>10, <2>11, <2>13, AsleepAct
  <2>14. CASE ~ w
    BY <1>1, <2>4, <2>6, <2>7, <2>8, <2>9, <2>10, <2>11, <2>12, <2>14, AsleepAct
  <2>15. QED BY <2>4, <2>13, <2>14
<1>13. CASE UNCHANGED vars BY <1>2, <1>13 DEF vars, procVars
<1>14. CASE Next
  BY <1>4, <1>5, <1>6, <1>7, <1>8, <1>9, <1>10, <1>11, <1>12, <1>14, Actions
<1>15. QED BY <1>13, <1>14

-----------------------------------------------------------------------------
(* The invariant: it holds at first, and every step keeps it.                 *)
LEMMA InvInit == Init => FilesInv
<1> SUFFICES ASSUME Init PROVE FilesInv OBVIOUS
<1> USE DEF Init, PipeInit
<1>1. None \notin FileIds /\ None \notin Procs /\ 0 \in 0 .. UintMod - 1 /\ <<>> \in Hands
      /\ FirstProc \in Procs /\ 0 \in 0 .. PIPESIZE
  BY FilesAssumption, PipeAssumption, NoneInHand
<1>2. FileTypes BY <1>1 DEF FileTypes
<1>3. PipeTypes
  <2>1. at \in [Procs -> Places] BY DEF Places
  <2>2. Bytes
    <3>1. nread \in [Pages -> 0 .. UintMod - 1] /\ nwrite \in [Pages -> 0 .. UintMod - 1] BY <1>1
    <3>2. Gap(0, 0) = 0 BY <1>1, GapZero
    <3>3. \A x \in Pages : Gap(nwrite[x], nread[x]) = 0 BY <3>2
    <3>4. QED BY <1>1, <3>1, <3>3 DEF Bytes
  <2>3. QED BY <2>1, <2>2, PipeTypesSplit
<1>4. \A p \in Procs : at[p] \in {"user", "unused"} /\ hand[p] = <<>> /\ last[p] = None OBVIOUS
<1>5. Len(<<>>) = 0 OBVIOUS
<1>6. Handling BY <1>1, <1>4, <1>5 DEF Handling, HandRight
<1>7. Counted
  <2>1. ASSUME NEW f \in FileIds PROVE Holders(f) = {}
    <3>1. \A p \in Procs : InHand(p) = {} BY <1>4, NoneInHand DEF InHand, Handful
    <3>2. QED BY <1>1, <3>1 DEF Holders
  <2>2. QED BY <2>1, FS_EmptySet DEF Counted
<1>8. OneEnd BY <1>4 DEF OneEnd, IsEnd, ToClose
<1>9. OpenRight BY <1>4 DEF OpenRight, EndOpen
<1>10. InCalls BY <1>4 DEF InCalls, CallRight, Reading, Writing
<1>11. Asleep BY <1>4 DEF Asleep, SleepRight
<1>12. QED BY <1>2, <1>3, <1>6, <1>7, <1>8, <1>9, <1>10, <1>11 DEF FilesInv

LEMMA InvStep == FilesInv /\ [Next]_vars => FilesInv'
BY FileTypesStep, PipeTypesStep, HandlingStep, CountedStep, OneEndStep, OpenRightStep, InCallsStep,
   AsleepStep DEF FilesInv

(* What every process relies on in fork(), exit(), pipe(), dup(), close(),    *)
(* read() and write() on pipes, whoever else runs and whoever is killed.      *)
THEOREM FilesInvAlways == Spec => []FilesInv
BY InvInit, InvStep, PTL DEF Spec

LEMMA InvCounts == FilesInv => CountsExact
<1> SUFFICES ASSUME FilesInv PROVE CountsExact OBVIOUS
<1> USE DEF FilesInv
<1>1. TypeOK BY DEF TypeOK, FileTypes, PipeTypes
<1>2. RefsExact
  <2>1. ASSUME NEW p \in Procs PROVE Cardinality(InHand(p)) = Len(hand[p])
    <3>1. PICK s \in Hands : s = hand[p] BY DEF FileTypes
    <3>2. InHand(p) = Handful(s) BY <3>1 DEF InHand, Handful
    <3>3. Len(s) = 2 => s[1] # s[2] BY <3>1 DEF Handling, HandRight
    <3>4. CASE Len(s) = 0 BY <3>1, <3>2, <3>4, HandsFacts, FS_EmptySet
    <3>5. CASE Len(s) = 1 BY <3>1, <3>2, <3>5, HandsFacts, FS_Singleton
    <3>6. CASE Len(s) = 2
      <4>1. PICK f, g : f = s[1] /\ g = s[2] OBVIOUS
      <4>2. IsFiniteSet({f}) /\ Cardinality({f}) = 1 BY FS_Singleton
      <4>3. g \notin {f} BY <3>3, <3>6, <4>1
      <4>4. Cardinality({f} \cup {g}) = 2 BY <4>2, <4>3, FS_AddElement
      <4>5. Handful(s) = {f} \cup {g} BY <3>6, <4>1, HandsFacts
      <4>6. QED BY <3>1, <3>2, <3>6, <4>4, <4>5
    <3>7. QED BY <3>4, <3>5, <3>6, HandsFacts
  <2>2. QED BY <2>1 DEF RefsExact, Counted
<1>3. PagesExact
  <2>1. ASSUME NEW o \in Procs, at[o] \in Calls PROVE pi[o] \in inuse BY <2>1, InUseByCall
  <2>2. ASSUME NEW x \in Pages, lock[x] # None PROVE x \in inuse
    <3>1. lock[x] \in Procs BY <2>2, PipeTypesSplit
    <3>2. pi[lock[x]] = x /\ at[lock[x]] \in Calls
      BY <2>2 DEF InCalls, Calls, Reading, Writing
    <3>3. QED BY <2>1, <3>1, <3>2
  <2>3. ASSUME NEW x \in Pages, NEW p \in Procs, pi[p] = x PROVE x \in inuse
    <3>1. CallRight(p) BY DEF InCalls
    <3>2. at[p] \in Calls BY <2>3, <3>1, PipeAssumption DEF CallRight, Calls
    <3>3. QED BY <2>1, <2>3, <3>2
  <2>4. QED BY <2>2, <2>3 DEF PagesExact, OpenRight
<1>4. QED BY <1>1, <1>2, <1>3 DEF CountsExact

(* filedup() and fileclose() count exactly: f->ref is the number of           *)
(* descriptors and calls that hold the file, so no file is closed early and   *)
(* none leaks; and pipealloc() and pipeclose() have the page of a pipe in use *)
(* exactly while an end of it is open, and nobody uses it afterwards.         *)
THEOREM CountsExactAlways == Spec => []CountsExact
BY FilesInvAlways, InvCounts, PTL

(* piperead(), pipewrite() and pipeclose() leave nobody asleep in a pipe      *)
(* without a reason.                                                          *)
THEOREM SleepersJustifiedAlways == Spec => []SleepersJustified
<1>1. FilesInv => SleepersJustified
  BY PipeTypesSplit DEF FilesInv, SleepersJustified, Asleep, SleepRight, Unsaid
<1>2. QED BY <1>1, FilesInvAlways, PTL

-----------------------------------------------------------------------------
(* The bytes of a pipe are a sequence, wherever they lie in the ring.         *)
LEMMA Split ==
  ASSUME NEW m \in Nat \ {0}, NEW a \in Int
  PROVE  \E q \in Int : \E r \in 0 .. m - 1 : a = (m * q) + r /\ a % m = r
<1>1. a \div m \in Int /\ a % m \in 0 .. m - 1 /\ a = (m * (a \div m)) + (a % m) OBVIOUS
<1>2. QED BY <1>1

LEMMA ModShift ==
  ASSUME NEW m \in Nat \ {0}, NEW a \in Int, NEW q \in Int PROVE (a - m * q) % m = a % m
<1>1. PICK d \in Int, r \in 0 .. m - 1 : a = m * d + r /\ a % m = r BY Split
<1>2. m * q \in Int /\ m * d \in Int /\ d - q \in Int OBVIOUS
<1>3. m * (d - q) = m * d - m * q OBVIOUS
<1>4. a - m * q = m * (d - q) + r BY <1>1, <1>2, <1>3
<1>5. a - m * q \in Int BY <1>2
<1>6. (a - m * q) % m = r BY <1>2, <1>4, <1>5, ModIs
<1>7. QED BY <1>1, <1>6

LEMMA Apart ==
  ASSUME NEW m \in Nat \ {0}, NEW a \in Int, NEW b \in Int, a < b, b - a < m
  PROVE  a % m # b % m
<1>1. PICK d \in Int, r \in 0 .. m - 1 : a = m * d + r /\ a % m = r BY Split
<1>2. PICK e \in Int, s \in 0 .. m - 1 : b = m * e + s /\ b % m = s BY Split
<1>3. SUFFICES ASSUME r = s PROVE FALSE BY <1>1, <1>2
<1>4. m * d \in Int /\ m * e \in Int /\ e - d \in Int OBVIOUS
<1>5. m * (e - d) = m * e - m * d OBVIOUS
<1>6. 0 < m * (e - d) /\ m * (e - d) < m BY <1>1, <1>2, <1>3, <1>4, <1>5
<1>7. CASE e - d <= 0
  <2>1. m * (e - d) <= 0 BY <1>4, <1>7
  <2>2. QED BY <1>6, <2>1, <1>4
<1>8. CASE e - d >= 1
  <2>1. m * (e - d) >= m BY <1>4, <1>8
  <2>2. QED BY <1>6, <2>1, <1>4
<1>9. QED BY <1>4, <1>7, <1>8

Byte == Nat \cup {None}
DataTypes == data \in [Pages -> [0 .. PIPESIZE - 1 -> Byte]]

LEMMA SameSeq ==
  ASSUME NEW S, NEW s \in Seq(S), NEW t \in Seq(S), Len(s) = Len(t),
         \A i \in 1 .. Len(s) : s[i] = t[i]
  PROVE  s = t
BY SeqEqual

(* A slot of the ring.  Wrapping at UintMod does not move it.                 *)
Slot(j)    == j % PIPESIZE
Plus(r, k) == (r + k) % UintMod

LEMMA SlotIs ==
  ASSUME NEW a \in Int
  PROVE  /\ Slot(a) \in 0 .. PIPESIZE - 1
         /\ \A b \in Int : a < b /\ b - a < PIPESIZE => Slot(a) # Slot(b)
<1>1. PIPESIZE \in Nat \ {0} BY PipeAssumption
<1>2. a % PIPESIZE \in 0 .. PIPESIZE - 1 BY <1>1
<1>3. QED BY <1>1, <1>2, Apart DEF Slot

LEMMA PlusIs ==
  ASSUME NEW r \in 0 .. UintMod - 1, NEW k \in 0 .. UintMod - 1
  PROVE  /\ Plus(r, k) \in 0 .. UintMod - 1
         /\ Plus(r, k) = IF r + k < UintMod THEN r + k ELSE r + k - UintMod
BY SumIs DEF Plus

LEMMA Wrapped ==
  ASSUME NEW r \in 0 .. UintMod - 1, NEW k \in 0 .. UintMod - 1, NEW j \in Int,
         NEW a \in Int, a = r + k + j, NEW b \in Int, b = Plus(r, k) + j
  PROVE  Slot(a) = Slot(b)
<1>1. PIPESIZE \in Nat \ {0} /\ UintMod \in Nat \ {0} /\ UintMod % PIPESIZE = 0
  BY PipeAssumption
<1>2. CASE r + k < UintMod BY <1>2, PlusIs
<1>3. CASE ~ (r + k < UintMod)
  <2>0. PICK m \in Int : m = UintMod BY <1>1
  <2>1. PICK q \in Int, t \in 0 .. PIPESIZE - 1 : m = (PIPESIZE * q) + t /\ m % PIPESIZE = t
    BY <1>1, Split
  <2>2. UintMod = PIPESIZE * q BY <1>1, <2>0, <2>1
  <2>3. b = a - UintMod BY <1>1, <1>3, PlusIs
  <2>4. (a - PIPESIZE * q) % PIPESIZE = a % PIPESIZE BY <1>1, ModShift
  <2>5. QED BY <2>2, <2>3, <2>4 DEF Slot
<1>4. QED BY <1>2, <1>3

(* What Content is made of: n bytes of the ring d from the index r.          *)
Run(d, r, n) == [i \in 1 .. n |-> d[Slot(r + i - 1)]]

LEMMA RunIs ==
  ASSUME NEW d \in [0 .. PIPESIZE - 1 -> Byte], NEW r \in Int, NEW n \in Nat
  PROVE  /\ Run(d, r, n) \in Seq(Byte) /\ Len(Run(d, r, n)) = n
         /\ \A i \in 1 .. n : Run(d, r, n)[i] = d[Slot(r + i - 1)]
<1>1. \A i \in 1 .. n : Slot(r + i - 1) \in 0 .. PIPESIZE - 1 BY SlotIs
<1>2. Run(d, r, n) \in [1 .. n -> Byte] BY <1>1 DEF Run
<1>3. Run(d, r, n) \in Seq(Byte) BY <1>2, SeqDef
<1>4. Len(Run(d, r, n)) = n BY <1>2, <1>3, LenProperties
<1>5. QED BY <1>1, <1>3, <1>4 DEF Run

(* pipewrite() puts a byte behind the others, piperead() takes k in front.    *)
LEMMA RunAppend ==
  ASSUME NEW d \in [0 .. PIPESIZE - 1 -> Byte], NEW r \in 0 .. UintMod - 1, NEW n \in Nat,
         n < PIPESIZE, NEW c \in Byte
  PROVE  Run([d EXCEPT ![Slot(Plus(r, n))] = c], r, n + 1) = Append(Run(d, r, n), c)
<1>1. PIPESIZE \in Nat \ {0} /\ UintMod \in Nat \ {0} /\ n \in 0 .. UintMod - 1 /\ r \in Int
      /\ n + 1 \in Nat
  BY PipeAssumption
<1>2. PICK w \in Int : w = r + n BY <1>1
<1>3. PICK v \in 0 .. PIPESIZE - 1 : v = Slot(w) /\ v = Slot(Plus(r, n))
  <2>1. PICK b \in Int : b = Plus(r, n) BY <1>1, PlusIs
  <2>2. w = r + n + 0 /\ b = Plus(r, n) + 0 BY <1>1, <1>2, <2>1
  <2>3. Slot(w) = Slot(b) BY <1>1, <2>2, Wrapped
  <2>4. QED BY <2>1, <2>3, SlotIs
<1>4. PICK e : e = [d EXCEPT ![v] = c] OBVIOUS
<1>5. e \in [0 .. PIPESIZE - 1 -> Byte] /\ e[v] = c
      /\ \A y \in 0 .. PIPESIZE - 1 : y # v => e[y] = d[y]
  BY <1>4
<1>6. PICK s \in Seq(Byte) : /\ s = Run(d, r, n) /\ Len(s) = n
                             /\ \A i \in 1 .. n : s[i] = d[Slot(r + i - 1)]
  BY <1>1, RunIs
<1>7. PICK t \in Seq(Byte) : /\ t = Run(e, r, n + 1) /\ Len(t) = n + 1
                             /\ \A i \in 1 .. n + 1 : t[i] = e[Slot(r + i - 1)]
  BY <1>1, <1>5, RunIs
<1>8. ASSUME NEW i \in 1 .. n PROVE t[i] = s[i]
  <2>1. PICK a \in Int : a = r + i - 1 BY <1>1
  <2>2. a < w /\ w - a < PIPESIZE BY <1>1, <1>2, <2>1
  <2>3. Slot(a) # v /\ Slot(a) \in 0 .. PIPESIZE - 1 BY <1>3, <2>2, SlotIs
  <2>4. i \in 1 .. n + 1 BY <1>1
  <2>5. t[i] = e[Slot(a)] /\ s[i] = d[Slot(a)] BY <1>6, <1>7, <2>1, <2>4
  <2>6. QED BY <1>5, <2>3, <2>5
<1>9. t[n + 1] = c
  <2>1. n + 1 \in 1 .. n + 1 /\ r + (n + 1) - 1 = w BY <1>1, <1>2
  <2>2. t[n + 1] = e[Slot(r + (n + 1) - 1)] BY <1>7, <2>1
  <2>3. QED BY <1>3, <1>5, <2>1, <2>2
<1>10. PICK u \in Seq(Byte) : /\ u = Append(s, c) /\ Len(u) = n + 1 /\ u[n + 1] = c
                              /\ \A i \in 1 .. n : u[i] = s[i]
  <2>1. Append(s, c) \in Seq(Byte) /\ Len(Append(s, c)) = n + 1 /\ Append(s, c)[n + 1] = c
        /\ \A i \in 1 .. n : Append(s, c)[i] = s[i]
    BY <1>6, AppendProperties
  <2>2. QED BY <2>1
<1>11. ASSUME NEW i \in 1 .. Len(t) PROVE t[i] = u[i]
  <2>1. i \in 1 .. n \/ i = n + 1 BY <1>1, <1>7
  <2>2. QED BY <1>8, <1>9, <1>10, <2>1
<1>12. t = u BY <1>7, <1>10, <1>11, SameSeq
<1>13. QED BY <1>3, <1>4, <1>6, <1>7, <1>10, <1>12

LEMMA RunDrop ==
  ASSUME NEW d \in [0 .. PIPESIZE - 1 -> Byte], NEW r \in 0 .. UintMod - 1, NEW n \in Nat,
         n <= PIPESIZE, NEW k \in 0 .. n
  PROVE  Run(d, Plus(r, k), n - k) = SubSeq(Run(d, r, n), k + 1, n)
<1>1. PIPESIZE \in Nat \ {0} /\ UintMod \in Nat \ {0} /\ k \in 0 .. UintMod - 1 /\ r \in Int
      /\ n - k \in Nat /\ k + 1 \in 1 .. n + 1
  BY PipeAssumption
<1>2. PICK q \in Int : q = Plus(r, k) BY <1>1, PlusIs
<1>3. PICK s \in Seq(Byte) : /\ s = Run(d, r, n) /\ Len(s) = n
                             /\ \A i \in 1 .. n : s[i] = d[Slot(r + i - 1)]
  BY <1>1, RunIs
<1>4. PICK t \in Seq(Byte) : /\ t = Run(d, q, n - k) /\ Len(t) = n - k
                             /\ \A i \in 1 .. n - k : t[i] = d[Slot(q + i - 1)]
  BY <1>1, <1>2, RunIs
<1>5. PICK u \in Seq(Byte) : /\ u = SubSeq(s, k + 1, n) /\ Len(u) = n - k
                             /\ \A i \in 1 .. n - k : u[i] = s[k + i]
  <2>1. k + 1 \in Int /\ n \in Int /\ n - (k + 1) + 1 = n - k
        /\ \A i \in 1 .. n - k : (k + 1) + i - 1 = k + i
    BY <1>1
  <2>2. \A i \in k + 1 .. n : s[i] \in Byte BY <1>1, <1>3, ElementOfSeq
  <2>3. SubSeq(s, k + 1, n) \in Seq(Byte) BY <2>1, <2>2, SubSeqProperties
  <2>4. Len(SubSeq(s, k + 1, n)) = n - k BY <1>1, <2>1, <2>2, SubSeqProperties
  <2>5. \A i \in 1 .. n - k : SubSeq(s, k + 1, n)[i] = s[(k + 1) + i - 1]
    BY <2>1, <2>2, SubSeqProperties
  <2>6. QED BY <2>1, <2>3, <2>4, <2>5
<1>6. ASSUME NEW i \in 1 .. n - k PROVE t[i] = u[i]
  <2>1. i \in Int /\ k + i \in 1 .. n BY <1>1
  <2>2. PICK j \in Int, a \in Int, b \in Int : j = i - 1 /\ a = r + k + j /\ b = q + j
    BY <1>1, <2>1
  <2>3. Slot(a) = Slot(b) BY <1>1, <1>2, <2>2, Wrapped
  <2>4. q + i - 1 = b /\ r + (k + i) - 1 = a BY <1>1, <2>1, <2>2
  <2>5. t[i] = d[Slot(q + i - 1)] /\ s[k + i] = d[Slot(r + (k + i) - 1)]
    BY <1>3, <1>4, <2>1
  <2>6. QED BY <1>5, <2>3, <2>4, <2>5
<1>7. t = u BY <1>4, <1>5, <1>6, SameSeq
<1>8. QED BY <1>2, <1>3, <1>4, <1>5, <1>7

-----------------------------------------------------------------------------
(* The refinement mapping: the pipes, and who can use them.                   *)
streamVars == <<Contents, Held(TRUE), Held(FALSE), got>>

LEMMA HeldIs ==
  ASSUME NEW x, NEW w
  PROVE  /\ x \in Held(w) <=> \E f \in FileIds : IsEnd(f, x, w)
         /\ x \in Held(w)' <=> \E f \in FileIds : IsEnd(f, x, w)'
BY DEF Held, IsEnd

LEMMA HeldPages == ASSUME OneEnd, NEW w PROVE Held(w) \subseteq Pages
BY DEF OneEnd, Held

LEMMA HeldNext ==
  ASSUME OneEnd', NEW w \in BOOLEAN, NEW S, S \subseteq Pages,
         \A y \in Pages : (\E f \in FileIds : IsEnd(f, y, w)') <=> y \in S
  PROVE  Held(w)' = S
<1>1. Held(w)' \subseteq Pages BY DEF OneEnd, Held
<1>2. \A y \in Pages : y \in Held(w)' <=> y \in S BY HeldIs
<1>3. QED BY <1>1, <1>2

LEMMA HeldSame ==
  ASSUME UNCHANGED <<type, writable, pipe>> PROVE Held(TRUE)' = Held(TRUE) /\ Held(FALSE)' = Held(FALSE)
BY DEF Held

LEMMA ContentsSame ==
  ASSUME NEW x \in Pages, x \in inuse' <=> x \in inuse, data'[x] = data[x],
         nread'[x] = nread[x], nwrite'[x] = nwrite[x]
  PROVE  Contents'[x] = Contents[x]
<1>1. Contents[x] = (IF x \in inuse THEN Content(x) ELSE <<>>)
      /\ Contents'[x] = (IF x \in inuse' THEN Content(x)' ELSE <<>>)
  BY DEF Contents
<1>2. Unread(x)' = Unread(x) BY DEF Unread
<1>3. Content(x)' = Content(x) BY <1>2 DEF Content
<1>4. QED BY <1>1, <1>3

LEMMA ContentsFrame ==
  ASSUME UNCHANGED <<inuse, data, nread, nwrite>> PROVE Contents' = Contents
BY DEF Contents, Content, Unread

LEMMA ContentsNext ==
  ASSUME NEW x \in Pages, NEW s, Contents'[x] = s,
         \A y \in Pages : y # x => Contents'[y] = Contents[y]
  PROVE  Contents' = [Contents EXCEPT ![x] = s]
<1>1. Contents' = [y \in Pages |-> Contents'[y]] BY DEF Contents
<1>2. Contents = [y \in Pages |-> Contents[y]] BY DEF Contents
<1>3. QED BY <1>1, <1>2

LEMMA HeldInUse ==
  ASSUME OneEnd, OpenRight, NEW w \in BOOLEAN, NEW x \in Held(w)
  PROVE  x \in Pages /\ x \in inuse
<1>1. x \in Pages BY HeldPages
<1>2. EndOpen(x, w) BY HeldIs, EndOpenIs
<1>3. QED BY <1>1, <1>2 DEF OpenRight

LEMMA CallHolds ==
  ASSUME InCalls, NEW p \in Procs
  PROVE  /\ at[p] \in Reading => pi[p] \in Held(FALSE)
         /\ at[p] \in Writing => pi[p] \in Held(TRUE)
BY HeldIs DEF InCalls, CallRight, HasEnd

LEMMA ContentsAre ==
  ASSUME NEW x \in Pages
  PROVE  /\ Contents[x] = IF x \in inuse THEN Run(data[x], nread[x], Unread(x)) ELSE <<>>
         /\ Contents'[x] = IF x \in inuse' THEN Run(data'[x], nread'[x], Unread(x)') ELSE <<>>
<1>1. Content(x) = Run(data[x], nread[x], Unread(x)) BY DEF Content, Run, Slot
<1>2. Content(x)' = Run(data'[x], nread'[x], Unread(x)') BY DEF Content, Run, Slot
<1>3. QED BY <1>1, <1>2 DEF Contents

LEMMA NwriteIs ==
  ASSUME Bytes, NEW x \in Pages
  PROVE  nwrite[x] = Plus(nread[x], Unread(x))
<1>1. nwrite[x] \in 0 .. UintMod - 1 /\ nread[x] \in 0 .. UintMod - 1 BY DEF Bytes
<1>2. Unread(x) \in 0 .. UintMod - 1 BY FullFacts, PipeAssumption
<1>3. Unread(x) = IF nwrite[x] >= nread[x] THEN nwrite[x] - nread[x] ELSE nwrite[x] - nread[x] + UintMod
  BY <1>1, GapIs DEF Unread, Gap
<1>4. PICK k \in 0 .. UintMod - 1 : k = Unread(x) BY <1>2
<1>5. Plus(nread[x], k) = IF nread[x] + k < UintMod THEN nread[x] + k ELSE nread[x] + k - UintMod
  BY <1>1, PlusIs
<1>6. QED BY <1>1, <1>3, <1>4, <1>5, PipeAssumption

(* pipewrite(), byte by byte.                                                 *)
LEMMA WriteByteSim ==
  ASSUME FilesInv, DataTypes, NEW p \in Procs, WriteByte(p), UNCHANGED fileVars
  PROVE  \E x \in Pages : \E c \in 0 .. UintMod - 1 : Streams!Append1(x, c)
<1>1. Bytes /\ InCalls /\ OneEnd /\ OpenRight BY PipeTypesSplit DEF FilesInv
<1>2. at[p] = "put" BY DEF WriteByte
<1>3. pi[p] \in Held(TRUE) BY <1>1, <1>2, CallHolds DEF Writing
<1>4. PICK x \in Pages : x = pi[p] /\ x \in Held(TRUE) /\ x \in inuse BY <1>1, <1>3, HeldInUse
<1>5. PICK n : n = Unread(x) OBVIOUS
<1>6. n \in Nat /\ n < PIPESIZE /\ ~ Full(x) /\ nread[x] \in 0 .. UintMod - 1
  BY <1>1, <1>4, <1>5, FullFacts, PipeAssumption DEF WriteByte, Bytes
<1>7. PICK c \in 0 .. UintMod - 1 : c = nwrite[x] /\ c = Plus(nread[x], n) /\ c \in Byte
  BY <1>1, <1>5, NwriteIs, PipeAssumption DEF Bytes, Byte
<1>8. /\ data' = [data EXCEPT ![x][c % PIPESIZE] = c]
      /\ nwrite' = [nwrite EXCEPT ![x] = Succ(@)] /\ UNCHANGED <<inuse, nread, got>>
  BY <1>4, <1>7 DEF WriteByte
<1>9. PICK d \in [0 .. PIPESIZE - 1 -> Byte] :
        d = data[x] /\ data'[x] = [d EXCEPT ![Slot(Plus(nread[x], n))] = c]
  BY <1>7, <1>8 DEF DataTypes, Slot
<1>10. Unread(x)' = n + 1 BY <1>1, <1>5, <1>6, <1>8, BytesWrite
<1>11. Contents[x] = Run(d, nread[x], n) BY <1>4, <1>5, <1>9, ContentsAre
<1>12. Contents'[x] = Run([d EXCEPT ![Slot(Plus(nread[x], n))] = c], nread[x], n + 1)
  BY <1>4, <1>8, <1>9, <1>10, ContentsAre
<1>13. Contents'[x] = Append(Contents[x], c) BY <1>6, <1>7, <1>11, <1>12, RunAppend
<1>14. \A y \in Pages : y # x => Contents'[y] = Contents[y]
  BY <1>1, <1>8, ContentsSame DEF Bytes, DataTypes
<1>15. Contents' = [Contents EXCEPT ![x] = Append(Contents[x], c)] BY <1>13, <1>14, ContentsNext
<1>16. Len(Contents[x]) = n BY <1>6, <1>11, RunIs
<1>17. UNCHANGED <<Held(TRUE), Held(FALSE)>> BY HeldSame DEF fileVars
<1>18. QED BY <1>4, <1>6, <1>8, <1>15, <1>16, <1>17 DEF Streams!Append1

(* piperead().                                                                *)
LEMMA ReadBytesSim ==
  ASSUME FilesInv, DataTypes, NEW p \in Procs, UNCHANGED fileVars,
         NEW k \in 0 .. left[p], NEW fault \in BOOLEAN, ReadBytes(p, k, fault)
  PROVE  \E x \in Pages : \/ Streams!Eof(p, x)
                          \/ \E m \in 0 .. PIPESIZE : \E lost \in 0 .. 1 : Streams!Take(p, x, m, lost)
<1>1. Bytes /\ InCalls /\ OneEnd /\ OpenRight /\ left[p] \in Nat BY PipeTypesSplit DEF FilesInv
<1>2. at[p] = "read" BY DEF ReadBytes
<1>3. pi[p] \in Held(FALSE) BY <1>1, <1>2, CallHolds DEF Reading
<1>4. PICK x \in Pages : x = pi[p] /\ x \in Held(FALSE) /\ x \in inuse BY <1>1, <1>3, HeldInUse
<1>5. PICK n : n = Unread(x) OBVIOUS
<1>6. n \in Nat /\ n <= PIPESIZE /\ nread[x] \in 0 .. UintMod - 1
  BY <1>1, <1>4, <1>5, FullFacts, PipeAssumption DEF Bytes
<1>7. PICK lost \in 0 .. 1 : lost = IF fault THEN 1 ELSE 0 OBVIOUS
<1>8. PICK gone \in Nat : gone = k + lost BY <1>1, <1>7
<1>9. /\ Ready(x) /\ gone <= n
      /\ got' = [got EXCEPT ![p] = IF n = 0 THEN <<-1>> ELSE SubSeq(Content(x), 1, k)]
      /\ nread' = [nread EXCEPT ![x] = (@ + gone) % UintMod]
      /\ UNCHANGED <<inuse, data, nwrite>>
  BY <1>4, <1>5, <1>7, <1>8 DEF ReadBytes
<1>10. PICK d \in [0 .. PIPESIZE - 1 -> Byte] : d = data[x] BY DEF DataTypes
<1>11. PICK r \in 0 .. UintMod - 1 : r = nread[x] BY <1>6
<1>12. Unread(x)' = n - gone BY <1>1, <1>5, <1>9, BytesRead
<1>13. nread'[x] = Plus(r, gone) BY <1>1, <1>9, <1>11 DEF Plus, Bytes
<1>14. PICK s \in Seq(Byte) : s = Contents[x] /\ s = Content(x) /\ s = Run(d, r, n) /\ Len(s) = n
  <2>1. r \in Int /\ Run(d, r, n) \in Seq(Byte) /\ Len(Run(d, r, n)) = n BY <1>6, RunIs
  <2>2. Contents[x] = Run(d, r, n) BY <1>4, <1>5, <1>10, <1>11, ContentsAre
  <2>3. Contents[x] = Content(x) BY <1>4 DEF Contents
  <2>4. QED BY <2>1, <2>2, <2>3
<1>15. Contents'[x] = Run(d, Plus(r, gone), n - gone)
  BY <1>4, <1>9, <1>10, <1>12, <1>13, ContentsAre
<1>16. \A y \in Pages : y # x => Contents'[y] = Contents[y]
  BY <1>1, <1>9, ContentsSame DEF Bytes
<1>17. Contents'[x] = SubSeq(s, gone + 1, n)
  <2>1. gone \in 0 .. n BY <1>6, <1>9
  <2>2. Run(d, Plus(r, gone), n - gone) = SubSeq(Run(d, r, n), gone + 1, n)
    BY <1>6, <2>1, RunDrop
  <2>3. QED BY <1>14, <1>15, <2>2
<1>18. Contents' = [Contents EXCEPT ![x] = SubSeq(Contents[x], gone + 1, Len(Contents[x]))]
  BY <1>14, <1>16, <1>17, ContentsNext
<1>19. UNCHANGED <<Held(TRUE), Held(FALSE)>> BY HeldSame DEF fileVars
<1>20. CASE n = 0
  <2>1. ~ writeopen[x] BY <1>5, <1>9, <1>20 DEF Ready
  <2>2. x \notin Held(TRUE)
    <3>1. ~ EndOpen(x, TRUE) BY <1>1, <1>4, <2>1 DEF OpenRight
    <3>2. QED BY <3>1, HeldIs, EndOpenIs
  <2>3. Contents[x] = <<>> /\ Contents'[x] = Contents[x]
    <3>1. gone = 0 BY <1>8, <1>9, <1>20
    <3>2. Plus(r, 0) = r
      <4>1. 0 \in 0 .. UintMod - 1 /\ r + 0 = r /\ r < UintMod BY <1>11, PipeAssumption
      <4>2. QED BY <4>1, PlusIs
    <3>3. Contents'[x] = s BY <1>14, <1>15, <1>20, <3>1, <3>2
    <3>4. s = <<>> BY <1>14, <1>20, EmptySeq
    <3>5. QED BY <1>14, <3>3, <3>4
  <2>4. Contents' = Contents
    <3>1. \A y \in Pages : Contents'[y] = Contents[y] BY <1>16, <2>3
    <3>2. QED BY <3>1 DEF Contents
  <2>5. Streams!Eof(p, x) BY <1>4, <1>9, <1>19, <1>20, <2>2, <2>3, <2>4 DEF Streams!Eof
  <2>6. QED BY <2>5
<1>21. CASE n # 0
  <2>1. Contents[x] # <<>> BY <1>14, <1>21, EmptySeq
  <2>2. k \in 0 .. PIPESIZE /\ k + lost <= Len(Contents[x]) /\ k + lost + 1 = gone + 1
    BY <1>1, <1>6, <1>7, <1>8, <1>9, <1>14, PipeAssumption
  <2>3. got' = [got EXCEPT ![p] = SubSeq(Contents[x], 1, k)] BY <1>9, <1>14, <1>21
  <2>4. Streams!Take(p, x, k, lost)
    BY <1>4, <1>8, <1>18, <1>19, <2>1, <2>2, <2>3 DEF Streams!Take
  <2>5. QED BY <2>2, <2>4
<1>22. QED BY <1>20, <1>21

LEMMA StutterSim ==
  ASSUME UNCHANGED <<type, writable, pipe, inuse, data, nread, nwrite, got>>
  PROVE  [Streams!Next]_streamVars
BY HeldSame, ContentsFrame DEF streamVars

LEMMA QuietSim ==
  ASSUME FilesInv, DataTypes, NEW p \in Procs, Quiet(p) PROVE [Streams!Next]_streamVars
<1>1. UNCHANGED fileVars BY QuietFiles
<1>2. ASSUME UNCHANGED <<inuse, data, nread, nwrite, got>> PROVE [Streams!Next]_streamVars
  BY <1>1, <1>2, StutterSim DEF fileVars
<1>3. CASE WriteByte(p)
  <2>1. Streams!Next BY <1>1, <1>3, WriteByteSim DEF Streams!Next
  <2>2. QED BY <2>1
<1>4. ASSUME NEW k \in 0 .. left[p], NEW fault \in BOOLEAN, ReadBytes(p, k, fault)
      PROVE  [Streams!Next]_streamVars
  <2>1. Streams!Next BY <1>1, <1>4, ReadBytesSim DEF Streams!Next
  <2>2. QED BY <2>1
<1>5. CASE Return(p)
  <2>1. got' = [got EXCEPT ![p] = <<>>] /\ UNCHANGED pipeVars BY <1>5 DEF Return
  <2>2. UNCHANGED <<Contents, Held(TRUE), Held(FALSE)>>
    BY <1>1, <2>1, HeldSame, ContentsFrame DEF fileVars, pipeVars
  <2>3. Streams!Forget(p) BY <2>1, <2>2 DEF Streams!Forget
  <2>4. QED BY <2>3 DEF Streams!Next
<1>6. CASE WriteCheck(p) \/ WriteSleep(p) \/ WriteFault(p)
  BY <1>2, <1>6 DEF WriteCheck, WriteSleep, WriteFault, pipeVars
<1>7. CASE ReadCheck(p) \/ ReadSleep(p) \/ Kill(p)
  BY <1>2, <1>7 DEF ReadCheck, ReadSleep, Kill, pipeVars, procVars
<1>8. ASSUME NEW fd \in Fds, NEW l \in {"read", "write"}, NEW n \in Sizes[l], ReadWrite(p, fd, n, l)
      PROVE  [Streams!Next]_streamVars
  BY <1>2, <1>8 DEF ReadWrite, pipeVars
<1>9. CASE exit(p) BY <1>2, <1>9 DEF exit, pipeVars
<1>10. QED BY <1>3, <1>4, <1>5, <1>6, <1>7, <1>8, <1>9 DEF Quiet, Call

(* pipealloc() opens a pipe.                                                  *)
LEMMA AllocSim ==
  ASSUME FilesInv, FilesInv', NEW q \in Procs, pipealloc(q) PROVE [Streams!Next]_streamVars
<1>1. FileTypes /\ Handling /\ Counted /\ OneEnd /\ OneEnd' /\ OpenRight /\ Bytes /\ Bytes'
  BY PipeTypesSplit DEF FilesInv, PipeTypes, Bytes, Unread, Gap
<1>2. UNCHANGED got BY DEF pipealloc, procVars
<1>3. CASE UNCHANGED <<type, writable, pipe, inuse>>
  <2>1. UNCHANGED pipeVars BY <1>3 DEF pipealloc, pipeinit
  <2>2. QED BY <1>2, <1>3, <2>1, StutterSim DEF pipeVars
<1>4. CASE ~ UNCHANGED <<type, writable, pipe, inuse>>
  <2>1. PICK x \in Pages, r \in FileIds, s \in FileIds :
          /\ x \notin inuse /\ pipeinit(x)
          /\ \A f \in FileIds, y \in Pages, w \in BOOLEAN :
               IsEnd(f, y, w)' <=> \/ f = r /\ y = x /\ w = FALSE
                                   \/ f = s /\ y = x /\ w = TRUE
                                   \/ IsEnd(f, y, w)
    BY <1>1, <1>4, EndsAlloc
  <2>2. x \notin Held(TRUE) /\ x \notin Held(FALSE) BY <1>1, <2>1, HeldInUse
  <2>3. Held(TRUE) \subseteq Pages /\ Held(FALSE) \subseteq Pages BY <1>1, HeldPages
  <2>4. Held(TRUE)' = Held(TRUE) \cup {x}
    <3>1. \A y \in Pages : (\E f \in FileIds : IsEnd(f, y, TRUE)') <=> y \in Held(TRUE) \cup {x}
      BY <2>1, HeldIs
    <3>2. QED BY <1>1, <2>3, <3>1, HeldNext
  <2>5. Held(FALSE)' = Held(FALSE) \cup {x}
    <3>1. \A y \in Pages : (\E f \in FileIds : IsEnd(f, y, FALSE)') <=> y \in Held(FALSE) \cup {x}
      BY <2>1, HeldIs
    <3>2. QED BY <1>1, <2>3, <3>1, HeldNext
  <2>6. x \in inuse' /\ nread'[x] = 0 /\ nwrite'[x] = 0 BY <1>1, <2>1 DEF pipeinit, Bytes
  <2>7. Contents'[x] = <<>>
    <3>1. Unread(x)' = 0
      <4>1. 0 \in 0 .. UintMod - 1 BY PipeAssumption
      <4>2. Gap(0, 0) = 0 BY <4>1, GapZero
      <4>3. QED BY <2>6, <4>2 DEF Unread, Gap
    <3>2. Contents'[x] = Content(x)' BY <2>6 DEF Contents
    <3>3. Content(x)' = <<>> BY <3>1 DEF Content
    <3>4. QED BY <3>2, <3>3
  <2>8. \A y \in Pages : y # x => Contents'[y] = Contents[y]
    BY <1>1, <2>1, ContentsSame DEF pipeinit, Bytes
  <2>9. Contents' = [Contents EXCEPT ![x] = <<>>] BY <2>7, <2>8, ContentsNext
  <2>10. Streams!Open(x) BY <1>2, <2>2, <2>4, <2>5, <2>9 DEF Streams!Open
  <2>11. QED BY <2>10 DEF Streams!Next
<1>5. QED BY <1>3, <1>4

(* fileclose() of the last file of an end closes that end.                    *)
LEMMA CloseSim ==
  ASSUME FilesInv, FilesInv', NEW q \in Procs, CloseInHand(q) \/ CloseOpen(q)
  PROVE  [Streams!Next]_streamVars
<1>1. FileTypes /\ Handling /\ OneEnd /\ OneEnd' BY DEF FilesInv
<1>2. PICK f \in FileIds, more \in BOOLEAN : fileclose(q, f, more) BY <1>1, ClosedFile
<1>3. UNCHANGED <<inuse, data, nread, nwrite, got>> BY <1>2 DEF fileclose, procVars, pipeVars
<1>4. CASE UNCHANGED <<type, writable, pipe>> BY <1>3, <1>4, StutterSim
<1>5. CASE ~ UNCHANGED <<type, writable, pipe>>
  <2>1. /\ type[f] = "pipe" /\ pipe[f] \in Pages /\ writable[f] \in BOOLEAN
        /\ \A g \in FileIds, y \in Pages, w \in BOOLEAN : IsEnd(g, y, w)' <=> IsEnd(g, y, w) /\ g # f
    BY <1>1, <1>2, <1>5, EndsClose
  <2>2. PICK x \in Pages, v \in BOOLEAN : x = pipe[f] /\ v = writable[f] BY <2>1
  <2>3. IsEnd(f, x, v) BY <2>1, <2>2 DEF IsEnd
  <2>4. \A y \in Pages, w \in BOOLEAN : IsEnd(f, y, w) => y = x /\ w = v BY <2>2 DEF IsEnd
  <2>5. \A g \in FileIds : IsEnd(g, x, v) => g = f BY <1>1, <2>3 DEF OneEnd
  <2>6. Held(TRUE) \subseteq Pages /\ Held(FALSE) \subseteq Pages BY <1>1, HeldPages
  <2>7. Held(v)' = Held(v) \ {x}
    <3>1. \A y \in Pages : (\E g \in FileIds : IsEnd(g, y, v)') <=> y \in Held(v) \ {x}
      BY <2>1, <2>4, <2>5, HeldIs
    <3>2. Held(v) \ {x} \subseteq Pages BY <2>6
    <3>3. QED BY <1>1, <3>1, <3>2, HeldNext
  <2>8. PICK u \in BOOLEAN : u = ~ v OBVIOUS
  <2>9. Held(u)' = Held(u)
    <3>1. \A y \in Pages : (\E g \in FileIds : IsEnd(g, y, u)') <=> y \in Held(u)
      BY <2>1, <2>4, <2>8, HeldIs
    <3>2. Held(u) \subseteq Pages BY <2>6
    <3>3. QED BY <1>1, <3>1, <3>2, HeldNext
  <2>10. x \in Held(v) BY <2>3, HeldIs
  <2>11. Contents' = Contents BY <1>3, ContentsFrame
  <2>12. Streams!Close(x)
    <3>1. CASE v = TRUE BY <1>3, <2>7, <2>8, <2>9, <2>10, <2>11, <3>1 DEF Streams!Close
    <3>2. CASE v = FALSE BY <1>3, <2>7, <2>8, <2>9, <2>10, <2>11, <3>2 DEF Streams!Close
    <3>3. QED BY <3>1, <3>2
  <2>13. QED BY <2>12 DEF Streams!Next
<1>6. QED BY <1>4, <1>5

(* pipeclose() of the second end frees the page.                              *)
LEMMA DiscardSim ==
  ASSUME FilesInv, FilesInv', NEW q \in Procs, ClosePipe(q)
  PROVE  [Streams!Next]_streamVars
<1>1. FileTypes /\ OpenRight' /\ Bytes /\ inuse \subseteq Pages
  BY PipeTypesSplit DEF FilesInv, PipeTypes
<1>2. PICK x \in Pages, v \in BOOLEAN :
        /\ \E l : pipeclose(q, x, v, l)
        /\ \A g \in FileIds, y \in Pages, w \in BOOLEAN : IsEnd(g, y, w)' <=> IsEnd(g, y, w)
  BY <1>1, EndsClosePipe
<1>3. UNCHANGED <<type, writable, pipe>> BY DEF ClosePipe
<1>4. UNCHANGED got BY <1>2 DEF pipeclose, procVars
<1>5. CASE UNCHANGED <<inuse, data, nread, nwrite>> BY <1>3, <1>4, <1>5, StutterSim
<1>6. CASE ~ UNCHANGED <<inuse, data, nread, nwrite>>
  <2>1. inuse' = inuse \ {x} /\ \A y \in Pages : y # x => /\ data'[y] = data[y]
                                                          /\ nread'[y] = nread[y]
                                                          /\ nwrite'[y] = nwrite[y]
    <3>1. /\ inuse' = inuse \ {x} /\ data' = [data EXCEPT ![x] = [i \in DOMAIN @ |-> None]]
          /\ nread' = [nread EXCEPT ![x] = 0] /\ nwrite' = [nwrite EXCEPT ![x] = 0]
      BY <1>2, <1>6 DEF pipeclose
    <3>2. QED BY <3>1
  <2>2. x \notin inuse' BY <2>1
  <2>3. \A w \in BOOLEAN : x \notin Held(w)
    <3>1. \A w \in BOOLEAN : ~ EndOpen(x, w)' BY <1>1, <2>2 DEF OpenRight
    <3>2. QED BY <1>2, <3>1, HeldIs, EndOpenIs
  <2>4. Contents'[x] = <<>> BY <2>2 DEF Contents
  <2>5. \A y \in Pages : y # x => Contents'[y] = Contents[y] BY <2>1, ContentsSame
  <2>6. Contents' = [Contents EXCEPT ![x] = <<>>] BY <2>4, <2>5, ContentsNext
  <2>7. UNCHANGED <<Held(TRUE), Held(FALSE)>> BY <1>3, HeldSame
  <2>8. Streams!Discard(x) BY <1>4, <2>3, <2>6, <2>7 DEF Streams!Discard
  <2>9. QED BY <2>8 DEF Streams!Next
<1>7. QED BY <1>5, <1>6

LEMMA DataStep ==
  ASSUME FilesInv, DataTypes, [Next]_vars PROVE DataTypes'
<1>1. Bytes /\ inuse \subseteq Pages BY PipeTypesSplit DEF FilesInv, PipeTypes
<1>2. CASE UNCHANGED data BY <1>2 DEF DataTypes
<1>3. ASSUME NEW p \in Procs, Quiet(p) PROVE DataTypes'
  <2>1. CASE WriteByte(p)
    <3>1. PICK x : x = pi[p] OBVIOUS
    <3>2. data' = [data EXCEPT ![x][nwrite[x] % PIPESIZE] = nwrite[x]] BY <2>1, <3>1 DEF WriteByte
    <3>3. CASE x \in Pages
      <4>1. nwrite[x] \in Byte BY <1>1, <3>3, PipeAssumption DEF Bytes, Byte
      <4>2. QED BY <3>2, <3>3, <4>1 DEF DataTypes
    <3>4. CASE x \notin Pages BY <3>2, <3>4 DEF DataTypes
    <3>5. QED BY <3>3, <3>4
  <2>2. CASE WriteCheck(p) \/ WriteSleep(p) \/ WriteFault(p)
    BY <1>2, <2>2 DEF WriteCheck, WriteSleep, WriteFault, pipeVars
  <2>3. CASE ReadCheck(p) \/ ReadSleep(p) \/ Kill(p)
    BY <1>2, <2>3 DEF ReadCheck, ReadSleep, Kill, pipeVars, procVars
  <2>4. ASSUME NEW k \in 0 .. left[p], NEW fault \in BOOLEAN, ReadBytes(p, k, fault) PROVE DataTypes'
    BY <1>2, <2>4 DEF ReadBytes
  <2>5. ASSUME NEW fd \in Fds, NEW l \in {"read", "write"}, NEW n \in Sizes[l], ReadWrite(p, fd, n, l)
        PROVE  DataTypes'
    BY <1>2, <2>5 DEF ReadWrite, pipeVars
  <2>6. CASE Return(p) \/ exit(p) BY <1>2, <2>6 DEF Return, exit, pipeVars
  <2>7. QED BY <1>3, <2>1, <2>2, <2>3, <2>4, <2>5, <2>6 DEF Quiet, Call
<1>4. ASSUME NEW p \in Procs, pipealloc(p) PROVE DataTypes'
  BY <1>2, <1>4 DEF pipealloc, pipeinit, pipeVars
<1>5. ASSUME NEW q \in Procs, ClosePipe(q) PROVE DataTypes'
  <2>1. FileTypes BY DEF FilesInv
  <2>2. PICK x \in Pages, v \in BOOLEAN : \E l : pipeclose(q, x, v, l) BY <1>5, <2>1, EndsClosePipe
  <2>3. UNCHANGED data \/ data' = [data EXCEPT ![x] = [i \in DOMAIN @ |-> None]]
    BY <2>2 DEF pipeclose
  <2>4. CASE data' = [data EXCEPT ![x] = [i \in DOMAIN @ |-> None]]
    BY <2>4 DEF DataTypes, Byte
  <2>5. QED BY <1>2, <2>3, <2>4
<1>6. ASSUME NEW p \in Procs, NEW fd \in Fds, sys_dup(p, fd) \/ sys_close(p, fd) PROVE DataTypes'
  BY <1>2, <1>6 DEF sys_dup, sys_close, pipeVars
<1>7. ASSUME NEW p \in Procs, filealloc(p) \/ PipeFds(p) PROVE DataTypes'
  BY <1>2, <1>7 DEF filealloc, PipeFds, pipeVars
<1>8. ASSUME NEW p \in Procs, NEW q \in Procs, fork(p, q) PROVE DataTypes'
  BY <1>2, <1>8 DEF fork, pipeVars
<1>9. ASSUME NEW p \in Procs, CloseInHand(p) \/ CloseOpen(p) PROVE DataTypes'
  BY <1>2, <1>9 DEF CloseInHand, CloseOpen, fileclose, pipeVars
<1>10. CASE UNCHANGED vars BY <1>2, <1>10 DEF vars, pipeVars
<1>11. CASE Next
  BY <1>3, <1>4, <1>5, <1>6, <1>7, <1>8, <1>9, <1>11, Actions
<1>12. QED BY <1>10, <1>11

LEMMA StreamInit == Init => DataTypes /\ Streams!Init
<1> SUFFICES ASSUME Init PROVE DataTypes /\ Streams!Init OBVIOUS
<1> USE DEF Init, PipeInit
<1>1. DataTypes BY DEF DataTypes, Byte
<1>2. Contents = [x \in Pages |-> <<>>] BY DEF Contents
<1>3. Held(TRUE) = {} /\ Held(FALSE) = {} BY DEF Held
<1>4. QED BY <1>1, <1>2, <1>3 DEF Streams!Init

LEMMA StreamStep ==
  ASSUME FilesInv, FilesInv', DataTypes, [Next]_vars PROVE [Streams!Next]_streamVars
<1>1. ASSUME UNCHANGED <<type, writable, pipe, pipeVars, got>> PROVE [Streams!Next]_streamVars
  BY <1>1, StutterSim DEF pipeVars
<1>2. ASSUME NEW p \in Procs, NEW fd \in Fds, sys_dup(p, fd) \/ sys_close(p, fd)
      PROVE  [Streams!Next]_streamVars
  BY <1>1, <1>2 DEF sys_dup, sys_close, procVars
<1>3. ASSUME NEW p \in Procs, filealloc(p) \/ PipeFds(p) PROVE [Streams!Next]_streamVars
  BY <1>1, <1>3 DEF filealloc, PipeFds, procVars
<1>4. ASSUME NEW p \in Procs, NEW q \in Procs, fork(p, q) PROVE [Streams!Next]_streamVars
  BY <1>1, <1>4 DEF fork, procVars
<1>5. CASE UNCHANGED vars BY <1>1, <1>5 DEF vars, fileVars, procVars
<1>6. CASE Next
  BY <1>2, <1>3, <1>4, <1>6, Actions, QuietSim, AllocSim, CloseSim, DiscardSim
<1>7. QED BY <1>5, <1>6

(* Files and Pipe implement ByteStreams: what readers of a pipe get is what   *)
(* writers have put, in order and nothing twice, wherever the ring wraps and  *)
(* whoever sleeps, is killed or closes meanwhile; and the end of the file is  *)
(* told of an empty pipe without writers only.                                *)
THEOREM StreamsImplemented == Spec => Implements
<1>1. Init => FilesInv /\ DataTypes /\ Streams!Init BY InvInit, StreamInit
<1>2. FilesInv /\ DataTypes /\ [Next]_vars => FilesInv' /\ DataTypes' /\ [Streams!Next]_streamVars
  BY InvStep, DataStep, StreamStep
<1>3. Spec => Streams!Init /\ [][Streams!Next]_streamVars BY <1>1, <1>2, PTL DEF Spec
<1>4. QED BY <1>3 DEF Implements, Streams!Spec, streamVars
=============================================================================
