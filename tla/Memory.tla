------------------------------- MODULE Memory -------------------------------
(***************************************************************************)
(* The pages of processes: kalloc() and kfree() (kernel/kalloc.c), page    *)
(* tables (kernel/vm.c), and the calls that make, copy, grow and free      *)
(* address spaces, fork(), exec(), sbrk(), exit() and wait(): any kalloc() *)
(* of theirs may fail, with what was done before to be undone.  A step is  *)
(* one kalloc(), or one function that frees.  A page is known by what      *)
(* points to it, so the free list is its length.                           *)
(***************************************************************************)
EXTENDS Integers, FiniteSets
LOCAL INSTANCE FiniteSetsExt

CONSTANTS NPROC, NPAGES,
          PGSIZE,         \* in units of memory
          LEVELS, FAN,    \* of a page table: 3 and 512 in the code
          MAXVA,          \* in pages
          Grow, Shrink,   \* bound: the n of sbrk(), and -n
          Segment         \* bound: the memory of a program, in units

Procs == 1 .. NPROC
InitProc   == 1
TRAMPOLINE == MAXVA - 1
TRAPFRAME  == MAXVA - 2
Spaces == Procs \X {"pagetable", "new"}   \* "new": of an exec(), or replaced by it

VARIABLES free, state,
          frame,          \* the processes with a p->trapframe
          tables,         \* of a space: the page-table pages, by level and index
          mapped,         \* of a space: the leaves, by virtual page
          sz,             \* p->sz, in units
          pc, call, np,   \* what a process is doing, in which call, for which slot
          va, oldsz, newsz, mem   \* locals of uvmalloc() and uvmcopy()

memVars == <<free, state, frame, tables, mapped, sz, pc, call, np, va, oldsz, newsz, mem>>
locals  == <<va, oldsz, newsz, mem>>

Set(f, p, v) == [f EXCEPT ![p] = v]
Goto(p, l)   == pc' = Set(pc, p, l)
Pages(n)     == (n + PGSIZE - 1) \div PGSIZE
Space(p)     == <<np[p], IF call[p] = "exec" THEN "new" ELSE "pagetable">>

Root     == <<LEVELS, 0>>
Nodes(v) == {<<l, v \div FAN ^ l>> : l \in 1 .. LEVELS - 1}
Full     == {TRAMPOLINE, TRAPFRAME, 0}
FirstSpace == {Root} \cup UNION {Nodes(v) : v \in Full}

(* userinit(): the first process has one page.                                *)
Init ==
  /\ free = NPAGES - 2 - Cardinality(FirstSpace)
  /\ state = [p \in Procs |-> IF p = InitProc THEN "alive" ELSE "UNUSED"]
  /\ frame = {InitProc}
  /\ tables = [s \in Spaces |-> IF s = <<InitProc, "pagetable">> THEN FirstSpace ELSE {}]
  /\ mapped = [s \in Spaces |-> IF s = <<InitProc, "pagetable">> THEN Full ELSE {}]
  /\ sz = [p \in Procs |-> IF p = InitProc THEN PGSIZE ELSE 0]
  /\ pc = [p \in Procs |-> "user"] /\ call = [p \in Procs |-> "none"] /\ np = [p \in Procs |-> p]
  /\ va = [p \in Procs |-> 0] /\ oldsz = [p \in Procs |-> 0] /\ newsz = [p \in Procs |-> 0]
  /\ mem = [p \in Procs |-> 0]

Begin(p, c, q, l) == pc[p] = "user" /\ Goto(p, l) /\ call' = Set(call, p, c) /\ np' = Set(np, p, q)
Loop(p, from, to) == /\ va' = Set(va, p, Pages(from))
                     /\ oldsz' = Set(oldsz, p, Pages(from) * PGSIZE) /\ newsz' = Set(newsz, p, to)
Return(p) == /\ Goto(p, "user") /\ call' = Set(call, p, "none") /\ np' = Set(np, p, p)
             /\ va' = Set(va, p, 0) /\ oldsz' = Set(oldsz, p, 0) /\ newsz' = Set(newsz, p, 0)
             /\ mem' = Set(mem, p, 0)

-----------------------------------------------------------------------------
(* The system calls begin.                                                    *)
Fork(p) ==
  /\ state[p] = "alive" /\ sz[p] > 0
  /\ \E q \in Procs : state[q] = "UNUSED" /\ Begin(p, "fork", q, "trapframe") /\ state' = Set(state, q, "USED")
  /\ Loop(p, 0, sz[p])
  /\ UNCHANGED <<free, frame, tables, mapped, sz, mem>>

Exec(p, memsz) ==
  /\ state[p] = "alive" /\ sz[p] > 0
  /\ Begin(p, "exec", p, "uvmcreate") /\ Loop(p, 0, memsz)
  /\ UNCHANGED <<free, state, frame, tables, mapped, sz, mem>>

SbrkUp(p, n) ==
  /\ state[p] = "alive" /\ sz[p] > 0 /\ Pages(sz[p] + n) <= TRAPFRAME
  /\ Begin(p, "sbrk", p, "kalloc") /\ Loop(p, sz[p], sz[p] + n)
  /\ UNCHANGED <<free, state, frame, tables, mapped, sz, mem>>

(* Programs give back what they have: below 0, sz - n wraps and uvmdealloc()  *)
(* does nothing.                                                              *)
Dropped(p, n) == Pages(sz[p] - n) .. Pages(sz[p]) - 1

SbrkDown(p, n) ==
  /\ pc[p] = "user" /\ state[p] = "alive" /\ n <= sz[p]
  /\ LET s == <<p, "pagetable">>  gone == Dropped(p, n) IN
     /\ mapped' = [mapped EXCEPT ![s] = @ \ gone] /\ free' = free + Cardinality(gone)
  /\ sz' = [sz EXCEPT ![p] = @ - n]
  /\ UNCHANGED <<state, frame, tables, pc, call, np, locals>>

Exit(p) ==
  /\ pc[p] = "user" /\ state[p] = "alive" /\ state' = Set(state, p, "ZOMBIE")
  /\ UNCHANGED <<free, frame, tables, mapped, sz, pc, call, np, locals>>

(* wait() finds a zombie and calls freeproc().                                *)
Wait(p) ==
  /\ state[p] = "alive"
  /\ \E q \in Procs : state[q] = "ZOMBIE" /\ Begin(p, "wait", q, "freeproc") /\ state' = Set(state, q, "USED")
  /\ UNCHANGED <<free, frame, tables, mapped, sz, locals>>

-----------------------------------------------------------------------------
(* allocproc(): the trapframe page, or freeproc().                            *)
AllocFrame(p) ==
  /\ pc[p] = "trapframe"
  /\ \/ free > 0 /\ free' = free - 1 /\ frame' = frame \cup {np[p]} /\ Goto(p, "uvmcreate")
     \/ free = 0 /\ Goto(p, "freeproc") /\ UNCHANGED <<free, frame>>
  /\ UNCHANGED <<state, tables, mapped, sz, call, np, locals>>

(* proc_pagetable() begins with uvmcreate().                                  *)
Create(p) ==
  /\ pc[p] = "uvmcreate"
  /\ \/ /\ free > 0 /\ free' = free - 1
        /\ tables' = [tables EXCEPT ![Space(p)] = {Root}] /\ Goto(p, "trampoline")
        /\ UNCHANGED <<call, np, locals>>
     \/ /\ free = 0 /\ call[p] = "fork" /\ Goto(p, "freeproc")
        /\ UNCHANGED <<free, tables, call, np, locals>>
     \/ free = 0 /\ call[p] = "exec" /\ Return(p) /\ UNCHANGED <<free, tables>>
  /\ UNCHANGED <<state, frame, mapped, sz>>

(* mappages() of one page, with walk() making the tables that lack.           *)
Target(p)  == IF pc[p] = "trampoline" THEN TRAMPOLINE
              ELSE IF pc[p] = "tf" THEN TRAPFRAME ELSE va[p]
Mapping(p) == pc[p] \in {"trampoline", "tf", "mappages"}
Lack(p)    == Nodes(Target(p)) \ tables[Space(p)]

Walk(p) ==
  /\ Mapping(p) /\ free > 0 /\ free' = free - 1
  /\ \E t \in Lack(p) : /\ \A u \in Lack(p) : u[1] <= t[1]
                        /\ tables' = [tables EXCEPT ![Space(p)] = @ \cup {t}]
  /\ UNCHANGED <<state, frame, mapped, sz, pc, call, np, locals>>

Map(p) ==
  /\ Mapping(p) /\ Lack(p) = {}
  /\ mapped' = [mapped EXCEPT ![Space(p)] = @ \cup {Target(p)}]
  /\ Goto(p, IF pc[p] = "trampoline" THEN "tf" ELSE "kalloc")
  /\ IF pc[p] = "mappages" THEN va' = [va EXCEPT ![p] = @ + 1] /\ mem' = Set(mem, p, 0)
     ELSE UNCHANGED <<va, mem>>
  /\ UNCHANGED <<free, state, frame, tables, sz, call, np, oldsz, newsz>>

kfreeMem(p) == free' = free + mem[p]
NoTable(p) ==
  /\ Mapping(p) /\ Lack(p) # {} /\ free = 0
  /\ kfreeMem(p) /\ mem' = Set(mem, p, 0)
  /\ mapped' = IF pc[p] = "tf" THEN [mapped EXCEPT ![Space(p)] = @ \ {TRAMPOLINE}] ELSE mapped
  /\ Goto(p, IF pc[p] = "mappages" THEN "undo" ELSE "freewalk")
  /\ UNCHANGED <<state, frame, tables, sz, call, np, va, oldsz, newsz>>

(* The loops of uvmalloc() and uvmcopy().                                     *)
Kalloc(p) ==
  /\ pc[p] = "kalloc" /\ va[p] * PGSIZE < newsz[p]
  /\ \/ free > 0 /\ free' = free - 1 /\ mem' = Set(mem, p, 1) /\ Goto(p, "mappages")
     \/ free = 0 /\ Goto(p, "undo") /\ UNCHANGED <<free, mem>>
  /\ UNCHANGED <<state, frame, tables, mapped, sz, call, np, va, oldsz, newsz>>

(* uvmdealloc(a, oldsz), or uvmunmap() at err in uvmcopy().                   *)
Made(p) == oldsz[p] \div PGSIZE .. va[p] - 1

(* Mutant: all from address 0 on, what sbrk() found there included.           *)
FromZero(p) == 0 .. va[p] - 1

Undo(p) ==
  /\ pc[p] = "undo"
  /\ mapped' = [mapped EXCEPT ![Space(p)] = @ \ Made(p)] /\ free' = free + Cardinality(Made(p))
  /\ IF call[p] = "sbrk" THEN Return(p)
     ELSE Goto(p, IF call[p] = "fork" THEN "freeproc" ELSE "unmap") /\ UNCHANGED <<call, np, locals>>
  /\ UNCHANGED <<state, frame, tables, sz>>

-----------------------------------------------------------------------------
(* The loops end.                                                             *)
Over(p, c) == pc[p] = "kalloc" /\ call[p] = c /\ va[p] * PGSIZE >= newsz[p]

Grown(p) == /\ Over(p, "sbrk") /\ sz' = Set(sz, p, newsz[p]) /\ Return(p)
            /\ UNCHANGED <<free, state, frame, tables, mapped>>

Forked(p) == /\ Over(p, "fork") /\ sz' = Set(sz, np[p], newsz[p])
             /\ state' = Set(state, np[p], "alive") /\ Return(p)
             /\ UNCHANGED <<free, frame, tables, mapped>>

(* exec(): the program is loaded, then come the guard page and the stack.     *)
Stack(p) == /\ Over(p, "exec") /\ oldsz[p] = 0
            /\ Loop(p, newsz[p], Pages(newsz[p]) * PGSIZE + 2 * PGSIZE)
            /\ UNCHANGED <<free, state, frame, tables, mapped, sz, pc, call, np, mem>>

(* goto bad: of the file, or the arguments do not fit.                        *)
Bad(p) == /\ Over(p, "exec") /\ Goto(p, "unmap") /\ oldsz' = Set(oldsz, p, newsz[p])
          /\ UNCHANGED <<free, state, frame, tables, mapped, sz, call, np, va, newsz, mem>>

OldSize(p) == sz[p]
Commit(p) ==
  LET s == <<p, "pagetable">>  t == <<p, "new">> IN
  /\ Over(p, "exec") /\ oldsz[p] # 0
  /\ tables' = [tables EXCEPT ![s] = tables[t], ![t] = tables[s]]
  /\ mapped' = [mapped EXCEPT ![s] = mapped[t], ![t] = mapped[s]]
  /\ sz' = Set(sz, p, newsz[p]) /\ oldsz' = Set(oldsz, p, OldSize(p)) /\ Goto(p, "unmap")
  /\ UNCHANGED <<free, state, frame, call, np, va, newsz, mem>>

(* freeproc(): the trapframe, then what there is of a page table.             *)
Release(p) == state' = Set(state, np[p], "UNUSED") /\ sz' = Set(sz, np[p], 0) /\ Return(p)
FreeProc(p) ==
  /\ pc[p] = "freeproc"
  /\ free' = free + Cardinality(frame \cap {np[p]}) /\ frame' = frame \ {np[p]}
  /\ IF tables[Space(p)] # {} THEN Goto(p, "unmap") /\ UNCHANGED <<state, sz, call, np, locals>>
     ELSE Release(p)
  /\ UNCHANGED <<tables, mapped>>

(* proc_freepagetable(): both special pages, and those of the process.        *)
Rest(p) == 0 .. Pages(IF call[p] = "exec" THEN oldsz[p] ELSE sz[np[p]]) - 1
Unmap(p) ==
  /\ pc[p] = "unmap"
  /\ mapped' = [mapped EXCEPT ![Space(p)] = @ \ (Rest(p) \cup {TRAMPOLINE, TRAPFRAME})]
  /\ free' = free + Cardinality(Rest(p)) /\ Goto(p, "freewalk")
  /\ UNCHANGED <<state, frame, tables, sz, call, np, locals>>

FreeWalk(p) ==
  /\ pc[p] = "freewalk"
  /\ free' = free + Cardinality(tables[Space(p)]) /\ tables' = [tables EXCEPT ![Space(p)] = {}]
  /\ \/ call[p] = "exec" /\ Return(p) /\ UNCHANGED <<state, sz>>
     \/ /\ call[p] # "exec" /\ np[p] \in frame /\ Goto(p, "freeproc")
        /\ UNCHANGED <<state, sz, call, np, locals>>
     \/ call[p] # "exec" /\ np[p] \notin frame /\ Release(p)
  /\ UNCHANGED <<frame, mapped>>

Next == \E p \in Procs :
  \/ Fork(p) \/ Wait(p)
  \/ p # InitProc /\ \/ \E n \in Segment : Exec(p, n)
                     \/ \E n \in Grow : SbrkUp(p, n)
                     \/ \E n \in Shrink : SbrkDown(p, n)
                     \/ Exit(p)
  \/ AllocFrame(p) \/ Create(p) \/ Walk(p) \/ Map(p) \/ NoTable(p) \/ Kalloc(p) \/ Undo(p)
  \/ Grown(p) \/ Forked(p) \/ Stack(p) \/ Bad(p) \/ Commit(p)
  \/ FreeProc(p) \/ Unmap(p) \/ FreeWalk(p)

-----------------------------------------------------------------------------
(* Every page is free or pointed to, once: whatever kalloc() failed, nothing  *)
(* is lost, freed twice, or still in use when free.                           *)
Held(s) == Cardinality(tables[s]) + Cardinality(mapped[s] \ {TRAMPOLINE, TRAPFRAME})
InHand(p) == mem[p]
PagesAccounted ==
  free + Cardinality(frame) + MapThenSumSet(Held, Spaces) + MapThenSumSet(InHand, Procs) = NPAGES

(* The panics of mappages(), uvmunmap() and freewalk() are out of reach:      *)
(* "remap", "walk" or "not mapped", and "leaf".                               *)
Wanted(p) == IF pc[p] = "unmap" THEN Rest(p) \cup {TRAMPOLINE, TRAPFRAME}
             ELSE IF pc[p] = "undo" THEN Made(p) ELSE {}
NoPanic == \A p \in Procs :
  /\ Mapping(p) => Target(p) \notin mapped[Space(p)]
  /\ Wanted(p) \subseteq mapped[Space(p)]
  /\ \A v \in Wanted(p) : Nodes(v) \subseteq tables[Space(p)]
  /\ pc[p] = "freewalk" => mapped[Space(p)] = {}

(* A process out of a call has the memory its size says, down to the page in  *)
(* part used, and its trapframe: a call that failed half way changed nothing. *)
SizeIsMapped == \A p \in Procs : state[p] = "alive" /\ pc[p] = "user" =>
  /\ mapped[<<p, "pagetable">>] = 0 .. Pages(sz[p]) - 1 \cup {TRAMPOLINE, TRAPFRAME}
  /\ p \in frame /\ tables[<<p, "new">>] = {} /\ mapped[<<p, "new">>] = {}
=============================================================================
