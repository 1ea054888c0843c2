-------------------------------- MODULE Kalloc --------------------------------
(***************************************************************************)
(* The free list of pages (lab2/kernel/kalloc.c): its links are the first  *)
(* words of the pages themselves, which their users write as they like.    *)
(***************************************************************************)
EXTENDS Integers, Sequences, FiniteSets

CONSTANTS MemCPUs, MemPages,
          Nil   \* no page, and no CPU

ASSUME PagesAssumption == IsFiniteSet(MemPages) /\ Nil \notin MemPages \cup MemCPUs

VARIABLES freelist, kmem_lock,  \* kmem
          word,                 \* the first word of a page: a page, Nil, or something else
          users,                \* ghost: of a page, who has got it and not given it back
          step, r               \* where a CPU is, with which page
kallocVars == <<freelist, kmem_lock, word, users, step, r>>

(* The free list is the pages of s, one linked to the next.                   *)
Lists     == UNION {[1 .. n -> MemPages] : n \in 0 .. Cardinality(MemPages)}
Nth(s, k) == IF k \in 1 .. Len(s) THEN s[k] ELSE Nil
Listed(s) == {s[k] : k \in 1 .. Len(s)}
ListIs(s) ==
  /\ freelist = Nth(s, 1) /\ \A k \in 1 .. Len(s) : word[s[k]] = Nth(s, k + 1)
  /\ \A j, k \in 1 .. Len(s) : s[j] = s[k] => j = k

(* kinit(), freerange(): hart 0 has freed them all, one after the other.      *)
KallocInit ==
  /\ word \in [MemPages -> MemPages \cup {Nil}] /\ freelist \in MemPages \cup {Nil}
  /\ \E s \in Lists : ListIs(s) /\ Listed(s) = MemPages
  /\ kmem_lock = Nil /\ users = [p \in MemPages |-> {}] /\ step = [c \in MemCPUs |-> "idle"]
  /\ r = [c \in MemCPUs |-> Nil]

NowAt(c, to) == step' = [step EXCEPT ![c] = to]

-----------------------------------------------------------------------------
(* The page is written over before it is in the list.                         *)
kfree(c, p) ==
  /\ step[c] = "idle" /\ c \in users[p] /\ users' = [users EXCEPT ![p] = @ \ {c}]
  /\ word' = [word EXCEPT ![p] = "ones"] /\ r' = [r EXCEPT ![c] = p] /\ NowAt(c, "free")
  /\ UNCHANGED <<freelist, kmem_lock>>
FreeLock(c) ==
  /\ step[c] = "free" /\ kmem_lock = Nil /\ kmem_lock' = c /\ NowAt(c, "link")
  /\ UNCHANGED <<freelist, word, users, r>>
Link(c) ==
  /\ step[c] = "link" /\ word' = [word EXCEPT ![r[c]] = freelist] /\ NowAt(c, "head")
  /\ UNCHANGED <<freelist, kmem_lock, users, r>>
PutFirst(c) ==
  /\ step[c] = "head" /\ freelist' = r[c] /\ NowAt(c, "freed") /\ UNCHANGED <<kmem_lock, word, users, r>>
Freed(c) ==
  /\ step[c] = "freed" /\ kmem_lock' = Nil /\ r' = [r EXCEPT ![c] = Nil] /\ NowAt(c, "idle")
  /\ UNCHANGED <<freelist, word, users>>

(* A bug in the next definition: the list is read without its lock.           *)
Unlocked(c) ==
  /\ step[c] = "idle" /\ r' = [r EXCEPT ![c] = freelist] /\ NowAt(c, "unlink")
  /\ UNCHANGED <<freelist, kmem_lock, word, users>>
kalloc(c) ==
  /\ step[c] = "idle" /\ kmem_lock = Nil /\ kmem_lock' = c /\ r' = [r EXCEPT ![c] = freelist]
  /\ NowAt(c, "unlink") /\ UNCHANGED <<freelist, word, users>>
Unlink(c) ==
  /\ step[c] = "unlink" /\ freelist' = (IF r[c] = Nil THEN Nil ELSE word[r[c]])
  /\ NowAt(c, "unlock") /\ UNCHANGED <<kmem_lock, word, users, r>>
Unlock(c) ==
  /\ step[c] = "unlock" /\ kmem_lock' = Nil /\ NowAt(c, IF r[c] = Nil THEN "idle" ELSE "got")
  /\ UNCHANGED <<freelist, word, users, r>>
Got(c) ==
  /\ step[c] = "got" /\ word' = [word EXCEPT ![r[c]] = "fives"]
  /\ users' = [users EXCEPT ![r[c]] = @ \cup {c}] /\ r' = [r EXCEPT ![c] = Nil] /\ NowAt(c, "idle")
  /\ UNCHANGED <<freelist, kmem_lock>>

(* A page that was got is its user's to write, with what looks like a page.   *)
Write(c, p) ==
  /\ step[c] = "idle" /\ c \in users[p] /\ \E x \in MemPages : word' = [word EXCEPT ![p] = x]
  /\ UNCHANGED <<freelist, kmem_lock, users, step, r>>

KallocNext == \E c \in MemCPUs :
  \/ FreeLock(c) \/ Link(c) \/ PutFirst(c) \/ Freed(c)
  \/ kalloc(c) \/ Unlink(c) \/ Unlock(c) \/ Got(c)
  \/ \E p \in MemPages : kfree(c, p) \/ Write(c, p)
KallocSpec == KallocInit /\ [][KallocNext]_kallocVars

-----------------------------------------------------------------------------
(* PROPERTY: the list ends, and when nobody holds its lock it has the pages,  *)
(* and only those, that nobody has got or is giving back; a page has one user *)
(* at most, and the list does not run through it (kalloc.c:55, 75).           *)
ListRight ==
  /\ \A p \in MemPages : Cardinality(users[p]) <= 1
  /\ \E s \in Lists : /\ ListIs(s) /\ \A p \in Listed(s) : users[p] = {}
                      /\ kmem_lock = Nil =>
                           Listed(s) = {p \in MemPages : users[p] = {} /\ \A c \in MemCPUs : r[c] # p}
=============================================================================
