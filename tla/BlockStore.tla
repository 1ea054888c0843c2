----------------------------- MODULE BlockStore -----------------------------
(***************************************************************************)
(* What the buffer cache promises to its callers (kernel/bio.c): a block   *)
(* is held by one process at a time, from bread() to brelse(), and its     *)
(* holder finds what the last one left in it.  No buffers, no disk.        *)
(***************************************************************************)
CONSTANTS Procs, Blocks, Data, None

VARIABLES content,  \* what is in each block
          holds     \* the block a process holds

vars == <<content, holds>>

Init == content \in [Blocks -> Data] /\ holds = [p \in Procs |-> None]

Take(p, n) ==
  /\ holds[p] = None /\ \A q \in Procs : holds[q] # n
  /\ holds' = [holds EXCEPT ![p] = n]
  /\ content' = content

Put(p, d) ==
  /\ holds[p] # None
  /\ content' = [content EXCEPT ![holds[p]] = d]
  /\ holds' = holds

Drop(p) ==
  /\ holds[p] # None
  /\ holds' = [holds EXCEPT ![p] = None]
  /\ content' = content

Next ==
  \E p \in Procs : Drop(p) \/ (\E n \in Blocks : Take(p, n)) \/ \E d \in Data : Put(p, d)

Spec == Init /\ [][Next]_vars
=============================================================================
