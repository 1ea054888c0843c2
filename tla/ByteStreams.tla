---------------------------- MODULE ByteStreams ----------------------------
(***************************************************************************)
(* What pipes promise: each is a queue of bytes of limited length that     *)
(* readers take from the front and writers extend at the back, nothing     *)
(* twice and nothing out of order; who is told that the end is reached     *)
(* finds the queue empty and the last writer gone.                         *)
(***************************************************************************)
EXTENDS Integers, Sequences

CONSTANTS Procs, Pages, Bytes, Limit

VARIABLES content,  \* the bytes in each pipe
          writers,  \* the pipes some open file can write to
          readers,  \* the pipes some open file can read from
          got       \* what the last read() of a process returned

Init == /\ content = [x \in Pages |-> <<>>] /\ writers = {} /\ readers = {}
        /\ got = [p \in Procs |-> <<>>]

Open(x) == /\ x \notin writers \cup readers
           /\ writers' = writers \cup {x} /\ readers' = readers \cup {x}
           /\ content' = [content EXCEPT ![x] = <<>>] /\ UNCHANGED got

Close(x) == /\ x \in writers \cup readers
            /\ \/ writers' = writers \ {x} /\ readers' = readers
               \/ readers' = readers \ {x} /\ writers' = writers
            /\ UNCHANGED <<content, got>>

Discard(x) == /\ x \notin writers \cup readers
              /\ content' = [content EXCEPT ![x] = <<>>]
              /\ UNCHANGED <<writers, readers, got>>

Append1(x, c) == /\ x \in writers /\ Len(content[x]) < Limit
                 /\ content' = [content EXCEPT ![x] = Append(@, c)]
                 /\ UNCHANGED <<writers, readers, got>>

Take(p, x, k, lost) ==
  /\ x \in readers /\ content[x] # <<>> /\ k + lost <= Len(content[x])
  /\ got' = [got EXCEPT ![p] = SubSeq(content[x], 1, k)]
  /\ content' = [content EXCEPT ![x] = SubSeq(@, k + lost + 1, Len(@))]
  /\ UNCHANGED <<writers, readers>>

Eof(p, x) == /\ x \in readers \ writers /\ content[x] = <<>>
             /\ got' = [got EXCEPT ![p] = <<-1>>]
             /\ UNCHANGED <<content, writers, readers>>

Forget(p) == got' = [got EXCEPT ![p] = <<>>] /\ UNCHANGED <<content, writers, readers>>

Next == \/ \E p \in Procs : Forget(p)
        \/ \E x \in Pages : Open(x) \/ Close(x) \/ Discard(x) \/ \E c \in Bytes : Append1(x, c)
        \/ \E p \in Procs, x \in Pages :
             Eof(p, x) \/ \E k \in 0 .. Limit, lost \in 0 .. 1 : Take(p, x, k, lost)

Spec == Init /\ [][Next]_<<content, writers, readers, got>>
=============================================================================
