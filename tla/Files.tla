------------------------------- MODULE Files -------------------------------
(***************************************************************************)
(* The file table (kernel/file.c), the descriptors of the processes and    *)
(* the system calls on them (kernel/sysfile.c), for files that are pipes,  *)
(* and what fork() and exit() do to open files.  A critical section of     *)
(* ftable.lock is a step.                                                  *)
(***************************************************************************)
EXTENDS Pipe

CONSTANTS NFILE, NOFILE,
          FirstProc, \* the process that is there when the others are not born
          Parents,  \* bound: the processes whose programs call pipe(), dup() and fork()
          Clients   \* bound: the processes whose programs call read() and write()

FileIds == 1 .. NFILE
Fds     == 0 .. NOFILE - 1
Ends    == [pipe : Pages, writable : BOOLEAN]

ASSUME FilesAssumption ==
  /\ NFILE \in Nat /\ NOFILE \in Nat /\ FirstProc \in Procs
  /\ None \notin FileIds \cup Ends

VARIABLES ref, type, writable, pipe,  \* struct file
          ofile,                      \* p->ofile[]
          hand,                       \* the files only a call of p refers to, of sys_pipe()
                                      \* or sys_close()
          last                        \* ff, when it was the last reference

fileVars == <<ref, type, writable, pipe, ofile, hand, last>>
vars == <<at, procVars, pipeVars, lock, cut, fileVars>>

Init ==
  /\ PipeInit
  /\ at = [p \in Procs |-> IF p = FirstProc THEN "user" ELSE "unused"]
  /\ ref = [f \in FileIds |-> 0] /\ type = [f \in FileIds |-> "none"]
  /\ writable = [f \in FileIds |-> FALSE] /\ pipe = [f \in FileIds |-> None]
  /\ ofile = [p \in Procs |-> [fd \in Fds |-> None]]
  /\ hand = [p \in Procs |-> <<>>] /\ last = [p \in Procs |-> None]

Running(p)  == at[p] = "user" /\ ~killed[p] /\ got[p] = <<>>
Parent(p)   == Running(p) /\ p \in Parents
FirstOf(S) == CHOOSE i \in S : \A j \in S : i <= j
Empty(p)   == {fd \in Fds : ofile[p][fd] = None}
Open(p)    == Fds \ Empty(p)

-----------------------------------------------------------------------------
(* read() and write(): the checks of sys_read() and fileread() that fail      *)
(* change nothing; a call on a pipe goes on in module Pipe.                   *)
ReadWrite(p, fd, n, l) ==
  LET f == ofile[p][fd] IN
  /\ Running(p) /\ p \in Clients /\ f # None /\ writable[f] = (l = "write")
  /\ Goto(p, l)
  /\ pi' = [pi EXCEPT ![p] = pipe[f]] /\ left' = [left EXCEPT ![p] = n]
  /\ UNCHANGED <<killed, got, unsaid, pipeVars, lock, cut, fileVars>>

(* Back in user space: the program takes the result.                          *)
Return(p) ==
  /\ at[p] = "user" /\ got[p] # <<>>
  /\ got' = [got EXCEPT ![p] = <<>>]
  /\ UNCHANGED <<at, killed, pi, left, unsaid, pipeVars, lock, cut, fileVars>>

sys_dup(p, fd) ==
  /\ Parent(p) /\ ofile[p][fd] # None /\ Empty(p) # {}
  /\ ofile' = [ofile EXCEPT ![p][FirstOf(Empty(p))] = ofile[p][fd]]
  /\ ref' = [ref EXCEPT ![ofile[p][fd]] = @ + 1]
  /\ UNCHANGED <<at, procVars, pipeVars, lock, cut, type, writable, pipe, hand, last>>

(* The call of p has only fileclose() left to do, of the files fs in turn.    *)
Closing(p, fs) == /\ Goto(p, IF fs = <<>> THEN "user" ELSE "closing")
                  /\ hand' = [hand EXCEPT ![p] = fs]

sys_close(p, fd) ==
  /\ Running(p) /\ ofile[p][fd] # None
  /\ ofile' = [ofile EXCEPT ![p][fd] = None]
  /\ Closing(p, <<ofile[p][fd]>>)
  /\ UNCHANGED <<procVars, pipeVars, lock, cut, ref, type, writable, pipe, last>>

(* sys_pipe(): filealloc() twice, kalloc(), fdalloc() twice and copyout();    *)
(* what has been got is given back when one of them fails.                    *)
Unused == {f \in FileIds : ref[f] = 0}
filealloc(p) ==
  /\ Parent(p) \/ (at[p] = "pipe" /\ Len(hand[p]) = 1)
  /\ IF Unused = {} THEN Closing(p, hand[p]) /\ UNCHANGED ref
     ELSE LET f == FirstOf(Unused) IN
       /\ ref' = [ref EXCEPT ![f] = 1]
       /\ hand' = [hand EXCEPT ![p] = Append(@, f)]
       /\ Goto(p, "pipe")
  /\ UNCHANGED <<procVars, pipeVars, lock, cut, type, writable, pipe, ofile, last>>

pipealloc(p) ==
  LET r == hand[p][1]  w == hand[p][2] IN
  /\ at[p] = "pipe" /\ Len(hand[p]) = 2
  /\ \/ \E x \in Pages \ inuse :
          /\ pipeinit(x) /\ Goto(p, "fds") /\ UNCHANGED hand
          /\ type' = [type EXCEPT ![r] = "pipe", ![w] = "pipe"]
          /\ writable' = [writable EXCEPT ![r] = FALSE, ![w] = TRUE]
          /\ pipe' = [pipe EXCEPT ![r] = x, ![w] = x]
     \/ /\ Pages = inuse
        /\ Closing(p, hand[p])
        /\ UNCHANGED <<pipeVars, type, writable, pipe>>
  /\ UNCHANGED <<procVars, lock, cut, ref, ofile, last>>

(* Mutant: sys_pipe() gives back the first file only.                         *)
UndoFirst(p) == <<hand[p][1]>>

Undo(p) == hand[p]
PipeFds(p) ==
  LET fd0 == FirstOf(Empty(p))  fd1 == FirstOf(Empty(p) \ {fd0}) IN
  /\ at[p] = "fds"
  /\ \/ /\ Cardinality(Empty(p)) >= 2
        /\ ofile' = [ofile EXCEPT ![p][fd0] = hand[p][1], ![p][fd1] = hand[p][2]]
        /\ Closing(p, <<>>)
     \/ Closing(p, Undo(p)) /\ UNCHANGED ofile  \* no descriptors, or copyout() fails
  /\ UNCHANGED <<procVars, pipeVars, lock, cut, ref, type, writable, pipe, last>>

(* fork(): filedup() of every open file of the parent, whose own references   *)
(* keep them meanwhile.                                                       *)
Refs(fds, f) == Cardinality({fd \in Fds : fds[fd] = f})

DupAll(p) == [f \in FileIds |-> ref[f] + Refs(ofile[p], f)]
fork(p, q) ==
  /\ Parent(p) /\ at[q] = "unused"
  /\ ofile' = [ofile EXCEPT ![q] = ofile[p]]
  /\ ref' = DupAll(p)
  /\ Goto(q, "user")
  /\ UNCHANGED <<procVars, pipeVars, lock, cut, type, writable, pipe, hand, last>>

(* exit(), called or forced by usertrap() on a killed process.                *)
exit(p) ==
  /\ at[p] = "user" /\ got[p] = <<>>
  /\ killed' = [killed EXCEPT ![p] = FALSE]
  /\ Goto(p, IF Open(p) = {} THEN "unused" ELSE "exiting")
  /\ UNCHANGED <<pi, left, got, unsaid, pipeVars, lock, cut, fileVars>>

(* fileclose(f): the last reference copies the file and gives up ftable.lock  *)
(* before pipeclose().                                                        *)
Shut(f) == /\ type' = [type EXCEPT ![f] = "none"]  \* the other fields are not read again
           /\ pipe' = [pipe EXCEPT ![f] = None]
           /\ writable' = [writable EXCEPT ![f] = FALSE]
After(p, more) == IF more THEN at[p] ELSE IF at[p] = "exiting" THEN "unused" ELSE "user"
fileclose(p, f, more) ==
  /\ last[p] = None
  /\ ref' = [ref EXCEPT ![f] = @ - 1]
  /\ IF ref[f] = 1 /\ type[f] = "pipe"
     THEN /\ Shut(f) /\ UNCHANGED at
          /\ last' = [last EXCEPT ![p] = [pipe |-> pipe[f], writable |-> writable[f]]]
     ELSE Goto(p, After(p, more)) /\ UNCHANGED <<type, pipe, writable, last>>
  /\ UNCHANGED <<procVars, pipeVars, lock, cut>>

(* sys_close() and sys_pipe() close what is in their hands, exit() closes     *)
(* every open descriptor.                                                     *)
CloseInHand(p) ==
  /\ at[p] = "closing" /\ hand[p] # <<>>
  /\ hand' = [hand EXCEPT ![p] = Tail(@)] /\ UNCHANGED ofile
  /\ fileclose(p, hand[p][1], Len(hand[p]) > 1)

CloseOpen(p) ==
  LET fd == FirstOf(Open(p)) IN
  /\ at[p] = "exiting" /\ Open(p) # {}
  /\ ofile' = [ofile EXCEPT ![p][fd] = None] /\ UNCHANGED hand
  /\ fileclose(p, ofile[p][fd], Open(p) # {fd})

ClosePipe(p) ==
  /\ last[p] # None
  /\ pipeclose(p, last[p].pipe, last[p].writable,
               After(p, hand[p] # <<>> \/ (at[p] = "exiting" /\ Open(p) # {})))
  /\ last' = [last EXCEPT ![p] = None]
  /\ UNCHANGED <<ref, type, writable, pipe, ofile, hand>>

Next == \E p \in Procs :
  \/ (Call(p) \/ Kill(p)) /\ UNCHANGED fileVars
  \/ \E fd \in Fds : \/ sys_dup(p, fd) \/ sys_close(p, fd)
                     \/ \E l \in {"read", "write"} : \E n \in Sizes[l] : ReadWrite(p, fd, n, l)
  \/ Return(p) \/ filealloc(p) \/ pipealloc(p) \/ PipeFds(p)
  \/ exit(p) \/ CloseInHand(p) \/ CloseOpen(p) \/ ClosePipe(p) \/ \E q \in Procs : fork(p, q)

Spec == Init /\ [][Next]_vars

-----------------------------------------------------------------------------
(* Who refers to a file: the descriptors, and the calls that have it in hand. *)
OfCall      == -1
InHand(p)  == {hand[p][i] : i \in DOMAIN hand[p]}
Holders(f) == {h \in Procs \X (Fds \cup {OfCall}) :
                 IF h[2] = OfCall THEN f \in InHand(h[1]) ELSE ofile[h[1]][h[2]] = f}
TypeOK ==
  /\ ref \in [FileIds -> Nat] /\ type \in [FileIds -> {"none", "pipe"}]
  /\ inuse \subseteq Pages /\ \A x \in Pages : Unread(x) \in 0 .. PIPESIZE
  /\ ofile \in [Procs -> [Fds -> FileIds \cup {None}]]

(* A file has exactly the references that descriptors, calls in progress and  *)
(* fileclose()s to come hold; so no file is closed early, none leaks, and     *)
(* filedup() and fileclose() never panic.                                     *)
RefsExact ==
  /\ \A f \in FileIds : ref[f] = Cardinality(Holders(f))
  /\ \A p \in Procs : Cardinality(InHand(p)) = Len(hand[p])

(* The page of a pipe is freed once, after its last use: as long as a file, a *)
(* call, a sleeper or a pipeclose() to come refers to it, it is not given to  *)
(* anybody else; and it is freed: an end is open exactly as long as a file or *)
(* a pipeclose() to come stands for it.                                       *)
EndOpen(x, w) == \/ \E f \in FileIds : type[f] = "pipe" /\ pipe[f] = x /\ writable[f] = w
                 \/ \E p \in Procs : last[p] # None /\ last[p] = [pipe |-> x, writable |-> w]
PagesExact == \A x \in Pages :
  /\ x \in inuse => /\ readopen[x] <=> EndOpen(x, FALSE)
                    /\ writeopen[x] <=> EndOpen(x, TRUE)
  /\ x \in inuse <=> EndOpen(x, TRUE) \/ EndOpen(x, FALSE)
  /\ (lock[x] # None \/ \E p \in Procs : pi[p] = x /\ at[p] # "user") => x \in inuse
CountsExact == TypeOK /\ RefsExact /\ PagesExact

Held(w) == {pipe[f] : f \in {g \in FileIds : type[g] = "pipe" /\ writable[g] = w}}
Contents == [x \in Pages |-> IF x \in inuse THEN Content(x) ELSE <<>>]
Streams == INSTANCE ByteStreams WITH Limit <- PIPESIZE, Bytes <- 0 .. UintMod - 1,
             content <- Contents,
             writers <- Held(TRUE), readers <- Held(FALSE)
Implements == Streams!Spec
=============================================================================
