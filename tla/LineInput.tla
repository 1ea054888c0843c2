----------------------------- MODULE LineInput -----------------------------
(***************************************************************************)
(* What a terminal promises: characters can be corrected until the line    *)
(* ends, then they are read once and in order, by reads that return one    *)
(* line at most; ^D ends a read early and is itself read as 0 bytes.       *)
(***************************************************************************)
EXTENDS Integers, Sequences

CONSTANTS Readers, Keys, Size

VARIABLES lines,  \* what can be read
          edit,   \* what can be corrected
          given   \* what the last read of each reader has got

Ends(c)  == c \in {"\n", "^D"}
Stored   == Keys \ {"\r"}
Last1(s) == s[Len(s)]

Init == lines = <<>> /\ edit = <<>> /\ given = [p \in Readers |-> <<>>]

Type(c) ==
  /\ Len(lines) + Len(edit) < Size
  /\ LET s == Append(edit, c) IN
       IF Ends(c) \/ Len(lines) + Len(s) = Size THEN lines' = lines \o s /\ edit' = <<>>
       ELSE edit' = s /\ lines' = lines
  /\ UNCHANGED given

Correct == /\ edit # <<>> /\ edit' \in {SubSeq(edit, 1, Len(edit) - 1), <<>>}
           /\ UNCHANGED <<lines, given>>

Give(p) ==
  /\ lines # <<>> /\ lines' = Tail(lines)
  /\ given[p] # <<>> => ~Ends(Last1(given[p]))
  /\ \/ Head(lines) # "^D" /\ given' = [given EXCEPT ![p] = Append(@, Head(lines))]
     \/ Head(lines) # "^D" /\ given' = given  \* lost: the reader's memory is bad
     \/ Head(lines) = "^D" /\ given[p] = <<>> /\ given' = [given EXCEPT ![p] = <<"^D">>]
  /\ UNCHANGED edit

Forget(p) == given' = [given EXCEPT ![p] = <<>>] /\ UNCHANGED <<lines, edit>>

Next == \/ \E c \in Stored : Type(c)
        \/ Correct \/ \E p \in Readers : Give(p) \/ Forget(p)
vars == <<lines, edit, given>>
Step == [Next]_vars
Spec == Init /\ [][Next]_vars
=============================================================================
