------------------------------ MODULE MCInodes ------------------------------
EXTENDS Inodes, TLC
CONSTANTS p1, p2, a, b
MCProcs == {p1, p2}
Alone == {p1}
MCNames == {a, b}
OneName == {a}
Shallow == {<<a>>, <<b>>, <<a, b>>}
Deep == {<<a>>, <<a, a>>}
Dots == {<<a>>, <<a, a>>, <<"..">>}
Everything == {"open", "create", "mkdir", "unlink", "link", "chdir"}
AllCalls == [p \in MCProcs |-> Everything]
TwoKinds == p1 :> {"open", "create", "link", "unlink"} @@ p2 :> {"mkdir", "unlink", "chdir"}
DirCalls == [p \in MCProcs |-> {"mkdir", "unlink", "chdir"}]
=============================================================================
