----------------------------- MODULE MCSemaphore -----------------------------
EXTENDS Semaphore, TLC
CONSTANTS c1, c2
MCCPUs == {c1, c2}
Req(op, s, v) == [op |-> op, sem |-> s, val |-> v]
UpDown == {Req("open", 0, 0), Req("up", 0, 0), Req("down", 0, 0)}
Live == UpDown \cup {Req("open", 1, 0), Req("close", 1, 0)}
All == UpDown \cup {Req("open", 0, 1), Req("close", 0, 0)}
Anywhere == {"user", "ret", "exit"}
AtUser == {"user"}
UserOrExit == {"user", "exit"}
CPUSymmetry == Permutations(MCCPUs)
MCVictims == {1}
=============================================================================
