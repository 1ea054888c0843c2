------------------------------ MODULE PingPong ------------------------------
(***************************************************************************)
(* The program user/pingpong.c: a father and a child that print ping and   *)
(* pong in turn, each waiting on its own semaphore.  Several games run at  *)
(* once and find their semaphores in the one array of the kernel, whose    *)
(* system calls are those of CountingSemaphores: what sem_syscall.c        *)
(* implements for programs that, like this one, close a semaphore only     *)
(* when nobody is left to use it.                                          *)
(***************************************************************************)
EXTENDS Integers

CONSTANTS Games,    \* the running instances of pingpong
          MAX_SEM,  \* entries of semaphore_array
          Rounds    \* the argument n > 0 of every game

ASSUME PingPongAssumption == MAX_SEM \in Nat \ {0} /\ Rounds \in Nat \ {0}

Father(g) == <<g, "father">>
Child(g)  == <<g, "child">>
Players   == Games \X {"father", "child"}

NoSem == -1   \* get_empty_sem() found none

Call(op, s) == [op |-> op, sem |-> s, val |-> 0]

VARIABLES value, call, ret,  \* the kernel's semaphores: CountingSemaphores
          at,                \* the statement each process is at
          next,              \* res in get_empty_sem()
          father_sem, child_sem,
          round,             \* i of the process's for loop
          pings, pongs       \* lines printed

kernelVars == <<value, call, ret>>
gameVars   == <<next, father_sem, child_sem, round, pings, pongs>>
pingpongVars == <<value, call, ret, at, next, father_sem, child_sem, round, pings, pongs>>

Kernel == INSTANCE CountingSemaphores
            WITH Procs <- Players, Sems <- 0 .. MAX_SEM - 1,
                 Requests <- [op : {"open", "close", "up", "down"},
                              sem : 0 .. MAX_SEM - 1, val : {0}]

GameInit ==
  /\ Kernel!Init
  /\ at = [p \in Players |-> IF p[2] = "father" THEN "open_father" ELSE "unborn"]
  /\ next = [g \in Games |-> 0]
  /\ father_sem = [g \in Games |-> NoSem] /\ child_sem = [g \in Games |-> NoSem]
  /\ round = [p \in Players |-> 0]
  /\ pings = [g \in Games |-> 0] /\ pongs = [g \in Games |-> 0]

Goto(p, l) == at' = [at EXCEPT ![p] = l]

-----------------------------------------------------------------------------
(* A system call is requested at one statement, takes effect in the kernel,  *)
(* and the program goes on with its result.                                  *)
Request(p, k) == Kernel!Invoke(p, k) /\ UNCHANGED at /\ UNCHANGED gameVars
Result(p, r)  == Kernel!Return(p) /\ ret[p] = r

(* get_empty_sem(0), called for the father's semaphore, then for the child's. *)
TryOpen(g) ==
  /\ at[Father(g)] \in {"open_father", "open_child"}
  /\ Request(Father(g), Call("open", next[g]))

Opened(g) ==
  LET p == Father(g) IN
  /\ at[p] \in {"open_father", "open_child"}
  /\ Result(p, Kernel!Done)
  /\ IF at[p] = "open_father"
     THEN father_sem' = [father_sem EXCEPT ![g] = next[g]] /\ child_sem' = child_sem
     ELSE child_sem' = [child_sem EXCEPT ![g] = next[g]] /\ father_sem' = father_sem
  /\ Goto(p, IF at[p] = "open_father" THEN "open_child" ELSE "fork")
  /\ next' = [next EXCEPT ![g] = 0]
  /\ UNCHANGED <<round, pings, pongs>>

(* Mutant: the result of the last sem_open() is not looked at.               *)
TakenUnchecked(g) ==
  LET p == Father(g)  last == next[g] + 1 = MAX_SEM IN
  /\ at[p] \in {"open_father", "open_child"}
  /\ Result(p, Kernel!Failed)
  /\ next' = [next EXCEPT ![g] = IF last THEN 0 ELSE @ + 1]
  /\ father_sem' = IF last /\ at[p] = "open_father"
                   THEN [father_sem EXCEPT ![g] = next[g]] ELSE father_sem
  /\ child_sem'  = IF last /\ at[p] = "open_child"
                   THEN [child_sem EXCEPT ![g] = next[g]] ELSE child_sem
  /\ Goto(p, IF ~last THEN at[p] ELSE IF at[p] = "open_father" THEN "open_child" ELSE "fork")
  /\ UNCHANGED <<round, pings, pongs>>

(* In use: the next one, or exit(1) after the last one.                      *)
Taken(g) ==
  LET p == Father(g) IN
  /\ at[p] \in {"open_father", "open_child"}
  /\ Result(p, Kernel!Failed)
  /\ next' = [next EXCEPT ![g] = @ + 1]
  /\ Goto(p, IF next[g] + 1 < MAX_SEM THEN at[p] ELSE "failed")
  /\ UNCHANGED <<father_sem, child_sem, round, pings, pongs>>

Fork(g) ==
  /\ at[Father(g)] = "fork"
  /\ at' = [at EXCEPT ![Father(g)] = "ping", ![Child(g)] = "down"]
  /\ UNCHANGED kernelVars /\ UNCHANGED gameVars

(* fork() returned -1: exit(1), the semaphores stay open.                    *)
ForkFails(g) ==
  /\ at[Father(g)] = "fork"
  /\ Goto(Father(g), "failed")
  /\ UNCHANGED kernelVars /\ UNCHANGED gameVars

-----------------------------------------------------------------------------
(* The two loops.  Each process ups the other's semaphore and downs its own. *)
Ping(g) ==
  /\ at[Father(g)] = "ping"
  /\ pings' = [pings EXCEPT ![g] = @ + 1]
  /\ Goto(Father(g), "up")
  /\ UNCHANGED <<next, father_sem, child_sem, round, pongs>> /\ UNCHANGED kernelVars

Pong(g) ==
  /\ at[Child(g)] = "pong"
  /\ pongs' = [pongs EXCEPT ![g] = @ + 1]
  /\ Goto(Child(g), "up")
  /\ UNCHANGED <<next, father_sem, child_sem, round, pings>> /\ UNCHANGED kernelVars

Mine(p)   == IF p[2] = "father" THEN father_sem[p[1]] ELSE child_sem[p[1]]
Theirs(p) == IF p[2] = "father" THEN child_sem[p[1]] ELSE father_sem[p[1]]

Up(p)   == at[p] = "up"   /\ Request(p, Call("up", Theirs(p)))
Down(p) == at[p] = "down" /\ Request(p, Call("down", Mine(p)))

(* The end of a loop body: the next round starts at l.                       *)
NextRound(p, l) ==
  /\ round' = [round EXCEPT ![p] = @ + 1]
  /\ Goto(p, IF round[p] + 1 < Rounds THEN l
             ELSE IF p[2] = "father" THEN "wait" ELSE "done")
  /\ UNCHANGED <<next, father_sem, child_sem, pings, pongs>>

(* The results of the calls are not looked at.                               *)
UpReturns(p) ==
  /\ at[p] = "up" /\ Kernel!Return(p)
  /\ \/ p[2] = "father" /\ Goto(p, "down") /\ UNCHANGED gameVars
     \/ p[2] = "child" /\ NextRound(p, "down")

DownReturns(p) ==
  /\ at[p] = "down" /\ Kernel!Return(p)
  /\ \/ p[2] = "father" /\ NextRound(p, "ping")
     \/ p[2] = "child" /\ Goto(p, "pong") /\ UNCHANGED gameVars

(* wait(0) returns when the child has exited; then both semaphores close.    *)
Wait(g) ==
  /\ at[Father(g)] = "wait" /\ at[Child(g)] = "done"
  /\ Goto(Father(g), "close_child")
  /\ UNCHANGED kernelVars /\ UNCHANGED gameVars

Close(g) ==
  \/ at[Father(g)] = "close_child"  /\ Request(Father(g), Call("close", child_sem[g]))
  \/ at[Father(g)] = "close_father" /\ Request(Father(g), Call("close", father_sem[g]))

Closed(g) ==
  /\ at[Father(g)] \in {"close_child", "close_father"}
  /\ Kernel!Return(Father(g))
  /\ Goto(Father(g), IF at[Father(g)] = "close_child" THEN "close_father" ELSE "done")
  /\ UNCHANGED gameVars

-----------------------------------------------------------------------------
GameStep(g) ==
  \/ TryOpen(g) \/ Opened(g) \/ Taken(g) \/ Fork(g) \/ ForkFails(g)
  \/ Ping(g) \/ Pong(g) \/ Wait(g) \/ Close(g) \/ Closed(g)

PlayerStep(p) == Up(p) \/ Down(p) \/ UpReturns(p) \/ DownReturns(p)

SystemCall(p) == Kernel!Effect(p) /\ UNCHANGED at /\ UNCHANGED gameVars

GameNext == \/ \E g \in Games : GameStep(g)
        \/ \E p \in Players : PlayerStep(p) \/ SystemCall(p)

GameSpec == GameInit /\ [][GameNext]_pingpongVars

-----------------------------------------------------------------------------
Statements == {"unborn", "open_father", "open_child", "fork", "ping", "pong", "up",
               "down", "wait", "close_child", "close_father", "done", "failed"}

TypeOK ==
  /\ at \in [Players -> Statements]
  /\ next \in [Games -> 0 .. MAX_SEM]
  /\ {father_sem, child_sem} \subseteq [Games -> (0 .. MAX_SEM - 1) \cup {NoSem}]
  /\ round \in [Players -> 0 .. Rounds]
  /\ {pings, pongs} \subseteq [Games -> 0 .. Rounds]
  /\ value \in [0 .. MAX_SEM - 1 -> Int]

(* ping and pong strictly alternate in every game, ping first, whatever the   *)
(* other games do with the semaphores of the same array.                      *)
Alternation == \A g \in Games : pings[g] - pongs[g] \in {0, 1}

(* The semaphores a game has opened and not given back: until the effect of   *)
(* its sem_close(), or for ever if the game failed.                           *)
OwnedBy(g) ==
  LET p == Father(g)
      gave(l) == at[p] = l /\ ret[p] = Kernel!Done
  IN {s \in {father_sem[g], child_sem[g]} \ {NoSem} :
        \/ at[p] \notin {"close_child", "close_father", "done"}
        \/ at[p] = "close_child" /\ (s = father_sem[g] \/ ~gave("close_child"))
        \/ at[p] = "close_father" /\ s = father_sem[g] /\ ~gave("close_father")}

(* The search of get_empty_sem() gives every game semaphores of its own, and  *)
(* they are open as long as the game has them.                                *)
Private ==
  \A g \in Games :
    /\ \A s \in OwnedBy(g) : value[s] # Kernel!Closed
    /\ father_sem[g] # NoSem => father_sem[g] # child_sem[g]
    /\ \A h \in Games \ {g} : OwnedBy(g) \cap OwnedBy(h) = {}

(* Once every game is over, the semaphores left open are those of the games   *)
(* that failed after opening one: a game that ends well leaks none.           *)
OnlyFailuresLeak ==
  (\A g \in Games : at[Father(g)] \in {"done", "failed"}) =>
    {s \in 0 .. MAX_SEM - 1 : value[s] # Kernel!Closed} =
      UNION {{father_sem[g], child_sem[g]} \ {NoSem} :
               g \in {h \in Games : at[Father(h)] = "failed"}}

(* PROPERTY: all of this at once (pingpong.c: get_empty_sem(), both loops,   *)
(* the closes).                                                               *)
GamesRight == TypeOK /\ Alternation /\ Private /\ OnlyFailuresLeak

(* A game that is over has printed all its lines, or has failed.  That every  *)
(* game gets there is the absence of deadlock: behaviours are finite.         *)
Over(g) ==
  \/ at[Father(g)] = "failed"
  \/ at[Father(g)] = "done" /\ pings[g] = Rounds /\ pongs[g] = Rounds
=============================================================================
