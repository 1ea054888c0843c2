------------------------------- MODULE Clock -------------------------------
(***************************************************************************)
(* The clock: clockintr() (kernel/trap.c), sys_sleep() and sys_uptime()    *)
(* (kernel/sysproc.c) under tickslock, and kill().                         *)
(***************************************************************************)
EXTENDS Integers

CONSTANTS Sleepers,
          TickMod,    \* ticks is a uint: 2^32
          Durations,  \* bound: the arguments of sleep(), ints
          Victims     \* bound: processes that may be killed

ASSUME ClockAssumption == TickMod \in Nat \ {0} /\ Durations \subseteq Int

VARIABLES ticks,
          sleeping,      \* where each process is
          asked, ticks0, \* n and ticks0 of its sys_sleep()
          dying,         \* p->killed
          since          \* ghost: the ticks since its call

clockVars == <<ticks, sleeping, asked, ticks0, dying, since>>

ClockInit ==
  /\ ticks = 0 /\ sleeping = [p \in Sleepers |-> "user"]
  /\ asked = [p \in Sleepers |-> 0] /\ ticks0 = [p \in Sleepers |-> 0]
  /\ dying = [p \in Sleepers |-> FALSE] /\ since = [p \in Sleepers |-> 0]

InSleep(p) == sleeping[p] \in {"check", "doze", "sleep"}

(* Mutant: the end is worked out first, and its sum wraps.                    *)
Uint(i)    == i % TickMod
PastEnd(p) == ticks >= Uint(ticks0[p] + asked[p])

(* ticks - ticks0 < n compares as uint: a negative n is close to 2^32.        *)
Elapsed(p) == Uint(ticks - ticks0[p]) >= Uint(asked[p])

sys_sleep(p, d) ==
  /\ sleeping[p] = "user" /\ ~dying[p]
  /\ asked' = [asked EXCEPT ![p] = d] /\ ticks0' = [ticks0 EXCEPT ![p] = ticks]
  /\ sleeping' = [sleeping EXCEPT ![p] = "check"] /\ since' = [since EXCEPT ![p] = 0]
  /\ UNCHANGED <<ticks, dying>>

(* tickslock is held from here to the sleep(), but kill() needs no tickslock. *)
CheckTicks(p) ==
  /\ sleeping[p] = "check" /\ \A q \in Sleepers : sleeping[q] # "doze"
  /\ sleeping' = [sleeping EXCEPT ![p] =
       IF Elapsed(p) THEN "slept" ELSE IF dying[p] THEN "failed" ELSE "doze"]
  /\ UNCHANGED <<ticks, asked, ticks0, dying, since>>

DozeTicks(p) ==
  /\ sleeping[p] = "doze" /\ sleeping' = [sleeping EXCEPT ![p] = "sleep"]
  /\ UNCHANGED <<ticks, asked, ticks0, dying, since>>

ReturnTicks(p) ==
  /\ sleeping[p] \in {"slept", "failed"} /\ sleeping' = [sleeping EXCEPT ![p] = "user"]
  /\ asked' = [asked EXCEPT ![p] = 0] /\ ticks0' = [ticks0 EXCEPT ![p] = 0]
  /\ since' = [since EXCEPT ![p] = 0] /\ dying' = [dying EXCEPT ![p] = FALSE]
  /\ UNCHANGED ticks

WakeTicks == [p \in Sleepers |-> IF sleeping[p] = "sleep" THEN "check" ELSE sleeping[p]]
clockintr ==
  /\ \A p \in Sleepers : sleeping[p] # "doze" /\ since[p] < TickMod - 1
  /\ ticks' = Uint(ticks + 1)
  /\ sleeping' = WakeTicks
  /\ since' = [p \in Sleepers |-> IF InSleep(p) THEN since[p] + 1 ELSE since[p]]
  /\ UNCHANGED <<asked, ticks0, dying>>

KillSleeper(p) ==
  /\ p \in Victims /\ InSleep(p) /\ ~dying[p]
  /\ dying' = [dying EXCEPT ![p] = TRUE]
  /\ sleeping' = [sleeping EXCEPT ![p] = IF @ = "sleep" THEN "check" ELSE @]
  /\ UNCHANGED <<ticks, asked, ticks0, since>>

ClockNext == clockintr \/ \E p \in Sleepers :
  \/ \E d \in Durations : sys_sleep(p, d)
  \/ CheckTicks(p) \/ DozeTicks(p) \/ ReturnTicks(p) \/ KillSleeper(p)
ClockSpec == ClockInit /\ [][ClockNext]_clockVars

-----------------------------------------------------------------------------
Patient(p) == sleeping[p] = "slept" => since[p] >= Uint(asked[p])
InTime(p)  == sleeping[p] = "sleep" => since[p] < Uint(asked[p])

(* PROPERTY: sleep() ends after as many ticks as it was asked for and not     *)
(* before, whatever ticks was at the start: its wrap does no harm.  Who still *)
(* sleeps has ticks to wait for, so none is missed (sysproc.c:60).            *)
SleepsExactly == \A p \in Sleepers : Patient(p) /\ InTime(p)
=============================================================================
