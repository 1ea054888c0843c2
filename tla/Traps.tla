-------------------------------- MODULE Traps --------------------------------
(***************************************************************************)
(* Traps (lab2/kernel/trap.c, trampoline.S, kernelvec.S) and the context   *)
(* switch (swtch.S, proc.c): user programs and kernel threads are trapped, *)
(* lose the CPU, and go on, on this CPU or another. A value of the program *)
(* counter, or of all other registers, is named by who it belongs to and a *)
(* position; user programs and system calls go from position to position.  *)
(* That nobody picks a thread before its swtch() is over is shown in Proc. *)
(***************************************************************************)
EXTENDS Integers

CONSTANTS CPUs, Threads, None

Contexts == Threads \cup CPUs   \* a CPU stands for its scheduler()

VARIABLES cpu,      \* the registers of a CPU, and c->proc
          frame,    \* p->trapframe
          stack,    \* what kernelvec and kerneltrap() keep on a kernel stack
          context,  \* what swtch() has saved of a context that has no CPU
          user,     \* ghost: the position of a user program
          kernel    \* ghost: where interruptible kernel code is, its position
trapVars == <<cpu, frame, stack, context, user, kernel>>

User(p, n)       == [of |-> p, code |-> "user", n |-> n]
Kernel(x, code)  == [of |-> x, code |-> code, n |-> 0]
Registers(x, n)  == [of |-> x, code |-> "kernel", n |-> n]

Init ==
  /\ cpu = [c \in CPUs |-> [mode |-> "kernel", sie |-> TRUE, spp |-> "user", spie |-> TRUE,
              sepc |-> Kernel(c, "none"), cause |-> None, stvec |-> "kernelvec",
              pc |-> Kernel(c, "scheduler"), r |-> Registers(c, 0), tp |-> c, proc |-> c]]
  /\ frame = [p \in Threads |-> [r |-> User(p, 0), epc |-> User(p, 0), hartid |-> None]]
  /\ stack = [x \in Contexts |-> None]
  /\ context = [x \in Contexts |-> IF x \in CPUs THEN None
                  ELSE [pc |-> Kernel(x, "forkret"), r |-> Registers(x, 0), intena |-> TRUE]]
  /\ user = [p \in Threads |-> 0]
  /\ kernel = [x \in Contexts |-> [code |-> IF x \in CPUs THEN "scheduler" ELSE "ret", n |-> 0]]

At(c, code) == cpu[c].pc.code = code
Goes(c, code) == Kernel(cpu[c].proc, code)
Panic(c) == cpu' = [cpu EXCEPT ![c].pc = Goes(c, "panic")]

-----------------------------------------------------------------------------
(* The hardware: a program goes on or makes a system call; an interrupt.      *)
UserStep(c) ==
  /\ cpu[c].mode = "user" /\ user' = [user EXCEPT ![cpu[c].proc] = 1 - @]
  /\ cpu' = [cpu EXCEPT ![c].pc.n = 1 - @, ![c].r.n = 1 - @]
  /\ UNCHANGED <<frame, stack, context, kernel>>
Trap(c, cause) ==
  /\ cpu' = [cpu EXCEPT ![c] = [@ EXCEPT !.spp = cpu[c].mode, !.spie = cpu[c].sie, !.sie = FALSE,
                                         !.mode = "kernel", !.sepc = cpu[c].pc, !.cause = cause,
                                         !.pc = Goes(c, cpu[c].stvec)]]
  /\ UNCHANGED <<frame, stack, context, user, kernel>>
Ecall(c) == cpu[c].mode = "user" /\ Trap(c, "ecall")
Interrupt(c) == /\ cpu[c].mode = "user" \/ cpu[c].sie
                /\ \E cause \in {"timer", "device"} : Trap(c, cause)

-----------------------------------------------------------------------------
(* From a user program: trampoline.S and usertrap().                          *)
uservec(c) ==
  LET p == cpu[c].proc IN
  /\ At(c, "uservec") /\ p \in Threads
  /\ frame' = [frame EXCEPT ![p].r = cpu[c].r]
  /\ cpu' = [cpu EXCEPT ![c] = [@ EXCEPT !.r = Registers(p, 0), !.tp = frame[p].hartid,
                                         !.pc = Goes(c, "usertrap")]]
  /\ UNCHANGED <<stack, context, user, kernel>>

Next4(c) == IF cpu[c].cause = "ecall" THEN 1 - cpu[c].sepc.n ELSE cpu[c].sepc.n
Then(c) == CASE cpu[c].cause = "ecall" -> "syscall"
             [] cpu[c].cause = "timer" -> "yield"
             [] cpu[c].cause = "device" -> "ret"
usertrap(c) ==
  LET p == cpu[c].proc IN
  /\ At(c, "usertrap") /\ UNCHANGED <<stack, context, user>>
  /\ \/ cpu[c].spp # "user" /\ Panic(c) /\ UNCHANGED <<frame, kernel>>
     \/ /\ cpu[c].spp = "user"
        /\ frame' = [frame EXCEPT ![p].epc = [cpu[c].sepc EXCEPT !.n = Next4(c)]]
        /\ cpu' = [cpu EXCEPT ![c] = [@ EXCEPT !.stvec = "kernelvec", !.sie = cpu[c].cause = "ecall",
                                               !.pc = Goes(c, Then(c))]]
        /\ kernel' = [kernel EXCEPT ![p] = [code |-> IF Then(c) = "syscall" THEN "syscall" ELSE "ret",
                                            n |-> 0]]

(* syscall(): kernel code that goes on, sleeps, returns with a value in a0.   *)
KernelStep(c) ==
  /\ At(c, "syscall") /\ cpu' = [cpu EXCEPT ![c].r.n = 1 - @]
  /\ kernel' = [kernel EXCEPT ![cpu[c].proc].n = 1 - @] /\ UNCHANGED <<frame, stack, context, user>>
SyscallEnds(c) ==
  LET p == cpu[c].proc IN
  /\ At(c, "syscall") /\ frame' = [frame EXCEPT ![p].r.n = 1 - @] /\ user' = [user EXCEPT ![p] = 1 - @]
  /\ cpu' = [cpu EXCEPT ![c].pc = Goes(c, "ret")]
  /\ kernel' = [kernel EXCEPT ![p].code = "ret"] /\ UNCHANGED <<stack, context>>

-----------------------------------------------------------------------------
(* To a user program: usertrapret() and userret.                              *)
usertrapret(c) ==
  /\ At(c, "ret") /\ frame' = [frame EXCEPT ![cpu[c].proc].hartid = cpu[c].tp]
  /\ cpu' = [cpu EXCEPT ![c] = [@ EXCEPT !.sie = FALSE, !.stvec = "uservec", !.pc = Goes(c, "sstatus")]]
  /\ UNCHANGED <<stack, context, user, kernel>>
SetSstatus(c) ==
  /\ At(c, "sstatus")
  /\ cpu' = [cpu EXCEPT ![c] = [@ EXCEPT !.spp = "user", !.spie = TRUE,
                                         !.sepc = frame[cpu[c].proc].epc, !.pc = Goes(c, "userret")]]
  /\ UNCHANGED <<frame, stack, context, user, kernel>>
sret(c, r, pc, spp, spie, tp) ==
  cpu' = [cpu EXCEPT ![c] = [@ EXCEPT !.r = r, !.pc = pc, !.mode = spp, !.sie = spie, !.tp = tp,
                                      !.spp = "user", !.spie = TRUE]]
userret(c) ==
  /\ At(c, "userret") /\ UNCHANGED <<frame, stack, context, user, kernel>>
  /\ sret(c, frame[cpu[c].proc].r, cpu[c].sepc, cpu[c].spp, cpu[c].spie, None)

-----------------------------------------------------------------------------
(* From kernel code: kernelvec and kerneltrap(), before and after its yield(). *)
kernelvec(c) ==
  LET x == cpu[c].proc IN
  /\ At(c, "kernelvec") /\ UNCHANGED <<frame, context, user, kernel>>
  /\ \/ cpu[c].spp # "kernel" /\ Panic(c) /\ UNCHANGED stack
     \/ /\ cpu[c].spp = "kernel"
        /\ stack' = [stack EXCEPT ![x] = [r |-> cpu[c].r, tp |-> cpu[c].tp, sepc |-> cpu[c].sepc,
                                          spp |-> cpu[c].spp, spie |-> cpu[c].spie]]
        /\ cpu' = [cpu EXCEPT ![c].r = Kernel(x, "trap"),
                     ![c].pc = Goes(c, IF cpu[c].cause = "timer" /\ x \in Threads THEN "kyield" ELSE "kreturn")]

(* A bug in kerneltrap(): tp is restored too.                                 *)
TpRestored(c) ==
  LET x == cpu[c].proc IN
  /\ At(c, "kreturn") /\ stack' = [stack EXCEPT ![x] = None] /\ UNCHANGED <<frame, context, user, kernel>>
  /\ sret(c, stack[x].r, stack[x].sepc, stack[x].spp, stack[x].spie, stack[x].tp)
kerneltrap(c) ==
  LET x == cpu[c].proc IN
  /\ At(c, "kreturn") /\ stack' = [stack EXCEPT ![x] = None] /\ UNCHANGED <<frame, context, user, kernel>>
  /\ sret(c, stack[x].r, stack[x].sepc, stack[x].spp, stack[x].spie, cpu[c].tp)

-----------------------------------------------------------------------------
(* yield() and sleep(): the lock turns interrupts off and its release, on     *)
(* both sides of swtch(), puts back what acquire() found.                     *)
Away(c) ==
  LET p == cpu[c].proc
      then == CASE At(c, "syscall") -> "syscall" [] At(c, "yield") -> "ret" [] At(c, "kyield") -> "kreturn"
  IN /\ cpu[c].pc.code \in {"syscall", "yield", "kyield"}
     /\ context' = [context EXCEPT ![c] = None,
                      ![p] = [pc |-> Kernel(p, then), r |-> cpu[c].r, intena |-> cpu[c].sie]]
     /\ cpu' = [cpu EXCEPT ![c] = [@ EXCEPT !.pc = context[c].pc, !.r = context[c].r, !.proc = c]]
     /\ UNCHANGED <<frame, stack, user, kernel>>

(* scheduler(): intr_on(), and the switch to a process; forkret() releases    *)
(* the lock scheduler() took, the others have their own intena.               *)
IntrOn(c) ==
  /\ At(c, "scheduler") /\ ~cpu[c].sie /\ cpu' = [cpu EXCEPT ![c].sie = TRUE]
  /\ UNCHANGED <<frame, stack, context, user, kernel>>
New(p) == context[p].pc.code = "forkret"
Dispatch(c, p) ==
  /\ At(c, "scheduler") /\ context[p] # None
  /\ context' = [context EXCEPT ![p] = None,
                   ![c] = [pc |-> cpu[c].pc, r |-> cpu[c].r, intena |-> cpu[c].sie]]
  /\ cpu' = [cpu EXCEPT ![c] = [@ EXCEPT !.r = context[p].r, !.proc = p,
                                  !.pc = IF New(p) THEN Kernel(p, "ret") ELSE context[p].pc,
                                  !.sie = IF New(p) THEN @ ELSE context[p].intena]]
  /\ UNCHANGED <<frame, stack, user, kernel>>

Next == \E c \in CPUs :
  \/ UserStep(c) \/ Ecall(c) \/ Interrupt(c) \/ uservec(c) \/ usertrap(c) \/ KernelStep(c)
  \/ SyscallEnds(c) \/ usertrapret(c) \/ SetSstatus(c) \/ userret(c) \/ kernelvec(c) \/ kerneltrap(c)
  \/ Away(c) \/ IntrOn(c) \/ \E p \in Threads : Dispatch(c, p)
Spec == Init /\ [][Next]_trapVars

-----------------------------------------------------------------------------
(* PROPERTY: a user program goes on where its trap found it, or after its     *)
(* system call, with its own registers, whatever happened meanwhile and on    *)
(* whatever CPU; and traps of it go to uservec.                               *)
ProgramsGoOn == \A c \in CPUs : cpu[c].mode = "user" =>
  LET p == cpu[c].proc
  IN /\ cpu[c].pc = User(p, user[p]) /\ cpu[c].r = cpu[c].pc
     /\ cpu[c].stvec = "uservec" /\ cpu[c].sie

(* PROPERTY: so does kernel code that was interrupted, though its CPU may     *)
(* have run others and taken other traps since, or it has moved (trap.c:157). *)
Interruptible == {"syscall", "ret", "scheduler"}
KernelGoesOn == \A c \in CPUs : LET x == cpu[c].proc IN
  /\ cpu[c].pc.code \in Interruptible =>
       /\ cpu[c].pc = Kernel(x, kernel[x].code) /\ cpu[c].r = Registers(x, kernel[x].n)
       /\ cpu[c].mode = "kernel" /\ cpu[c].stvec = "kernelvec"
  /\ cpu[c].pc.code = "syscall" => cpu[c].sie

(* PROPERTY: kernel code that asks which CPU it is on is told so: cpuid()     *)
(* reads tp, which user programs may change and threads take along.           *)
HartRight == \A c \in CPUs :
  cpu[c].mode = "kernel" /\ cpu[c].pc.code # "uservec" => cpu[c].tp = c

(* PROPERTY: the handlers' checks of where a trap came from never fail, and   *)
(* nothing is interrupted on its way from or to a user program.               *)
TrapsRight == \A c \in CPUs :
  /\ cpu[c].pc.code # "panic"
  /\ cpu[c].sie => cpu[c].mode = "user" \/ cpu[c].pc.code \in Interruptible
  /\ cpu[c].pc.code = "uservec" => cpu[c].spp = "user"
=============================================================================
