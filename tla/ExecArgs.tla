------------------------------ MODULE ExecArgs -------------------------------
(***************************************************************************)
(* The arguments of exec(): sys_exec() (lab2/kernel/sysfile.c) fetches the *)
(* strings, exec() (lab2/kernel/exec.c) pushes them and their addresses on *)
(* the one page of the new stack. What both do with memory and the program *)
(* is in modules Memory and Strings; here any of it works or does not.     *)
(***************************************************************************)
EXTENDS Integers, Sequences

CONSTANTS MAXARG, PGSIZE,
          ALIGN, PTR,     \* of the stack pointer; the size of an address
          Arguments,      \* bound: the user's arguments, the lengths of strings
          StackBase       \* where the stack's page begins

VARIABLES at,             \* the loop: "fetch", "push", or "over"
          uargv, argv,    \* the user's arguments, those in the kernel
          sp, ustack,     \* the stack pointer, the addresses of the strings pushed
          ret             \* what is returned: argc, or -1
argVars == <<at, uargv, argv, sp, ustack, ret>>

Init == /\ at = "fetch" /\ uargv \in Arguments /\ argv = <<>>
        /\ sp = StackBase + PGSIZE /\ ustack = <<>> /\ ret = -1

-----------------------------------------------------------------------------
(* A turn of the loop of sys_exec(); kalloc() or fetchstr() may fail.         *)
TooMany(n) == n >= MAXARG
Fetched == Len(argv) = Len(uargv)
Fetch ==
  /\ at = "fetch" /\ ~TooMany(Len(argv)) /\ ~Fetched /\ uargv[Len(argv) + 1] < PGSIZE
  /\ argv' = Append(argv, uargv[Len(argv) + 1]) /\ UNCHANGED <<at, uargv, sp, ustack, ret>>
FetchFails ==
  /\ at = "fetch" /\ (TooMany(Len(argv)) \/ ~Fetched)
  /\ at' = "over" /\ UNCHANGED <<uargv, argv, sp, ustack, ret>>
Loaded ==
  /\ at = "fetch" /\ ~TooMany(Len(argv)) /\ Fetched
  /\ at' = "push" /\ UNCHANGED <<uargv, argv, sp, ustack, ret>>

(* Where a thing of n bytes is pushed.                                        *)
Below(n) == LET s == sp - n IN s - (s % ALIGN)
Argc     == Len(ustack)
Size     == argv[Argc + 1] + 1
Push ==
  /\ at = "push" /\ Argc < Len(argv) /\ Argc < MAXARG /\ Below(Size) >= StackBase
  /\ sp' = Below(Size) /\ ustack' = Append(ustack, sp') /\ UNCHANGED <<at, uargv, argv, ret>>
PushFails ==
  /\ at = "push" /\ Argc < Len(argv) /\ (Argc >= MAXARG \/ Below(Size) < StackBase)
  /\ at' = "over" /\ UNCHANGED <<uargv, argv, sp, ustack, ret>>
PushArray ==
  /\ at = "push" /\ Argc = Len(argv) /\ at' = "over" /\ UNCHANGED <<uargv, argv, ustack>>
  /\ sp' = Below((Argc + 1) * PTR) /\ ret' = IF sp' < StackBase THEN -1 ELSE Argc

Over == at = "over" /\ UNCHANGED argVars
Next == Fetch \/ FetchFails \/ Loaded \/ Push \/ PushFails \/ PushArray \/ Over
Spec == Init /\ [][Next]_argVars

-----------------------------------------------------------------------------
(* PROPERTY: on the stack a program finds all its arguments, in order, whole, *)
(* aligned, inside the stack's page and below them the array of their         *)
(* addresses; the null address that ends the array has a place in ustack[]    *)
(* (exec() counts on sys_exec() for that).                                    *)
ArgsRight ==
  /\ at = "push" => Len(argv) + 1 <= MAXARG
  /\ at = "over" /\ ret >= 0 =>
       /\ ret = Len(uargv) /\ Len(ustack) = ret
       /\ \A k \in 1 .. ret :
            /\ ustack[k] % ALIGN = 0
            /\ ustack[k] + uargv[k] + 1 <= IF k = 1 THEN StackBase + PGSIZE ELSE ustack[k - 1]
       /\ sp % ALIGN = 0 /\ sp >= StackBase
       /\ sp + (ret + 1) * PTR <= IF ret = 0 THEN StackBase + PGSIZE ELSE ustack[ret]
=============================================================================
