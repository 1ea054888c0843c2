-------------------------------- MODULE Printf --------------------------------
(***************************************************************************)
(* printf() and panic() (lab2/kernel/printf.c) on several CPUs, down to    *)
(* uartputc_sync(), which stops every CPU once one has panicked. A CPU     *)
(* prints a line with its arguments, or panics anywhere, in a line too.    *)
(***************************************************************************)
EXTENDS Integers, FiniteSets

CONSTANTS PrintCPUs, NoCaller,
          Length   \* of a line, in characters

ASSUME PrintAssumption == NoCaller \notin PrintCPUs /\ Length \in Nat \ {0}

VARIABLES pr_lock, pr_locking,  \* pr.lock: NoCaller or its holder; pr.locking
          panicked,
          saying,               \* where a CPU is
          locking,              \* the local variable "locking" of printf()
          out,                  \* characters of the line that are out
          panics,               \* the CPU is in panic()
          late                  \* ghost: characters a CPU printed when one had panicked
printfVars == <<pr_lock, pr_locking, panicked, saying, locking, out, panics, late>>

PrintInit ==
  /\ pr_lock = NoCaller /\ pr_locking = TRUE /\ panicked = FALSE
  /\ saying = [c \in PrintCPUs |-> "idle"] /\ locking = [c \in PrintCPUs |-> FALSE]
  /\ out = [c \in PrintCPUs |-> 0] /\ panics = [c \in PrintCPUs |-> FALSE]
  /\ late = [c \in PrintCPUs |-> 0]

Says(c, to) == saying' = [saying EXCEPT ![c] = to]

-----------------------------------------------------------------------------
(* printf(): pr.locking is looked at once, and the answer kept for the end.   *)
Enter(c) ==
  /\ saying[c] = "idle" /\ locking' = [locking EXCEPT ![c] = pr_locking] /\ out' = [out EXCEPT ![c] = 0]
  /\ Says(c, IF pr_locking THEN "acquire" ELSE "check")
  /\ UNCHANGED <<pr_lock, pr_locking, panicked, panics, late>>
Acquire(c) ==
  /\ saying[c] = "acquire" /\ pr_lock = NoCaller /\ pr_lock' = c /\ Says(c, "check")
  /\ UNCHANGED <<pr_locking, panicked, locking, out, panics, late>>

(* uartputc_sync(): a CPU that finds panicked set never goes on.              *)
Check(c) ==
  /\ saying[c] = "check" /\ Says(c, IF panicked THEN "frozen" ELSE "put")
  /\ UNCHANGED <<pr_lock, pr_locking, panicked, locking, out, panics, late>>
Put(c) ==
  /\ saying[c] = "put" /\ out' = [out EXCEPT ![c] = @ + 1]
  /\ late' = IF panicked THEN [late EXCEPT ![c] = @ + 1] ELSE late
  /\ Says(c, IF out[c] + 1 < Length THEN "check" ELSE "over")
  /\ UNCHANGED <<pr_lock, pr_locking, panicked, locking, panics>>

(* A bug in the next definition: pr.locking is looked at again.               *)
LookAgain(c) == pr_locking
Release(c)   == locking[c]
Leave(c) ==
  /\ saying[c] = "over" /\ pr_lock' = IF Release(c) THEN NoCaller ELSE pr_lock
  /\ Says(c, IF Release(c) /\ pr_lock # c THEN "released" ELSE IF panics[c] THEN "said" ELSE "idle")
  /\ UNCHANGED <<pr_locking, panicked, locking, out, panics, late>>

-----------------------------------------------------------------------------
(* panic(), in a printf() (a null format), or anywhere else: the message is   *)
(* one line here.                                                             *)
Panic(c) ==
  /\ saying[c] \in {"idle", "check"} /\ ~panics[c] /\ panics' = [panics EXCEPT ![c] = TRUE]
  /\ pr_locking' = FALSE /\ Says(c, "idle") /\ UNCHANGED <<pr_lock, panicked, locking, out, late>>
Said(c) ==
  /\ saying[c] = "said" /\ panicked' = TRUE /\ Says(c, "stopped")
  /\ UNCHANGED <<pr_lock, pr_locking, locking, out, panics, late>>

PrintNext == \E c \in PrintCPUs :
  Enter(c) \/ Acquire(c) \/ Check(c) \/ Put(c) \/ Leave(c) \/ Panic(c) \/ Said(c)
PrintSpec == PrintInit /\ [][PrintNext]_printfVars

-----------------------------------------------------------------------------
(* Lines are not mixed as long as no CPU panics; and pr.lock is given back by *)
(* whoever took it, though pr.locking may change in between, so that the      *)
(* lines of others come out (printf.c:70).                                    *)
Printing(c) == saying[c] \in {"check", "put", "over"}
WholeLines ==
  /\ pr_locking => Cardinality({c \in PrintCPUs : Printing(c)}) <= 1
  /\ \A c \in PrintCPUs : pr_lock = c /\ ~panics[c] => Printing(c) \/ saying[c] = "frozen"
  /\ \A c \in PrintCPUs : saying[c] # "released"

(* What a CPU has to say when it panics comes out, whoever holds pr.lock, be  *)
(* it the CPU itself: it waits for no lock, and is stopped by nothing but the *)
(* end of another panic (printf.c:121).                                       *)
PanicSaid == \A c \in PrintCPUs : panics[c] =>
  saying[c] # "acquire" /\ (saying[c] = "frozen" => panicked)

(* When a panic's message is out, output stops: a CPU gets at most one more   *)
(* character out, which it had checked for before (uart.c:116).               *)
Frozen == \A c \in PrintCPUs : late[c] <= 1 /\ (saying[c] = "stopped" => panicked)

(* PROPERTY: lines of printf() are whole, and a panic is said and stops every *)
(* CPU (printf.c:64, 117).                                                    *)
PrintfRight == WholeLines /\ PanicSaid /\ Frozen
=============================================================================
