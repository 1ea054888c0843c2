------------------------------ MODULE Console ------------------------------
(***************************************************************************)
(* Console input (kernel/console.c): consoleintr() edits the line being    *)
(* typed in a ring, consoleread() hands lines out, in any number of        *)
(* processes.  A read has cons.lock except in sleep(); kill() takes no     *)
(* lock of the console.                                                    *)
(***************************************************************************)
EXTENDS Integers, Sequences, FiniteSets

CONSTANTS Readers,
          Plain,           \* characters without a meaning
          INPUT_BUF_SIZE,
          IndexMod,        \* r, w and e are uint: 2^32
          MaxRead,         \* bound: the n of a read
          NoChar           \* and no reader

ASSUME ConsAssumption ==
  /\ INPUT_BUF_SIZE \in Nat \ {0} /\ IndexMod \in Nat /\ IndexMod > INPUT_BUF_SIZE
  /\ IndexMod % INPUT_BUF_SIZE = 0 /\ MaxRead \in Nat
  /\ NoChar \notin Readers /\ {"\r", "\n", "^D"} \cap Plain = {}

Keys == Plain \cup {"\r", "\n", "^D"}

VARIABLES cons_buf, cons_r, cons_w, cons_e,   \* cons.buf and its indices
          reader,          \* who has cons.lock
          reading,         \* where each process is
          togo,            \* n of its consoleread()
          result,          \* the bytes it has got; <<"^D">> for a read of 0 bytes
          doomed           \* p->killed

consVars == <<cons_buf, cons_r, cons_w, cons_e, reader, reading, togo, result, doomed>>

ConsInit ==
  /\ cons_buf = [i \in 0 .. INPUT_BUF_SIZE - 1 |-> NoChar] /\ cons_r = 0 /\ cons_w = 0 /\ cons_e = 0
  /\ reader = NoChar /\ reading = [p \in Readers |-> "user"]
  /\ togo = [p \in Readers |-> 0] /\ result = [p \in Readers |-> <<>>]
  /\ doomed = [p \in Readers |-> FALSE]

Diff(i, j) == (i - j) % IndexMod
At(i)      == cons_buf[i % INPUT_BUF_SIZE]
Text(i, j) == [k \in 1 .. Diff(j, i) |-> At(i + k - 1)]
ReaderAt(p, l)   == reading' = [reading EXCEPT ![p] = l]

-----------------------------------------------------------------------------
(* consoleintr() when cons.lock is free; the echo is in Uart.                 *)
Typed(c) == IF c = "\r" THEN "\n" ELSE c
EndsLine(c, n) == Typed(c) \in {"\n", "^D"} \/ n = INPUT_BUF_SIZE

(* Mutant: consoleintr() wakes nobody.                                        *)
WakeNone == reading

WakeAll == [p \in Readers |-> IF reading[p] = "sleep" THEN "read" ELSE reading[p]]
Type(c) ==
  /\ reader = NoChar /\ Diff(cons_e, cons_r) < INPUT_BUF_SIZE
  /\ cons_buf' = [cons_buf EXCEPT ![cons_e % INPUT_BUF_SIZE] = Typed(c)]
  /\ cons_e' = (cons_e + 1) % IndexMod
  /\ IF EndsLine(c, Diff(cons_e, cons_r) + 1) THEN cons_w' = cons_e' /\ reading' = WakeAll
     ELSE UNCHANGED <<cons_w, reading>>
  /\ UNCHANGED <<cons_r, reader, togo, result, doomed>>

(* ^H and Delete, ^U.                                                         *)
Backspace ==
  /\ reader = NoChar /\ cons_e # cons_w
  /\ cons_e' = (cons_e - 1) % IndexMod
  /\ UNCHANGED <<cons_buf, cons_r, cons_w, reader, reading, togo, result, doomed>>

KillLine ==
  LET stops == {k \in 0 .. Diff(cons_e, cons_w) : k = Diff(cons_e, cons_w) \/ At(cons_e - k - 1) = "\n"} IN
  /\ reader = NoChar /\ cons_e # cons_w
  /\ \E k \in stops : (\A j \in stops : k <= j) /\ cons_e' = (cons_e - k) % IndexMod
  /\ UNCHANGED <<cons_buf, cons_r, cons_w, reader, reading, togo, result, doomed>>

-----------------------------------------------------------------------------
(* consoleread().                                                             *)
Read(p, n) ==
  /\ reading[p] = "user" /\ result[p] = <<>> /\ ~doomed[p]
  /\ ReaderAt(p, "read") /\ togo' = [togo EXCEPT ![p] = n]
  /\ UNCHANGED <<cons_buf, cons_r, cons_w, cons_e, reader, result, doomed>>

HasLock(p) == reading[p] = "read" /\ reader \in {NoChar, p}
Returns(p) == /\ ReaderAt(p, "user") /\ reader' = NoChar
            /\ togo' = [togo EXCEPT ![p] = 0]

WaitForLine(p) ==
  /\ HasLock(p) /\ cons_r = cons_w /\ togo[p] > 0
  /\ IF doomed[p] THEN Returns(p) /\ result' = [result EXCEPT ![p] = <<>>]
     ELSE ReaderAt(p, "doze") /\ reader' = p /\ UNCHANGED <<togo, result>>
  /\ UNCHANGED <<cons_buf, cons_r, cons_w, cons_e, doomed>>

Sleep(p) ==
  /\ reading[p] = "doze"
  /\ ReaderAt(p, "sleep") /\ reader' = NoChar
  /\ UNCHANGED <<cons_buf, cons_r, cons_w, cons_e, togo, result, doomed>>

(* One turn of the loop; the read goes on with the lock.                      *)
Byte(p) ==
  LET c == At(cons_r)  n == togo[p] - 1 IN
  /\ HasLock(p) /\ cons_r # cons_w /\ c # "^D"
  /\ cons_r' = (cons_r + 1) % IndexMod
  /\ \/ /\ result' = [result EXCEPT ![p] = Append(@, c)]
        /\ IF c = "\n" \/ n = 0 THEN Returns(p)
           ELSE ReaderAt(p, "read") /\ reader' = p /\ togo' = [togo EXCEPT ![p] = n]
     \/ Returns(p) /\ result' = result  \* either_copyout() fails
  /\ UNCHANGED <<cons_buf, cons_w, cons_e, doomed>>

(* ^D ends the read; after some bytes it is put back for the next one.        *)
PutBack(p) == result[p] # <<>>
EndOfFile(p) ==
  /\ HasLock(p) /\ cons_r # cons_w /\ At(cons_r) = "^D"
  /\ cons_r' = IF PutBack(p) THEN cons_r ELSE (cons_r + 1) % IndexMod
  /\ result' = IF PutBack(p) THEN result ELSE [result EXCEPT ![p] = <<"^D">>]
  /\ Returns(p)
  /\ UNCHANGED <<cons_buf, cons_w, cons_e, doomed>>

Take(p) ==
  /\ reading[p] = "user" /\ result[p] # <<>>
  /\ result' = [result EXCEPT ![p] = <<>>]
  /\ UNCHANGED <<cons_buf, cons_r, cons_w, cons_e, reader, reading, togo, doomed>>

(* kill(), and the death of the process when its call has returned.           *)
Kill(p) ==
  /\ ~doomed[p] /\ doomed' = [doomed EXCEPT ![p] = TRUE]
  /\ ReaderAt(p, IF reading[p] = "sleep" THEN "read" ELSE reading[p])
  /\ UNCHANGED <<cons_buf, cons_r, cons_w, cons_e, reader, togo, result>>

Replaced(p) ==
  /\ reading[p] = "user" /\ result[p] = <<>> /\ doomed[p]
  /\ doomed' = [doomed EXCEPT ![p] = FALSE]
  /\ UNCHANGED <<cons_buf, cons_r, cons_w, cons_e, reader, reading, togo, result>>

ConsNext ==
  \/ \E c \in Keys : Type(c)
  \/ Backspace \/ KillLine
  \/ \E p \in Readers : \/ \E n \in 1 .. MaxRead : Read(p, n)
                        \/ WaitForLine(p) \/ Sleep(p) \/ Byte(p) \/ EndOfFile(p)
                        \/ Take(p) \/ Kill(p) \/ Replaced(p)
ConsSpec == ConsInit /\ [][ConsNext]_consVars

-----------------------------------------------------------------------------
Discipline == INSTANCE LineInput WITH
  Size <- INPUT_BUF_SIZE, lines <- Text(cons_r, cons_w), edit <- Text(cons_w, cons_e),
  given <- result

(* PROPERTY: the console hands out what was typed as LineInput says, and who  *)
(* sleeps has nothing to read: a line that arrives while a process makes up   *)
(* its mind to sleep, or for which several wait, wakes them (console.c:80,    *)
(* 135).                                                                      *)
ConsoleRight ==
  /\ [](\A p \in Readers : reading[p] = "sleep" => cons_r = cons_w)
  /\ Discipline!Spec
=============================================================================
